--------------------------- MODULE ProvisioningProofs ---------------------------
(***************************************************************************)
(* Proofs about Provisioning, for every set of orders and sessions, every  *)
(* pool and every bound.  Inv relates a session to the rows: only the      *)
(* session that has paid for an order, or has found it paid, gets past its *)
(* first statement, and what two sessions have written and not committed   *)
(* is apart.  OneEnvironment, NeverRebuilt and PoolGated rest on three     *)
(* invariants of their own, One, FaultOrFresh and Pooled, each inductive   *)
(* relative to Inv.                                                        *)
(***************************************************************************)
EXTENDS Provisioning, SequenceTheorems, FiniteSetTheorems, TLAPS

(***************************************************************************)
(* Runs and their writes with some of their fields changed, written out.   *)
(***************************************************************************)
Stepped(q, stage, saw, w) ==
    [at |-> stage, by |-> q.by, o |-> q.o, j |-> q.j, attempt |-> q.attempt, ghost |-> q.ghost,
     adopts |-> q.adopts, saw |-> saw, e |-> q.e, was |-> q.was, large |-> q.large, n |-> q.n,
     made |-> q.made, w |-> w]
Found(q, e, n, was, large) ==
    [at |-> "found", by |-> q.by, o |-> q.o, j |-> q.j, attempt |-> q.attempt, ghost |-> q.ghost,
     adopts |-> q.adopts, saw |-> q.saw, e |-> e, was |-> was, large |-> large, n |-> n,
     made |-> q.made, w |-> q.w]
Built(q, e, made, w) ==
    [at |-> "built", by |-> q.by, o |-> q.o, j |-> q.j, attempt |-> q.attempt, ghost |-> q.ghost,
     adopts |-> q.adopts, saw |-> q.saw, e |-> e, was |-> q.was, large |-> q.large, n |-> q.n,
     made |-> made, w |-> w]
Wrote(pay, ord, insert, jb, en) ==
    [pay |-> pay, order |-> ord, sub |-> insert, job |-> jb, env |-> en]

LEMMA GoRecord ==
    ASSUME NEW q \in RunState, NEW stage, NEW w
    PROVE  [q EXCEPT !.at = stage, !.w = w] = Stepped(q, stage, q.saw, w)
<1> DEFINE q1 == [q EXCEPT !.at = stage]
<1>1. q1 = Stepped(q, stage, q.saw, q.w)
  BY DEF RunState, Stepped
<1> HIDE DEF q1
<1>2. [q1 EXCEPT !.w = w] = Stepped(q, stage, q.saw, w)
  BY <1>1 DEF Stepped
<1> QED BY <1>2, Zenon DEF q1

LEMMA OpenedRecord ==
    ASSUME NEW q \in RunState, NEW stage, NEW w, NEW saw
    PROVE  [q EXCEPT !.at = stage, !.w = w, !.saw = saw] = Stepped(q, stage, saw, w)
<1> DEFINE q1 == [q EXCEPT !.at = stage, !.w = w]
<1>1. q1 = Stepped(q, stage, q.saw, w)
  BY GoRecord
<1> HIDE DEF q1
<1>2. [q1 EXCEPT !.saw = saw] = Stepped(q, stage, saw, w)
  BY <1>1 DEF Stepped
<1> QED BY <1>2, Zenon DEF q1

LEMMA FoundRecord ==
    ASSUME NEW q \in RunState, NEW e, NEW n, NEW was, NEW large
    PROVE  [q EXCEPT !.at = "found", !.e = e, !.n = n, !.was = was, !.large = large]
              = Found(q, e, n, was, large)
<1> DEFINE q1 == [q EXCEPT !.at = "found"]
<1>1. q1 = Found(q, q.e, q.n, q.was, q.large)
  BY DEF RunState, Found
<1> HIDE DEF q1
<1> DEFINE q2 == [q1 EXCEPT !.e = e]
<1>2. q2 = Found(q, e, q.n, q.was, q.large)
  BY <1>1 DEF Found
<1> HIDE DEF q2
<1> DEFINE q3 == [q2 EXCEPT !.n = n]
<1>3. q3 = Found(q, e, n, q.was, q.large)
  BY <1>2 DEF Found
<1> HIDE DEF q3
<1> DEFINE q4 == [q3 EXCEPT !.was = was]
<1>4. q4 = Found(q, e, n, was, q.large)
  BY <1>3 DEF Found
<1> HIDE DEF q4
<1>5. [q4 EXCEPT !.large = large] = Found(q, e, n, was, large)
  BY <1>4 DEF Found
<1> QED BY <1>5, Zenon DEF q1, q2, q3, q4

LEMMA BuiltRecord ==
    ASSUME NEW q \in RunState, NEW e, NEW s, NEW b
    PROVE  [q EXCEPT !.at = "built", !.made = b, !.w = [q.w EXCEPT !.env = s], !.e = e]
              = Built(q, e, b, Wrote(q.w.pay, q.w.order, q.w.sub, q.w.job, s))
<1> DEFINE q1 == [q EXCEPT !.at = "built"]
<1>1. q1 = Stepped(q, "built", q.saw, q.w)
  BY DEF RunState, Stepped
<1> HIDE DEF q1
<1> DEFINE q2 == [q1 EXCEPT !.made = b]
<1>2. q2 = Built(q, q.e, b, q.w)
  BY <1>1 DEF Built, Stepped
<1> HIDE DEF q2
<1> DEFINE x == [q.w EXCEPT !.env = s]
           q3 == [q2 EXCEPT !.w = x]
<1>3. x = Wrote(q.w.pay, q.w.order, q.w.sub, q.w.job, s)
  <2>1. q.w \in Writes
    BY DEF RunState
  <2> QED BY <2>1 DEF Writes, Wrote
<1> HIDE DEF x
<1>4. q3 = Built(q, q.e, b, x)
  BY <1>2 DEF Built
<1> HIDE DEF q3
<1>5. [q3 EXCEPT !.e = e] = Built(q, e, b, x)
  BY <1>4 DEF Built
<1>6. [q EXCEPT !.at = "built", !.made = b, !.w = x, !.e = e] = Built(q, e, b, x)
  BY <1>5, Zenon DEF q1, q2, q3
<1> QED BY <1>3, <1>6, Zenon DEF x

LEMMA OpenedWrites ==
    ASSUME NEW w \in Writes, NEW b
    PROVE  [w EXCEPT !.sub = b, !.job = "running"] = Wrote(w.pay, w.order, b, "running", w.env)
<1> DEFINE w1 == [w EXCEPT !.sub = b]
<1>1. w1 = Wrote(w.pay, w.order, b, w.job, w.env)
  BY DEF Writes, Wrote
<1> HIDE DEF w1
<1>2. [w1 EXCEPT !.job = "running"] = Wrote(w.pay, w.order, b, "running", w.env)
  BY <1>1 DEF Wrote
<1> QED BY <1>2, Zenon DEF w1

\* Writes to the environment, the job and the order, as Complete and Marks
\* make them.
LEMMA ThreeWrites ==
    ASSUME NEW w \in Writes, NEW en, NEW jb, NEW ord
    PROVE  /\ [w EXCEPT !.env = en, !.job = jb, !.order = ord] = Wrote(w.pay, ord, w.sub, jb, en)
           /\ [w EXCEPT !.job = jb, !.order = ord, !.env = en] = Wrote(w.pay, ord, w.sub, jb, en)
<1> DEFINE w1 == [w EXCEPT !.env = en]
           w2 == [w1 EXCEPT !.job = jb]
           u1 == [w EXCEPT !.job = jb]
           u2 == [u1 EXCEPT !.order = ord]
<1>1. w1 = Wrote(w.pay, w.order, w.sub, w.job, en)
  BY DEF Writes, Wrote
<1>2. u1 = Wrote(w.pay, w.order, w.sub, jb, w.env)
  BY DEF Writes, Wrote
<1> HIDE DEF w1, u1
<1>3. w2 = Wrote(w.pay, w.order, w.sub, jb, en)
  BY <1>1 DEF Wrote
<1>4. u2 = Wrote(w.pay, ord, w.sub, jb, w.env)
  BY <1>2 DEF Wrote
<1> HIDE DEF w2, u2
<1>5. [w2 EXCEPT !.order = ord] = Wrote(w.pay, ord, w.sub, jb, en)
  BY <1>3 DEF Wrote
<1>6. [u2 EXCEPT !.env = en] = Wrote(w.pay, ord, w.sub, jb, en)
  BY <1>4 DEF Wrote
<1>7. [w EXCEPT !.env = en, !.job = jb, !.order = ord] = Wrote(w.pay, ord, w.sub, jb, en)
  BY <1>5, Zenon DEF w1, w2
<1>8. [w EXCEPT !.job = jb, !.order = ord, !.env = en] = Wrote(w.pay, ord, w.sub, jb, en)
  BY <1>6, Zenon DEF u1, u2
<1> QED BY <1>7, <1>8

LEMMA TwoWrites ==
    ASSUME NEW w \in Writes, NEW pay, NEW ord
    PROVE  [w EXCEPT !.pay = pay, !.order = ord] = Wrote(pay, ord, w.sub, w.job, w.env)
<1> DEFINE w1 == [w EXCEPT !.pay = pay]
<1>1. w1 = Wrote(pay, w.order, w.sub, w.job, w.env)
  BY DEF Writes, Wrote
<1> HIDE DEF w1
<1>2. [w1 EXCEPT !.order = ord] = Wrote(pay, ord, w.sub, w.job, w.env)
  BY <1>1 DEF Wrote
<1> QED BY <1>2, Zenon DEF w1

LEMMA OneWrite ==
    ASSUME NEW w \in Writes, NEW v
    PROVE  /\ [w EXCEPT !.job = v] = Wrote(w.pay, w.order, w.sub, v, w.env)
           /\ [w EXCEPT !.env = v] = Wrote(w.pay, w.order, w.sub, w.job, v)
           /\ [w EXCEPT !.order = v] = Wrote(w.pay, v, w.sub, w.job, w.env)
BY DEF Writes, Wrote

-------------------------------------------------------------------------------
USE SizeAssumption, BoundAssumption DEF SizeAssumption, BoundAssumption

AnyRun == run \in [Runs -> RunState \cup {Idle}]

LEMMA BusyShape ==
    ASSUME AnyRun, NEW r \in Runs
    PROVE  /\ run[r] # Idle => run[r] \in RunState
           /\ run[r].at # "idle" => run[r] \in RunState
           /\ \A stage \in Stage : At(r, stage) => run[r] \in RunState
BY DEF AnyRun, Idle, At, Stage

LEMMA SetRun ==
    ASSUME AnyRun, NEW r \in Runs, NEW v, run' = [run EXCEPT ![r] = v]
    PROVE  /\ run'[r] = v /\ \A x \in Runs \ {r} : run'[x] = run[x]
           /\ v \in RunState \cup {Idle} => AnyRun'
BY DEF AnyRun

LEMMA GoStep ==
    ASSUME AnyRun, NEW r \in Runs, run[r] \in RunState, NEW stage, NEW w, Go(r, stage, w)
    PROVE  run' = [run EXCEPT ![r] = Stepped(run[r], stage, run[r].saw, w)]
<1>1. [run[r] EXCEPT !.at = stage, !.w = w] = Stepped(run[r], stage, run[r].saw, w)
  BY GoRecord
<1>2. run' = [run EXCEPT ![r] = [run[r] EXCEPT !.at = stage, !.w = w]]
  BY Zenon DEF Go
<1> QED BY <1>1, <1>2, Zenon

\* The fields of a run and of what it wrote have their types, and so have the
\* runs that come of it.
LEMMA Fields ==
    ASSUME NEW q \in RunState
    PROVE  /\ q.at \in Stage /\ q.by \in By /\ q.o \in Orders /\ q.j \in JobId
           /\ q.attempt \in 0..MaxAttempts /\ q.ghost \in BOOLEAN /\ q.adopts \in BOOLEAN
           /\ q.saw \in OrderStatus /\ q.e \in Nat /\ q.was \in EnvStatus \cup {Keep}
           /\ q.large \in BOOLEAN /\ q.n \in Nat /\ q.made \in BOOLEAN /\ q.w \in Writes
           /\ q.w.pay \in {Keep, "paid"} /\ q.w.order \in OrderStatus \cup {Keep}
           /\ q.w.sub \in BOOLEAN /\ q.w.job \in InFlight \cup {"success", Keep}
           /\ q.w.env \in EnvStatus \cup {Keep, Touch}
<1>1. q.w \in Writes
  BY DEF RunState
<1> QED BY <1>1 DEF RunState, Writes

LEMMA NewRuns ==
    ASSUME NEW q \in RunState
    PROVE  /\ \A stage \in Stage, saw \in OrderStatus, w \in Writes : Stepped(q, stage, saw, w) \in RunState
           /\ \A e, n \in Nat, was \in EnvStatus \cup {Keep}, large \in BOOLEAN :
                 Found(q, e, n, was, large) \in RunState
           /\ \A e \in Nat, w \in Writes, b \in BOOLEAN : Built(q, e, b, w) \in RunState
BY Fields DEF RunState, Stepped, Found, Built, Stage

LEMMA NewWrites ==
    \A pay \in {Keep, "paid"}, ord \in OrderStatus \cup {Keep}, insert \in BOOLEAN,
       jb \in InFlight \cup {"success", Keep}, en \in EnvStatus \cup {Keep, Touch} :
       Wrote(pay, ord, insert, jb, en) \in Writes
BY DEF Writes, Wrote

LEMMA SeqPut ==
    ASSUME NEW S, NEW s \in Seq(S), NEW i, NEW v \in S
    PROVE  /\ [s EXCEPT ![i] = v] \in Seq(S) /\ Len([s EXCEPT ![i] = v]) = Len(s)
           /\ DOMAIN [s EXCEPT ![i] = v] = DOMAIN s
           /\ i \in DOMAIN s => [s EXCEPT ![i] = v][i] = v
           /\ \A k \in DOMAIN s : k # i => [s EXCEPT ![i] = v][k] = s[k]
<1>1. DOMAIN s = 1 .. Len(s)
  OBVIOUS
<1>2. CASE i \in 1 .. Len(s)
  BY <1>1, <1>2, ExceptSeq
<1>3. CASE i \notin 1 .. Len(s)
  <2>1. [s EXCEPT ![i] = v] = s
    BY <1>1, <1>3
  <2> QED BY <2>1, <1>1, <1>3
<1> QED BY <1>2, <1>3

-------------------------------------------------------------------------------
(***************************************************************************)
(* The invariant, but for what depends on the gaps and faults.             *)
(***************************************************************************)
JobStatus == {"absent", "success", "failed"} \cup InFlight

RunOK(q) ==
    /\ q.j \in DOMAIN job[q.o]
    /\ \* Who is not paid for is not there yet, or pays.
       \/ order[q.o].pay = "paid"
       \/ q.by = "verify" /\ q.w.pay = "paid"
       \/ q.by = "worker" /\ q.at = "begun" /\ q.ghost
    /\ q.at = "begun" => ~q.w.sub
    /\ q.at # "begun" => sub[q.o] # 0 \/ q.w.sub
    /\ q.w.sub => sub[q.o] = 0
    /\ q.adopts /\ q.by # "worker" => sub[q.o] # 0
    /\ q.at \in {"begun", "opened", "found"} => q.w.env = Keep
    /\ q.at = "gated" => (q.w.env = Keep <=> q.e = 0)
    /\ q.at = "found" => q.e <= Len(env[q.o])
    /\ q.at = "built" => q.w.env # Keep
    /\ q.w.env # "terminated"
    /\ q.w.env # Keep =>
          /\ q.e \in 1 .. Len(env[q.o]) + 1
          /\ q.w.env = Touch => q.e # Len(env[q.o]) + 1

\* Unique keys and row locks: two runs do not insert the same subscription or
\* write the same environment.
Apart(p, q) ==
    p.o = q.o => /\ ~(p.w.sub /\ q.w.sub)
                 /\ p.w.env # Keep /\ q.w.env # Keep => p.e # q.e

RowsOK(o) ==
    /\ order[o].pay = "unpaid" =>
          sub[o] = 0 /\ env[o] = <<>> /\ \A j \in DOMAIN job[o] : job[o][j] = "absent"
    /\ sub[o] = 0 => env[o] = <<>>

Inv ==
    /\ TypeOK
    /\ \A r \in Runs : run[r] # Idle => RunOK(run[r])
    /\ \A r, x \in Runs : r # x /\ run[r] # Idle /\ run[x] # Idle => Apart(run[r], run[x])
    /\ \A o \in Orders : RowsOK(o)
    /\ \A m \in queue : m.j \in DOMAIN job[m.o]

RowsTyped ==
    /\ order \in [Orders -> [pay: {"unpaid", "paid"}, status: OrderStatus]]
    /\ sub \in [Orders -> Nat]
    /\ env \in [Orders -> Seq(EnvStatus)]
    /\ grown \in [Orders -> SUBSET Nat]
    /\ job \in [Orders -> Seq(JobStatus)]
    /\ orphans \in SUBSET Orders
RestTyped == queue \in SUBSET Msg /\ gaps \in SUBSET Gaps /\ faults \in 0..MaxFaults
QueueOK == \A m \in queue : m.j \in DOMAIN job[m.o]

LEMMA TypeParts ==
    ASSUME TypeOK
    PROVE  /\ AnyRun
           /\ \A o \in Orders : /\ order[o] \in [pay: {"unpaid", "paid"}, status: OrderStatus]
                                /\ sub[o] \in Nat /\ env[o] \in Seq(EnvStatus)
                                /\ job[o] \in Seq(JobStatus)
           /\ \A m \in queue : m \in Msg
BY DEF TypeOK, AnyRun, JobStatus

LEMMA InitInv == Init => Inv
<1> SUFFICES ASSUME Init PROVE Inv
  OBVIOUS
<1>1. <<>> \in Seq(EnvStatus) /\ <<>> \in Seq(JobStatus) /\ DOMAIN <<>> = {}
  BY EmptySeq
<1>2. TypeOK
  BY <1>1 DEF Init, TypeOK, JobStatus, OrderStatus
<1>3. \A o \in Orders : RowsOK(o)
  BY <1>1 DEF Init, RowsOK
<1> QED BY <1>2, <1>3 DEF Init, Inv

\* A step of run r, to v: the other runs are as they were and still have what
\* RunOK says of the rows.
LEMMA StepInv ==
    ASSUME Inv, NEW r \in Runs, NEW v \in RunState \cup {Idle}, run' = [run EXCEPT ![r] = v],
           RowsTyped', RestTyped', QueueOK', \A o \in Orders : RowsOK(o)',
           v # Idle => RunOK(v)',
           \A x \in Runs \ {r} : run[x] # Idle =>
              (v # Idle => Apart(v, run[x])) /\ \A p \in RunState : p = run[x] => RunOK(p)'
    PROVE  Inv'
<1>1. run'[r] = v /\ (\A x \in Runs \ {r} : run'[x] = run[x]) /\ AnyRun'
  BY TypeParts, SetRun DEF Inv
<1>2. TypeOK'
  BY <1>1 DEF TypeOK, RowsTyped, RestTyped, AnyRun, JobStatus
<1>3. \A x \in Runs : (run[x] # Idle => RunOK(run[x]))'
  <2> TAKE x \in Runs
  <2>1. CASE x = r
    <3>1. (run[x] # Idle)' => RunOK(v)' /\ run'[x] = v
      BY <1>1, <2>1
    <3> QED BY <3>1 DEF RunOK
  <2>2. CASE x # r
    <3>1. run'[x] = run[x] /\ run[x] \in RunState \cup {Idle}
      BY <1>1, <2>2, TypeParts DEF Inv, AnyRun
    <3>2. PICK p : p = run[x]
      OBVIOUS
    <3>3. p # Idle => RunOK(p)'
      BY <2>2, <3>1, <3>2
    <3>4. run'[x] = p
      BY <3>1, <3>2
    <3> QED BY <3>3, <3>4 DEF RunOK
  <2> QED BY <2>1, <2>2
<1>4. \A x, y \in Runs : x # y /\ run'[x] # Idle /\ run'[y] # Idle => Apart(run'[x], run'[y])
  <2> TAKE x, y \in Runs
  <2>1. \A p, q : Apart(p, q) => Apart(q, p)
    BY DEF Apart
  <2>2. CASE x = r
    BY <1>1, <2>2
  <2>3. CASE y = r
    BY <1>1, <2>1, <2>3
  <2>4. CASE x # r /\ y # r
    BY <1>1, <2>4 DEF Inv
  <2> QED BY <2>2, <2>3, <2>4
<1> QED BY <1>2, <1>3, <1>4 DEF Inv, Apart, QueueOK

\* A step of one run that writes no row, and one that ends a run.
LEMMA AdvanceInv ==
    ASSUME Inv, NEW r \in Runs, NEW v \in RunState \cup {Idle}, run' = [run EXCEPT ![r] = v],
           UNCHANGED rows, RestTyped', QueueOK',
           v # Idle => RunOK(v) /\ \A x \in Runs \ {r} : run[x] # Idle => Apart(v, run[x])
    PROVE  Inv'
<1>1. RowsTyped' /\ \A o \in Orders : RowsOK(o)'
  BY DEF Inv, TypeOK, RowsTyped, RowsOK, rows, JobStatus
<1>2. v # Idle => RunOK(v)'
  BY DEF RunOK, rows
<1>3. \A x \in Runs \ {r} : run[x] # Idle => \A p \in RunState : p = run[x] => RunOK(p)'
  BY DEF RunOK, rows, Inv
<1> HIDE DEF Inv
<1> QED BY <1>1, <1>2, <1>3, StepInv


\* What the lemmas about steps of a run have in common.
LEMMA RestHolds ==
    ASSUME Inv, NEW r \in Runs, Rest(r)
    PROVE  UNCHANGED rows /\ RestTyped' /\ QueueOK'
BY DEF Rest, Inv, TypeOK, rows, RestTyped, QueueOK

LEMMA BusyRun ==
    ASSUME Inv, NEW r \in Runs, run[r].at # "idle"
    PROVE  /\ run[r] \in RunState /\ run[r] # Idle /\ RunOK(run[r])
           /\ \A x \in Runs \ {r} : run[x] # Idle => Apart(run[r], run[x])
BY TypeParts, BusyShape DEF Inv, Idle

LEMMA HostFailsInv ==
    ASSUME Inv, NEW r \in Runs, HostFails(r)
    PROVE  Inv'
<1> DEFINE q == run[r]
           v == Stepped(q, "failing", q.saw, q.w)
<1>1. q.at \in {"opened", "gated", "built", "done"} /\ Go(r, "failing", q.w) /\ Rest(r)
  BY DEF HostFails, At
<1>2. q \in RunState /\ RunOK(q) /\ \A x \in Runs \ {r} : run[x] # Idle => Apart(q, run[x])
  BY <1>1, BusyRun
<1>3. run' = [run EXCEPT ![r] = v]
  BY <1>1, <1>2, GoStep, TypeParts DEF Inv
<1>4. v \in RunState
  BY <1>2, NewRuns, Fields DEF Stage
<1>5. RunOK(v) /\ \A x \in Runs \ {r} : run[x] # Idle => Apart(v, run[x])
  BY <1>1, <1>2 DEF RunOK, Apart, Stepped
<1> HIDE DEF q, v
<1> QED BY <1>1, <1>3, <1>4, <1>5, AdvanceInv, RestHolds

LEMMA CompleteStep ==
    ASSUME Inv, NEW r \in Runs, Complete(r)
    PROVE  /\ run[r].at = "built" /\ Rest(r)
           /\ \E ord \in {Keep, "active"} :
                 LET w == Wrote(run[r].w.pay, ord, run[r].w.sub, "success", "active")
                 IN  Go(r, "done", w) /\ w \in Writes /\ (ord = Keep => run[r].saw = "active")
<1> DEFINE q == run[r]
           ord == IF q.saw = "active" /\ q.w.order = Keep THEN Keep ELSE "active"
           w == Wrote(q.w.pay, ord, q.w.sub, "success", "active")
<1>1. q.at = "built" /\ Rest(r)
  BY DEF Complete, At
<1>2. q \in RunState
  BY <1>1, BusyRun
<1>3. w \in Writes
  BY <1>2, Fields, NewWrites DEF OrderStatus, EnvStatus, Live
<1>4. Go(r, "done", w)
  <2>1. [q.w EXCEPT !.env = "active", !.job = "success", !.order = ord] = w
    <3>1. q.w \in Writes
      BY <1>2, Fields
    <3> HIDE DEF ord, q
    <3>2. \A en, jb : [q.w EXCEPT !.env = en, !.job = jb, !.order = ord]
                       = Wrote(q.w.pay, ord, q.w.sub, jb, en)
      BY <3>1, ThreeWrites, Zenon
    <3> QED BY <3>2, Zenon
  <2>2. Go(r, "done", [q.w EXCEPT !.env = "active", !.job = "success", !.order = ord])
    BY Zenon DEF Complete
  <2> HIDE DEF w
  <2> QED BY <2>1, <2>2, Zenon
<1>5. ord \in {Keep, "active"} /\ (ord = Keep => q.saw = "active")
  BY DEF Keep
<1> HIDE DEF ord
<1> QED BY <1>1, <1>3, <1>4, <1>5

LEMMA CompleteInv ==
    ASSUME Inv, NEW r \in Runs, Complete(r)
    PROVE  Inv'
<1> DEFINE q == run[r]
<1>1. q.at = "built" /\ Rest(r)
  BY CompleteStep
<1>2. PICK ord \in {Keep, "active"} :
         LET w == Wrote(q.w.pay, ord, q.w.sub, "success", "active")
         IN  Go(r, "done", w) /\ w \in Writes
  BY CompleteStep
<1> DEFINE w == Wrote(q.w.pay, ord, q.w.sub, "success", "active")
           v == Stepped(q, "done", q.saw, w)
<1>3. q \in RunState /\ RunOK(q) /\ \A x \in Runs \ {r} : run[x] # Idle => Apart(q, run[x])
  BY <1>1, BusyRun
<1>4. v \in RunState
  BY <1>2, <1>3, NewRuns, Fields DEF Stage
<1>5. run' = [run EXCEPT ![r] = v]
  <2>1. Go(r, "done", w)
    BY <1>2
  <2> HIDE DEF w
  <2> QED BY <1>3, <2>1, GoStep, TypeParts DEF Inv
<1>6. RunOK(v) /\ \A x \in Runs \ {r} : run[x] # Idle => Apart(v, run[x])
  BY <1>1, <1>3 DEF RunOK, Apart, Stepped, Wrote, Keep, Touch
<1> HIDE DEF q, v
<1> QED BY <1>1, <1>4, <1>5, <1>6, AdvanceInv, RestHolds

\* What a look at the environments ends in.
FindResult(q, v) ==
    \/ v = Stepped(q, "failing", q.saw, q.w)
    \/ /\ v = Stepped(q, "done", q.saw, Wrote(q.w.pay, q.w.order, q.w.sub, "success", q.w.env))
       /\ ~q.w.sub /\ Reusable(q.o) # {}
    \/ \E e \in Nat, was \in EnvStatus \cup {Keep}, large \in BOOLEAN :
          /\ v = Found(q, e, Len(env[q.o]), was, large)
          /\ IF e = 0 THEN q.w.sub \/ Reusable(q.o) = {} ELSE ~q.w.sub /\ e \in Reusable(q.o)

LEMMA FindStep ==
    ASSUME AnyRun, TypeOK, NEW r \in Runs, Find(r)
    PROVE  /\ run[r].at = "opened" /\ run[r] \in RunState /\ Rest(r)
           /\ \E v \in RunState : run' = [run EXCEPT ![r] = v] /\ FindResult(run[r], v)
<1> DEFINE q == run[r]
           live == IF q.w.sub THEN {} ELSE Reusable(q.o)
<1>1. q.at = "opened" /\ Rest(r) /\ q \in RunState
  BY BusyShape DEF Find, At, Stage
<1>2. env[q.o] \in Seq(EnvStatus) /\ Len(env[q.o]) \in Nat
  BY <1>1, Fields, TypeParts, LenProperties
<1>3. CASE Go(r, "failing", q.w)
  <2>1. run' = [run EXCEPT ![r] = Stepped(q, "failing", q.saw, q.w)]
    BY <1>1, <1>3, GoStep
  <2>2. Stepped(q, "failing", q.saw, q.w) \in RunState
    BY <1>1, NewRuns, Fields DEF Stage
  <2> QED BY <1>1, <2>1, <2>2 DEF FindResult
<1>4. ASSUME NEW e \in IF live = {} THEN {0} ELSE live,
             e # 0, Go(r, "done", [q.w EXCEPT !.job = "success"])
      PROVE  \E v \in RunState : run' = [run EXCEPT ![r] = v] /\ FindResult(run[r], v)
  <2> DEFINE w == Wrote(q.w.pay, q.w.order, q.w.sub, "success", q.w.env)
             v == Stepped(q, "done", q.saw, w)
  <2>1. w \in Writes /\ [q.w EXCEPT !.job = "success"] = w
    BY <1>1, Fields, NewWrites, OneWrite
  <2>2. ~q.w.sub /\ Reusable(q.o) # {}
    BY <1>4
  <2>3. v \in RunState
    BY <1>1, <2>1, NewRuns, Fields DEF Stage
  <2>4. run' = [run EXCEPT ![r] = v]
    <3> HIDE DEF w
    <3>1. Go(r, "done", w)
      BY <1>4, <2>1, Zenon
    <3> QED BY <1>1, <3>1, GoStep
  <2>5. FindResult(q, v)
    BY <2>2 DEF FindResult
  <2> HIDE DEF v
  <2> QED BY <2>3, <2>4, <2>5
<1>5. ASSUME NEW e \in IF live = {} THEN {0} ELSE live,
             run' = [run EXCEPT ![r].at = "found", ![r].e = e, ![r].n = Len(env[q.o]),
                                ![r].was = IF e = 0 THEN Keep ELSE env[q.o][e],
                                ![r].large = e \in grown[q.o]]
      PROVE  \E v \in RunState : run' = [run EXCEPT ![r] = v] /\ FindResult(run[r], v)
  <2> DEFINE was == IF e = 0 THEN Keep ELSE env[q.o][e]
             n == Len(env[q.o])
             large == e \in grown[q.o]
             v == Found(q, e, n, was, large)
  <2>1. e \in Nat /\ was \in EnvStatus \cup {Keep} /\ large \in BOOLEAN
    BY <1>2 DEF Reusable
  <2>2. 0 \notin Reusable(q.o)
    BY <1>2 DEF Reusable
  <2>3. IF e = 0 THEN q.w.sub \/ Reusable(q.o) = {} ELSE ~q.w.sub /\ e \in Reusable(q.o)
    BY <2>2
  <2>4. v \in RunState
    BY <1>1, <1>2, <2>1, NewRuns
  <2>5. run' = [run EXCEPT ![r] = v]
    <3>1. q \in RunState
      BY <1>1
    <3> HIDE DEF was, n, q, large
    <3>2. \A c, m, s, b : [q EXCEPT !.at = "found", !.e = c, !.n = m, !.was = s, !.large = b]
                             = Found(q, c, m, s, b)
      BY <3>1, FoundRecord, Zenon
    <3>3. [q EXCEPT !.at = "found", !.e = e, !.n = n, !.was = was, !.large = large]
             = Found(q, e, n, was, large)
      <4>1. \A s, b : [q EXCEPT !.at = "found", !.e = e, !.n = n, !.was = s, !.large = b]
                         = Found(q, e, n, s, b)
        BY <3>2, Zenon
      <4> QED BY <4>1, Zenon
    <3>4. run' = [run EXCEPT ![r] = [q EXCEPT !.at = "found", !.e = e, !.n = n, !.was = was,
                                              !.large = large]]
      BY <1>5, Zenon DEF was, n, q, large
    <3> QED BY <3>3, <3>4, Zenon
  <2>6. FindResult(q, v)
    BY <2>1, <2>3 DEF FindResult
  <2> HIDE DEF v
  <2> QED BY <2>4, <2>5, <2>6
<1> QED BY <1>1, <1>3, <1>4, <1>5, Zenon DEF Find

LEMMA FindInv ==
    ASSUME Inv, NEW r \in Runs, Find(r)
    PROVE  Inv'
<1> DEFINE q == run[r]
<1>1. AnyRun /\ TypeOK
  BY TypeParts DEF Inv
<1>2. q.at = "opened" /\ q \in RunState /\ Rest(r)
  BY <1>1, FindStep
<1>3. PICK v \in RunState : run' = [run EXCEPT ![r] = v] /\ FindResult(q, v)
  BY <1>1, FindStep
<1>4. RunOK(q) /\ \A x \in Runs \ {r} : run[x] # Idle => Apart(q, run[x])
  BY <1>2, BusyRun
<1>5. \A e \in Reusable(q.o) : e <= Len(env[q.o])
  <2>1. env[q.o] \in Seq(EnvStatus)
    BY <1>1, <1>2, Fields, TypeParts
  <2> QED BY <2>1 DEF Reusable
<1>6. Len(env[q.o]) >= 0
  BY <1>1, <1>2, Fields, TypeParts, LenProperties
<1>7. RunOK(v) /\ \A x \in Runs \ {r} : run[x] # Idle => Apart(v, run[x])
  BY <1>2, <1>3, <1>4, <1>5, <1>6 DEF FindResult, RunOK, Apart, Stepped, Found, Wrote, Keep
<1> HIDE DEF q
<1> QED BY <1>2, <1>3, <1>7, AdvanceInv, RestHolds

LEMMA GateStep ==
    ASSUME Inv, NEW r \in Runs, Gate(r)
    PROVE  /\ run[r].at = "found" /\ WaitsFor(r) = {} /\ UNCHANGED <<rows, queue, faults>>
           /\ gaps' \in SUBSET Gaps /\ gaps \subseteq gaps'
           /\ run[r].e # 0 /\ env[run[r].o][run[r].e] = "terminated" => "revival" \in gaps'
           /\ \E v \in RunState, en \in {Keep, Touch, "provisioning"}, stage \in {"gated", "failing"} :
                 /\ run' = [run EXCEPT ![r] = v]
                 /\ v = Stepped(run[r], stage, run[r].saw,
                                Wrote(run[r].w.pay, run[r].w.order, run[r].w.sub, run[r].w.job, en))
                 /\ en = Keep <=> run[r].e = 0
<1> DEFINE q == run[r]
           en == IF q.e = 0 THEN Keep ELSE IF q.was = "provisioning" THEN Touch ELSE "provisioning"
           x == [q.w EXCEPT !.env = en]
           w == Wrote(q.w.pay, q.w.order, q.w.sub, q.w.job, en)
           stage == IF Fits(r, x) THEN "gated" ELSE "failing"
           v == Stepped(q, stage, q.saw, w)
<1>1. q.at = "found" /\ WaitsFor(r) = {} /\ Go(r, stage, x) /\ UNCHANGED <<rows, queue, faults>>
  BY DEF Gate, At
<1>2. q \in RunState
  BY <1>1, BusyRun
<1>3. x = w /\ w \in Writes
  <2>1. q.w \in Writes /\ en \in EnvStatus \cup {Keep, Touch}
    BY <1>2, Fields DEF EnvStatus, Live
  <2> HIDE DEF en
  <2> QED BY <1>2, <2>1, Fields, OneWrite, NewWrites
<1>4. /\ gaps' \in SUBSET Gaps /\ gaps \subseteq gaps'
      /\ q.e # 0 /\ env[q.o][q.e] = "terminated" => "revival" \in gaps'
  <2>1. gaps \in SUBSET Gaps
    BY DEF Inv, TypeOK
  <2>2. PICK A \in SUBSET Gaps : gaps' = gaps \cup A
                \cup (IF q.e # 0 /\ env[q.o][q.e] = "terminated" THEN {"revival"} ELSE {})
    BY Zenon DEF Gate, Gaps
  <2> QED BY <2>1, <2>2 DEF Gaps
<1>5. v \in RunState /\ run' = [run EXCEPT ![r] = v]
  <2>1. stage \in {"gated", "failing"}
    OBVIOUS
  <2> HIDE DEF stage
  <2>2. v \in RunState
    BY <1>2, <1>3, <2>1, NewRuns, Fields DEF Stage
  <2>3. Go(r, stage, w)
    BY <1>1, <1>3
  <2> HIDE DEF w
  <2> QED BY <1>2, <2>2, <2>3, GoStep, TypeParts DEF Inv
<1>6. en \in {Keep, Touch, "provisioning"} /\ (en = Keep <=> q.e = 0)
  BY DEF Keep, Touch
<1>7. stage \in {"gated", "failing"}
  OBVIOUS
<1> HIDE DEF stage, en
<1> QED BY <1>1, <1>4, <1>5, <1>6, <1>7

\* The environment is written while no other run has written it.
LEMMA GateInv ==
    ASSUME Inv, NEW r \in Runs, Gate(r)
    PROVE  Inv'
<1> DEFINE q == run[r]
<1>1. /\ q.at = "found" /\ WaitsFor(r) = {} /\ UNCHANGED <<rows, queue, faults>>
      /\ gaps' \in SUBSET Gaps
  BY GateStep
<1>2. PICK v \in RunState, en \in {Keep, Touch, "provisioning"}, stage \in {"gated", "failing"} :
         /\ run' = [run EXCEPT ![r] = v]
         /\ v = Stepped(q, stage, q.saw, Wrote(q.w.pay, q.w.order, q.w.sub, q.w.job, en))
         /\ en = Keep <=> q.e = 0
  BY GateStep
<1>3. q \in RunState /\ RunOK(q) /\ \A y \in Runs \ {r} : run[y] # Idle => Apart(q, run[y])
  BY <1>1, BusyRun
<1>4. RestTyped' /\ QueueOK'
  BY <1>1 DEF Inv, TypeOK, RestTyped, QueueOK, rows
<1>5. \A y \in Runs \ {r} : run[y] # Idle /\ run[y].o = q.o /\ run[y].w.env # Keep => run[y].e # q.e \/ en = Keep
  <2> SUFFICES ASSUME NEW y \in Runs \ {r}, run[y] # Idle, run[y].o = q.o, run[y].w.env # Keep,
                      run[y].e = q.e, q.e # 0
               PROVE  FALSE
    BY <1>2
  <2>1. RunOK(run[y])
    BY DEF Inv
  <2>2. run[y].at # "begun"
    BY <2>1 DEF RunOK
  <2>3. y \in EnvHolders(r, q.e)
    BY <2>2 DEF EnvHolders, Others
  <2> QED BY <2>3, <1>1 DEF WaitsFor
<1>6. v.o = q.o /\ v.at = stage /\ v.w.env = en /\ v.w.sub = q.w.sub /\ v.e = q.e
  BY <1>2 DEF Stepped, Wrote
<1>7. RunOK(v)
  <2>1. env[q.o] \in Seq(EnvStatus) /\ Len(env[q.o]) \in Nat /\ q.e \in Nat
    BY <1>3, Fields, TypeParts, LenProperties DEF Inv
  <2> QED BY <1>1, <1>2, <1>3, <2>1 DEF RunOK, Stepped, Wrote, Keep, Touch
<1>8. \A y \in Runs \ {r} : run[y] # Idle => Apart(v, run[y])
  BY <1>3, <1>5, <1>6 DEF Apart
<1>9. UNCHANGED rows
  BY <1>1
<1> HIDE DEF q
<1> QED BY <1>2, <1>4, <1>7, <1>8, <1>9, AdvanceInv

-------------------------------------------------------------------------------
(***************************************************************************)
(* Steps that write rows.                                                  *)
(***************************************************************************)
\* A job row gets another status: the job of an order that is paid for, or
\* none that unpaid orders would notice.
LEMMA MarkedJob ==
    ASSUME Inv, NEW o \in Orders, NEW j, NEW s \in JobStatus, job' = [job EXCEPT ![o][j] = s]
    PROVE  /\ job' \in [Orders -> Seq(JobStatus)]
           /\ \A p \in Orders : DOMAIN job'[p] = DOMAIN job[p]
           /\ \A p \in Orders \ {o} : job'[p] = job[p]
<1>1. job \in [Orders -> Seq(JobStatus)]
  BY DEF Inv, TypeOK, JobStatus
<1>2. job'[o] = [job[o] EXCEPT ![j] = s] /\ \A p \in Orders \ {o} : job'[p] = job[p]
  BY <1>1
<1>3. job'[o] \in Seq(JobStatus) /\ DOMAIN job'[o] = DOMAIN job[o]
  BY <1>1, <1>2, SeqPut
<1>4. job' = [p \in Orders |-> job'[p]]
  BY <1>1
<1> QED BY <1>1, <1>2, <1>3, <1>4

LEMMA SentAgain ==
    ASSUME Inv, NEW r \in Runs, run[r] \in RunState, RunOK(run[r]), SendAgain(r)
    PROVE  queue' \in SUBSET Msg /\ \A m \in queue' : m.j \in DOMAIN job[m.o]
<1> DEFINE q == run[r]
           m == [o |-> q.o, j |-> q.j, attempt |-> q.attempt + 1]
<1>1. q.o \in Orders /\ q.j \in JobId /\ q.attempt \in 0..MaxAttempts /\ q.j \in DOMAIN job[q.o]
  BY Fields DEF RunOK
<1>2. m.attempt <= MaxAttempts => m \in Msg
  BY <1>1 DEF Msg
<1>3. queue' = queue \/ (m.attempt <= MaxAttempts /\ queue' = queue \cup {m})
  BY Zenon DEF SendAgain
<1>4. queue \in SUBSET Msg /\ \A k \in queue : k.j \in DOMAIN job[k.o]
  BY DEF Inv, TypeOK
<1>5. m.j \in DOMAIN job[m.o]
  BY <1>1
<1> HIDE DEF q, m
<1> QED BY <1>2, <1>3, <1>4, <1>5

\* What others know of the rows, and the rows themselves, outlast a mark.
LEMMA RollBackInv ==
    ASSUME Inv, NEW r \in Runs, run[r].at # "idle", RollBack(r)
    PROVE  Inv'
<1> DEFINE q == run[r]
<1>1. q \in RunState /\ RunOK(q) /\ q.o \in Orders
  BY BusyRun, Fields
<1>2. run' = [run EXCEPT ![r] = Idle] /\ UNCHANGED <<order, sub, env, grown, orphans, gaps, faults>>
  BY DEF RollBack, End
<1>3. /\ job' \in [Orders -> Seq(JobStatus)]
      /\ \A p \in Orders : DOMAIN job'[p] = DOMAIN job[p]
      /\ \A o \in Orders : RowsOK(o)'
  <2>1. CASE job' = job
    BY <2>1, <1>2 DEF Inv, TypeOK, JobStatus, RowsOK
  <2>2. CASE job' = [job EXCEPT ![q.o][q.j] = "failed"] /\ job[q.o][q.j] # "absent"
    <3>1. /\ job' \in [Orders -> Seq(JobStatus)]
          /\ \A p \in Orders : DOMAIN job'[p] = DOMAIN job[p]
          /\ \A p \in Orders \ {q.o} : job'[p] = job[p]
      BY <1>1, <2>2, MarkedJob DEF JobStatus
    <3>2. order[q.o].pay # "unpaid"
      BY <1>1, <2>2 DEF Inv, RowsOK, RunOK
    <3>3. \A o \in Orders : RowsOK(o)'
      <4> TAKE o \in Orders
      <4>1. CASE o = q.o
        BY <1>1, <1>2, <3>2, <4>1 DEF Inv, RowsOK
      <4>2. CASE o # q.o
        BY <1>2, <3>1, <4>2 DEF Inv, RowsOK
      <4> QED BY <4>1, <4>2
    <3> QED BY <3>1, <3>3
  <2> QED BY <2>1, <2>2, Zenon DEF RollBack
<1>4. RowsTyped'
  BY <1>2, <1>3 DEF Inv, TypeOK, RowsTyped
<1>5. queue' \in SUBSET Msg /\ \A m \in queue' : m.j \in DOMAIN job[m.o]
  BY <1>1, SentAgain DEF RollBack
<1>6. RestTyped' /\ QueueOK'
  BY <1>2, <1>3, <1>5 DEF Inv, TypeOK, RestTyped, QueueOK, Msg
<1>7. \A x \in Runs \ {r} : run[x] # Idle => \A p \in RunState : p = run[x] => RunOK(p)'
  <2> SUFFICES ASSUME NEW x \in Runs \ {r}, run[x] # Idle, NEW p \in RunState, p = run[x]
               PROVE  RunOK(p)'
    OBVIOUS
  <2>1. RunOK(p) /\ p.o \in Orders
    BY Fields DEF Inv
  <2> QED BY <2>1, <1>2, <1>3 DEF RunOK
<1> HIDE DEF q
<1> QED BY <1>2, <1>3, <1>4, <1>6, <1>7, StepInv

\* A built run holds an environment: the one it found, or the next.
LEMMA BuildStep ==
    ASSUME Inv, NEW r \in Runs, Build(r), ~RollBack(r)
    PROVE  /\ Rest(r) /\ (run[r].e = 0 => Len(env[run[r].o]) = run[r].n)
           /\ \E v \in RunState, en \in EnvStatus \cup {Keep, Touch} :
                 /\ run' = [run EXCEPT ![r] = v]
                 /\ v = Built(run[r], IF run[r].e = 0 THEN run[r].n + 1 ELSE run[r].e, TRUE,
                              Wrote(run[r].w.pay, run[r].w.order, run[r].w.sub, run[r].w.job, en))
                 /\ en = IF run[r].e = 0 THEN "provisioning" ELSE run[r].w.env
<1> DEFINE q == run[r]
           new == q.e = 0
           en == IF new THEN "provisioning" ELSE q.w.env
           e == IF new THEN q.n + 1 ELSE q.e
           w == Wrote(q.w.pay, q.w.order, q.w.sub, q.w.job, en)
           v == Built(q, e, TRUE, w)
<1>1. q \in RunState
  BY BusyRun DEF Build, At
<1>2. /\ ~(new /\ Len(env[q.o]) # q.n) /\ Rest(r)
      /\ run' = [run EXCEPT ![r].at = "built", ![r].made = TRUE,
                            ![r].w.env = IF new THEN "provisioning" ELSE @,
                            ![r].e = IF new THEN q.n + 1 ELSE @]
  BY Zenon DEF Build
<1>3. en \in EnvStatus \cup {Keep, Touch} /\ v \in RunState
  <2>1. en \in EnvStatus \cup {Keep, Touch} /\ e \in Nat
    BY <1>1, Fields DEF EnvStatus, Live
  <2>2. w \in Writes
    BY <1>1, <2>1, Fields, NewWrites
  <2> QED BY <1>1, <2>1, <2>2, NewRuns
<1>4. run' = [run EXCEPT ![r] = v]
  <2>1. q \in RunState
    BY <1>1
  <2>2. run' = [run EXCEPT ![r] = [q EXCEPT !.at = "built", !.made = TRUE,
                                            !.w = [q.w EXCEPT !.env = en], !.e = e]]
    BY <1>2, Zenon
  <2> HIDE DEF q, en, e
  <2>3. \A b : [q EXCEPT !.at = "built", !.made = b, !.w = [q.w EXCEPT !.env = en], !.e = e]
                  = Built(q, e, b, Wrote(q.w.pay, q.w.order, q.w.sub, q.w.job, en))
    BY <2>1, BuiltRecord, Zenon
  <2>4. [q EXCEPT !.at = "built", !.made = TRUE, !.w = [q.w EXCEPT !.env = en], !.e = e] = v
    BY <2>3, Zenon
  <2> QED BY <2>2, <2>4, Zenon
<1>5. PICK u, c : u = v /\ c = en
  OBVIOUS
<1>6. u \in RunState /\ c \in EnvStatus \cup {Keep, Touch} /\ run' = [run EXCEPT ![r] = u]
  <2> HIDE DEF v, en
  <2> QED BY <1>3, <1>4, <1>5
<1>7. u = Built(q, IF q.e = 0 THEN q.n + 1 ELSE q.e, TRUE, Wrote(q.w.pay, q.w.order, q.w.sub, q.w.job, c))
  BY <1>5
<1> HIDE DEF v, w
<1> QED BY <1>2, <1>5, <1>6, <1>7

LEMMA BuildInv ==
    ASSUME Inv, NEW r \in Runs, Build(r)
    PROVE  Inv'
<1> DEFINE q == run[r]
           new == q.e = 0
           e == IF new THEN q.n + 1 ELSE q.e
<1>1. q.at = "gated" /\ WaitsFor(r) = {}
  BY DEF Build, At
<1>2. q \in RunState /\ RunOK(q) /\ \A y \in Runs \ {r} : run[y] # Idle => Apart(q, run[y])
  BY <1>1, BusyRun
<1>3. CASE RollBack(r)
  BY <1>1, <1>3, RollBackInv
<1>4. CASE ~RollBack(r)
  <2>1. Rest(r) /\ (new => Len(env[q.o]) = q.n)
    BY <1>4, BuildStep
  <2>2. PICK v \in RunState, en \in EnvStatus \cup {Keep, Touch} :
           /\ run' = [run EXCEPT ![r] = v]
           /\ v = Built(q, e, TRUE, Wrote(q.w.pay, q.w.order, q.w.sub, q.w.job, en))
           /\ en = IF new THEN "provisioning" ELSE q.w.env
    BY <1>4, BuildStep
  <2>3. env[q.o] \in Seq(EnvStatus) /\ Len(env[q.o]) \in Nat /\ q.n \in Nat
    BY <1>2, Fields, TypeParts, LenProperties DEF Inv
  <2>4. RunOK(v)
    BY <1>1, <1>2, <2>1, <2>2, <2>3 DEF RunOK, Built, Wrote, Keep, Touch
  <2>5. ASSUME NEW y \in Runs \ {r}, run[y] # Idle
        PROVE  Apart(v, run[y])
    <3>1. CASE ~new
      BY <1>1, <1>2, <2>2, <2>5, <3>1 DEF Apart, Built, Wrote, RunOK
    <3>2. CASE new
      <4>1. e = Len(env[q.o]) + 1
        BY <2>1, <3>2
      <4>2. run[y].o = q.o /\ run[y].w.env # Keep => run[y].e # e
        <5> SUFFICES ASSUME run[y].o = q.o, run[y].w.env # Keep, run[y].e = e
                     PROVE  FALSE
          OBVIOUS
        <5>1. RunOK(run[y])
          BY <2>5 DEF Inv
        <5>2. run[y].at # "begun"
          BY <5>1 DEF RunOK
        <5>3. y \in EnvHolders(r, Len(env[q.o]) + 1)
          BY <2>5, <4>1, <5>2 DEF EnvHolders, Others
        <5> QED BY <5>3, <1>1, <3>2 DEF WaitsFor
      <4> QED BY <1>2, <2>2, <2>5, <4>2 DEF Apart, Built, Wrote
    <3> QED BY <3>1, <3>2
  <2>6. UNCHANGED rows /\ RestTyped' /\ QueueOK'
    BY <2>1, RestHolds
  <2> HIDE DEF q
  <2> QED BY <2>2, <2>4, <2>5, <2>6, AdvanceInv
<1> QED BY <1>3, <1>4

LEMMA OpenedStep ==
    ASSUME Inv, NEW r \in Runs, run[r] \in RunState, Opened(r)
    PROVE  LET w == Wrote(run[r].w.pay, run[r].w.order, ~run[r].adopts, "running", run[r].w.env)
           IN  Go(r, "opened", w) /\ w \in Writes
<1> DEFINE q == run[r]
           b == ~q.adopts
           x == [q.w EXCEPT !.sub = b, !.job = "running"]
           w == Wrote(q.w.pay, q.w.order, b, "running", q.w.env)
<1>1. Go(r, "opened", x)
  BY Zenon DEF Opened
<1>2. q.w \in Writes /\ b \in BOOLEAN /\ w \in Writes
  BY Fields, NewWrites DEF InFlight
<1>3. x = w
  <2> HIDE DEF q, b
  <2> QED BY <1>2, OpenedWrites, Zenon
<1> QED BY <1>1, <1>2, <1>3, Zenon

\* The rows of the request are flushed, when no other run has flushed the
\* subscription.
LEMMA OpenedInv ==
    ASSUME Inv, NEW r \in Runs, At(r, "begun"), WaitsFor(r) = {}, run[r].by # "worker", Opened(r),
           run[r].adopts \/ sub[run[r].o] = 0, UNCHANGED rows, RestTyped', QueueOK'
    PROVE  Inv'
<1> DEFINE q == run[r]
           b == ~q.adopts
           w == Wrote(q.w.pay, q.w.order, b, "running", q.w.env)
           v == Stepped(q, "opened", q.saw, w)
<1>1. q.at = "begun"
  BY DEF At
<1>2. q \in RunState /\ RunOK(q) /\ \A y \in Runs \ {r} : run[y] # Idle => Apart(q, run[y])
  BY <1>1, BusyRun
<1>3. Go(r, "opened", w) /\ w \in Writes
  BY <1>2, OpenedStep
<1>4. v \in RunState /\ run' = [run EXCEPT ![r] = v]
  <2>1. v \in RunState
    BY <1>2, <1>3, NewRuns, Fields DEF Stage
  <2> HIDE DEF w
  <2> QED BY <1>2, <1>3, <2>1, GoStep, TypeParts DEF Inv
<1>5. RunOK(v)
  <2>1. q.adopts \in BOOLEAN /\ q.by # "worker"
    BY <1>2, Fields
  <2> QED BY <1>1, <1>2, <2>1 DEF RunOK, Stepped, Wrote
<1>6. \A y \in Runs \ {r} : run[y] # Idle => Apart(v, run[y])
  <2> SUFFICES ASSUME NEW y \in Runs \ {r}, run[y] # Idle, b, run[y].o = q.o, run[y].w.sub
               PROVE  FALSE
    BY <1>2 DEF Apart, Stepped, Wrote
  <2>1. RunOK(run[y])
    BY DEF Inv
  <2>2. y \in SubHolders(r)
    BY <2>1 DEF RunOK, SubHolders, Others
  <2> QED BY <2>2, <1>1 DEF WaitsFor
<1> HIDE DEF q, v
<1> QED BY <1>4, <1>5, <1>6, AdvanceInv

LEMMA OpenInlineInv ==
    ASSUME Inv, NEW r \in Runs, OpenInline(r)
    PROVE  Inv'
<1>1. At(r, "begun") /\ run[r].by # "worker" /\ WaitsFor(r) = {}
  BY DEF OpenInline
<1>2. CASE (run[r].adopts \/ sub[run[r].o] = 0) /\ Opened(r) /\ Rest(r)
  BY <1>1, <1>2, OpenedInv, RestHolds
<1>3. CASE RollBack(r)
  BY <1>1, <1>3, RollBackInv DEF At
<1> QED BY <1>2, <1>3 DEF OpenInline

LEMMA EndInv ==
    ASSUME Inv, NEW r \in Runs, End(r), UNCHANGED rows, RestTyped', QueueOK'
    PROVE  Inv'
<1>1. run' = [run EXCEPT ![r] = Idle]
  BY DEF End
<1> QED BY <1>1, AdvanceInv

LEMMA OpenVerifiedInv ==
    ASSUME Inv, NEW r \in Runs, OpenVerified(r)
    PROVE  Inv'
<1> DEFINE q == run[r]
           m == [o |-> q.o, j |-> q.j, attempt |-> 1]
<1>1. At(r, "begun") /\ q.by = "verify" /\ WaitsFor(r) = {}
  BY DEF OpenVerified
<1>2. m \in Msg /\ m.j \in DOMAIN job[m.o]
  <2>1. q \in RunState /\ RunOK(q)
    BY <1>1, BusyRun DEF At
  <2> QED BY <2>1, Fields DEF Msg, RunOK
<1>3. UNCHANGED rows /\ queue' \in {queue, queue \cup {m}} /\ gaps' = gaps
      /\ (faults' = faults \/ Fault)
  BY DEF OpenVerified, rows
<1>4. RestTyped' /\ QueueOK'
  <2>1. RestTyped'
    BY <1>2, <1>3 DEF Inv, TypeOK, RestTyped, Fault
  <2>2. \A k \in queue' : k = m \/ k \in queue
    BY <1>3
  <2>3. job' = job
    BY <1>3 DEF rows
  <2> HIDE DEF m
  <2> QED BY <1>2, <2>1, <2>2, <2>3 DEF Inv, QueueOK
<1>5. End(r) \/ (sub[q.o] = 0 /\ Opened(r))
  BY DEF OpenVerified
<1> QED BY <1>1, <1>3, <1>4, <1>5, EndInv, OpenedInv

LEMMA DieInv ==
    ASSUME Inv, NEW r \in Runs, Die(r) \/ Deadlock(r)
    PROVE  Inv'
<1>1. CASE Die(r)
  <2>1. End(r) /\ UNCHANGED rows
    BY <1>1 DEF Die
  <2>2. RestTyped' /\ QueueOK'
    BY <1>1 DEF Die, Fault, Inv, TypeOK, RestTyped, QueueOK, rows
  <2> QED BY <2>1, <2>2, EndInv
<1>2. CASE Deadlock(r)
  <2>1. run[r] # Idle /\ RollBack(r)
    BY <1>2 DEF Deadlock
  <2>2. run[r].at # "idle"
    BY <2>1, TypeParts, BusyShape, Fields DEF Inv, Stage
  <2> QED BY <2>1, <2>2, RollBackInv
<1> QED BY <1>1, <1>2

\* The environments once run r has written s: the one it has found is changed,
\* or a new one appended.
LEMMA AppliedEnv ==
    ASSUME Inv, NEW r \in Runs, run[r] \in RunState, RunOK(run[r]), NEW w, Apply(r, w),
           w.env \in EnvStatus \cup {Keep, Touch},
           w.env # Keep => run[r].w.env # Keep /\ (w.env = Touch => run[r].w.env = Touch)
    PROVE  /\ env' \in [Orders -> Seq(EnvStatus)]
           /\ \A p \in Orders : Len(env'[p]) >= Len(env[p])
           /\ \A p \in Orders \ {run[r].o} : env'[p] = env[p]
           /\ w.env = Keep => env' = env
           /\ w.env # Keep /\ run[r].e <= Len(env[run[r].o]) =>
                 /\ run[r].e \in DOMAIN env[run[r].o]
                 /\ env'[run[r].o] = [env[run[r].o] EXCEPT ![run[r].e] = Written(env[run[r].o][run[r].e], w.env)]
           /\ w.env # Keep /\ ~(run[r].e <= Len(env[run[r].o])) =>
                 /\ w.env \in EnvStatus /\ run[r].e = Len(env[run[r].o]) + 1
                 /\ env'[run[r].o] = Append(env[run[r].o], w.env)
<1> DEFINE q == run[r]
           o == q.o
<1>1. o \in Orders /\ q.e \in Nat
  BY Fields
<1>2. env \in [Orders -> Seq(EnvStatus)]
  BY DEF Inv, TypeOK
<1>3. env[o] \in Seq(EnvStatus) /\ \A p \in Orders : Len(env[p]) \in Nat
  BY <1>1, <1>2, LenProperties
<1>4. w.env # Keep => /\ q.e \in 1 .. Len(env[o]) + 1
                      /\ w.env = Touch => q.e # Len(env[o]) + 1
  <2>1. RunOK(q)
    OBVIOUS
  <2>2. q.w.env # Keep => /\ q.e \in 1 .. Len(env[o]) + 1
                          /\ q.w.env = Touch => q.e # Len(env[o]) + 1
    BY <2>1, Zenon DEF RunOK
  <2> QED BY <2>2, Zenon
<1>5. CASE w.env = Keep
  <2>1. env' = env
    BY <1>5 DEF Apply
  <2> QED BY <1>2, <1>3, <1>5, <2>1
<1>6. CASE w.env # Keep /\ q.e <= Len(env[o])
  <2> DEFINE s == Written(env[o][q.e], w.env)
             t == env[o]
             i == q.e
  <2>1. i \in 1 .. Len(t) /\ DOMAIN t = 1 .. Len(t)
    BY <1>1, <1>3, <1>4, <1>6
  <2>2. s \in EnvStatus
    <3>1. env[o][q.e] \in EnvStatus
      BY <1>3, <2>1
    <3> QED BY <1>6, <3>1 DEF Written
  <2>3. env' = [env EXCEPT ![o][i] = s]
    <3>1. env' = CASE w.env = Keep -> env
                   [] w.env # Keep /\ q.e <= Len(env[o]) -> [env EXCEPT ![o][q.e] = s]
                   [] w.env # Keep /\ q.e > Len(env[o]) -> [env EXCEPT ![o] = Append(env[o], w.env)]
      BY Zenon DEF Apply
    <3> HIDE DEF s, q, o
    <3> QED BY <1>1, <1>3, <1>6, <3>1
  <2>4. t \in Seq(EnvStatus)
    BY <1>3
  <2> HIDE DEF s, o, i
  <2>5. env'[o] = [t EXCEPT ![i] = s] /\ \A p \in Orders \ {o} : env'[p] = env[p]
    BY <1>1, <1>2, <2>3
  <2>6. env'[o] \in Seq(EnvStatus) /\ Len(env'[o]) = Len(t)
    <3> HIDE DEF t
    <3>1. [t EXCEPT ![i] = s] \in Seq(EnvStatus) /\ Len([t EXCEPT ![i] = s]) = Len(t)
      BY ONLY <2>2, <2>4, SeqPut, SMTT(30)
    <3> QED BY <2>5, <3>1, Zenon
  <2>7. env' \in [Orders -> Seq(EnvStatus)]
    <3>1. env' = [p \in Orders |-> env'[p]]
      BY <1>2, <2>3
    <3>2. \A p \in Orders : env'[p] \in Seq(EnvStatus)
      BY <1>2, <2>5, <2>6
    <3> QED BY <3>1, <3>2
  <2>8. \A p \in Orders : Len(env'[p]) >= Len(env[p])
    BY <1>3, <2>5, <2>6
  <2> QED BY <1>6, <2>1, <2>5, <2>7, <2>8 DEF s, o, i
<1>7. CASE w.env # Keep /\ ~(q.e <= Len(env[o]))
  <2> HIDE DEF q, o
  <2>1. q.e = Len(env[o]) + 1
    BY <1>1, <1>3, <1>4, <1>7
  <2>2. w.env # Touch /\ w.env # Keep
    BY <1>4, <1>7, <2>1
  <2>3. w.env \in EnvStatus
    BY <2>2
  <2>4. env' = [env EXCEPT ![o] = Append(env[o], w.env)]
    BY <1>1, <1>3, <1>7 DEF Apply, q, o
  <2>5. Append(env[o], w.env) \in Seq(EnvStatus) /\ Len(Append(env[o], w.env)) = Len(env[o]) + 1
    BY <1>3, <2>3, AppendProperties
  <2>6. env'[o] = Append(env[o], w.env) /\ \A p \in Orders \ {o} : env'[p] = env[p]
    BY <1>1, <1>2, <2>4
  <2>7. env' \in [Orders -> Seq(EnvStatus)]
    BY <1>1, <1>2, <2>4, <2>5
  <2>8. \A p \in Orders : Len(env'[p]) >= Len(env[p])
    BY <1>3, <2>5, <2>6
  <2> QED BY <1>7, <2>1, <2>3, <2>6, <2>7, <2>8 DEF q, o
<1> QED BY <1>5, <1>6, <1>7

\* What the writes w of run r make of the rows of its order.
LEMMA AppliedRows ==
    ASSUME Inv, NEW r \in Runs, run[r] \in RunState, RunOK(run[r]), NEW w, Apply(r, w),
           w.pay \in {Keep, "paid"}, w.order \in OrderStatus \cup {Keep}, w.sub \in BOOLEAN,
           w.job \in JobStatus \cup {Keep}, w.env \in EnvStatus \cup {Keep, Touch},
           w.env # Keep => run[r].w.env # Keep /\ (w.env = Touch => run[r].w.env = Touch)
    PROVE  /\ RowsTyped'
           /\ \A p \in Orders : DOMAIN job'[p] = DOMAIN job[p] /\ Len(env'[p]) >= Len(env[p])
           /\ \A p \in Orders \ {run[r].o} : order'[p] = order[p] /\ sub'[p] = sub[p]
                                             /\ env'[p] = env[p] /\ job'[p] = job[p]
           /\ order'[run[r].o].pay = IF w.pay = "paid" THEN "paid" ELSE order[run[r].o].pay
           /\ order'[run[r].o].status = IF w.order = Keep THEN order[run[r].o].status ELSE w.order
           /\ sub'[run[r].o] = IF w.sub THEN run[r].j ELSE sub[run[r].o]
           /\ w.env = Keep => env' = env
           /\ run[r].ghost => job' = job
<1> DEFINE q == run[r]
           o == q.o
<1>1. o \in Orders /\ q.j \in JobId /\ q.j \in DOMAIN job[o] /\ q.ghost \in BOOLEAN /\ q.e \in Nat
  BY Fields DEF RunOK
<1>2. /\ order \in [Orders -> [pay: {"unpaid", "paid"}, status: OrderStatus]]
      /\ sub \in [Orders -> Nat] /\ env \in [Orders -> Seq(EnvStatus)]
      /\ job \in [Orders -> Seq(JobStatus)] /\ orphans \in SUBSET Orders
  BY DEF Inv, TypeOK, JobStatus
<1>3. /\ order' \in [Orders -> [pay: {"unpaid", "paid"}, status: OrderStatus]]
      /\ order'[o].pay = IF w.pay = "paid" THEN "paid" ELSE order[o].pay
      /\ order'[o].status = IF w.order = Keep THEN order[o].status ELSE w.order
      /\ \A p \in Orders \ {o} : order'[p] = order[p]
  <2> DEFINE new == [pay |-> Written(order[o].pay, w.pay), status |-> Written(order[o].status, w.order)]
  <2>1. order' = [order EXCEPT ![o] = new]
    BY Zenon DEF Apply
  <2>2. order[o] \in [pay: {"unpaid", "paid"}, status: OrderStatus]
    BY <1>1, <1>2
  <2>3. new.pay \in {"unpaid", "paid"} /\ new.status \in OrderStatus
    BY <2>2 DEF Written, Keep, Touch, OrderStatus
  <2>4. new \in [pay: {"unpaid", "paid"}, status: OrderStatus]
    BY <2>3
  <2>5. /\ new.pay = IF w.pay = "paid" THEN "paid" ELSE order[o].pay
        /\ new.status = IF w.order = Keep THEN order[o].status ELSE w.order
    BY DEF Written, Keep, Touch, OrderStatus
  <2> HIDE DEF new, o
  <2> QED BY <1>1, <1>2, <2>1, <2>4, <2>5
<1>4. /\ sub' \in [Orders -> Nat] /\ sub'[o] = IF w.sub THEN q.j ELSE sub[o]
      /\ \A p \in Orders \ {o} : sub'[p] = sub[p]
  <2>1. sub' = IF w.sub THEN [sub EXCEPT ![o] = q.j] ELSE sub
    BY Zenon DEF Apply
  <2> HIDE DEF q, o
  <2> QED BY <1>1, <1>2, <2>1 DEF JobId
<1>5. /\ job' \in [Orders -> Seq(JobStatus)] /\ (q.ghost => job' = job)
      /\ \A p \in Orders : DOMAIN job'[p] = DOMAIN job[p]
      /\ \A p \in Orders \ {o} : job'[p] = job[p]
  <2> DEFINE s == Written(job[o][q.j], w.job)
  <2>1. job' = IF q.ghost THEN job ELSE [job EXCEPT ![o][q.j] = s]
    BY Zenon DEF Apply
  <2>2. s \in JobStatus
    <3>1. job[o][q.j] \in JobStatus
      BY <1>1, <1>2
    <3> QED BY <3>1 DEF Written, Keep, Touch
  <2> HIDE DEF s
  <2>3. CASE q.ghost
    BY <1>2, <2>1, <2>3
  <2>4. CASE ~q.ghost
    BY <1>1, <2>1, <2>2, <2>4, MarkedJob
  <2> QED BY <2>3, <2>4
<1>6. orphans' \in SUBSET Orders /\ grown' \in [Orders -> SUBSET Nat]
  <2>1. orphans' \in SUBSET Orders
    BY <1>1, <1>2 DEF Apply
  <2>2. grown \in [Orders -> SUBSET Nat]
    BY DEF Inv, TypeOK
  <2>3. grown' = grown \/ grown' = [grown EXCEPT ![o] = grown[o] \ {q.e}]
    BY Zenon DEF Apply
  <2> HIDE DEF q, o
  <2> QED BY <1>1, <2>1, <2>2, <2>3
<1>7. /\ env' \in [Orders -> Seq(EnvStatus)] /\ (w.env = Keep => env' = env)
      /\ \A p \in Orders : Len(env'[p]) >= Len(env[p])
      /\ \A p \in Orders \ {o} : env'[p] = env[p]
  BY AppliedEnv, Zenon
<1> QED BY <1>1, <1>3, <1>4, <1>5, <1>6, <1>7 DEF RowsTyped

\* The rows stay right and the other runs keep what RunOK says of them, when
\* run r writes them for an order that is paid for and has, or gets, its
\* subscription - or writes an ephemeral job only.
LEMMA ApplyInv ==
    ASSUME Inv, NEW r \in Runs, run[r] \in RunState, RunOK(run[r]), NEW w, Apply(r, w),
           w.pay \in {Keep, "paid"}, w.order \in OrderStatus \cup {Keep}, w.sub \in BOOLEAN,
           w.job \in JobStatus \cup {Keep}, w.env \in EnvStatus \cup {Keep, Touch},
           w.env # Keep => run[r].w.env # Keep /\ (w.env = Touch => run[r].w.env = Touch),
           w.sub => run[r].w.sub,
           w.sub \/ sub[run[r].o] # 0 \/ w.env = Keep,
           order[run[r].o].pay = "paid" \/ w.pay = "paid" \/ (run[r].ghost /\ ~w.sub /\ w.env = Keep)
    PROVE  /\ RowsTyped'
           /\ \A p \in Orders : RowsOK(p)' /\ DOMAIN job'[p] = DOMAIN job[p]
           /\ \A x \in Runs \ {r} : run[x] # Idle => \A p \in RunState : p = run[x] => RunOK(p)'
<1> DEFINE q == run[r]
           o == q.o
<1>1. /\ RowsTyped'
      /\ \A p \in Orders : DOMAIN job'[p] = DOMAIN job[p] /\ Len(env'[p]) >= Len(env[p])
      /\ \A p \in Orders \ {o} : order'[p] = order[p] /\ sub'[p] = sub[p]
                                 /\ env'[p] = env[p] /\ job'[p] = job[p]
      /\ order'[o].pay = IF w.pay = "paid" THEN "paid" ELSE order[o].pay
      /\ sub'[o] = IF w.sub THEN q.j ELSE sub[o]
      /\ w.env = Keep => env' = env
      /\ q.ghost => job' = job
  BY AppliedRows
<1>2. o \in Orders /\ q.j \in Nat /\ q.j # 0
  BY Fields DEF JobId
<1>3. \A p \in Orders : RowsOK(p)'
  <2> TAKE p \in Orders
  <2>1. RowsOK(p)
    BY DEF Inv
  <2>2. CASE p # o
    BY <1>1, <2>1, <2>2 DEF RowsOK
  <2>3. CASE p = o
    BY <1>1, <1>2, <2>1, <2>3 DEF RowsOK
  <2> QED BY <2>2, <2>3
<1>4. ASSUME NEW x \in Runs \ {r}, run[x] # Idle, NEW p \in RunState, p = run[x]
      PROVE  RunOK(p)'
  <2>1. RunOK(p) /\ p.o \in Orders /\ Apart(q, p)
    <3>1. p.o \in Orders
      BY Fields
    <3>2. RunOK(run[x]) /\ Apart(run[r], run[x])
      BY <1>4 DEF Inv, Idle, RunState
    <3> QED BY <1>4, <3>1, <3>2
  <2>2. CASE p.o # o
    BY <1>1, <2>1, <2>2 DEF RunOK
  <2>3. CASE p.o = o
    <3>1. Len(env[o]) \in Nat /\ Len(env'[o]) \in Nat /\ Len(env'[o]) >= Len(env[o])
      BY <1>1, <1>2, TypeParts, LenProperties DEF RowsTyped, Inv
    <3>2. p.j \in DOMAIN job'[o]
      BY <1>1, <1>2, <2>1, <2>3 DEF RunOK
    <3>3. order[o].pay = "paid" => order'[o].pay = "paid"
      BY <1>1
    <3>4. sub[o] # 0 => sub'[o] # 0
      BY <1>1, <1>2
    <3>5. p.w.sub => sub'[o] = sub[o]
      BY <1>1, <2>1, <2>3 DEF Apart
    <3>6. p.e \in Nat
      BY Fields
    <3> HIDE DEF o, q
    <3>7. order'[p.o] = order'[o] /\ sub'[p.o] = sub'[o] /\ env'[p.o] = env'[o] /\ job'[p.o] = job'[o]
      BY <2>3
    <3>8. RunOK(p)
      BY <2>1
    <3>9. /\ p.j \in DOMAIN job'[p.o]
          /\ \/ order'[p.o].pay = "paid"
             \/ p.by = "verify" /\ p.w.pay = "paid"
             \/ p.by = "worker" /\ p.at = "begun" /\ p.ghost
          /\ p.at # "begun" => sub'[p.o] # 0 \/ p.w.sub
          /\ p.w.sub => sub'[p.o] = 0
          /\ p.adopts /\ p.by # "worker" => sub'[p.o] # 0
      BY <2>3, <3>2, <3>3, <3>4, <3>5, <3>7, <3>8 DEF RunOK
    <3>10. /\ p.at = "found" => p.e <= Len(env'[p.o])
           /\ p.w.env # Keep =>
                 /\ p.e \in 1 .. Len(env'[p.o]) + 1
                 /\ p.w.env = Touch => p.e # Len(env'[p.o]) + 1
      BY <2>3, <3>1, <3>6, <3>7, <3>8 DEF RunOK
    <3> QED BY <3>8, <3>9, <3>10 DEF RunOK
  <2> QED BY <2>2, <2>3
<1> QED BY <1>1, <1>3, <1>4

LEMMA CommitInv ==
    ASSUME Inv, NEW r \in Runs, Commit(r)
    PROVE  Inv'
<1> DEFINE q == run[r]  w == q.w
<1>1. q.at = "done" /\ Apply(r, w) /\ run' = [run EXCEPT ![r] = Idle]
      /\ UNCHANGED <<queue, gaps, faults>>
  BY DEF Commit, At, End
<1>2. q \in RunState /\ RunOK(q)
  BY <1>1, BusyRun
<1>3. /\ w.pay \in {Keep, "paid"} /\ w.order \in OrderStatus \cup {Keep} /\ w.sub \in BOOLEAN
      /\ w.job \in JobStatus \cup {Keep} /\ w.env \in EnvStatus \cup {Keep, Touch}
  BY <1>2, Fields DEF JobStatus
<1>4. /\ w.sub \/ sub[q.o] # 0
      /\ order[q.o].pay = "paid" \/ w.pay = "paid"
  BY <1>1, <1>2 DEF RunOK
<1>5. /\ RowsTyped'
      /\ \A p \in Orders : RowsOK(p)' /\ DOMAIN job'[p] = DOMAIN job[p]
      /\ \A x \in Runs \ {r} : run[x] # Idle => \A p \in RunState : p = run[x] => RunOK(p)'
  BY <1>1, <1>2, <1>3, <1>4, ApplyInv
<1>6. RestTyped' /\ QueueOK'
  BY <1>1, <1>5 DEF Inv, TypeOK, RestTyped, QueueOK, Msg
<1> QED BY <1>1, <1>5, <1>6, StepInv

LEMMA SyncCommitInv ==
    ASSUME Inv, NEW r \in Runs, SyncCommit(r)
    PROVE  Inv'
<1> DEFINE q == run[r]  w == q.w
<1>1. q.at = "done" /\ Apply(r, w) /\ UNCHANGED <<queue, gaps, faults>>
  BY DEF SyncCommit, At
<1>2. q \in RunState /\ RunOK(q) /\ \A x \in Runs \ {r} : run[x] # Idle => Apart(q, run[x])
  BY <1>1, BusyRun
<1>3. /\ w.pay \in {Keep, "paid"} /\ w.order \in OrderStatus \cup {Keep} /\ w.sub \in BOOLEAN
      /\ w.job \in JobStatus \cup {Keep} /\ w.env \in EnvStatus \cup {Keep, Touch}
  BY <1>2, Fields DEF JobStatus
<1>4. /\ w.sub \/ sub[q.o] # 0
      /\ order[q.o].pay = "paid" \/ w.pay = "paid"
  BY <1>1, <1>2 DEF RunOK
<1>5. /\ RowsTyped'
      /\ \A p \in Orders : RowsOK(p)' /\ DOMAIN job'[p] = DOMAIN job[p]
      /\ \A x \in Runs \ {r} : run[x] # Idle => \A p \in RunState : p = run[x] => RunOK(p)'
  BY <1>1, <1>2, <1>3, <1>4, ApplyInv
<1>6. RestTyped' /\ QueueOK'
  BY <1>1, <1>5 DEF Inv, TypeOK, RestTyped, QueueOK, Msg
<1>7. /\ order'[q.o].pay = IF w.pay = "paid" THEN "paid" ELSE order[q.o].pay
      /\ sub'[q.o] = IF w.sub THEN q.j ELSE sub[q.o]
  BY <1>1, <1>2, <1>3, AppliedRows
<1>8. PICK u : u = Stepped(q, q.at, q.saw, Clean)
  OBVIOUS
<1>9. u \in RunState /\ run' = [run EXCEPT ![r] = u]
  <2>1. Clean \in Writes
    BY DEF Clean, Writes
  <2>2. [q EXCEPT !.w = Clean] = u
    BY <1>2, <1>8 DEF Stepped, RunState
  <2>3. run' = [run EXCEPT ![r] = [q EXCEPT !.w = Clean]]
    BY Zenon DEF SyncCommit
  <2>4. u \in RunState
    BY <1>2, <1>8, <2>1, NewRuns, Fields
  <2> QED BY <2>2, <2>3, <2>4, Zenon
<1>10. u.o = q.o /\ u.j = q.j /\ u.at = "done" /\ u.w = Clean
  BY <1>1, <1>8 DEF Stepped
<1> HIDE DEF w, q
<1>11. RunOK(u)'
  <2>1. u.o \in Orders /\ u.j \in Nat /\ u.j # 0
    BY <1>9, Fields DEF JobId
  <2>2. sub'[u.o] # 0 /\ order'[u.o].pay = "paid" /\ u.j \in DOMAIN job'[u.o]
    BY <1>2, <1>4, <1>5, <1>7, <1>10, <2>1 DEF RunOK
  <2>3. ~u.w.sub /\ u.w.env = Keep
    BY <1>10 DEF Clean
  <2> QED BY <1>10, <2>2, <2>3 DEF RunOK, Keep
<1>12. \A x \in Runs \ {r} : run[x] # Idle => Apart(u, run[x])
  BY <1>10 DEF Apart, Clean
<1> QED BY <1>5, <1>6, <1>9, <1>11, <1>12, StepInv

\* The marks of a failure are written for what the run has, and never to an
\* environment of which it wrote nothing.
LEMMA FailStep ==
    ASSUME Inv, NEW r \in Runs, Fail(r), ~RollBack(r)
    PROVE  /\ run[r].at = "failing" /\ run[r].by = "worker" /\ End(r) /\ SendAgain(r)
           /\ UNCHANGED faults /\ gaps' \in SUBSET Gaps /\ gaps \subseteq gaps'
           /\ \E ord \in OrderStatus \cup {Keep}, en \in EnvStatus \cup {Keep, Touch} :
                 /\ Apply(r, Wrote(run[r].w.pay, ord, run[r].w.sub, "failed", en))
                 /\ en = run[r].w.env \/ (run[r].w.env \in {"provisioning", Touch} /\ en = "provisioning_failed")
<1> DEFINE q == run[r]
           ord == IF q.saw = "failed" /\ q.w.order = Keep THEN Keep ELSE "failed"
           en == IF q.made /\ q.w.env \in {"provisioning", Touch} THEN "provisioning_failed" ELSE q.w.env
           w == Wrote(q.w.pay, ord, q.w.sub, "failed", en)
<1>1. /\ q.at = "failing" /\ q.by = "worker" /\ Apply(r, Marks(q)) /\ End(r) /\ SendAgain(r)
      /\ Gap("leftover", Leaves(q)) /\ UNCHANGED faults
  BY DEF Fail, At
<1>2. q \in RunState
  BY <1>1, BusyRun
<1>3. Marks(q) = w
  <2>1. q.w \in Writes
    BY <1>2, Fields
  <2>2. Marks(q) = [q.w EXCEPT !.job = "failed", !.order = ord, !.env = en]
    BY Zenon DEF Marks
  <2> HIDE DEF q, ord, en
  <2>3. \A jb : [q.w EXCEPT !.job = jb, !.order = ord, !.env = en]
                   = Wrote(q.w.pay, ord, q.w.sub, jb, en)
    BY <2>1, ThreeWrites, Zenon
  <2> QED BY <2>2, <2>3, Zenon
<1>4. Apply(r, w)
  BY <1>1, <1>3, Zenon
<1>5. ord \in OrderStatus \cup {Keep} /\ en \in EnvStatus \cup {Keep, Touch}
  BY <1>2, Fields DEF OrderStatus, EnvStatus, Live
<1>6. en = q.w.env \/ (q.w.env \in {"provisioning", Touch} /\ en = "provisioning_failed")
  OBVIOUS
<1>7. gaps' \in SUBSET Gaps /\ gaps \subseteq gaps'
  BY <1>1 DEF Gap, Gaps, Inv, TypeOK
<1> HIDE DEF ord, en
<1> QED BY <1>1, <1>4, <1>5, <1>6, <1>7

LEMMA FailInv ==
    ASSUME Inv, NEW r \in Runs, Fail(r)
    PROVE  Inv'
<1>1. run[r].at = "failing"
  BY DEF Fail, At
<1>2. run[r] \in RunState /\ RunOK(run[r])
  BY <1>1, BusyRun
<1>3. CASE RollBack(r)
  BY <1>1, <1>3, RollBackInv
<1>4. CASE ~RollBack(r)
  <2>1. End(r) /\ SendAgain(r) /\ UNCHANGED faults /\ gaps' \in SUBSET Gaps
    BY <1>4, FailStep
  <2>2. PICK ord \in OrderStatus \cup {Keep}, en \in EnvStatus \cup {Keep, Touch} :
           /\ Apply(r, Wrote(run[r].w.pay, ord, run[r].w.sub, "failed", en))
           /\ en = run[r].w.env \/ (run[r].w.env \in {"provisioning", Touch} /\ en = "provisioning_failed")
    BY <1>4, FailStep
  <2>3. PICK w : w = Wrote(run[r].w.pay, ord, run[r].w.sub, "failed", en)
    OBVIOUS
  <2>4. /\ Apply(r, w) /\ w.sub = run[r].w.sub /\ w.pay = run[r].w.pay
        /\ w.order = ord /\ w.job = "failed" /\ w.env = en
    BY <2>2, <2>3 DEF Wrote
  <2>5. /\ w.pay \in {Keep, "paid"} /\ w.order \in OrderStatus \cup {Keep} /\ w.sub \in BOOLEAN
        /\ w.job \in JobStatus \cup {Keep} /\ w.env \in EnvStatus \cup {Keep, Touch}
    BY <1>2, <2>4, Fields DEF JobStatus
  <2>6. w.env # Keep => run[r].w.env # Keep /\ (w.env = Touch => run[r].w.env = Touch)
    BY <2>2, <2>4 DEF Keep, Touch
  <2>7. /\ w.sub \/ sub[run[r].o] # 0
        /\ order[run[r].o].pay = "paid" \/ w.pay = "paid"
    BY <1>1, <1>2, <2>4 DEF RunOK
  <2>8. /\ RowsTyped'
        /\ \A p \in Orders : RowsOK(p)' /\ DOMAIN job'[p] = DOMAIN job[p]
        /\ \A x \in Runs \ {r} : run[x] # Idle => \A p \in RunState : p = run[x] => RunOK(p)'
    BY <1>2, <2>4, <2>5, <2>6, <2>7, ApplyInv
  <2>9. queue' \in SUBSET Msg /\ \A m \in queue' : m.j \in DOMAIN job[m.o]
    BY <1>2, <2>1, SentAgain
  <2>10. RestTyped' /\ QueueOK'
    BY <2>1, <2>8, <2>9 DEF Inv, TypeOK, RestTyped, QueueOK, Msg
  <2> QED BY <2>1, <2>8, <2>10, StepInv DEF End
<1> QED BY <1>3, <1>4

LEMMA OpenTaskInv ==
    ASSUME Inv, NEW r \in Runs, OpenTask(r)
    PROVE  Inv'
<1> DEFINE q == run[r]
           w == Wrote(Keep, Keep, FALSE, "running", Keep)
           saw == order[q.o].status
           found == sub[q.o] # 0 /\ (~q.ghost \/ sub[q.o] = q.j)
           v == Stepped(q, "opened", saw, w)
           x == [Clean EXCEPT !.job = "running"]
<1>1. q.at = "begun" /\ q.by = "worker"
  BY DEF OpenTask, OpenTaskIf, At
<1>2. q \in RunState /\ RunOK(q) /\ q.o \in Orders
      /\ \A y \in Runs \ {r} : run[y] # Idle => Apart(q, run[y])
  BY <1>1, BusyRun, Fields
<1>3. x = w /\ w \in Writes
  <2>1. Clean = Wrote(Keep, Keep, FALSE, Keep, Keep) /\ Clean \in Writes
    BY DEF Clean, Wrote, Writes
  <2>2. x = Wrote(Clean.pay, Clean.order, Clean.sub, "running", Clean.env)
    BY <2>1, OneWrite
  <2>3. x = w
    BY <2>1, <2>2 DEF Wrote
  <2> QED BY <2>3, NewWrites DEF InFlight
<1>4. ASSUME found, Rest(r),
             run' = [run EXCEPT ![r].at = "opened", ![r].w = x, ![r].saw = saw]
      PROVE  Inv'
  <2>1. v \in RunState
    <3>1. saw \in OrderStatus
      BY <1>2, TypeParts DEF Inv
    <3> QED BY <1>2, <1>3, <3>1, NewRuns, Fields DEF Stage
  <2>2. run' = [run EXCEPT ![r] = v]
    <3>1. run' = [run EXCEPT ![r] = [q EXCEPT !.at = "opened", !.w = x, !.saw = saw]]
      BY <1>4, Zenon
    <3>2. q \in RunState /\ x = w
      BY <1>2, <1>3
    <3> HIDE DEF q, saw, w, x
    <3>3. \A st, u : [q EXCEPT !.at = st, !.w = u, !.saw = saw] = Stepped(q, st, saw, u)
      BY <3>2, OpenedRecord, Zenon
    <3>4. [q EXCEPT !.at = "opened", !.w = x, !.saw = saw] = v
      BY <3>2, <3>3, Zenon
    <3> QED BY <3>1, <3>4, Zenon
  <2>3. RunOK(v)
    <3>1. order[q.o].pay = "paid"
      BY <1>2, <1>4, TypeParts DEF Inv, RowsOK
    <3> QED BY <1>1, <1>2, <1>4, <3>1 DEF RunOK, Stepped, Wrote
  <2>4. \A y \in Runs \ {r} : run[y] # Idle => Apart(v, run[y])
    BY DEF Apart, Stepped, Wrote
  <2>5. UNCHANGED rows /\ RestTyped' /\ QueueOK'
    BY <1>4, RestHolds
  <2> HIDE DEF v
  <2> QED BY <2>1, <2>2, <2>3, <2>4, <2>5, AdvanceInv
<1>5. ASSUME Apply(r, x), End(r), SendAgain(r), UNCHANGED <<gaps, faults>>
      PROVE  Inv'
  <2>1. /\ w.pay \in {Keep, "paid"} /\ w.order \in OrderStatus \cup {Keep} /\ w.sub \in BOOLEAN
        /\ w.job \in JobStatus \cup {Keep} /\ w.env \in EnvStatus \cup {Keep, Touch}
        /\ w.env = Keep /\ ~w.sub
    BY DEF JobStatus, InFlight, Wrote
  <2>2. order[q.o].pay = "paid" \/ q.ghost
    BY <1>1, <1>2 DEF RunOK
  <2>3. Apply(r, w)
    BY <1>3, <1>5, Zenon
  <2>4. /\ RowsTyped'
        /\ \A p \in Orders : RowsOK(p)' /\ DOMAIN job'[p] = DOMAIN job[p]
        /\ \A y \in Runs \ {r} : run[y] # Idle => \A p \in RunState : p = run[y] => RunOK(p)'
    <3> HIDE DEF w
    <3> QED BY <1>2, <2>1, <2>2, <2>3, ApplyInv
  <2>5. queue' \in SUBSET Msg /\ \A m \in queue' : m.j \in DOMAIN job[m.o]
    BY <1>2, <1>5, SentAgain
  <2>6. RestTyped' /\ QueueOK'
    BY <1>5, <2>4, <2>5 DEF Inv, TypeOK, RestTyped, QueueOK, Msg
  <2> QED BY <1>5, <2>4, <2>6, StepInv DEF End
<1> QED BY <1>4, <1>5, Zenon DEF OpenTask, OpenTaskIf

-------------------------------------------------------------------------------
(***************************************************************************)
(* The start of a run, and the lifecycle of environments.                  *)
(***************************************************************************)
NewRow(o) == job' = job \/ job' = [job EXCEPT ![o] = Append(job[o], "absent")]

\* A job row that is about to be inserted changes nothing for the other jobs.
LEMMA NewRowInv ==
    ASSUME Inv, NEW o \in Orders, NewRow(o), UNCHANGED <<order, sub, env, grown, orphans>>
    PROVE  /\ RowsTyped' /\ \A p \in Orders : RowsOK(p)' /\ DOMAIN job[p] \subseteq DOMAIN job'[p]
           /\ \A p \in RunState : RunOK(p) => RunOK(p)'
<1>1. job \in [Orders -> Seq(JobStatus)] /\ job[o] \in Seq(JobStatus)
  BY DEF Inv, TypeOK, JobStatus
<1>2. /\ job' \in [Orders -> Seq(JobStatus)]
      /\ \A p \in Orders : DOMAIN job[p] \subseteq DOMAIN job'[p]
      /\ \A p \in Orders, j \in JobId : j \in DOMAIN job'[p] =>
            job'[p][j] = "absent" \/ (j \in DOMAIN job[p] /\ job'[p][j] = job[p][j])
  <2>1. CASE job' = job
    BY <1>1, <2>1
  <2>2. CASE job' = [job EXCEPT ![o] = Append(job[o], "absent")]
    <3> DEFINE s == Append(job[o], "absent")
    <3>1. /\ s \in Seq(JobStatus) /\ Len(s) = Len(job[o]) + 1 /\ Len(job[o]) \in Nat
          /\ \A i \in 1 .. Len(job[o]) : s[i] = job[o][i]
          /\ s[Len(job[o]) + 1] = "absent"
          /\ DOMAIN s = 1 .. Len(s) /\ DOMAIN job[o] = 1 .. Len(job[o])
      BY <1>1, AppendProperties, LenProperties DEF JobStatus
    <3> HIDE DEF s
    <3>2. job'[o] = s /\ \A p \in Orders \ {o} : job'[p] = job[p]
      BY <1>1, <2>2 DEF s
    <3>3. job' \in [Orders -> Seq(JobStatus)]
      BY <1>1, <2>2, <3>1 DEF s
    <3>4. ASSUME NEW p \in Orders
          PROVE  /\ DOMAIN job[p] \subseteq DOMAIN job'[p]
                 /\ \A j \in JobId : j \in DOMAIN job'[p] =>
                       job'[p][j] = "absent" \/ (j \in DOMAIN job[p] /\ job'[p][j] = job[p][j])
      <4>1. CASE p = o
        <5>1. DOMAIN job[o] \subseteq DOMAIN s
          BY <3>1
        <5>2. ASSUME NEW j \in JobId, j \in DOMAIN s
              PROVE  s[j] = "absent" \/ (j \in DOMAIN job[o] /\ s[j] = job[o][j])
          <6> DEFINE n == Len(job[o])
          <6>1. n \in Nat /\ DOMAIN s = 1 .. n + 1 /\ DOMAIN job[o] = 1 .. n
            BY <3>1
          <6>2. (\A i \in 1 .. n : s[i] = job[o][i]) /\ s[n + 1] = "absent"
            BY <3>1
          <6> HIDE DEF n
          <6>3. j \in 1 .. n \/ j = n + 1
            BY <5>2, <6>1
          <6>4. CASE j \in 1 .. n
            BY <6>1, <6>2, <6>4, Zenon
          <6>5. CASE j = n + 1
            BY <6>2, <6>5, Zenon
          <6> QED BY <6>3, <6>4, <6>5
        <5> QED BY <3>2, <4>1, <5>1, <5>2
      <4>2. CASE p # o
        BY <3>2, <4>2
      <4> QED BY <4>1, <4>2
    <3> QED BY <3>3, <3>4
  <2> QED BY <2>1, <2>2 DEF NewRow
<1>3. RowsTyped'
  BY <1>2 DEF Inv, TypeOK, RowsTyped
<1>4. ASSUME NEW p \in Orders
      PROVE  RowsOK(p)'
  <2>1. RowsOK(p)
    BY DEF Inv
  <2>2. \A j \in DOMAIN job'[p] : j \in JobId
    BY <1>2 DEF JobId
  <2> QED BY <1>2, <2>1, <2>2 DEF RowsOK
<1>5. ASSUME NEW p \in RunState, RunOK(p)
      PROVE  RunOK(p)'
  <2>1. p.o \in Orders /\ p.j \in DOMAIN job'[p.o]
    BY <1>2, <1>5, Fields DEF RunOK
  <2> QED BY <1>5, <2>1 DEF RunOK
<1> QED BY <1>2, <1>3, <1>4, <1>5

LEMMA BeginInv ==
    ASSUME Inv, NEW r \in Runs, NEW by \in {"verify", "activate", "retry"}, NEW o \in Orders,
           NEW j \in JobId, NEW w \in Writes, Begin(r, by, o, j, w), NewRow(o), j \in DOMAIN job'[o],
           ~w.sub, w.env = Keep, order[o].pay = "paid" \/ (by = "verify" /\ w.pay = "paid")
    PROVE  Inv'
<1> DEFINE adopts == by = "retry" /\ sub[o] # 0
<1>1. PICK v : v = [at |-> "begun", by |-> by, o |-> o, j |-> j, attempt |-> 0, ghost |-> FALSE,
                    adopts |-> adopts, saw |-> order[o].status,
                    e |-> 0, was |-> Keep, large |-> FALSE, n |-> 0, made |-> FALSE, w |-> w]
  OBVIOUS
<1>2. run' = [run EXCEPT ![r] = v] /\ UNCHANGED <<order, sub, env, grown, orphans, queue, gaps, faults>>
  BY <1>1, Zenon DEF Begin
<1>3. v \in RunState
  <2>1. order[o].status \in OrderStatus
    BY TypeParts DEF Inv
  <2>2. adopts \in BOOLEAN
    OBVIOUS
  <2> HIDE DEF adopts
  <2> QED BY <1>1, <2>1, <2>2 DEF RunState, Stage, By
<1>4. /\ RowsTyped' /\ \A p \in Orders : RowsOK(p)' /\ DOMAIN job[p] \subseteq DOMAIN job'[p]
      /\ \A p \in RunState : RunOK(p) => RunOK(p)'
  BY <1>2, NewRowInv
<1>5. RestTyped' /\ QueueOK'
  BY <1>2, <1>4 DEF Inv, TypeOK, RestTyped, QueueOK, Msg
<1>6. /\ v.at = "begun" /\ v.o = o /\ v.j = j /\ v.w = w /\ v.by = by
      /\ v.adopts => sub[o] # 0
  BY <1>1
<1>7. RunOK(v)'
  <2>1. order'[v.o] = order[o] /\ sub'[v.o] = sub[o]
    BY <1>2, <1>6
  <2> QED BY <1>6, <2>1 DEF RunOK, Keep
<1>8. \A x \in Runs \ {r} : run[x] # Idle =>
         Apart(v, run[x]) /\ \A p \in RunState : p = run[x] => RunOK(p)'
  BY <1>4, <1>6 DEF Apart, Inv
<1> QED BY <1>2, <1>3, <1>4, <1>5, <1>7, <1>8, StepInv

LEMMA RequestWrites ==
    \A v \in OrderStatus \cup {Keep} :
        LET w == [Clean EXCEPT !.order = v] IN w \in Writes /\ ~w.sub /\ w.env = Keep
<1> SUFFICES ASSUME NEW v \in OrderStatus \cup {Keep}
             PROVE  LET w == [Clean EXCEPT !.order = v] IN w \in Writes /\ ~w.sub /\ w.env = Keep
  OBVIOUS
<1>1. Clean = Wrote(Keep, Keep, FALSE, Keep, Keep) /\ Clean \in Writes
  BY DEF Clean, Wrote, Writes
<1>2. [Clean EXCEPT !.order = v] = Wrote(Clean.pay, v, Clean.sub, Clean.job, Clean.env)
  BY <1>1, OneWrite
<1>3. [Clean EXCEPT !.order = v] = Wrote(Keep, v, FALSE, Keep, Keep)
  BY <1>1, <1>2 DEF Wrote
<1>4. Wrote(Keep, v, FALSE, Keep, Keep) \in Writes
  BY NewWrites
<1> QED BY <1>3, <1>4 DEF Wrote

LEMMA PaidWrites ==
    LET w == [Clean EXCEPT !.pay = "paid", !.order = "queued"]
    IN  w \in Writes /\ ~w.sub /\ w.env = Keep /\ w.pay = "paid"
<1>1. Clean = Wrote(Keep, Keep, FALSE, Keep, Keep) /\ Clean \in Writes
  BY DEF Clean, Wrote, Writes
<1> DEFINE w == [Clean EXCEPT !.pay = "paid", !.order = "queued"]
<1>2. \A p, s : [Clean EXCEPT !.pay = p, !.order = s] = Wrote(p, s, Clean.sub, Clean.job, Clean.env)
  BY <1>1, TwoWrites, Zenon
<1>3. w = Wrote("paid", "queued", Clean.sub, Clean.job, Clean.env)
  BY <1>2, Zenon
<1>4. w = Wrote("paid", "queued", FALSE, Keep, Keep)
  <2> HIDE DEF w
  <2> QED BY <1>1, <1>3 DEF Wrote
<1>5. Wrote("paid", "queued", FALSE, Keep, Keep) \in Writes
  BY NewWrites DEF OrderStatus
<1> HIDE DEF w
<1>6. w \in Writes /\ ~w.sub /\ w.env = Keep /\ w.pay = "paid"
  BY <1>4, <1>5 DEF Wrote
<1> QED BY <1>6, Zenon DEF w

LEMMA InsertedRow ==
    ASSUME Inv, NEW o \in Orders, Insert(o)
    PROVE  NewRow(o) /\ NewJob(o) \in JobId /\ NewJob(o) \in DOMAIN job'[o]
<1>1. job \in [Orders -> Seq(JobStatus)] /\ job[o] \in Seq(JobStatus)
  BY DEF Inv, TypeOK, JobStatus
<1>2. job' = [job EXCEPT ![o] = Append(job[o], "absent")]
  BY DEF Insert
<1>3. job'[o] = Append(job[o], "absent")
  BY <1>1, <1>2
<1>4. DOMAIN job'[o] = 1 .. Len(job[o]) + 1 /\ Len(job[o]) \in Nat
  BY <1>1, <1>3, AppendProperties, LenProperties DEF JobStatus
<1> QED BY <1>2, <1>4 DEF NewRow, NewJob, JobId

LEMMA RequestInv ==
    ASSUME Inv, NEW r \in Runs, NEW o \in Orders, Request(r, o)
    PROVE  Inv'
<1>1. order[o].status \in OrderStatus /\ job[o] \in Seq(JobStatus)
  BY TypeParts DEF Inv
<1>2. CASE Verify(r, o)
  <2> DEFINE w == [Clean EXCEPT !.pay = "paid", !.order = "queued"]
             j == NewJob(o)
  <2>1. Insert(o) /\ Begin(r, "verify", o, j, w)
    BY <1>2, Zenon DEF Verify
  <2>2. w \in Writes /\ ~w.sub /\ w.env = Keep /\ w.pay = "paid"
    BY PaidWrites, Zenon
  <2>3. NewRow(o) /\ j \in JobId /\ j \in DOMAIN job'[o]
    BY <2>1, InsertedRow
  <2>4. PICK k, u : k = j /\ u = w
    OBVIOUS
  <2> HIDE DEF w, j
  <2> QED BY <2>1, <2>2, <2>3, <2>4, BeginInv
<1>3. CASE Activate(r, o)
  <2> DEFINE s == Changed(order[o].status, "queued")
             w == [Clean EXCEPT !.order = s]
             j == NewJob(o)
  <2>1. Insert(o) /\ Begin(r, "activate", o, j, w) /\ order[o].pay = "paid"
    BY <1>3, Zenon DEF Activate
  <2>2. s \in OrderStatus \cup {Keep}
    BY DEF Changed, OrderStatus
  <2>3. w \in Writes /\ ~w.sub /\ w.env = Keep
    <3> HIDE DEF s
    <3> QED BY <2>2, RequestWrites, Zenon
  <2>4. NewRow(o) /\ j \in JobId /\ j \in DOMAIN job'[o]
    BY <2>1, InsertedRow
  <2>5. PICK k, u : k = j /\ u = w
    OBVIOUS
  <2> HIDE DEF w, j
  <2> QED BY <2>1, <2>3, <2>4, <2>5, BeginInv
<1>4. CASE RetryProvision(r, o)
  <2> DEFINE inflight == {j \in DOMAIN job[o] : job[o][j] \in InFlight}
             first == {j \in inflight : \A k \in inflight : j <= k}
             reuse == sub[o] # 0 /\ inflight # {}
             s == IF sub[o] = 0 THEN Keep ELSE Changed(order[o].status, "queued")
             w == [Clean EXCEPT !.order = s]
  <2>1. order[o].pay = "paid" /\ (IF reuse THEN UNCHANGED job ELSE Insert(o))
    BY <1>4, Zenon DEF RetryProvision, RetryOf
  <2>2. PICK j \in IF reuse THEN first ELSE {NewJob(o)} : Begin(r, "retry", o, j, w)
    BY <1>4, Zenon DEF RetryProvision, RetryOf
  <2>3. s \in OrderStatus \cup {Keep}
    BY DEF Changed, OrderStatus
  <2>4. w \in Writes /\ ~w.sub /\ w.env = Keep
    <3> HIDE DEF s
    <3> QED BY <2>3, RequestWrites, Zenon
  <2>5. NewRow(o) /\ j \in JobId /\ j \in DOMAIN job'[o]
    <3>1. CASE reuse
      <4>1. j \in DOMAIN job[o] /\ job' = job
        BY <2>1, <2>2, <3>1
      <4> QED BY <1>1, <4>1 DEF NewRow, JobId
    <3>2. CASE ~reuse
      BY <2>1, <2>2, <3>2, InsertedRow
    <3> QED BY <3>1, <3>2
  <2>6. PICK u : u = w
    OBVIOUS
  <2> HIDE DEF w
  <2> QED BY <2>1, <2>2, <2>4, <2>5, <2>6, BeginInv
<1> QED BY <1>2, <1>3, <1>4 DEF Request

LEMMA TakeInv ==
    ASSUME Inv, NEW r \in Runs, NEW m \in queue, Take(r, m)
    PROVE  Inv'
<1> DEFINE ghost == job[m.o][m.j] = "absent"
<1>1. PICK v : v = [at |-> "begun", by |-> "worker", o |-> m.o, j |-> m.j, attempt |-> m.attempt,
                    ghost |-> ghost, adopts |-> TRUE, saw |-> "pending",
                    e |-> 0, was |-> Keep, large |-> FALSE, n |-> 0, made |-> FALSE, w |-> Clean]
  OBVIOUS
<1>2. run' = [run EXCEPT ![r] = v] /\ UNCHANGED rows /\ UNCHANGED <<gaps, faults>>
      /\ queue' = queue \ {m}
  BY <1>1, Zenon DEF Take
<1>3. m \in Msg /\ m.j \in DOMAIN job[m.o]
  BY TypeParts DEF Inv
<1>4. v \in RunState
  <2>1. ghost \in BOOLEAN /\ Clean \in Writes
    BY DEF Clean, Writes
  <2>2. m.o \in Orders /\ m.j \in JobId /\ m.attempt \in 0..MaxAttempts
    BY <1>3 DEF Msg
  <2> HIDE DEF ghost
  <2> QED BY <1>1, <2>1, <2>2 DEF RunState, Stage, By, OrderStatus
<1>5. RestTyped' /\ QueueOK'
  BY <1>2 DEF Inv, TypeOK, RestTyped, QueueOK, rows
<1>6. order[m.o].pay = "paid" \/ ghost
  BY <1>3, TypeParts DEF Inv, RowsOK, Msg
<1>7. RunOK(v)
  <2>1. /\ v.at = "begun" /\ v.by = "worker" /\ v.o = m.o /\ v.j = m.j /\ v.ghost = ghost
        /\ v.w = Clean
    BY <1>1
  <2>2. ~v.w.sub /\ v.w.env = Keep
    BY <2>1 DEF Clean
  <2> HIDE DEF ghost
  <2> QED BY <1>3, <1>6, <2>1, <2>2 DEF RunOK, Keep
<1>8. \A x \in Runs \ {r} : run[x] # Idle => Apart(v, run[x])
  BY <1>1 DEF Apart, Clean
<1> QED BY <1>2, <1>4, <1>5, <1>7, <1>8, AdvanceInv

LEMMA LifecycleInv ==
    ASSUME Inv, NEW o \in Orders, NEW i \in DOMAIN env[o], Lifecycle(o, i)
    PROVE  Inv'
<1>1. PICK to \in EnvStatus :
         /\ env' = [env EXCEPT ![o][i] = to]
         /\ UNCHANGED <<order, sub, grown, job, orphans, queue, run, faults>>
  BY DEF Lifecycle, Suspend, Restore, Terminate, SetEnv, EnvStatus, Live
<1>2. gaps' \in SUBSET Gaps
  <2>1. gaps' = gaps \/ gaps' = gaps \cup {"flip"}
    BY DEF Lifecycle, Suspend, Restore, Terminate, Gap
  <2> QED BY <2>1 DEF Inv, TypeOK, Gaps
<1>3. env \in [Orders -> Seq(EnvStatus)] /\ env[o] \in Seq(EnvStatus)
  BY DEF Inv, TypeOK
<1>4. env'[o] = [env[o] EXCEPT ![i] = to] /\ \A p \in Orders \ {o} : env'[p] = env[p]
  BY <1>1, <1>3
<1>5. env'[o] \in Seq(EnvStatus) /\ Len(env'[o]) = Len(env[o])
  BY <1>3, <1>4, SeqPut
<1>6. env' \in [Orders -> Seq(EnvStatus)] /\ \A p \in Orders : Len(env'[p]) = Len(env[p])
  <2>1. env' = [p \in Orders |-> env'[p]]
    BY <1>1, <1>3
  <2>2. \A p \in Orders : env'[p] \in Seq(EnvStatus) /\ Len(env'[p]) = Len(env[p])
    BY <1>3, <1>4, <1>5
  <2> QED BY <2>1, <2>2
<1>7. TypeOK'
  BY <1>1, <1>2, <1>6 DEF Inv, TypeOK
<1>8. \A p \in Orders : RowsOK(p)'
  <2> TAKE p \in Orders
  <2>1. RowsOK(p) /\ RowsOK(o)
    BY DEF Inv
  <2>2. CASE p = o
    <3>1. env[o] # <<>>
      BY <1>3
    <3>2. order[o].pay # "unpaid" /\ sub[o] # 0
      BY <2>1, <3>1 DEF RowsOK
    <3> QED BY <1>1, <2>2, <3>2 DEF RowsOK
  <2>3. CASE p # o
    BY <1>1, <1>4, <2>1, <2>3 DEF RowsOK
  <2> QED BY <2>2, <2>3
<1>9. \A r \in Runs : (run[r] # Idle => RunOK(run[r]))'
  <2> SUFFICES ASSUME NEW r \in Runs, run[r] # Idle
               PROVE  RunOK(run[r])'
    BY <1>1
  <2>1. RunOK(run[r]) /\ run[r] \in RunState
    BY TypeParts, BusyShape DEF Inv
  <2>2. run[r].o \in Orders
    BY <2>1, Fields
  <2> QED BY <1>1, <1>6, <2>1, <2>2 DEF RunOK
<1> QED BY <1>1, <1>7, <1>8, <1>9 DEF Inv, Apart

\* A change of plan touches the limits only, and raises none without a gap.
LEMMA ChangePlanStep ==
    ASSUME Inv, NEW o \in Orders, NEW up \in BOOLEAN, ChangePlan(o, up)
    PROVE  /\ UNCHANGED <<order, sub, env, job, orphans, queue, run, faults>>
           /\ gaps \subseteq gaps' /\ gaps' \in SUBSET Gaps
           /\ grown' \in [Orders -> SUBSET Nat]
           /\ "upgrade" \notin gaps' => \A p \in Orders : grown'[p] \subseteq grown[p]
<1>1. grown \in [Orders -> SUBSET Nat] /\ gaps \in SUBSET Gaps /\ env[o] \in Seq(EnvStatus)
  BY DEF Inv, TypeOK
<1>2. DOMAIN env[o] \in SUBSET Nat
  <2>1. DOMAIN env[o] = 1 .. Len(env[o]) /\ Len(env[o]) \in Nat
    BY <1>1, LenProperties
  <2> QED BY <2>1
<1>3. PICK big : big = IF up THEN DOMAIN env[o] ELSE {}
  OBVIOUS
<1>4. grown' = [grown EXCEPT ![o] = big] /\ big \in SUBSET Nat
  BY <1>2, <1>3 DEF ChangePlan
<1>5. /\ gaps' = gaps \/ gaps' = gaps \cup {"upgrade"}
      /\ "upgrade" \notin gaps' => ~up \/ DOMAIN env[o] \subseteq grown[o]
  BY DEF ChangePlan, Gap
<1>6. "upgrade" \notin gaps' => big \subseteq grown[o]
  BY <1>3, <1>5
<1>7. "upgrade" \in Gaps
  BY DEF Gaps
<1> QED BY <1>1, <1>4, <1>5, <1>6, <1>7 DEF ChangePlan

LEMMA ChangePlanInv ==
    ASSUME Inv, NEW o \in Orders, NEW up \in BOOLEAN, ChangePlan(o, up)
    PROVE  Inv'
<1>1. /\ UNCHANGED <<order, sub, env, job, orphans, queue, run, faults>>
      /\ gaps' \in SUBSET Gaps /\ grown' \in [Orders -> SUBSET Nat]
  BY ChangePlanStep
<1>2. TypeOK'
  BY <1>1 DEF Inv, TypeOK
<1> QED BY <1>1, <1>2 DEF Inv, RunOK, Apart, RowsOK

-------------------------------------------------------------------------------
LEMMA InvNext == Inv /\ [Next]_vars => Inv'
<1> SUFFICES ASSUME Inv, [Next]_vars PROVE Inv'
  OBVIOUS
<1>1. CASE UNCHANGED vars
  BY <1>1 DEF vars, rows, Inv, TypeOK, RunOK, Apart, RowsOK
<1>2. ASSUME NEW r \in Runs, Step(r)
      PROVE  Inv'
  BY <1>2, OpenInlineInv, OpenVerifiedInv, OpenTaskInv, FindInv, GateInv, BuildInv, CompleteInv,
     HostFailsInv, SyncCommitInv, CommitInv, FailInv, DieInv DEF Step
<1>3. ASSUME NEW r \in Runs, Die(r)
      PROVE  Inv'
  BY <1>3, DieInv
<1>4. ASSUME NEW r \in Runs, NEW o \in Orders, Request(r, o)
      PROVE  Inv'
  BY <1>4, RequestInv
<1>5. ASSUME NEW r \in Runs, NEW m \in queue, Take(r, m)
      PROVE  Inv'
  BY <1>5, TakeInv
<1>6. ASSUME NEW o \in Orders, NEW i \in DOMAIN env[o], Lifecycle(o, i)
      PROVE  Inv'
  BY <1>6, LifecycleInv
<1>7. ASSUME NEW o \in Orders, NEW up \in BOOLEAN, ChangePlan(o, up)
      PROVE  Inv'
  BY <1>7, ChangePlanInv
<1> QED BY <1>1, <1>2, <1>3, <1>4, <1>5, <1>6, <1>7 DEF Next

LEMMA Invariant == Spec => []Inv
BY InitInv, InvNext, PTL DEF Spec

\* The rows, the messages and what the sessions remember keep their shape,
\* whatever the number of orders and sessions, the size of the pool and the
\* bounds on retries and faults (services/platform/provisioning.py).
THEOREM TypeCorrect == Spec => []TypeOK
<1>1. Inv => TypeOK
  BY DEF Inv
<1> QED BY <1>1, Invariant, PTL

\* An order that is not paid for has no subscription, no environment and no
\* committed job, whatever messages a failed verification has left in Redis.
THEOREM UnpaidGetsNothing == Spec => []UnpaidHasNothing
<1>1. Inv => UnpaidHasNothing
  BY DEF Inv, RowsOK, UnpaidHasNothing
<1> QED BY <1>1, Invariant, PTL

-------------------------------------------------------------------------------
(***************************************************************************)
(* One environment.  As long as no run has written over a terminated       *)
(* environment, an order has at most one that is live; who has written an  *)
(* environment that is there has written a live one, and who is about to   *)
(* insert one, or found none, still finds none unless one was inserted.    *)
(***************************************************************************)
Alive(o) == {i \in DOMAIN env[o] : env[o][i] \in Live}

HoldOK(q) ==
    /\ q.w.env # Keep =>
          IF q.e <= Len(env[q.o]) THEN q.e \in Alive(q.o) ELSE Alive(q.o) = {}
    /\ q.at \in {"found", "gated"} /\ q.e = 0 =>
          /\ q.n <= Len(env[q.o])
          /\ q.n = Len(env[q.o]) => Alive(q.o) = {}

OneLive ==
    /\ \A o \in Orders : \A i, k \in Alive(o) : i = k
    /\ \A r \in Runs : run[r] # Idle => HoldOK(run[r])
One == "revival" \in gaps \/ OneLive

\* Run r steps to v and no environment changes.
LEMMA OneAdvance ==
    ASSUME Inv, OneLive, NEW r \in Runs, NEW v \in RunState \cup {Idle},
           run' = [run EXCEPT ![r] = v], env' = env, v # Idle => HoldOK(v)
    PROVE  OneLive'
<1>1. run'[r] = v /\ (\A x \in Runs \ {r} : run'[x] = run[x])
  BY TypeParts, SetRun DEF Inv
<1>2. \A x \in Runs : (run[x] # Idle => HoldOK(run[x]))'
  <2> TAKE x \in Runs
  <2>1. CASE x = r
    <3>1. (run[x] # Idle)' => HoldOK(v) /\ run'[x] = v
      BY <1>1, <2>1
    <3> QED BY <3>1 DEF HoldOK, Alive
  <2>2. CASE x # r
    <3>1. (run[x] # Idle)' => HoldOK(run[x]) /\ run'[x] = run[x]
      BY <1>1, <2>2 DEF OneLive
    <3> QED BY <3>1 DEF HoldOK, Alive
  <2> QED BY <2>1, <2>2
<1>3. (\A o \in Orders : \A i, k \in Alive(o) : i = k)'
  BY DEF OneLive, Alive
<1> QED BY <1>2, <1>3 DEF OneLive

\* The environments change.
LEMMA OneChange ==
    ASSUME Inv, OneLive, NEW o \in Orders, Inv',
           \A p \in Orders \ {o} : env'[p] = env[p],
           \A i, k \in Alive(o)' : i = k,
           \A r \in Runs : run'[r] # Idle /\ run'[r].o = o => HoldOK(run[r])',
           \A r \in Runs : run'[r] # Idle /\ run'[r].o # o => run'[r] = run[r]
    PROVE  OneLive'
<1>1. (\A p \in Orders : \A i, k \in Alive(p) : i = k)'
  BY DEF OneLive, Alive
<1>2. \A r \in Runs : (run[r] # Idle => HoldOK(run[r]))'
  <2> TAKE r \in Runs
  <2>1. CASE run'[r] # Idle /\ run'[r].o # o
    <3>1. run'[r] = run[r] /\ HoldOK(run[r]) /\ run[r].o # o
      BY <2>1 DEF OneLive
    <3>2. run[r].o \in Orders
      BY <2>1, <3>1, TypeParts, BusyShape, Fields DEF Inv
    <3>3. env'[run[r].o] = env[run[r].o]
      BY <3>1, <3>2
    <3> QED BY <3>1, <3>3 DEF HoldOK, Alive
  <2> QED BY <2>1
<1> QED BY <1>1, <1>2 DEF OneLive

\* A look at the environments that finds none.
LEMMA FindOne ==
    ASSUME Inv, OneLive, NEW r \in Runs, Find(r)
    PROVE  OneLive'
<1> DEFINE q == run[r]
<1>1. AnyRun /\ TypeOK
  BY TypeParts DEF Inv
<1>2. q.at = "opened" /\ q \in RunState /\ Rest(r)
  BY <1>1, FindStep
<1>3. PICK v \in RunState : run' = [run EXCEPT ![r] = v] /\ FindResult(q, v)
  BY <1>1, FindStep
<1>4. RunOK(q) /\ q.o \in Orders
  BY <1>2, BusyRun, Fields
<1>5. env[q.o] \in Seq(EnvStatus) /\ Len(env[q.o]) \in Nat
  BY <1>4, TypeParts, LenProperties DEF Inv
<1>6. q.w.sub \/ Reusable(q.o) = {} => Alive(q.o) = {}
  <2>1. CASE q.w.sub
    <3>1. env[q.o] = <<>>
      BY <1>4, <2>1 DEF RunOK, Inv, RowsOK
    <3> QED BY <3>1 DEF Alive
  <2>2. CASE Reusable(q.o) = {}
    BY <2>2 DEF Reusable, Alive, Live
  <2> QED BY <2>1, <2>2
<1>7. HoldOK(v)
  <2>1. q.w.env = Keep
    BY <1>2, <1>4 DEF RunOK
  <2>2. CASE v = Stepped(q, "failing", q.saw, q.w)
    BY <2>1, <2>2 DEF HoldOK, Stepped
  <2>3. CASE v = Stepped(q, "done", q.saw, Wrote(q.w.pay, q.w.order, q.w.sub, "success", q.w.env))
    BY <2>1, <2>3 DEF HoldOK, Stepped, Wrote
  <2>4. ASSUME NEW e \in Nat, NEW was \in EnvStatus \cup {Keep}, NEW large \in BOOLEAN,
               v = Found(q, e, Len(env[q.o]), was, large),
               IF e = 0 THEN q.w.sub \/ Reusable(q.o) = {} ELSE ~q.w.sub /\ e \in Reusable(q.o)
        PROVE  HoldOK(v)
    <3>1. v.w = q.w /\ v.o = q.o /\ v.e = e /\ v.n = Len(env[q.o])
      BY <2>4 DEF Found
    <3> QED BY <1>5, <1>6, <2>1, <2>4, <3>1 DEF HoldOK
  <2> QED BY <1>3, <2>2, <2>3, <2>4 DEF FindResult
<1>8. env' = env
  BY <1>2 DEF Rest, rows
<1> HIDE DEF q
<1> QED BY <1>3, <1>7, <1>8, OneAdvance

LEMMA GateOne ==
    ASSUME Inv, One, NEW r \in Runs, Gate(r)
    PROVE  One'
<1> SUFFICES ASSUME "revival" \notin gaps'
             PROVE  OneLive'
  BY DEF One
<1> DEFINE q == run[r]
<1>1. /\ q.at = "found" /\ env' = env /\ gaps \subseteq gaps'
      /\ q.e # 0 /\ env[q.o][q.e] = "terminated" => "revival" \in gaps'
  BY GateStep DEF rows
<1>2. PICK v \in RunState, en \in {Keep, Touch, "provisioning"}, stage \in {"gated", "failing"} :
         /\ run' = [run EXCEPT ![r] = v]
         /\ v = Stepped(q, stage, q.saw, Wrote(q.w.pay, q.w.order, q.w.sub, q.w.job, en))
         /\ en = Keep <=> q.e = 0
  BY GateStep
<1>3. OneLive
  BY <1>1 DEF One
<1>4. q \in RunState /\ RunOK(q) /\ HoldOK(q) /\ q.o \in Orders
  BY <1>1, <1>3, BusyRun, Fields DEF OneLive
<1>5. env[q.o] \in Seq(EnvStatus) /\ Len(env[q.o]) \in Nat /\ q.e \in Nat
  BY <1>4, Fields, TypeParts, LenProperties DEF Inv
<1>6. v.o = q.o /\ v.at = stage /\ v.w.env = en /\ v.e = q.e /\ v.n = q.n
  BY <1>2 DEF Stepped, Wrote
<1>7. q.e # 0 => q.e <= Len(env[q.o]) /\ q.e \in Alive(q.o)
  <2> SUFFICES ASSUME q.e # 0
               PROVE  q.e <= Len(env[q.o]) /\ q.e \in Alive(q.o)
    OBVIOUS
  <2>1. q.e <= Len(env[q.o])
    BY <1>1, <1>4 DEF RunOK
  <2>2. q.e \in DOMAIN env[q.o]
    BY <1>5, <2>1
  <2>3. env[q.o][q.e] \in EnvStatus
    BY <1>5, <2>2
  <2>4. env[q.o][q.e] \in Live
    BY <1>1, <2>3 DEF EnvStatus
  <2> QED BY <2>1, <2>2, <2>4 DEF Alive
<1>8. HoldOK(v)
  BY <1>1, <1>2, <1>4, <1>6, <1>7 DEF HoldOK
<1> HIDE DEF q
<1> QED BY <1>1, <1>2, <1>3, <1>8, OneAdvance

\* A run that ends without writing an environment.
LEMMA EndOne ==
    ASSUME Inv, OneLive, NEW r \in Runs, End(r), env' = env
    PROVE  OneLive'
<1>1. run' = [run EXCEPT ![r] = Idle]
  BY DEF End
<1> QED BY <1>1, OneAdvance

LEMMA BuildOne ==
    ASSUME Inv, OneLive, NEW r \in Runs, Build(r)
    PROVE  OneLive'
<1>1. CASE RollBack(r)
  BY <1>1, EndOne DEF RollBack
<1>2. CASE ~RollBack(r)
  <2> DEFINE q == run[r]
             e == IF q.e = 0 THEN q.n + 1 ELSE q.e
  <2>1. Rest(r) /\ (q.e = 0 => Len(env[q.o]) = q.n)
    BY <1>2, BuildStep
  <2>2. PICK v \in RunState, en \in EnvStatus \cup {Keep, Touch} :
           /\ run' = [run EXCEPT ![r] = v]
           /\ v = Built(q, e, TRUE, Wrote(q.w.pay, q.w.order, q.w.sub, q.w.job, en))
           /\ en = IF q.e = 0 THEN "provisioning" ELSE q.w.env
    BY <1>2, BuildStep
  <2>3. q.at = "gated" /\ q \in RunState /\ RunOK(q) /\ HoldOK(q) /\ q.o \in Orders
    BY BusyRun, Fields DEF Build, At, OneLive
  <2>4. Len(env[q.o]) \in Nat /\ q.n \in Nat /\ q.e \in Nat
    BY <2>3, Fields, TypeParts, LenProperties DEF Inv
  <2>5. v.o = q.o /\ v.at = "built" /\ v.w.env = en /\ v.e = e
    BY <2>2 DEF Built, Wrote
  <2>6. HoldOK(v)
    <3>1. CASE q.e = 0
      <4>1. Alive(q.o) = {}
        BY <2>1, <2>3, <3>1 DEF HoldOK
      <4>2. v.e = Len(env[v.o]) + 1
        BY <2>1, <2>5, <3>1
      <4> HIDE DEF q
      <4> QED BY <2>4, <2>5, <4>1, <4>2 DEF HoldOK
    <3>2. CASE q.e # 0
      <4>1. q.w.env # Keep /\ v.e = q.e /\ v.w.env = q.w.env
        BY <2>2, <2>3, <2>5, <3>2 DEF RunOK
      <4>2. IF q.e <= Len(env[q.o]) THEN q.e \in Alive(q.o) ELSE Alive(q.o) = {}
        BY <2>3, <4>1 DEF HoldOK
      <4> HIDE DEF q
      <4> QED BY <2>5, <4>1, <4>2 DEF HoldOK
    <3> QED BY <3>1, <3>2
  <2>7. env' = env
    BY <2>1 DEF Rest, rows
  <2> HIDE DEF q
  <2> QED BY <2>2, <2>6, <2>7, OneAdvance
<1> QED BY <1>1, <1>2

\* A run at another stage holds what it held.
LEMMA GoOne ==
    ASSUME Inv, OneLive, NEW r \in Runs, run[r].at # "idle", NEW stage \in {"opened", "done", "failing"},
           NEW w \in Writes, Go(r, stage, w), w.env # Keep => run[r].w.env # Keep, env' = env
    PROVE  OneLive'
<1> DEFINE q == run[r]
<1>1. q \in RunState /\ HoldOK(q)
  BY BusyRun DEF OneLive
<1>2. PICK v : v = Stepped(q, stage, q.saw, w)
  OBVIOUS
<1>3. v \in RunState /\ run' = [run EXCEPT ![r] = v]
  <2>1. v \in RunState
    BY <1>1, <1>2, NewRuns, Fields DEF Stage
  <2>2. run' = [run EXCEPT ![r] = v]
    BY <1>1, <1>2, GoStep, TypeParts DEF Inv
  <2> QED BY <2>1, <2>2
<1>4. v.o = q.o /\ v.at = stage /\ v.w = w /\ v.e = q.e
  BY <1>2 DEF Stepped
<1>5. HoldOK(v)
  BY <1>1, <1>4 DEF HoldOK
<1> HIDE DEF q
<1> QED BY <1>3, <1>5, OneAdvance

\* A run at the start of its work has written no environment.
LEMMA FreshOne ==
    ASSUME Inv, OneLive, Inv', NEW r \in Runs, env' = env,
           \A x \in Runs \ {r} : run'[x] = run[x], run'[r].at \in {"begun", "opened"}
    PROVE  OneLive'
<1>1. PICK v : v = run'[r]
  OBVIOUS
<1>2. AnyRun /\ AnyRun'
  BY TypeParts DEF Inv, TypeOK, AnyRun
<1>3. run' = [run EXCEPT ![r] = v] /\ v \in RunState
  BY <1>1, <1>2 DEF AnyRun, Idle
<1>4. v.w.env = Keep
  <2>1. RunOK(run[r])'
    BY <1>1, <1>3 DEF Inv, Idle
  <2> QED BY <1>1, <2>1 DEF RunOK
<1>5. HoldOK(v)
  BY <1>1, <1>4 DEF HoldOK
<1> QED BY <1>3, <1>5, OneAdvance

LEMMA AdvanceOne ==
    ASSUME Inv, OneLive, NEW r \in Runs, Complete(r) \/ HostFails(r)
    PROVE  OneLive'
<1>1. CASE Complete(r)
  <2>1. PICK ord \in {Keep, "active"} :
           LET w == Wrote(run[r].w.pay, ord, run[r].w.sub, "success", "active")
           IN  Go(r, "done", w) /\ w \in Writes
    BY <1>1, CompleteStep
  <2>2. run[r].at = "built" /\ env' = env
    BY <1>1, CompleteStep DEF Rest, rows
  <2>3. run[r].w.env # Keep
    BY <2>2, BusyRun DEF RunOK
  <2> DEFINE w == Wrote(run[r].w.pay, ord, run[r].w.sub, "success", "active")
  <2>4. Go(r, "done", w) /\ w \in Writes
    BY <2>1
  <2> HIDE DEF w
  <2> QED BY <2>2, <2>3, <2>4, GoOne
<1>2. CASE HostFails(r)
  <2>1. Go(r, "failing", run[r].w) /\ env' = env
    BY <1>2 DEF HostFails, Rest, rows
  <2>2. run[r].at # "idle"
    BY <1>2 DEF HostFails, At
  <2>3. run[r].w \in Writes
    BY <2>2, BusyRun, Fields
  <2> QED BY <2>1, <2>2, <2>3, GoOne
<1> QED BY <1>1, <1>2

LEMMA OpenOne ==
    ASSUME Inv, OneLive, NEW r \in Runs, OpenInline(r) \/ OpenVerified(r)
    PROVE  OneLive'
<1>1. run[r].at = "begun" /\ env' = env
  BY DEF OpenInline, OpenVerified, At, Rest, RollBack, rows
<1>2. run[r] \in RunState
  BY <1>1, BusyRun
<1>3. CASE End(r)
  BY <1>1, <1>3, EndOne
<1>4. CASE Opened(r)
  <2> DEFINE w == Wrote(run[r].w.pay, run[r].w.order, ~run[r].adopts, "running", run[r].w.env)
  <2>1. Go(r, "opened", w) /\ w \in Writes
    BY <1>2, <1>4, OpenedStep
  <2>2. w.env = run[r].w.env
    BY DEF Wrote
  <2> HIDE DEF w
  <2> QED BY <1>1, <2>1, <2>2, GoOne
<1> QED BY <1>3, <1>4 DEF OpenInline, OpenVerified, RollBack

LEMMA StartOne ==
    ASSUME Inv, OneLive, Inv', NEW r \in Runs,
           (\E o \in Orders : Request(r, o)) \/ \E m \in queue : Take(r, m)
    PROVE  OneLive'
<1>1. env' = env
  BY DEF Request, Verify, Activate, RetryProvision, RetryOf, Begin, Take, rows
<1>2. AnyRun
  BY TypeParts DEF Inv
<1>3. ASSUME NEW by, NEW o, NEW j, NEW w, Begin(r, by, o, j, w)
      PROVE  run'[r].at = "begun" /\ \A x \in Runs \ {r} : run'[x] = run[x]
  BY <1>2, <1>3 DEF AnyRun, Begin
<1>4. ASSUME NEW m \in queue, Take(r, m)
      PROVE  run'[r].at = "begun" /\ \A x \in Runs \ {r} : run'[x] = run[x]
  BY <1>2, <1>4 DEF AnyRun, Take
<1>5. ASSUME NEW o \in Orders, Request(r, o)
      PROVE  \E by, j, w : Begin(r, by, o, j, w)
  BY <1>5, Zenon DEF Request, Verify, Activate, RetryProvision, RetryOf
<1>6. run'[r].at = "begun" /\ \A x \in Runs \ {r} : run'[x] = run[x]
  BY <1>3, <1>4, <1>5
<1> QED BY <1>1, <1>6, FreshOne

\* The writes of a run reach the environments: what is written is live, and
\* was, or is the first live one.
LEMMA AppliedOne ==
    ASSUME Inv, OneLive, Inv', NEW r \in Runs, run[r] \in RunState, RunOK(run[r]), NEW w, Apply(r, w),
           w.env \in EnvStatus \cup {Keep, Touch}, w.env # "terminated",
           w.env # Keep => run[r].w.env # Keep /\ (w.env = Touch => run[r].w.env = Touch),
           \A x \in Runs \ {r} : run'[x] = run[x],
           run'[r] # Idle => run'[r].w.env = Keep /\ run'[r].at = "done" /\ run'[r].o = run[r].o
    PROVE  OneLive'
<1> PICK q, o : q = run[r] /\ o = q.o
  OBVIOUS
<1>1. q \in RunState /\ o \in Orders /\ q.e \in Nat /\ HoldOK(q) /\ q # Idle /\ RunOK(q)
  BY Fields DEF OneLive, Idle, RunState
<1>2. env[o] \in Seq(EnvStatus) /\ Len(env[o]) \in Nat /\ DOMAIN env[o] = 1 .. Len(env[o])
  BY <1>1, TypeParts, LenProperties DEF Inv
<1>3. /\ w.env # Keep /\ q.e <= Len(env[o]) =>
            q.e \in DOMAIN env[o] /\ env'[o] = [env[o] EXCEPT ![q.e] = Written(env[o][q.e], w.env)]
      /\ w.env # Keep /\ ~(q.e <= Len(env[o])) =>
            w.env \in EnvStatus /\ q.e = Len(env[o]) + 1 /\ env'[o] = Append(env[o], w.env)
      /\ w.env = Keep => env' = env
      /\ \A p \in Orders \ {o} : env'[p] = env[p]
  BY AppliedEnv
<1>4. w.env # Keep => IF q.e <= Len(env[o]) THEN q.e \in Alive(o) ELSE Alive(o) = {}
  BY <1>1 DEF HoldOK
<1>5. \/ Alive(o)' = Alive(o) /\ Len(env'[o]) = Len(env[o])
      \/ Alive(o) = {} /\ Len(env'[o]) = Len(env[o]) + 1 /\ Alive(o)' = {Len(env[o]) + 1}
         /\ w.env # Keep /\ q.e = Len(env[o]) + 1
  <2>1. CASE w.env = Keep
    BY <1>3, <2>1 DEF Alive
  <2>2. CASE w.env # Keep /\ q.e <= Len(env[o])
    <3> DEFINE s == Written(env[o][q.e], w.env)
    <3>1. q.e \in DOMAIN env[o] /\ env[o][q.e] \in Live /\ env'[o] = [env[o] EXCEPT ![q.e] = s]
      BY <1>3, <1>4, <2>2 DEF Alive
    <3>2. s \in Live
      BY <2>2, <3>1 DEF Written, EnvStatus
    <3> HIDE DEF s
    <3>3. /\ Len(env'[o]) = Len(env[o]) /\ DOMAIN env'[o] = DOMAIN env[o]
          /\ \A i \in DOMAIN env[o] : env'[o][i] = IF i = q.e THEN s ELSE env[o][i]
      BY <1>2, <3>1, <3>2
    <3>4. \A i \in DOMAIN env[o] : env'[o][i] \in Live <=> env[o][i] \in Live
      BY <3>1, <3>2, <3>3
    <3> QED BY <3>3, <3>4 DEF Alive
  <2>3. CASE w.env # Keep /\ ~(q.e <= Len(env[o]))
    <3>1. w.env \in Live /\ q.e = Len(env[o]) + 1 /\ env'[o] = Append(env[o], w.env) /\ Alive(o) = {}
      BY <1>3, <1>4, <2>3 DEF EnvStatus
    <3>2. /\ Len(env'[o]) = Len(env[o]) + 1 /\ DOMAIN env'[o] = 1 .. Len(env[o]) + 1
          /\ env'[o][Len(env[o]) + 1] = w.env
          /\ \A i \in 1 .. Len(env[o]) : env'[o][i] = env[o][i]
      BY <1>2, <3>1, AppendProperties DEF EnvStatus
    <3>3. \A i \in DOMAIN env'[o] : env'[o][i] \in Live <=> i = Len(env[o]) + 1
      BY <1>2, <3>1, <3>2 DEF Alive
    <3> QED BY <2>3, <3>1, <3>2, <3>3 DEF Alive
  <2> QED BY <2>1, <2>2, <2>3
<1>6. \A i, k \in Alive(o)' : i = k
  BY <1>1, <1>5 DEF OneLive
<1>7. ASSUME NEW x \in Runs, run'[x] # Idle, run'[x].o = o
      PROVE  HoldOK(run[x])'
  <2>1. CASE x = r
    BY <1>7, <2>1 DEF HoldOK
  <2>2. CASE x # r
    <3>1. run'[x] = run[x]
      BY <2>2
    <3>2. HoldOK(run[x]) /\ RunOK(run[x]) /\ Apart(q, run[x])
      BY <1>1, <1>7, <2>2, <3>1 DEF OneLive, Inv
    <3>3. run[x] \in RunState
      BY <1>7, <3>1, TypeParts, BusyShape DEF Inv
    <3>4. PICK p : p = run[x]
      OBVIOUS
    <3>5. p.e \in Nat /\ p.n \in Nat /\ p.o = o /\ run'[x] = p
      BY <1>7, <3>1, <3>3, <3>4, Fields
    <3>6. HoldOK(p) /\ (p.w.env # Keep => p.e \in 1 .. Len(env[o]) + 1)
          /\ (p.w.env # Keep /\ q.w.env # Keep => p.e # q.e)
      BY <1>7, <3>1, <3>2, <3>4 DEF RunOK, Apart
    <3>7. HoldOK(p)'
      <4>1. CASE Alive(o)' = Alive(o) /\ Len(env'[o]) = Len(env[o])
        BY <3>5, <3>6, <4>1 DEF HoldOK
      <4>2. CASE Alive(o) = {} /\ Len(env'[o]) = Len(env[o]) + 1 /\ w.env # Keep /\ q.e = Len(env[o]) + 1
        <5>1. q.w.env # Keep
          BY <4>2
        <5>2. p.w.env = Keep
          BY <1>2, <3>5, <3>6, <4>2, <5>1 DEF HoldOK
        <5> QED BY <1>2, <3>5, <3>6, <4>2, <5>2 DEF HoldOK
      <4> QED BY <1>5, <4>1, <4>2
    <3> QED BY <3>5, <3>7 DEF HoldOK, Alive
  <2> QED BY <2>1, <2>2
<1>8. \A x \in Runs : run'[x] # Idle /\ run'[x].o # o => run'[x] = run[x]
  OBVIOUS
<1> QED BY <1>1, <1>3, <1>6, <1>7, <1>8, OneChange

LEMMA CommitOne ==
    ASSUME Inv, OneLive, Inv', NEW r \in Runs, Commit(r) \/ SyncCommit(r)
    PROVE  OneLive'
<1>1. run[r].at = "done" /\ Apply(r, run[r].w)
  BY DEF Commit, SyncCommit, At
<1>2. run[r] \in RunState /\ RunOK(run[r]) /\ run[r].w.env \in EnvStatus \cup {Keep, Touch}
      /\ run[r].w.env # "terminated"
  BY <1>1, BusyRun, Fields DEF RunOK
<1>3. AnyRun
  BY TypeParts DEF Inv
<1>4. \A x \in Runs \ {r} : run'[x] = run[x]
  BY <1>3 DEF AnyRun, Commit, SyncCommit, End
<1>5. run'[r] # Idle => run'[r].w.env = Keep /\ run'[r].at = "done" /\ run'[r].o = run[r].o
  <2>1. CASE Commit(r)
    BY <1>3, <2>1 DEF AnyRun, Commit, End
  <2>2. CASE SyncCommit(r)
    <3>1. run' = [run EXCEPT ![r] = [run[r] EXCEPT !.w = Clean]]
      BY <2>2, Zenon DEF SyncCommit
    <3>2. PICK v : v = [run[r] EXCEPT !.w = Clean]
      OBVIOUS
    <3>3. run'[r] = v
      BY <1>3, <3>1, <3>2 DEF AnyRun
    <3>4. v.w = Clean /\ v.at = "done" /\ v.o = run[r].o
      BY <1>1, <1>2, <3>2 DEF RunState
    <3> QED BY <3>3, <3>4 DEF Clean
  <2> QED BY <2>1, <2>2
<1> QED BY <1>1, <1>2, <1>4, <1>5, AppliedOne

LEMMA FailOne ==
    ASSUME Inv, OneLive, Inv', NEW r \in Runs, Fail(r)
    PROVE  OneLive'
<1>1. CASE RollBack(r)
  BY <1>1, EndOne DEF RollBack
<1>2. CASE ~RollBack(r)
  <2>1. run[r].at = "failing" /\ End(r)
    BY <1>2, FailStep
  <2>2. PICK ord \in OrderStatus \cup {Keep}, en \in EnvStatus \cup {Keep, Touch} :
           /\ Apply(r, Wrote(run[r].w.pay, ord, run[r].w.sub, "failed", en))
           /\ en = run[r].w.env \/ (run[r].w.env \in {"provisioning", Touch} /\ en = "provisioning_failed")
    BY <1>2, FailStep
  <2>3. PICK w : w = Wrote(run[r].w.pay, ord, run[r].w.sub, "failed", en)
    OBVIOUS
  <2>4. Apply(r, w) /\ w.env = en
    BY <2>2, <2>3 DEF Wrote
  <2>5. run[r] \in RunState /\ RunOK(run[r])
    BY <2>1, BusyRun
  <2>6. /\ w.env \in EnvStatus \cup {Keep, Touch} /\ w.env # "terminated"
        /\ w.env # Keep => run[r].w.env # Keep /\ (w.env = Touch => run[r].w.env = Touch)
    BY <2>2, <2>4, <2>5 DEF RunOK, Keep, Touch
  <2>7. AnyRun
    BY TypeParts DEF Inv
  <2>8. run'[r] = Idle /\ \A x \in Runs \ {r} : run'[x] = run[x]
    BY <2>1, <2>7 DEF AnyRun, End
  <2> QED BY <2>4, <2>5, <2>6, <2>8, AppliedOne
<1> QED BY <1>1, <1>2

LEMMA OpenTaskOne ==
    ASSUME Inv, OneLive, Inv', NEW r \in Runs, OpenTask(r)
    PROVE  OneLive'
<1> DEFINE x == [Clean EXCEPT !.job = "running"]
<1>1. run[r] \in RunState
  BY BusyRun DEF OpenTask, OpenTaskIf, At
<1>2. AnyRun
  BY TypeParts DEF Inv
<1>3. ASSUME Rest(r), run' = [run EXCEPT ![r].at = "opened", ![r].w = x, ![r].saw = order[run[r].o].status]
      PROVE  OneLive'
  <2> DEFINE saw == order[run[r].o].status
             q == run[r]
  <2>1. run' = [run EXCEPT ![r] = [q EXCEPT !.at = "opened", !.w = x, !.saw = saw]]
    BY <1>3, Zenon
  <2>2. q \in RunState
    BY <1>1
  <2> HIDE DEF saw, x, q
  <2>3. \A st, u : [q EXCEPT !.at = st, !.w = u, !.saw = saw] = Stepped(q, st, saw, u)
    BY <2>2, OpenedRecord, Zenon
  <2>4. run' = [run EXCEPT ![r] = Stepped(q, "opened", saw, x)]
    BY <2>1, <2>3, Zenon
  <2>5. run'[r].at = "opened" /\ \A y \in Runs \ {r} : run'[y] = run[y]
    BY <1>2, <2>4 DEF AnyRun, Stepped
  <2>6. env' = env
    BY <1>3 DEF Rest, rows
  <2> QED BY <2>5, <2>6, FreshOne
<1>4. ASSUME Apply(r, x), End(r)
      PROVE  OneLive'
  <2>1. x.env = Keep
    BY DEF Clean
  <2>2. env' = env
    <3> HIDE DEF x
    <3> QED BY <1>4, <2>1 DEF Apply
  <2> QED BY <1>4, <2>2, EndOne
<1> QED BY <1>3, <1>4, Zenon DEF OpenTask, OpenTaskIf

\* Customers and the sweep change environments that are live and that no run
\* has written.
LEMMA LifecycleOne ==
    ASSUME Inv, OneLive, Inv', NEW o \in Orders, NEW i \in DOMAIN env[o], Lifecycle(o, i)
    PROVE  OneLive'
<1>1. PICK to \in EnvStatus :
         /\ env[o][i] \in Live /\ ~EnvLocked(o, i) /\ run' = run
         /\ env' = [env EXCEPT ![o][i] = to]
  BY DEF Lifecycle, Suspend, Restore, Terminate, SetEnv, EnvStatus, Live
<1>2. env \in [Orders -> Seq(EnvStatus)] /\ env[o] \in Seq(EnvStatus) /\ Len(env[o]) \in Nat
  BY LenProperties DEF Inv, TypeOK
<1>3. env'[o] = [env[o] EXCEPT ![i] = to] /\ \A p \in Orders \ {o} : env'[p] = env[p]
  BY <1>1, <1>2
<1>4. /\ Len(env'[o]) = Len(env[o]) /\ DOMAIN env'[o] = DOMAIN env[o]
      /\ \A k \in DOMAIN env[o] : k # i => env'[o][k] = env[o][k]
  BY <1>2, <1>3
<1>5. i \in Alive(o) /\ Alive(o)' \subseteq Alive(o) /\ \A k \in Alive(o) : k = i
  <2>1. i \in Alive(o)
    BY <1>1 DEF Alive
  <2>2. Alive(o)' \subseteq Alive(o)
    BY <1>1, <1>4 DEF Alive
  <2> QED BY <2>1, <2>2 DEF OneLive
<1>6. ASSUME NEW r \in Runs, run[r] # Idle, run[r].o = o
      PROVE  HoldOK(run[r])'
  <2>1. HoldOK(run[r])
    BY <1>6 DEF OneLive
  <2>2. run[r].w.env = Keep
    <3>1. run[r].w.env # Keep => run[r].e = i
      BY <1>5, <1>6, <2>1 DEF HoldOK
    <3> QED BY <1>1, <1>6, <3>1 DEF EnvLocked
  <2>3. ~(run[r].at \in {"found", "gated"} /\ run[r].e = 0 /\ run[r].n = Len(env[o]))
    BY <1>5, <1>6, <2>1 DEF HoldOK
  <2>4. PICK p : p = run[r]
    OBVIOUS
  <2>5. HoldOK(p)'
    BY <1>4, <1>6, <2>1, <2>2, <2>3, <2>4 DEF HoldOK
  <2> QED BY <1>1, <2>4, <2>5 DEF HoldOK, Alive
<1>7. \A j, k \in Alive(o)' : j = k
  BY <1>5
<1> QED BY <1>1, <1>3, <1>6, <1>7, OneChange

LEMMA OneNext == Inv /\ Inv' /\ One /\ [Next]_vars => One'
<1> SUFFICES ASSUME Inv, Inv', One, [Next]_vars PROVE One'
  OBVIOUS
<1>1. CASE UNCHANGED vars
  BY <1>1 DEF vars, rows, One, OneLive, HoldOK, Alive
<1>2. ASSUME NEW r \in Runs, Gate(r)
      PROVE  One'
  BY <1>2, GateOne
<1>3. CASE ~\E r \in Runs : Gate(r)
  <2>1. gaps \subseteq gaps'
    <3>1. ASSUME NEW r \in Runs, Step(r)
          PROVE  gaps \subseteq gaps'
      <4>1. CASE Find(r) \/ Build(r) \/ Complete(r) \/ HostFails(r)
        BY <4>1 DEF Find, Build, Complete, HostFails, Rest, RollBack
      <4>2. CASE OpenInline(r) \/ OpenVerified(r)
        BY <4>2 DEF OpenInline, OpenVerified, Rest, RollBack
      <4>3. CASE OpenTask(r)
        BY <4>3, Zenon DEF OpenTask, OpenTaskIf, Rest
      <4>4. CASE SyncCommit(r) \/ Commit(r) \/ Deadlock(r)
        BY <4>4 DEF SyncCommit, Commit, Deadlock, RollBack
      <4>5. CASE Fail(r)
        BY <4>5, FailStep DEF RollBack
      <4> QED BY <1>3, <3>1, <4>1, <4>2, <4>3, <4>4, <4>5 DEF Step
    <3>2. ASSUME NEW r \in Runs, Die(r) \/ \E m \in queue : Take(r, m)
          PROVE  gaps \subseteq gaps'
      BY <3>2 DEF Die, Take
    <3>3. ASSUME NEW r \in Runs, NEW o \in Orders, Request(r, o)
          PROVE  gaps \subseteq gaps'
      BY <3>3 DEF Request, Verify, Activate, RetryProvision, RetryOf, Begin
    <3>4. ASSUME NEW o \in Orders, NEW i \in DOMAIN env[o], Lifecycle(o, i)
          PROVE  gaps \subseteq gaps'
      BY <3>4 DEF Lifecycle, Suspend, Restore, Terminate, Gap
    <3>5. CASE UNCHANGED vars
      BY <3>5 DEF vars
    <3>6. ASSUME NEW o \in Orders, NEW up \in BOOLEAN, ChangePlan(o, up)
          PROVE  gaps \subseteq gaps'
      BY <3>6, ChangePlanStep
    <3> QED BY <3>1, <3>2, <3>3, <3>4, <3>5, <3>6 DEF Next
  <2> SUFFICES ASSUME OneLive PROVE OneLive'
    BY <2>1 DEF One
  <2>2. ASSUME NEW r \in Runs, Step(r)
        PROVE  OneLive'
    <3>1. CASE Deadlock(r)
      BY <3>1, EndOne DEF Deadlock, RollBack
    <3> QED BY <1>3, <2>2, <3>1, OpenOne, OpenTaskOne, FindOne, BuildOne, AdvanceOne, CommitOne, FailOne DEF Step
  <2>3. ASSUME NEW r \in Runs, Die(r)
        PROVE  OneLive'
    BY <2>3, EndOne DEF Die, rows
  <2>4. ASSUME NEW r \in Runs, (\E o \in Orders : Request(r, o)) \/ \E m \in queue : Take(r, m)
        PROVE  OneLive'
    BY <2>4, StartOne
  <2>5. ASSUME NEW o \in Orders, NEW i \in DOMAIN env[o], Lifecycle(o, i)
        PROVE  OneLive'
    BY <2>5, LifecycleOne
  <2>6. ASSUME NEW o \in Orders, NEW up \in BOOLEAN, ChangePlan(o, up)
        PROVE  OneLive'
    <3>1. UNCHANGED <<env, run>>
      BY <2>6, ChangePlanStep
    <3> QED BY <3>1 DEF OneLive, HoldOK, Alive
  <2>7. UNCHANGED vars => OneLive'
    BY DEF OneLive, HoldOK, Alive, vars, rows
  <2> QED BY <2>2, <2>3, <2>4, <2>5, <2>6, <2>7 DEF Next
<1> QED BY <1>2, <1>3

\* Requests, retries, stray messages and failures, in whatever number and
\* order, give an order a second live environment only if a run has written
\* over one that was terminated after the run had looked it up.
THEOREM OneEnvironmentEach == Spec => []OneEnvironment
<1>1. Init => One
  <2>1. DOMAIN <<>> = {}
    OBVIOUS
  <2> QED BY <2>1 DEF Init, One, OneLive, Alive
<1>2. Inv /\ One => OneEnvironment
  <2> SUFFICES ASSUME Inv, OneLive, NEW o \in Orders
               PROVE  ~(Cardinality(Alive(o)) > 1)
    BY DEF One, OneEnvironment, Alive
  <2>1. CASE Alive(o) = {}
    BY <2>1, FS_EmptySet
  <2>2. CASE Alive(o) # {}
    <3>1. PICK i : Alive(o) = {i}
      BY <2>2 DEF OneLive
    <3>2. Cardinality({i}) = 1
      BY FS_Singleton
    <3> QED BY <3>1, <3>2
  <2> QED BY <2>1, <2>2
<1>3. Spec => []One
  BY <1>1, Invariant, OneNext, PTL DEF Spec
<1> QED BY <1>2, <1>3, Invariant, PTL

-------------------------------------------------------------------------------
(***************************************************************************)
(* Never rebuilt.  Without a fault a verified payment ends in a message    *)
(* for an order that is still unpaid, so workers find nothing to do; and a *)
(* staff run inserts the subscription that it provisions, which only comes *)
(* with an active order.                                                   *)
(***************************************************************************)
FreshRun(q) ==
    IF q.by \in {"verify", "worker"} THEN q.at = "begun" /\ order[q.o].pay = "unpaid"
    ELSE /\ ~q.adopts /\ q.saw # "active"
         /\ q.at \in {"opened", "found", "gated", "built"} => q.w.sub
         /\ q.at \in {"done", "failing"} => q.w.sub \/ q.w = Clean
         /\ q.at = "done" /\ q.w.sub => q.w.order = "active"

Fresh ==
    /\ \A m \in queue : order[m.o].pay = "unpaid"
    /\ \A o \in Orders : Len(env[o]) <= 1 /\ (sub[o] # 0 => order[o].status = "active")
    /\ \A r \in Runs : run[r] # Idle => FreshRun(run[r])

FaultOrFresh == faults = 0 => Fresh

\* Run r steps to v, and no row of these changes.
LEMMA FreshAdvance ==
    ASSUME Inv, Fresh, NEW r \in Runs, NEW v \in RunState \cup {Idle}, run' = [run EXCEPT ![r] = v],
           UNCHANGED <<order, sub, env>>, \A m \in queue' : order[m.o].pay = "unpaid",
           v # Idle => FreshRun(v)
    PROVE  Fresh'
<1>1. run'[r] = v /\ (\A x \in Runs \ {r} : run'[x] = run[x])
  BY TypeParts, SetRun DEF Inv
<1>2. \A x \in Runs : (run[x] # Idle => FreshRun(run[x]))'
  <2> TAKE x \in Runs
  <2>1. CASE x = r
    <3>1. (run[x] # Idle)' => FreshRun(v) /\ run'[x] = v
      BY <1>1, <2>1
    <3> QED BY <3>1 DEF FreshRun
  <2>2. CASE x # r
    <3>1. (run[x] # Idle)' => FreshRun(run[x]) /\ run'[x] = run[x]
      BY <1>1, <2>2 DEF Fresh
    <3> QED BY <3>1 DEF FreshRun
  <2> QED BY <2>1, <2>2
<1>3. \A o \in Orders : Len(env'[o]) <= 1 /\ (sub'[o] # 0 => order'[o].status = "active")
  BY DEF Fresh
<1> QED BY <1>2, <1>3 DEF Fresh

\* Run r ends, and what it sends again is for an order that is not paid.
LEMMA FreshEnd ==
    ASSUME Inv, Fresh, NEW r \in Runs, run[r].at # "idle", End(r), UNCHANGED <<order, sub, env>>,
           SendAgain(r) \/ queue' = queue
    PROVE  Fresh'
<1>1. FreshRun(run[r])
  BY BusyRun DEF Fresh
<1>2. \A m \in queue' : order[m.o].pay = "unpaid"
  <2>1. CASE queue' = queue
    BY <2>1 DEF Fresh
  <2>2. CASE SendAgain(r) /\ queue' # queue
    <3> DEFINE m == [o |-> run[r].o, j |-> run[r].j, attempt |-> run[r].attempt + 1]
    <3>1. queue' = queue \cup {m} /\ run[r].by = "worker"
      BY <2>2 DEF SendAgain
    <3>2. order[m.o].pay = "unpaid"
      BY <1>1, <3>1 DEF FreshRun
    <3>3. \A k \in queue : order[k.o].pay = "unpaid"
      BY DEF Fresh
    <3> HIDE DEF m
    <3> QED BY <3>1, <3>2, <3>3
  <2> QED BY <2>1, <2>2
<1>3. run' = [run EXCEPT ![r] = Idle]
  BY DEF End
<1> QED BY <1>2, <1>3, FreshAdvance

\* A staff run at another stage.
LEMMA FreshGo ==
    ASSUME Inv, Fresh, NEW r \in Runs, run[r].at # "idle", run[r].by \notin {"verify", "worker"},
           NEW stage \in {"opened", "done", "failing"}, NEW w \in Writes, Go(r, stage, w),
           UNCHANGED <<order, sub, env, queue>>,
           w.sub \/ (w = Clean /\ stage = "failing"), stage = "done" => w.order = "active"
    PROVE  Fresh'
<1> DEFINE q == run[r]
<1>1. q \in RunState /\ FreshRun(q)
  BY BusyRun DEF Fresh
<1>2. PICK v : v = Stepped(q, stage, q.saw, w)
  OBVIOUS
<1>3. v \in RunState /\ run' = [run EXCEPT ![r] = v]
  <2>1. v \in RunState
    BY <1>1, <1>2, NewRuns, Fields DEF Stage
  <2>2. run' = [run EXCEPT ![r] = v]
    BY <1>1, <1>2, GoStep, TypeParts DEF Inv
  <2> QED BY <2>1, <2>2
<1>4. FreshRun(v)
  BY <1>1, <1>2 DEF FreshRun, Stepped
<1>5. \A m \in queue' : order[m.o].pay = "unpaid"
  BY DEF Fresh
<1> HIDE DEF q
<1> QED BY <1>3, <1>4, <1>5, FreshAdvance

\* Beyond its beginning every run is of staff.
LEMMA StaffRun ==
    ASSUME Inv, Fresh, NEW r \in Runs, run[r].at \notin {"idle", "begun"}
    PROVE  /\ run[r] \in RunState /\ RunOK(run[r]) /\ FreshRun(run[r])
           /\ run[r].by \notin {"verify", "worker"}
BY BusyRun DEF Fresh, FreshRun

LEMMA FreshRollBack ==
    ASSUME Inv, Fresh, NEW r \in Runs, run[r].at # "idle", RollBack(r)
    PROVE  Fresh'
BY FreshEnd DEF RollBack

LEMMA FreshOpen ==
    ASSUME Inv, Fresh, NEW r \in Runs, OpenInline(r) \/ OpenVerified(r), faults' = 0
    PROVE  Fresh'
<1>1. run[r].at = "begun"
  BY DEF OpenInline, OpenVerified, At
<1>2. run[r] \in RunState /\ RunOK(run[r]) /\ FreshRun(run[r])
  BY <1>1, BusyRun DEF Fresh
<1>3. CASE OpenInline(r)
  <2>1. CASE RollBack(r)
    BY <1>1, <2>1, FreshRollBack
  <2>2. CASE Opened(r) /\ Rest(r)
    <3> DEFINE w == Wrote(run[r].w.pay, run[r].w.order, ~run[r].adopts, "running", run[r].w.env)
    <3>1. Go(r, "opened", w) /\ w \in Writes
      BY <1>2, <2>2, OpenedStep
    <3>2. run[r].by \notin {"verify", "worker"}
      BY <1>3 DEF OpenInline
    <3>3. w.sub
      BY <1>2, <3>2 DEF FreshRun, Wrote
    <3>4. UNCHANGED <<order, sub, env, queue>>
      BY <2>2 DEF Rest, rows
    <3> HIDE DEF w
    <3> QED BY <1>1, <3>1, <3>2, <3>3, <3>4, FreshGo
  <2> QED BY <1>3, <2>1, <2>2 DEF OpenInline
<1>4. CASE OpenVerified(r)
  <2> DEFINE m == [o |-> run[r].o, j |-> run[r].j, attempt |-> 1]
  <2>1. faults \in Nat /\ 0 \in Nat
    BY DEF Inv, TypeOK
  <2>2. ~Fault
    BY <2>1 DEF Fault
  <2>3. /\ run[r].by = "verify" /\ End(r) /\ UNCHANGED rows
        /\ queue' = queue \/ queue' = queue \cup {m}
    BY <1>4, <2>2, Zenon DEF OpenVerified
  <2>4. order[m.o].pay = "unpaid"
    BY <1>2, <2>3 DEF FreshRun
  <2>5. run' = [run EXCEPT ![r] = Idle]
    BY <2>3 DEF End
  <2>6. \A k \in queue : order[k.o].pay = "unpaid"
    BY DEF Fresh
  <2>7. UNCHANGED <<order, sub, env>>
    BY <2>3 DEF rows
  <2> HIDE DEF m
  <2>8. \A k \in queue' : order[k.o].pay = "unpaid"
    BY <2>3, <2>4, <2>6
  <2> QED BY <2>5, <2>7, <2>8, FreshAdvance
<1> QED BY <1>3, <1>4

\* A worker finds no subscription: the order is not paid for.
LEMMA FreshOpenTask ==
    ASSUME Inv, Fresh, NEW r \in Runs, OpenTask(r)
    PROVE  Fresh'
<1> DEFINE x == [Clean EXCEPT !.job = "running"]
<1>1. run[r].at = "begun" /\ run[r].by = "worker"
  BY DEF OpenTask, OpenTaskIf, At
<1>2. run[r] \in RunState /\ RunOK(run[r]) /\ FreshRun(run[r]) /\ run[r].o \in Orders
  BY <1>1, BusyRun, Fields DEF Fresh
<1>3. sub[run[r].o] = 0
  BY <1>1, <1>2 DEF FreshRun, Inv, RowsOK
<1>4. Apply(r, x) /\ End(r) /\ SendAgain(r)
  BY <1>3, Zenon DEF OpenTask, OpenTaskIf
<1>5. x.pay = Keep /\ x.order = Keep /\ x.sub = FALSE /\ x.env = Keep
  BY DEF Clean
<1>6. UNCHANGED <<order, sub, env>>
  <2>1. order[run[r].o] \in [pay: {"unpaid", "paid"}, status: OrderStatus]
        /\ order \in [Orders -> [pay: {"unpaid", "paid"}, status: OrderStatus]]
    BY <1>2 DEF Inv, TypeOK
  <2> DEFINE o == run[r].o
             new == [pay |-> Written(order[o].pay, x.pay), status |-> Written(order[o].status, x.order)]
  <2>2. order' = [order EXCEPT ![o] = new]
    BY <1>4, Zenon DEF Apply
  <2>3. new = order[o]
    BY <1>5, <2>1 DEF Written
  <2> HIDE DEF new
  <2>4. order' = order
    BY <2>1, <2>2, <2>3
  <2> HIDE DEF x
  <2> QED BY <1>4, <1>5, <2>4 DEF Apply
<1> QED BY <1>1, <1>4, <1>6, FreshEnd

LEMMA FreshFind ==
    ASSUME Inv, Fresh, NEW r \in Runs, Find(r)
    PROVE  Fresh'
<1> DEFINE q == run[r]
<1>1. AnyRun /\ TypeOK
  BY TypeParts DEF Inv
<1>2. q.at = "opened" /\ q \in RunState /\ Rest(r)
  BY <1>1, FindStep
<1>3. PICK v \in RunState : run' = [run EXCEPT ![r] = v] /\ FindResult(q, v)
  BY <1>1, FindStep
<1>4. FreshRun(q) /\ q.by \notin {"verify", "worker"}
  BY <1>2, StaffRun
<1>5. FreshRun(v)
  BY <1>2, <1>3, <1>4 DEF FreshRun, FindResult, Stepped, Found
<1>6. UNCHANGED <<order, sub, env>> /\ \A m \in queue' : order[m.o].pay = "unpaid"
  BY <1>2 DEF Rest, rows, Fresh
<1> HIDE DEF q
<1> QED BY <1>3, <1>5, <1>6, FreshAdvance

LEMMA FreshGate ==
    ASSUME Inv, Fresh, NEW r \in Runs, Gate(r)
    PROVE  Fresh'
<1> DEFINE q == run[r]
<1>1. q.at = "found" /\ UNCHANGED <<rows, queue, faults>>
  BY GateStep
<1>2. PICK v \in RunState, en \in {Keep, Touch, "provisioning"}, stage \in {"gated", "failing"} :
         /\ run' = [run EXCEPT ![r] = v]
         /\ v = Stepped(q, stage, q.saw, Wrote(q.w.pay, q.w.order, q.w.sub, q.w.job, en))
  BY GateStep
<1>3. FreshRun(q) /\ q.by \notin {"verify", "worker"}
  BY <1>1, StaffRun
<1>4. FreshRun(v)
  BY <1>1, <1>2, <1>3 DEF FreshRun, Stepped, Wrote
<1>5. UNCHANGED <<order, sub, env>> /\ \A m \in queue' : order[m.o].pay = "unpaid"
  BY <1>1 DEF rows, Fresh
<1> HIDE DEF q
<1> QED BY <1>2, <1>4, <1>5, FreshAdvance

LEMMA FreshBuild ==
    ASSUME Inv, Fresh, NEW r \in Runs, Build(r)
    PROVE  Fresh'
<1> DEFINE q == run[r]
<1>1. q.at = "gated"
  BY DEF Build, At
<1>2. CASE RollBack(r)
  BY <1>1, <1>2, FreshRollBack
<1>3. CASE ~RollBack(r)
  <2>1. PICK v \in RunState, en \in EnvStatus \cup {Keep, Touch} :
           /\ run' = [run EXCEPT ![r] = v]
           /\ v = Built(q, IF q.e = 0 THEN q.n + 1 ELSE q.e, TRUE,
                        Wrote(q.w.pay, q.w.order, q.w.sub, q.w.job, en))
    BY <1>3, BuildStep
  <2>2. FreshRun(q) /\ q.by \notin {"verify", "worker"}
    BY <1>1, StaffRun
  <2>3. v.by = q.by /\ v.adopts = q.adopts /\ v.saw = q.saw /\ v.at = "built" /\ v.w.sub = q.w.sub
    BY <2>1 DEF Built, Wrote
  <2>4. FreshRun(v)
    BY <1>1, <2>2, <2>3 DEF FreshRun
  <2>5. UNCHANGED <<order, sub, env>> /\ \A m \in queue' : order[m.o].pay = "unpaid"
    BY <1>3, BuildStep DEF Rest, rows, Fresh
  <2> HIDE DEF q
  <2> QED BY <2>1, <2>4, <2>5, FreshAdvance
<1> QED BY <1>2, <1>3

LEMMA FreshOutcome ==
    ASSUME Inv, Fresh, NEW r \in Runs, Complete(r) \/ HostFails(r)
    PROVE  Fresh'
<1>1. CASE Complete(r)
  <2>1. PICK ord \in {Keep, "active"} :
           LET w == Wrote(run[r].w.pay, ord, run[r].w.sub, "success", "active")
           IN  Go(r, "done", w) /\ w \in Writes /\ (ord = Keep => run[r].saw = "active")
    BY <1>1, CompleteStep
  <2>2. run[r].at = "built" /\ UNCHANGED <<order, sub, env, queue>>
    BY <1>1, CompleteStep DEF Rest, rows
  <2>3. FreshRun(run[r]) /\ run[r].by \notin {"verify", "worker"}
    BY <2>2, StaffRun
  <2> DEFINE w == Wrote(run[r].w.pay, ord, run[r].w.sub, "success", "active")
  <2>4. Go(r, "done", w) /\ w \in Writes
    BY <2>1
  <2>5. w.sub /\ w.order = "active"
    BY <2>1, <2>2, <2>3 DEF FreshRun, Wrote
  <2> HIDE DEF w
  <2> QED BY <2>2, <2>3, <2>4, <2>5, FreshGo
<1>2. CASE HostFails(r)
  <2>1. Go(r, "failing", run[r].w) /\ UNCHANGED <<order, sub, env, queue>>
        /\ run[r].at \in {"opened", "gated", "built", "done"}
    BY <1>2 DEF HostFails, Rest, rows, At
  <2>2. FreshRun(run[r]) /\ run[r].by \notin {"verify", "worker"} /\ run[r].w \in Writes
    BY <2>1, StaffRun, Fields
  <2>3. run[r].w.sub \/ run[r].w = Clean
    BY <2>1, <2>2 DEF FreshRun
  <2> QED BY <2>1, <2>2, <2>3, FreshGo
<1> QED BY <1>1, <1>2

\* With the subscription the order becomes active, and has its environment.
LEMMA FreshCommit ==
    ASSUME Inv, Fresh, NEW r \in Runs, Commit(r) \/ SyncCommit(r)
    PROVE  Fresh'
<1> PICK q, o, w : q = run[r] /\ o = q.o /\ w = q.w
  OBVIOUS
<1>1. q.at = "done" /\ Apply(r, w) /\ queue' = queue
  BY DEF Commit, SyncCommit, At
<1>2. q \in RunState /\ RunOK(q) /\ FreshRun(q) /\ q.by \notin {"verify", "worker"}
  BY <1>1, StaffRun
<1>3. /\ w.pay \in {Keep, "paid"} /\ w.order \in OrderStatus \cup {Keep} /\ w.sub \in BOOLEAN
      /\ w.job \in JobStatus \cup {Keep} /\ w.env \in EnvStatus \cup {Keep, Touch}
      /\ o \in Orders /\ q.j \in JobId /\ q.e \in Nat
  BY <1>2, Fields DEF JobStatus
<1>4. /\ \A p \in Orders \ {o} : order'[p] = order[p] /\ sub'[p] = sub[p] /\ env'[p] = env[p]
      /\ order'[o].pay = IF w.pay = "paid" THEN "paid" ELSE order[o].pay
      /\ order'[o].status = IF w.order = Keep THEN order[o].status ELSE w.order
      /\ sub'[o] = IF w.sub THEN q.j ELSE sub[o]
      /\ w.env = Keep => env' = env
  BY <1>1, <1>2, <1>3, AppliedRows
<1>5. order[o].pay = "paid"
  BY <1>1, <1>2 DEF RunOK
<1>6. Len(env'[o]) <= 1 /\ (sub'[o] # 0 => order'[o].status = "active")
  <2>1. CASE w.sub
    <3>1. sub[o] = 0 /\ env[o] = <<>>
      BY <1>2, <1>3, <2>1 DEF RunOK, Inv, RowsOK
    <3>2. Len(env'[o]) <= 1
      <4>1. CASE w.env = Keep
        BY <1>4, <3>1, <4>1
      <4>2. CASE w.env # Keep
        <5>1. /\ q.e <= Len(env[o]) => q.e \in DOMAIN env[o]
              /\ ~(q.e <= Len(env[o])) => env'[o] = Append(env[o], w.env)
          BY <1>1, <1>2, <1>3, <4>2, AppliedEnv
        <5>2. env'[o] = Append(<<>>, w.env)
          BY <3>1, <5>1
        <5> QED BY <5>2
      <4> QED BY <4>1, <4>2
    <3> QED BY <1>1, <1>2, <1>4, <2>1, <3>2 DEF FreshRun, Keep
  <2>2. CASE ~w.sub
    <3>1. w.order = Keep /\ w.env = Keep
      BY <1>1, <1>2, <2>2 DEF FreshRun, Clean
    <3> QED BY <1>3, <1>4, <2>2, <3>1 DEF Fresh
  <2> QED BY <2>1, <2>2
<1>7. \A p \in Orders : Len(env'[p]) <= 1 /\ (sub'[p] # 0 => order'[p].status = "active")
  BY <1>4, <1>6 DEF Fresh
<1>8. \A p \in Orders : order'[p].pay = order[p].pay
  BY <1>4, <1>5
<1>9. \A m \in queue' : order'[m.o].pay = "unpaid"
  BY <1>1, <1>8, TypeParts DEF Fresh, Inv, Msg
<1>10. AnyRun
  BY TypeParts DEF Inv
<1>11. \A x \in Runs : (run[x] # Idle => FreshRun(run[x]))'
  <2> TAKE x \in Runs
  <2>1. CASE x # r /\ run'[x] # Idle
    <3>1. run'[x] = run[x]
      BY <1>10, <2>1 DEF AnyRun, Commit, SyncCommit, End
    <3>2. FreshRun(run[x]) /\ run[x].o \in Orders
      BY <1>10, <2>1, <3>1, BusyShape, Fields DEF Fresh
    <3>3. order'[run[x].o].pay = order[run[x].o].pay
      BY <1>8, <3>2
    <3> QED BY <3>1, <3>2, <3>3 DEF FreshRun
  <2>2. CASE x = r /\ Commit(r)
    BY <1>10, <2>2 DEF AnyRun, Commit, End
  <2>3. CASE x = r /\ SyncCommit(r)
    <3>1. run' = [run EXCEPT ![r] = [q EXCEPT !.w = Clean]]
      BY <2>3, Zenon DEF SyncCommit
    <3>2. PICK v : v = [q EXCEPT !.w = Clean]
      OBVIOUS
    <3>3. run'[r] = v
      BY <1>10, <3>1, <3>2 DEF AnyRun
    <3>4. v.w = Clean /\ v.at = "done" /\ v.by = q.by /\ v.adopts = q.adopts /\ v.saw = q.saw
      BY <1>1, <1>2, <3>2 DEF RunState
    <3>5. ~v.w.sub
      BY <3>4 DEF Clean
    <3> QED BY <1>1, <1>2, <2>3, <3>3, <3>4, <3>5 DEF FreshRun
  <2> QED BY <2>1, <2>2, <2>3
<1> QED BY <1>7, <1>9, <1>11 DEF Fresh

LEMMA FreshStart ==
    ASSUME Inv, Fresh, NEW r \in Runs,
           (\E o \in Orders : Request(r, o)) \/ \E m \in queue : Take(r, m), Inv'
    PROVE  Fresh'
<1>1. UNCHANGED <<order, sub, env>> /\ queue' \subseteq queue
  BY DEF Request, Verify, Activate, RetryProvision, RetryOf, Begin, Take, rows
<1>2. AnyRun /\ AnyRun'
  BY TypeParts DEF Inv, TypeOK, AnyRun
<1>3. PICK v : v = run'[r]
  OBVIOUS
<1>4. FreshRun(v) /\ v # Idle /\ \A x \in Runs \ {r} : run'[x] = run[x]
  <2>1. ASSUME NEW by \in {"verify", "activate", "retry"}, NEW o \in Orders, NEW j, NEW w,
               Begin(r, by, o, j, w), by = "verify" => order[o].pay = "unpaid",
               by # "verify" => order[o].status # "active"
        PROVE  FreshRun(v) /\ v # Idle /\ \A x \in Runs \ {r} : run'[x] = run[x]
    <3> DEFINE adopts == by = "retry" /\ sub[o] # 0
    <3>1. adopts => by # "verify" /\ order[o].status = "active"
      BY DEF Fresh
    <3>2. run' = [run EXCEPT ![r] =
             [at |-> "begun", by |-> by, o |-> o, j |-> j, attempt |-> 0, ghost |-> FALSE,
              adopts |-> adopts, saw |-> order[o].status,
              e |-> 0, was |-> Keep, large |-> FALSE, n |-> 0, made |-> FALSE, w |-> w]]
      BY <2>1, Zenon DEF Begin
    <3> HIDE DEF adopts
    <3>3. v.at = "begun" /\ v.by = by /\ v.o = o /\ v.adopts = adopts /\ v.saw = order[o].status
      BY <1>2, <1>3, <3>2 DEF AnyRun
    <3>4. \A x \in Runs \ {r} : run'[x] = run[x]
      BY <1>2, <3>2 DEF AnyRun
    <3> QED BY <2>1, <3>1, <3>3, <3>4 DEF FreshRun, Idle
  <2>2. ASSUME NEW m \in queue, Take(r, m)
        PROVE  FreshRun(v) /\ v # Idle /\ \A x \in Runs \ {r} : run'[x] = run[x]
    <3>1. v.at = "begun" /\ v.by = "worker" /\ v.o = m.o
      BY <1>2, <1>3, <2>2 DEF AnyRun, Take
    <3>2. \A x \in Runs \ {r} : run'[x] = run[x]
      BY <1>2, <2>2 DEF AnyRun, Take
    <3> QED BY <3>1, <3>2 DEF FreshRun, Idle, Fresh
  <2>3. ASSUME NEW o \in Orders, Request(r, o)
        PROVE  \E by \in {"verify", "activate", "retry"} : \E j, w :
                  Begin(r, by, o, j, w) /\ (by = "verify" => order[o].pay = "unpaid")
                                        /\ (by # "verify" => order[o].status # "active")
    <3>1. CASE Verify(r, o)
      BY <3>1, Zenon DEF Verify
    <3>2. CASE Activate(r, o)
      BY <3>2, Zenon DEF Activate
    <3>3. CASE RetryProvision(r, o)
      BY <3>3, Zenon DEF RetryProvision, RetryOf
    <3> QED BY <2>3, <3>1, <3>2, <3>3 DEF Request
  <2> QED BY <2>1, <2>2, <2>3
<1>5. run' = [run EXCEPT ![r] = v] /\ v \in RunState
  BY <1>2, <1>3, <1>4 DEF AnyRun
<1>6. \A m \in queue' : order[m.o].pay = "unpaid"
  BY <1>1 DEF Fresh
<1> QED BY <1>1, <1>4, <1>5, <1>6, FreshAdvance

LEMMA FreshLifecycle ==
    ASSUME Inv, Fresh, NEW o \in Orders, NEW i \in DOMAIN env[o], Lifecycle(o, i)
    PROVE  Fresh'
<1>1. PICK to \in EnvStatus :
         env' = [env EXCEPT ![o][i] = to] /\ UNCHANGED <<order, sub, queue, run>>
  BY DEF Lifecycle, Suspend, Restore, Terminate, SetEnv, EnvStatus, Live
<1>2. env \in [Orders -> Seq(EnvStatus)] /\ env[o] \in Seq(EnvStatus)
  BY DEF Inv, TypeOK
<1>3. env'[o] = [env[o] EXCEPT ![i] = to] /\ \A p \in Orders \ {o} : env'[p] = env[p]
  BY <1>1, <1>2
<1>4. Len(env'[o]) = Len(env[o])
  BY <1>2, <1>3, SeqPut
<1>5. \A p \in Orders : Len(env'[p]) <= 1
  BY <1>3, <1>4 DEF Fresh
<1> QED BY <1>1, <1>5 DEF Fresh, FreshRun

LEMMA FreshNext == Inv /\ Inv' /\ FaultOrFresh /\ [Next]_vars => FaultOrFresh'
<1> SUFFICES ASSUME Inv, Inv', faults = 0 => Fresh, [Next]_vars, faults' = 0
             PROVE  Fresh'
  BY DEF FaultOrFresh
<1>1. CASE UNCHANGED vars
  BY <1>1 DEF vars, rows, Fresh, FreshRun
<1>2. faults' = faults \/ Fault
  <2>1. ASSUME NEW r \in Runs, Step(r)
        PROVE  faults' = faults \/ Fault
    <3>1. CASE Find(r) \/ Gate(r) \/ Build(r) \/ Complete(r) \/ HostFails(r)
      BY <3>1, GateStep DEF Find, Build, Complete, HostFails, Rest, RollBack
    <3>2. CASE OpenInline(r) \/ OpenVerified(r)
      BY <3>2 DEF OpenInline, OpenVerified, Rest, RollBack
    <3>3. CASE OpenTask(r)
      BY <3>3, Zenon DEF OpenTask, OpenTaskIf, Rest
    <3>4. CASE SyncCommit(r) \/ Commit(r) \/ Deadlock(r)
      BY <3>4 DEF SyncCommit, Commit, Deadlock, RollBack
    <3>5. CASE Fail(r)
      BY <3>5, FailStep DEF RollBack
    <3> QED BY <2>1, <3>1, <3>2, <3>3, <3>4, <3>5 DEF Step
  <2>2. ASSUME NEW r \in Runs, Die(r) \/ \E m \in queue : Take(r, m)
        PROVE  faults' = faults \/ Fault
    BY <2>2 DEF Die, Take
  <2>3. ASSUME NEW r \in Runs, NEW o \in Orders, Request(r, o)
        PROVE  faults' = faults \/ Fault
    BY <2>3 DEF Request, Verify, Activate, RetryProvision, RetryOf, Begin
  <2>4. ASSUME NEW o \in Orders, NEW i \in DOMAIN env[o], Lifecycle(o, i)
        PROVE  faults' = faults \/ Fault
    BY <2>4 DEF Lifecycle, Suspend, Restore, Terminate, SetEnv
  <2>5. CASE UNCHANGED vars
    BY <2>5 DEF vars
  <2>6. ASSUME NEW o \in Orders, NEW up \in BOOLEAN, ChangePlan(o, up)
        PROVE  faults' = faults \/ Fault
    BY <2>6, ChangePlanStep
  <2> QED BY <2>1, <2>2, <2>3, <2>4, <2>5, <2>6 DEF Next
<1>3. ~Fault /\ Fresh
  BY <1>2 DEF Fault, Inv, TypeOK
<1>4. ASSUME NEW r \in Runs, Step(r)
      PROVE  Fresh'
  <2>1. CASE Deadlock(r)
    <3>1. run[r].at # "idle"
      BY <2>1, TypeParts, BusyShape, Fields DEF Deadlock, Inv, Stage
    <3> QED BY <1>3, <2>1, <3>1, FreshRollBack DEF Deadlock
  <2>2. CASE Fail(r)
    <3>1. run[r].at = "failing"
      BY <2>2 DEF Fail, At
    <3>2. run[r].by # "worker"
      BY <1>3, <3>1, StaffRun
    <3> QED BY <1>3, <2>2, <3>1, <3>2, FreshRollBack DEF Fail
  <2> QED BY <1>3, <1>4, <2>1, <2>2, FreshOpen, FreshOpenTask, FreshFind, FreshGate, FreshBuild,
             FreshOutcome, FreshCommit DEF Step
<1>5. ASSUME NEW r \in Runs, (\E o \in Orders : Request(r, o)) \/ \E m \in queue : Take(r, m)
      PROVE  Fresh'
  BY <1>3, <1>5, FreshStart
<1>6. ASSUME NEW o \in Orders, NEW i \in DOMAIN env[o], Lifecycle(o, i)
      PROVE  Fresh'
  BY <1>3, <1>6, FreshLifecycle
<1>7. ~\E r \in Runs : Die(r)
  BY <1>3 DEF Die
<1>8. ASSUME NEW o \in Orders, NEW up \in BOOLEAN, ChangePlan(o, up)
      PROVE  Fresh'
  <2>1. UNCHANGED <<order, sub, env, job, queue, run>>
    BY <1>8, ChangePlanStep
  <2> QED BY <1>3, <2>1 DEF Fresh, FreshRun
<1> QED BY <1>1, <1>4, <1>5, <1>6, <1>7, <1>8 DEF Next

\* Without a fault a request that retries or activates an order never builds a
\* second environment: what was terminated stays so.
THEOREM NeverRebuilds == Spec => []NeverRebuilt
<1>1. Init => FaultOrFresh
  <2>1. Len(<<>>) = 0
    BY EmptySeq
  <2> QED BY <2>1 DEF Init, Fresh, FaultOrFresh
<1>2. FaultOrFresh => NeverRebuilt
  BY DEF FaultOrFresh, Fresh, NeverRebuilt
<1>3. Spec => []FaultOrFresh
  BY <1>1, Invariant, FreshNext, PTL DEF Spec
<1> QED BY <1>2, <1>3, PTL

-------------------------------------------------------------------------------
(***************************************************************************)
(* Sums.                                                                   *)
(***************************************************************************)
LEMMA UnitsOfOne ==
    ASSUME NEW x, NEW n \in Nat
    PROVE  IsFiniteSet({x} \X (1 .. n)) /\ Cardinality({x} \X (1 .. n)) = n
<1>1. IsFiniteSet(1 .. n) /\ Cardinality(1 .. n) = n
  BY FS_Interval
<1>2. IsFiniteSet({x}) /\ Cardinality({x}) = 1
  BY FS_Singleton
<1>3. /\ IsFiniteSet({x} \X (1 .. n))
      /\ Cardinality({x} \X (1 .. n)) = Cardinality({x}) * Cardinality(1 .. n)
  BY <1>1, <1>2, FS_Product
<1>4. 1 * n = n
  OBVIOUS
<1> QED BY <1>1, <1>2, <1>3, <1>4

\* The units of all members, and of all but one.
Besides(f, x) == {u \in Units(f) : u[1] # x}

LEMMA UnitsFinite ==
    ASSUME NEW S, IsFiniteSet(S), NEW f \in [S -> Nat]
    PROVE  IsFiniteSet(Units(f)) /\ Total(f) \in Nat
<1> DEFINE T == {{x} \X (1 .. f[x]) : x \in S}
           g == [x \in S |-> {x} \X (1 .. f[x])]
<1>1. g \in Surjection(S, T)
  <2>1. g \in [S -> T]
    OBVIOUS
  <2>2. \A t \in T : \E x \in S : g[x] = t
    OBVIOUS
  <2> HIDE DEF T, g
  <2> QED BY <2>1, <2>2 DEF Surjection
<1>2. IsFiniteSet(T)
  BY <1>1, FS_Surjection
<1>3. \A t \in T : IsFiniteSet(t)
  <2>1. \A x \in S : IsFiniteSet({x} \X (1 .. f[x]))
    BY UnitsOfOne
  <2> QED BY <2>1
<1>4. Units(f) = UNION T
  BY DEF Units
<1> HIDE DEF T
<1>5. IsFiniteSet(Units(f))
  BY <1>2, <1>3, <1>4, FS_UNION
<1> QED BY <1>5, FS_CardinalityType DEF Total

LEMMA TotalSplit ==
    ASSUME NEW S, IsFiniteSet(S), NEW f \in [S -> Nat], NEW x \in S
    PROVE  /\ IsFiniteSet(Besides(f, x))
           /\ Total(f) = f[x] + Cardinality(Besides(f, x))
<1> DEFINE own == {x} \X (1 .. f[x])
<1>1. IsFiniteSet(Units(f)) /\ IsFiniteSet(Besides(f, x))
  BY UnitsFinite, FS_Subset DEF Besides
<1>2. IsFiniteSet(own) /\ Cardinality(own) = f[x]
  BY UnitsOfOne
<1>3. Units(f) = own \cup Besides(f, x) /\ own \cap Besides(f, x) = {}
  <2>1. \A u \in Units(f) : u[1] = x => u \in own
    <3>1. SUFFICES ASSUME NEW y \in S, NEW u \in {y} \X (1 .. f[y]), u[1] = x
                   PROVE  u \in own
      BY DEF Units
    <3>2. y = x
      BY <3>1
    <3> QED BY <3>1, <3>2
  <2>2. own \subseteq Units(f)
    BY DEF Units
  <2>3. \A u \in own : u[1] = x
    OBVIOUS
  <2> HIDE DEF own
  <2>4. Units(f) \subseteq own \cup Besides(f, x) /\ Besides(f, x) \subseteq Units(f)
    BY <2>1 DEF Besides
  <2>5. \A u \in Besides(f, x) : u \notin own
    BY <2>3 DEF Besides
  <2> QED BY <2>2, <2>4, <2>5
<1>4. Cardinality(Besides(f, x)) \in Nat /\ f[x] \in Nat /\ Cardinality({}) = 0
  BY <1>1, FS_CardinalityType, FS_EmptySet
<1> HIDE DEF own
<1>5. Cardinality(own \cup Besides(f, x)) =
          Cardinality(own) + Cardinality(Besides(f, x)) - Cardinality(own \cap Besides(f, x))
  BY <1>1, <1>2, FS_Union
<1>6. Total(f) = Cardinality(own) + Cardinality(Besides(f, x)) - Cardinality({})
  BY <1>3, <1>5 DEF Total
<1> QED BY <1>1, <1>2, <1>4, <1>6

\* A sum changes by what one of its terms changes.
LEMMA TotalChange ==
    ASSUME NEW S, IsFiniteSet(S), NEW f \in [S -> Nat], NEW g \in [S -> Nat],
           NEW x \in S, \A y \in S \ {x} : g[y] = f[y]
    PROVE  Total(g) = Total(f) - f[x] + g[x]
<1>1. Besides(g, x) = Besides(f, x)
  <2>1. Units(f) = UNION {{y} \X (1 .. f[y]) : y \in S}
        /\ Units(g) = UNION {{y} \X (1 .. g[y]) : y \in S}
    BY DEF Units
  <2>2. \A u : u \in Besides(f, x) <=> \E y \in S \ {x} : u \in {y} \X (1 .. f[y])
    BY <2>1 DEF Besides
  <2>3. \A u : u \in Besides(g, x) <=> \E y \in S \ {x} : u \in {y} \X (1 .. g[y])
    BY <2>1 DEF Besides
  <2> QED BY <2>2, <2>3
<1>2. Total(f) = f[x] + Cardinality(Besides(f, x)) /\ Total(g) = g[x] + Cardinality(Besides(g, x))
      /\ Cardinality(Besides(f, x)) \in Nat
  BY TotalSplit, FS_CardinalityType
<1> QED BY <1>1, <1>2

LEMMA TotalMore ==
    ASSUME NEW S, IsFiniteSet(S), NEW f \in [S -> Nat], NEW g \in [S -> Nat],
           \A x \in S : f[x] <= g[x]
    PROVE  Total(f) <= Total(g) /\ Total(f) \in Nat /\ Total(g) \in Nat
<1>1. Units(f) = UNION {{x} \X (1 .. f[x]) : x \in S}
      /\ Units(g) = UNION {{x} \X (1 .. g[x]) : x \in S}
  BY DEF Units
<1>2. \A x \in S : {x} \X (1 .. f[x]) \subseteq {x} \X (1 .. g[x])
  <2> TAKE x \in S
  <2>1. f[x] \in Nat /\ g[x] \in Nat /\ f[x] <= g[x]
    OBVIOUS
  <2>2. 1 .. f[x] \subseteq 1 .. g[x]
    BY <2>1
  <2> QED BY <2>2
<1>3. Units(f) \subseteq Units(g)
  BY <1>1, <1>2
<1>4. IsFiniteSet(Units(g)) /\ Total(f) \in Nat /\ Total(g) \in Nat
  BY UnitsFinite
<1> QED BY <1>3, <1>4, FS_Subset DEF Total

LEMMA TotalZero ==
    ASSUME NEW S, NEW f \in [S -> Nat], \A x \in S : f[x] = 0
    PROVE  Total(f) = 0
<1>1. Units(f) = {}
  BY DEF Units
<1> QED BY <1>1, FS_EmptySet DEF Total

-------------------------------------------------------------------------------
(***************************************************************************)
(* The pool.  A run that has passed the gate, and has not yet committed or *)
(* failed what it may build, has room for the whole plan; while none of    *)
(* the PoolGaps has happened it is the only one that has.  MadeOK says     *)
(* what a run can have written that did not get so far.                    *)
(***************************************************************************)
\* The pool as the orders' own plans would fill it: what changes of plan add is
\* nothing, while none has raised a limit (Ungrown).
Ordered == Total([o \in Orders |-> Space(o, env[o])])
OrderedSeen(r, w) ==
    Total([o \in Orders |->
              Space(o, IF o = run[r].o /\ w.env # Keep
                       THEN [env[o] EXCEPT ![run[r].e] = Written(@, w.env)] ELSE env[o])])
Ungrown == "upgrade" \in gaps \/ \A o \in Orders : grown[o] = {}

Granted(q) == q # Idle /\ (q.at = "gated" \/ (q.made /\ q.w.env # Keep))

MadeOK(q) ==
    /\ q.made => q.at \in {"built", "done", "failing"}
    /\ q.at = "built" => q.made
    /\ ~q.made =>
          /\ q.w.env \in {Keep, Touch, "provisioning"}
          /\ q.at = "done" => q.w.env = Keep
          /\ q.w.env # Keep => q.e \in 1 .. Len(env[q.o])

HasRoom ==
    /\ Ordered <= Pool
    /\ \A r \in Runs : Granted(run[r]) => Ordered + Size[run[r].o] <= Pool
    /\ \A r, x \in Runs : Granted(run[r]) /\ Granted(run[x]) => r = x

Pooled ==
    /\ \A r \in Runs : run[r] # Idle => MadeOK(run[r])
    /\ gaps \cap PoolGaps = {} => HasRoom

\* The space of an order's environments when one is changed or appended.
LEMMA Times ==
    ASSUME NEW s \in Nat, NEW m \in Nat, NEW n \in Nat
    PROVE  /\ s * m \in Nat /\ s * (n + 1) = s * n + s
           /\ m <= n => s * m <= s * n
<1>1. s * m \in Nat /\ s * (n + 1) = s * n + s
  OBVIOUS
<1>2. ASSUME m <= n PROVE s * m <= s * n
  <2>1. n - m \in Nat /\ s * (n - m) \in Nat
    BY <1>2
  <2>2. s * n = s * m + s * (n - m)
    BY <1>2
  <2> QED BY <1>1, <2>1, <2>2
<1> QED BY <1>1, <1>2

Taking(s) == {i \in DOMAIN s : s[i] \in Counted}

LEMMA TakingType ==
    ASSUME NEW s \in Seq(EnvStatus)
    PROVE  IsFiniteSet(Taking(s)) /\ Cardinality(Taking(s)) \in Nat
<1>1. Len(s) \in Nat /\ DOMAIN s = 1 .. Len(s)
  BY LenProperties
<1> DEFINE n == Len(s)
<1>2. Taking(s) \in SUBSET (1 .. n)
  BY <1>1 DEF Taking
<1> HIDE DEF n
<1>3. IsFiniteSet(1 .. n)
  BY <1>1, FS_Interval DEF n
<1>4. IsFiniteSet(Taking(s))
  BY <1>2, <1>3, FS_Subset
<1> QED BY <1>4, FS_CardinalityType

LEMMA SpaceType ==
    ASSUME NEW o \in Orders, NEW s \in Seq(EnvStatus)
    PROVE  /\ Space(o, s) = Size[o] * Cardinality(Taking(s)) /\ Space(o, s) \in Nat
BY TakingType, Times DEF Space, Taking

\* What changes of plan add, to nothing less.
LEMMA TakenIsMore ==
    ASSUME NEW o \in Orders, NEW s \in Seq(EnvStatus), NEW big
    PROVE  /\ Taken(o, s, big) \in Nat /\ Space(o, s) <= Taken(o, s, big)
           /\ big = {} => Taken(o, s, big) = Space(o, s)
<1> DEFINE T == {i \in DOMAIN s \cap big : s[i] \in Counted}
<1>1. T \subseteq Taking(s)
  BY DEF Taking
<1>2. IsFiniteSet(T) /\ Cardinality(T) \in Nat
  <2>1. IsFiniteSet(T)
    BY <1>1, TakingType, FS_Subset
  <2> QED BY <2>1, FS_CardinalityType
<1>3. big = {} => Cardinality(T) = 0
  <2> SUFFICES ASSUME big = {} PROVE Cardinality(T) = 0
    OBVIOUS
  <2>1. T = {}
    OBVIOUS
  <2> QED BY <2>1, FS_EmptySet
<1>4. Taken(o, s, big) = Space(o, s) + More[o] * Cardinality(T)
  BY DEF Taken, Extra
<1> HIDE DEF T
<1>5. More[o] \in Nat /\ Space(o, s) \in Nat
  BY SpaceType
<1> DEFINE n == Cardinality(T)
           m == More[o]
<1>6. n \in Nat /\ m \in Nat
  BY <1>2, <1>5
<1> HIDE DEF n, m
<1>7. m * n \in Nat /\ (n = 0 => m * n = 0)
  BY <1>6, Times
<1> QED BY <1>3, <1>4, <1>5, <1>7 DEF n, m

\* What one more, or one less, environment that is counted makes.
LEMMA SpaceOneMore ==
    ASSUME NEW o \in Orders, NEW s \in Seq(EnvStatus), NEW t \in Seq(EnvStatus), NEW i
    PROVE  /\ Taking(t) \subseteq Taking(s) => Space(o, t) <= Space(o, s)
           /\ Taking(t) \subseteq Taking(s) \cup {i} => Space(o, t) <= Space(o, s) + Size[o]
<1>1. /\ IsFiniteSet(Taking(s)) /\ Cardinality(Taking(s)) \in Nat
      /\ IsFiniteSet(Taking(t)) /\ Cardinality(Taking(t)) \in Nat /\ Size[o] \in Nat
  BY TakingType
<1>2. IsFiniteSet(Taking(s) \cup {i})
      /\ Cardinality(Taking(s) \cup {i}) <= Cardinality(Taking(s)) + 1
      /\ Cardinality(Taking(s) \cup {i}) \in Nat
  <2> DEFINE S == Taking(s)
  <2> HIDE DEF S
  <2>1. IsFiniteSet(S \cup {i})
        /\ Cardinality(S \cup {i}) = IF i \in S THEN Cardinality(S) ELSE Cardinality(S) + 1
    BY <1>1, FS_AddElement DEF S
  <2>2. Cardinality(S) \in Nat
    BY <1>1 DEF S
  <2>3. /\ Cardinality(S \cup {i}) <= Cardinality(S) + 1 /\ Cardinality(S \cup {i}) \in Nat
    BY <2>1, <2>2
  <2> QED BY <2>1, <2>3 DEF S
<1>3. ASSUME Taking(t) \subseteq Taking(s) PROVE Space(o, t) <= Space(o, s)
  <2>1. Cardinality(Taking(t)) <= Cardinality(Taking(s))
    BY <1>1, <1>3, FS_Subset
  <2> QED BY <1>1, <2>1, SpaceType, Times
<1>4. ASSUME Taking(t) \subseteq Taking(s) \cup {i} PROVE Space(o, t) <= Space(o, s) + Size[o]
  <2>1. Cardinality(Taking(t)) <= Cardinality(Taking(s) \cup {i})
    BY <1>2, <1>4, FS_Subset
  <2> DEFINE m == Cardinality(Taking(t))
             n == Cardinality(Taking(s))
             k == Size[o]
  <2>2. m \in Nat /\ n \in Nat /\ k \in Nat /\ m <= n + 1
    BY <1>1, <1>2, <2>1
  <2>3. Space(o, t) = k * m /\ Space(o, s) = k * n
    BY SpaceType
  <2> HIDE DEF m, n, k
  <2>4. k * m <= k * (n + 1) /\ k * (n + 1) = k * n + k
    BY <2>2, Times
  <2>5. k * m \in Nat /\ k * n \in Nat
    BY <2>2, Times
  <2>6. Space(o, t) <= Space(o, s) + k
    BY <2>2, <2>3, <2>4, <2>5
  <2> QED BY <2>6 DEF k
<1> QED BY <1>3, <1>4

LEMMA SpacePut ==
    ASSUME NEW o \in Orders, NEW s \in Seq(EnvStatus), NEW i \in DOMAIN s, NEW v \in EnvStatus
    PROVE  LET t == [s EXCEPT ![i] = v] IN
           /\ t \in Seq(EnvStatus)
           /\ Space(o, t) <= Space(o, s) + Size[o]
           /\ v \notin Counted \/ s[i] \in Counted => Space(o, t) <= Space(o, s)
           /\ v \in Counted \/ v = s[i] => Space(o, s) <= Space(o, t)
<1> DEFINE t == [s EXCEPT ![i] = v]
<1>1. /\ t \in Seq(EnvStatus) /\ DOMAIN t = DOMAIN s /\ t[i] = v
      /\ \A k \in DOMAIN s : k # i => t[k] = s[k]
  BY SeqPut
<1> HIDE DEF t
<1>2. Taking(t) \subseteq Taking(s) \cup {i}
  BY <1>1 DEF Taking
<1>3. v \notin Counted \/ s[i] \in Counted => Taking(t) \subseteq Taking(s)
  BY <1>1 DEF Taking
<1>4. v \in Counted \/ v = s[i] => Taking(s) \subseteq Taking(t)
  BY <1>1 DEF Taking
<1>5. /\ Space(o, t) <= Space(o, s) + Size[o]
      /\ v \notin Counted \/ s[i] \in Counted => Space(o, t) <= Space(o, s)
      /\ v \in Counted \/ v = s[i] => Space(o, s) <= Space(o, t)
  BY <1>1, <1>2, <1>3, <1>4, SpaceOneMore
<1> QED BY <1>1, <1>5 DEF t

LEMMA SpaceAppend ==
    ASSUME NEW o \in Orders, NEW s \in Seq(EnvStatus), NEW v \in EnvStatus
    PROVE  Append(s, v) \in Seq(EnvStatus) /\ Space(o, Append(s, v)) <= Space(o, s) + Size[o]
<1> DEFINE t == Append(s, v)
<1>1. /\ t \in Seq(EnvStatus) /\ Len(s) \in Nat /\ DOMAIN s = 1 .. Len(s)
      /\ DOMAIN t = 1 .. Len(s) + 1
      /\ \A k \in 1 .. Len(s) : t[k] = s[k]
  BY AppendProperties, LenProperties
<1> HIDE DEF t
<1>2. Taking(t) \subseteq Taking(s) \cup {Len(s) + 1}
  BY <1>1 DEF Taking
<1>3. Space(o, t) <= Space(o, s) + Size[o]
  BY <1>1, <1>2, SpaceOneMore
<1> QED BY <1>1, <1>3 DEF t

\* The space of all orders.
Spaces(envs) == Total([o \in Orders |-> Space(o, envs[o])])

LEMMA SpacesType ==
    ASSUME NEW envs \in [Orders -> Seq(EnvStatus)]
    PROVE  Spaces(envs) \in Nat
<1> DEFINE f == [o \in Orders |-> Space(o, envs[o])]
<1>1. f \in [Orders -> Nat]
  BY SpaceType
<1> HIDE DEF f
<1>2. Total(f) \in Nat
  BY <1>1, UnitsFinite, OrdersAssumption DEF OrdersAssumption
<1> QED BY <1>2 DEF Spaces, f

LEMMA SpacesChange ==
    ASSUME NEW envs \in [Orders -> Seq(EnvStatus)], NEW news \in [Orders -> Seq(EnvStatus)],
           NEW o \in Orders, \A p \in Orders \ {o} : news[p] = envs[p]
    PROVE  /\ Spaces(news) = Spaces(envs) - Space(o, envs[o]) + Space(o, news[o])
           /\ Spaces(envs) \in Nat /\ Spaces(news) \in Nat
           /\ Space(o, envs[o]) \in Nat /\ Space(o, news[o]) \in Nat
<1> DEFINE f == [p \in Orders |-> Space(p, envs[p])]
           g == [p \in Orders |-> Space(p, news[p])]
<1>1. /\ f \in [Orders -> Nat] /\ g \in [Orders -> Nat]
      /\ \A p \in Orders \ {o} : g[p] = f[p]
      /\ f[o] = Space(o, envs[o]) /\ g[o] = Space(o, news[o])
  BY SpaceType
<1> HIDE DEF f, g
<1>2. Total(g) = Total(f) - f[o] + g[o]
  <2>1. IsFiniteSet(Orders)
    BY OrdersAssumption DEF OrdersAssumption
  <2>2. \A h, k \in [Orders -> Nat] :
          (\A p \in Orders \ {o} : k[p] = h[p]) => Total(k) = Total(h) - h[o] + k[o]
    <3> SUFFICES ASSUME NEW h \in [Orders -> Nat], NEW k \in [Orders -> Nat],
                        \A p \in Orders \ {o} : k[p] = h[p]
                 PROVE  Total(k) = Total(h) - h[o] + k[o]
      OBVIOUS
    <3> QED BY ONLY <2>1, o \in Orders, h \in [Orders -> Nat], k \in [Orders -> Nat],
                    \A p \in Orders \ {o} : k[p] = h[p], TotalChange
  <2> QED BY <1>1, <2>2
<1>3. Spaces(news) = Total(g) /\ Spaces(envs) = Total(f)
  BY DEF Spaces, f, g
<1> QED BY <1>1, <1>2, <1>3, SpacesType, SpaceType

LEMMA OrderedIs ==
    /\ Ordered = Spaces(env)
    /\ Ordered' = Spaces(env')
BY DEF Ordered, Spaces

\* What run r sees is no less than what is committed, when it only adds to it.
LEMMA SeenIsMore ==
    ASSUME Inv, NEW r \in Runs, run[r] \in RunState, NEW w,
           w.env \in {Keep, Touch, "provisioning"},
           w.env # Keep => run[r].e \in DOMAIN env[run[r].o]
    PROVE  /\ Ordered <= OrderedSeen(r, w)
           /\ Ordered \in Nat /\ OrderedSeen(r, w) \in Nat
<1> DEFINE o == run[r].o
           s == env[o]
           v == Written(s[run[r].e], w.env)
           envs == [p \in Orders |-> IF p = o /\ w.env # Keep
                                     THEN [s EXCEPT ![run[r].e] = v] ELSE env[p]]
<1>1. o \in Orders /\ env \in [Orders -> Seq(EnvStatus)] /\ s \in Seq(EnvStatus)
  BY Fields DEF Inv, TypeOK
<1>2. OrderedSeen(r, w) = Spaces(envs)
  <2>1. \A p \in Orders : Space(p, envs[p]) =
           Space(p, IF p = run[r].o /\ w.env # Keep
                    THEN [env[p] EXCEPT ![run[r].e] = Written(@, w.env)] ELSE env[p])
    OBVIOUS
  <2> HIDE DEF envs
  <2> QED BY <2>1 DEF OrderedSeen, Spaces
<1>3. CASE w.env = Keep
  <2>1. envs = env
    BY <1>1, <1>3
  <2> HIDE DEF envs
  <2>2. Spaces(env) \in Nat
    BY <1>1, SpacesType
  <2> QED BY <1>2, <2>1, <2>2, OrderedIs
<1>4. CASE w.env # Keep
  <2>1. run[r].e \in DOMAIN s /\ s[run[r].e] \in EnvStatus
    BY <1>1, <1>4
  <2>2. v \in EnvStatus /\ (v \in Counted \/ v = s[run[r].e])
    BY <1>4, <2>1 DEF Written, EnvStatus, Live, Counted
  <2>3. /\ envs[o] = [s EXCEPT ![run[r].e] = v]
        /\ \A p \in Orders \ {o} : envs[p] = env[p]
    BY <1>1, <1>4
  <2> HIDE DEF v
  <2>4. [s EXCEPT ![run[r].e] = v] \in Seq(EnvStatus)
        /\ Space(o, s) <= Space(o, [s EXCEPT ![run[r].e] = v])
    BY <1>1, <2>1, <2>2, SpacePut
  <2>5. envs \in [Orders -> Seq(EnvStatus)]
    BY <1>1, <2>4
  <2> HIDE DEF envs, o
  <2>6. /\ Spaces(envs) = Spaces(env) - Space(o, env[o]) + Space(o, envs[o])
        /\ Spaces(envs) \in Nat /\ Spaces(env) \in Nat
        /\ Space(o, env[o]) \in Nat /\ Space(o, envs[o]) \in Nat
    <3>1. /\ env \in [Orders -> Seq(EnvStatus)] /\ envs \in [Orders -> Seq(EnvStatus)]
          /\ o \in Orders /\ \A p \in Orders \ {o} : envs[p] = env[p]
      BY <1>1, <2>3, <2>5
    <3> QED BY <3>1, SpacesChange, Zenon
  <2>7. Space(o, env[o]) <= Space(o, envs[o])
    BY <2>3, <2>4
  <2>8. Spaces(env) <= Spaces(envs)
    BY <2>6, <2>7
  <2> QED BY <1>2, <2>6, <2>8, OrderedIs
<1> QED BY <1>3, <1>4

\* What run r sees counts the changes of plan as well.
LEMMA SeesAll ==
    ASSUME Inv, NEW r \in Runs, run[r] \in RunState, NEW w,
           w.env \in {Keep, Touch, "provisioning"},
           w.env # Keep => run[r].e \in DOMAIN env[run[r].o]
    PROVE  OrderedSeen(r, w) <= CommittedSeen(r, w) /\ CommittedSeen(r, w) \in Nat
<1> DEFINE own(p) == p = run[r].o /\ w.env # Keep
           S(p) == IF own(p) THEN [env[p] EXCEPT ![run[r].e] = Written(@, w.env)] ELSE env[p]
           B(p) == IF own(p) THEN {i \in grown[p] \cup {run[r].e} : i = run[r].e => run[r].large}
                             ELSE grown[p]
           f == [p \in Orders |-> Space(p, S(p))]
           g == [p \in Orders |-> Taken(p, S(p), B(p))]
<1>1. \A p \in Orders : S(p) \in Seq(EnvStatus)
  <2> TAKE p \in Orders
  <2>1. env[p] \in Seq(EnvStatus)
    BY TypeParts DEF Inv
  <2>2. CASE own(p)
    <3>1. PICK i, v : i = run[r].e /\ v = Written(env[p][run[r].e], w.env)
      OBVIOUS
    <3>2. i \in DOMAIN env[p] /\ w.env \in {Touch, "provisioning"}
      BY <2>2, <3>1
    <3>3. env[p][i] \in EnvStatus
      BY <2>1, <3>2
    <3>4. v \in EnvStatus
      BY <3>1, <3>2, <3>3 DEF Written, EnvStatus, Live
    <3>5. [env[p] EXCEPT ![i] = v] \in Seq(EnvStatus)
      BY <2>1, <3>4, SeqPut
    <3> QED BY <2>2, <3>1, <3>5
  <2>3. CASE ~own(p)
    BY <2>1, <2>3
  <2> QED BY <2>2, <2>3
<1>2. OrderedSeen(r, w) = Total(f)
  BY DEF OrderedSeen
<1>3. CommittedSeen(r, w) = Total(g)
  BY DEF CommittedSeen
<1> HIDE DEF S, B
<1>4. f \in [Orders -> Nat] /\ g \in [Orders -> Nat] /\ \A p \in Orders : f[p] <= g[p]
  BY <1>1, SpaceType, TakenIsMore
<1> HIDE DEF f, g
<1>5. Total(f) <= Total(g) /\ Total(g) \in Nat
  BY <1>4, TotalMore, OrdersAssumption DEF OrdersAssumption
<1> QED BY <1>2, <1>3, <1>5

LEMMA OrderedType ==
    ASSUME TypeOK
    PROVE  Ordered \in Nat
BY SpacesType, OrderedIs DEF TypeOK

\* Run r steps to v.  The others are as they were, and what they build is there.
LEMMA PoolAdvance ==
    ASSUME Inv, Pooled, NEW r \in Runs, NEW v \in RunState \cup {Idle},
           run' = [run EXCEPT ![r] = v], TypeOK', \A p \in Orders : Len(env'[p]) >= Len(env[p]),
           v # Idle => MadeOK(v)', gaps' \cap PoolGaps = {} => HasRoom'
    PROVE  Pooled'
<1>1. run'[r] = v /\ (\A x \in Runs \ {r} : run'[x] = run[x])
  BY TypeParts, SetRun DEF Inv
<1>2. \A x \in Runs : (run[x] # Idle => MadeOK(run[x]))'
  <2> TAKE x \in Runs
  <2>1. CASE x = r
    <3>1. (run[x] # Idle)' => MadeOK(v)' /\ run'[x] = v
      BY <1>1, <2>1
    <3> QED BY <3>1 DEF MadeOK
  <2>2. CASE x # r /\ run[x] # Idle
    <3>1. run'[x] = run[x] /\ MadeOK(run[x]) /\ run[x].o \in Orders /\ run[x].e \in Nat
      BY <1>1, <2>2, TypeParts, BusyShape, Fields DEF Inv, Pooled
    <3>2. PICK p : p = run[x]
      OBVIOUS
    <3>3. env[p.o] \in Seq(EnvStatus) /\ env'[p.o] \in Seq(EnvStatus)
      BY <3>1, <3>2 DEF Inv, TypeOK
    <3>4. Len(env[p.o]) \in Nat /\ Len(env'[p.o]) \in Nat /\ Len(env'[p.o]) >= Len(env[p.o])
      BY <3>1, <3>2, <3>3, LenProperties
    <3>5. MadeOK(p)'
      BY <3>1, <3>2, <3>4 DEF MadeOK
    <3> QED BY <3>1, <3>2, <3>5 DEF MadeOK
  <2>3. CASE x # r /\ run[x] = Idle
    BY <1>1, <2>3
  <2> QED BY <2>1, <2>2, <2>3
<1> QED BY <1>2 DEF Pooled

\* No more is committed, and who has room had it.
LEMMA RoomStays ==
    ASSUME Inv, HasRoom, TypeOK', NEW r \in Runs, NEW v \in RunState \cup {Idle},
           run' = [run EXCEPT ![r] = v], Ordered' <= Ordered,
           Granted(v) => Granted(run[r]) /\ v.o = run[r].o
    PROVE  HasRoom'
<1>1. \A x \in Runs : Granted(run'[x]) => Granted(run[x]) /\ run'[x].o = run[x].o
  BY TypeParts, SetRun DEF Inv
<1>2. Ordered \in Nat /\ Ordered' \in Nat
  BY OrderedType, SpacesType, OrderedIs DEF Inv, TypeOK
<1>3. \A x \in Runs : Granted(run[x]) => Size[run[x].o] \in Nat
  BY TypeParts, BusyShape, Fields DEF Inv, Granted
<1>4. \A x \in Runs : Granted(run'[x]) => Ordered' + Size[run'[x].o] <= Pool
  <2> SUFFICES ASSUME NEW x \in Runs, Granted(run'[x])
               PROVE  Ordered' + Size[run'[x].o] <= Pool
    OBVIOUS
  <2>1. Granted(run[x]) /\ run'[x].o = run[x].o
    BY <1>1
  <2>2. Ordered + Size[run[x].o] <= Pool /\ Size[run[x].o] \in Nat
    BY <1>3, <2>1 DEF HasRoom
  <2> QED BY <1>2, <2>1, <2>2
<1>5. Ordered' <= Pool
  BY <1>2 DEF HasRoom
<1>6. \A x, y \in Runs : Granted(run'[x]) /\ Granted(run'[y]) => x = y
  BY <1>1 DEF HasRoom
<1> QED BY <1>4, <1>5, <1>6 DEF HasRoom, Granted

\* A step of one run that changes no environment and opens no gap.
LEMMA PoolStay ==
    ASSUME Inv, Pooled, TypeOK', NEW r \in Runs, NEW v \in RunState \cup {Idle},
           run' = [run EXCEPT ![r] = v], env' = env, gaps \subseteq gaps',
           v # Idle => MadeOK(v), Granted(v) => Granted(run[r]) /\ v.o = run[r].o
    PROVE  Pooled'
<1>1. v # Idle => MadeOK(v)'
  BY DEF MadeOK
<1>2. \A p \in Orders : Len(env'[p]) >= Len(env[p])
  BY LenProperties DEF Inv, TypeOK
<1>3. Ordered' <= Ordered
  BY OrderedType, OrderedIs DEF Inv
<1>4. gaps' \cap PoolGaps = {} => HasRoom'
  BY <1>3, RoomStays DEF Pooled
<1> QED BY <1>1, <1>2, <1>4, PoolAdvance

LEMMA PoolEnd ==
    ASSUME Inv, Pooled, Inv', NEW r \in Runs, End(r), env' = env, gaps \subseteq gaps'
    PROVE  Pooled'
<1>1. run' = [run EXCEPT ![r] = Idle] /\ ~Granted(Idle)
  BY DEF End, Granted
<1> QED BY <1>1, PoolStay DEF Inv

\* A run at the start of its work may write nothing yet.
LEMMA PoolFresh ==
    ASSUME Inv, Pooled, Inv', NEW r \in Runs, env' = env, gaps' = gaps, NEW v,
           run' = [run EXCEPT ![r] = v], v.at \in {"begun", "opened"}, ~v.made
    PROVE  Pooled'
<1>1. run'[r] = v /\ v # Idle
  <2>1. v # Idle
    BY DEF Idle
  <2>2. run'[r] = v
    BY TypeParts DEF Inv, AnyRun
  <2> QED BY <2>1, <2>2
<1>2. v \in RunState /\ RunOK(v)'
  <2>1. run'[r] \in RunState \cup {Idle}
    BY DEF Inv, TypeOK
  <2>2. (run[r] # Idle => RunOK(run[r]))'
    BY DEF Inv
  <2> QED BY <1>1, <2>1, <2>2 DEF RunOK
<1>3. v.w.env = Keep
  BY <1>2 DEF RunOK
<1>4. MadeOK(v) /\ ~Granted(v)
  BY <1>3 DEF MadeOK, Granted
<1> QED BY <1>2, <1>4, PoolStay DEF Inv

LEMMA PoolFind ==
    ASSUME Inv, Pooled, Inv', NEW r \in Runs, Find(r)
    PROVE  Pooled'
<1> DEFINE q == run[r]
<1>1. AnyRun /\ TypeOK
  BY TypeParts DEF Inv
<1>2. q.at = "opened" /\ q \in RunState /\ Rest(r)
  BY <1>1, FindStep
<1>3. PICK v \in RunState : run' = [run EXCEPT ![r] = v] /\ FindResult(q, v)
  BY <1>1, FindStep
<1>4. RunOK(q) /\ MadeOK(q) /\ q # Idle
  BY <1>2, BusyRun DEF Pooled
<1>5. ~q.made /\ q.w.env = Keep
  BY <1>2, <1>4 DEF MadeOK, RunOK
<1>6. ~v.made /\ v.w.env = Keep /\ v.at \in {"failing", "done", "found"}
  BY <1>3, <1>5 DEF FindResult, Stepped, Found, Wrote
<1>7. MadeOK(v) /\ ~Granted(v)
  BY <1>6 DEF MadeOK, Granted
<1>8. env' = env /\ gaps' = gaps
  BY <1>2 DEF Rest, rows
<1> HIDE DEF q
<1> QED BY <1>3, <1>7, <1>8, PoolStay DEF Inv

\* Whoever gets through the gate alone has room for its plan.
LEMMA PoolGate ==
    ASSUME Inv, Pooled, Inv', NEW r \in Runs, Gate(r)
    PROVE  Pooled'
<1> PICK q : q = run[r]
  OBVIOUS
<1>1. q.at = "found" /\ UNCHANGED <<rows, queue, faults>> /\ gaps \subseteq gaps'
  BY GateStep
<1>2. q \in RunState /\ RunOK(q) /\ MadeOK(q) /\ q # Idle /\ q.o \in Orders
  BY <1>1, BusyRun, Fields DEF Pooled
<1>3. ~q.made /\ q.w.env = Keep /\ (q.e # 0 => q.e \in 1 .. Len(env[q.o]))
  <2>1. env[q.o] \in Seq(EnvStatus) /\ q.e \in Nat
    BY <1>2, Fields, TypeParts DEF Inv
  <2>2. ~q.made /\ q.w.env = Keep
    BY <1>1, <1>2 DEF MadeOK, RunOK
  <2>3. q.e <= Len(env[q.o])
    BY <1>1, <1>2 DEF RunOK
  <2> QED BY <2>1, <2>2, <2>3, LenProperties
<1>4. PICK en : en = IF q.e = 0 THEN Keep ELSE IF q.was = "provisioning" THEN Touch ELSE "provisioning"
  OBVIOUS
<1>5. PICK x : x = [q.w EXCEPT !.env = en]
  OBVIOUS
<1>6. x.env = en /\ en \in {Keep, Touch, "provisioning"} /\ (en = Keep <=> q.e = 0)
  <2>1. x = Wrote(q.w.pay, q.w.order, q.w.sub, q.w.job, en)
    <3>1. q.w \in Writes
      BY <1>2, Fields
    <3> QED BY <1>5, <3>1, OneWrite, Zenon
  <2>2. en \in {Keep, Touch, "provisioning"} /\ (en = Keep <=> q.e = 0)
    BY <1>4 DEF Keep, Touch
  <2> QED BY <2>1, <2>2 DEF Wrote
<1>7. PICK stage \in {"gated", "failing"} : /\ stage = IF Fits(r, x) THEN "gated" ELSE "failing"
                                            /\ Go(r, stage, x)
  BY <1>4, <1>5 DEF Gate
<1>8. Fits(r, x) /\ gaps' \cap PoolGaps = {} => \A y \in Runs \ {r} : ~Holding(y)
  BY <1>4, <1>5 DEF Gate, PoolGaps
<1>9. PICK v : v = Stepped(q, stage, q.saw, x)
  OBVIOUS
<1>10. run' = [run EXCEPT ![r] = v]
  BY <1>2, <1>7, <1>9, GoStep, TypeParts DEF Inv
<1>11. ~v.made /\ v.w.env = en /\ v.at = stage /\ v.e = q.e /\ v.o = q.o
  BY <1>3, <1>6, <1>9 DEF Stepped
<1>12. v \in RunState /\ v # Idle
  <2>1. run'[r] \in RunState \cup {Idle}
    BY DEF Inv, TypeOK
  <2>2. run'[r] = v
    BY <1>10, TypeParts DEF Inv, AnyRun
  <2>3. v # Idle
    BY <1>7, <1>11 DEF Idle
  <2> QED BY <2>1, <2>2, <2>3
<1>13. MadeOK(v) /\ env' = env
  BY <1>1, <1>3, <1>6, <1>7, <1>11 DEF MadeOK, rows
<1>14. CASE stage = "failing"
  <2>1. ~Granted(v)
    BY <1>11, <1>14 DEF Granted
  <2> QED BY <1>1, <1>10, <1>12, <1>13, <2>1, PoolStay DEF Inv
<1>15. CASE stage = "gated"
  <2>1. Fits(r, x)
    BY <1>7, <1>15
  <2>2. ASSUME gaps' \cap PoolGaps = {}
        PROVE  HasRoom'
    <3>1. \A y \in Runs : Granted(run'[y]) => y = r
      <4>1. \A y \in Runs \ {r} : run'[y] = run[y]
        BY <1>10, TypeParts DEF Inv, AnyRun
      <4>2. \A y \in Runs \ {r} : ~Granted(run[y])
        BY <1>8, <2>1, <2>2 DEF Holding, Granted
      <4> QED BY <4>1, <4>2
    <3>2. /\ Ordered <= OrderedSeen(r, x)
          /\ Ordered \in Nat /\ OrderedSeen(r, x) \in Nat
      <4>1. x.env # Keep => run[r].e \in DOMAIN env[run[r].o]
        <5>1. env[q.o] \in Seq(EnvStatus)
          BY <1>2, TypeParts DEF Inv
        <5> QED BY <1>3, <1>6, <5>1
      <4>2. run[r] \in RunState
        BY <1>2
      <4> QED BY <1>6, <4>1, <4>2, SeenIsMore
    <3>3. OrderedSeen(r, x) + Size[q.o] <= Pool /\ Size[q.o] \in Nat
      <4>1. CommittedSeen(r, x) + Size[q.o] <= Pool /\ Size[q.o] \in Nat
        BY <1>2, <2>1 DEF Fits
      <4>2. x.env # Keep => run[r].e \in DOMAIN env[run[r].o]
        <5>1. env[q.o] \in Seq(EnvStatus)
          BY <1>2, TypeParts DEF Inv
        <5> QED BY <1>3, <1>6, <5>1
      <4>3. run[r] \in RunState
        BY <1>2
      <4>4. OrderedSeen(r, x) <= CommittedSeen(r, x) /\ CommittedSeen(r, x) \in Nat
        BY <1>6, <4>2, <4>3, SeesAll
      <4> QED BY <3>2, <4>1, <4>4
    <3>4. Ordered + Size[q.o] <= Pool /\ Ordered <= Pool
      BY <3>2, <3>3
    <3>5. Ordered' = Ordered
      BY <1>13, OrderedIs
    <3>6. run'[r].o = q.o
      BY <1>10, <1>11, TypeParts DEF Inv, AnyRun
    <3>7. \A y \in Runs : Granted(run'[y]) => Ordered' + Size[run'[y].o] <= Pool
      BY <3>1, <3>4, <3>5, <3>6
    <3> QED BY <3>1, <3>4, <3>5, <3>7 DEF HasRoom, Granted
  <2>3. MadeOK(v)' /\ \A p \in Orders : Len(env'[p]) >= Len(env[p])
    BY <1>13, LenProperties DEF MadeOK, Inv, TypeOK
  <2> QED BY <1>10, <1>12, <2>2, <2>3, PoolAdvance DEF Inv
<1> QED BY <1>7, <1>14, <1>15

LEMMA PoolBuild ==
    ASSUME Inv, Pooled, Inv', NEW r \in Runs, Build(r)
    PROVE  Pooled'
<1>1. CASE RollBack(r)
  BY <1>1, PoolEnd DEF RollBack
<1>2. CASE ~RollBack(r)
  <2> DEFINE q == run[r]
  <2>1. Rest(r)
    BY <1>2, BuildStep
  <2>2. PICK v \in RunState, en \in EnvStatus \cup {Keep, Touch} :
           /\ run' = [run EXCEPT ![r] = v]
           /\ v = Built(q, IF q.e = 0 THEN q.n + 1 ELSE q.e, TRUE,
                        Wrote(q.w.pay, q.w.order, q.w.sub, q.w.job, en))
           /\ en = IF q.e = 0 THEN "provisioning" ELSE q.w.env
    BY <1>2, BuildStep
  <2>3. q.at = "gated" /\ q # Idle
    BY BusyRun DEF Build, At
  <2>4. v.o = q.o /\ v.at = "built" /\ v.made
    BY <2>2 DEF Built
  <2>5. MadeOK(v) /\ (Granted(v) => Granted(q))
    BY <2>3, <2>4 DEF MadeOK, Granted
  <2>6. env' = env /\ gaps' = gaps
    BY <2>1 DEF Rest, rows
  <2>7. Granted(v) => Granted(run[r]) /\ v.o = run[r].o
    BY <2>4, <2>5
  <2> HIDE DEF q
  <2> QED BY <2>2, <2>5, <2>6, <2>7, PoolStay DEF Inv
<1> QED BY <1>1, <1>2

LEMMA PoolOutcome ==
    ASSUME Inv, Pooled, Inv', NEW r \in Runs, Complete(r) \/ HostFails(r)
    PROVE  Pooled'
<1> PICK q : q = run[r]
  OBVIOUS
<1>1. env' = env /\ gaps' = gaps
  BY DEF Complete, HostFails, Rest, rows
<1>2. q.at # "idle"
  BY DEF Complete, HostFails, At
<1>3. q \in RunState /\ q # Idle /\ RunOK(q) /\ MadeOK(q) /\ AnyRun
  BY <1>2, BusyRun, TypeParts DEF Pooled, Inv
<1>4. ASSUME NEW stage \in {"done", "failing"}, NEW w \in Writes, Go(r, stage, w),
             LET v == Stepped(q, stage, q.saw, w) IN MadeOK(v) /\ (Granted(v) => Granted(q))
      PROVE  Pooled'
  <2>1. PICK v : v = Stepped(q, stage, q.saw, w)
    OBVIOUS
  <2>2. v \in RunState /\ run' = [run EXCEPT ![r] = v]
    <3>1. v \in RunState
      BY <1>3, <2>1, NewRuns, Fields DEF Stage
    <3>2. run' = [run EXCEPT ![r] = v]
      BY <1>3, <1>4, <2>1, GoStep
    <3> QED BY <3>1, <3>2
  <2>3. v.o = q.o /\ MadeOK(v) /\ (Granted(v) => Granted(q))
    BY <1>4, <2>1 DEF Stepped
  <2> QED BY <1>1, <2>2, <2>3, PoolStay DEF Inv
<1>5. CASE Complete(r)
  <2>1. q.at = "built"
    BY <1>5, CompleteStep
  <2>2. PICK ord \in {Keep, "active"} :
           LET w == Wrote(q.w.pay, ord, q.w.sub, "success", "active")
           IN  Go(r, "done", w) /\ w \in Writes
    BY <1>5, CompleteStep
  <2>3. PICK w : w = Wrote(q.w.pay, ord, q.w.sub, "success", "active")
    OBVIOUS
  <2>4. Go(r, "done", w) /\ w \in Writes
    BY <2>2, <2>3
  <2>5. q.made /\ q.w.env # Keep
    BY <1>3, <2>1 DEF MadeOK, RunOK
  <2>6. PICK v : v = Stepped(q, "done", q.saw, w)
    OBVIOUS
  <2>7. v.made /\ v.at = "done"
    BY <2>5, <2>6 DEF Stepped
  <2>8. MadeOK(v) /\ Granted(q)
    BY <1>3, <2>5, <2>7 DEF MadeOK, Granted
  <2> QED BY <1>4, <2>4, <2>6, <2>8
<1>6. CASE HostFails(r)
  <2>1. Go(r, "failing", q.w) /\ (q.at \in {"opened", "gated", "built"} \/ (q.at = "done" /\ q.made))
    <3>1. Go(r, "failing", run[r].w)
          /\ (run[r].at \in {"opened", "gated", "built"} \/ (run[r].at = "done" /\ run[r].made))
      BY <1>6 DEF HostFails, At
    <3> QED BY <3>1
  <2>2. q.w \in Writes
    BY <1>3, Fields
  <2>3. PICK v : v = Stepped(q, "failing", q.saw, q.w)
    OBVIOUS
  <2>4. v.made = q.made /\ v.at = "failing" /\ v.w = q.w /\ v.e = q.e /\ v.o = q.o
    BY <2>3 DEF Stepped
  <2>5. MadeOK(v) /\ (Granted(v) => Granted(q))
    BY <1>3, <2>1, <2>4 DEF MadeOK, Granted
  <2> QED BY <1>4, <2>1, <2>2, <2>3, <2>5
<1> QED BY <1>5, <1>6

LEMMA PoolOpen ==
    ASSUME Inv, Pooled, Inv', NEW r \in Runs, OpenInline(r) \/ OpenVerified(r)
    PROVE  Pooled'
<1>1. run[r].at = "begun" /\ env' = env /\ gaps' = gaps
  BY DEF OpenInline, OpenVerified, At, Rest, RollBack, rows
<1>2. run[r] \in RunState /\ MadeOK(run[r])
  BY <1>1, BusyRun DEF Pooled
<1>3. CASE End(r)
  BY <1>1, <1>3, PoolEnd
<1>4. CASE Opened(r)
  <2> DEFINE w == Wrote(run[r].w.pay, run[r].w.order, ~run[r].adopts, "running", run[r].w.env)
  <2>1. Go(r, "opened", w)
    BY <1>2, <1>4, OpenedStep
  <2> HIDE DEF w
  <2>2. PICK v : v = Stepped(run[r], "opened", run[r].saw, w)
    OBVIOUS
  <2>3. run' = [run EXCEPT ![r] = v]
    BY <1>2, <2>1, <2>2, GoStep, TypeParts DEF Inv
  <2>4. v.at = "opened" /\ ~v.made
    BY <1>1, <1>2, <2>2 DEF Stepped, MadeOK
  <2> QED BY <1>1, <2>3, <2>4, PoolFresh
<1> QED BY <1>3, <1>4 DEF OpenInline, OpenVerified, RollBack

LEMMA PoolStart ==
    ASSUME Inv, Pooled, Inv', NEW r \in Runs,
           (\E o \in Orders : Request(r, o)) \/ \E m \in queue : Take(r, m)
    PROVE  Pooled'
<1>1. env' = env /\ gaps' = gaps
  BY DEF Request, Verify, Activate, RetryProvision, RetryOf, Begin, Take, rows
<1>2. ASSUME NEW by, NEW o, NEW j, NEW w, Begin(r, by, o, j, w)
      PROVE  \E v : run' = [run EXCEPT ![r] = v] /\ v.at = "begun" /\ ~v.made
  <2> DEFINE v == [at |-> "begun", by |-> by, o |-> o, j |-> j, attempt |-> 0, ghost |-> FALSE,
                   adopts |-> by = "retry" /\ sub[o] # 0, saw |-> order[o].status,
                   e |-> 0, was |-> Keep, large |-> FALSE, n |-> 0, made |-> FALSE, w |-> w]
  <2>1. run' = [run EXCEPT ![r] = v]
    BY <1>2, Zenon DEF Begin
  <2>2. v.at = "begun" /\ v.made = FALSE
    OBVIOUS
  <2> HIDE DEF v
  <2> QED BY <2>1, <2>2
<1>3. ASSUME NEW m \in queue, Take(r, m)
      PROVE  \E v : run' = [run EXCEPT ![r] = v] /\ v.at = "begun" /\ ~v.made
  <2> DEFINE v == [at |-> "begun", by |-> "worker", o |-> m.o, j |-> m.j, attempt |-> m.attempt,
                   ghost |-> job[m.o][m.j] = "absent", adopts |-> TRUE, saw |-> "pending",
                   e |-> 0, was |-> Keep, large |-> FALSE, n |-> 0, made |-> FALSE, w |-> Clean]
  <2>1. run' = [run EXCEPT ![r] = v]
    BY <1>3, Zenon DEF Take
  <2>2. v.at = "begun" /\ v.made = FALSE
    OBVIOUS
  <2> HIDE DEF v
  <2> QED BY <2>1, <2>2
<1>4. ASSUME NEW o \in Orders, Request(r, o)
      PROVE  \E by, j, w : Begin(r, by, o, j, w)
  BY <1>4, Zenon DEF Request, Verify, Activate, RetryProvision, RetryOf
<1>5. PICK v : run' = [run EXCEPT ![r] = v] /\ v.at = "begun" /\ ~v.made
  BY <1>2, <1>3, <1>4
<1> QED BY <1>1, <1>5, PoolFresh

(***************************************************************************)
(* The writes of a run reach the environments: a plan more, when the run   *)
(* had room for it, and otherwise nothing that was not counted before.     *)
(***************************************************************************)
LEMMA PoolApply ==
    ASSUME Inv, Pooled, Inv', NEW r \in Runs, run[r] \in RunState, RunOK(run[r]), NEW w, Apply(r, w),
           w.env \in EnvStatus \cup {Keep, Touch},
           w.env # Keep => run[r].w.env # Keep /\ (w.env = Touch => run[r].w.env = Touch),
           NEW v \in RunState \cup {Idle}, run' = [run EXCEPT ![r] = v],
           v # Idle => v.w.env = Keep /\ v.at = "done", gaps \subseteq gaps',
           gaps' \cap PoolGaps = {} => \/ Granted(run[r])
                         \/ w.env = Keep
                         \/ /\ run[r].e <= Len(env[run[r].o])
                            /\ w.env \notin Counted \/ env[run[r].o][run[r].e] \in Counted
    PROVE  Pooled'
<1> PICK q, o : q = run[r] /\ o = q.o
  OBVIOUS
<1>1. q \in RunState /\ o \in Orders /\ q.e \in Nat /\ Size[o] \in Nat
  BY Fields
<1>2. env \in [Orders -> Seq(EnvStatus)] /\ env' \in [Orders -> Seq(EnvStatus)]
      /\ env[o] \in Seq(EnvStatus) /\ TypeOK /\ TypeOK'
  BY <1>1 DEF Inv, TypeOK
<1>3. /\ w.env # Keep /\ q.e <= Len(env[o]) =>
            q.e \in DOMAIN env[o] /\ env'[o] = [env[o] EXCEPT ![q.e] = Written(env[o][q.e], w.env)]
      /\ w.env # Keep /\ ~(q.e <= Len(env[o])) =>
            w.env \in EnvStatus /\ env'[o] = Append(env[o], w.env)
      /\ w.env = Keep => env' = env
      /\ \A p \in Orders \ {o} : env'[p] = env[p]
      /\ \A p \in Orders : Len(env'[p]) >= Len(env[p])
  BY AppliedEnv
<1>4. ~Granted(v) /\ (v # Idle => MadeOK(v)')
  BY DEF Granted, MadeOK
<1>5. /\ Ordered' = Ordered - Space(o, env[o]) + Space(o, env'[o])
      /\ Ordered \in Nat /\ Ordered' \in Nat
      /\ Space(o, env[o]) \in Nat /\ Space(o, env'[o]) \in Nat
  <2>1. /\ Spaces(env') = Spaces(env) - Space(o, env[o]) + Space(o, env'[o])
        /\ Spaces(env) \in Nat /\ Spaces(env') \in Nat
        /\ Space(o, env[o]) \in Nat /\ Space(o, env'[o]) \in Nat
    <3>1. PICK news : news = env'
      OBVIOUS
    <3>2. /\ news \in [Orders -> Seq(EnvStatus)] /\ \A p \in Orders \ {o} : news[p] = env[p]
      BY <1>2, <1>3, <3>1
    <3>3. /\ Spaces(news) = Spaces(env) - Space(o, env[o]) + Space(o, news[o])
          /\ Spaces(env) \in Nat /\ Spaces(news) \in Nat
          /\ Space(o, env[o]) \in Nat /\ Space(o, news[o]) \in Nat
      BY <1>1, <1>2, <3>2, SpacesChange, Zenon
    <3> QED BY <3>1, <3>3
  <2> QED BY <2>1, OrderedIs
<1>6. /\ Space(o, env'[o]) <= Space(o, env[o]) + Size[o]
      /\ w.env = Keep \/ (q.e <= Len(env[o]) /\ (w.env \notin Counted \/ env[o][q.e] \in Counted)) =>
            Space(o, env'[o]) <= Space(o, env[o])
  <2>1. CASE w.env = Keep
    <3>1. env'[o] = env[o]
      BY <1>3, <2>1
    <3> QED BY <1>1, <1>5, <3>1
  <2>2. CASE w.env # Keep /\ q.e <= Len(env[o])
    <3>1. PICK i, n : i = q.e /\ n = Written(env[o][q.e], w.env)
      OBVIOUS
    <3>2. i \in DOMAIN env[o] /\ env'[o] = [env[o] EXCEPT ![i] = n]
      BY <1>3, <2>2, <3>1
    <3>3. env[o][i] \in EnvStatus
      BY <1>2, <3>2
    <3>4. n \in EnvStatus /\ (w.env \notin Counted => n \notin Counted \/ n = env[o][i])
      BY <2>2, <3>1, <3>3 DEF Written
    <3>5. /\ Space(o, [env[o] EXCEPT ![i] = n]) <= Space(o, env[o]) + Size[o]
          /\ n \notin Counted \/ env[o][i] \in Counted =>
                Space(o, [env[o] EXCEPT ![i] = n]) <= Space(o, env[o])
      BY <1>1, <1>2, <3>2, <3>4, SpacePut
    <3> QED BY <2>2, <3>1, <3>2, <3>4, <3>5
  <2>3. CASE w.env # Keep /\ ~(q.e <= Len(env[o]))
    <3>1. w.env \in EnvStatus /\ env'[o] = Append(env[o], w.env)
      BY <1>3, <2>3
    <3>2. Space(o, Append(env[o], w.env)) <= Space(o, env[o]) + Size[o]
      BY <1>1, <1>2, <3>1, SpaceAppend
    <3> QED BY <2>3, <3>1, <3>2
  <2> QED BY <2>1, <2>2, <2>3
<1>7. ASSUME gaps' \cap PoolGaps = {}
      PROVE  HasRoom'
  <2>1. gaps \cap PoolGaps = {} /\ HasRoom
    BY <1>7 DEF Pooled
  <2>2. CASE Granted(q)
    <3>1. \A x \in Runs : ~Granted(run'[x])
      <4>1. run'[r] = v /\ \A x \in Runs \ {r} : run'[x] = run[x]
        BY TypeParts DEF Inv, AnyRun
      <4>2. \A x \in Runs \ {r} : ~Granted(run[x])
        BY <2>1, <2>2 DEF HasRoom
      <4> QED BY <1>4, <4>1, <4>2
    <3>2. Ordered + Size[o] <= Pool
      BY <2>1, <2>2 DEF HasRoom
    <3>3. Ordered' <= Pool
      BY <1>1, <1>5, <1>6, <3>2
    <3> QED BY <3>1, <3>3 DEF HasRoom, Granted
  <2>3. CASE ~Granted(q)
    <3>1. Space(o, env'[o]) <= Space(o, env[o])
      BY <1>6, <1>7, <2>3
    <3>2. Ordered' <= Ordered
      BY <1>5, <3>1
    <3> QED BY <1>2, <1>4, <2>1, <3>2, RoomStays
  <2> QED BY <2>2, <2>3
<1> QED BY <1>2, <1>3, <1>4, <1>7, PoolAdvance

LEMMA PoolCommit ==
    ASSUME Inv, Pooled, Inv', NEW r \in Runs, Commit(r) \/ SyncCommit(r)
    PROVE  Pooled'
<1> PICK q, w : q = run[r] /\ w = q.w
  OBVIOUS
<1>1. run[r].at = "done" /\ Apply(r, run[r].w) /\ gaps' = gaps
  BY DEF Commit, SyncCommit, At
<1>2. q \in RunState /\ q # Idle /\ RunOK(q) /\ MadeOK(q) /\ w.env \in EnvStatus \cup {Keep, Touch}
  BY <1>1, BusyRun, Fields DEF Pooled
<1>3. Granted(q) \/ w.env = Keep
  BY <1>1, <1>2 DEF Granted, MadeOK
<1>4. AnyRun
  BY TypeParts DEF Inv
<1>5. PICK v : run' = [run EXCEPT ![r] = v] /\ (v # Idle => v.w.env = Keep /\ v.at = "done")
  <2>1. CASE Commit(r)
    BY <2>1 DEF Commit, End
  <2>2. CASE SyncCommit(r)
    <3>1. run' = [run EXCEPT ![r] = [run[r] EXCEPT !.w = Clean]]
      BY <2>2, Zenon DEF SyncCommit
    <3>2. PICK v : v = [run[r] EXCEPT !.w = Clean]
      OBVIOUS
    <3>3. v.w = Clean /\ v.at = "done"
      BY <1>1, <1>2, <3>2 DEF RunState
    <3>4. v.w.env = Keep
      BY <3>3 DEF Clean
    <3> QED BY <3>1, <3>2, <3>3, <3>4
  <2> QED BY <2>1, <2>2
<1>6. v \in RunState \cup {Idle}
  <2>1. run'[r] \in RunState \cup {Idle}
    BY DEF Inv, TypeOK
  <2> QED BY <1>4, <1>5, <2>1 DEF AnyRun
<1>7. Apply(r, w) /\ run[r] \in RunState /\ RunOK(run[r]) /\ run[r].w.env = w.env
      /\ (Granted(run[r]) \/ w.env = Keep)
  BY <1>1, <1>2, <1>3
<1> QED BY <1>1, <1>2, <1>5, <1>6, <1>7, PoolApply

LEMMA PoolFail ==
    ASSUME Inv, Pooled, Inv', NEW r \in Runs, Fail(r)
    PROVE  Pooled'
<1>1. CASE RollBack(r)
  BY <1>1, PoolEnd DEF RollBack
<1>2. CASE ~RollBack(r)
  <2>1. run[r].at = "failing" /\ run[r].by = "worker" /\ End(r) /\ gaps \subseteq gaps'
    BY <1>2, FailStep
  <2>2. PICK ord \in OrderStatus \cup {Keep}, en \in EnvStatus \cup {Keep, Touch} :
           /\ Apply(r, Wrote(run[r].w.pay, ord, run[r].w.sub, "failed", en))
           /\ en = run[r].w.env \/ (run[r].w.env \in {"provisioning", Touch} /\ en = "provisioning_failed")
    BY <1>2, FailStep
  <2>3. PICK w : w = Wrote(run[r].w.pay, ord, run[r].w.sub, "failed", en)
    OBVIOUS
  <2>4. Apply(r, w) /\ w.env = en
    BY <2>2, <2>3 DEF Wrote
  <2> PICK q : q = run[r]
    OBVIOUS
  <2>5. q \in RunState /\ RunOK(q) /\ q # Idle /\ MadeOK(q) /\ q.o \in Orders
    BY <2>1, BusyRun, Fields DEF Pooled
  <2>6. /\ w.env \in EnvStatus \cup {Keep, Touch}
        /\ w.env # Keep => q.w.env # Keep /\ (w.env = Touch => q.w.env = Touch)
    BY <2>2, <2>4 DEF Keep, Touch
  <2>7. gaps' \cap PoolGaps = {} => ~Leaves(q)
    BY <2>1 DEF Fail, Gap, PoolGaps
  <2>8. ASSUME gaps' \cap PoolGaps = {}, ~Granted(q), w.env # Keep
        PROVE  /\ q.e <= Len(env[q.o])
               /\ w.env \notin Counted \/ env[q.o][q.e] \in Counted
    <3>1. ~q.made /\ q.w.env \in {Touch, "provisioning"} /\ q.e \in 1 .. Len(env[q.o])
      BY <2>5, <2>6, <2>8 DEF Granted, MadeOK
    <3>2. Len(env[q.o]) \in Nat
      BY <2>5, TypeParts, LenProperties DEF Inv
    <3>3. CASE w.env = "provisioning"
      <4>1. q.w.env = "provisioning"
        BY <2>2, <2>4, <3>3
      <4> QED BY <2>7, <2>8, <3>1, <3>2, <4>1 DEF Leaves
    <3>4. CASE w.env # "provisioning"
      <4>1. w.env \in {Touch, "provisioning_failed"}
        BY <2>2, <2>4, <3>1, <3>4
      <4>2. w.env \notin Counted
        BY <4>1 DEF Counted, Touch
      <4> QED BY <3>1, <3>2, <4>2
    <3> QED BY <3>3, <3>4
  <2>9. run' = [run EXCEPT ![r] = Idle]
    BY <2>1 DEF End
  <2> QED BY <2>1, <2>4, <2>5, <2>6, <2>8, <2>9, PoolApply
<1> QED BY <1>1, <1>2

LEMMA PoolOpenTask ==
    ASSUME Inv, Pooled, Inv', NEW r \in Runs, OpenTask(r)
    PROVE  Pooled'
<1> DEFINE x == [Clean EXCEPT !.job = "running"]
<1>1. run[r].at = "begun"
  BY DEF OpenTask, OpenTaskIf, At
<1>2. run[r] \in RunState /\ MadeOK(run[r])
  BY <1>1, BusyRun DEF Pooled
<1>3. ASSUME Rest(r), run' = [run EXCEPT ![r].at = "opened", ![r].w = x, ![r].saw = order[run[r].o].status]
      PROVE  Pooled'
  <2> DEFINE saw == order[run[r].o].status
             q == run[r]
  <2>1. run' = [run EXCEPT ![r] = [q EXCEPT !.at = "opened", !.w = x, !.saw = saw]]
    BY <1>3, Zenon
  <2>2. q \in RunState
    BY <1>2
  <2> HIDE DEF saw, x, q
  <2>3. \A st, u : [q EXCEPT !.at = st, !.w = u, !.saw = saw] = Stepped(q, st, saw, u)
    BY <2>2, OpenedRecord, Zenon
  <2>4. PICK v : v = Stepped(q, "opened", saw, x)
    OBVIOUS
  <2>5. run' = [run EXCEPT ![r] = v]
    BY <2>1, <2>3, <2>4, Zenon
  <2>6. v.at = "opened" /\ ~v.made
    <3>1. v.at = "opened" /\ v.made = q.made
      BY <2>4 DEF Stepped
    <3> QED BY <1>1, <1>2, <3>1 DEF MadeOK, q
  <2>7. env' = env /\ gaps' = gaps
    BY <1>3 DEF Rest, rows
  <2> QED BY <2>5, <2>6, <2>7, PoolFresh
<1>4. ASSUME Apply(r, x), End(r), UNCHANGED gaps
      PROVE  Pooled'
  <2>1. x.env = Keep
    BY DEF Clean
  <2>2. env' = env
    <3> HIDE DEF x
    <3> QED BY <1>4, <2>1 DEF Apply
  <2> QED BY <1>4, <2>2, PoolEnd
<1>5. UNCHANGED <<gaps, faults>> => UNCHANGED gaps
  OBVIOUS
<1> QED BY <1>3, <1>4, <1>5, Zenon DEF OpenTask, OpenTaskIf

LEMMA PoolLifecycle ==
    ASSUME Inv, Pooled, Inv', NEW o \in Orders, NEW i \in DOMAIN env[o], Lifecycle(o, i)
    PROVE  Pooled'
<1>1. PICK to \in EnvStatus :
         /\ run' = run /\ env' = [env EXCEPT ![o][i] = to] /\ gaps \subseteq gaps'
         /\ gaps' \cap PoolGaps = {} => to \notin Counted \/ env[o][i] \in Counted
  <2>1. CASE Suspend(o, i)
    <3>1. run' = run /\ env' = [env EXCEPT ![o][i] = "suspended"] /\ gaps \subseteq gaps'
          /\ (gaps' \cap PoolGaps = {} => env[o][i] \in Counted)
      BY <2>1 DEF Suspend, SetEnv, Gap, PoolGaps
    <3> QED BY <3>1 DEF EnvStatus, Live
  <2>2. CASE Restore(o, i)
    <3>1. run' = run /\ env' = [env EXCEPT ![o][i] = "active"] /\ gaps \subseteq gaps'
          /\ (gaps' \cap PoolGaps = {} => env[o][i] \in Counted)
      BY <2>2 DEF Restore, SetEnv, Gap, PoolGaps
    <3> QED BY <3>1 DEF EnvStatus, Live
  <2>3. CASE Terminate(o, i)
    <3>1. run' = run /\ env' = [env EXCEPT ![o][i] = "terminated"] /\ gaps \subseteq gaps'
      BY <2>3 DEF Terminate, SetEnv
    <3>2. "terminated" \in EnvStatus /\ "terminated" \notin Counted
      BY DEF EnvStatus, Counted
    <3> QED BY <3>1, <3>2
  <2> QED BY <2>1, <2>2, <2>3 DEF Lifecycle
<1>2. env \in [Orders -> Seq(EnvStatus)] /\ env[o] \in Seq(EnvStatus) /\ AnyRun
      /\ env' \in [Orders -> Seq(EnvStatus)]
  BY TypeParts DEF Inv, TypeOK
<1>3. env'[o] = [env[o] EXCEPT ![i] = to] /\ \A p \in Orders \ {o} : env'[p] = env[p]
  BY <1>1, <1>2
<1>4. PICK s, t : s = env[o] /\ t = [env[o] EXCEPT ![i] = to]
  OBVIOUS
<1>5. \A p \in Orders : Len(env'[p]) = Len(env[p])
  <2>1. Len([env[o] EXCEPT ![i] = to]) = Len(env[o])
    BY <1>2, SeqPut
  <2> QED BY <1>3, <2>1
<1>6. \A r \in Runs : (run[r] # Idle => MadeOK(run[r]))'
  <2> TAKE r \in Runs
  <2>1. CASE run[r] # Idle
    <3>1. MadeOK(run[r]) /\ run[r].o \in Orders
      BY <1>2, <2>1, BusyShape, Fields DEF Pooled
    <3>2. PICK p : p = run[r]
      OBVIOUS
    <3>3. MadeOK(p)'
      BY <1>5, <3>1, <3>2 DEF MadeOK
    <3> QED BY <1>1, <3>2, <3>3 DEF MadeOK
  <2> QED BY <1>1, <2>1
<1>7. ASSUME gaps' \cap PoolGaps = {}
      PROVE  HasRoom'
  <2>1. gaps \cap PoolGaps = {} /\ HasRoom /\ (to \notin Counted \/ env[o][i] \in Counted)
    BY <1>1, <1>7 DEF Pooled
  <2>2. Space(o, env'[o]) <= Space(o, env[o])
    <3>1. Space(o, [env[o] EXCEPT ![i] = to]) <= Space(o, env[o])
      BY <1>2, <2>1, SpacePut
    <3> QED BY <1>3, <3>1
  <2>3. PICK news : news = env'
    OBVIOUS
  <2>4. /\ Spaces(news) = Spaces(env) - Space(o, env[o]) + Space(o, news[o])
        /\ Spaces(env) \in Nat /\ Spaces(news) \in Nat
        /\ Space(o, env[o]) \in Nat /\ Space(o, news[o]) \in Nat
    <3>1. /\ news \in [Orders -> Seq(EnvStatus)] /\ \A p \in Orders \ {o} : news[p] = env[p]
      BY <1>2, <1>3, <2>3
    <3> QED BY <1>2, <3>1, SpacesChange, Zenon
  <2>5. Ordered' <= Ordered /\ Ordered \in Nat /\ Ordered' \in Nat
    BY <2>2, <2>3, <2>4, OrderedIs
  <2>6. \A r \in Runs : Granted(run[r]) => Size[run[r].o] \in Nat
    BY <1>2, BusyShape, Fields DEF Granted
  <2>7. \A r \in Runs : Granted(run[r]) => Ordered' + Size[run[r].o] <= Pool
    BY <2>1, <2>5, <2>6 DEF HasRoom
  <2>8. Ordered' <= Pool
    BY <2>1, <2>5 DEF HasRoom
  <2> QED BY <1>1, <2>1, <2>7, <2>8 DEF HasRoom, Granted
<1> QED BY <1>6, <1>7 DEF Pooled

LEMMA PoolNext == Inv /\ Inv' /\ Pooled /\ [Next]_vars => Pooled'
<1> SUFFICES ASSUME Inv, Inv', Pooled, [Next]_vars PROVE Pooled'
  OBVIOUS
<1>1. CASE UNCHANGED vars
  <2>1. UNCHANGED <<env, run, gaps>>
    BY <1>1 DEF vars, rows
  <2>2. Ordered' = Ordered
    BY <2>1, OrderedIs
  <2> QED BY <2>1, <2>2 DEF Pooled, HasRoom, MadeOK, Granted
<1>2. ASSUME NEW r \in Runs, Step(r)
      PROVE  Pooled'
  <2>1. CASE Deadlock(r)
    BY <2>1, PoolEnd DEF Deadlock, RollBack
  <2> QED BY <1>2, <2>1, PoolOpen, PoolOpenTask, PoolFind, PoolGate, PoolBuild, PoolOutcome,
             PoolCommit, PoolFail DEF Step
<1>3. ASSUME NEW r \in Runs, Die(r)
      PROVE  Pooled'
  BY <1>3, PoolEnd DEF Die, rows
<1>4. ASSUME NEW r \in Runs, (\E o \in Orders : Request(r, o)) \/ \E m \in queue : Take(r, m)
      PROVE  Pooled'
  BY <1>4, PoolStart
<1>5. ASSUME NEW o \in Orders, NEW i \in DOMAIN env[o], Lifecycle(o, i)
      PROVE  Pooled'
  BY <1>5, PoolLifecycle
<1>6. ASSUME NEW o \in Orders, NEW up \in BOOLEAN, ChangePlan(o, up)
      PROVE  Pooled'
  <2>1. UNCHANGED <<env, run>> /\ gaps \subseteq gaps'
    BY <1>6, ChangePlanStep
  <2>2. Ordered' = Ordered
    BY <2>1, OrderedIs
  <2> QED BY <2>1, <2>2 DEF Pooled, HasRoom, MadeOK, Granted
<1>7. Next \/ UNCHANGED vars
  OBVIOUS
<1> QED BY <1>1, <1>2, <1>3, <1>4, <1>5, <1>6, <1>7 DEF Next

\* A limit is raised by a change of plan only, and a gap remembers it.
LEMMA UngrownNext == Inv /\ Inv' /\ Ungrown /\ [Next]_vars => Ungrown'
<1> SUFFICES ASSUME Inv, Inv', Ungrown, [Next]_vars PROVE Ungrown'
  OBVIOUS
<1>1. ASSUME gaps \subseteq gaps', grown' = grown
      PROVE  Ungrown'
  BY <1>1 DEF Ungrown
<1>2. ASSUME gaps \subseteq gaps', NEW r, NEW w, Apply(r, w)
      PROVE  Ungrown'
  <2>1. PICK o, e : o = run[r].o /\ e = run[r].e
    OBVIOUS
  <2>2. grown' = grown \/ grown' = [grown EXCEPT ![o] = grown[o] \ {e}]
    BY <1>2, <2>1, Zenon DEF Apply
  <2>3. grown \in [Orders -> SUBSET Nat]
    BY DEF Inv, TypeOK
  <2> QED BY <1>2, <2>2, <2>3 DEF Ungrown
<1>3. ASSUME NEW r \in Runs, Step(r)
      PROVE  Ungrown'
  <2>1. CASE Find(r) \/ Build(r) \/ Complete(r) \/ HostFails(r)
    BY <1>1, <2>1 DEF Find, Build, Complete, HostFails, Rest, RollBack, rows
  <2>2. CASE OpenInline(r) \/ OpenVerified(r)
    BY <1>1, <2>2 DEF OpenInline, OpenVerified, Rest, RollBack, rows
  <2>3. CASE OpenTask(r)
    <3>1. gaps' = gaps /\ (grown' = grown \/ \E w : Apply(r, w))
      BY <2>3, Zenon DEF OpenTask, OpenTaskIf, Rest, rows
    <3> QED BY <1>1, <1>2, <3>1
  <2>4. CASE Gate(r)
    <3>1. grown' = grown /\ gaps \subseteq gaps'
      BY <2>4, GateStep DEF rows
    <3> QED BY <1>1, <3>1
  <2>5. CASE SyncCommit(r) \/ Commit(r)
    <3>1. gaps' = gaps /\ \E w : Apply(r, w)
      BY <2>5, Zenon DEF SyncCommit, Commit
    <3> QED BY <1>2, <3>1
  <2>6. CASE Fail(r)
    <3>1. CASE RollBack(r)
      BY <1>1, <3>1 DEF RollBack
    <3>2. CASE ~RollBack(r)
      <4>1. gaps \subseteq gaps'
        BY <2>6, <3>2, FailStep
      <4>2. \E w : Apply(r, w)
        BY <2>6, <3>2, Zenon DEF Fail
      <4> QED BY <1>2, <4>1, <4>2
    <3> QED BY <3>1, <3>2
  <2>7. CASE Deadlock(r)
    BY <1>1, <2>7 DEF Deadlock, RollBack
  <2> QED BY <1>3, <2>1, <2>2, <2>3, <2>4, <2>5, <2>6, <2>7 DEF Step
<1>4. ASSUME NEW r \in Runs, Die(r) \/ \E m \in queue : Take(r, m)
      PROVE  Ungrown'
  BY <1>1, <1>4 DEF Die, Take, rows
<1>5. ASSUME NEW r \in Runs, NEW o \in Orders, Request(r, o)
      PROVE  Ungrown'
  BY <1>1, <1>5 DEF Request, Verify, Activate, RetryProvision, RetryOf, Begin
<1>6. ASSUME NEW o \in Orders, NEW i \in DOMAIN env[o], Lifecycle(o, i)
      PROVE  Ungrown'
  BY <1>1, <1>6 DEF Lifecycle, Suspend, Restore, Terminate, SetEnv, Gap
<1>7. ASSUME NEW o \in Orders, NEW up \in BOOLEAN, ChangePlan(o, up)
      PROVE  Ungrown'
  <2>1. gaps \subseteq gaps' /\ ("upgrade" \notin gaps' => \A p \in Orders : grown'[p] \subseteq grown[p])
    BY <1>7, ChangePlanStep
  <2> QED BY <2>1 DEF Ungrown
<1>8. CASE UNCHANGED vars
  BY <1>1, <1>8 DEF vars, rows
<1> QED BY <1>3, <1>4, <1>5, <1>6, <1>7, <1>8 DEF Next

LEMMA InitPool == Init => Pooled
<1> SUFFICES ASSUME Init PROVE Pooled
  OBVIOUS
<1> DEFINE f == [o \in Orders |-> Space(o, env[o])]
<1>1. \A o \in Orders : f[o] = 0
  <2> SUFFICES ASSUME NEW o \in Orders PROVE Space(o, env[o]) = 0
    OBVIOUS
  <2>1. env[o] = <<>> /\ DOMAIN <<>> = {} /\ <<>> \in Seq(EnvStatus)
    BY DEF Init
  <2>2. Taking(env[o]) = {}
    BY <2>1 DEF Taking
  <2>3. Cardinality(Taking(env[o])) = 0
    BY <2>2, FS_EmptySet
  <2>4. Space(o, env[o]) = Size[o] * 0 /\ Size[o] \in Nat
    <3>1. env[o] \in Seq(EnvStatus)
      BY <2>1
    <3>2. Space(o, env[o]) = Size[o] * Cardinality(Taking(env[o]))
      BY <3>1, SpaceType
    <3> QED BY <2>3, <3>2
  <2> QED BY <2>4
<1>2. f \in [Orders -> Nat]
  BY <1>1
<1> HIDE DEF f
<1>3. Total(f) = 0
  BY <1>1, <1>2, TotalZero
<1>4. Ordered = 0
  BY <1>3 DEF f, Ordered
<1>5. \A r \in Runs : run[r] = Idle
  BY DEF Init
<1> QED BY <1>4, <1>5 DEF Pooled, HasRoom, Granted

\* Whatever runs, failures, retries and changes by customers there are, more
\* than the pool is committed only after one of the PoolGaps: every run that goes
\* through the gate alone has checked for what it then writes.
THEOREM PoolIsGated == Spec => []PoolGated
<1>1. Inv /\ Pooled /\ Ungrown => PoolGated
  <2> SUFFICES ASSUME Inv, Pooled, Ungrown, gaps \cap PoolGaps = {} PROVE ~(Committed > Pool)
    BY DEF PoolGated
  <2>1. Ordered <= Pool /\ Ordered \in Nat
    BY OrderedType DEF Inv, Pooled, HasRoom
  <2>2. \A o \in Orders : grown[o] = {}
    BY DEF Ungrown, PoolGaps
  <2>3. \A o \in Orders : Taken(o, env[o], grown[o]) = Space(o, env[o])
    <3> TAKE o \in Orders
    <3>1. env[o] \in Seq(EnvStatus)
      BY TypeParts DEF Inv
    <3> QED BY <2>2, <3>1, TakenIsMore
  <2>4. Committed = Ordered
    BY <2>3 DEF Committed, Ordered
  <2> QED BY <2>1, <2>4
<1>2. Init => Ungrown
  BY DEF Init, Ungrown
<1>3. Spec => [](Pooled /\ Ungrown)
  BY <1>2, InitPool, Invariant, PoolNext, UngrownNext, PTL DEF Spec
<1> QED BY <1>1, <1>3, Invariant, PTL
===============================================================================
