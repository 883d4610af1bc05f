---------------------- MODULE SubscriptionLifecycleProofs ----------------------
(***************************************************************************)
(* What TLAPS proves of SubscriptionLifecycle for any number of            *)
(* subscriptions, environments, sweeps and requests, any calendar.         *)
(*                                                                         *)
(* The argument: a session that writes a subscription from a stale load    *)
(* puts it into raced, so a subscription outside raced' has either not     *)
(* been written by the step, or has been written as if its handler had run *)
(* alone on the committed rows (SweepIsSerial, RequestIsSerial).  It is    *)
(* then enough that each handler, run alone, keeps the invariant.          *)
(***************************************************************************)
EXTENDS SubscriptionLifecycle, TLAPS

USE CalendarAssumption, SwitchAssumption, OwnerAssumption

-------------------------------------------------------------------------------
\* Rows computed by the handlers are rows.
LEMMA RowTypes ==
    ASSUME NEW row \in SubRow, NEW now \in Nat
    PROVE  /\ RenewRow(row, now) \in SubRow
           /\ UpgradeRow(row, now) \in SubRow
           /\ \A hour \in Hours : TickRow(row, now, hour) \in SubRow
<1>1. /\ row.status \in SubStatus /\ row.expires \in Nat
      /\ row.grace_until \in Nat \cup {None} /\ row.auto_renew \in BOOLEAN
  BY DEF SubRow
<1>2. /\ Later(row.expires, now) + TermDays \in Nat
      /\ Later(row.expires, now + TermDays) \in Nat
      /\ now + GraceDays \in Nat
  BY <1>1 DEF Later
<1>3. "active" \in SubStatus /\ "grace" \in SubStatus
  BY DEF SubStatus
<1>4. RenewRow(row, now) \in SubRow
  <2>1. (IF row.status \in {"grace", "suspended"} THEN "active" ELSE row.status) \in SubStatus
    BY <1>1, <1>3
  <2> QED BY <1>1, <1>2, <2>1 DEF RenewRow, SubRow
<1>5. UpgradeRow(row, now) \in SubRow
  BY <1>1, <1>2, <1>3 DEF UpgradeRow, SubRow
<1>6. Lapse(row, now) \in SubRow
  <2>1. [row EXCEPT !.status = "grace", !.grace_until = now + GraceDays] \in SubRow
    BY <1>2, <1>3 DEF SubRow
  <2> QED BY <1>4, <2>1 DEF Lapse
<1>7. \A hour \in Hours : TickRow(row, now, hour) \in SubRow
  BY <1>6 DEF TickRow, SubRow, SubStatus
<1> QED BY <1>4, <1>5, <1>7

\* The merge of a session's columns into a committed row is a row.
LEMMA MergeType ==
    ASSUME NEW db \in SubRow, NEW loaded \in SubRow, NEW new \in SubRow
    PROVE  MergeRow(db, loaded, new) \in SubRow
BY DEF MergeRow, Column, SubRow

\* A session that changed nothing merges nothing; one whose load is fresh
\* merges all it has.
LEMMA MergeFresh ==
    ASSUME NEW db \in SubRow, NEW loaded \in SubRow, NEW new \in SubRow
    PROVE  /\ new = loaded => MergeRow(db, loaded, new) = db
           /\ loaded = db => MergeRow(db, loaded, new) = new
BY DEF MergeRow, Column, SubRow

LEMMA EnvTypes ==
    ASSUME NEW row \in SubRow, NEW now \in Nat, NEW status \in EnvStatus
    PROVE  /\ RenewEnv(row, status) \in EnvStatus
           /\ \A hour \in Hours : TickEnv(row, now, hour, status) \in EnvStatus
           /\ RenewEnv(row, NotLoaded) = NotLoaded
BY DEF RenewEnv, TickEnv, EnvStatus, NotLoaded

-------------------------------------------------------------------------------
\* The rows a request may flush: a typed row, and statuses for exactly the
\* environments it loaded.
Flushable(c, row, envs) ==
    /\ row \in SubRow
    /\ envs \in [Envs -> Loaded]
    /\ \A e \in Envs : IF SubOf[e] = req[c].s THEN envs[e] \in EnvStatus
                                             ELSE envs[e] = NotLoaded

Typed == TypeOK /\ SessionOK

LEMMA ReqTyped ==
    ASSUME Typed, NEW c \in Requests, req[c] # IdleReq
    PROVE  /\ req[c].s \in Subs /\ req[c].now \in Nat
           /\ req[c].row \in SubRow /\ req[c].envs \in [Envs -> Loaded]
           /\ req[c].op \in SubOps \cup EnvOps
           /\ \A e \in Envs : req[c].envs[e] = NotLoaded <=> SubOf[e] # req[c].s
           /\ \A e \in Envs : SubOf[e] = req[c].s => req[c].envs[e] \in EnvStatus
BY DEF Typed, TypeOK, SessionOK, ReqState, Loaded

LEMMA SweepTyped ==
    ASSUME Typed, NEW w \in Sweepers, sweep[w] # IdleSweep
    PROVE  /\ sweep[w].now \in Nat /\ sweep[w].now <= day
           /\ sweep[w].todo \in SUBSET Subs
           /\ sweep[w].rows \in [Subs -> SubRow]
           /\ sweep[w].envs \in [Envs -> Loaded]
           /\ sweep[w].todo = {} => sweep[w].envs \in [Envs -> EnvStatus]
BY DEF Typed, TypeOK, SessionOK, SweepState

\* A request flushes rows it may flush.
LEMMA FlushOfRequest ==
    ASSUME Typed, NEW c \in Requests, req[c] # IdleReq
    PROVE  LET q == req[c] IN
           /\ Flushable(c, RenewRow(q.row, q.now), [e \in Envs |-> RenewEnv(q.row, q.envs[e])])
           /\ Flushable(c, UpgradeRow(q.row, q.now), q.envs)
           /\ \A b \in BOOLEAN : Flushable(c, [q.row EXCEPT !.auto_renew = b], q.envs)
           /\ q.op \in EnvOps => \A st \in EnvStatus \cap SubStatus :
                Flushable(c, [q.row EXCEPT !.status = st], [q.envs EXCEPT ![q.e] = st])
<1> DEFINE q == req[c]
<1>1. /\ q.s \in Subs /\ q.now \in Nat /\ q.row \in SubRow /\ q.envs \in [Envs -> Loaded]
      /\ \A e \in Envs : q.envs[e] = NotLoaded <=> SubOf[e] # q.s
      /\ \A e \in Envs : SubOf[e] = q.s => q.envs[e] \in EnvStatus
  BY ReqTyped
<1>2. q.op \in EnvOps => q.e \in Envs /\ SubOf[q.e] = q.s
  BY DEF Typed, SessionOK, EnvsOf
<1>3. Flushable(c, RenewRow(q.row, q.now), [e \in Envs |-> RenewEnv(q.row, q.envs[e])])
  <2>1. RenewRow(q.row, q.now) \in SubRow
    BY <1>1, RowTypes
  <2>2. \A e \in Envs : SubOf[e] = q.s => RenewEnv(q.row, q.envs[e]) \in EnvStatus
    BY <1>1, EnvTypes
  <2>3. \A e \in Envs : SubOf[e] # q.s => RenewEnv(q.row, q.envs[e]) = NotLoaded
    BY <1>1 DEF RenewEnv, NotLoaded
  <2> QED BY <2>1, <2>2, <2>3 DEF Flushable, Loaded
<1>4. Flushable(c, UpgradeRow(q.row, q.now), q.envs)
  BY <1>1, RowTypes DEF Flushable
<1>5. \A b \in BOOLEAN : Flushable(c, [q.row EXCEPT !.auto_renew = b], q.envs)
  BY <1>1 DEF Flushable, SubRow
<1>6. q.op \in EnvOps => \A st \in EnvStatus \cap SubStatus :
        Flushable(c, [q.row EXCEPT !.status = st], [q.envs EXCEPT ![q.e] = st])
  BY <1>1, <1>2 DEF Flushable, SubRow, Loaded
<1> QED BY <1>3, <1>4, <1>5, <1>6

-------------------------------------------------------------------------------
\* A session that a step does not touch, or ends, keeps what it knows.
LEMMA ReqKept ==
    ASSUME Typed, NEW c \in Requests, req' = [req EXCEPT ![c] = IdleReq],
           day' = day, sweep' = sweep
    PROVE  req' \in [Requests -> ReqState] /\ SessionOK'
BY DEF Typed, TypeOK, SessionOK, ReqState

LEMMA SweepKept ==
    ASSUME Typed, NEW w \in Sweepers, sweep' = [sweep EXCEPT ![w] = IdleSweep],
           day' = day, req' = req
    PROVE  sweep' \in [Sweepers -> SweepState] /\ SessionOK'
BY DEF Typed, TypeOK, SessionOK, SweepState

LEMMA CommitTyped ==
    ASSUME Typed, NEW c \in Requests, req[c] # IdleReq,
           NEW row, NEW envs, Flushable(c, row, envs), Commit(c, row, envs),
           paid' \in [Subs -> Nat], resumed' \in [Subs -> Nat \cup {None}]
    PROVE  Typed'
<1>1. req[c].s \in Subs /\ req[c].row \in SubRow
  BY ReqTyped
<1>2. sub' \in [Subs -> SubRow]
  BY <1>1, MergeType DEF Commit, Flushable, Typed, TypeOK
<1>3. env' \in [Envs -> EnvStatus]
  <2>1. SUFFICES ASSUME NEW e \in Envs
                 PROVE  Column(env[e], req[c].envs[e], envs[e]) \in EnvStatus
    BY DEF Commit
  <2>2. CASE SubOf[e] = req[c].s
    BY <2>2 DEF Flushable, Column, Typed, TypeOK
  <2>3. CASE SubOf[e] # req[c].s
    BY <2>3, ReqTyped DEF Flushable, Column, Typed, TypeOK
  <2> QED BY <2>2, <2>3
<1>4. raced' \in SUBSET Subs
  BY <1>1 DEF Commit, Typed, TypeOK
<1>5. req' \in [Requests -> ReqState] /\ SessionOK'
  BY ReqKept DEF Commit
<1> QED BY <1>2, <1>3, <1>4, <1>5 DEF Commit, Typed, TypeOK

\* Loading rows, or ending a session, keeps everything typed.
LEMMA LoadTyped ==
    ASSUME Typed, NEW c \in Requests, Begin(c) PROVE Typed'
<1> SUFFICES ASSUME NEW op \in SubOps \cup EnvOps, NEW s \in Subs, NEW e \in Envs \cup {None},
                    Load(c, op, s, e), op \in EnvOps => e \in EnvsOf(s)
             PROVE  Typed'
  BY DEF Begin, EnvsOf, SubOps, EnvOps
<1> DEFINE q == [op |-> op, s |-> s, e |-> e, now |-> day, row |-> sub[s], envs |-> LoadEnvs(s)]
<1>1. LoadEnvs(s) \in [Envs -> Loaded]
      /\ \A x \in Envs : LoadEnvs(s)[x] = NotLoaded <=> SubOf[x] # s
  BY DEF LoadEnvs, Loaded, Typed, TypeOK, NotLoaded, EnvStatus
<1>2. q \in ReqState
  BY <1>1 DEF ReqState, Typed, TypeOK
<1>3. req' = [req EXCEPT ![c] = q] /\ UNCHANGED <<day, sub, env, sweep, swept, raced, paid, resumed>>
  BY DEF Load
<1>4. TypeOK'
  BY <1>2, <1>3 DEF Typed, TypeOK
<1>5. SessionOK'
  <2>1. \A x \in Requests : req'[x] = IF x = c THEN q ELSE req[x]
    BY <1>3 DEF Typed, TypeOK
  <2> QED BY <1>1, <1>3, <2>1 DEF Typed, SessionOK
<1> QED BY <1>4, <1>5 DEF Typed

LEMMA SweepTypedStep ==
    ASSUME Typed, NEW w \in Sweepers, TickStep(w) PROVE Typed'
<1>1. CASE TickBegin(w)
  <2> DEFINE t == [now |-> day, todo |-> Subs, rows |-> sub, envs |-> [e \in Envs |-> NotLoaded]]
  <2>1. t \in SweepState
    BY DEF SweepState, Typed, TypeOK, Loaded
  <2>2. \A x \in Sweepers : sweep'[x] = IF x = w THEN t ELSE sweep[x]
    BY <1>1 DEF TickBegin, Typed, TypeOK
  <2>3. sweep' \in [Sweepers -> SweepState]
    BY <1>1, <2>1 DEF TickBegin, Typed, TypeOK
  <2>4. SessionOK'
    BY <1>1, <2>2 DEF TickBegin, Typed, SessionOK, TypeOK
  <2> QED BY <1>1, <2>3, <2>4 DEF TickBegin, Typed, TypeOK
<1>2. ASSUME NEW s \in Subs, TickSub(w, s) PROVE Typed'
  <2> DEFINE old == sweep[w]
             t == [old EXCEPT !.todo = old.todo \ {s},
                              !.envs = [e \in Envs |-> IF SubOf[e] = s THEN env[e] ELSE old.envs[e]]]
  <2>1. old \in [now: Nat, todo: SUBSET Subs, rows: [Subs -> SubRow], envs: [Envs -> Loaded]]
    BY <1>2 DEF TickSub, Typed, TypeOK, SweepState
  <2>2. t \in SweepState
    BY <2>1 DEF SweepState, Typed, TypeOK, Loaded
  <2>3. sweep' = [sweep EXCEPT ![w] = t]
    BY <1>2, <2>1 DEF TickSub
  <2>4. sweep' \in [Sweepers -> SweepState]
    BY <2>2, <2>3 DEF Typed, TypeOK
  <2>5. /\ t.now = old.now /\ t.todo = old.todo \ {s}
        /\ \A e \in Envs : t.envs[e] = IF SubOf[e] = s THEN env[e] ELSE old.envs[e]
    BY <2>1
  <2>6. \A x \in Sweepers : sweep'[x] = IF x = w THEN t ELSE sweep[x]
    BY <2>3 DEF Typed, TypeOK
  <2>7. SessionOK'
    <3>1. ASSUME NEW x \in Sweepers, sweep'[x] # IdleSweep
          PROVE  /\ sweep'[x].now <= day
                 /\ \A e \in Envs : SubOf[e] \notin sweep'[x].todo => sweep'[x].envs[e] \in EnvStatus
      <4>1. CASE x = w
        <5>1. old.now <= day /\ \A e \in Envs : SubOf[e] \notin old.todo => old.envs[e] \in EnvStatus
          BY <1>2 DEF TickSub, Typed, SessionOK
        <5>2. \A e \in Envs : env[e] \in EnvStatus
          BY DEF Typed, TypeOK
        <5>3. \A e \in Envs : SubOf[e] \notin t.todo => t.envs[e] \in EnvStatus
          BY <2>5, <5>1, <5>2
        <5> QED BY <2>5, <2>6, <4>1, <5>1, <5>3
      <4>2. CASE x # w
        BY <2>6, <3>1, <4>2 DEF Typed, SessionOK
      <4> QED BY <4>1, <4>2
    <3> QED BY <1>2, <3>1 DEF TickSub, Typed, SessionOK
  <2> QED BY <1>2, <2>4, <2>7 DEF TickSub, Typed, TypeOK
<1>3. CASE TickCommit(w)
  <2> DEFINE t == sweep[w]
  <2>1. /\ t.now \in Nat /\ t.rows \in [Subs -> SubRow] /\ t.envs \in [Envs -> EnvStatus]
    BY <1>3, SweepTyped DEF TickCommit
  <2>0. PICK hour \in [Subs -> Hours] :
            /\ sub' = [s \in Subs |-> MergeRow(sub[s], t.rows[s],
                                               TickRow(t.rows[s], t.now, hour[s]))]
            /\ env' = [e \in Envs |-> Column(env[e], t.envs[e],
                                TickEnv(t.rows[SubOf[e]], t.now, hour[SubOf[e]], t.envs[e]))]
    BY <1>3 DEF TickCommit
  <2>2. sub' \in [Subs -> SubRow]
    BY <2>0, <2>1, RowTypes, MergeType DEF Typed, TypeOK
  <2>3. env' \in [Envs -> EnvStatus]
    <3>1. \A e \in Envs : TickEnv(t.rows[SubOf[e]], t.now, hour[SubOf[e]], t.envs[e]) \in EnvStatus
      BY <2>1, EnvTypes
    <3>2. \A e \in Envs : Column(env[e], t.envs[e],
                TickEnv(t.rows[SubOf[e]], t.now, hour[SubOf[e]], t.envs[e])) \in EnvStatus
      BY <3>1 DEF Column, Typed, TypeOK
    <3> QED BY <2>0, <3>2
  <2>4. raced' \in SUBSET Subs /\ swept' \in BOOLEAN
    BY <1>3 DEF TickCommit, Typed, TypeOK
  <2>5. sweep' \in [Sweepers -> SweepState] /\ SessionOK'
    BY <1>3, SweepKept DEF TickCommit
  <2> QED BY <1>3, <2>2, <2>3, <2>4, <2>5 DEF TickCommit, Typed, TypeOK
<1>4. CASE TickAbort(w)
  <2>1. sweep' \in [Sweepers -> SweepState] /\ SessionOK'
    BY <1>4, SweepKept DEF TickAbort
  <2> QED BY <1>4, <2>1 DEF TickAbort, Typed, TypeOK
<1> QED BY <1>1, <1>2, <1>3, <1>4 DEF TickStep

\* Every request handler commits flushable rows, hence keeps everything typed.
LEMMA RequestTypedStep ==
    ASSUME Typed, NEW c \in Requests, ReqStep(c) PROVE Typed'
<1> DEFINE q == req[c]
<1>1. CASE Begin(c)
  BY <1>1, LoadTyped
<1>2. CASE Renew(c)
  <2>1. q # IdleReq
    BY <1>2 DEF Renew, IdleReq
  <2>2. Flushable(c, RenewRow(q.row, q.now), [e \in Envs |-> RenewEnv(q.row, q.envs[e])])
    BY <2>1, FlushOfRequest
  <2>3. paid' \in [Subs -> Nat] /\ resumed' \in [Subs -> Nat \cup {None}]
    <3>1. q.s \in Subs /\ paid \in [Subs -> Nat] /\ resumed \in [Subs -> Nat \cup {None}]
      BY <2>1, ReqTyped DEF Typed, TypeOK
    <3>2. paid[q.s] + 1 \in Nat
      BY <3>1
    <3> QED BY <1>2, <3>1, <3>2 DEF Renew
  <2> QED BY <1>2, <2>1, <2>2, <2>3, CommitTyped DEF Renew
<1>3. CASE Upgrade(c)
  <2>1. q # IdleReq
    BY <1>3 DEF Upgrade, IdleReq
  <2>2. Flushable(c, UpgradeRow(q.row, q.now), q.envs)
    BY <2>1, FlushOfRequest
  <2>3. paid' \in [Subs -> Nat] /\ resumed' \in [Subs -> Nat \cup {None}]
    BY <1>3 DEF Upgrade, Typed, TypeOK
  <2> QED BY <1>3, <2>1, <2>2, <2>3, CommitTyped DEF Upgrade
<1>4. CASE SetAutoRenew(c)
  <2>1. q # IdleReq
    BY <1>4 DEF SetAutoRenew, IdleReq
  <2>2. \A b \in BOOLEAN : Flushable(c, [q.row EXCEPT !.auto_renew = b], q.envs)
    BY <2>1, FlushOfRequest
  <2>3. paid' \in [Subs -> Nat] /\ resumed' \in [Subs -> Nat \cup {None}]
    BY <1>4 DEF SetAutoRenew, Typed, TypeOK
  <2> QED BY <1>4, <2>1, <2>2, <2>3, CommitTyped DEF SetAutoRenew
<1>5. CASE Suspend(c) \/ Restore(c) \/ Terminate(c)
  <2>1. q # IdleReq /\ q.op \in EnvOps
    BY <1>5 DEF Suspend, Restore, Terminate, IdleReq, EnvOps
  <2>2. \A st \in EnvStatus \cap SubStatus :
            Flushable(c, [q.row EXCEPT !.status = st], [q.envs EXCEPT ![q.e] = st])
    BY <2>1, FlushOfRequest
  <2>3. {"active", "suspended", "terminated"} \subseteq EnvStatus \cap SubStatus
    BY DEF EnvStatus, SubStatus
  <2>4. paid' \in [Subs -> Nat] /\ resumed' \in [Subs -> Nat \cup {None}]
    <3>1. day \in Nat /\ paid \in [Subs -> Nat] /\ resumed \in [Subs -> Nat \cup {None}]
      BY DEF Typed, TypeOK
    <3>2. paid' = paid /\ (resumed' = resumed \/ resumed' = [resumed EXCEPT ![q.s] = day])
      BY <1>5 DEF Suspend, Restore, Terminate
    <3> QED BY <3>1, <3>2
  <2>5. \E st \in {"active", "suspended", "terminated"} :
            Commit(c, [q.row EXCEPT !.status = st], [q.envs EXCEPT ![q.e] = st])
    BY <1>5 DEF Suspend, Restore, Terminate
  <2> QED BY <2>1, <2>2, <2>3, <2>4, <2>5, CommitTyped
<1>6. CASE Abort(c)
  <2>1. req' \in [Requests -> ReqState] /\ SessionOK'
    BY <1>6, ReqKept DEF Abort
  <2> QED BY <1>6, <2>1 DEF Abort, Typed, TypeOK
<1> QED BY <1>1, <1>2, <1>3, <1>4, <1>5, <1>6 DEF ReqStep

\* Type correctness, with what the sessions know, is inductive.
LEMMA TypedStep == Typed /\ [Next]_vars => Typed'
<1> SUFFICES ASSUME Typed, [Next]_vars PROVE Typed'
  OBVIOUS
<1>1. CASE NextDay
  <2>1. day \in Nat /\ day' = day + 1
    BY <1>1 DEF NextDay, Typed, TypeOK
  <2>2. TypeOK'
    <3>1. day' \in Nat
      BY <2>1
    <3>2. swept' \in BOOLEAN
      BY <1>1, Zenon DEF NextDay
    <3> QED BY <1>1, <3>1, <3>2 DEF NextDay, Typed, TypeOK
  <2>3. \A w \in Sweepers : sweep[w] # IdleSweep => sweep[w].now \in Nat
    BY SweepTyped
  <2>4. SessionOK'
    BY <1>1, <2>1, <2>3 DEF NextDay, Typed, SessionOK
  <2> QED BY <2>2, <2>4 DEF Typed
<1>2. ASSUME NEW w \in Sweepers, TickStep(w) PROVE Typed'
  BY <1>2, SweepTypedStep
<1>3. ASSUME NEW c \in Requests, ReqStep(c) PROVE Typed'
  BY <1>3, RequestTypedStep
<1>4. CASE UNCHANGED vars
  BY <1>4 DEF vars, Typed, TypeOK, SessionOK
<1> QED BY <1>1, <1>2, <1>3, <1>4 DEF Next

LEMMA TypedInit == Init => Typed
<1> SUFFICES ASSUME Init PROVE Typed
  OBVIOUS
<1>1. TypeOK
  BY DEF Init, TypeOK, SubRow, SubStatus, EnvStatus, SweepState, ReqState
<1>2. SessionOK
  BY DEF Init, SessionOK
<1> QED BY <1>1, <1>2 DEF Typed

\* In every reachable state every committed row, and every row a session
\* holds, has a status and dates the handlers know how to treat.
THEOREM TypeCorrect == Spec => []TypeOK
<1>1. Init => Typed
  BY TypedInit
<1>2. Typed /\ [Next]_vars => Typed'
  BY TypedStep
<1>3. Typed => TypeOK
  BY DEF Typed
<1> QED BY <1>1, <1>2, <1>3, PTL DEF Spec

-------------------------------------------------------------------------------
(***************************************************************************)
(* Serial steps: what one handler, alone, does to subscription s and its   *)
(* environments.                                                           *)
(***************************************************************************)
\* The clocks of the sessions in progress: the day each of them began.
Clocks ==
    {sweep[w].now : w \in {x \in Sweepers : sweep[x] # IdleSweep}} \cup
    {req[c].now : c \in {x \in Requests : req[x] # IdleReq}}

Untouched(s) ==
    /\ sub'[s] = sub[s]
    /\ \A e \in EnvsOf(s) : env'[e] = env[e]
    /\ paid'[s] = paid[s]
    /\ resumed'[s] = resumed[s]
TickedAlone(s) ==
    /\ \E now \in Nat, hour \in Hours :
        /\ now <= day
        /\ now \in Clocks
        /\ sub'[s] = TickRow(sub[s], now, hour)
        /\ \A e \in EnvsOf(s) : env'[e] = TickEnv(sub[s], now, hour, env[e])
    /\ paid' = paid
    /\ req' = req
    /\ resumed' = resumed
RenewedAlone(s) ==
    /\ \E now \in Nat : now \in Clocks /\ sub'[s] = RenewRow(sub[s], now)
    /\ \A e \in EnvsOf(s) : env'[e] = RenewEnv(sub[s], env[e])
    /\ paid'[s] = paid[s] + 1
    /\ resumed' = resumed
UpgradedAlone(s) ==
    /\ sub[s].status \in {"active", "grace"}
    /\ \E now \in Nat : now \in Clocks /\ sub'[s] = UpgradeRow(sub[s], now)
    /\ \A e \in EnvsOf(s) : env'[e] = env[e]
    /\ paid' = paid
    /\ resumed' = resumed
AutoRenewSetAlone(s) ==
    /\ \E b \in BOOLEAN : sub'[s] = [sub[s] EXCEPT !.auto_renew = b]
    /\ \A e \in EnvsOf(s) : env'[e] = env[e]
    /\ paid' = paid
    /\ resumed' = resumed
SwitchedAlone(s) ==
    /\ \E e \in EnvsOf(s), st \in {"active", "suspended", "terminated"} :
        /\ env[e] # "terminated"
        /\ sub'[s] = [sub[s] EXCEPT !.status = st]
        /\ \A x \in EnvsOf(s) : env'[x] = IF x = e THEN st ELSE env[x]
        /\ resumed'[s] = IF st = "active" THEN day ELSE resumed[s]
    /\ paid' = paid
SerialStep(s) ==
    \/ Untouched(s)
    \/ TickedAlone(s)
    \/ /\ req' # req
       /\ \/ RenewedAlone(s)
          \/ UpgradedAlone(s)
          \/ AutoRenewSetAlone(s)
          \/ SwitchedAlone(s)

\* A request that leaves s out of raced' has written nothing of s, or has
\* written exactly what it computed, from what is committed.
LEMMA RequestIsSerial ==
    ASSUME Typed, NEW c \in Requests, req[c] # IdleReq,
           NEW row, NEW envs, Flushable(c, row, envs), Commit(c, row, envs),
           NEW s \in Subs, s \notin raced'
    PROVE  \/ /\ sub'[s] = sub[s]
              /\ \A e \in EnvsOf(s) : env'[e] = env[e]
              /\ s = req[c].s => row = req[c].row /\ envs = req[c].envs
           \/ /\ s = req[c].s
              /\ req[c].row = sub[s] /\ sub'[s] = row
              /\ \A e \in EnvsOf(s) : req[c].envs[e] = env[e] /\ env'[e] = envs[e]
<1> DEFINE q == req[c]
<1>1. q.row \in SubRow /\ row \in SubRow /\ sub \in [Subs -> SubRow]
  BY ReqTyped DEF Flushable, Typed, TypeOK
<1>2. /\ sub' = [sub EXCEPT ![q.s] = MergeRow(sub[q.s], q.row, row)]
      /\ \A e \in Envs : env'[e] = Column(env[e], q.envs[e], envs[e])
  BY DEF Commit
<1>3. CASE s # q.s
  <2>1. \A e \in EnvsOf(s) : q.envs[e] = NotLoaded /\ envs[e] = NotLoaded
    BY <1>3, ReqTyped DEF Flushable, EnvsOf
  <2> QED BY <1>1, <1>2, <1>3, <2>1 DEF Column, EnvsOf
<1>4. CASE s = q.s /\ Stale(q)
  <2>1. row = q.row /\ envs = q.envs
    BY <1>4 DEF Commit
  <2>2. MergeRow(sub[s], q.row, row) = sub[s]
    BY <1>1, <2>1, MergeFresh
  <2> QED BY <1>1, <1>2, <1>4, <2>1, <2>2 DEF Column, EnvsOf
<1>5. CASE s = q.s /\ ~Stale(q)
  <2>1. q.row = sub[s] /\ q.envs = LoadEnvs(s)
    BY <1>5 DEF Stale
  <2>2. \A e \in EnvsOf(s) : q.envs[e] = env[e]
    BY <2>1 DEF LoadEnvs, EnvsOf
  <2>3. MergeRow(sub[s], q.row, row) = row
    BY <1>1, <2>1, MergeFresh
  <2> QED BY <1>1, <1>2, <1>5, <2>1, <2>2, <2>3 DEF Column, EnvsOf
<1> QED BY <1>3, <1>4, <1>5

\* The same of a sweep.
LEMMA SweepIsSerial ==
    ASSUME Typed, NEW w \in Sweepers, TickCommit(w), NEW s \in Subs, s \notin raced'
    PROVE  Untouched(s) \/ TickedAlone(s)
<1> DEFINE t == sweep[w]
<1>0. PICK hours \in [Subs -> Hours] :
            /\ sub' = [x \in Subs |-> MergeRow(sub[x], t.rows[x],
                                               TickRow(t.rows[x], t.now, hours[x]))]
            /\ env' = [e \in Envs |-> Column(env[e], t.envs[e],
                                TickEnv(t.rows[SubOf[e]], t.now, hours[SubOf[e]], t.envs[e]))]
            /\ raced' = raced \cup {x \in Subs : TickWrites(t, x, hours[x]) /\ TickStale(t, x)}
  BY DEF TickCommit
<1> DEFINE hour == hours[s]
           new == TickRow(t.rows[s], t.now, hour)
<1>1. /\ t.now \in Nat /\ t.now <= day /\ t.rows[s] \in SubRow /\ sub[s] \in SubRow
      /\ t.envs \in [Envs -> EnvStatus] /\ hour \in Hours
  BY SweepTyped DEF TickCommit, Typed, TypeOK
<1>2. new \in SubRow
  BY <1>1, RowTypes
<1>3. /\ sub'[s] = MergeRow(sub[s], t.rows[s], new)
      /\ \A e \in EnvsOf(s) : env'[e] = Column(env[e], t.envs[e],
                                               TickEnv(t.rows[s], t.now, hour, t.envs[e]))
      /\ paid' = paid /\ req' = req /\ resumed' = resumed /\ t.now \in Clocks
  BY <1>0 DEF TickCommit, EnvsOf, Clocks
<1>4. CASE ~TickWrites(t, s, hour)
  <2>1. new = t.rows[s] /\ \A e \in EnvsOf(s) : TickEnv(t.rows[s], t.now, hour, t.envs[e]) = t.envs[e]
    BY <1>4 DEF TickWrites
  <2>2. sub'[s] = sub[s]
    BY <1>1, <1>2, <1>3, <2>1, MergeFresh
  <2> QED BY <1>3, <2>1, <2>2 DEF Column, Untouched
<1>5. CASE TickWrites(t, s, hour)
  <2>1. ~TickStale(t, s)
    BY <1>0, <1>5
  <2>2. t.rows[s] = sub[s] /\ \A e \in EnvsOf(s) : t.envs[e] = env[e]
    BY <2>1 DEF TickStale
  <2>3. sub'[s] = TickRow(sub[s], t.now, hour)
    BY <1>1, <1>2, <1>3, <2>2, MergeFresh
  <2>4. \A e \in EnvsOf(s) : env'[e] = TickEnv(sub[s], t.now, hour, env[e])
    BY <1>3, <2>2 DEF Column
  <2> QED BY <1>1, <1>3, <2>3, <2>4 DEF TickedAlone
<1> QED BY <1>4, <1>5

\* A committed request ends its session, so req changes.
LEMMA CommitEnds ==
    ASSUME Typed, NEW c \in Requests, req[c] # IdleReq, NEW row, NEW envs, Commit(c, row, envs)
    PROVE  req' # req
BY DEF Commit, Typed, TypeOK

\* A renewal always moves the expiry.
LEMMA RenewMoves ==
    ASSUME NEW row \in SubRow, NEW now \in Nat
    PROVE  /\ RenewRow(row, now).expires = Later(row.expires, now) + TermDays
           /\ RenewRow(row, now).expires >= row.expires + TermDays
           /\ RenewRow(row, now) # row
<1>1. row.expires \in Nat
  BY DEF SubRow
<1>2. RenewRow(row, now).expires = Later(row.expires, now) + TermDays
  BY DEF RenewRow, SubRow
<1>3. RenewRow(row, now).expires >= row.expires + TermDays
  BY <1>1, <1>2 DEF Later
<1> QED BY <1>1, <1>2, <1>3

LEMMA RequestStepIsSerial ==
    ASSUME Typed, NEW c \in Requests, ReqStep(c), NEW s \in Subs, s \notin raced'
    PROVE  SerialStep(s)
<1> DEFINE q == req[c]
<1>1. CASE Begin(c) \/ Abort(c)
  BY <1>1 DEF Begin, Load, Abort, SerialStep, Untouched
<1>2. CASE Renew(c)
  <2> DEFINE row == RenewRow(q.row, q.now)
             envs == [e \in Envs |-> RenewEnv(q.row, q.envs[e])]
  <2>1. q # IdleReq
    BY <1>2 DEF Renew, IdleReq
  <2>2. Flushable(c, row, envs) /\ Commit(c, row, envs)
    BY <1>2, <2>1, FlushOfRequest DEF Renew
  <2>3. row # q.row
    BY <2>1, ReqTyped, RenewMoves
  <2>4. req' # req
    BY <2>1, <2>2, CommitEnds
  <2>5. /\ s # q.s => paid'[s] = paid[s]
        /\ s = q.s => paid'[s] = paid[s] + 1
        /\ resumed' = resumed
    BY <1>2 DEF Renew, Typed, TypeOK
  <2> HIDE DEF row, envs
  <2>6. CASE sub'[s] = sub[s] /\ (\A e \in EnvsOf(s) : env'[e] = env[e]) /\ s # q.s
    BY <2>5, <2>6 DEF SerialStep, Untouched
  <2>7. CASE /\ s = q.s /\ q.row = sub[s] /\ sub'[s] = row
             /\ \A e \in EnvsOf(s) : q.envs[e] = env[e] /\ env'[e] = envs[e]
    <3>1. \A e \in EnvsOf(s) : env'[e] = RenewEnv(sub[s], env[e])
      BY <2>7 DEF envs, EnvsOf
    <3>2. q.now \in Nat /\ q.now \in Clocks /\ sub'[s] = RenewRow(sub[s], q.now)
      BY <2>1, <2>7, ReqTyped DEF row, Clocks
    <3> QED BY <2>4, <2>5, <2>7, <3>1, <3>2 DEF SerialStep, RenewedAlone
  <2> QED BY <2>1, <2>2, <2>3, <2>6, <2>7, RequestIsSerial
<1>3. CASE Upgrade(c)
  <2> DEFINE row == UpgradeRow(q.row, q.now)
  <2>1. q # IdleReq
    BY <1>3 DEF Upgrade, IdleReq
  <2>2. Flushable(c, row, q.envs) /\ Commit(c, row, q.envs)
    BY <1>3, <2>1, FlushOfRequest DEF Upgrade
  <2>3. /\ req' # req /\ paid' = paid /\ resumed' = resumed
        /\ q.now \in Nat /\ q.now \in Clocks /\ q.row.status \in {"active", "grace"}
    BY <1>3, <2>1, <2>2, CommitEnds, ReqTyped DEF Upgrade, Clocks
  <2>4. CASE sub'[s] = sub[s] /\ \A e \in EnvsOf(s) : env'[e] = env[e]
    BY <2>3, <2>4 DEF SerialStep, Untouched
  <2>5. CASE /\ q.row = sub[s] /\ sub'[s] = row
             /\ \A e \in EnvsOf(s) : q.envs[e] = env[e] /\ env'[e] = q.envs[e]
    BY <2>3, <2>5 DEF SerialStep, UpgradedAlone
  <2> HIDE DEF row
  <2> QED BY <2>1, <2>2, <2>4, <2>5, RequestIsSerial
<1>4. CASE SetAutoRenew(c)
  <2>1. q # IdleReq
    BY <1>4 DEF SetAutoRenew, IdleReq
  <2>2. PICK b \in BOOLEAN : Commit(c, [q.row EXCEPT !.auto_renew = b], q.envs)
    BY <1>4 DEF SetAutoRenew
  <2> DEFINE row == [q.row EXCEPT !.auto_renew = b]
  <2>3. Flushable(c, row, q.envs) /\ Commit(c, row, q.envs)
    BY <2>1, <2>2, FlushOfRequest
  <2>4. req' # req /\ paid' = paid /\ resumed' = resumed
    BY <1>4, <2>1, <2>2, CommitEnds DEF SetAutoRenew
  <2>5. CASE sub'[s] = sub[s] /\ \A e \in EnvsOf(s) : env'[e] = env[e]
    BY <2>4, <2>5 DEF SerialStep, Untouched
  <2>6. CASE /\ q.row = sub[s] /\ sub'[s] = row
             /\ \A e \in EnvsOf(s) : q.envs[e] = env[e] /\ env'[e] = q.envs[e]
    <3>1. sub'[s] = [sub[s] EXCEPT !.auto_renew = b]
      BY <2>6
    <3>2. AutoRenewSetAlone(s)
      BY <2>4, <2>6, <3>1, Zenon DEF AutoRenewSetAlone
    <3> QED BY <2>4, <3>2 DEF SerialStep
  <2> HIDE DEF row
  <2> QED BY <2>1, <2>3, <2>5, <2>6, RequestIsSerial
<1>5. CASE Suspend(c) \/ Restore(c) \/ Terminate(c)
  <2>1. q # IdleReq /\ q.op \in EnvOps /\ q.envs[q.e] # "terminated" /\ paid' = paid
    BY <1>5 DEF Suspend, Restore, Terminate, IdleReq, EnvOps
  <2>2. PICK st \in {"active", "suspended", "terminated"} :
            /\ Commit(c, [q.row EXCEPT !.status = st], [q.envs EXCEPT ![q.e] = st])
            /\ q.envs[q.e] # st
            /\ resumed' = IF st = "active" THEN [resumed EXCEPT ![q.s] = day] ELSE resumed
    BY <1>5 DEF Suspend, Restore, Terminate
  <2> DEFINE row == [q.row EXCEPT !.status = st]
             envs == [q.envs EXCEPT ![q.e] = st]
  <2>3. st \in EnvStatus \cap SubStatus
    BY DEF EnvStatus, SubStatus
  <2>4. Flushable(c, row, envs) /\ Commit(c, row, envs)
    BY <2>1, <2>2, <2>3, FlushOfRequest
  <2>5. req' # req
    BY <2>1, <2>2, CommitEnds
  <2>6. q.s \in Subs /\ q.e \in EnvsOf(q.s) /\ q.envs \in [Envs -> Loaded]
    BY <2>1, ReqTyped DEF Typed, SessionOK
  <2>7. envs # q.envs
    BY <2>2, <2>6 DEF EnvsOf
  <2>8. resumed'[s] = IF s = q.s /\ st = "active" THEN day ELSE resumed[s]
    BY <2>2, <2>6 DEF Typed, TypeOK
  <2>9. CASE sub'[s] = sub[s] /\ (\A e \in EnvsOf(s) : env'[e] = env[e]) /\ s # q.s
    BY <2>1, <2>8, <2>9 DEF SerialStep, Untouched
  <2>10. CASE /\ s = q.s /\ q.row = sub[s] /\ sub'[s] = row
              /\ \A e \in EnvsOf(s) : q.envs[e] = env[e] /\ env'[e] = envs[e]
    <3>1. q.e \in EnvsOf(s)
      BY <2>6, <2>10
    <3>2. \A x \in EnvsOf(s) : env'[x] = IF x = q.e THEN st ELSE env[x]
      BY <2>1, <2>10, ReqTyped DEF EnvsOf
    <3>3. env[q.e] # "terminated" /\ sub'[s] = [sub[s] EXCEPT !.status = st]
      BY <2>1, <2>10, <3>1
    <3>4. SwitchedAlone(s)
      BY <2>1, <2>2, <2>8, <2>10, <3>1, <3>2, <3>3 DEF SwitchedAlone
    <3> QED BY <2>5, <3>4 DEF SerialStep
  <2> HIDE DEF row, envs
  <2> QED BY <2>1, <2>4, <2>7, <2>9, <2>10, RequestIsSerial
<1> QED BY <1>1, <1>2, <1>3, <1>4, <1>5 DEF ReqStep

\* Whatever the interleaving, a step leaves each subscription it does not
\* race on as one handler running alone would have left it.
LEMMA StepIsSerial ==
    ASSUME Typed, [Next]_vars, NEW s \in Subs, s \notin raced'
    PROVE  SerialStep(s) /\ s \notin raced
<1>1. SerialStep(s)
  <2>1. CASE NextDay
    BY <2>1 DEF NextDay, SerialStep, Untouched
  <2>2. ASSUME NEW w \in Sweepers, TickCommit(w) PROVE SerialStep(s)
    BY <2>2, SweepIsSerial DEF SerialStep
  <2>3. ASSUME NEW w \in Sweepers, TickBegin(w) \/ TickAbort(w) \/ \E x \in Subs : TickSub(w, x)
        PROVE  SerialStep(s)
    BY <2>3 DEF TickBegin, TickAbort, TickSub, SerialStep, Untouched
  <2>4. ASSUME NEW c \in Requests, ReqStep(c) PROVE SerialStep(s)
    BY <2>4, RequestStepIsSerial
  <2>5. CASE UNCHANGED vars
    BY <2>5 DEF vars, SerialStep, Untouched
  <2> QED BY <2>1, <2>2, <2>3, <2>4, <2>5 DEF Next, TickStep
<1>2. raced \subseteq raced'
  BY DEF Next, vars, NextDay, TickStep, TickBegin, TickSub, TickCommit, TickAbort, ReqStep,
         Begin, Load, Renew, Upgrade, SetAutoRenew, Suspend, Restore, Terminate, Abort, Commit
<1> QED BY <1>1, <1>2

-------------------------------------------------------------------------------
(***************************************************************************)
(* What each handler does to a row, as far as the invariants need it.      *)
(***************************************************************************)
LEMMA RenewFacts ==
    ASSUME NEW row \in SubRow, NEW now \in Nat, NEW status \in EnvStatus
    PROVE  /\ RenewRow(row, now).status \notin {"grace", "suspended"}
           /\ RenewRow(row, now).status = "terminated" <=> row.status = "terminated"
           /\ RenewEnv(row, status) = "terminated" <=> status = "terminated"
           /\ row.status \in {"grace", "suspended"} => RenewEnv(row, status) # "suspended"
           /\ row.status \notin {"grace", "suspended"} => RenewEnv(row, status) = status
<1>1. RenewRow(row, now).status = IF row.status \in {"grace", "suspended"} THEN "active" ELSE row.status
  BY DEF RenewRow, SubRow
<1>2. RenewEnv(row, status) = IF row.status \in {"grace", "suspended"} /\ status = "suspended"
                              THEN "active" ELSE status
  BY DEF RenewEnv
<1> QED BY <1>1, <1>2

LEMMA UpgradeFacts ==
    ASSUME NEW row \in SubRow, NEW now \in Nat
    PROVE  /\ UpgradeRow(row, now).status = "active"
           /\ UpgradeRow(row, now).expires >= row.expires
BY DEF UpgradeRow, SubRow, Later

\* The stages of tick(), seen from their result.
LEMMA TickFacts ==
    ASSUME NEW row \in SubRow, NEW now \in Nat, NEW hour \in Hours
    PROVE  LET new == TickRow(row, now, hour) IN
           /\ new.expires >= row.expires
           /\ new.status = "grace" =>
                \/ new = row
                \/ new.grace_until = now + GraceDays /\ now > new.expires
           /\ new.status = "suspended" /\ row.status # "suspended" =>
                row.status = "grace" /\ row.grace_until # None /\ now >= row.grace_until
           /\ new.status = "terminated" /\ row.status # "terminated" =>
                now >= row.expires + TerminateDays
           /\ row.status \in {"suspended", "terminated"} =>
                new.status \in {row.status, "terminated"}
<1> DEFINE lapsed == Lapse(row, now)
           cut == IF GraceEnds(lapsed, now, hour) THEN [lapsed EXCEPT !.status = "suspended"] ELSE lapsed
<1>1. row.expires \in Nat /\ lapsed \in SubRow /\ lapsed.expires >= row.expires
  <2>1. CASE row.status = "active" /\ now > row.expires /\ row.auto_renew /\ ~PaystackKey
    <3>1. lapsed = RenewRow(row, now)
      BY <2>1 DEF Lapse
    <3>2. row.expires \in Nat /\ lapsed.expires >= row.expires + TermDays
      BY <3>1, RenewMoves DEF SubRow
    <3>3. lapsed \in SubRow
      BY <3>1, RowTypes
    <3> HIDE DEF lapsed
    <3>4. lapsed.expires \in Nat
      BY <3>3 DEF SubRow
    <3> QED BY <3>2, <3>3, <3>4
  <2>2. CASE row.status = "active" /\ now > row.expires /\ ~(row.auto_renew /\ ~PaystackKey)
    <3>1. now + GraceDays \in Nat
      OBVIOUS
    <3>2. lapsed = [row EXCEPT !.status = "grace", !.grace_until = now + GraceDays]
      BY <2>2 DEF Lapse
    <3>3. lapsed \in SubRow /\ lapsed.expires = row.expires
      BY <3>1, <3>2 DEF SubRow, SubStatus
    <3>4. row.expires \in Nat
      BY DEF SubRow
    <3> HIDE DEF lapsed
    <3> QED BY <3>3, <3>4
  <2>3. CASE ~(row.status = "active" /\ now > row.expires)
    <3>1. lapsed = row
      BY <2>3 DEF Lapse
    <3> QED BY <3>1 DEF SubRow
  <2> QED BY <2>1, <2>2, <2>3
<1>2. \/ lapsed = row
      \/ lapsed.status = "active"
      \/ /\ lapsed = [row EXCEPT !.status = "grace", !.grace_until = now + GraceDays]
         /\ now > row.expires
         /\ row.status = "active"
  BY RenewFacts DEF Lapse, RenewRow, SubRow
<1>3. lapsed.status = "grace" =>
        \/ lapsed = row
        \/ lapsed.grace_until = now + GraceDays /\ now > lapsed.expires /\ row.status = "active"
  BY <1>2 DEF SubRow
<1>4. GraceEnds(lapsed, now, hour) => lapsed = row
  <2>1. SUFFICES ASSUME GraceEnds(lapsed, now, hour), lapsed # row PROVE FALSE
    OBVIOUS
  <2>2. lapsed.grace_until = now + GraceDays /\ now >= lapsed.grace_until
    BY <1>3, <2>1 DEF GraceEnds, Reached
  <2> QED BY <2>2
<1>5. cut \in SubRow /\ cut.expires = lapsed.expires
      /\ (GraceEnds(lapsed, now, hour) => cut.status = "suspended")
      /\ (~GraceEnds(lapsed, now, hour) => cut = lapsed)
  BY <1>1 DEF SubRow, SubStatus
<1>6. TickRow(row, now, hour) = IF Retired(cut, now, hour) THEN [cut EXCEPT !.status = "terminated"] ELSE cut
  BY DEF TickRow
<1>7. TickRow(row, now, hour).expires = cut.expires
      /\ (Retired(cut, now, hour) => TickRow(row, now, hour).status = "terminated")
      /\ (~Retired(cut, now, hour) => TickRow(row, now, hour) = cut)
  BY <1>5, <1>6 DEF SubRow
<1>8. Retired(cut, now, hour) => now >= row.expires + TerminateDays
  BY <1>1, <1>5 DEF Retired, Reached, SubRow
<1>9. row.status \in {"suspended", "terminated"} => lapsed = row
  BY <1>2 DEF Lapse
<1> HIDE DEF cut, lapsed
<1>10. TickRow(row, now, hour).status = "grace" => TickRow(row, now, hour) = lapsed
  BY <1>5, <1>7
<1>11. TickRow(row, now, hour).status = "suspended" /\ row.status # "suspended" => GraceEnds(row, now, hour)
  BY <1>2, <1>4, <1>5, <1>7 DEF Retired, SubRow
<1>12. TickRow(row, now, hour).status = "terminated" /\ row.status # "terminated" => Retired(cut, now, hour)
  BY <1>2, <1>5, <1>7 DEF SubRow
<1>13. row.status \in {"suspended", "terminated"} =>
            TickRow(row, now, hour).status \in {row.status, "terminated"}
  BY <1>5, <1>7, <1>9 DEF GraceEnds
<1>14. TickRow(row, now, hour).expires >= row.expires
  BY <1>1, <1>5, <1>7
<1>15. GraceEnds(row, now, hour) =>
            row.status = "grace" /\ row.grace_until # None /\ now >= row.grace_until
  BY DEF GraceEnds, Reached, SubRow
<1> QED BY <1>3, <1>8, <1>10, <1>11, <1>12, <1>13, <1>14, <1>15

LEMMA TickEnvFacts ==
    ASSUME NEW row \in SubRow, NEW now \in Nat, NEW hour \in Hours, NEW status \in EnvStatus
    PROVE  LET new == TickRow(row, now, hour)
               to == TickEnv(row, now, hour, status)
           IN  /\ status = "terminated" => to = "terminated"
               /\ new.status # row.status /\ new.status \in {"suspended", "terminated"} =>
                    to = IF status = "terminated" THEN status ELSE new.status
               /\ ~(new.status # row.status /\ new.status \in {"suspended", "terminated"}) =>
                    to = status
BY DEF TickEnv

-------------------------------------------------------------------------------
(***************************************************************************)
(* Each handler alone keeps the three invariants of a subscription.        *)
(***************************************************************************)
Agree(status, row) ==
    /\ status = "suspended" <=> row.status = "suspended"
    /\ status = "terminated" <=> row.status = "terminated"
Dated(row) ==
    row.status = "grace" =>
        row.grace_until # None /\ row.grace_until > row.expires + GraceDays

LEMMA AgreeStep ==
    ASSUME Typed, NEW s \in Subs, SerialStep(s),
           NEW e \in EnvsOf(s), EnvsOf(s) = {e}, Agree(env[e], sub[s])
    PROVE  Agree(env'[e], sub'[s])
<1>0. sub[s] \in SubRow /\ env[e] \in EnvStatus
  BY DEF Typed, TypeOK, EnvsOf
<1>1. CASE Untouched(s)
  BY <1>1 DEF Untouched
<1>2. CASE TickedAlone(s)
  <2>1. PICK now \in Nat, hour \in Hours :
            sub'[s] = TickRow(sub[s], now, hour) /\ env'[e] = TickEnv(sub[s], now, hour, env[e])
    BY <1>2 DEF TickedAlone
  <2>2. sub[s].status \in {"suspended", "terminated"} =>
            TickRow(sub[s], now, hour).status \in {sub[s].status, "terminated"}
    BY <1>0, TickFacts
  <2> QED BY <1>0, <2>1, <2>2, TickEnvFacts DEF Agree
<1>3. CASE RenewedAlone(s)
  <2>1. PICK now \in Nat : sub'[s] = RenewRow(sub[s], now)
    BY <1>3 DEF RenewedAlone
  <2>2. env'[e] = RenewEnv(sub[s], env[e])
    BY <1>3 DEF RenewedAlone
  <2>3. /\ RenewRow(sub[s], now).status \notin {"grace", "suspended"}
        /\ RenewRow(sub[s], now).status = "terminated" <=> sub[s].status = "terminated"
        /\ RenewEnv(sub[s], env[e]) = "terminated" <=> env[e] = "terminated"
        /\ sub[s].status \in {"grace", "suspended"} => RenewEnv(sub[s], env[e]) # "suspended"
        /\ sub[s].status \notin {"grace", "suspended"} => RenewEnv(sub[s], env[e]) = env[e]
    BY <1>0, RenewFacts
  <2> QED BY <2>1, <2>2, <2>3 DEF Agree
<1>4. CASE UpgradedAlone(s)
  <2>1. PICK now \in Nat : sub'[s] = UpgradeRow(sub[s], now)
    BY <1>4 DEF UpgradedAlone
  <2>2. sub'[s].status = "active"
    BY <1>0, <2>1, UpgradeFacts
  <2> QED BY <1>4, <2>2 DEF UpgradedAlone, Agree
<1>5. CASE AutoRenewSetAlone(s)
  <2>1. sub'[s].status = sub[s].status /\ env'[e] = env[e]
    BY <1>0, <1>5 DEF AutoRenewSetAlone, SubRow
  <2> QED BY <2>1 DEF Agree
<1>6. CASE SwitchedAlone(s)
  <2>1. PICK st \in {"active", "suspended", "terminated"} :
            sub'[s] = [sub[s] EXCEPT !.status = st] /\ env'[e] = st
    BY <1>6 DEF SwitchedAlone
  <2>2. sub'[s].status = st
    BY <1>0, <2>1 DEF SubRow
  <2> QED BY <2>1, <2>2 DEF Agree
<1> QED BY <1>1, <1>2, <1>3, <1>4, <1>5, <1>6 DEF SerialStep

LEMMA DatedStep ==
    ASSUME Typed, NEW s \in Subs, SerialStep(s), Dated(sub[s])
    PROVE  Dated(sub'[s])
<1>0. sub[s] \in SubRow
  BY DEF Typed, TypeOK
<1>1. CASE Untouched(s)
  BY <1>1 DEF Untouched
<1>2. CASE TickedAlone(s)
  <2>1. PICK now \in Nat, hour \in Hours : sub'[s] = TickRow(sub[s], now, hour)
    BY <1>2 DEF TickedAlone
  <2>2. CASE sub'[s] = sub[s]
    BY <2>2
  <2>3. CASE sub'[s] # sub[s] /\ sub'[s].status = "grace"
    <3>1. sub'[s].grace_until = now + GraceDays /\ now > sub'[s].expires
      BY <1>0, <2>1, <2>3, TickFacts
    <3>2. TickRow(sub[s], now, hour) \in SubRow
      BY <1>0, <2>1, RowTypes
    <3>3. sub'[s].expires \in Nat
      BY <2>1, <3>2 DEF SubRow
    <3>4. now + GraceDays # None
      BY DEF None
    <3> QED BY <3>1, <3>3, <3>4 DEF Dated
  <2> QED BY <2>2, <2>3 DEF Dated
<1>3. CASE RenewedAlone(s)
  <2>1. sub'[s].status # "grace"
    BY <1>0, <1>3, RenewFacts DEF RenewedAlone, EnvStatus
  <2> QED BY <2>1 DEF Dated
<1>4. CASE UpgradedAlone(s)
  <2>1. sub'[s].status = "active"
    BY <1>0, <1>4, UpgradeFacts DEF UpgradedAlone
  <2> QED BY <2>1 DEF Dated
<1>5. CASE AutoRenewSetAlone(s)
  <2>1. /\ sub'[s].status = sub[s].status /\ sub'[s].grace_until = sub[s].grace_until
        /\ sub'[s].expires = sub[s].expires
    BY <1>0, <1>5 DEF AutoRenewSetAlone, SubRow
  <2> QED BY <2>1 DEF Dated
<1>6. CASE SwitchedAlone(s)
  <2>1. sub'[s].status # "grace"
    BY <1>0, <1>6 DEF SwitchedAlone, SubRow
  <2> QED BY <2>1 DEF Dated
<1> QED BY <1>1, <1>2, <1>3, <1>4, <1>5, <1>6 DEF SerialStep

LEMMA TermsAdd ==
    ASSUME NEW n \in Nat PROVE TermDays * (1 + (n + 1)) = TermDays * (1 + n) + TermDays
OBVIOUS

LEMMA PaidStep ==
    ASSUME Typed, NEW s \in Subs, SerialStep(s), sub[s].expires >= TermDays * (1 + paid[s])
    PROVE  sub'[s].expires >= TermDays * (1 + paid'[s])
<1>0. sub[s] \in SubRow /\ sub[s].expires \in Nat /\ paid[s] \in Nat
      /\ TermDays * (1 + paid[s]) \in Nat
  BY DEF Typed, TypeOK, SubRow
<1>1. CASE Untouched(s)
  BY <1>1 DEF Untouched
<1>2. CASE TickedAlone(s)
  <2>1. PICK now \in Nat, hour \in Hours : sub'[s] = TickRow(sub[s], now, hour) /\ paid'[s] = paid[s]
    BY <1>2 DEF TickedAlone
  <2>2. sub'[s].expires \in Nat /\ sub'[s].expires >= sub[s].expires
    BY <1>0, <2>1, TickFacts, RowTypes DEF SubRow
  <2> QED BY <1>0, <2>1, <2>2
<1>3. CASE RenewedAlone(s)
  <2>1. PICK now \in Nat : sub'[s] = RenewRow(sub[s], now)
    BY <1>3 DEF RenewedAlone
  <2>2. sub'[s].expires >= sub[s].expires + TermDays
    BY <1>0, <2>1, RenewMoves
  <2>3. sub'[s].expires \in Nat
    BY <1>0, <2>1, RowTypes DEF SubRow
  <2>4. TermDays * (1 + paid'[s]) = TermDays * (1 + paid[s]) + TermDays
    BY <1>0, <1>3, TermsAdd DEF RenewedAlone
  <2> QED BY <1>0, <2>2, <2>3, <2>4
<1>4. CASE UpgradedAlone(s)
  <2>1. PICK now \in Nat : sub'[s] = UpgradeRow(sub[s], now)
    BY <1>4 DEF UpgradedAlone
  <2>2. sub'[s].expires \in Nat /\ sub'[s].expires >= sub[s].expires
    BY <1>0, <2>1, UpgradeFacts, RowTypes DEF SubRow
  <2> QED BY <1>0, <1>4, <2>2 DEF UpgradedAlone
<1>5. CASE AutoRenewSetAlone(s)
  BY <1>0, <1>5 DEF AutoRenewSetAlone, SubRow
<1>6. CASE SwitchedAlone(s)
  BY <1>0, <1>6 DEF SwitchedAlone, SubRow
<1> QED BY <1>1, <1>2, <1>3, <1>4, <1>5, <1>6 DEF SerialStep

-------------------------------------------------------------------------------
(***************************************************************************)
(* The inductive invariant and the theorems.                               *)
(***************************************************************************)
Inv == Typed /\ ServiceMatchesBilling /\ GraceHasDeadline /\ PaidTermsApplied

LEMMA InvInit == Init => Inv
<1> SUFFICES ASSUME Init PROVE Inv
  OBVIOUS
<1>1. Typed
  BY TypedInit
<1>2. \A s \in Subs : sub[s].status = "active" /\ sub[s].expires = TermDays /\ paid[s] = 0
  BY DEF Init
<1>3. \A e \in Envs : SubOf[e] \in Subs /\ env[e] \in {"active", "provisioning_failed"}
  BY DEF Init
<1>4. ServiceMatchesBilling
  BY <1>2, <1>3 DEF ServiceMatchesBilling
<1>5. GraceHasDeadline
  BY <1>2 DEF GraceHasDeadline
<1>6. PaidTermsApplied
  BY <1>2 DEF PaidTermsApplied
<1> QED BY <1>1, <1>4, <1>5, <1>6 DEF Inv

LEMMA InvStep == Inv /\ [Next]_vars => Inv'
<1> SUFFICES ASSUME Inv, [Next]_vars PROVE Inv'
  OBVIOUS
<1>1. Typed /\ Typed'
  BY TypedStep DEF Inv
<1>2. \A s \in Subs : s \notin raced' => SerialStep(s) /\ s \notin raced
  BY <1>1, StepIsSerial
<1>3. ServiceMatchesBilling'
  <2>1. SUFFICES ASSUME NEW e \in Envs, Alone(e), SubOf[e] \notin raced'
                 PROVE  Agree(env'[e], sub'[SubOf[e]])
    BY DEF ServiceMatchesBilling, Agree, Serial, Alone, EnvsOf
  <2>2. SubOf[e] \in Subs /\ e \in EnvsOf(SubOf[e])
    BY DEF EnvsOf
  <2>3. Agree(env[e], sub[SubOf[e]])
    BY <1>2, <2>1, <2>2 DEF Inv, ServiceMatchesBilling, Agree, Serial
  <2> QED BY <1>1, <1>2, <2>1, <2>2, <2>3, AgreeStep DEF Alone
<1>4. GraceHasDeadline'
  <2>1. SUFFICES ASSUME NEW s \in Subs, s \notin raced' PROVE Dated(sub'[s])
    BY DEF GraceHasDeadline, Dated, Serial
  <2>2. Dated(sub[s])
    BY <1>2, <2>1 DEF Inv, GraceHasDeadline, Dated, Serial
  <2> QED BY <1>1, <1>2, <2>1, <2>2, DatedStep
<1>5. PaidTermsApplied'
  <2>1. SUFFICES ASSUME NEW s \in Subs, s \notin raced'
                 PROVE  sub'[s].expires >= TermDays * (1 + paid'[s])
    BY DEF PaidTermsApplied, Serial
  <2>2. sub[s].expires >= TermDays * (1 + paid[s])
    BY <1>2, <2>1 DEF Inv, PaidTermsApplied, Serial
  <2> QED BY <1>1, <1>2, <2>1, <2>2, PaidStep
<1> QED BY <1>1, <1>3, <1>4, <1>5 DEF Inv

\* A lone environment is suspended, or terminated, exactly when its
\* subscription is, unless a session has written the subscription stale.
THEOREM ServiceAgrees == Spec => []ServiceMatchesBilling
<1>1. Inv => ServiceMatchesBilling
  BY DEF Inv
<1> QED BY <1>1, InvInit, InvStep, PTL DEF Spec

\* A subscription in grace has a deadline, at least GraceDays after expiry.
THEOREM GraceIsDated == Spec => []GraceHasDeadline
<1>1. Inv => GraceHasDeadline
  BY DEF Inv
<1> QED BY <1>1, InvInit, InvStep, PTL DEF Spec

\* No paid term is lost as long as no session writes stale.
THEOREM PaidTermsKept == Spec => []PaidTermsApplied
<1>1. Inv => PaidTermsApplied
  BY DEF Inv
<1> QED BY <1>1, InvInit, InvStep, PTL DEF Spec

\* What a step that is no request does to a subscription it does not race on.
LEMMA SweepStep ==
    ASSUME Inv, [Next]_vars, req' = req, NEW s \in Subs, s \notin raced'
    PROVE  /\ s \notin raced
           /\ Untouched(s) \/ TickedAlone(s)
BY StepIsSerial DEF Inv, SerialStep

\* The sweep destroys only what has gone unpaid for the retention period.
THEOREM DestroysOnlyUnpaid == Spec => DestroysOnlyLongUnpaid
<1>1. ASSUME Inv, [Next]_vars
      PROVE  \A e \in Envs : Destroyed(e) /\ req' = req /\ SubOf[e] \notin raced' =>
                sub[SubOf[e]].expires + TerminateDays <= day
  <2>1. SUFFICES ASSUME NEW e \in Envs, Destroyed(e), req' = req, SubOf[e] \notin raced'
                 PROVE  sub[SubOf[e]].expires + TerminateDays <= day
    OBVIOUS
  <2> DEFINE s == SubOf[e]
  <2>2. s \in Subs /\ e \in EnvsOf(s)
    BY DEF EnvsOf
  <2>3. TickedAlone(s)
    BY <1>1, <2>1, <2>2, SweepStep DEF Untouched, Destroyed
  <2>4. PICK now \in Nat, hour \in Hours :
            /\ now <= day /\ sub'[s] = TickRow(sub[s], now, hour)
            /\ env'[e] = TickEnv(sub[s], now, hour, env[e])
    BY <2>2, <2>3 DEF TickedAlone
  <2>5. sub[s] \in SubRow /\ env[e] \in EnvStatus /\ day \in Nat /\ sub[s].expires \in Nat
    BY <1>1, <2>2 DEF Inv, Typed, TypeOK, SubRow
  <2>6. TickRow(sub[s], now, hour).status = "terminated" /\ sub[s].status # "terminated"
    BY <2>1, <2>4, <2>5, TickEnvFacts DEF Destroyed
  <2>7. now >= sub[s].expires + TerminateDays
    BY <2>5, <2>6, TickFacts
  <2> QED BY <2>4, <2>5, <2>7
<1> QED BY <1>1, InvInit, InvStep, PTL DEF Spec, DestroysOnlyLongUnpaid

\* The sweep suspends nobody within the promised days of grace.
THEOREM GraceIsGranted == Spec => SuspendsOnlyAfterGrace
<1>1. ASSUME Inv, [Next]_vars
      PROVE  \A s \in Subs : CutOff(s) /\ req' = req /\ s \notin raced' =>
                sub[s].expires + GraceDays < day
  <2>1. SUFFICES ASSUME NEW s \in Subs, CutOff(s), req' = req, s \notin raced'
                 PROVE  sub[s].expires + GraceDays < day
    OBVIOUS
  <2>2. s \notin raced /\ TickedAlone(s)
    BY <1>1, <2>1, SweepStep DEF Untouched, CutOff
  <2>3. PICK now \in Nat, hour \in Hours : now <= day /\ sub'[s] = TickRow(sub[s], now, hour)
    BY <2>2 DEF TickedAlone
  <2>4. sub[s] \in SubRow /\ day \in Nat /\ sub[s].expires \in Nat
        /\ (sub[s].grace_until # None => sub[s].grace_until \in Nat)
    BY <1>1 DEF Inv, Typed, TypeOK, SubRow
  <2>5. sub[s].status = "grace" /\ sub[s].grace_until # None /\ now >= sub[s].grace_until
    BY <2>1, <2>3, <2>4, TickFacts DEF CutOff
  <2>6. sub[s].grace_until > sub[s].expires + GraceDays
    BY <1>1, <2>2, <2>5 DEF Inv, GraceHasDeadline, Serial
  <2> QED BY <2>3, <2>4, <2>5, <2>6
<1> QED BY <1>1, InvInit, InvStep, PTL DEF Spec, SuspendsOnlyAfterGrace

\* Terminated is final, whoever asks.
THEOREM TerminationIsFinal == Spec => TerminatedIsFinal
<1>1. ASSUME Inv, [Next]_vars
      PROVE  \A e \in Envs : env[e] = "terminated" /\ SubOf[e] \notin raced' =>
                env'[e] = "terminated"
  <2>1. SUFFICES ASSUME NEW e \in Envs, env[e] = "terminated", SubOf[e] \notin raced'
                 PROVE  env'[e] = "terminated"
    OBVIOUS
  <2> DEFINE s == SubOf[e]
  <2>2. s \in Subs /\ e \in EnvsOf(s) /\ sub[s] \in SubRow /\ env[e] \in EnvStatus
    BY <1>1 DEF EnvsOf, Inv, Typed, TypeOK
  <2>3. SerialStep(s)
    BY <1>1, <2>1, <2>2, StepIsSerial DEF Inv
  <2>4. CASE TickedAlone(s)
    BY <2>1, <2>2, <2>4, TickEnvFacts DEF TickedAlone
  <2>5. CASE RenewedAlone(s)
    <3>1. env'[e] = RenewEnv(sub[s], env[e])
      BY <2>2, <2>5 DEF RenewedAlone
    <3> QED BY <2>1, <3>1 DEF RenewEnv
  <2>6. CASE SwitchedAlone(s)
    BY <2>1, <2>2, <2>6 DEF SwitchedAlone
  <2>7. CASE Untouched(s) \/ UpgradedAlone(s) \/ AutoRenewSetAlone(s)
    BY <2>1, <2>2, <2>7 DEF Untouched, UpgradedAlone, AutoRenewSetAlone
  <2> QED BY <2>3, <2>4, <2>5, <2>6, <2>7 DEF SerialStep
<1> QED BY <1>1, InvInit, InvStep, PTL DEF Spec, TerminatedIsFinal

-------------------------------------------------------------------------------
(***************************************************************************)
(* OverdueServiceIsBounded.  Under Timely a sweep that began today has     *)
(* committed before midnight.  What it leaves behind of a subscription     *)
(* nobody raced on (SeenBy): paid up to that day, or in grace with a       *)
(* deadline still ahead.  That has to survive the sweeps and requests      *)
(* still in progress, which know an older day and older rows:              *)
(*   - a term granted by a session reaches today however old the session's *)
(*     clock is, since no session stays open for a term (Young);           *)
(*   - a sweep of today that has loaded a row it will not change need not  *)
(*     hold the committed row any more, but whoever wrote that one left it *)
(*     as good as the sweep would have (Passed).                           *)
(***************************************************************************)
SeenBy(row, res, d) ==
    /\ row.status = "active" => d <= Later(row.expires, res)
    /\ row.status = "grace" => d <= row.grace_until \/ d <= Later(row.expires, res)
Bounded(row, res) ==
    row.status = "grace" => row.grace_until <= Later(row.expires, res) + 1 + GraceDays
Passed(s) ==
    \A w \in Sweepers :
        /\ sweep[w] # IdleSweep
        /\ sweep[w].now = day
        /\ \E hour \in Hours : TickRow(sweep[w].rows[s], day, hour) = sweep[w].rows[s]
        => SeenBy(sub[s], resumed[s], day)

\* The last day a completed sweep has seen.
LastSwept == IF swept THEN day ELSE day - 1

DailySwept ==
    \A s \in Subs : Timely /\ Serial(s) =>
        /\ SeenBy(sub[s], resumed[s], LastSwept)
        /\ Bounded(sub[s], resumed[s])
        /\ Passed(s)
Young ==
    /\ \A w \in Sweepers : sweep[w] # IdleSweep => day <= sweep[w].now + TermDays
    /\ \A c \in Requests : req[c] # IdleReq => day <= req[c].now + TermDays
DailyInv == Inv /\ Young /\ DailySwept

LEMMA YoungClocks ==
    ASSUME Typed, Young, NEW now \in Clocks
    PROVE  now \in Nat /\ day <= now + TermDays
BY SweepTyped, ReqTyped DEF Young, Clocks

\* A tick leaves alone what is paid for or still in grace, and nothing else;
\* it starts grace only for a row that was active.
LEMMA TickStages ==
    ASSUME NEW row \in SubRow, NEW now \in Nat, NEW hour \in Hours
    PROVE  LET new == TickRow(row, now, hour) IN
           /\ new.status = "active" => new = row \/ new.expires >= now + TermDays
           /\ new.status = "grace" =>
                \/ new = row
                \/ /\ row.status = "active" /\ new.expires = row.expires
                   /\ new.grace_until = now + GraceDays
           /\ new = row /\ row.status = "active" => now <= row.expires
           /\ new = row /\ row.status = "grace" /\ row.grace_until # None =>
                now <= row.grace_until
<1> DEFINE lapsed == Lapse(row, now)
           cut == IF GraceEnds(lapsed, now, hour) THEN [lapsed EXCEPT !.status = "suspended"] ELSE lapsed
           new == TickRow(row, now, hour)
<1>1. row.expires \in Nat /\ row.grace_until \in Nat \cup {None}
  BY DEF SubRow
<1>2. new = IF Retired(cut, now, hour) THEN [cut EXCEPT !.status = "terminated"] ELSE cut
  BY DEF TickRow
<1>3. CASE row.status = "active" /\ now > row.expires /\ row.auto_renew /\ ~PaystackKey
  <2>1. lapsed = RenewRow(row, now) /\ lapsed.status = "active"
    BY <1>3 DEF Lapse, RenewRow, SubRow
  <2>2. new = lapsed
    BY <1>2, <2>1 DEF GraceEnds, Retired, Reached
  <2>3. /\ new.expires = Later(row.expires, now) + TermDays
        /\ new # row
    BY <2>1, <2>2, RenewMoves
  <2>4. new.expires >= now + TermDays
    BY <1>1, <2>3 DEF Later
  <2>5. new.status = "active"
    BY <2>1, <2>2
  <2> HIDE DEF new
  <2> QED BY <2>3, <2>4, <2>5 DEF new
<1>4. CASE row.status = "active" /\ now > row.expires /\ ~(row.auto_renew /\ ~PaystackKey)
  <2>1. lapsed = [row EXCEPT !.status = "grace", !.grace_until = now + GraceDays]
    BY <1>4 DEF Lapse
  <2>2. /\ lapsed.status = "grace" /\ lapsed.grace_until = now + GraceDays
        /\ lapsed.expires = row.expires
    BY <2>1 DEF SubRow
  <2>3. ~GraceEnds(lapsed, now, hour)
    BY <2>2 DEF GraceEnds, Reached
  <2>4. new = lapsed
    BY <1>2, <2>2, <2>3 DEF Retired
  <2> HIDE DEF new, lapsed
  <2>5. new # row
    BY <1>4, <2>2, <2>4
  <2> QED BY <1>4, <2>2, <2>4, <2>5 DEF new
<1>5. CASE ~(row.status = "active" /\ now > row.expires)
  <2>1. lapsed = row
    BY <1>5 DEF Lapse
  <2>2. CASE GraceEnds(row, now, hour)
    <3>1. cut.status = "suspended"
      BY <2>1, <2>2 DEF SubRow
    <3>2. new.status \in {"suspended", "terminated"}
      BY <1>2, <2>1, <2>2, <3>1 DEF SubRow
    <3>3. row.status = "grace"
      BY <2>2 DEF GraceEnds
    <3> QED BY <3>2, <3>3
  <2>3. CASE ~GraceEnds(row, now, hour)
    <3>1. new = IF Retired(row, now, hour) THEN [row EXCEPT !.status = "terminated"] ELSE row
      BY <1>2, <2>1, <2>3
    <3>2. new = row \/ new.status = "terminated"
      BY <3>1 DEF SubRow
    <3>3. row.status = "active" => now <= row.expires
      BY <1>1, <1>5
    <3>4. row.status = "grace" /\ row.grace_until # None => now <= row.grace_until
      BY <1>1, <2>3 DEF GraceEnds, Reached, None
    <3> HIDE DEF new
    <3> QED BY <3>2, <3>3, <3>4 DEF new
  <2> QED BY <2>2, <2>3
<1> QED BY <1>3, <1>4, <1>5

\* What has been seen by day d stays so, whichever handler commits.
LEMMA SeenStep ==
    ASSUME Typed, Young, NEW s \in Subs, SerialStep(s),
           NEW d \in Int, d <= day, SeenBy(sub[s], resumed[s], d)
    PROVE  SeenBy(sub'[s], resumed'[s], d)
<1>0. /\ sub[s] \in SubRow /\ sub[s].expires \in Nat /\ day \in Nat
      /\ resumed[s] \in Nat \cup {None}
  BY DEF Typed, TypeOK, SubRow
<1>1. CASE Untouched(s)
  BY <1>1 DEF Untouched
<1>2. CASE TickedAlone(s)
  <2>1. PICK now \in Nat, hour \in Hours : now \in Clocks /\ sub'[s] = TickRow(sub[s], now, hour)
    BY <1>2 DEF TickedAlone
  <2>2. resumed'[s] = resumed[s] /\ day <= now + TermDays
    BY <1>2, <2>1, YoungClocks DEF TickedAlone
  <2> DEFINE new == TickRow(sub[s], now, hour)
  <2>3. /\ new \in SubRow
        /\ new.status = "active" => new = sub[s] \/ new.expires >= now + TermDays
        /\ new.status = "grace" =>
                new = sub[s] \/ (sub[s].status = "active" /\ new.expires = sub[s].expires)
    BY <1>0, TickStages, RowTypes
  <2>4. new.expires \in Nat
    BY <2>3 DEF SubRow
  <2> HIDE DEF new
  <2>5. SeenBy(new, resumed[s], d)
    <3>1. CASE new = sub[s]
      BY <3>1
    <3>2. CASE new # sub[s]
      <4>1. new.status = "active" => d <= Later(new.expires, resumed[s])
        BY <1>0, <2>2, <2>3, <2>4, <3>2 DEF Later, None
      <4>2. new.status = "grace" => d <= Later(new.expires, resumed[s])
        BY <2>3, <3>2 DEF SeenBy
      <4> QED BY <4>1, <4>2 DEF SeenBy
    <3> QED BY <3>1, <3>2
  <2> QED BY <2>1, <2>2, <2>5 DEF new
<1>3. CASE RenewedAlone(s)
  <2>1. PICK now \in Nat : now \in Clocks /\ sub'[s] = RenewRow(sub[s], now)
    BY <1>3 DEF RenewedAlone
  <2>2. resumed'[s] = resumed[s] /\ day <= now + TermDays
    BY <1>3, <2>1, YoungClocks DEF RenewedAlone
  <2> DEFINE new == RenewRow(sub[s], now)
  <2>3. new.expires = Later(sub[s].expires, now) + TermDays /\ new.status # "grace"
    BY <1>0, RenewMoves, RenewFacts DEF EnvStatus
  <2> HIDE DEF new
  <2>4. d <= Later(new.expires, resumed[s])
    BY <1>0, <2>2, <2>3 DEF Later, None
  <2> QED BY <2>1, <2>2, <2>3, <2>4 DEF new, SeenBy
<1>4. CASE UpgradedAlone(s)
  <2>1. PICK now \in Nat : now \in Clocks /\ sub'[s] = UpgradeRow(sub[s], now)
    BY <1>4 DEF UpgradedAlone
  <2>2. resumed'[s] = resumed[s] /\ day <= now + TermDays
    BY <1>4, <2>1, YoungClocks DEF UpgradedAlone
  <2> DEFINE new == UpgradeRow(sub[s], now)
  <2>3. new.expires = Later(sub[s].expires, now + TermDays) /\ new.status = "active"
    BY <1>0 DEF UpgradeRow, SubRow
  <2> HIDE DEF new
  <2>4. d <= Later(new.expires, resumed[s])
    BY <1>0, <2>2, <2>3 DEF Later, None
  <2> QED BY <2>1, <2>2, <2>3, <2>4 DEF new, SeenBy
<1>5. CASE AutoRenewSetAlone(s)
  <2>1. /\ sub'[s].status = sub[s].status /\ sub'[s].grace_until = sub[s].grace_until
        /\ sub'[s].expires = sub[s].expires /\ resumed'[s] = resumed[s]
    BY <1>0, <1>5 DEF AutoRenewSetAlone, SubRow
  <2> QED BY <2>1 DEF SeenBy
<1>6. CASE SwitchedAlone(s)
  <2>1. PICK st \in {"active", "suspended", "terminated"} :
            /\ sub'[s] = [sub[s] EXCEPT !.status = st]
            /\ resumed'[s] = IF st = "active" THEN day ELSE resumed[s]
    BY <1>6 DEF SwitchedAlone
  <2>2. sub'[s].status = st /\ sub'[s].expires = sub[s].expires
    BY <1>0, <2>1 DEF SubRow
  <2>3. d <= Later(sub[s].expires, day)
    BY <1>0 DEF Later
  <2> QED BY <2>1, <2>2, <2>3 DEF SeenBy
<1> QED BY <1>1, <1>2, <1>3, <1>4, <1>5, <1>6 DEF SerialStep

\* A grace deadline is at most the grace period after the day the row lapsed,
\* and it lapsed on the first day a sweep could see it.
LEMMA BoundedStep ==
    ASSUME Typed, NEW s \in Subs, SerialStep(s), Bounded(sub[s], resumed[s]),
           NEW d \in Int, day <= d + 1, SeenBy(sub[s], resumed[s], d)
    PROVE  Bounded(sub'[s], resumed'[s])
<1>0. /\ sub[s] \in SubRow /\ sub[s].expires \in Nat /\ day \in Nat
      /\ resumed[s] \in Nat \cup {None}
  BY DEF Typed, TypeOK, SubRow
<1>1. CASE Untouched(s)
  BY <1>1 DEF Untouched
<1>2. CASE TickedAlone(s)
  <2>1. PICK now \in Nat, hour \in Hours : now <= day /\ sub'[s] = TickRow(sub[s], now, hour)
    BY <1>2 DEF TickedAlone
  <2>2. resumed'[s] = resumed[s]
    BY <1>2 DEF TickedAlone
  <2> DEFINE new == TickRow(sub[s], now, hour)
  <2>3. new.status = "grace" =>
            \/ new = sub[s]
            \/ /\ sub[s].status = "active" /\ new.expires = sub[s].expires
               /\ new.grace_until = now + GraceDays
    BY <1>0, TickStages
  <2> HIDE DEF new
  <2>4. ASSUME new.status = "grace", new # sub[s]
        PROVE  new.grace_until <= Later(new.expires, resumed[s]) + 1 + GraceDays
    <3>1. d <= Later(new.expires, resumed[s])
      BY <2>3, <2>4 DEF SeenBy
    <3>2. Later(new.expires, resumed[s]) \in Int
      BY <1>0, <2>3, <2>4 DEF Later, None
    <3> QED BY <1>0, <2>1, <2>3, <2>4, <3>1, <3>2
  <2>5. Bounded(new, resumed[s])
    BY <2>4 DEF Bounded
  <2> QED BY <2>1, <2>2, <2>5 DEF new
<1>3. CASE RenewedAlone(s)
  BY <1>0, <1>3, RenewFacts DEF RenewedAlone, EnvStatus, Bounded
<1>4. CASE UpgradedAlone(s)
  BY <1>0, <1>4, UpgradeFacts DEF UpgradedAlone, Bounded
<1>5. CASE AutoRenewSetAlone(s)
  <2>1. /\ sub'[s].status = sub[s].status /\ sub'[s].grace_until = sub[s].grace_until
        /\ sub'[s].expires = sub[s].expires /\ resumed'[s] = resumed[s]
    BY <1>0, <1>5 DEF AutoRenewSetAlone, SubRow
  <2> QED BY <2>1 DEF Bounded
<1>6. CASE SwitchedAlone(s)
  <2>1. sub'[s].status # "grace"
    BY <1>0, <1>6 DEF SwitchedAlone, SubRow
  <2> QED BY <2>1 DEF Bounded
<1> QED BY <1>1, <1>2, <1>3, <1>4, <1>5, <1>6 DEF SerialStep

\* Which sessions a step can start, and with which clock and rows.
LEMMA SweepMoves ==
    ASSUME Typed, NEW w \in Sweepers, TickStep(w), NEW x \in Sweepers, sweep'[x] # IdleSweep
    PROVE  \/ /\ sweep[x] # IdleSweep /\ sweep'[x].now = sweep[x].now
              /\ sweep'[x].rows = sweep[x].rows
           \/ /\ TickBegin(w) /\ x = w
              /\ sweep'[x].now = day /\ sweep'[x].rows = sub
<1>1. CASE TickBegin(w)
  BY <1>1 DEF TickBegin, Typed, TypeOK
<1>2. ASSUME NEW s \in Subs, TickSub(w, s) PROVE sweep[x] # IdleSweep
                /\ sweep'[x].now = sweep[x].now /\ sweep'[x].rows = sweep[x].rows
  <2>1. sweep[w] \in [now: Nat, todo: SUBSET Subs, rows: [Subs -> SubRow], envs: [Envs -> Loaded]]
    BY <1>2 DEF TickSub, Typed, TypeOK, SweepState
  <2>2. CASE x = w
    BY <1>2, <2>1, <2>2 DEF TickSub, Typed, TypeOK
  <2>3. CASE x # w
    BY <1>2, <2>3 DEF TickSub, Typed, TypeOK
  <2> QED BY <2>2, <2>3
<1>3. CASE TickCommit(w) \/ TickAbort(w)
  BY <1>3 DEF TickCommit, TickAbort, Typed, TypeOK
<1> QED BY <1>1, <1>2, <1>3 DEF TickStep

LEMMA RequestMoves ==
    ASSUME Typed, NEW c \in Requests, ReqStep(c)
    PROVE  /\ day' = day /\ sweep' = sweep /\ swept' = swept
           /\ \A x \in Requests : req'[x] # IdleReq =>
                \/ req[x] # IdleReq /\ req'[x].now = req[x].now
                \/ req'[x].now = day
<1>1. CASE Begin(c)
  <2>1. PICK op \in SubOps \cup EnvOps, s \in Subs, e \in Envs \cup {None} : Load(c, op, s, e)
    BY <1>1 DEF Begin
  <2> QED BY <2>1 DEF Load, Typed, TypeOK
<1>2. CASE ~Begin(c)
  <2>1. day' = day /\ sweep' = sweep /\ swept' = swept /\ req' = [req EXCEPT ![c] = IdleReq]
    BY <1>2 DEF ReqStep, Renew, Upgrade, SetAutoRenew, Suspend, Restore, Terminate, Abort, Commit
  <2> QED BY <2>1 DEF Typed, TypeOK
<1> QED BY <1>1, <1>2

\* No session stays open for a whole term.
LEMMA YoungStep ==
    ASSUME Typed, Young, [Next]_vars PROVE Young'
<1>0. /\ day \in Nat
      /\ \A w \in Sweepers : sweep[w] # IdleSweep => sweep[w].now \in Nat
      /\ \A c \in Requests : req[c] # IdleReq => req[c].now \in Nat
  BY SweepTyped, ReqTyped DEF Typed, TypeOK
<1>1. CASE NextDay
  <2>1. day' = day + 1 /\ sweep' = sweep /\ req' = req
    BY <1>1 DEF NextDay
  <2>2. ASSUME NEW w \in Sweepers, sweep[w] # IdleSweep PROVE day + 1 <= sweep[w].now + TermDays
    <3>1. day - sweep[w].now < SessionDays
      BY <1>1, <2>2 DEF NextDay
    <3> QED BY <1>0, <2>2, <3>1, SessionAssumption
  <2>3. ASSUME NEW c \in Requests, req[c] # IdleReq PROVE day + 1 <= req[c].now + TermDays
    <3>1. day - req[c].now < SessionDays
      BY <1>1, <2>3 DEF NextDay
    <3> QED BY <1>0, <2>3, <3>1, SessionAssumption
  <2> QED BY <2>1, <2>2, <2>3 DEF Young
<1>2. ASSUME day' = day,
             \A w \in Sweepers : sweep'[w] # IdleSweep =>
                \/ sweep[w] # IdleSweep /\ sweep'[w].now = sweep[w].now
                \/ sweep'[w].now = day,
             \A c \in Requests : req'[c] # IdleReq =>
                \/ req[c] # IdleReq /\ req'[c].now = req[c].now
                \/ req'[c].now = day
      PROVE  Young'
  BY <1>0, <1>2 DEF Young
<1>3. ASSUME NEW w \in Sweepers, TickStep(w) PROVE Young'
  <2>1. day' = day /\ req' = req
    BY <1>3 DEF TickStep, TickBegin, TickSub, TickCommit, TickAbort
  <2>2. \A x \in Sweepers : sweep'[x] # IdleSweep =>
            \/ sweep[x] # IdleSweep /\ sweep'[x].now = sweep[x].now
            \/ sweep'[x].now = day
    BY <1>3, SweepMoves
  <2> QED BY <1>2, <2>1, <2>2
<1>4. ASSUME NEW c \in Requests, ReqStep(c) PROVE Young'
  <2>1. day' = day /\ sweep' = sweep
    BY <1>4, RequestMoves
  <2>2. \A x \in Requests : req'[x] # IdleReq =>
            \/ req[x] # IdleReq /\ req'[x].now = req[x].now
            \/ req'[x].now = day
    BY <1>4, RequestMoves
  <2> QED BY <1>2, <2>1, <2>2
<1>5. CASE UNCHANGED vars
  BY <1>2, <1>5 DEF vars
<1> QED BY <1>1, <1>3, <1>4, <1>5 DEF Next

\* What the sweep has seen, and the grace it has granted, once a handler that
\* did not race has committed.
LEMMA SeenKept ==
    ASSUME DailyInv, Timely, NEW s \in Subs, SerialStep(s), s \notin raced
    PROVE  /\ SeenBy(sub'[s], resumed'[s], LastSwept)
           /\ Bounded(sub'[s], resumed'[s])
           /\ SeenBy(sub[s], resumed[s], day) => SeenBy(sub'[s], resumed'[s], day)
<1>1. day \in Nat /\ swept \in BOOLEAN /\ Typed /\ Young
  BY DEF DailyInv, Inv, Typed, TypeOK
<1>2. LastSwept \in Int /\ LastSwept <= day /\ day <= LastSwept + 1
  BY <1>1 DEF LastSwept
<1>3. SeenBy(sub[s], resumed[s], LastSwept) /\ Bounded(sub[s], resumed[s])
  BY DEF DailyInv, DailySwept, Serial
<1>4. SeenBy(sub'[s], resumed'[s], LastSwept)
  BY <1>1, <1>2, <1>3, SeenStep
<1>5. Bounded(sub'[s], resumed'[s])
  BY <1>1, <1>2, <1>3, BoundedStep
<1>6. SeenBy(sub[s], resumed[s], day) => SeenBy(sub'[s], resumed'[s], day)
  BY <1>1, SeenStep
<1> QED BY <1>4, <1>5, <1>6

\* A sweep begins on a row it will change, or that is good for today.
LEMMA BeginSeen ==
    ASSUME DailyInv, NEW s \in Subs, s \notin raced,
           NEW hour \in Hours, TickRow(sub[s], day, hour) = sub[s]
    PROVE  SeenBy(sub[s], resumed[s], day)
<1>1. /\ sub[s] \in SubRow /\ day \in Nat /\ sub[s].expires \in Nat
      /\ resumed[s] \in Nat \cup {None}
  BY DEF DailyInv, Inv, Typed, TypeOK, SubRow
<1>2. sub[s].status = "grace" => sub[s].grace_until # None
  BY DEF DailyInv, Inv, GraceHasDeadline, Serial
<1>3. /\ sub[s].status = "active" => day <= sub[s].expires
      /\ sub[s].status = "grace" => day <= sub[s].grace_until
  BY <1>1, <1>2, TickStages
<1>4. day <= sub[s].expires => day <= Later(sub[s].expires, resumed[s])
  BY <1>1 DEF Later, None
<1> QED BY <1>3, <1>4 DEF SeenBy

\* A sweep of today leaves every subscription it did not race on good for
\* today, whether it wrote the subscription or not.
LEMMA CommitSeen ==
    ASSUME DailyInv, Timely, NEW w \in Sweepers, TickCommit(w), sweep[w].now = day,
           NEW s \in Subs, s \notin raced', s \notin raced
    PROVE  SeenBy(sub'[s], resumed'[s], day)
<1> DEFINE t == sweep[w]
<1>0. PICK hours \in [Subs -> Hours] :
            /\ sub' = [x \in Subs |-> MergeRow(sub[x], t.rows[x],
                                               TickRow(t.rows[x], day, hours[x]))]
            /\ raced' = raced \cup {x \in Subs : TickWrites(t, x, hours[x]) /\ TickStale(t, x)}
  BY DEF TickCommit
<1> DEFINE hour == hours[s]
           new == TickRow(t.rows[s], day, hour)
<1>1. /\ Typed /\ day \in Nat /\ t.rows[s] \in SubRow /\ sub[s] \in SubRow
      /\ sub[s].expires \in Nat /\ resumed[s] \in Nat \cup {None}
      /\ t # IdleSweep /\ hour \in Hours
  BY <1>0, SweepTyped DEF DailyInv, Inv, TickCommit, Typed, TypeOK, SubRow
<1>2. sub'[s] = MergeRow(sub[s], t.rows[s], new) /\ resumed'[s] = resumed[s]
  BY <1>0 DEF TickCommit
<1>3. new \in SubRow
  BY <1>1, RowTypes
<1>4. CASE new = t.rows[s]
  <2>1. sub'[s] = sub[s]
    BY <1>1, <1>2, <1>3, <1>4, MergeFresh
  <2>2. SeenBy(sub[s], resumed[s], day)
    BY <1>1, <1>4 DEF DailyInv, DailySwept, Serial, Passed
  <2> QED BY <1>2, <2>1, <2>2
<1>5. CASE new # t.rows[s]
  <2>1. TickWrites(t, s, hour)
    BY <1>5 DEF TickWrites
  <2>2. t.rows[s] = sub[s]
    BY <1>0, <2>1 DEF TickStale
  <2>3. sub'[s] = new
    BY <1>1, <1>2, <1>3, <2>2, MergeFresh
  <2>4. /\ new.status = "active" => new.expires >= day + TermDays
        /\ new.status = "grace" => new.grace_until = day + GraceDays
    BY <1>1, <1>5, <2>2, TickStages
  <2>5. new.expires \in Nat
    BY <1>3 DEF SubRow
  <2> HIDE DEF new
  <2>6. new.status = "active" => day <= Later(new.expires, resumed[s])
    BY <1>1, <2>4, <2>5 DEF Later, None
  <2>7. new.status = "grace" => day <= new.grace_until
    BY <1>1, <2>4
  <2> QED BY <1>2, <2>3, <2>6, <2>7 DEF SeenBy
<1> QED BY <1>4, <1>5

LEMMA DailyInit == Init => DailyInv
<1> SUFFICES ASSUME Init PROVE DailyInv
  OBVIOUS
<1>1. Inv
  BY InvInit
<1>2. Young
  BY DEF Init, Young
<1>3. ASSUME NEW s \in Subs
      PROVE  /\ SeenBy(sub[s], resumed[s], LastSwept)
             /\ Bounded(sub[s], resumed[s]) /\ Passed(s)
  <2>1. /\ day = 0 /\ swept = FALSE /\ resumed[s] = None
        /\ sub[s].status = "active" /\ sub[s].expires = TermDays
    BY DEF Init
  <2>2. LastSwept = -1 /\ Later(TermDays, None) = TermDays
    BY <2>1 DEF LastSwept, Later, None
  <2>3. SeenBy(sub[s], resumed[s], LastSwept) /\ Bounded(sub[s], resumed[s])
    BY <2>1, <2>2 DEF SeenBy, Bounded
  <2>4. Passed(s)
    BY DEF Init, Passed
  <2> QED BY <2>3, <2>4
<1> QED BY <1>1, <1>2, <1>3 DEF DailyInv, DailySwept

LEMMA DailyStep == DailyInv /\ [Next]_vars => DailyInv'
<1> SUFFICES ASSUME DailyInv, [Next]_vars PROVE DailyInv'
  OBVIOUS
<1>1. Typed /\ Inv /\ Young /\ Inv' /\ Young'
  BY InvStep, YoungStep DEF DailyInv, Inv
<1>2. ASSUME NEW s \in Subs, Timely, s \notin raced'
      PROVE  /\ SeenBy(sub'[s], resumed'[s], LastSwept')
             /\ Bounded(sub'[s], resumed'[s])
             /\ Passed(s)'
  <2>0. /\ SerialStep(s) /\ s \notin raced
        /\ day \in Nat /\ swept \in BOOLEAN
    BY <1>1, <1>2, StepIsSerial DEF Typed, TypeOK
  <2>1. /\ SeenBy(sub'[s], resumed'[s], LastSwept)
        /\ Bounded(sub'[s], resumed'[s])
        /\ SeenBy(sub[s], resumed[s], day) => SeenBy(sub'[s], resumed'[s], day)
        /\ Passed(s)
    BY <1>2, <2>0, SeenKept DEF DailyInv, DailySwept, Serial
  <2>2. ASSUME day' = day,
               \A x \in Sweepers : sweep'[x] # IdleSweep =>
                    /\ sweep[x] # IdleSweep /\ sweep'[x].now = sweep[x].now
                    /\ sweep'[x].rows = sweep[x].rows
        PROVE  Passed(s)'
    <3>1. SUFFICES ASSUME NEW x \in Sweepers, sweep'[x] # IdleSweep, sweep'[x].now = day,
                          NEW hour \in Hours,
                          TickRow(sweep'[x].rows[s], day, hour) = sweep'[x].rows[s]
                   PROVE  SeenBy(sub'[s], resumed'[s], day)
      BY <2>2 DEF Passed
    <3>2. SeenBy(sub[s], resumed[s], day)
      BY <2>1, <2>2, <3>1 DEF Passed
    <3> QED BY <2>1, <3>2
  <2>3. CASE NextDay
    <3>1. swept /\ swept' = FALSE /\ day' = day + 1 /\ sweep' = sweep
      BY <1>2, <2>3 DEF NextDay
    <3>2. LastSwept' = LastSwept
      BY <2>0, <3>1 DEF LastSwept
    <3>3. \A x \in Sweepers : sweep[x] # IdleSweep => sweep[x].now # day + 1
      BY <1>1, <2>0, SweepTyped
    <3>4. Passed(s)'
      BY <3>1, <3>3 DEF Passed
    <3> QED BY <2>1, <3>2, <3>4
  <2>4. ASSUME NEW w \in Sweepers, TickBegin(w)
        PROVE  SeenBy(sub'[s], resumed'[s], LastSwept') /\ Passed(s)'
    <3>1. day' = day /\ swept' = swept /\ sub' = sub /\ resumed' = resumed
      BY <2>4 DEF TickBegin
    <3>2. LastSwept' = LastSwept
      BY <3>1 DEF LastSwept
    <3>3. SUFFICES ASSUME NEW x \in Sweepers, sweep'[x] # IdleSweep, sweep'[x].now = day,
                          NEW hour \in Hours,
                          TickRow(sweep'[x].rows[s], day, hour) = sweep'[x].rows[s]
                   PROVE  SeenBy(sub'[s], resumed'[s], day)
      BY <2>1, <3>1, <3>2 DEF Passed
    <3>4. CASE /\ sweep[x] # IdleSweep /\ sweep'[x].now = sweep[x].now
               /\ sweep'[x].rows = sweep[x].rows
      <4>1. SeenBy(sub[s], resumed[s], day)
        BY <2>1, <3>3, <3>4 DEF Passed
      <4> QED BY <2>1, <4>1
    <3>5. CASE sweep'[x].rows = sub
      <4>1. SeenBy(sub[s], resumed[s], day)
        BY <2>0, <3>3, <3>5, BeginSeen
      <4> QED BY <2>1, <4>1
    <3> QED BY <1>1, <2>4, <3>3, <3>4, <3>5, SweepMoves DEF TickStep
  <2>5. ASSUME NEW w \in Sweepers, TickStep(w), ~TickBegin(w)
        PROVE  SeenBy(sub'[s], resumed'[s], LastSwept') /\ Passed(s)'
    <3>1. day' = day
      BY <2>5 DEF TickStep, TickSub, TickCommit, TickAbort
    <3>2. Passed(s)'
      BY <1>1, <2>2, <2>5, <3>1, SweepMoves
    <3>3. CASE TickCommit(w) /\ sweep[w].now = day
      <4>1. LastSwept' = day
        BY <3>1, <3>3 DEF LastSwept, TickCommit
      <4>2. SeenBy(sub'[s], resumed'[s], day)
        BY <1>2, <2>0, <3>3, CommitSeen
      <4> QED BY <3>2, <4>1, <4>2
    <3>4. CASE ~(TickCommit(w) /\ sweep[w].now = day)
      <4>1. swept' = swept
        <5>1. CASE TickCommit(w)
          <6>1. swept' = (swept \/ sweep[w].now = day)
            BY <5>1 DEF TickCommit
          <6>2. sweep[w].now # day
            BY <3>4, <5>1
          <6> QED BY <2>0, <6>1, <6>2, Zenon
        <5>2. CASE ~TickCommit(w)
          BY <2>5, <5>2 DEF TickStep, TickSub, TickAbort
        <5> QED BY <5>1, <5>2
      <4>2. LastSwept' = LastSwept
        BY <3>1, <4>1 DEF LastSwept
      <4> QED BY <2>1, <3>2, <4>2
    <3> QED BY <3>3, <3>4
  <2>6. ASSUME NEW c \in Requests, ReqStep(c)
        PROVE  SeenBy(sub'[s], resumed'[s], LastSwept') /\ Passed(s)'
    <3>1. day' = day /\ sweep' = sweep /\ swept' = swept
      BY <1>1, <2>6, RequestMoves
    <3>2. LastSwept' = LastSwept
      BY <3>1 DEF LastSwept
    <3> QED BY <2>1, <2>2, <3>1, <3>2
  <2>7. CASE UNCHANGED vars
    <3>1. day' = day /\ sweep' = sweep /\ swept' = swept
      BY <2>7 DEF vars
    <3>2. LastSwept' = LastSwept
      BY <3>1 DEF LastSwept
    <3> QED BY <2>1, <2>2, <3>1, <3>2
  <2> QED BY <2>1, <2>3, <2>4, <2>5, <2>6, <2>7 DEF Next
<1>3. DailySwept'
  BY <1>2 DEF DailySwept, Serial
<1> QED BY <1>1, <1>3 DEF DailyInv

\* With a sweep completed every day, nobody is served unpaid for longer than
\* the grace period and two days.
THEOREM OverdueIsBounded == Spec => []OverdueServiceIsBounded
<1>1. ASSUME DailyInv PROVE OverdueServiceIsBounded
  <2>1. SUFFICES ASSUME NEW s \in Subs, Timely, s \notin raced,
                        sub[s].status \in {"active", "grace"}
                 PROVE  day <= Later(sub[s].expires, resumed[s]) + GraceDays + 2
    BY DEF OverdueServiceIsBounded, Serial
  <2> DEFINE reach == Later(sub[s].expires, resumed[s])
  <2>2. /\ sub[s].expires \in Nat /\ sub[s].grace_until \in Nat \cup {None}
        /\ resumed[s] \in Nat \cup {None} /\ day \in Nat /\ swept \in BOOLEAN
    BY <1>1 DEF DailyInv, Inv, Typed, TypeOK, SubRow
  <2>3. reach \in Int /\ sub[s].grace_until \in Int
    BY <2>2 DEF Later, None
  <2>4. LastSwept \in Int /\ day <= LastSwept + 1
    BY <2>2 DEF LastSwept
  <2>5. SeenBy(sub[s], resumed[s], LastSwept) /\ Bounded(sub[s], resumed[s])
    BY <1>1, <2>1 DEF DailyInv, DailySwept, Serial
  <2> HIDE DEF reach
  <2>6. \/ LastSwept <= reach
        \/ LastSwept <= sub[s].grace_until /\ sub[s].grace_until <= reach + 1 + GraceDays
    BY <2>1, <2>5 DEF SeenBy, Bounded, reach
  <2>7. day <= reach + GraceDays + 2
    BY <2>2, <2>3, <2>4, <2>6
  <2> QED BY <2>7 DEF reach
<1> QED BY <1>1, DailyInit, DailyStep, PTL DEF Spec
================================================================================
