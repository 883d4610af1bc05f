---------------------------- MODULE BandwidthProofs ----------------------------
(***************************************************************************)
(* What TLAPS proves of Bandwidth for any number of environments, ticks    *)
(* and requests, any limits and any traffic.                               *)
(*                                                                         *)
(* That blocks are on record needs three things more: the record is the    *)
(* event "reached", since the flag alone is cleared where the block is not *)
(* (Recorded); a block that a session is taking away is not there until    *)
(* the session has saved (Away); and between its load and that step a      *)
(* session changes everything of a cycle but the event (EventKept), so     *)
(* that a save over the cycle that was loaded still knows of the block.    *)
(*                                                                         *)
(* That the meter is exact needs what a session has added to the cycle it  *)
(* holds (Counted): a tick exactly its delta, a request nothing.  The      *)
(* traffic that ticks have in hand is a sum over the ticks, and each step  *)
(* changes one of its terms.                                               *)
(***************************************************************************)
EXTENDS Bandwidth, FiniteSetTheorems, TLAPS

\* Cycles are not the record that stands for no cycle.
LEMMA CycleIsNotMissing == \A c \in Cycle : c # Missing
<1> SUFFICES ASSUME NEW c \in Cycle, c = Missing PROVE FALSE
  OBVIOUS
<1>1. "limit" \in DOMAIN c
  BY DEF Cycle
<1>2. DOMAIN c = {"missing"}
  BY DEF Missing
<1> QED BY <1>1, <1>2

USE LimitAssumption, BoundAssumption DEF LimitAssumption, BoundAssumption

RowsTick == [at: {"rows"}, delta: [Envs -> Nat], todo: SUBSET Envs, dirty: BOOLEAN]
RowTick == [at: {"row", "judged"}, delta: [Envs -> Nat], todo: SUBSET Envs, dirty: BOOLEAN,
            e: Envs, base: Cycle, c: Cycle]
Loaded == [at: {"loaded", "cleared", "reloaded"}, e: Envs, base: Cycle, c: Cycle, plan: Limits]

\* What a busy session holds.
LEMMA TickShape ==
    ASSUME TypeOK, NEW t \in Ticks
    PROVE  /\ tick[t].at = "rows" => tick[t] \in RowsTick
           /\ tick[t].at \in {"row", "judged"} => tick[t] \in RowTick
           /\ tick[t] # Idle => tick[t].at \in {"rows", "row", "judged"}
BY DEF TypeOK, Idle, RowsTick, RowTick

LEMMA RequestShape ==
    ASSUME TypeOK, NEW r \in Requests,
           req[r] # Idle \/ req[r].at \in {"loaded", "cleared", "reloaded"}
    PROVE  req[r] \in Loaded /\ req[r] # Idle
BY DEF TypeOK, Idle, Loaded

\* The computations on cycles keep their type, and, but for a new cycle, the
\* event.
LEMMA Computed ==
    ASSUME NEW c \in Cycle, NEW n \in Nat
    PROVE  /\ Merge(c, n) \in Cycle /\ Merge(c, n).event = c.event
           /\ SetLimit(c, n) \in Cycle /\ SetLimit(c, n).event = c.event
           /\ Grant(c) \in Cycle /\ Grant(c).event = c.event
<1>1. \A d \in Cycle : Exhausted(d) \in BOOLEAN
  BY DEF Exhausted, AtLeast, Limited
<1>2. \A d \in Cycle : Eased(d) \in Cycle /\ Eased(d).event = d.event
  <2> TAKE d \in Cycle
  <2>1. Exhausted(d) \in BOOLEAN
    BY <1>1
  <2> QED BY <2>1 DEF Eased, Cycle
<1>3. [c EXCEPT !.used = @ + n] \in Cycle /\ [c EXCEPT !.used = @ + n].event = c.event
  BY DEF Cycle
<1>4. Merge(c, n) \in Cycle /\ Merge(c, n).event = c.event
  <2> DEFINE m == [c EXCEPT !.used = @ + n]
  <2>1. m \in Cycle /\ m.event = c.event /\ Exhausted(m) \in BOOLEAN
    BY <1>1, <1>3
  <2>2. Merge(c, n) = [m EXCEPT !.soft = Exhausted(m)]
    BY DEF Merge
  <2> HIDE DEF m
  <2> QED BY <2>1, <2>2 DEF Cycle
<1>5. [c EXCEPT !.limit = n] \in Cycle /\ [c EXCEPT !.limit = n].event = c.event
  BY DEF Cycle
<1>6. [c EXCEPT !.extra = @ + 1] \in Cycle /\ [c EXCEPT !.extra = @ + 1].event = c.event
  BY DEF Cycle
<1> QED BY <1>2, <1>4, <1>5, <1>6 DEF SetLimit, Grant

LEMMA Rolled ==
    ASSUME NEW c \in Cycle, NEW limit \in Nat
    PROVE  /\ Roll(c, limit) \in Cycle
           /\ ~Ended(c) => Roll(c, limit).event = c.event
           /\ \A end \in Nat : NewCycle(limit, end) \in Cycle
<1>1. \A n, end \in Nat : NewCycle(n, end) \in Cycle
  BY DEF NewCycle, Cycle, Event
<1>2. c.limit \in Nat /\ c.end + 1 \in Nat
  BY DEF Cycle
<1>3. SetLimit(c, limit) \in Cycle /\ SetLimit(c, limit).event = c.event
  BY Computed
<1> QED BY <1>1, <1>2, <1>3 DEF Roll

LEMMA JudgedType == \A c \in Cycle : Judged(c) \in Cycle
<1> SUFFICES ASSUME NEW c \in Cycle PROVE Judged(c) \in Cycle
  OBVIOUS
<1>1. /\ [c EXCEPT !.soft = FALSE, !.event = "none"] \in Cycle
      /\ [c EXCEPT !.soft = TRUE, !.event = "reached"] \in Cycle
      /\ \A e \in Event : [c EXCEPT !.soft = FALSE, !.event = e] \in Cycle
  BY DEF Cycle, Event
<1>2. (IF Flagged(c) THEN "cleared" ELSE c.event) \in Event
  BY DEF Event, Cycle
<1> QED BY <1>1, <1>2 DEF Judged

\* A block that is written is recorded; one that is on record and not taken
\* away stays on record.
LEMMA JudgedRecord ==
    ASSUME NEW c \in Cycle
    PROVE  /\ Blocks(c) => Judged(c).event = "reached"
           /\ c.event = "reached" /\ ~Clears(c) => Judged(c).event = "reached"
<1>1. Exhausted(c) => Limited(c) /\ ~Warned(c)
  BY DEF Exhausted, Warned, AtLeast
<1>2. Warned(c) => Limited(c)
  BY DEF Warned, AtLeast
<1>3. Exhausted(c) => Judged(c) = [c EXCEPT !.soft = TRUE, !.event = "reached"]
  BY <1>1 DEF Judged
<1>4. Warned(c) => Judged(c) = c
  BY <1>1, <1>2 DEF Judged
<1>5. [c EXCEPT !.soft = TRUE, !.event = "reached"].event = "reached"
  BY DEF Cycle
<1>6. c.event = "reached" /\ ~Clears(c) => Exhausted(c) \/ Warned(c)
  BY DEF Clears, Flagged
<1> QED BY <1>3, <1>4, <1>5, <1>6 DEF Blocks

-------------------------------------------------------------------------------
(***************************************************************************)
(* Types.                                                                  *)
(***************************************************************************)
LEMMA InitType == Init => TypeOK
<1> SUFFICES ASSUME Init PROVE TypeOK
  OBVIOUS
<1>1. Nothing \in [Envs -> Nat] /\ Nothing \in [Envs -> Int]
  BY DEF Nothing
<1> QED BY <1>1 DEF Init, TypeOK

\* The histories, in the two forms in which steps keep them.
LEMMA HistoryType ==
    ASSUME TypeOK
    PROVE  /\ \A e \in Envs, n \in Int : Due(e, n) => due' \in [Envs -> Int]
           /\ \A w \in SUBSET Gaps, b \in BOOLEAN :
                 Loses(w, b) => gaps' \in SUBSET Gaps /\ due' \in [Envs -> Int]
           /\ Fault => faults' \in 0..MaxFaults
           /\ Hits => hits' \in 0..MaxHits
<1>1. Nothing \in [Envs -> Int]
  BY DEF Nothing
<1> QED BY <1>1 DEF TypeOK, Due, Loses, Gap, Fault, Hits

\* What a session is given keeps the type of the sessions.
LEMMA SetTick ==
    ASSUME TypeOK, NEW t \in Ticks, NEW value \in {Idle} \cup RowsTick \cup RowTick,
           tick' = [tick EXCEPT ![t] = value]
    PROVE  /\ tick' \in [Ticks -> {Idle} \cup RowsTick \cup RowTick]
           /\ tick'[t] = value /\ \A u \in Ticks \ {t} : tick'[u] = tick[u]
BY DEF TypeOK, RowsTick, RowTick

LEMMA SetRequest ==
    ASSUME TypeOK, NEW r \in Requests, NEW value \in {Idle} \cup Loaded,
           req' = [req EXCEPT ![r] = value]
    PROVE  /\ req' \in [Requests -> {Idle} \cup Loaded]
           /\ req'[r] = value /\ \A s \in Requests \ {r} : req'[s] = req[s]
BY DEF TypeOK, Loaded

LEMMA SetCycle ==
    ASSUME TypeOK, NEW e \in Envs, NEW c \in Cycle \cup {Missing},
           cycle' = [cycle EXCEPT ![e] = c]
    PROVE  /\ cycle' \in [Envs -> Cycle \cup {Missing}]
           /\ cycle'[e] = c /\ \A f \in Envs \ {e} : cycle'[f] = cycle[f]
BY DEF TypeOK

\* TypeOK with its parts named.
LEMMA TypeParts ==
    TypeOK <=> /\ plan \in [Envs -> Limits]
               /\ status \in [Envs -> {"active", "suspended"}]
               /\ now \in 0..MaxPeriod
               /\ unread \in [Envs -> Nat]
               /\ cycle \in [Envs -> Cycle \cup {Missing}]
               /\ conf \in SUBSET Envs /\ loaded \in SUBSET Envs
               /\ tick \in [Ticks -> {Idle} \cup RowsTick \cup RowTick]
               /\ req \in [Requests -> {Idle} \cup Loaded]
               /\ due \in [Envs -> Int]
               /\ gaps \in SUBSET Gaps
               /\ hits \in 0..MaxHits
               /\ faults \in 0..MaxFaults
BY DEF TypeOK, RowsTick, RowTick, Loaded

LEMMA TypePartsNext ==
    TypeOK' <=> /\ plan' \in [Envs -> Limits]
               /\ status' \in [Envs -> {"active", "suspended"}]
               /\ now' \in 0..MaxPeriod
               /\ unread' \in [Envs -> Nat]
               /\ cycle' \in [Envs -> Cycle \cup {Missing}]
               /\ conf' \in SUBSET Envs /\ loaded' \in SUBSET Envs
               /\ tick' \in [Ticks -> {Idle} \cup RowsTick \cup RowTick]
               /\ req' \in [Requests -> {Idle} \cup Loaded]
               /\ due' \in [Envs -> Int]
               /\ gaps' \in SUBSET Gaps
               /\ hits' \in 0..MaxHits
               /\ faults' \in 0..MaxFaults
BY DEF TypeOK, RowsTick, RowTick, Loaded

LEMMA OutsideType ==
    ASSUME TypeOK, NEW e \in Envs,
           \/ Serve(e) \/ SwitchStatus(e)
           \/ \E limit \in Limits : ChangePlan(e, limit)
    PROVE  TypeOK'
<1> USE TypeParts
<1>1. CASE Serve(e)
  <2>1. hits' \in 0..MaxHits /\ unread' \in [Envs -> Nat]
    BY <1>1, HistoryType DEF Serve, TypeOK
  <2>2. due' \in [Envs -> Int]
    BY <1>1, HistoryType DEF Serve
  <2> QED BY <1>1, <2>1, <2>2 DEF Serve, TypeOK
<1>2. CASE SwitchStatus(e)
  <2>1. status' \in [Envs -> {"active", "suspended"}]
    BY <1>2 DEF SwitchStatus
  <2> QED BY <1>2, <2>1 DEF SwitchStatus, TypeOK
<1>3. CASE \E limit \in Limits : ChangePlan(e, limit)
  <2>1. plan' \in [Envs -> Limits]
    BY <1>3 DEF ChangePlan
  <2> QED BY <1>3, <2>1 DEF ChangePlan, TypeOK
<1> QED BY <1>1, <1>2, <1>3

LEMMA ReadType ==
    ASSUME TypeOK, NEW t \in Ticks, NEW delta \in [Envs -> Nat], NEW rest \in [Envs -> Nat],
           Read(t, delta, rest)
    PROVE  /\ tick' \in [Ticks -> {Idle} \cup RowsTick \cup RowTick]
           /\ unread' \in [Envs -> Nat]
<1> DEFINE q == [at |-> "rows", delta |-> delta, todo |-> Rows, dirty |-> FALSE]
<1>1. q \in RowsTick
  BY DEF RowsTick, Rows
<1>2. tick' = [tick EXCEPT ![t] = q] /\ unread' = rest
  BY DEF Read
<1> HIDE DEF q
<1> QED BY <1>1, <1>2, SetTick

LEMMA IngestType ==
    ASSUME TypeOK, NEW t \in Ticks, Ingest(t) \/ IngestFails(t)
    PROVE  TypeOK'
<1>1. unread \in [Envs -> Nat] /\ Nothing \in [Envs -> Nat]
  BY TypeParts DEF Nothing
<1>2. CASE Ingest(t)
  <2>1. Read(t, unread, Nothing)
    BY <1>2 DEF Ingest, IngestFrom
  <2>2. gaps' \in SUBSET Gaps /\ due' \in [Envs -> Int]
    <3>1. {"usage"} \in SUBSET Gaps
      BY DEF Gaps
    <3> QED BY <1>2, <3>1, HistoryType DEF Ingest, IngestFrom
  <2> QED BY <1>1, <1>2, <2>1, <2>2, ReadType, TypeParts, TypePartsNext DEF Ingest, IngestFrom, Read
<1>3. CASE IngestFails(t)
  <2>1. PICK read \in SUBSET Envs :
            Read(t, [e \in Envs |-> IF e \in read THEN unread[e] ELSE 0], unread)
    BY <1>3 DEF IngestFails
  <2>2. [e \in Envs |-> IF e \in read THEN unread[e] ELSE 0] \in [Envs -> Nat]
    BY <1>1
  <2>3. gaps' \in SUBSET Gaps /\ due' \in [Envs -> Int]
    <3>1. {"usage"} \in SUBSET Gaps
      BY DEF Gaps
    <3> QED BY <1>3, <3>1, HistoryType DEF IngestFails
  <2>4. hits' \in 0..MaxHits
    BY <1>3, HistoryType DEF IngestFails
  <2>5. UNCHANGED <<plan, status, now, cycle, conf, loaded, req, faults>>
    BY <2>1 DEF Read
  <2> QED BY <1>1, <2>1, <2>2, <2>3, <2>4, <2>5, ReadType, TypeParts, TypePartsNext
<1> QED BY <1>2, <1>3

\* The cycle a tick starts from, and what it holds of it.
Base(e) == IF cycle[e] = Missing THEN NewCycle(plan[e], now + 1) ELSE Roll(cycle[e], plan[e])
Held(t, e) == IF tick[t].delta[e] > 0 THEN Merge(Base(e), tick[t].delta[e])
              ELSE SetLimit(Base(e), plan[e])

LEMMA LoadRowStep ==
    ASSUME TypeOK, NEW t \in Ticks, NEW e \in Envs, LoadRow(t, e)
    PROVE  /\ Base(e) \in Cycle /\ Held(t, e) \in Cycle /\ Held(t, e).event = Base(e).event
           /\ cycle' = [cycle EXCEPT ![e] = Base(e)]
           /\ [at |-> "row", delta |-> tick[t].delta, todo |-> tick[t].todo \ {e},
               dirty |-> tick[t].dirty, e |-> e, base |-> Base(e), c |-> Held(t, e)] \in RowTick
           /\ tick' = [tick EXCEPT ![t] =
                [at |-> "row", delta |-> tick[t].delta, todo |-> tick[t].todo \ {e},
                 dirty |-> tick[t].dirty, e |-> e, base |-> Base(e), c |-> Held(t, e)]]
<1>1. tick[t] \in RowsTick
  BY TickShape DEF LoadRow
<1>2. plan[e] \in Nat /\ now \in Nat /\ now + 1 \in Nat /\ cycle[e] \in Cycle \cup {Missing}
  <2>1. plan[e] \in Nat /\ cycle[e] \in Cycle \cup {Missing}
    BY TypeParts
  <2>2. now \in Nat
    BY TypeParts
  <2> QED BY <2>1, <2>2
<1>3. Base(e) \in Cycle
  <2>1. CASE cycle[e] = Missing
    BY <2>1, <1>2 DEF Base, NewCycle, Cycle, Event
  <2>2. CASE cycle[e] # Missing
    BY <2>2, <1>2, Rolled DEF Base
  <2> QED BY <2>1, <2>2
<1>4. tick[t].delta[e] \in Nat /\ tick[t].delta \in [Envs -> Nat]
      /\ tick[t].todo \in SUBSET Envs /\ tick[t].dirty \in BOOLEAN
  BY <1>1 DEF RowsTick
<1>5. Held(t, e) \in Cycle /\ Held(t, e).event = Base(e).event
  BY <1>2, <1>3, <1>4, Computed DEF Held
<1>6. cycle' = [cycle EXCEPT ![e] = Base(e)]
      /\ tick' = [tick EXCEPT ![t] =
                [at |-> "row", delta |-> tick[t].delta, todo |-> tick[t].todo \ {e},
                 dirty |-> tick[t].dirty, e |-> e, base |-> Base(e), c |-> Held(t, e)]]
  BY DEF LoadRow, Base, Held
<1>7. [at |-> "row", delta |-> tick[t].delta, todo |-> tick[t].todo \ {e},
       dirty |-> tick[t].dirty, e |-> e, base |-> Base(e), c |-> Held(t, e)] \in RowTick
  BY <1>3, <1>4, <1>5 DEF RowTick
<1> QED BY <1>3, <1>5, <1>6, <1>7

LEMMA LoadRowType ==
    ASSUME TypeOK, NEW t \in Ticks, NEW e \in Envs, LoadRow(t, e)
    PROVE  TypeOK'
<1>1. tick' \in [Ticks -> {Idle} \cup RowsTick \cup RowTick]
  BY LoadRowStep, SetTick
<1>2. cycle' \in [Envs -> Cycle \cup {Missing}]
  BY LoadRowStep, SetCycle
<1>3. due' \in [Envs -> Int]
  <2>1. CASE cycle[e] # Missing
    <3>1. cycle[e].used \in Nat
      BY <2>1 DEF TypeOK, Cycle
    <3> QED BY <3>1, <2>1, HistoryType, TypeParts DEF LoadRow
  <2>2. CASE cycle[e] = Missing
    BY <2>2, TypeParts DEF LoadRow
  <2> QED BY <2>1, <2>2
<1>4. gaps' \in SUBSET Gaps
  BY TypeParts DEF LoadRow, Gap, Gaps
<1> QED BY <1>1, <1>2, <1>3, <1>4, TypeParts, TypePartsNext DEF LoadRow

\* What a tick is while the block is written, and once the cycle is.
LEMMA JudgeStep ==
    ASSUME TypeOK, NEW t \in Ticks, Judge(t)
    PROVE  /\ tick[t] \in RowTick /\ tick[t].at = "row" /\ tick[t].e \in Envs
           /\ \E q \in RowTick :
                /\ tick' = [tick EXCEPT ![t] = q]
                /\ q.at = "judged" /\ q.e = tick[t].e /\ q.todo = tick[t].todo
                /\ q.delta = tick[t].delta /\ q.base = tick[t].base /\ q.c = tick[t].c
<1> DEFINE q == [tick[t] EXCEPT !.at = "judged", !.dirty = TRUE]
<1>1. tick[t] \in RowTick /\ tick[t].at = "row"
  BY TickShape DEF Judge
<1>2. tick[t].e \in Envs
  BY <1>1 DEF RowTick
<1>3. q \in RowTick
  BY <1>1 DEF RowTick
<1>4. /\ q.at = "judged" /\ q.e = tick[t].e /\ q.todo = tick[t].todo
      /\ q.delta = tick[t].delta /\ q.base = tick[t].base /\ q.c = tick[t].c
  BY <1>1 DEF RowTick
<1>5. tick' = [tick EXCEPT ![t] = q]
  BY DEF Judge
<1> HIDE DEF q
<1> QED BY <1>1, <1>2, <1>3, <1>4, <1>5

LEMMA SaveRowStep ==
    ASSUME TypeOK, NEW t \in Ticks, SaveRow(t)
    PROVE  /\ tick[t] \in RowTick /\ tick[t].e \in Envs /\ tick[t].at \in {"row", "judged"}
           /\ tick[t].c \in Cycle /\ tick[t].base \in Cycle /\ Judged(tick[t].c) \in Cycle
           /\ cycle' = [cycle EXCEPT ![tick[t].e] = Judged(tick[t].c)]
           /\ \E q \in RowsTick :
                /\ tick' = [tick EXCEPT ![t] = q]
                /\ q.at = "rows" /\ q.todo = tick[t].todo /\ q.delta = tick[t].delta
<1> DEFINE q == [at |-> "rows", delta |-> tick[t].delta, todo |-> tick[t].todo,
                 dirty |-> tick[t].dirty]
<1>1. tick[t] \in RowTick /\ tick[t].at \in {"row", "judged"}
  BY TickShape DEF SaveRow
<1>2. /\ tick[t].e \in Envs /\ tick[t].c \in Cycle /\ tick[t].base \in Cycle
      /\ Judged(tick[t].c) \in Cycle
  BY <1>1, JudgedType DEF RowTick
<1>3. q \in RowsTick /\ q.at = "rows" /\ q.todo = tick[t].todo /\ q.delta = tick[t].delta
  BY <1>1 DEF RowTick, RowsTick
<1>4. tick' = [tick EXCEPT ![t] = q] /\ cycle' = [cycle EXCEPT ![tick[t].e] = Judged(tick[t].c)]
  BY DEF SaveRow
<1> HIDE DEF q
<1> QED BY <1>1, <1>2, <1>3, <1>4

LEMMA RowWritesType ==
    ASSUME TypeOK, NEW t \in Ticks, Judge(t) \/ SaveRow(t)
    PROVE  TypeOK'
<1>1. CASE Judge(t)
  <2>1. tick' \in [Ticks -> {Idle} \cup RowsTick \cup RowTick]
    BY <1>1, JudgeStep, SetTick
  <2>2. conf' \in SUBSET Envs
    BY <1>1, JudgeStep, TypeParts DEF Judge
  <2>3. gaps' \in SUBSET Gaps
    BY <1>1, TypeParts DEF Judge, Gap, Gaps
  <2> QED BY <1>1, <2>1, <2>2, <2>3, TypeParts, TypePartsNext DEF Judge
<1>2. CASE SaveRow(t)
  <2>1. tick' \in [Ticks -> {Idle} \cup RowsTick \cup RowTick]
    BY <1>2, SaveRowStep, SetTick
  <2>2. cycle' \in [Envs -> Cycle \cup {Missing}]
    BY <1>2, SaveRowStep, SetCycle
  <2>3. gaps' \in SUBSET Gaps /\ due' \in [Envs -> Int]
    BY <1>2, HistoryType DEF SaveRow
  <2> QED BY <1>2, <2>1, <2>2, <2>3, TypeParts, TypePartsNext DEF SaveRow
<1> QED BY <1>1, <1>2

LEMMA TickEndsType ==
    ASSUME TypeOK, NEW t \in Ticks, EndTick(t) \/ Die(t)
    PROVE  TypeOK'
<1>1. tick' \in [Ticks -> {Idle} \cup RowsTick \cup RowTick]
  BY SetTick DEF EndTick, Die
<1>2. CASE EndTick(t)
  <2>1. loaded' \in SUBSET Envs /\ faults' \in 0..MaxFaults
    BY <1>2, TypeParts DEF EndTick, Fault
  <2> QED BY <1>1, <1>2, <2>1, TypeParts, TypePartsNext DEF EndTick
<1>3. CASE Die(t)
  <2>1. faults' \in 0..MaxFaults /\ gaps' \in SUBSET Gaps /\ due' \in [Envs -> Int]
    BY <1>3, HistoryType DEF Die
  <2>2. cycle' \in [Envs -> Cycle \cup {Missing}]
    <3>1. \A e \in Writing(tick[t]) : e \in Envs
      BY TickShape DEF Writing, RowsTick, RowTick
    <3> QED BY <1>3, <3>1, SetCycle, TypeParts DEF Die
  <2> QED BY <1>1, <1>3, <2>1, <2>2, TypeParts, TypePartsNext DEF Die
<1> QED BY <1>2, <1>3

\* Requests load an existing cycle and change all but its event.
LEMMA LoadStep ==
    ASSUME TypeOK, NEW r \in Requests, NEW e \in Envs,
           LoadGrant(r, e) \/ \E limit \in Limits : LoadPlan(r, e, limit)
    PROVE  \E q \in Loaded :
              /\ req' = [req EXCEPT ![r] = q]
              /\ q.at = "loaded" /\ q.c.event = q.base.event /\ q.base = cycle[e] /\ q.e = e
<1>1. cycle[e] \in Cycle /\ plan[e] \in Limits
  BY TypeParts DEF LoadGrant, LoadPlan
<1>2. CASE LoadGrant(r, e)
  <2> DEFINE q == [at |-> "loaded", e |-> e, base |-> cycle[e], c |-> Grant(cycle[e]),
                   plan |-> plan[e]]
  <2>1. Grant(cycle[e]) \in Cycle /\ Grant(cycle[e]).event = cycle[e].event
    BY <1>1, Computed
  <2>2. q \in Loaded
    BY <1>1, <2>1 DEF Loaded
  <2>3. req' = [req EXCEPT ![r] = q]
    BY <1>2 DEF LoadGrant, Load
  <2> QED BY <2>1, <2>2, <2>3
<1>3. ASSUME NEW limit \in Limits, LoadPlan(r, e, limit)
      PROVE  \E q \in Loaded :
                /\ req' = [req EXCEPT ![r] = q]
                /\ q.at = "loaded" /\ q.c.event = q.base.event /\ q.base = cycle[e] /\ q.e = e
  <2> DEFINE q == [at |-> "loaded", e |-> e, base |-> cycle[e], c |-> SetLimit(cycle[e], limit),
                   plan |-> limit]
  <2>1. SetLimit(cycle[e], limit) \in Cycle /\ SetLimit(cycle[e], limit).event = cycle[e].event
    BY <1>1, Computed
  <2>2. q \in Loaded
    BY <1>1, <2>1 DEF Loaded
  <2>3. req' = [req EXCEPT ![r] = q]
    BY <1>3 DEF LoadPlan, Load
  <2> QED BY <2>1, <2>2, <2>3
<1> QED BY <1>2, <1>3

LEMMA LoadUnchanged ==
    ASSUME NEW r \in Requests, NEW e \in Envs,
           LoadGrant(r, e) \/ \E limit \in Limits : LoadPlan(r, e, limit)
    PROVE  UNCHANGED <<plan, status, now, unread, cycle, conf, loaded, tick, due, gaps, hits, faults>>
BY DEF LoadGrant, LoadPlan, Load

LEMMA LoadType ==
    ASSUME TypeOK, NEW r \in Requests, NEW e \in Envs,
           LoadGrant(r, e) \/ \E limit \in Limits : LoadPlan(r, e, limit)
    PROVE  TypeOK'
<1>1. req' \in [Requests -> {Idle} \cup Loaded]
  BY LoadStep, SetRequest
<1> QED BY <1>1, LoadUnchanged, TypeParts, TypePartsNext

\* A request that clears a block goes on with the cycle it will write.
Freed(c) == [c EXCEPT !.soft = FALSE, !.event = "cleared"]

LEMMA ClearStep ==
    ASSUME TypeOK, NEW r \in Requests, Clear(r)
    PROVE  /\ req[r] \in Loaded /\ req[r] # Idle /\ req[r].at = "loaded" /\ req[r].e \in Envs
           /\ conf' = conf \ {req[r].e}
           /\ \E q \in Loaded :
                /\ req' = [req EXCEPT ![r] = q]
                /\ q.at = "cleared" /\ q.e = req[r].e /\ q.base = req[r].base
                /\ q.c.used = req[r].c.used
<1>1. req[r] \in Loaded /\ req[r] # Idle /\ req[r].at = "loaded"
  BY RequestShape DEF Clear
<1>2. req[r].c \in Cycle /\ req[r].e \in Envs
  BY <1>1 DEF Loaded
<1>3. Freed(req[r].c) \in Cycle /\ Freed(req[r].c).used = req[r].c.used
  BY <1>2 DEF Freed, Cycle, Event
<1> DEFINE q == [req[r] EXCEPT !.at = "cleared", !.c = Freed(req[r].c)]
<1>4. /\ q \in Loaded /\ q.at = "cleared" /\ q.e = req[r].e /\ q.base = req[r].base
      /\ q.c = Freed(req[r].c)
  BY <1>1, <1>3 DEF Loaded
<1>5. req' = [req EXCEPT ![r] = q]
  BY DEF Clear, Freed
<1>6. conf' = conf \ {req[r].e}
  BY DEF Clear
<1> HIDE DEF q
<1> QED BY <1>1, <1>2, <1>3, <1>4, <1>5, <1>6

LEMMA ReloadStep ==
    ASSUME TypeOK, NEW r \in Requests, Reload(r)
    PROVE  /\ req[r] \in Loaded /\ req[r] # Idle /\ req[r].at = "cleared"
           /\ \E q \in Loaded :
                /\ req' = [req EXCEPT ![r] = q]
                /\ q.at = "reloaded" /\ q.e = req[r].e /\ q.base = req[r].base
                /\ q.c = req[r].c
<1> DEFINE q == [req[r] EXCEPT !.at = "reloaded"]
<1>1. req[r] \in Loaded /\ req[r] # Idle /\ req[r].at = "cleared"
  BY RequestShape DEF Reload
<1>2. /\ q \in Loaded /\ q.at = "reloaded" /\ q.e = req[r].e /\ q.base = req[r].base
      /\ q.c = req[r].c
  BY <1>1 DEF Loaded
<1>3. req' = [req EXCEPT ![r] = q]
  BY DEF Reload
<1> HIDE DEF q
<1> QED BY <1>1, <1>2, <1>3

LEMMA SaveStep ==
    ASSUME TypeOK, NEW r \in Requests, Save(r)
    PROVE  /\ req[r] \in Loaded /\ req[r] # Idle /\ req[r].e \in Envs
           /\ req[r].c \in Cycle /\ req[r].base \in Cycle /\ req[r].plan \in Limits
           /\ cycle' = [cycle EXCEPT ![req[r].e] = req[r].c]
<1>1. req[r] \in Loaded /\ req[r] # Idle
  BY RequestShape DEF Save, Saves
<1>2. /\ req[r].c \in Cycle /\ req[r].base \in Cycle /\ req[r].e \in Envs
      /\ req[r].plan \in Limits
  BY <1>1 DEF Loaded
<1>3. cycle' = [cycle EXCEPT ![req[r].e] = req[r].c]
  BY DEF Save
<1> QED BY <1>1, <1>2, <1>3

LEMMA AnswerType ==
    ASSUME TypeOK, NEW r \in Requests, Answer(r)
    PROVE  TypeOK'
<1>1. CASE Clear(r)
  <2>1. req' \in [Requests -> {Idle} \cup Loaded] /\ conf' \in SUBSET Envs
    BY <1>1, ClearStep, SetRequest, TypeParts
  <2> QED BY <1>1, <2>1, TypeParts, TypePartsNext DEF Clear
<1>2. CASE Reload(r)
  <2>1. req' \in [Requests -> {Idle} \cup Loaded]
    BY <1>2, ReloadStep, SetRequest
  <2>2. loaded' \in SUBSET Envs /\ faults' \in 0..MaxFaults
    BY <1>2, HistoryType, TypeParts DEF Reload
  <2> QED BY <1>2, <2>1, <2>2, TypeParts, TypePartsNext DEF Reload
<1>3. CASE Save(r)
  <2>1. cycle' \in [Envs -> Cycle \cup {Missing}]
    BY <1>3, SaveStep, SetCycle
  <2>2. req' \in [Requests -> {Idle} \cup Loaded]
    BY <1>3, SetRequest DEF Save
  <2>3. plan' \in [Envs -> Limits]
    BY <1>3, SaveStep, TypeParts DEF Save
  <2>4. gaps' \in SUBSET Gaps /\ due' \in [Envs -> Int]
    BY <1>3, HistoryType DEF Save
  <2> QED BY <1>3, <2>1, <2>2, <2>3, <2>4, TypeParts, TypePartsNext DEF Save
<1> QED BY <1>1, <1>2, <1>3 DEF Answer

LEMMA DropType ==
    ASSUME TypeOK, NEW r \in Requests, Drop(r)
    PROVE  TypeOK'
<1>1. req' \in [Requests -> {Idle} \cup Loaded]
  BY SetRequest DEF Drop
<1>2. faults' \in 0..MaxFaults
  BY HistoryType DEF Drop
<1>3. cycle' \in [Envs -> Cycle \cup {Missing}]
  <2>1. req[r].e \in Envs
    BY RequestShape DEF Drop, Loaded
  <2> QED BY <2>1, SetCycle, TypeParts DEF Drop
<1>4. gaps' \in SUBSET Gaps /\ due' \in [Envs -> Int]
  BY HistoryType, TypeParts DEF Drop
<1> QED BY <1>1, <1>2, <1>3, <1>4, TypeParts, TypePartsNext DEF Drop

LEMMA NextType == TypeOK /\ [Next]_vars => TypeOK'
<1> SUFFICES ASSUME TypeOK, [Next]_vars PROVE TypeOK'
  OBVIOUS
<1>1. CASE UNCHANGED vars
  BY <1>1 DEF vars, TypeOK
<1>2. ASSUME NEW t \in Ticks, Step(t) \/ IngestFails(t) \/ Die(t) PROVE TypeOK'
  BY <1>2, IngestType, LoadRowType, RowWritesType, TickEndsType DEF Step
<1>3. ASSUME NEW r \in Requests,
             \/ Answer(r) \/ Drop(r)
             \/ \E e \in Envs : \/ LoadGrant(r, e)
                                \/ \E limit \in Limits : LoadPlan(r, e, limit)
      PROVE  TypeOK'
  BY <1>3, AnswerType, DropType, LoadType
<1>4. ASSUME NEW e \in Envs,
             Serve(e) \/ SwitchStatus(e) \/ \E limit \in Limits : ChangePlan(e, limit)
      PROVE  TypeOK'
  BY <1>4, OutsideType
<1>5. CASE Rotate
  <2>1. unread' \in [Envs -> Nat]
    BY <1>5 DEF Rotate, Nothing
  <2>2. gaps' \in SUBSET Gaps /\ due' \in [Envs -> Int]
    <3>1. {"usage"} \in SUBSET Gaps
      BY DEF Gaps
    <3> QED BY <1>5, <3>1, HistoryType DEF Rotate
  <2> QED BY <1>5, <2>1, <2>2, TypeParts, TypePartsNext DEF Rotate
<1>6. CASE NextPeriod
  BY <1>6 DEF NextPeriod, TypeOK
<1> QED BY <1>1, <1>2, <1>3, <1>4, <1>5, <1>6 DEF Next

(***************************************************************************)
(* Plans, cycles, blocks and the sessions that work on them keep their     *)
(* types, whatever ticks, grants, plan changes and crashes interleave: no  *)
(* count of traffic ever becomes negative, and no file is written with     *)
(* something else than a cycle.                                            *)
(***************************************************************************)
THEOREM TypeCorrect == Spec => []TypeOK
BY InitType, NextType, PTL DEF Spec

-------------------------------------------------------------------------------
(***************************************************************************)
(* Blocks are on record.                                                   *)
(***************************************************************************)
OnRecord(e) ==
    \/ cycle[e] # Missing /\ cycle[e].event = "reached"
    \/ \E t \in Ticks : tick[t].at = "judged" /\ tick[t].e = e /\ Blocks(tick[t].c)
Recorded ==
    "block" \notin gaps => \A e \in conf : OnRecord(e)

\* What is being taken away is not there.
Away ==
    "block" \notin gaps => \A e \in conf : ~Clearing(e)

EventKept ==
    /\ \A t \in Ticks :
        /\ tick[t].at \in {"row", "judged"} => tick[t].c.event = tick[t].base.event
        /\ tick[t].at = "judged" => Blocks(tick[t].c) \/ Clears(tick[t].c)
    /\ \A r \in Requests : req[r].at = "loaded" => req[r].c.event = req[r].base.event

BlockInv == Recorded /\ Away /\ EventKept

LEMMA InitBlock == Init => BlockInv
BY DEF Init, BlockInv, Recorded, Away, EventKept, Idle

\* Steps that touch neither cycles, blocks nor sessions.
LEMMA ElsewhereKeepsBlock ==
    ASSUME BlockInv, UNCHANGED <<cycle, conf, tick, req>>, gaps \subseteq gaps'
    PROVE  BlockInv'
<1>1. \A e : (OnRecord(e)' <=> OnRecord(e)) /\ (Clearing(e)' <=> Clearing(e))
  BY DEF OnRecord, Clearing
<1> QED BY <1>1 DEF BlockInv, Recorded, Away, EventKept

\* A tick that was not, and does not come, between block and record.
LEMMA TickElsewhere ==
    ASSUME TypeOK, NEW t \in Ticks, NEW value \in {Idle} \cup RowsTick \cup RowTick,
           tick' = [tick EXCEPT ![t] = value], UNCHANGED req,
           tick[t].at # "judged", value.at # "judged", NEW e
    PROVE  /\ Clearing(e)' <=> Clearing(e)
           /\ cycle'[e] = cycle[e] /\ OnRecord(e) => OnRecord(e)'
           /\ (\E u \in Ticks : tick[u].at = "judged" /\ tick[u].e = e /\ Blocks(tick[u].c))
                => OnRecord(e)'
<1>1. tick'[t] = value /\ \A u \in Ticks \ {t} : tick'[u] = tick[u]
  BY SetTick
<1>2. \A u \in Ticks : tick'[u].at = "judged" <=> tick[u].at = "judged"
  BY <1>1
<1>3. \A u \in Ticks : tick[u].at = "judged" => tick'[u] = tick[u]
  BY <1>1
<1> QED BY <1>2, <1>3 DEF Clearing, OnRecord

\* Between its load and its save a tick keeps the event.
LEMMA SetTickKeepsEvent ==
    ASSUME TypeOK, EventKept, NEW t \in Ticks, NEW value \in {Idle} \cup RowsTick \cup RowTick,
           tick' = [tick EXCEPT ![t] = value], UNCHANGED req,
           value.at \in {"row", "judged"} => value.c.event = value.base.event,
           value.at = "judged" => Blocks(value.c) \/ Clears(value.c)
    PROVE  EventKept'
<1>1. tick'[t] = value /\ \A u \in Ticks \ {t} : tick'[u] = tick[u]
  BY SetTick
<1> QED BY <1>1 DEF EventKept

LEMMA OutsideBlock ==
    ASSUME BlockInv, NEW e \in Envs,
           Serve(e) \/ SwitchStatus(e) \/ \E limit \in Limits : ChangePlan(e, limit)
    PROVE  BlockInv'
BY ElsewhereKeepsBlock DEF Serve, SwitchStatus, ChangePlan

LEMMA LogBlock ==
    ASSUME BlockInv, Rotate \/ NextPeriod
    PROVE  BlockInv'
BY ElsewhereKeepsBlock DEF Rotate, NextPeriod, Loses, Gap

\* A tick begins or ends, and leaves the files as they are.
LEMMA TickAloneBlock ==
    ASSUME TypeOK, BlockInv, NEW t \in Ticks, NEW value \in {Idle} \cup RowsTick,
           tick' = [tick EXCEPT ![t] = value], UNCHANGED <<cycle, conf, req>>,
           tick[t].at # "judged", gaps \subseteq gaps'
    PROVE  BlockInv'
<1>1. value.at \notin {"row", "judged"}
  BY DEF Idle, RowsTick
<1>2. EventKept'
  BY <1>1, SetTickKeepsEvent DEF BlockInv
<1>3. \A e : (Clearing(e)' <=> Clearing(e)) /\ (OnRecord(e) => OnRecord(e)')
  BY <1>1, TickElsewhere
<1> QED BY <1>2, <1>3 DEF BlockInv, Recorded, Away

LEMMA IngestBlock ==
    ASSUME TypeOK, BlockInv, NEW t \in Ticks, Ingest(t) \/ IngestFails(t)
    PROVE  BlockInv'
<1>1. PICK delta \in [Envs -> Nat], rest \in {Nothing, unread} : Read(t, delta, rest)
  <2>1. unread \in [Envs -> Nat]
    BY TypeParts
  <2>2. CASE Ingest(t)
    BY <2>1, <2>2 DEF Ingest, IngestFrom
  <2>3. CASE IngestFails(t)
    <3>1. PICK read \in SUBSET Envs :
              Read(t, [e \in Envs |-> IF e \in read THEN unread[e] ELSE 0], unread)
      BY <2>3 DEF IngestFails
    <3>2. [e \in Envs |-> IF e \in read THEN unread[e] ELSE 0] \in [Envs -> Nat]
      BY <2>1
    <3> QED BY <3>1, <3>2
  <2> QED BY <2>2, <2>3
<1> DEFINE q == [at |-> "rows", delta |-> delta, todo |-> Rows, dirty |-> FALSE]
<1>2. q \in RowsTick
  BY DEF RowsTick, Rows
<1>3. tick' = [tick EXCEPT ![t] = q] /\ UNCHANGED <<cycle, conf, req>> /\ tick[t] = Idle
  BY <1>1 DEF Read
<1>4. gaps \subseteq gaps'
  BY DEF Ingest, IngestFrom, IngestFails, Loses, Gap
<1>5. tick[t].at # "judged"
  BY <1>3 DEF Idle
<1> HIDE DEF q
<1> QED BY <1>2, <1>3, <1>4, <1>5, TickAloneBlock

\* A cycle that has not ended keeps its event when a tick loads it; one that
\* has ended under a block is a gap.
LEMMA LoadRowBlock ==
    ASSUME TypeOK, BlockInv, NEW t \in Ticks, NEW e \in Envs, LoadRow(t, e)
    PROVE  BlockInv'
<1> DEFINE q == [at |-> "row", delta |-> tick[t].delta, todo |-> tick[t].todo \ {e},
                 dirty |-> tick[t].dirty, e |-> e, base |-> Base(e), c |-> Held(t, e)]
<1>1. /\ q \in RowTick /\ q.c.event = q.base.event /\ tick' = [tick EXCEPT ![t] = q]
      /\ q.at = "row"
  BY LoadRowStep
<1>2. UNCHANGED <<req, conf>> /\ tick[t].at # "judged"
  BY DEF LoadRow
<1>3. "block" \notin gaps' =>
        "block" \notin gaps /\ ~(cycle[e] # Missing /\ Ended(cycle[e]) /\ e \in conf)
  BY DEF LoadRow, Gap
<1> HIDE DEF q
<1>4. EventKept'
  BY <1>1, <1>2, SetTickKeepsEvent DEF BlockInv
<1>5. \A f : /\ Clearing(f)' <=> Clearing(f)
             /\ cycle'[f] = cycle[f] /\ OnRecord(f) => OnRecord(f)'
             /\ (\E u \in Ticks : tick[u].at = "judged" /\ tick[u].e = f /\ Blocks(tick[u].c))
                  => OnRecord(f)'
  BY <1>1, <1>2, TickElsewhere
<1>6. Away'
  BY <1>2, <1>3, <1>5 DEF BlockInv, Away
<1>7. Recorded'
  <2> SUFFICES ASSUME "block" \notin gaps', NEW f \in conf PROVE OnRecord(f)'
    BY <1>2 DEF Recorded
  <2>1. f \in Envs /\ OnRecord(f)
    BY <1>3, TypeParts DEF BlockInv, Recorded
  <2>2. CASE f # e
    BY <1>5, <2>1, <2>2, LoadRowStep, SetCycle
  <2>3. CASE f = e /\ cycle[e] # Missing /\ cycle[e].event = "reached"
    <3>1. cycle[e] \in Cycle /\ plan[e] \in Nat /\ ~Ended(cycle[e])
      BY <1>3, <2>3, TypeParts
    <3>2. Base(e).event = "reached"
      BY <2>3, <3>1, Rolled DEF Base
    <3>3. cycle'[e] = Base(e) /\ Base(e) # Missing
      BY LoadRowStep, SetCycle, CycleIsNotMissing
    <3> QED BY <2>3, <3>2, <3>3 DEF OnRecord
  <2>4. CASE f = e /\ ~(cycle[e] # Missing /\ cycle[e].event = "reached")
    BY <1>5, <2>1, <2>4 DEF OnRecord
  <2> QED BY <2>2, <2>3, <2>4
<1> QED BY <1>4, <1>6, <1>7 DEF BlockInv

\* A block that a tick writes is about to be recorded; one that it removes is
\* away until that is.
LEMMA JudgeBlock ==
    ASSUME TypeOK, BlockInv, NEW t \in Ticks, Judge(t)
    PROVE  BlockInv'
<1> DEFINE e == tick[t].e
           c == tick[t].c
<1>1. PICK q \in RowTick :
        /\ tick' = [tick EXCEPT ![t] = q]
        /\ q.at = "judged" /\ q.e = e /\ q.base = tick[t].base /\ q.c = c
  BY JudgeStep
<1>2. tick'[t] = q /\ \A u \in Ticks \ {t} : tick'[u] = tick[u]
  BY <1>1, SetTick
<1>3. /\ tick[t].at = "row" /\ UNCHANGED <<req, cycle>> /\ (Blocks(c) \/ Clears(c))
      /\ conf' = IF Blocks(c) THEN conf \cup {e} ELSE conf \ {e}
      /\ "block" \notin gaps' => "block" \notin gaps /\ ~(Blocks(c) /\ Clearing(e))
  BY DEF Judge, Gap
<1>4. tick[t].c.event = tick[t].base.event
  <2>1. tick[t].at \in {"row", "judged"}
    BY <1>3
  <2> QED BY <2>1 DEF BlockInv, EventKept
<1>5. EventKept'
  <2>1. q.c.event = q.base.event /\ (Blocks(q.c) \/ Clears(q.c))
    BY <1>1, <1>3, <1>4
  <2> HIDE DEF e, c
  <2> QED BY <1>1, <1>3, <2>1, SetTickKeepsEvent DEF BlockInv
<1> HIDE DEF e, c
<1>6. Recorded'
  <2> SUFFICES ASSUME "block" \notin gaps', NEW f \in conf' PROVE OnRecord(f)'
    BY DEF Recorded
  <2>1. CASE f = e
    <3>1. Blocks(c)
      BY <1>3, <2>1
    <3> QED BY <1>1, <1>2, <2>1, <3>1 DEF OnRecord
  <2>2. CASE f # e
    <3>1. OnRecord(f)
      BY <1>3, <2>2 DEF BlockInv, Recorded
    <3>2. CASE cycle[f] # Missing /\ cycle[f].event = "reached"
      BY <1>3, <3>2 DEF OnRecord
    <3>3. ASSUME NEW u \in Ticks, tick[u].at = "judged", tick[u].e = f, Blocks(tick[u].c)
          PROVE  OnRecord(f)'
      <4>1. tick'[u] = tick[u]
        BY <1>2, <1>3, <3>3
      <4> QED BY <3>3, <4>1 DEF OnRecord
    <3> QED BY <3>1, <3>2, <3>3 DEF OnRecord
  <2> QED BY <2>1, <2>2
<1>7. Away'
  <2> SUFFICES ASSUME "block" \notin gaps', NEW f \in conf', Clearing(f)' PROVE FALSE
    BY DEF Away
  <2>1. CASE f = e
    <3>1. Blocks(c) /\ ~Clearing(e)
      BY <1>3, <2>1
    <3>2. ~Clears(c)
      BY <3>1 DEF Blocks, Clears
    <3> QED BY <1>1, <1>2, <1>3, <2>1, <3>1, <3>2 DEF Clearing
  <2>2. CASE f # e
    <3>1. f \in conf /\ ~Clearing(f)
      BY <1>3, <2>2 DEF BlockInv, Away
    <3>2. \A u \in Ticks : tick'[u].at = "judged" /\ tick'[u].e = f => u # t
      BY <1>1, <1>2, <2>2
    <3>3. \A u \in Ticks : tick'[u].at = "judged" /\ tick'[u].e = f => tick'[u] = tick[u]
      BY <1>2, <3>2
    <3> QED BY <1>3, <3>1, <3>3 DEF Clearing
  <2> QED BY <2>1, <2>2
<1> QED BY <1>5, <1>6, <1>7 DEF BlockInv

LEMMA SaveRowBlock ==
    ASSUME TypeOK, BlockInv, NEW t \in Ticks, SaveRow(t)
    PROVE  BlockInv'
<1> DEFINE e == tick[t].e
           c == tick[t].c
<1>1. /\ e \in Envs /\ c \in Cycle /\ Judged(c) \in Cycle
      /\ tick[t].at \in {"row", "judged"} /\ cycle' = [cycle EXCEPT ![e] = Judged(c)]
  BY SaveRowStep
<1>2. PICK q \in RowsTick : tick' = [tick EXCEPT ![t] = q] /\ q.at = "rows"
  BY SaveRowStep
<1>3. tick'[t] = q /\ \A u \in Ticks \ {t} : tick'[u] = tick[u]
  BY <1>2, SetTick
<1>4. /\ UNCHANGED <<req, conf>>
      /\ tick[t].at = "judged" \/ (~Blocks(c) /\ ~Clears(c))
      /\ "block" \notin gaps' => "block" \notin gaps /\ cycle[e] = tick[t].base
  BY DEF SaveRow, Loses, Gap, Gaps
<1>5. cycle'[e] = Judged(c) /\ \A f \in Envs \ {e} : cycle'[f] = cycle[f]
  BY <1>1, SetCycle
<1>6. c.event = tick[t].base.event /\ (tick[t].at = "judged" => Blocks(c) \/ Clears(c))
  BY <1>1 DEF BlockInv, EventKept
<1>7. \A f \in conf : f \in Envs
  BY TypeParts
<1>8. tick[t].at = "judged" /\ Clears(c) => Clearing(e)
  BY DEF Clearing
<1>9. ASSUME NEW f, f # e PROVE OnRecord(f) /\ f \in Envs => OnRecord(f)'
  <2>1. tick[t].e # f
    BY <1>9 DEF e
  <2> QED BY <1>3, <1>5, <1>9, <2>1 DEF OnRecord
<1> HIDE DEF e, c
<1>10. EventKept'
  BY <1>2, <1>4, SetTickKeepsEvent DEF BlockInv
<1>11. Away'
  <2>1. \A f : Clearing(f)' => Clearing(f)
    BY <1>2, <1>3, <1>4 DEF Clearing
  <2> QED BY <1>4, <2>1 DEF BlockInv, Away
<1>12. Recorded'
  <2> SUFFICES ASSUME "block" \notin gaps', NEW f \in conf PROVE OnRecord(f)'
    BY <1>4 DEF Recorded
  <2>1. OnRecord(f) /\ ~Clearing(f)
    BY <1>4 DEF BlockInv, Recorded, Away
  <2>2. CASE f # e
    BY <1>7, <1>9, <2>1, <2>2
  <2>3. CASE f = e /\ Blocks(c)
    <3>1. Judged(c).event = "reached" /\ Judged(c) # Missing
      BY <1>1, <2>3, JudgedRecord, CycleIsNotMissing
    <3> QED BY <1>5, <2>3, <3>1 DEF OnRecord
  <2>4. CASE f = e /\ ~Blocks(c)
    <3>1. ~Clears(c) /\ tick[t].at = "row"
      BY <1>1, <1>4, <1>6, <1>8, <2>1, <2>4
    <3>2. CASE cycle[e] # Missing /\ cycle[e].event = "reached"
      <4>1. c.event = "reached"
        BY <1>4, <1>6, <3>2
      <4>2. Judged(c).event = "reached" /\ Judged(c) # Missing
        BY <1>1, <3>1, <4>1, JudgedRecord, CycleIsNotMissing
      <4> QED BY <1>5, <2>4, <4>2 DEF OnRecord
    <3>3. CASE \E u \in Ticks : tick[u].at = "judged" /\ tick[u].e = f /\ Blocks(tick[u].c)
      <4>1. PICK u \in Ticks : tick[u].at = "judged" /\ tick[u].e = f /\ Blocks(tick[u].c)
        BY <3>3
      <4>2. tick'[u] = tick[u]
        BY <1>3, <3>1, <4>1
      <4> QED BY <4>1, <4>2 DEF OnRecord
    <3> QED BY <2>1, <2>4, <3>2, <3>3 DEF OnRecord
  <2> QED BY <2>2, <2>3, <2>4
<1> QED BY <1>10, <1>11, <1>12 DEF BlockInv

LEMMA TickEndsBlock ==
    ASSUME TypeOK, BlockInv, NEW t \in Ticks, EndTick(t) \/ Die(t)
    PROVE  BlockInv'
<1>1. CASE EndTick(t)
  BY <1>1, TickAloneBlock DEF EndTick
<1>2. CASE Die(t)
  <2>1. "block" \in gaps'
    BY <1>2 DEF Die, Loses, Gap, Gaps
  <2>2. EventKept'
    BY <1>2, SetTickKeepsEvent DEF Die, BlockInv, Idle
  <2> QED BY <2>1, <2>2 DEF BlockInv, Recorded, Away
<1> QED BY <1>1, <1>2

\* A request that is not, and does not come, between block and record.
LEMMA RequestElsewhere ==
    ASSUME TypeOK, NEW r \in Requests, NEW value \in {Idle} \cup Loaded,
           req' = [req EXCEPT ![r] = value], UNCHANGED tick
    PROVE  /\ \A e : (value.at \in {"cleared", "reloaded"} /\ value.e = e)
                      \/ (Clearing(e)' => Clearing(e))
           /\ \A e : cycle'[e] = cycle[e] /\ OnRecord(e) => OnRecord(e)'
           /\ EventKept /\ (value.at = "loaded" => value.c.event = value.base.event)
                => EventKept'
<1>1. req'[r] = value /\ \A s \in Requests \ {r} : req'[s] = req[s]
  BY SetRequest
<1>2. \A e : (value.at \in {"cleared", "reloaded"} /\ value.e = e)
                \/ (Clearing(e)' => Clearing(e))
  BY <1>1 DEF Clearing
<1>3. \A e : cycle'[e] = cycle[e] /\ OnRecord(e) => OnRecord(e)'
  BY DEF OnRecord
<1>4. EventKept /\ (value.at = "loaded" => value.c.event = value.base.event) => EventKept'
  BY <1>1 DEF EventKept
<1> QED BY <1>2, <1>3, <1>4

LEMMA LoadBlock ==
    ASSUME TypeOK, BlockInv, NEW r \in Requests, NEW e \in Envs,
           LoadGrant(r, e) \/ \E limit \in Limits : LoadPlan(r, e, limit)
    PROVE  BlockInv'
<1>1. PICK q \in Loaded : /\ req' = [req EXCEPT ![r] = q]
                          /\ q.at = "loaded" /\ q.c.event = q.base.event
  BY LoadStep
<1>2. UNCHANGED <<tick, cycle, conf, gaps>>
  BY LoadUnchanged
<1>3. /\ \A f : Clearing(f)' => Clearing(f)
      /\ \A f : OnRecord(f) => OnRecord(f)'
      /\ EventKept'
  BY <1>1, <1>2, RequestElsewhere DEF BlockInv
<1> QED BY <1>2, <1>3 DEF BlockInv, Recorded, Away

\* The block that a request clears is away; reloading nginx changes no file.
LEMMA ClearBlock ==
    ASSUME TypeOK, BlockInv, NEW r \in Requests, Clear(r)
    PROVE  BlockInv'
<1>1. PICK q \in Loaded : /\ req' = [req EXCEPT ![r] = q]
                          /\ q.at = "cleared" /\ q.e = req[r].e
  BY ClearStep
<1>2. UNCHANGED <<tick, cycle, gaps>> /\ conf' = conf \ {req[r].e}
  BY ClearStep DEF Clear
<1>3. /\ \A f : f = req[r].e \/ (Clearing(f)' => Clearing(f))
      /\ \A f : OnRecord(f) => OnRecord(f)'
      /\ EventKept'
  BY <1>1, <1>2, RequestElsewhere DEF BlockInv
<1> QED BY <1>2, <1>3 DEF BlockInv, Recorded, Away

LEMMA ReloadBlock ==
    ASSUME TypeOK, BlockInv, NEW r \in Requests, Reload(r)
    PROVE  BlockInv'
<1>1. PICK q \in Loaded : /\ req' = [req EXCEPT ![r] = q]
                          /\ q.at = "reloaded" /\ q.e = req[r].e
  BY ReloadStep
<1>2. UNCHANGED <<tick, cycle, conf, gaps>> /\ req[r].at = "cleared"
  BY DEF Reload
<1>3. Clearing(req[r].e)
  BY <1>2 DEF Clearing
<1>4. /\ \A f : f = req[r].e \/ (Clearing(f)' => Clearing(f))
      /\ \A f : OnRecord(f) => OnRecord(f)'
      /\ EventKept'
  BY <1>1, <1>2, RequestElsewhere DEF BlockInv
<1> QED BY <1>2, <1>3, <1>4 DEF BlockInv, Recorded, Away

\* What a request writes down of a block is what it found, or the block is
\* away.
LEMMA SaveBlock ==
    ASSUME TypeOK, BlockInv, NEW r \in Requests, Save(r)
    PROVE  BlockInv'
<1> DEFINE e == req[r].e
           c == req[r].c
<1>1. /\ e \in Envs /\ c \in Cycle /\ c # Missing
      /\ cycle' = [cycle EXCEPT ![e] = c]
  BY SaveStep, CycleIsNotMissing
<1>2. /\ UNCHANGED <<tick, conf>> /\ req' = [req EXCEPT ![r] = Idle]
      /\ req[r].at \in {"loaded", "reloaded"}
      /\ "block" \notin gaps' => "block" \notin gaps /\ cycle[e] = req[r].base
  BY DEF Save, Saves, Loses, Gap, Gaps
<1>3. cycle'[e] = c /\ \A f \in Envs \ {e} : cycle'[f] = cycle[f]
  BY <1>1, SetCycle
<1>4. req[r].at = "reloaded" => Clearing(e)
  BY DEF Clearing
<1>5. req[r].at = "loaded" => c.event = req[r].base.event
  BY DEF BlockInv, EventKept
<1> HIDE DEF e, c
<1>6. /\ \A f : Clearing(f)' => Clearing(f)
      /\ \A f : cycle'[f] = cycle[f] /\ OnRecord(f) => OnRecord(f)'
      /\ EventKept'
  <2>1. Idle.at = "idle"
    BY DEF Idle
  <2> QED BY <1>2, <2>1, RequestElsewhere DEF BlockInv
<1>7. Recorded'
  <2> SUFFICES ASSUME "block" \notin gaps', NEW f \in conf PROVE OnRecord(f)'
    BY <1>2 DEF Recorded
  <2>1. OnRecord(f) /\ ~Clearing(f) /\ f \in Envs
    BY <1>2, TypeParts DEF BlockInv, Recorded, Away
  <2>2. CASE f # e
    BY <1>3, <1>6, <2>1, <2>2
  <2>3. CASE f = e
    <3>1. req[r].at = "loaded"
      BY <1>2, <1>4, <2>1, <2>3
    <3>2. cycle[e] # Missing /\ cycle[e].event = "reached" => c.event = "reached"
      BY <1>2, <1>5, <3>1
    <3> QED BY <1>1, <1>2, <1>3, <2>1, <2>3, <3>2 DEF OnRecord
  <2> QED BY <2>2, <2>3
<1>8. Away'
  BY <1>2, <1>6 DEF BlockInv, Away
<1> QED BY <1>6, <1>7, <1>8 DEF BlockInv

LEMMA DropBlock ==
    ASSUME TypeOK, BlockInv, NEW r \in Requests, Drop(r)
    PROVE  BlockInv'
<1>1. UNCHANGED <<tick, conf>> /\ req' = [req EXCEPT ![r] = Idle]
  BY DEF Drop
<1>2. /\ \A f : Clearing(f)' => Clearing(f)
      /\ \A f : cycle'[f] = cycle[f] /\ OnRecord(f) => OnRecord(f)'
      /\ EventKept'
  <2>1. Idle.at = "idle"
    BY DEF Idle
  <2> QED BY <1>1, <2>1, RequestElsewhere DEF BlockInv
<1>3. UNCHANGED <<cycle, gaps>> \/ "block" \in gaps'
  BY DEF Drop, Loses, Gap, Gaps
<1> QED BY <1>1, <1>2, <1>3 DEF BlockInv, Recorded, Away

LEMMA NextBlock == TypeOK /\ BlockInv /\ [Next]_vars => BlockInv'
<1> SUFFICES ASSUME TypeOK, BlockInv, [Next]_vars PROVE BlockInv'
  OBVIOUS
<1>1. CASE UNCHANGED vars
  BY <1>1, ElsewhereKeepsBlock DEF vars
<1>2. ASSUME NEW t \in Ticks, Step(t) \/ IngestFails(t) \/ Die(t) PROVE BlockInv'
  BY <1>2, IngestBlock, LoadRowBlock, JudgeBlock, SaveRowBlock, TickEndsBlock DEF Step
<1>3. ASSUME NEW r \in Requests,
             \/ Answer(r) \/ Drop(r)
             \/ \E e \in Envs : \/ LoadGrant(r, e)
                                \/ \E limit \in Limits : LoadPlan(r, e, limit)
      PROVE  BlockInv'
  BY <1>3, ClearBlock, ReloadBlock, SaveBlock, DropBlock, LoadBlock DEF Answer
<1>4. ASSUME NEW e \in Envs,
             Serve(e) \/ SwitchStatus(e) \/ \E limit \in Limits : ChangePlan(e, limit)
      PROVE  BlockInv'
  BY <1>4, OutsideBlock
<1>5. CASE Rotate \/ NextPeriod
  BY <1>5, LogBlock
<1> QED BY <1>1, <1>2, <1>3, <1>4, <1>5 DEF Next

(***************************************************************************)
(* A block that the enforcement has written to nginx's files is on record  *)
(* in the cycle file, where a later tick finds it and can take it away,    *)
(* or is about to be, unless a cycle ended under it, a tick put it back    *)
(* while it was being cleared, a process died, or one of two sessions      *)
(* wrote over the other.                                                   *)
(***************************************************************************)
THEOREM BlocksRemembered == Spec => []BlockIsRemembered
<1>1. BlockInv => BlockIsRemembered
  BY DEF BlockInv, Recorded, OnRecord, BlockIsRemembered, Flagged
<1> QED BY <1>1, InitType, NextType, InitBlock, NextBlock, PTL DEF Spec

-------------------------------------------------------------------------------
(***************************************************************************)
(* Sums.                                                                   *)
(***************************************************************************)
LEMMA UnitsOfOne ==
    ASSUME NEW x, NEW n \in Nat
    PROVE  IsFiniteSet({x} \X (1 .. n)) /\ Cardinality({x} \X (1 .. n)) = n
<1>1. IsFiniteSet(1 .. n) /\ Cardinality(1 .. n) = n
  BY FS_Interval
<1>2. IsFiniteSet({x}) /\ Cardinality({x}) = 1
  BY FS_Singleton
<1>3. /\ IsFiniteSet({x} \X (1 .. n))
      /\ Cardinality({x} \X (1 .. n)) = Cardinality({x}) * Cardinality(1 .. n)
  BY <1>1, <1>2, FS_Product
<1>4. 1 * n = n
  OBVIOUS
<1> QED BY <1>1, <1>2, <1>3, <1>4

\* The units of all members, and of all but one.
Besides(f, x) == {u \in Units(f) : u[1] # x}

LEMMA UnitsFinite ==
    ASSUME NEW S, IsFiniteSet(S), NEW f \in [S -> Nat]
    PROVE  IsFiniteSet(Units(f)) /\ Total(f) \in Nat
<1> DEFINE T == {{x} \X (1 .. f[x]) : x \in S}
           g == [x \in S |-> {x} \X (1 .. f[x])]
<1>1. g \in Surjection(S, T)
  <2>1. g \in [S -> T]
    OBVIOUS
  <2>2. \A t \in T : \E x \in S : g[x] = t
    OBVIOUS
  <2> HIDE DEF T, g
  <2> QED BY <2>1, <2>2 DEF Surjection
<1>2. IsFiniteSet(T)
  BY <1>1, FS_Surjection
<1>3. \A t \in T : IsFiniteSet(t)
  <2>1. \A x \in S : IsFiniteSet({x} \X (1 .. f[x]))
    BY UnitsOfOne
  <2> QED BY <2>1
<1>4. Units(f) = UNION T
  BY DEF Units
<1> HIDE DEF T
<1>5. IsFiniteSet(Units(f))
  BY <1>2, <1>3, <1>4, FS_UNION
<1> QED BY <1>5, FS_CardinalityType DEF Total

LEMMA TotalSplit ==
    ASSUME NEW S, IsFiniteSet(S), NEW f \in [S -> Nat], NEW x \in S
    PROVE  /\ IsFiniteSet(Besides(f, x))
           /\ Total(f) = f[x] + Cardinality(Besides(f, x))
<1> DEFINE own == {x} \X (1 .. f[x])
<1>1. IsFiniteSet(Units(f)) /\ IsFiniteSet(Besides(f, x))
  BY UnitsFinite, FS_Subset DEF Besides
<1>2. IsFiniteSet(own) /\ Cardinality(own) = f[x]
  BY UnitsOfOne
<1>3. Units(f) = own \cup Besides(f, x) /\ own \cap Besides(f, x) = {}
  <2>1. \A u \in Units(f) : u[1] = x => u \in own
    <3>1. SUFFICES ASSUME NEW y \in S, NEW u \in {y} \X (1 .. f[y]), u[1] = x
                   PROVE  u \in own
      BY DEF Units
    <3>2. y = x
      BY <3>1
    <3> QED BY <3>1, <3>2
  <2>2. own \subseteq Units(f)
    BY DEF Units
  <2>3. \A u \in own : u[1] = x
    OBVIOUS
  <2> HIDE DEF own
  <2>4. Units(f) \subseteq own \cup Besides(f, x) /\ Besides(f, x) \subseteq Units(f)
    BY <2>1 DEF Besides
  <2>5. \A u \in Besides(f, x) : u \notin own
    BY <2>3 DEF Besides
  <2> QED BY <2>2, <2>4, <2>5
<1>4. Cardinality(Besides(f, x)) \in Nat /\ f[x] \in Nat /\ Cardinality({}) = 0
  BY <1>1, FS_CardinalityType, FS_EmptySet
<1> HIDE DEF own
<1>5. Cardinality(own \cup Besides(f, x)) =
          Cardinality(own) + Cardinality(Besides(f, x)) - Cardinality(own \cap Besides(f, x))
  BY <1>1, <1>2, FS_Union
<1>6. Total(f) = Cardinality(own) + Cardinality(Besides(f, x)) - Cardinality({})
  BY <1>3, <1>5 DEF Total
<1> QED BY <1>1, <1>2, <1>4, <1>6

\* A sum changes by what one of its terms changes.
LEMMA TotalChange ==
    ASSUME NEW S, IsFiniteSet(S), NEW f \in [S -> Nat], NEW g \in [S -> Nat],
           NEW x \in S, \A y \in S \ {x} : g[y] = f[y]
    PROVE  Total(g) = Total(f) - f[x] + g[x]
<1>1. Besides(g, x) = Besides(f, x)
  <2>1. Units(f) = UNION {{y} \X (1 .. f[y]) : y \in S}
        /\ Units(g) = UNION {{y} \X (1 .. g[y]) : y \in S}
    BY DEF Units
  <2>2. \A u : u \in Besides(f, x) <=> \E y \in S \ {x} : u \in {y} \X (1 .. f[y])
    BY <2>1 DEF Besides
  <2>3. \A u : u \in Besides(g, x) <=> \E y \in S \ {x} : u \in {y} \X (1 .. g[y])
    BY <2>1 DEF Besides
  <2> QED BY <2>2, <2>3
<1>2. Total(f) = f[x] + Cardinality(Besides(f, x)) /\ Total(g) = g[x] + Cardinality(Besides(g, x))
      /\ Cardinality(Besides(f, x)) \in Nat
  BY TotalSplit, FS_CardinalityType
<1> QED BY <1>1, <1>2

LEMMA TotalZero ==
    ASSUME NEW S, NEW f \in [S -> Nat], \A x \in S : f[x] = 0
    PROVE  Total(f) = 0
<1>1. Units(f) = {}
  BY DEF Units
<1> QED BY <1>1, FS_EmptySet DEF Total

-------------------------------------------------------------------------------
(***************************************************************************)
(* The meter.                                                              *)
(***************************************************************************)

\* What one tick, and one cycle, contribute to the account of e.
PartOf(q, e) ==
    IF q = Idle THEN 0
    ELSE IF e \in q.todo \/ (q.at # "rows" /\ q.e = e) THEN q.delta[e] ELSE 0
UsedOf(c) == IF c = Missing THEN 0 ELSE c.used

\* Between load and save a tick has added exactly its delta, and a request
\* nothing; an environment being saved is not to be loaded again.
Counted ==
    /\ \A t \in Ticks : tick[t].at \in {"row", "judged"} =>
        /\ tick[t].e \notin tick[t].todo
        /\ tick[t].c.used = tick[t].base.used + tick[t].delta[tick[t].e]
    /\ \A r \in Requests : req[r] # Idle => req[r].c.used = req[r].base.used

MeterInv == MeterIsExact /\ Counted

LEMMA PartType ==
    ASSUME NEW q \in {Idle} \cup RowsTick \cup RowTick, NEW e \in Envs
    PROVE  PartOf(q, e) \in Nat
BY DEF PartOf, RowsTick, RowTick

LEMMA UsedType ==
    ASSUME NEW c \in Cycle \cup {Missing}
    PROVE  UsedOf(c) \in Nat /\ (c \in Cycle => UsedOf(c) = c.used)
BY CycleIsNotMissing DEF UsedOf, Cycle

\* How the computations on cycles treat the count.
LEMMA CountKept ==
    ASSUME NEW c \in Cycle, NEW n \in Nat
    PROVE  /\ Merge(c, n).used = c.used + n
           /\ SetLimit(c, n).used = c.used
           /\ Grant(c).used = c.used
           /\ Roll(c, n).used = IF Ended(c) THEN 0 ELSE c.used
           /\ Judged(c).used = c.used
<1>1. \A d \in Cycle : Eased(d).used = d.used
  BY DEF Eased, Cycle
<1>2. Merge(c, n).used = c.used + n
  BY DEF Merge, Cycle
<1>3. SetLimit(c, n).used = c.used
  <2>1. [c EXCEPT !.limit = n] \in Cycle /\ [c EXCEPT !.limit = n].used = c.used
    BY DEF Cycle
  <2> QED BY <1>1, <2>1 DEF SetLimit
<1>4. Grant(c).used = c.used
  <2>1. [c EXCEPT !.extra = @ + 1] \in Cycle /\ [c EXCEPT !.extra = @ + 1].used = c.used
    BY DEF Cycle
  <2> QED BY <1>1, <2>1 DEF Grant
<1>5. Roll(c, n).used = IF Ended(c) THEN 0 ELSE c.used
  BY <1>3 DEF Roll, NewCycle
<1>6. Judged(c).used = c.used
  BY DEF Judged, Cycle
<1> QED BY <1>2, <1>3, <1>4, <1>5, <1>6

LEMMA InFlightParts ==
    ASSUME NEW e \in Envs
    PROVE  /\ InFlight(e) = Total([t \in Ticks |-> PartOf(tick[t], e)])
           /\ InFlight(e)' = Total([t \in Ticks |-> PartOf(tick'[t], e)])
<1>1. \A t \in Ticks : (IF Holds(t, e) THEN tick[t].delta[e] ELSE 0) = PartOf(tick[t], e)
  BY DEF Holds, PartOf
<1>2. \A t \in Ticks : (IF Holds(t, e)' THEN tick'[t].delta[e] ELSE 0) = PartOf(tick'[t], e)
  BY DEF Holds, PartOf
<1>3. [t \in Ticks |-> IF Holds(t, e) THEN tick[t].delta[e] ELSE 0]
        = [t \in Ticks |-> PartOf(tick[t], e)]
  BY <1>1
<1>4. [t \in Ticks |-> IF Holds(t, e)' THEN tick'[t].delta[e] ELSE 0]
        = [t \in Ticks |-> PartOf(tick'[t], e)]
  BY <1>2
<1>5. InFlight(e)' = Total([t \in Ticks |-> IF Holds(t, e)' THEN tick'[t].delta[e] ELSE 0])
  BY DEF InFlight
<1> QED BY <1>3, <1>4, <1>5 DEF InFlight

\* The account of e in a state that may be off balance by n.
Account(d, c, sum, u) == d = UsedOf(c) + sum + u

LEMMA ExactParts ==
    /\ \A e \in Envs : (due[e] = Used(e) + InFlight(e) + unread[e])
            <=> Account(due[e], cycle[e], InFlight(e), unread[e])
    /\ (\A e \in Envs : Account(due'[e], cycle'[e], InFlight(e)', unread'[e]))
            => MeterIsExact'
BY DEF Account, UsedOf, Used, MeterIsExact

\* What is in flight changes with the tick that moves.
LEMMA InFlightChange ==
    ASSUME TypeOK, NEW e \in Envs, NEW t \in Ticks,
           NEW value \in {Idle} \cup RowsTick \cup RowTick, tick' = [tick EXCEPT ![t] = value]
    PROVE  /\ InFlight(e) \in Nat
           /\ InFlight(e)' = InFlight(e) - PartOf(tick[t], e) + PartOf(value, e)
<1> DEFINE f == [u \in Ticks |-> PartOf(tick[u], e)]
           g == [u \in Ticks |-> PartOf(tick'[u], e)]
<1>1. \A u \in Ticks : PartOf(tick[u], e) \in Nat
  BY PartType, TypeParts
<1>2. tick'[t] = value /\ \A u \in Ticks \ {t} : tick'[u] = tick[u]
  BY SetTick
<1>3. \A u \in Ticks : PartOf(tick'[u], e) \in Nat
  <2>1. tick' \in [Ticks -> {Idle} \cup RowsTick \cup RowTick]
    BY SetTick
  <2> QED BY <2>1, PartType
<1>4. f \in [Ticks -> Nat] /\ g \in [Ticks -> Nat]
  BY <1>1, <1>3
<1>5. /\ \A u \in Ticks \ {t} : g[u] = f[u]
      /\ f[t] = PartOf(tick[t], e) /\ g[t] = PartOf(value, e)
  BY <1>2
<1>6. InFlight(e) = Total(f) /\ InFlight(e)' = Total(g)
  BY InFlightParts
<1> HIDE DEF f, g
<1>7. Total(g) = Total(f) - f[t] + g[t]
  BY <1>4, <1>5, TotalChange, TickAssumption
<1>8. Total(f) \in Nat
  BY <1>4, UnitsFinite, TickAssumption
<1> QED BY <1>5, <1>6, <1>7, <1>8

LEMMA InitMeter == Init => MeterInv
<1> SUFFICES ASSUME Init PROVE MeterInv
  OBVIOUS
<1>1. Counted
  BY DEF Init, Counted, Idle
<1>2. ASSUME NEW e \in Envs PROVE due[e] = Used(e) + InFlight(e) + unread[e]
  <2>1. [t \in Ticks |-> PartOf(tick[t], e)] \in [Ticks -> Nat]
        /\ \A u \in Ticks : [t \in Ticks |-> PartOf(tick[t], e)][u] = 0
    BY DEF Init, PartOf
  <2>2. InFlight(e) = 0
    BY <2>1, InFlightParts, TotalZero
  <2> QED BY <2>2 DEF Init, Nothing, Used
<1> QED BY <1>1, <1>2 DEF MeterInv, MeterIsExact

\* A step of tick t balances when what it adds to and takes from the four
\* parts of the account cancels.
LEMMA TickBalance ==
    ASSUME TypeOK, MeterIsExact, "usage" \notin gaps, NEW e \in Envs, NEW t \in Ticks,
           NEW value \in {Idle} \cup RowsTick \cup RowTick, tick' = [tick EXCEPT ![t] = value],
           NEW d \in Int, NEW c \in Cycle \cup {Missing}, NEW u \in Nat,
           d = due[e] + UsedOf(c) - UsedOf(cycle[e]) + PartOf(value, e) - PartOf(tick[t], e)
                      + u - unread[e]
    PROVE  Account(d, c, InFlight(e)', u)
<1>1. /\ due[e] \in Int /\ UsedOf(cycle[e]) \in Nat /\ UsedOf(c) \in Nat
      /\ PartOf(value, e) \in Nat /\ PartOf(tick[t], e) \in Nat /\ unread[e] \in Nat
  BY TypeParts, UsedType, PartType
<1>2. due[e] = UsedOf(cycle[e]) + InFlight(e) + unread[e]
  BY ExactParts DEF MeterIsExact, Account
<1>3. InFlight(e) \in Nat /\ InFlight(e)' = InFlight(e) - PartOf(tick[t], e) + PartOf(value, e)
  BY InFlightChange
<1>4. PICK sum : sum = InFlight(e)'
  OBVIOUS
<1>5. d = UsedOf(c) + sum + u
  BY <1>1, <1>2, <1>3, <1>4
<1> QED BY <1>4, <1>5 DEF Account

\* The same of a step of no tick.
LEMMA QuietBalance ==
    ASSUME TypeOK, MeterIsExact, "usage" \notin gaps, NEW e \in Envs, UNCHANGED tick,
           NEW d \in Int, NEW c \in Cycle \cup {Missing}, NEW u \in Nat,
           d = due[e] + UsedOf(c) - UsedOf(cycle[e]) + u - unread[e],
           InFlight(e) \in Nat
    PROVE  Account(d, c, InFlight(e)', u)
<1>1. /\ due[e] \in Int /\ UsedOf(cycle[e]) \in Nat /\ UsedOf(c) \in Nat /\ unread[e] \in Nat
  BY TypeParts, UsedType
<1>2. due[e] = UsedOf(cycle[e]) + InFlight(e) + unread[e]
  BY ExactParts DEF MeterIsExact, Account
<1>3. InFlight(e)' = InFlight(e)
  BY InFlightParts
<1>4. d = UsedOf(c) + InFlight(e) + u
  BY <1>1, <1>2
<1> QED BY <1>3, <1>4 DEF Account

\* A session that is set keeps its count, if its new value does.
LEMMA SetTickCounted ==
    ASSUME TypeOK, Counted, NEW t \in Ticks, NEW value \in {Idle} \cup RowsTick \cup RowTick,
           tick' = [tick EXCEPT ![t] = value], UNCHANGED req,
           value.at \in {"row", "judged"} =>
               /\ value.e \notin value.todo
               /\ value.c.used = value.base.used + value.delta[value.e]
    PROVE  Counted'
<1>1. tick'[t] = value /\ \A u \in Ticks \ {t} : tick'[u] = tick[u]
  BY SetTick
<1> QED BY <1>1 DEF Counted

\* What balances is exact.
LEMMA Balanced ==
    ASSUME Counted',
           "usage" \notin gaps' => "usage" \notin gaps,
           ASSUME NEW e \in Envs, "usage" \notin gaps'
           PROVE  Account(due'[e], cycle'[e], InFlight(e)', unread'[e])
    PROVE  MeterInv'
BY ExactParts DEF MeterInv, MeterIsExact

LEMMA IngestMeter ==
    ASSUME TypeOK, TypeOK', MeterInv, NEW t \in Ticks, Ingest(t)
    PROVE  MeterInv'
<1> DEFINE q == [at |-> "rows", delta |-> unread, todo |-> Rows, dirty |-> FALSE]
<1>1. q \in RowsTick /\ q.at = "rows" /\ q.delta = unread
      /\ \A e \in Envs : e \in q.todo <=> e \in Rows
  BY TypeParts DEF RowsTick, Rows
<1>2. /\ tick' = [tick EXCEPT ![t] = q] /\ tick[t] = Idle
      /\ unread' = Nothing /\ UNCHANGED <<cycle, req>>
      /\ "usage" \notin gaps' =>
            /\ "usage" \notin gaps /\ UNCHANGED due
            /\ \A e \in Envs \ Rows : ~(unread[e] > 0)
  BY DEF Ingest, IngestFrom, Read, Loses, Gap
<1> HIDE DEF q
<1>3. Counted'
  BY <1>1, <1>2, SetTickCounted DEF MeterInv
<1>4. ASSUME NEW e \in Envs, "usage" \notin gaps'
      PROVE  Account(due'[e], cycle'[e], InFlight(e)', unread'[e])
  <2>1. "usage" \notin gaps /\ (e \notin Rows => ~(unread[e] > 0))
    BY <1>2, <1>4
  <2>2. unread[e] \in Nat /\ due[e] \in Int /\ cycle[e] \in Cycle \cup {Missing}
        /\ UsedOf(cycle[e]) \in Nat
    BY TypeParts, UsedType
  <2>3. PartOf(tick[t], e) = 0
    BY <1>2 DEF PartOf
  <2>4. PartOf(q, e) = unread[e]
    <3>1. q # Idle
      BY <1>1 DEF Idle
    <3>2. CASE e \in Rows
      BY <1>1, <3>1, <3>2 DEF PartOf
    <3>3. CASE e \notin Rows
      <4>1. PartOf(q, e) = 0
        BY <1>1, <3>1, <3>3 DEF PartOf
      <4> QED BY <2>1, <2>2, <3>3, <4>1
    <3> QED BY <3>2, <3>3
  <2>5. Account(due[e], cycle[e], InFlight(e)', 0)
    <3>1. due[e] = due[e] + UsedOf(cycle[e]) - UsedOf(cycle[e]) + PartOf(q, e)
                          - PartOf(tick[t], e) + 0 - unread[e]
      BY <2>2, <2>3, <2>4
    <3> QED BY <1>1, <1>2, <2>1, <2>2, <3>1, TickBalance DEF MeterInv
  <2> QED BY <1>2, <1>4, <2>5 DEF Nothing
<1> QED BY <1>2, <1>3, <1>4, Balanced

\* Steps that lose track of the traffic, and set sessions that are counted.
LEMMA LostMeter ==
    ASSUME Counted', "usage" \in gaps' PROVE MeterInv'
BY DEF MeterInv, MeterIsExact

LEMMA IngestFailsMeter ==
    ASSUME TypeOK, MeterInv, NEW t \in Ticks, IngestFails(t)
    PROVE  MeterInv'
<1>1. PICK read \in SUBSET Envs :
          Read(t, [e \in Envs |-> IF e \in read THEN unread[e] ELSE 0], unread)
  BY DEF IngestFails
<1> DEFINE q == [at |-> "rows", delta |-> [e \in Envs |-> IF e \in read THEN unread[e] ELSE 0],
                 todo |-> Rows, dirty |-> FALSE]
<1>2. q \in RowsTick /\ q.at = "rows"
  BY TypeParts DEF RowsTick, Rows
<1>3. tick' = [tick EXCEPT ![t] = q] /\ UNCHANGED req
  BY <1>1 DEF Read
<1>4. "usage" \in gaps'
  BY DEF IngestFails, Loses, Gap
<1> HIDE DEF q
<1>5. Counted'
  BY <1>2, <1>3, SetTickCounted DEF MeterInv
<1> QED BY <1>4, <1>5, LostMeter

LEMMA LoadRowMeter ==
    ASSUME TypeOK, TypeOK', MeterInv, NEW t \in Ticks, NEW e \in Envs, LoadRow(t, e)
    PROVE  MeterInv'
<1> DEFINE old == tick[t]
           q == [at |-> "row", delta |-> old.delta, todo |-> old.todo \ {e},
                 dirty |-> old.dirty, e |-> e, base |-> Base(e), c |-> Held(t, e)]
<1>1. /\ q \in RowTick /\ tick' = [tick EXCEPT ![t] = q] /\ Base(e) \in Cycle
      /\ cycle' = [cycle EXCEPT ![e] = Base(e)]
  BY LoadRowStep
<1>2. /\ q.at = "row" /\ q.delta = old.delta /\ q.todo = old.todo \ {e} /\ q.e = e
      /\ q.base = Base(e) /\ q.c = Held(t, e)
  OBVIOUS
<1>3. old \in RowsTick /\ old.at = "rows" /\ e \in old.todo /\ UNCHANGED <<req, unread>>
  BY TickShape DEF LoadRow
<1> HIDE DEF q
<1>4. plan[e] \in Nat /\ old.delta[e] \in Nat
  BY <1>3, TypeParts DEF RowsTick
<1>5. Held(t, e).used = Base(e).used + old.delta[e]
  <2>1. /\ Merge(Base(e), old.delta[e]).used = Base(e).used + old.delta[e]
        /\ SetLimit(Base(e), plan[e]).used = Base(e).used
    BY <1>1, <1>4, CountKept
  <2>2. Base(e).used \in Nat
    BY <1>1 DEF Cycle
  <2> QED BY <1>4, <2>1, <2>2 DEF Held
<1>6. Counted'
  BY <1>1, <1>2, <1>3, <1>5, SetTickCounted DEF MeterInv
<1>7. ASSUME "usage" \notin gaps' PROVE "usage" \notin gaps
  BY <1>7 DEF LoadRow, Gap
<1>8. ASSUME NEW f \in Envs, "usage" \notin gaps'
      PROVE  Account(due'[f], cycle'[f], InFlight(f)', unread'[f])
  <2>1. /\ unread[f] \in Nat /\ due[f] \in Int /\ cycle[f] \in Cycle \cup {Missing}
        /\ UsedOf(cycle[f]) \in Nat
    BY TypeParts, UsedType
  <2>2. PartOf(q, f) = PartOf(old, f) /\ PartOf(q, f) \in Nat
    <3>1. q # Idle /\ old # Idle
      BY <1>2, <1>3 DEF Idle
    <3> QED BY <1>1, <1>2, <1>3, <3>1, PartType DEF PartOf
  <2>3. PICK d \in Int, c \in Cycle \cup {Missing} :
            /\ d = due'[f] /\ c = cycle'[f]
            /\ d = due[f] + UsedOf(c) - UsedOf(cycle[f])
    <3>1. CASE f # e
      <4>1. cycle'[f] = cycle[f]
        BY <1>1, <3>1, SetCycle
      <4>2. due'[f] = due[f]
        BY <3>1, TypeParts DEF LoadRow, Due
      <4> QED BY <2>1, <4>1, <4>2
    <3>2. CASE f = e /\ cycle[e] = Missing
      <4>1. cycle'[f] = Base(e) /\ due'[f] = due[f]
        BY <1>1, <3>2, SetCycle DEF LoadRow
      <4>2. UsedOf(Base(e)) = 0 /\ UsedOf(cycle[f]) = 0
        BY <1>1, <3>2, UsedType DEF Base, NewCycle, UsedOf
      <4> QED BY <1>1, <2>1, <3>2, <4>1, <4>2
    <3>3. CASE f = e /\ cycle[e] # Missing
      <4>1. cycle'[f] = Base(e) /\ cycle[e] \in Cycle
        BY <1>1, <2>1, <3>3, SetCycle
      <4>2. UsedOf(Base(e)) = IF Ended(cycle[e]) THEN 0 ELSE cycle[e].used
        <5>1. Roll(cycle[e], plan[e]).used = IF Ended(cycle[e]) THEN 0 ELSE cycle[e].used
          BY <1>4, <4>1, CountKept
        <5> QED BY <1>1, <3>3, <5>1, UsedType DEF Base
      <4>3. UsedOf(cycle[f]) = cycle[e].used
        BY <3>3, <4>1, UsedType
      <4>4. CASE Ended(cycle[e])
        <5>1. due' = [due EXCEPT ![e] = @ + (-cycle[e].used)]
          BY <1>7, <1>8, <3>3, <4>4 DEF LoadRow, Due
        <5>2. due'[f] = due[f] + (-cycle[e].used)
          BY <3>3, <5>1, TypeParts
        <5>3. due[f] + (-cycle[e].used) \in Int
          BY <2>1, <4>3
        <5>4. due[f] + (-cycle[e].used) = due[f] + UsedOf(Base(e)) - UsedOf(cycle[f])
          BY <2>1, <4>2, <4>3, <4>4
        <5> QED BY <1>1, <4>1, <5>2, <5>3, <5>4
      <4>5. CASE ~Ended(cycle[e])
        <5>1. due'[f] = due[f]
          BY <4>5 DEF LoadRow
        <5> QED BY <1>1, <2>1, <4>1, <4>2, <4>3, <4>5, <5>1
      <4> QED BY <4>4, <4>5
    <3> QED BY <3>1, <3>2, <3>3
  <2>4. UsedOf(c) \in Nat
    BY UsedType
  <2>5. d = due[f] + UsedOf(c) - UsedOf(cycle[f]) + PartOf(q, f) - PartOf(tick[t], f)
                   + unread[f] - unread[f]
    BY <2>1, <2>2, <2>3, <2>4
  <2>6. Account(d, c, InFlight(f)', unread[f])
    BY <1>1, <1>7, <1>8, <2>1, <2>5, TickBalance DEF MeterInv
  <2> QED BY <1>3, <2>3, <2>6
<1> QED BY <1>6, <1>7, <1>8, Balanced

\* Writing the block moves no traffic.
LEMMA JudgeMeter ==
    ASSUME TypeOK, TypeOK', MeterInv, NEW t \in Ticks, Judge(t)
    PROVE  MeterInv'
<1>1. PICK q \in RowTick :
        /\ tick' = [tick EXCEPT ![t] = q]
        /\ q.at = "judged" /\ q.e = tick[t].e /\ q.todo = tick[t].todo
        /\ q.delta = tick[t].delta /\ q.base = tick[t].base /\ q.c = tick[t].c
  BY JudgeStep
<1>2. /\ tick[t].at = "row" /\ tick[t] \in RowTick /\ UNCHANGED <<req, unread, due, cycle>>
      /\ "usage" \notin gaps' => "usage" \notin gaps
  BY JudgeStep DEF Judge, Gap
<1>3. Counted'
  BY <1>1, <1>2, SetTickCounted DEF MeterInv, Counted
<1>4. ASSUME NEW f \in Envs, "usage" \notin gaps'
      PROVE  Account(due[f], cycle[f], InFlight(f)', unread[f])
  <2>1. /\ unread[f] \in Nat /\ due[f] \in Int /\ cycle[f] \in Cycle \cup {Missing}
        /\ UsedOf(cycle[f]) \in Nat
    BY TypeParts, UsedType
  <2>2. q # Idle /\ tick[t] # Idle
    BY <1>1, <1>2 DEF Idle
  <2>3. PartOf(q, f) = PartOf(tick[t], f) /\ PartOf(q, f) \in Nat
    BY <1>1, <1>2, <2>2, PartType DEF PartOf
  <2>4. due[f] = due[f] + UsedOf(cycle[f]) - UsedOf(cycle[f]) + PartOf(q, f)
                 - PartOf(tick[t], f) + unread[f] - unread[f]
    BY <2>1, <2>3
  <2> QED BY <1>1, <1>2, <1>4, <2>1, <2>4, TickBalance DEF MeterInv
<1> QED BY <1>2, <1>3, <1>4, Balanced

LEMMA SaveRowMeter ==
    ASSUME TypeOK, TypeOK', MeterInv, NEW t \in Ticks, SaveRow(t)
    PROVE  MeterInv'
<1> DEFINE q == tick[t]
<1>1. q \in RowTick /\ q.at \in {"row", "judged"}
  BY SaveRowStep
<1>2. /\ q.c \in Cycle /\ q.e \in Envs /\ Judged(q.c) \in Cycle /\ q.base \in Cycle
      /\ q.delta \in [Envs -> Nat] /\ q.todo \in SUBSET Envs
  BY <1>1, JudgedType DEF RowTick
<1>3. /\ UNCHANGED <<req, unread>>
      /\ cycle' = [cycle EXCEPT ![q.e] = Judged(q.c)]
      /\ "usage" \notin gaps' => "usage" \notin gaps /\ cycle[q.e] = q.base /\ UNCHANGED due
  BY DEF SaveRow, Loses, Gap, Gaps
<1>4. PICK r \in RowsTick : /\ tick' = [tick EXCEPT ![t] = r]
                            /\ r.at = "rows" /\ r.delta = q.delta /\ r.todo = q.todo
  BY SaveRowStep
<1>5. q.e \notin q.todo /\ q.c.used = q.base.used + q.delta[q.e]
  BY <1>1 DEF MeterInv, Counted
<1> HIDE DEF q
<1>6. Counted'
  BY <1>3, <1>4, SetTickCounted DEF MeterInv
<1>7. ASSUME NEW f \in Envs, "usage" \notin gaps'
      PROVE  Account(due'[f], cycle'[f], InFlight(f)', unread'[f])
  <2>1. /\ unread[f] \in Nat /\ due[f] \in Int /\ cycle[f] \in Cycle \cup {Missing}
        /\ UsedOf(cycle[f]) \in Nat /\ q.delta[f] \in Nat
    BY <1>2, TypeParts, UsedType
  <2>2. r # Idle /\ q # Idle
    BY <1>1, <1>4 DEF Idle
  <2>3. PartOf(r, f) \in Nat /\ PartOf(q, f) \in Nat
    BY <1>1, <1>4, PartType
  <2>4. PICK c \in Cycle \cup {Missing} :
            /\ c = cycle'[f]
            /\ UsedOf(c) \in Nat
            /\ UsedOf(c) - UsedOf(cycle[f]) = PartOf(q, f) - PartOf(r, f)
    <3>1. CASE f = q.e
      <4>1. cycle'[f] = Judged(q.c)
        BY <1>2, <1>3, <3>1, SetCycle
      <4>2. UsedOf(Judged(q.c)) = q.c.used /\ UsedOf(cycle[f]) = q.base.used
        BY <1>2, <1>3, <1>7, <3>1, UsedType, CountKept
      <4>3. PartOf(q, f) = q.delta[f] /\ PartOf(r, f) = 0
        BY <1>1, <1>4, <1>5, <2>2, <3>1 DEF PartOf
      <4>4. q.c.used \in Nat /\ q.base.used \in Nat
        BY <1>2 DEF Cycle
      <4>5. UsedOf(Judged(q.c)) - UsedOf(cycle[f]) = PartOf(q, f) - PartOf(r, f)
        BY <1>5, <2>1, <3>1, <4>2, <4>3, <4>4
      <4> QED BY <1>2, <4>1, <4>2, <4>4, <4>5
    <3>2. CASE f # q.e
      <4>1. cycle'[f] = cycle[f]
        BY <1>2, <1>3, <3>2, SetCycle
      <4>2. PartOf(q, f) = PartOf(r, f)
        BY <1>1, <1>4, <2>2, <3>2 DEF PartOf
      <4> QED BY <2>1, <2>3, <4>1, <4>2
    <3> QED BY <3>1, <3>2
  <2>5. due[f] = due[f] + UsedOf(c) - UsedOf(cycle[f]) + PartOf(r, f) - PartOf(q, f)
                 + unread[f] - unread[f]
    BY <2>1, <2>3, <2>4
  <2>6. Account(due[f], c, InFlight(f)', unread[f])
    BY <1>3, <1>4, <1>7, <2>1, <2>5, TickBalance DEF MeterInv, q
  <2> QED BY <1>3, <1>7, <2>4, <2>6
<1> QED BY <1>3, <1>6, <1>7, Balanced

LEMMA TickEndsMeter ==
    ASSUME TypeOK, TypeOK', MeterInv, NEW t \in Ticks, EndTick(t) \/ Die(t)
    PROVE  MeterInv'
<1>1. tick' = [tick EXCEPT ![t] = Idle] /\ UNCHANGED <<req, unread>>
  BY DEF EndTick, Die
<1>2. Counted'
  BY <1>1, SetTickCounted DEF MeterInv, Idle
<1>3. CASE EndTick(t)
  <2>1. tick[t].at = "rows" /\ tick[t].todo = {} /\ UNCHANGED <<cycle, gaps, due>>
    BY <1>3 DEF EndTick
  <2>2. ASSUME NEW f \in Envs, "usage" \notin gaps
        PROVE  Account(due[f], cycle[f], InFlight(f)', unread[f])
    <3>1. PartOf(tick[t], f) = 0 /\ PartOf(Idle, f) = 0
      BY <2>1 DEF PartOf, Idle
    <3>2. /\ unread[f] \in Nat /\ due[f] \in Int /\ cycle[f] \in Cycle \cup {Missing}
          /\ UsedOf(cycle[f]) \in Nat
      BY TypeParts, UsedType
    <3>3. due[f] = due[f] + UsedOf(cycle[f]) - UsedOf(cycle[f]) + PartOf(Idle, f)
                   - PartOf(tick[t], f) + unread[f] - unread[f]
      BY <3>1, <3>2
    <3> QED BY <1>1, <2>2, <3>2, <3>3, TickBalance DEF MeterInv
  <2> QED BY <1>1, <1>2, <2>1, <2>2, Balanced
<1>4. CASE Die(t)
  <2>1. "usage" \in gaps'
    BY <1>4 DEF Die, Loses, Gap, Gaps
  <2> QED BY <1>2, <2>1, LostMeter
<1> QED BY <1>3, <1>4

\* What is in flight is a number, also where there is no tick.
LEMMA InFlightType ==
    ASSUME TypeOK, NEW e \in Envs PROVE InFlight(e) \in Nat
<1> DEFINE f == [u \in Ticks |-> PartOf(tick[u], e)]
<1>1. f \in [Ticks -> Nat]
  BY PartType, TypeParts
<1>2. InFlight(e) = Total(f)
  BY InFlightParts
<1> HIDE DEF f
<1> QED BY <1>1, <1>2, UnitsFinite, TickAssumption

LEMMA LoadMeter ==
    ASSUME TypeOK, TypeOK', MeterInv, NEW r \in Requests, NEW e \in Envs,
           LoadGrant(r, e) \/ \E limit \in Limits : LoadPlan(r, e, limit)
    PROVE  MeterInv'
<1>1. cycle[e] \in Cycle
  BY TypeParts DEF LoadGrant, LoadPlan
<1>2. PICK q : /\ req' = [req EXCEPT ![r] = q]
               /\ q.c.used = q.base.used
  <2>1. \A limit \in Limits : SetLimit(cycle[e], limit).used = cycle[e].used
    BY <1>1, CountKept
  <2>2. Grant(cycle[e]).used = cycle[e].used
    BY <1>1, CountKept
  <2>3. \A c, lim : Load(r, e, c, lim) /\ c.used = cycle[e].used =>
          \E q : req' = [req EXCEPT ![r] = q] /\ q.c.used = q.base.used
    <3> TAKE c, lim
    <3> HAVE Load(r, e, c, lim) /\ c.used = cycle[e].used
    <3> DEFINE q == [at |-> "loaded", e |-> e, base |-> cycle[e], c |-> c, plan |-> lim]
    <3>1. req' = [req EXCEPT ![r] = q]
      BY DEF Load
    <3>2. q.c.used = q.base.used
      OBVIOUS
    <3> QED BY <3>1, <3>2
  <2>4. CASE LoadGrant(r, e)
    BY <2>2, <2>3, <2>4 DEF LoadGrant
  <2>5. CASE \E limit \in Limits : LoadPlan(r, e, limit)
    BY <2>1, <2>3, <2>5 DEF LoadPlan
  <2> QED BY <2>4, <2>5
<1>3. Counted'
  BY <1>2, LoadUnchanged, TypeParts DEF MeterInv, Counted
<1>4. ASSUME NEW f \in Envs, "usage" \notin gaps
      PROVE  Account(due[f], cycle[f], InFlight(f)', unread[f])
  <2>1. UNCHANGED tick
    BY LoadUnchanged
  <2>2. /\ unread[f] \in Nat /\ due[f] \in Int /\ cycle[f] \in Cycle \cup {Missing}
        /\ UsedOf(cycle[f]) \in Nat
    BY TypeParts, UsedType
  <2>3. due[f] = due[f] + UsedOf(cycle[f]) - UsedOf(cycle[f]) + unread[f] - unread[f]
    BY <2>2
  <2> QED BY <1>4, <2>1, <2>2, <2>3, QuietBalance, InFlightType DEF MeterInv
<1> QED BY <1>3, <1>4, LoadUnchanged, Balanced

\* A request keeps the count of the cycle it has loaded, ...
LEMMA SetRequestCounted ==
    ASSUME TypeOK, Counted, NEW r \in Requests, NEW value \in {Idle} \cup Loaded,
           req' = [req EXCEPT ![r] = value], UNCHANGED tick,
           value # Idle => value.c.used = value.base.used
    PROVE  Counted'
<1>1. req'[r] = value /\ \A s \in Requests \ {r} : req'[s] = req[s]
  BY SetRequest
<1> QED BY <1>1 DEF Counted

LEMMA ClearMeter ==
    ASSUME TypeOK, MeterInv, NEW r \in Requests, Clear(r) \/ Reload(r)
    PROVE  MeterInv'
<1>1. PICK q \in Loaded : /\ req' = [req EXCEPT ![r] = q]
                          /\ q.base = req[r].base /\ q.c.used = req[r].c.used
  BY ClearStep, ReloadStep
<1>2. UNCHANGED <<tick, cycle, due, unread, gaps>>
  BY DEF Clear, Reload
<1>3. req[r].c.used = req[r].base.used
  BY ClearStep, ReloadStep DEF MeterInv, Counted
<1>4. Counted'
  BY <1>1, <1>2, <1>3, SetRequestCounted DEF MeterInv
<1>5. \A e \in Envs : InFlight(e)' = InFlight(e)
  BY <1>2, InFlightParts
<1> QED BY <1>2, <1>4, <1>5 DEF MeterInv, MeterIsExact, Used

\* ... and saves what it has loaded.
LEMMA SaveMeter ==
    ASSUME TypeOK, TypeOK', MeterInv, NEW r \in Requests, Save(r)
    PROVE  MeterInv'
<1> DEFINE q == req[r]
<1>1. /\ q.e \in Envs /\ q.c \in Cycle /\ q.base \in Cycle /\ q # Idle
      /\ cycle' = [cycle EXCEPT ![q.e] = q.c]
  BY SaveStep
<1>2. /\ req' = [req EXCEPT ![r] = Idle] /\ UNCHANGED <<tick, unread>>
      /\ "usage" \notin gaps' => "usage" \notin gaps /\ cycle[q.e] = q.base /\ UNCHANGED due
  BY DEF Save, Loses, Gap, Gaps
<1>3. q.c.used = q.base.used
  BY <1>1 DEF MeterInv, Counted
<1> HIDE DEF q
<1>4. Counted'
  BY <1>2, SetRequestCounted DEF MeterInv
<1>5. ASSUME NEW f \in Envs, "usage" \notin gaps'
      PROVE  Account(due'[f], cycle'[f], InFlight(f)', unread'[f])
  <2>1. /\ unread[f] \in Nat /\ due[f] \in Int /\ cycle[f] \in Cycle \cup {Missing}
        /\ UsedOf(cycle[f]) \in Nat
    BY TypeParts, UsedType
  <2>2. PICK c \in Cycle \cup {Missing} : c = cycle'[f] /\ UsedOf(c) = UsedOf(cycle[f])
    <3>1. CASE f = q.e
      <4>1. cycle'[f] = q.c /\ cycle[f] = q.base
        BY <1>1, <1>2, <1>5, <3>1, SetCycle
      <4>2. UsedOf(q.c) = UsedOf(q.base)
        BY <1>1, <1>3, UsedType
      <4> QED BY <1>1, <4>1, <4>2
    <3>2. CASE f # q.e
      BY <1>1, <2>1, <3>2, SetCycle
    <3> QED BY <3>1, <3>2
  <2>3. due[f] = due[f] + UsedOf(c) - UsedOf(cycle[f]) + unread[f] - unread[f]
    BY <2>1, <2>2
  <2>4. Account(due[f], c, InFlight(f)', unread[f])
    BY <1>2, <1>5, <2>1, <2>3, QuietBalance, InFlightType DEF MeterInv
  <2> QED BY <1>2, <1>5, <2>2, <2>4
<1> QED BY <1>2, <1>4, <1>5, Balanced

LEMMA DropMeter ==
    ASSUME TypeOK, MeterInv, NEW r \in Requests, Drop(r)
    PROVE  MeterInv'
<1>1. req' = [req EXCEPT ![r] = Idle] /\ UNCHANGED <<tick, unread>>
  BY DEF Drop
<1>2. Counted'
  BY <1>1, SetRequestCounted DEF MeterInv
<1>3. CASE UNCHANGED <<cycle, gaps, due>>
  <2>1. \A e \in Envs : InFlight(e)' = InFlight(e)
    BY <1>1, InFlightParts
  <2> QED BY <1>1, <1>2, <1>3, <2>1 DEF MeterInv, MeterIsExact, Used
<1>4. CASE ~UNCHANGED <<cycle, gaps, due>>
  <2>1. "usage" \in gaps'
    BY <1>4 DEF Drop, Loses, Gap, Gaps
  <2> QED BY <1>2, <2>1, LostMeter
<1> QED BY <1>3, <1>4

LEMMA OutsideMeter ==
    ASSUME TypeOK, TypeOK', MeterInv, NEW e \in Envs,
           Serve(e) \/ SwitchStatus(e) \/ \E limit \in Limits : ChangePlan(e, limit)
    PROVE  MeterInv'
<1>1. UNCHANGED <<tick, req, cycle, gaps>>
  BY DEF Serve, SwitchStatus, ChangePlan
<1>2. Counted'
  BY <1>1 DEF MeterInv, Counted
<1>3. ASSUME NEW f \in Envs, "usage" \notin gaps
      PROVE  Account(due'[f], cycle[f], InFlight(f)', unread'[f])
  <2>1. /\ unread[f] \in Nat /\ due[f] \in Int /\ cycle[f] \in Cycle \cup {Missing}
        /\ UsedOf(cycle[f]) \in Nat
    BY TypeParts, UsedType
  <2>2. PICK d \in Int, u \in Nat : /\ d = due'[f] /\ u = unread'[f]
                                    /\ d - u = due[f] - unread[f]
    <3>1. CASE Serve(e) /\ f = e
      <4>1. due' = [due EXCEPT ![e] = @ + Hit] /\ unread' = [unread EXCEPT ![e] = @ + Hit]
        BY <1>3, <3>1 DEF Serve, Due
      <4>2. due'[f] = due[f] + Hit /\ unread'[f] = unread[f] + Hit
        BY <3>1, <4>1, TypeParts
      <4>3. due[f] + Hit \in Int /\ unread[f] + Hit \in Nat
            /\ (due[f] + Hit) - (unread[f] + Hit) = due[f] - unread[f]
        BY <2>1
      <4> QED BY <4>2, <4>3
    <3>2. CASE ~(Serve(e) /\ f = e)
      <4>1. due'[f] = due[f] /\ unread'[f] = unread[f]
        BY <3>2, TypeParts DEF Serve, SwitchStatus, ChangePlan, Due
      <4> QED BY <2>1, <4>1
    <3> QED BY <3>1, <3>2
  <2>3. d = due[f] + UsedOf(cycle[f]) - UsedOf(cycle[f]) + u - unread[f]
    BY <2>1, <2>2
  <2>4. Account(d, cycle[f], InFlight(f)', u)
    BY <1>1, <1>3, <2>1, <2>3, QuietBalance, InFlightType DEF MeterInv
  <2> QED BY <2>2, <2>4
<1> QED BY <1>1, <1>2, <1>3, Balanced

LEMMA StillMeter ==
    ASSUME TypeOK, MeterInv, UNCHANGED <<tick, req, cycle, due, unread, gaps>>
    PROVE  MeterInv'
<1>1. \A e \in Envs : InFlight(e)' = InFlight(e)
  BY InFlightParts
<1> QED BY <1>1 DEF MeterInv, Counted, MeterIsExact, Used

LEMMA LogMeter ==
    ASSUME TypeOK, MeterInv, Rotate \/ NextPeriod
    PROVE  MeterInv'
<1>1. CASE Rotate
  <2>1. "usage" \in gaps' /\ UNCHANGED <<tick, req>>
    BY <1>1 DEF Rotate, Loses, Gap
  <2> QED BY <2>1 DEF MeterInv, Counted, MeterIsExact
<1>2. CASE NextPeriod
  BY <1>2, StillMeter DEF NextPeriod
<1> QED BY <1>1, <1>2

LEMMA NextMeter == TypeOK /\ MeterInv /\ [Next]_vars => MeterInv'
<1> SUFFICES ASSUME TypeOK, MeterInv, [Next]_vars PROVE MeterInv'
  OBVIOUS
<1>0. TypeOK'
  BY NextType
<1>1. CASE UNCHANGED vars
  BY <1>1, StillMeter DEF vars
<1>2. ASSUME NEW t \in Ticks, Step(t) \/ IngestFails(t) \/ Die(t) PROVE MeterInv'
  BY <1>0, <1>2, IngestMeter, IngestFailsMeter, LoadRowMeter, JudgeMeter, SaveRowMeter,
     TickEndsMeter DEF Step
<1>3. ASSUME NEW r \in Requests,
             \/ Answer(r) \/ Drop(r)
             \/ \E e \in Envs : \/ LoadGrant(r, e)
                                \/ \E limit \in Limits : LoadPlan(r, e, limit)
      PROVE  MeterInv'
  BY <1>0, <1>3, ClearMeter, SaveMeter, DropMeter, LoadMeter DEF Answer
<1>4. ASSUME NEW e \in Envs,
             Serve(e) \/ SwitchStatus(e) \/ \E limit \in Limits : ChangePlan(e, limit)
      PROVE  MeterInv'
  BY <1>0, <1>4, OutsideMeter
<1>5. CASE Rotate \/ NextPeriod
  BY <1>5, LogMeter
<1> QED BY <1>1, <1>2, <1>3, <1>4, <1>5 DEF Next

(***************************************************************************)
(* Every logged byte is in the cycle of its environment, with a tick, or   *)
(* still to be read, exactly once, unless the log was rotated or could not *)
(* be read to its end, a process died, an environment was suspended under  *)
(* its traffic, or one session wrote over another.                         *)
(***************************************************************************)
THEOREM MeteringIsExact == Spec => []MeterIsExact
<1>1. MeterInv => MeterIsExact
  BY DEF MeterInv
<1> QED BY <1>1, InitType, NextType, InitMeter, NextMeter, PTL DEF Spec
===============================================================================
