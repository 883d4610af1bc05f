------------------------------- MODULE Bandwidth -------------------------------
(***************************************************************************)
(* Bandwidth accounting and its soft block.  nginx logs what it serves;    *)
(* every five minutes a tick in a worker (bandwidth_governance.py) adds    *)
(* the new lines of the log to the cycle of each environment               *)
(* (bandwidth_accounting.py) and puts a block in front of the sites that   *)
(* used up their allowance (bandwidth_enforcement.py).  Requests in the    *)
(* API process grant allowance or change the plan of an environment at the *)
(* same time.                                                              *)
(*                                                                         *)
(* Cycles, the position in the log and the block are files, and nothing    *)
(* locks them: a session loads a cycle, awaits the host names of the       *)
(* environment, writes or removes the block and then writes back the whole *)
(* cycle, and the other process may do as much between any two of these.   *)
(*                                                                         *)
(* Bytes are counted in units in which Hit is what one response adds, and  *)
(* percentages are exact (the code rounds them to two decimals).  The      *)
(* action at 100% is SOFT_BLOCK, the only one the code ever stores.  The   *)
(* position in the log (ingress_checkpoint.json) is reduced to what lies   *)
(* behind it; no tick reads a line twice but after a failed read, and the  *)
(* check that a checkpoint was merged already never hits.  ensure_cycle()  *)
(* loads and saves in one step.  Reloads of nginx for another site, which  *)
(* load a block early, are left out.                                       *)
(***************************************************************************)
EXTENDS Integers, FiniteSets, Sums

CONSTANTS
    Envs,        \* hosting environments
    Limits,      \* limits of the plans; Unlimited is one of no limit
    Ticks,       \* worker loops
    Requests,    \* grants and plan changes at a time
    Hit,         \* traffic logged by a response
    MaxHits,     \* bound: responses, and reads of the log that fail
    MaxPeriod,   \* bound: billing periods that pass
    MaxExtra,    \* bound: allowance granted in a cycle
    MaxFaults    \* bound: crashes and reloads that fail

ASSUME LimitAssumption == Limits \subseteq Nat
ASSUME TickAssumption == IsFiniteSet(Ticks)
ASSUME BoundAssumption ==
    /\ Hit \in Nat \ {0} /\ MaxHits \in Nat
    /\ MaxPeriod \in Nat /\ MaxExtra \in Nat /\ MaxFaults \in Nat

VARIABLES
    plan,      \* the bandwidth limit of the environment's plan
    status,    \* customer_environments.status
    now,       \* the billing period
    unread,    \* the log from ingress_checkpoint.json on: bytes of each environment
    cycle,     \* <environment>.json
    conf,      \* environments with a block among nginx's files
    loaded,    \* environments whose block nginx has loaded
    tick,      \* the ticks in progress
    req,       \* the requests in progress
    due,       \* history: traffic logged since the cycle began or was lost
    gaps,      \* history: what has happened that loses track
    hits,      \* bound: responses and failed reads so far
    faults     \* bound: faults so far

vars == <<plan, status, now, unread, cycle, conf, loaded, tick, req, due, gaps, hits, faults>>

Unlimited == 0
Missing == [missing |-> TRUE]     \* no file, or one that cannot be parsed
Idle == [at |-> "idle"]
Event == {"none", "reached", "cleared"}
Cycle == [limit: Nat, used: Nat, soft: BOOLEAN,
          extra: Nat, event: Event, end: Nat]
\* usage: traffic may have been lost or counted twice; block: a block may be in
\* place that no cycle knows of.
Gaps == {"usage", "block"}

TypeOK ==
    /\ plan \in [Envs -> Limits]
    /\ status \in [Envs -> {"active", "suspended"}]
    /\ now \in 0..MaxPeriod
    /\ unread \in [Envs -> Nat]
    /\ cycle \in [Envs -> Cycle \cup {Missing}]
    /\ conf \in SUBSET Envs /\ loaded \in SUBSET Envs
    /\ tick \in [Ticks -> {Idle}
         \cup [at: {"rows"}, delta: [Envs -> Nat], todo: SUBSET Envs, dirty: BOOLEAN]
         \cup [at: {"row", "judged"}, delta: [Envs -> Nat], todo: SUBSET Envs,
               dirty: BOOLEAN, e: Envs, base: Cycle, c: Cycle]]
    /\ req \in [Requests -> {Idle}
         \cup [at: {"loaded", "cleared", "reloaded"}, e: Envs,
               base: Cycle, c: Cycle, plan: Limits]]
    /\ due \in [Envs -> Int]
    /\ gaps \in SUBSET Gaps
    /\ hits \in 0..MaxHits
    /\ faults \in 0..MaxFaults

Nothing == [e \in Envs |-> 0]
Init ==
    /\ plan \in [Envs -> Limits]
    /\ status = [e \in Envs |-> "active"]
    /\ now = 0
    /\ unread = Nothing
    /\ cycle = [e \in Envs |-> Missing]
    /\ conf = {} /\ loaded = {}
    /\ tick = [t \in Ticks |-> Idle]
    /\ req = [r \in Requests |-> Idle]
    /\ due = Nothing
    /\ gaps = {}
    /\ hits = 0
    /\ faults = 0

Gap(what, happens) == gaps' = IF happens THEN gaps \cup what ELSE gaps
\* The history of the traffic is kept while it is claimed to be exact.
Due(e, n) == due' = IF "usage" \in gaps THEN due ELSE [due EXCEPT ![e] = @ + n]
Loses(what, happens) == Gap(what, happens) /\ due' = IF happens THEN Nothing ELSE due
Fault == faults < MaxFaults /\ faults' = faults + 1
Hits == hits < MaxHits /\ hits' = hits + 1

(***************************************************************************)
(* A cycle (bandwidth_accounting.py).                                      *)
(***************************************************************************)
Limited(c) == c.limit # Unlimited
\* percent: of the limit and the allowance granted
AtLeast(c, pct) == Limited(c) /\ 100 * c.used >= pct * (c.limit + c.extra)
Exhausted(c) == AtLeast(c, 100)
Warned(c) == AtLeast(c, 80) /\ ~Exhausted(c)

\* merge_usage_delta()
Merge(c, n) ==
    LET m == [c EXCEPT !.used = @ + n] IN [m EXCEPT !.soft = Exhausted(m)]

\* A limit, or an allowance, that is not used up clears the flag.
Eased(c) == [c EXCEPT !.soft = @ /\ Exhausted(c)]
SetLimit(c, limit) == Eased([c EXCEPT !.limit = limit])
Grant(c) == Eased([c EXCEPT !.extra = @ + 1])

NewCycle(limit, end) ==
    [limit |-> limit, used |-> 0, soft |-> FALSE, extra |-> 0,
     event |-> "none", end |-> end]

Ended(c) == now >= c.end
\* reset_cycle_if_needed(): a plan without a limit does not reach the cycle
\* here, and one call ends one period.
Roll(c, limit) ==
    LET kept == IF limit = Unlimited THEN c.limit ELSE limit IN
    IF Ended(c) THEN NewCycle(kept, c.end + 1) ELSE
    IF limit = Unlimited THEN c ELSE SetLimit(c, limit)

(***************************************************************************)
(* What happens outside.                                                   *)
(***************************************************************************)

\* nginx serves a response, or the page of the block, and logs it.
Serve(e) ==
    /\ Hits
    /\ unread' = [unread EXCEPT ![e] = @ + Hit]
    /\ Due(e, Hit)
    /\ UNCHANGED <<plan, status, now, cycle, conf, loaded, tick, req, gaps, faults>>

\* logrotate starts a new file: ticks read it from its start, and no other.
Rotate ==
    /\ unread # Nothing
    /\ unread' = Nothing
    /\ Loses({"usage"}, TRUE)
    /\ UNCHANGED <<plan, status, now, cycle, conf, loaded, tick, req, hits, faults>>

NextPeriod ==
    /\ now < MaxPeriod
    /\ now' = now + 1
    /\ UNCHANGED <<plan, status, unread, cycle, conf, loaded, tick, req, due, gaps, hits, faults>>

\* Suspended and restored by lifecycle or billing.
SwitchStatus(e) ==
    /\ status' = [status EXCEPT ![e] = IF @ = "active" THEN "suspended" ELSE "active"]
    /\ UNCHANGED <<plan, now, unread, cycle, conf, loaded, tick, req, due, gaps, hits, faults>>

(***************************************************************************)
(* The tick.                                                               *)
(***************************************************************************)

\* The rows are the environments that are served.
Rows == {e \in Envs : status[e] = "active"}
Read(t, delta, rest) ==
    /\ tick[t] = Idle
    /\ tick' = [tick EXCEPT ![t] = [at |-> "rows", delta |-> delta,
                                    todo |-> Rows, dirty |-> FALSE]]
    /\ unread' = rest
    /\ UNCHANGED <<plan, status, now, cycle, conf, loaded, req, faults>>
IngestFrom(t, rest) ==
    /\ Read(t, unread, rest)
    /\ Loses({"usage"}, \E e \in Envs \ Rows : unread[e] > 0)
    /\ UNCHANGED hits
\* Slip: the position is not saved.
IngestUnsaved(t) == IngestFrom(t, unread)
\* ingest_bandwidth_log_deltas() reads to the end of the log, and saves the
\* position before anything is counted.
Ingest(t) == IngestFrom(t, Nothing)
\* Reading fails before the end of the log: what was read is counted now, and
\* again by the next tick.
IngestFails(t) ==
    /\ Hits
    /\ \E read \in SUBSET {e \in Envs : unread[e] > 0} \ {{}} :
          Read(t, [e \in Envs |-> IF e \in read THEN unread[e] ELSE 0], unread)
    /\ Loses({"usage"}, TRUE)

\* ensure_cycle(), which saves, and merge_usage_delta() or, when there was no
\* traffic, apply_plan_limit().
LoadRow(t, e) ==
    LET q == tick[t]
        old == cycle[e]
        rolls == old # Missing /\ Ended(old)
    IN
    /\ q.at = "rows"
    /\ e \in q.todo
    /\ \E c \in IF old = Missing THEN {NewCycle(plan[e], now + 1)} ELSE {Roll(old, plan[e])} :
        /\ cycle' = [cycle EXCEPT ![e] = c]
        /\ tick' = [tick EXCEPT ![t] =
              [at |-> "row", delta |-> q.delta, todo |-> q.todo \ {e},
               dirty |-> q.dirty, e |-> e, base |-> c,
               c |-> IF q.delta[e] > 0 THEN Merge(c, q.delta[e]) ELSE SetLimit(c, plan[e])]]
    /\ IF rolls THEN Due(e, -old.used) ELSE UNCHANGED due
    /\ Gap({"block"}, rolls /\ e \in conf)
    /\ UNCHANGED <<plan, status, now, unread, conf, loaded, req, hits, faults>>

Flagged(c) == c.soft \/ c.event = "reached"
\* Slips: a warning is an event of its own; a block leaves no event.
JudgedWarned(c) == [c EXCEPT !.event = IF Warned(c) THEN "warned" ELSE @]
JudgedSilently(c) ==
    [c EXCEPT !.soft = Exhausted(c), !.event = IF Flagged(c) /\ ~Exhausted(c) THEN "cleared" ELSE @]
\* The branches of the tick: unlimited, between 80% and 100%, at 100%, below.
Judged(c) ==
    CASE ~Limited(c)  -> [c EXCEPT !.soft = FALSE, !.event = "none"]
      [] Warned(c)    -> c
      [] Exhausted(c) -> [c EXCEPT !.soft = TRUE, !.event = "reached"]
      [] OTHER        -> [c EXCEPT !.soft = FALSE, !.event = IF Flagged(c) THEN "cleared" ELSE @]
\* Slip: a block that is on record is not written again.
BlocksOnce(c) == Exhausted(c) /\ c.event # "reached"
Blocks(c) == Exhausted(c)
Clears(c) == Flagged(c) /\ ~Exhausted(c) /\ ~Warned(c)

\* Between taking a block away and writing that down.
Clearing(e) ==
    \/ \E r \in Requests : req[r].at \in {"cleared", "reloaded"} /\ req[r].e = e
    \/ \E t \in Ticks : tick[t].at = "judged" /\ tick[t].e = e /\ Clears(tick[t].c)

\* The block is written or removed, and then the cycle.
Judge(t) ==
    LET q == tick[t] IN
    /\ q.at = "row"
    /\ Blocks(q.c) \/ Clears(q.c)
    /\ conf' = IF Blocks(q.c) THEN conf \cup {q.e} ELSE conf \ {q.e}
    /\ tick' = [tick EXCEPT ![t] = [q EXCEPT !.at = "judged", !.dirty = TRUE]]
    /\ Gap({"block"}, Blocks(q.c) /\ Clearing(q.e))
    /\ UNCHANGED <<plan, status, now, unread, cycle, loaded, req, due, hits, faults>>

SaveRow(t) ==
    LET q == tick[t] IN
    /\ q.at = "judged" \/ (q.at = "row" /\ ~Blocks(q.c) /\ ~Clears(q.c))
    /\ cycle' = [cycle EXCEPT ![q.e] = Judged(q.c)]
    /\ tick' = [tick EXCEPT ![t] = [at |-> "rows", delta |-> q.delta,
                                    todo |-> q.todo, dirty |-> q.dirty]]
    /\ Loses(Gaps, cycle[q.e] # q.base)
    /\ UNCHANGED <<plan, status, now, unread, conf, loaded, req, hits, faults>>

\* nginx is reloaded when a block came or went; the result is only reported.
EndTick(t) ==
    /\ tick[t].at = "rows"
    /\ tick[t].todo = {}
    /\ tick' = [tick EXCEPT ![t] = Idle]
    /\ \/ loaded' = (IF tick[t].dirty THEN conf ELSE loaded) /\ UNCHANGED faults
       \/ tick[t].dirty /\ Fault /\ UNCHANGED loaded
    /\ UNCHANGED <<plan, status, now, unread, cycle, conf, req, due, gaps, hits>>

\* The worker dies; a cycle it was writing may be left empty.  The message is
\* gone, and the next tick comes five minutes later.
Writing(q) == IF q.at = "rows" THEN q.todo ELSE IF q.at = "judged" THEN {q.e} ELSE {}
Die(t) ==
    /\ tick[t] # Idle
    /\ Fault
    /\ tick' = [tick EXCEPT ![t] = Idle]
    /\ \/ UNCHANGED cycle
       \/ \E e \in Writing(tick[t]) : cycle' = [cycle EXCEPT ![e] = Missing]
    /\ Loses(Gaps, TRUE)
    /\ UNCHANGED <<plan, status, now, unread, conf, loaded, req, hits>>

(***************************************************************************)
(* restore_environment(), for a grant of staff or a change of plan.        *)
(***************************************************************************)
Load(r, e, c, limit) ==
    /\ req[r] = Idle
    /\ req' = [req EXCEPT ![r] = [at |-> "loaded", e |-> e, base |-> cycle[e], c |-> c,
                                  plan |-> limit]]
    /\ UNCHANGED <<plan, status, now, unread, cycle, conf, loaded, tick, due, gaps, hits, faults>>
LoadGrant(r, e) ==
    /\ cycle[e] # Missing
    /\ cycle[e].extra < MaxExtra
    /\ Load(r, e, Grant(cycle[e]), plan[e])
LoadPlan(r, e, limit) ==
    /\ cycle[e] # Missing
    /\ limit # plan[e]
    /\ Load(r, e, SetLimit(cycle[e], limit), limit)

\* Without a cycle only the plan changes.
ChangePlan(e, limit) ==
    /\ cycle[e] = Missing
    /\ plan' = [plan EXCEPT ![e] = limit]
    /\ UNCHANGED <<status, now, unread, cycle, conf, loaded, tick, req, due, gaps, hits, faults>>

\* The block of a site that is within its allowance is removed, ...
Clear(r) ==
    LET q == req[r] IN
    /\ q.at = "loaded"
    /\ ~Exhausted(q.c)
    /\ conf' = conf \ {q.e}
    /\ req' = [req EXCEPT ![r] = [q EXCEPT !.at = "cleared",
                    !.c = [@ EXCEPT !.soft = FALSE, !.event = "cleared"]]]
    /\ UNCHANGED <<plan, status, now, unread, cycle, loaded, tick, due, gaps, hits, faults>>

\* ... nginx is reloaded, whatever comes of it, ...
Reload(r) ==
    /\ req[r].at = "cleared"
    /\ req' = [req EXCEPT ![r].at = "reloaded"]
    /\ \/ loaded' = conf /\ UNCHANGED faults
       \/ Fault /\ UNCHANGED loaded
    /\ UNCHANGED <<plan, status, now, unread, cycle, conf, tick, due, gaps, hits>>

Saves(q) == q.at = "reloaded" \/ (q.at = "loaded" /\ Exhausted(q.c))
\* ... and the cycle is written; the plan follows if the request's transaction
\* commits.
Save(r) ==
    LET q == req[r] IN
    /\ Saves(q)
    /\ cycle' = [cycle EXCEPT ![q.e] = q.c]
    /\ Loses(Gaps, cycle[q.e] # q.base)
    /\ plan' \in {plan, [plan EXCEPT ![q.e] = q.plan]}
    /\ req' = [req EXCEPT ![r] = Idle]
    /\ UNCHANGED <<status, now, unread, conf, loaded, tick, hits, faults>>

\* The API is restarted under the request, which may leave the cycle empty.
Drop(r) ==
    LET q == req[r] IN
    /\ q # Idle
    /\ Fault
    /\ req' = [req EXCEPT ![r] = Idle]
    /\ \/ UNCHANGED <<cycle, gaps, due>>
       \/ Saves(q) /\ cycle' = [cycle EXCEPT ![q.e] = Missing] /\ Loses(Gaps, TRUE)
    /\ UNCHANGED <<plan, status, now, unread, conf, loaded, tick, hits>>

(***************************************************************************)
(* The specification.                                                      *)
(***************************************************************************)
Step(t) ==
    \/ Ingest(t) \/ Judge(t) \/ SaveRow(t) \/ EndTick(t)
    \/ \E e \in Envs : LoadRow(t, e)

Answer(r) == Clear(r) \/ Reload(r) \/ Save(r)

Next ==
    \/ \E t \in Ticks : Step(t) \/ IngestFails(t) \/ Die(t)
    \/ \E r \in Requests : \/ Answer(r) \/ Drop(r)
                           \/ \E e \in Envs : \/ LoadGrant(r, e)
                                              \/ \E limit \in Limits : LoadPlan(r, e, limit)
    \/ \E e \in Envs : Serve(e) \/ SwitchStatus(e) \/ \E limit \in Limits : ChangePlan(e, limit)
    \/ Rotate \/ NextPeriod

\* The ticker of the worker keeps sending ticks, and a tick that was started
\* runs (its own WorkerQueue properties); a request ends.
Fairness ==
    /\ \A t \in Ticks : WF_vars(Step(t))
    /\ \A r \in Requests : WF_vars(Answer(r))

Spec == Init /\ [][Next]_vars
FairSpec == Spec /\ Fairness

(***************************************************************************)
(* Properties.                                                             *)
(***************************************************************************)

\* What ticks have read of e and not yet counted.
Holds(t, e) ==
    IF tick[t] = Idle THEN FALSE
    ELSE \/ e \in tick[t].todo
         \/ tick[t].at # "rows" /\ tick[t].e = e
InFlight(e) == Total([t \in Ticks |-> IF Holds(t, e) THEN tick[t].delta[e] ELSE 0])
Used(e) == IF cycle[e] = Missing THEN 0 ELSE cycle[e].used
\* "Rotation-safe offsets", "duplicate tick is a no-op": whatever ticks,
\* grants and plan changes interleave, every logged byte is in the cycle, with
\* a tick or still to be read, once - but for the ways the code loses track.
MeterIsExact ==
    "usage" \notin gaps => \A e \in Envs : due[e] = Used(e) + InFlight(e) + unread[e]

\* A block in nginx's files is on record in the cycle, or is about to be, so
\* that a later tick can take it away: unless the cycle rolled under it, it was
\* put back while it was being cleared, or a save was lost.
BlockIsRemembered ==
    "block" \notin gaps =>
        \A e \in conf :
            \/ cycle[e] # Missing /\ Flagged(cycle[e])
            \/ \E t \in Ticks : /\ tick[t].at = "judged" /\ tick[t].e = e
                                /\ Blocks(tick[t].c)

Allowed(e) == cycle[e] = Missing \/ ~Exhausted(cycle[e])
\* A site that has used up its allowance is blocked in the end, whatever
\* crashes, reloads that fail and concurrent requests come in between.
ExhaustedIsBlocked ==
    \A e \in Envs : ~Allowed(e) /\ status[e] = "active"
                        ~> e \in loaded \/ Allowed(e) \/ status[e] # "active"

\* The page shown in place of a blocked site: "upgrade, add allowance, or wait
\* for the next cycle" (bandwidth_enforcement.py:47).
WaitForNextCycle ==
    \A e \in Envs : e \in loaded /\ Allowed(e) /\ status[e] = "active"
                        ~> e \notin loaded \/ ~Allowed(e) \/ status[e] # "active"
=============================================================================
