------------------------- MODULE SubscriptionLifecycle -------------------------
(***************************************************************************)
(* The life of a hosting subscription and of its environments: the hourly  *)
(* billing sweep (SubscriptionBillingService.tick), paid renewals and      *)
(* upgrades, and the suspend / restore / terminate handlers of             *)
(* EnvironmentLifecycleService, all running as concurrent database         *)
(* transactions.                                                           *)
(*                                                                         *)
(* Every handler runs in one SQLAlchemy session over a READ COMMITTED      *)
(* database: a row is loaded once, kept in the identity map, and at flush  *)
(* only the columns the handler changed are written.  Nothing re-reads or  *)
(* locks the row in between, so a handler acts on the values it loaded and *)
(* the last writer of a column wins.  A transaction is therefore two       *)
(* steps: one that loads its rows, one that merges its changed columns     *)
(* into whatever is committed by then.  (A row lock taken at flush delays  *)
(* the second writer; it does not make it look again.  Both commit orders  *)
(* are behaviours of this module.)                                         *)
(*                                                                         *)
(* Time is counted in days.  tick() compares dates to see that a row has   *)
(* lapsed, but the end of grace and of retention to the second: whether a  *)
(* deadline that falls on the day of the sweep is already past depends on  *)
(* the hour of both, and is a choice of the step (Hours).  Reminder and    *)
(* upsell e-mails, audit rows and the operating-system side effects of     *)
(* suspend / restore / terminate (best effort, every failure swallowed)    *)
(* leave the two tables alone and are not modelled.                        *)
(***************************************************************************)
EXTENDS Integers, FiniteSets

CONSTANTS
    Subs,           \* rows of the subscriptions table
    Envs,           \* rows of the customer_environments table
    SubOf,          \* SubOf[e]: the subscription an environment belongs to
    Sweepers,       \* worker slots (or staff requests) that can run a tick
    Requests,       \* request slots: HTTP handlers and other worker tasks
    GraceDays,      \* settings.subscription_grace_days
    TerminateDays,  \* settings.subscription_terminate_after_days
    TermDays,       \* length of the billing term bought by a renewal
    PaystackKey,    \* whether settings.paystack_secret_key is set
    Timely,         \* whether every day sees a completed sweep (bounds delay)
    MaxDay,         \* bound: last day of the explored calendar
    SessionDays,    \* bound: midnights one session can stay open across
    MaxPaid         \* bound: renewals and upgrades paid per subscription

ASSUME CalendarAssumption ==
    /\ GraceDays \in Nat \ {0}
    /\ TerminateDays \in Nat \ {0}
    /\ TermDays \in Nat \ {0}
    /\ MaxDay \in Nat
    /\ MaxPaid \in Nat
    /\ SessionDays \in Nat
ASSUME SwitchAssumption == PaystackKey \in BOOLEAN /\ Timely \in BOOLEAN
\* No transaction stays open for a whole billing term.
ASSUME SessionAssumption == SessionDays <= TermDays
ASSUME OwnerAssumption == SubOf \in [Envs -> Subs]

VARIABLES
    day,     \* the calendar, today
    sub,     \* committed subscription rows
    env,     \* committed environment statuses
    sweep,   \* the ticks in progress: what each has loaded
    req,     \* the requests in progress: what each has loaded
    swept,   \* whether a tick that started today has committed
    raced,   \* history: subscriptions written from a stale load
    paid,    \* history: terms bought per subscription by committed renewals
    resumed  \* history: last day a subscription was put back to active unpaid

vars == <<day, sub, env, sweep, req, swept, raced, paid, resumed>>

(***************************************************************************)
(* Rows.                                                                   *)
(***************************************************************************)
None == -1

SubStatus == {"active", "grace", "suspended", "terminated"}
EnvStatus == {"active", "provisioning_failed", "suspended", "terminated"}
SubRow == [status: SubStatus, expires: Nat, grace_until: Nat \cup {None},
           auto_renew: BOOLEAN]

EnvsOf(s) == {e \in Envs : SubOf[e] = s}

Later(a, b) == IF a > b THEN a ELSE b

\* What a flush writes: the columns whose value the session changed.
Column(db, loaded, new) == IF new # loaded THEN new ELSE db
MergeRow(db, loaded, new) ==
    [status |-> Column(db.status, loaded.status, new.status),
     expires |-> Column(db.expires, loaded.expires, new.expires),
     grace_until |-> Column(db.grace_until, loaded.grace_until, new.grace_until),
     auto_renew |-> Column(db.auto_renew, loaded.auto_renew, new.auto_renew)]

(***************************************************************************)
(* What the handlers compute from the rows they loaded.                    *)
(***************************************************************************)

\* Slip: the term starts today, whatever was left of the last one.
RenewRowFromToday(row, now) ==
    [row EXCEPT !.expires = now + TermDays, !.grace_until = None,
                !.status = IF @ \in {"grace", "suspended"} THEN "active" ELSE @]
\* renew(): extend from the later of expiry and today, clear the grace
\* period, and put a lapsed subscription back to active.
RenewRow(row, now) ==
    [row EXCEPT !.expires = Later(row.expires, now) + TermDays,
                !.grace_until = None,
                !.status = IF @ \in {"grace", "suspended"} THEN "active" ELSE @]

\* Slip: the environments of a renewed subscription stay suspended.
RenewEnvForgets(row, status) == status
\* _restore_environments(): only called when the status was lapsed.
RenewEnv(row, status) ==
    IF row.status \in {"grace", "suspended"} /\ status = "suspended"
    THEN "active" ELSE status

\* _activate_upgrade(): active again, and at least one full term from today;
\* grace_until keeps its old value.
UpgradeRow(row, now) ==
    [row EXCEPT !.status = "active", !.expires = Later(@, now + TermDays)]

\* Slips: grace without a deadline; subscriptions on automatic renewal are
\* never looked at; any grace is over at once; retention is not granted.
LapseUndated(row, now) ==
    IF row.status = "active" /\ now > row.expires
    THEN IF row.auto_renew /\ ~PaystackKey THEN RenewRow(row, now)
         ELSE [row EXCEPT !.status = "grace"]
    ELSE row
LapseIfManual(row, now) ==
    IF row.status = "active" /\ now > row.expires /\ ~row.auto_renew
    THEN [row EXCEPT !.status = "grace", !.grace_until = now + GraceDays] ELSE row
GraceEndsAtOnce(row, now, hour) == row.status = "grace" /\ row.grace_until # None
RetiredAtExpiry(row, now, hour) == row.status = "suspended" /\ now >= row.expires

\* The hour of a sweep: for one row, whether a deadline of grace or retention
\* that falls on the very day of the sweep is past by then.
Hours == [grace: BOOLEAN, retention: BOOLEAN]
Reached(deadline, now, past) == now > deadline \/ (now = deadline /\ past)

\* The three stages of tick() for one subscription: start of grace (or the
\* unpaid automatic renewal), end of grace, end of retention.
Lapse(row, now) ==
    IF row.status = "active" /\ now > row.expires
    THEN IF row.auto_renew /\ ~PaystackKey
         THEN RenewRow(row, now)
         ELSE [row EXCEPT !.status = "grace", !.grace_until = now + GraceDays]
    ELSE row
GraceEnds(row, now, hour) ==
    /\ row.status = "grace"
    /\ row.grace_until # None
    /\ Reached(row.grace_until, now, hour.grace)
Retired(row, now, hour) ==
    /\ row.status = "suspended"
    /\ Reached(row.expires + TerminateDays, now, hour.retention)

TickRow(row, now, hour) ==
    LET lapsed == Lapse(row, now)
        cut == IF GraceEnds(lapsed, now, hour)
               THEN [lapsed EXCEPT !.status = "suspended"] ELSE lapsed
    IN  IF Retired(cut, now, hour) THEN [cut EXCEPT !.status = "terminated"] ELSE cut

\* Slip: the environment takes over every new status of its subscription.
TickEnvFollows(row, now, hour, status) ==
    LET to == TickRow(row, now, hour).status
    IN  IF status # "terminated" /\ to # row.status THEN to ELSE status

\* _suspend_environments() and _terminate_environments(): every environment
\* that is not terminated yet follows its subscription.
TickEnv(row, now, hour, status) ==
    LET to == TickRow(row, now, hour).status
    IN  IF status # "terminated" /\ to # row.status /\ to \in {"suspended", "terminated"}
        THEN to ELSE status

(***************************************************************************)
(* Initial state: provisioned customers, paid up for one term.  An         *)
(* environment whose provisioning failed is a row like any other.          *)
(***************************************************************************)
NotLoaded == "not_loaded"
IdleSweep == [now |-> None]
IdleReq == [op |-> "idle"]

\* The environment rows of subscription s, as a session reads them now.
LoadEnvs(s) == [e \in Envs |-> IF SubOf[e] = s THEN env[e] ELSE NotLoaded]

Init ==
    /\ day = 0
    /\ sub \in [Subs -> [status: {"active"}, expires: {TermDays},
                         grace_until: {None}, auto_renew: BOOLEAN]]
    /\ env \in [Envs -> {"active", "provisioning_failed"}]
    /\ sweep = [w \in Sweepers |-> IdleSweep]
    /\ req = [c \in Requests |-> IdleReq]
    /\ swept = FALSE
    /\ raced = {}
    /\ paid = [s \in Subs |-> 0]
    /\ resumed = [s \in Subs |-> None]

\* Midnight.  Timely: the hourly ticker got a whole sweep in during the day.
NextDay ==
    /\ day < MaxDay
    /\ Timely => swept
    /\ \A w \in Sweepers : sweep[w] # IdleSweep => day - sweep[w].now < SessionDays
    /\ \A c \in Requests : req[c] # IdleReq => day - req[c].now < SessionDays
    /\ day' = day + 1
    /\ swept' = FALSE
    /\ UNCHANGED <<sub, env, sweep, req, raced, paid, resumed>>

(***************************************************************************)
(* tick().  The clock and the subscription rows are read first; then, one  *)
(* subscription at a time and in no promised order, its environments are   *)
(* read and the changes computed; one commit ends the sweep.  An exception *)
(* (or a worker that dies) rolls all of it back.                           *)
(***************************************************************************)
TickBegin(w) ==
    /\ sweep[w] = IdleSweep
    /\ sweep' = [sweep EXCEPT ![w] =
                    [now |-> day, todo |-> Subs, rows |-> sub,
                     envs |-> [e \in Envs |-> NotLoaded]]]
    /\ UNCHANGED <<day, sub, env, req, swept, raced, paid, resumed>>

TickSub(w, s) ==
    /\ sweep[w] # IdleSweep
    /\ s \in sweep[w].todo
    /\ sweep' = [sweep EXCEPT
                    ![w].todo = @ \ {s},
                    ![w].envs = [e \in Envs |-> IF SubOf[e] = s THEN env[e] ELSE @[e]]]
    /\ UNCHANGED <<day, sub, env, req, swept, raced, paid, resumed>>

\* What a sweep t of that hour writes, and the subscriptions it writes although
\* somebody else has changed them since t read them.
TickWrites(t, s, hour) ==
    \/ TickRow(t.rows[s], t.now, hour) # t.rows[s]
    \/ \E e \in EnvsOf(s) : TickEnv(t.rows[s], t.now, hour, t.envs[e]) # t.envs[e]
TickStale(t, s) ==
    \/ t.rows[s] # sub[s]
    \/ \E e \in EnvsOf(s) : t.envs[e] # env[e]

TickCommit(w) ==
    LET t == sweep[w] IN
    /\ t # IdleSweep
    /\ t.todo = {}
    /\ \E hour \in [Subs -> Hours] :
        /\ sub' = [s \in Subs |-> MergeRow(sub[s], t.rows[s],
                                           TickRow(t.rows[s], t.now, hour[s]))]
        /\ env' = [e \in Envs |-> Column(env[e], t.envs[e],
                            TickEnv(t.rows[SubOf[e]], t.now, hour[SubOf[e]], t.envs[e]))]
        /\ raced' = raced \cup {s \in Subs : TickWrites(t, s, hour[s]) /\ TickStale(t, s)}
    /\ sweep' = [sweep EXCEPT ![w] = IdleSweep]
    /\ swept' = (swept \/ t.now = day)
    /\ UNCHANGED <<day, req, paid, resumed>>

TickAbort(w) ==
    /\ sweep[w] # IdleSweep
    /\ sweep' = [sweep EXCEPT ![w] = IdleSweep]
    /\ UNCHANGED <<day, sub, env, req, swept, raced, paid, resumed>>

(***************************************************************************)
(* Requests: each loads the rows it needs, then commits what it computed   *)
(* from them.  A handler that raises, returns early or dies writes nothing *)
(* (Abort).                                                                *)
(***************************************************************************)
SubOps == {"renew", "upgrade", "set_auto_renew"}
EnvOps == {"suspend", "restore", "terminate"}

Load(c, op, s, e) ==
    /\ req[c] = IdleReq
    /\ req' = [req EXCEPT ![c] = [op |-> op, s |-> s, e |-> e, now |-> day,
                                  row |-> sub[s], envs |-> LoadEnvs(s)]]
    /\ UNCHANGED <<day, sub, env, sweep, swept, raced, paid, resumed>>

Begin(c) ==
    \/ \E op \in SubOps, s \in Subs : Load(c, op, s, None)
    \/ \E op \in EnvOps, e \in Envs : Load(c, op, SubOf[e], e)

Stale(q) == q.row # sub[q.s] \/ q.envs # LoadEnvs(q.s)

\* Flush and commit: the session of request c now holds row and envs.
Commit(c, row, envs) ==
    LET q == req[c] IN
    /\ sub' = [sub EXCEPT ![q.s] = MergeRow(@, q.row, row)]
    /\ env' = [e \in Envs |-> Column(env[e], q.envs[e], envs[e])]
    /\ raced' = IF Stale(q) /\ (row # q.row \/ envs # q.envs)
                THEN raced \cup {q.s} ELSE raced
    /\ req' = [req EXCEPT ![c] = IdleReq]
    /\ UNCHANGED <<day, sweep, swept>>

\* A paid renewal order: renew().  It accepts a subscription in any status.
Renew(c) ==
    LET q == req[c] IN
    /\ q.op = "renew"
    /\ paid[q.s] < MaxPaid
    /\ Commit(c, RenewRow(q.row, q.now),
              [e \in Envs |-> RenewEnv(q.row, q.envs[e])])
    /\ paid' = [paid EXCEPT ![q.s] = @ + 1]
    /\ UNCHANGED resumed

\* A paid upgrade order: change_plan(), then _activate_upgrade().
Upgrade(c) ==
    LET q == req[c] IN
    /\ q.op = "upgrade"
    /\ q.row.status \in {"active", "grace"}
    /\ Commit(c, UpgradeRow(q.row, q.now), q.envs)
    /\ UNCHANGED <<paid, resumed>>

\* set_auto_renew(), and the cancellation request that turns it off.
SetAutoRenew(c) ==
    LET q == req[c] IN
    /\ q.op = "set_auto_renew"
    /\ \E enabled \in BOOLEAN : Commit(c, [q.row EXCEPT !.auto_renew = enabled], q.envs)
    /\ UNCHANGED <<paid, resumed>>

\* EnvironmentLifecycleService.suspend(): customer, staff or abuse sweep.
Suspend(c) ==
    LET q == req[c] IN
    /\ q.op = "suspend"
    /\ q.envs[q.e] \notin {"terminated", "suspended"}
    /\ Commit(c, [q.row EXCEPT !.status = "suspended"],
              [q.envs EXCEPT ![q.e] = "suspended"])
    /\ UNCHANGED <<paid, resumed>>

\* Slip: restores whatever is not active, the terminated ones too.
RestoreAny(c) ==
    LET q == req[c] IN
    /\ q.op = "restore"
    /\ q.envs[q.e] # "active"
    /\ Commit(c, [q.row EXCEPT !.status = "active"],
              [q.envs EXCEPT ![q.e] = "active"])
    /\ resumed' = [resumed EXCEPT ![q.s] = day]
    /\ UNCHANGED paid

\* EnvironmentLifecycleService.restore(): customer or staff, whatever the
\* reason the environment is not active.
Restore(c) ==
    LET q == req[c] IN
    /\ q.op = "restore"
    /\ q.envs[q.e] \notin {"terminated", "active"}
    /\ Commit(c, [q.row EXCEPT !.status = "active"],
              [q.envs EXCEPT ![q.e] = "active"])
    /\ resumed' = [resumed EXCEPT ![q.s] = day]
    /\ UNCHANGED paid

\* EnvironmentLifecycleService.terminate() called by staff.
Terminate(c) ==
    LET q == req[c] IN
    /\ q.op = "terminate"
    /\ q.envs[q.e] # "terminated"
    /\ Commit(c, [q.row EXCEPT !.status = "terminated"],
              [q.envs EXCEPT ![q.e] = "terminated"])
    /\ UNCHANGED <<paid, resumed>>

Abort(c) ==
    /\ req[c] # IdleReq
    /\ req' = [req EXCEPT ![c] = IdleReq]
    /\ UNCHANGED <<day, sub, env, sweep, swept, raced, paid, resumed>>

TickStep(w) ==
    \/ TickBegin(w)
    \/ \E s \in Subs : TickSub(w, s)
    \/ TickCommit(w)
    \/ TickAbort(w)
ReqStep(c) ==
    \/ Begin(c)
    \/ Renew(c)
    \/ Upgrade(c)
    \/ SetAutoRenew(c)
    \/ Suspend(c)
    \/ Restore(c)
    \/ Terminate(c)
    \/ Abort(c)

Next ==
    \/ NextDay
    \/ \E w \in Sweepers : TickStep(w)
    \/ \E c \in Requests : ReqStep(c)

Spec == Init /\ [][Next]_vars

(***************************************************************************)
(* Types.                                                                  *)
(***************************************************************************)
Loaded == EnvStatus \cup {NotLoaded}
SweepState ==
    {IdleSweep} \cup [now: Nat, todo: SUBSET Subs, rows: [Subs -> SubRow],
                      envs: [Envs -> Loaded]]
ReqState ==
    {IdleReq} \cup [op: SubOps \cup EnvOps, s: Subs, e: Envs \cup {None},
                    now: Nat, row: SubRow, envs: [Envs -> Loaded]]

TypeOK ==
    /\ day \in Nat
    /\ sub \in [Subs -> SubRow]
    /\ env \in [Envs -> EnvStatus]
    /\ sweep \in [Sweepers -> SweepState]
    /\ req \in [Requests -> ReqState]
    /\ swept \in BOOLEAN
    /\ raced \in SUBSET Subs
    /\ paid \in [Subs -> Nat]
    /\ resumed \in [Subs -> Nat \cup {None}]

\* What a session in progress knows: its clock is not ahead of the calendar,
\* it has read the environments of the subscriptions it has worked through
\* and no others, and a request about an environment holds its owner.
SessionOK ==
    /\ \A w \in Sweepers : sweep[w] # IdleSweep =>
        /\ sweep[w].now <= day
        /\ \A e \in Envs : SubOf[e] \notin sweep[w].todo => sweep[w].envs[e] \in EnvStatus
    /\ \A c \in Requests : req[c] # IdleReq =>
        /\ \A e \in Envs : req[c].envs[e] = NotLoaded <=> SubOf[e] # req[c].s
        /\ req[c].op \in EnvOps => req[c].e \in EnvsOf(req[c].s)

(***************************************************************************)
(* Safety.  raced collects the subscriptions some session has written from *)
(* a stale load; the properties below hold of all others, in every         *)
(* interleaving.  The one at the end is what the customer is told, with no *)
(* such proviso: concurrent sessions break it.                             *)
(***************************************************************************)
Serial(s) == s \notin raced
Alone(e) == EnvsOf(SubOf[e]) = {e}

\* The row the billing sweep selects by and the environment that is served
\* are written by different handlers: they never disagree about suspension
\* or termination.  (A subscription with several environments is suspended
\* with its first one, so only lone environments can agree.)
ServiceMatchesBilling ==
    \A e \in Envs : Alone(e) /\ Serial(SubOf[e]) =>
        /\ env[e] = "suspended" <=> sub[SubOf[e]].status = "suspended"
        /\ env[e] = "terminated" <=> sub[SubOf[e]].status = "terminated"

\* A subscription in grace always has a deadline, or the sweep would leave
\* it in grace for ever; and the deadline leaves the customer the promised
\* days after expiry, whatever renewals, upgrades and restores came before.
GraceHasDeadline ==
    \A s \in Subs : Serial(s) /\ sub[s].status = "grace" =>
        /\ sub[s].grace_until # None
        /\ sub[s].grace_until > sub[s].expires + GraceDays

\* No paid renewal is lost: every committed one extends the subscription by
\* a whole term beyond what was already bought.
PaidTermsApplied ==
    \A s \in Subs : Serial(s) => sub[s].expires >= TermDays * (1 + paid[s])

\* With a sweep completed every day, nobody is served unpaid for longer than
\* the grace period and two days, counted from expiry or from the last time a
\* customer or operator restored the environment: a day until a sweep sees the
\* lapse, and one more when the sweep of the last day comes too early in it.
OverdueServiceIsBounded ==
    \A s \in Subs : Timely /\ Serial(s) /\ sub[s].status \in {"active", "grace"} =>
        day <= Later(sub[s].expires, resumed[s]) + GraceDays + 2

\* The sweep destroys an environment (files, databases, certificate) only if
\* nothing has been paid for the whole retention period.  Staff may at will.
Destroyed(e) == env[e] # "terminated" /\ env'[e] = "terminated"
DestroysOnlyLongUnpaid ==
    [][\A e \in Envs : Destroyed(e) /\ req' = req /\ SubOf[e] \notin raced' =>
            sub[SubOf[e]].expires + TerminateDays <= day]_vars

\* The sweep suspends only after the promised days of grace.
CutOff(s) == sub[s].status # "suspended" /\ sub'[s].status = "suspended"
SuspendsOnlyAfterGrace ==
    [][\A s \in Subs : CutOff(s) /\ req' = req /\ s \notin raced' =>
            sub[s].expires + GraceDays < day]_vars

\* Terminated is final: the environment's data is gone, so no handler may
\* show it as active or suspended again.
TerminatedIsFinal ==
    [][\A e \in Envs : env[e] = "terminated" /\ SubOf[e] \notin raced' =>
            env'[e] = "terminated"]_vars

\* "The subscription was not renewed.  Resources have been released."
\* (email_templates.hosting_terminated): said by the sweep that destroys.
ReleasedOnlyIfNotRenewed ==
    [][\A e \in Envs : Destroyed(e) /\ req' = req =>
            sub[SubOf[e]].expires + TerminateDays <= day]_vars
================================================================================
