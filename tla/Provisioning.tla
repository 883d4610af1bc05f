----------------------------- MODULE Provisioning -----------------------------
(***************************************************************************)
(* Provisioning of hosting (services/platform/provisioning.py): a run of   *)
(* the engine is one database transaction that creates or reuses the       *)
(* environment of an order's subscription, gated by the storage pool       *)
(* (storage_pool_ledger.py).  Runs are started inside a request - staff    *)
(* activate or retry an order, or a Paystack payment is verified while     *)
(* Redis does not answer - or by the ProvisionEnvironmentTask of a worker. *)
(* Meanwhile customers and the billing sweep suspend, restore and          *)
(* terminate environments (lifecycle.py), and customers change to another  *)
(* plan (billing.py).                                                      *)
(*                                                                         *)
(* The database is PostgreSQL under READ COMMITTED: a run sees what is     *)
(* committed and its own writes, an updated row is locked until the        *)
(* transaction ends, a unique index makes the second of two inserts wait   *)
(* for the first, and a deadlock fails one of the two.  What a run has     *)
(* written and not committed is its field w.                               *)
(*                                                                         *)
(* An order has a platform host name and so, by the unique row for it in   *)
(* customer_domains, one subscription (OrderPayments has the other cases). *)
(* The host side (folders, containers, nginx, users) is reduced to whether *)
(* a step fails.                                                           *)
(***************************************************************************)
EXTENDS Integers, Sequences, FiniteSets, Sums

CONSTANTS
    Orders,
    Runs,          \* sessions: concurrent requests and worker loops
    Size,          \* Size[o]: plan.storage_gb of the order
    More,          \* More[o]: what the plan it can be upgraded to has more, 0 for none
    Pool,          \* tenant_storage_pool_gb
    MaxAttempts,   \* ProvisionEnvironmentTask.max_attempts
    MaxJobs,       \* bound: MaxJobs[o] job rows inserted by the requests of o
    MaxFaults      \* bound: Redis failures, and sessions that die

ASSUME OrdersAssumption == IsFiniteSet(Orders)
ASSUME SizeAssumption == Size \in [Orders -> Nat \ {0}] /\ More \in [Orders -> Nat]
ASSUME BoundAssumption ==
    /\ Pool \in Nat /\ MaxFaults \in Nat
    /\ MaxAttempts \in Nat \ {0} /\ MaxJobs \in [Orders -> Nat \ {0}]

VARIABLES
    order,    \* orders: payment_status, provisioning_status
    sub,      \* the job inserted with the order's subscription, 0 for none
    env,      \* env[o]: the customer_environments of the subscription
    grown,    \* grown[o]: those with the storage_limit_gb of the larger plan
    job,      \* job[o]: platform_jobs; "absent" while or if not committed
    orphans,  \* orders with job rows, of no customer, that say "running"
    queue,    \* provision_environment messages
    run,      \* the sessions
    gaps,    \* history: which of the known Gaps have happened
    faults    \* bound: faults so far

rows == <<order, sub, env, grown, job, orphans>>
vars == <<rows, queue, run, gaps, faults>>

JobId == Nat \ {0}
Live == {"provisioning", "provisioning_failed", "active", "suspended"}
EnvStatus == Live \cup {"terminated"}
\* The statuses recompute_committed_gb() counts.
Counted == {"provisioning", "active", "suspended"}
OrderStatus == {"pending", "queued", "active", "failed"}
InFlight == {"pending", "running", "queued"}
Keep == "keep"    \* no write to that column
Touch == "touch"  \* the row is written, and locked, the status is not
\* race: two runs passed the gate side by side; flip: a failed environment was
\* suspended or restored; leftover: a refused run left "provisioning" behind;
\* revival: a run wrote over an environment terminated since it was looked up;
\* upgrade: a change of plan raised the limit of an environment.
Gaps == {"race", "flip", "leftover", "revival", "upgrade"}
Clean == [pay |-> Keep, order |-> Keep, sub |-> FALSE, job |-> Keep, env |-> Keep]
Idle == [at |-> "idle"]
Msg == [o: Orders, j: JobId, attempt: 1..MaxAttempts]
Stage == {"begun", "opened", "found", "gated", "built", "done", "failing"}
By == {"verify", "activate", "retry", "worker"}
Writes == [pay: {Keep, "paid"}, order: OrderStatus \cup {Keep}, sub: BOOLEAN,
           job: InFlight \cup {"success", Keep}, env: EnvStatus \cup {Keep, Touch}]
RunState == [at: Stage, by: By, o: Orders, j: JobId, attempt: 0..MaxAttempts,
             ghost: BOOLEAN,      \* the job row was not there: an ephemeral one
             adopts: BOOLEAN,     \* uses the subscription there is, and inserts none
             saw: OrderStatus,    \* provisioning_status as loaded
             e: Nat,              \* the environment, 0 for none yet
             was: EnvStatus \cup {Keep},  \* its status as loaded
             large: BOOLEAN,      \* its limit as loaded: that of the larger plan
             n: Nat,              \* environments when the host name was generated
             made: BOOLEAN,       \* created["env_id"] is set
             w: Writes]

TypeOK ==
    /\ order \in [Orders -> [pay: {"unpaid", "paid"}, status: OrderStatus]]
    /\ sub \in [Orders -> Nat]
    /\ env \in [Orders -> Seq(EnvStatus)]
    /\ grown \in [Orders -> SUBSET Nat]
    /\ job \in [Orders -> Seq({"absent", "success", "failed"} \cup InFlight)]
    /\ orphans \in SUBSET Orders
    /\ queue \in SUBSET Msg
    /\ run \in [Runs -> RunState \cup {Idle}]
    /\ gaps \in SUBSET Gaps
    /\ faults \in 0..MaxFaults

\* Orders are paid by Mobile Money and confirmed by staff, or await Paystack.
Init ==
    /\ order \in [Orders -> [pay: {"unpaid", "paid"}, status: {"pending"}]]
    /\ sub = [o \in Orders |-> 0]
    /\ env = [o \in Orders |-> <<>>]
    /\ grown = [o \in Orders |-> {}]
    /\ job = [o \in Orders |-> <<>>]
    /\ orphans = {}
    /\ queue = {}
    /\ run = [r \in Runs |-> Idle]
    /\ gaps = {}
    /\ faults = 0

(***************************************************************************)
(* The transaction of a run.                                               *)
(***************************************************************************)
At(r, stage) == run[r].at = stage
Others(r) == {x \in Runs \ {r} : run[x] # Idle /\ run[x].o = run[r].o /\ run[x].at # "begun"}
OrderWrites(w) == w.order # Keep \/ w.pay # Keep
\* Who holds a row that r is about to write, or a key it is about to insert.
OrderHolders(r) == {x \in Others(r) : OrderWrites(run[x].w)}
SubHolders(r) == {x \in Others(r) : run[x].w.sub}
JobHolders(r) == {x \in Others(r) : run[x].w.job # Keep /\ ~run[x].ghost /\ run[x].j = run[r].j}
EnvHolders(r, e) == {x \in Others(r) : run[x].w.env # Keep /\ run[x].e = e}

\* The runs that the next statement of r has to wait for.
WaitsFor(r) ==
    LET q == run[r] IN
    CASE q.at = "begun" ->
            JobHolders(r) \cup (IF q.adopts THEN {} ELSE SubHolders(r))
                          \cup (IF OrderWrites(q.w) THEN OrderHolders(r) ELSE {})
      [] q.at = "found" /\ q.e # 0 -> EnvHolders(r, q.e)
      [] q.at = "gated" /\ q.e = 0 -> EnvHolders(r, Len(env[q.o]) + 1)
      [] q.at = "built" /\ q.saw # "active" -> OrderHolders(r)
      [] q.at = "failing" /\ q.by = "worker" -> OrderHolders(r)
      [] OTHER -> {}

Written(old, new) == IF new \in {Keep, Touch} THEN old ELSE new
\* The column is written when it differs from the value loaded.
Changed(loaded, new) == IF loaded = new THEN Keep ELSE new

\* Writes w of run r reach the tables.
Apply(r, w) ==
    LET o == run[r].o  j == run[r].j  e == run[r].e IN
    /\ order' = [order EXCEPT ![o] = [pay |-> Written(@.pay, w.pay),
                                      status |-> Written(@.status, w.order)]]
    /\ sub' = IF w.sub THEN [sub EXCEPT ![o] = j] ELSE sub
    /\ job' = IF run[r].ghost THEN job ELSE [job EXCEPT ![o][j] = Written(@, w.job)]
    /\ orphans' = IF run[r].ghost /\ w.job = "running" THEN orphans \cup {o} ELSE orphans
    /\ env' = CASE w.env = Keep -> env
                [] w.env # Keep /\ e <= Len(env[o]) -> [env EXCEPT ![o][e] = Written(@, w.env)]
                [] w.env # Keep /\ e > Len(env[o]) -> [env EXCEPT ![o] = Append(@, w.env)]
    /\ grown' = IF run[r].made /\ run[r].large /\ w.env # Keep
                THEN [grown EXCEPT ![o] = @ \ {e}] ELSE grown
Gap(what, happens) == gaps' = IF happens THEN gaps \cup {what} ELSE gaps

\* The storage_limit_gb of the environments that count, by their statuses and
\* by which of them have the limit of the larger plan.
Space(o, statuses) == Size[o] * Cardinality({i \in DOMAIN statuses : statuses[i] \in Counted})
Extra(o, statuses, big) == More[o] * Cardinality({i \in DOMAIN statuses \cap big : statuses[i] \in Counted})
Taken(o, statuses, big) == Space(o, statuses) + Extra(o, statuses, big)
Committed == Total([o \in Orders |-> Taken(o, env[o], grown[o])])
\* The sum as run r sees it: of its own environment its write, and the limit as
\* it was when the row was loaded.
CommittedSeen(r, w) ==
    LET q == run[r]  own(o) == o = q.o /\ w.env # Keep IN
    Total([o \in Orders |->
              Taken(o, IF own(o) THEN [env[o] EXCEPT ![q.e] = Written(@, w.env)] ELSE env[o],
                       IF own(o) THEN {i \in grown[o] \cup {q.e} : i = q.e => q.large} ELSE grown[o])])

(***************************************************************************)
(* Requests that start a run.                                              *)
(***************************************************************************)
Begin(r, by, o, j, w) ==
    /\ run[r] = Idle
    /\ run' = [run EXCEPT ![r] =
          [at |-> "begun", by |-> by, o |-> o, j |-> j, attempt |-> 0, ghost |-> FALSE,
           adopts |-> by = "retry" /\ sub[o] # 0, saw |-> order[o].status,
           e |-> 0, was |-> Keep, large |-> FALSE, n |-> 0, made |-> FALSE, w |-> w]]
    /\ UNCHANGED <<order, sub, env, grown, orphans, queue, gaps, faults>>

\* The row a request is about to insert.
NewJob(o) == Len(job[o]) + 1
Insert(o) == NewJob(o) <= MaxJobs[o] /\ job' = [job EXCEPT ![o] = Append(@, "absent")]

\* verify_and_activate(), from the webhook or the customer's return: Paystack
\* confirms the payment, and _fulfill_paid_order() wants the job in a worker.
Verify(r, o) ==
    /\ order[o].pay = "unpaid"
    /\ Insert(o)
    /\ Begin(r, "verify", o, NewJob(o), [Clean EXCEPT !.pay = "paid", !.order = "queued"])

\* activate_hosting_by_operator().
Activate(r, o) ==
    /\ order[o].pay = "paid"
    /\ order[o].status # "active"
    /\ Insert(o)
    /\ Begin(r, "activate", o, NewJob(o),
             [Clean EXCEPT !.order = Changed(order[o].status, "queued")])

\* retry_provision(): a job in flight is taken up again, and a subscription
\* is created when there is none.
RetryOf(r, o) ==
    LET inflight == {j \in DOMAIN job[o] : job[o][j] \in InFlight}
        first == {j \in inflight : \A k \in inflight : j <= k}
        reuse == sub[o] # 0 /\ inflight # {}
        queued == IF sub[o] = 0 THEN Keep ELSE Changed(order[o].status, "queued")
    IN /\ IF reuse THEN UNCHANGED job ELSE Insert(o)
       /\ \E j \in IF reuse THEN first ELSE {NewJob(o)} :
             Begin(r, "retry", o, j, [Clean EXCEPT !.order = queued])
\* Slip: an order that is active can be retried as well.
RetryActive(r, o) == order[o].pay = "paid" /\ RetryOf(r, o)
RetryProvision(r, o) == order[o].pay = "paid" /\ order[o].status # "active" /\ RetryOf(r, o)

\* A worker loop executes the task: the job row is looked up, or an ephemeral
\* one made from the payload.
Take(r, m) ==
    /\ run[r] = Idle
    /\ m \in queue
    /\ queue' = queue \ {m}
    /\ run' = [run EXCEPT ![r] =
          [at |-> "begun", by |-> "worker", o |-> m.o, j |-> m.j, attempt |-> m.attempt,
           ghost |-> job[m.o][m.j] = "absent", adopts |-> TRUE, saw |-> "pending",
           e |-> 0, was |-> Keep, large |-> FALSE, n |-> 0, made |-> FALSE, w |-> Clean]]
    /\ UNCHANGED <<rows, gaps, faults>>

(***************************************************************************)
(* The end of a run.                                                       *)
(***************************************************************************)
End(r) == run' = [run EXCEPT ![r] = Idle]

\* A failed attempt of a task is sent again (WorkerQueue).
SendAgain(r) ==
    LET m == [o |-> run[r].o, j |-> run[r].j, attempt |-> run[r].attempt + 1] IN
    queue' = IF run[r].by = "worker" /\ m.attempt <= MaxAttempts THEN queue \cup {m} ELSE queue

\* The exception leaves the request, or the database refused a statement:
\* what is not committed is undone.  The task marks its job in a new session.
RollBack(r) ==
    LET o == run[r].o  j == run[r].j IN
    /\ End(r)
    /\ SendAgain(r)
    /\ job' = IF run[r].by = "worker" /\ job[o][j] # "absent"
              THEN [job EXCEPT ![o][j] = "failed"] ELSE job
    /\ UNCHANGED <<order, sub, env, grown, orphans, gaps, faults>>

\* What the run has written becomes visible.
Commit(r) ==
    /\ At(r, "done")
    /\ Apply(r, run[r].w)
    /\ End(r)
    /\ UNCHANGED <<queue, gaps, faults>>

\* HostInventorySync commits the session when it found something of its own.
SyncCommit(r) ==
    /\ At(r, "done")
    /\ run[r].made
    /\ run[r].w # Clean
    /\ Apply(r, run[r].w)
    /\ run' = [run EXCEPT ![r].w = Clean]
    /\ UNCHANGED <<queue, gaps, faults>>

\* Slip: the environment gets the word for a failed job.
MarksFailed(q) ==
    [q.w EXCEPT !.job = "failed", !.order = "failed",
                !.env = IF q.made THEN "failed" ELSE @]
\* What _fail_job() writes: the environment is only known from the moment
\* created["env_id"] was set.
Marks(q) ==
    [q.w EXCEPT !.job = "failed",
                !.order = IF q.saw = "failed" /\ @ = Keep THEN Keep ELSE "failed",
                !.env = IF q.made /\ @ \in {"provisioning", Touch} THEN "provisioning_failed" ELSE @]
\* Space that a failed run leaves taken, without having passed the gate.
Leaves(q) == q.w.env = "provisioning" /\ ~q.made /\ env[q.o][q.e] \notin Counted

\* The task commits the marks of a failure, a request rolls everything back.
Fail(r) ==
    /\ At(r, "failing")
    /\ IF run[r].by # "worker"
       THEN RollBack(r)
       ELSE /\ WaitsFor(r) = {}
            /\ Apply(r, Marks(run[r]))
            /\ End(r)
            /\ SendAgain(r)
            /\ Gap("leftover", Leaves(run[r]))
            /\ UNCHANGED <<faults>>

\* Two runs wait for each other - one holds the order row, the other the
\* environment - and PostgreSQL fails one of them.
Deadlock(r) ==
    /\ run[r] # Idle
    /\ \E x \in WaitsFor(r) : r \in WaitsFor(x)
    /\ RollBack(r)

Fault == faults < MaxFaults /\ faults' = faults + 1

\* The process or its database connection dies.
Die(r) ==
    /\ run[r] # Idle
    /\ Fault
    /\ End(r)
    /\ UNCHANGED <<rows, queue, gaps>>

(***************************************************************************)
(* The steps of a run.                                                     *)
(***************************************************************************)
Rest(r) == UNCHANGED <<rows, queue, gaps, faults>>
Go(r, stage, w) == run' = [run EXCEPT ![r].at = stage, ![r].w = w]

\* The request's rows are flushed - subscription, unique domain, job - and the
\* job is running.
Opened(r) ==
    Go(r, "opened", [run[r].w EXCEPT !.sub = ~run[r].adopts, !.job = "running"])

\* run_job() of a request that runs it inline.
OpenInline(r) ==
    /\ At(r, "begun")
    /\ run[r].by \in {"activate", "retry"}
    /\ WaitsFor(r) = {}
    /\ IF run[r].adopts \/ sub[run[r].o] = 0 THEN Opened(r) /\ Rest(r) ELSE RollBack(r)

\* enqueue_task() for a verified payment.  With the message in Redis the order
\* is expired, and reading it for the audit log raises: the request fails.
\* Without Redis the job runs inline, possibly with the message sent as well.
OpenVerified(r) ==
    LET o == run[r].o
        m == [o |-> o, j |-> run[r].j, attempt |-> 1]
    IN
    /\ At(r, "begun")
    /\ run[r].by = "verify"
    /\ WaitsFor(r) = {}
    /\ \/ /\ sub[o] = 0
          /\ queue' = queue \cup {m}
          /\ End(r)
          /\ UNCHANGED <<rows, gaps, faults>>
       \/ /\ sub[o] = 0
          /\ Fault
          /\ Opened(r)
          /\ queue' \in {queue, queue \cup {m}}
          /\ UNCHANGED <<rows, gaps>>
       \/ /\ sub[o] # 0
          /\ End(r)
          /\ UNCHANGED <<rows, queue, gaps, faults>>

\* run_job() in a worker.  The rows named in the payload exist when the
\* request has committed; otherwise it raises outside its own try block and
\* the task commits the ephemeral job as it is.
OpenTaskIf(r, found) ==
    LET w == [Clean EXCEPT !.job = "running"] IN
    /\ At(r, "begun")
    /\ run[r].by = "worker"
    /\ WaitsFor(r) = {}
    /\ IF found
       THEN /\ run' = [run EXCEPT ![r].at = "opened", ![r].w = w,
                                  ![r].saw = order[run[r].o].status]
            /\ Rest(r)
       ELSE /\ Apply(r, w)
            /\ End(r)
            /\ SendAgain(r)
            /\ UNCHANGED <<gaps, faults>>
\* Slip: the rows the job names are taken for granted.
OpenTaskUnchecked(r) == OpenTaskIf(r, TRUE)
OpenTask(r) == OpenTaskIf(r, sub[run[r].o] # 0 /\ (~run[r].ghost \/ sub[run[r].o] = run[r].j))

\* Slip: an environment that failed is not taken up again.
ReusableUnlessFailed(o) == {i \in DOMAIN env[o] : env[o][i] \in Live \ {"provisioning_failed"}}
Reusable(o) == {i \in DOMAIN env[o] : env[o][i] # "terminated"}

\* A host name is generated and the environment of the subscription looked
\* up; an active one is the result.  Two are an error.
Find(r) ==
    LET o == run[r].o
        live == IF run[r].w.sub THEN {} ELSE Reusable(o)
        w == run[r].w
    IN
    /\ At(r, "opened")
    /\ IF Cardinality(live) > 1 THEN Go(r, "failing", w) ELSE
       \E e \in IF live = {} THEN {0} ELSE live :
          IF e # 0 /\ env[o][e] = "active" THEN Go(r, "done", [w EXCEPT !.job = "success"])
          ELSE run' = [run EXCEPT ![r].at = "found", ![r].e = e, ![r].n = Len(env[o]),
                                  ![r].was = IF e = 0 THEN Keep ELSE env[o][e],
                                  ![r].large = e \in grown[o]]
    /\ Rest(r)

\* _set_step() writes the status of the environment found, then
\* assert_can_allocate() compares the sum - with that environment in it -
\* plus the whole plan to the pool.
\* Slip: the pool is compared without the plan that is about to be added.
FitsAlready(r, w) == CommittedSeen(r, w) <= Pool
Fits(r, w) == CommittedSeen(r, w) + Size[run[r].o] <= Pool
Holding(x) == run[x] # Idle /\ (run[x].at = "gated" \/ run[x].w.env # Keep)
Gate(r) ==
    LET q == run[r]
        w == [q.w EXCEPT !.env = IF q.e = 0 THEN Keep
                                 ELSE IF q.was = "provisioning" THEN Touch ELSE "provisioning"]
    IN
    /\ At(r, "found")
    /\ WaitsFor(r) = {}
    /\ Go(r, IF Fits(r, w) THEN "gated" ELSE "failing", w)
    /\ gaps' = gaps
          \cup (IF Fits(r, w) /\ \E x \in Runs \ {r} : Holding(x) THEN {"race"} ELSE {})
          \cup (IF q.e # 0 /\ env[q.o][q.e] = "terminated" THEN {"revival"} ELSE {})
    /\ UNCHANGED <<rows, queue, faults>>

\* _ensure_domain_and_env(): a new environment takes the generated host name,
\* which is unique; one there is gets the limit of the order's plan again, when
\* it was loaded with another (Apply).
Build(r) ==
    LET q == run[r]  new == q.e = 0 IN
    /\ At(r, "gated")
    /\ WaitsFor(r) = {}
    /\ IF new /\ Len(env[q.o]) # q.n
       THEN RollBack(r)
       ELSE /\ run' = [run EXCEPT ![r].at = "built", ![r].made = TRUE,
                                  ![r].w.env = IF new THEN "provisioning" ELSE @,
                                  ![r].e = IF new THEN q.n + 1 ELSE @]
            /\ Rest(r)

\* Web, transfer and health are configured: the environment is active.
Complete(r) ==
    LET q == run[r] IN
    /\ At(r, "built")
    /\ WaitsFor(r) = {}
    /\ Go(r, "done", [q.w EXCEPT !.env = "active", !.job = "success",
                                 !.order = IF q.saw = "active" /\ @ = Keep THEN Keep ELSE "active"])
    /\ Rest(r)

\* No capacity, no container, nginx or a user account refused, or, once it
\* is active, the notification or the audit row.
HostFails(r) ==
    /\ run[r] # Idle
    /\ \/ run[r].at \in {"opened", "gated", "built"}
       \/ At(r, "done") /\ run[r].made
    /\ Go(r, "failing", run[r].w)
    /\ Rest(r)

(***************************************************************************)
(* lifecycle.py: what customers and the billing sweep do to environments.  *)
(***************************************************************************)
EnvLocked(o, i) == \E x \in Runs : run[x] # Idle /\ run[x].o = o /\ run[x].e = i /\ run[x].w.env # Keep
SetEnv(o, i, from, to) ==
    /\ env[o][i] \in from
    /\ ~EnvLocked(o, i)
    /\ env' = [env EXCEPT ![o][i] = to]
    /\ UNCHANGED <<order, sub, grown, job, orphans, queue, run, faults>>

Suspend(o, i) ==
    /\ SetEnv(o, i, Live \ {"suspended"}, "suspended")
    /\ Gap("flip", env[o][i] \notin Counted)
Restore(o, i) ==
    /\ SetEnv(o, i, Live \ {"active"}, "active")
    /\ Gap("flip", env[o][i] \notin Counted)
Terminate(o, i) == SetEnv(o, i, Live, "terminated") /\ UNCHANGED gaps

\* change_plan(), when an upgrade is paid for or a downgrade asked for: every
\* environment of the subscription gets the new plan's limit, and nobody asks the
\* pool.  The status of the subscription is left to SubscriptionLifecycle.
ChangePlan(o, up) ==
    /\ sub[o] # 0
    /\ More[o] > 0
    /\ \A i \in DOMAIN env[o] : ~EnvLocked(o, i)
    /\ grown' = [grown EXCEPT ![o] = IF up THEN DOMAIN env[o] ELSE {}]
    /\ Gap("upgrade", up /\ ~(DOMAIN env[o] \subseteq grown[o]))
    /\ UNCHANGED <<order, sub, env, job, orphans, queue, run, faults>>

Request(r, o) == Verify(r, o) \/ Activate(r, o) \/ RetryProvision(r, o)
Step(r) ==
    \/ OpenInline(r) \/ OpenVerified(r) \/ OpenTask(r)
    \/ Find(r) \/ Gate(r) \/ Build(r) \/ Complete(r) \/ HostFails(r)
    \/ SyncCommit(r) \/ Commit(r) \/ Fail(r) \/ Deadlock(r)
Lifecycle(o, i) == Suspend(o, i) \/ Restore(o, i) \/ Terminate(o, i)

Next ==
    \/ \E r \in Runs : \/ Step(r) \/ Die(r)
                       \/ \E o \in Orders : Request(r, o)
                       \/ \E m \in queue : Take(r, m)
    \/ \E o \in Orders : \/ \E i \in DOMAIN env[o] : Lifecycle(o, i)
                         \/ \E up \in BOOLEAN : ChangePlan(o, up)

Spec == Init /\ [][Next]_vars

(***************************************************************************)
(* Properties.                                                             *)
(***************************************************************************)

\* Retries, requests and stray messages race, and fail at any step; a
\* subscription gets a second environment that is not terminated only when the
\* first is terminated between a run's look at it and the run's write.
OneEnvironment ==
    \A o \in Orders : Cardinality({i \in DOMAIN env[o] : env[o][i] \in Live}) > 1 => "revival" \in gaps

\* An order that is not paid has nothing: whatever a failed request has sent
\* to a worker, no subscription, job or environment comes of it.
UnpaidHasNothing ==
    \A o \in Orders : order[o].pay = "unpaid" =>
        sub[o] = 0 /\ env[o] = <<>> /\ \A j \in DOMAIN job[o] : job[o][j] = "absent"

\* Without a fault a terminated environment is never built again.
NeverRebuilt == faults = 0 => \A o \in Orders : Len(env[o]) <= 1

\* The pool is overcommitted only when runs passed the gate side by side, a
\* failed environment was restored or suspended, a refused run left its
\* environment behind as provisioning, or a plan was upgraded, which nobody gates;
\* building over one that was terminated meanwhile does not do it, nor does a
\* run that sets the limit of an upgraded environment back.
PoolGaps == {"race", "flip", "leftover", "upgrade"}
PoolGated == Committed > Pool => gaps \cap PoolGaps # {}
===============================================================================
