------------------------------ MODULE WorkerQueue ------------------------------
(***************************************************************************)
(* The Redis task queue (workers/queue.py), the producers' enqueue_task    *)
(* helper and the worker process (workers/runner.py): concurrent worker    *)
(* loops that pop a message, execute its task and record the outcome, and  *)
(* retries that wait in the memory of the process before they are pushed   *)
(* again.                                                                  *)
(*                                                                         *)
(* A message leaves Redis when it is popped, before the task runs; nothing *)
(* acknowledges it.  Every Redis call may fail (a blip), with or without   *)
(* having taken effect on the server.  The process may be told to stop,    *)
(* may crash, and is started again.  The list itself survives: Redis       *)
(* losing its data is not modelled.                                        *)
(*                                                                         *)
(* A task here is one submitted payload; its retries carry the same        *)
(* payload with a higher _attempt.  What the task does is abstracted to    *)
(* whether it took effect (applied).                                       *)
(***************************************************************************)
EXTENDS Naturals, Sequences, FiniteSets

CONSTANTS
    Tasks,        \* payloads to submit
    Loops,        \* worker loops of the process (worker_concurrency)
    Registered,   \* the tasks whose name is in the registry
    MaxAttempts,  \* max_attempts of the task class
    MaxBlips,     \* bound: failing Redis calls
    MaxStops      \* bound: shutdowns and crashes of the worker process

ASSUME LoopAssumption == Loops # {}
ASSUME RegistryAssumption == Registered \subseteq Tasks
ASSUME BoundAssumption ==
    MaxAttempts \in Nat \ {0} /\ MaxBlips \in Nat /\ MaxStops \in Nat

VARIABLES
    queue,    \* the Redis list
    status,   \* the Redis status keys, by message
    proc,     \* the worker process
    loop,     \* what each worker loop is doing
    timers,   \* retries sleeping in _requeue_after
    origin,   \* what the producer of a task was told
    applied,  \* history: how often each task took effect
    excused,  \* history: how often a fault invited a second application
    lost,     \* history: tasks a fault made the process forget
    blips,    \* bound: failing Redis calls so far
    stops     \* bound: shutdowns and crashes so far

vars == <<queue, status, proc, loop, timers, origin, applied, excused, lost, blips, stops>>
redis == <<queue, status>>
faults == <<excused, lost, blips, stops>>

Msg == [task: Tasks, attempt: 1..MaxAttempts]
Busy == {"executing", "completed", "failed", "raised"}
Polling == [at |-> "polling"]
Stopped == [at |-> "stopped"]
LoopState == {Polling, Stopped} \cup [at: Busy, msg: Msg]

TypeOK ==
    /\ queue \in Seq(Msg)
    /\ status \in [Msg -> {"none", "completed", "failed"}]
    /\ proc \in {"running", "stopping", "down"}
    /\ loop \in [Loops -> LoopState]
    /\ timers \in SUBSET Msg
    /\ origin \in [Tasks -> {"new", "queued", "inline", "ran", "refused"}]
    /\ applied \in [Tasks -> Nat]
    /\ excused \in [Tasks -> Nat]
    /\ lost \in SUBSET Tasks
    /\ blips \in 0..MaxBlips
    /\ stops \in 0..MaxStops

Init ==
    /\ queue = <<>>
    /\ status = [m \in Msg |-> "none"]
    /\ proc = "running"
    /\ loop = [w \in Loops |-> Polling]
    /\ timers = {}
    /\ origin = [t \in Tasks |-> "new"]
    /\ applied = [t \in Tasks |-> 0]
    /\ excused = [t \in Tasks |-> 0]
    /\ lost = {}
    /\ blips = 0
    /\ stops = 0

Blip == blips < MaxBlips /\ blips' = blips + 1

(***************************************************************************)
(* Producers: enqueue_task() returns the task id, or None when Redis       *)
(* failed, and then the caller does the work itself.                       *)
(***************************************************************************)
First(t) == [task |-> t, attempt |-> 1]

Submit(t) ==
    /\ origin[t] = "new"
    /\ origin' = [origin EXCEPT ![t] = "queued"]
    /\ queue' = Append(queue, First(t))
    /\ UNCHANGED <<status, proc, loop, timers, applied, faults>>

\* The push failed; if Redis had it before the connection broke, the task
\* will run in a worker as well.
SubmitFails(t) ==
    /\ origin[t] = "new"
    /\ Blip
    /\ origin' = [origin EXCEPT ![t] = "inline"]
    /\ \/ UNCHANGED <<queue, excused>>
       \/ /\ queue' = Append(queue, First(t))
          /\ excused' = [excused EXCEPT ![t] = @ + 1]
    /\ UNCHANGED <<status, proc, loop, timers, applied, lost, stops>>

\* Slip: a failing attempt of the caller leaves the task to be sent again.
RunInlineForgets(t) ==
    /\ origin[t] = "inline"
    /\ \/ /\ origin' = [origin EXCEPT ![t] = "ran"]
          /\ applied' = [applied EXCEPT ![t] = @ + 1]
       \/ /\ origin' = [origin EXCEPT ![t] = "new"]
          /\ UNCHANGED applied
    /\ UNCHANGED <<redis, proc, loop, timers, faults>>

\* The caller's own attempt; when that fails too the request reports it.
RunInline(t) ==
    /\ origin[t] = "inline"
    /\ \/ /\ origin' = [origin EXCEPT ![t] = "ran"]
          /\ applied' = [applied EXCEPT ![t] = @ + 1]
       \/ /\ origin' = [origin EXCEPT ![t] = "refused"]
          /\ UNCHANGED applied
    /\ UNCHANGED <<redis, proc, loop, timers, faults>>

(***************************************************************************)
(* A worker loop.                                                          *)
(***************************************************************************)
Goto(w, at) == loop' = [loop EXCEPT ![w].at = at]

\* Back at "while self._running".
NextRound(w) ==
    loop' = [loop EXCEPT ![w] = IF proc = "running" THEN Polling ELSE Stopped]

\* BLPOP returns a message.  A loop blocked in it does so even after the
\* shutdown signal.
Dequeue(w) ==
    /\ loop[w] = Polling
    /\ queue # <<>>
    /\ loop' = [loop EXCEPT ![w] = [at |-> "executing", msg |-> Head(queue)]]
    /\ queue' = Tail(queue)
    /\ UNCHANGED <<status, proc, timers, origin, applied, faults>>

\* BLPOP fails after the server has removed the message: dequeue() returns
\* None, as for an empty list.
DequeueFails(w) ==
    /\ loop[w] = Polling
    /\ queue # <<>>
    /\ Blip
    /\ queue' = Tail(queue)
    /\ lost' = lost \cup {Head(queue).task}
    /\ NextRound(w)
    /\ UNCHANGED <<status, proc, timers, origin, applied, excused, stops>>

\* BLPOP times out; the loop looks at the flag.
PollTimeout(w) ==
    /\ loop[w] = Polling
    /\ proc = "stopping"
    /\ NextRound(w)
    /\ UNCHANGED <<redis, proc, timers, origin, applied, faults>>

\* task.execute(): completed, failed with a result, or raised.
Execute(w) ==
    /\ loop[w].at = "executing"
    /\ loop[w].msg.task \in Registered
    /\ \/ Goto(w, "completed") /\ applied' = [applied EXCEPT ![loop[w].msg.task] = @ + 1]
       \/ \E at \in {"failed", "raised"} : Goto(w, at) /\ UNCHANGED applied
    /\ UNCHANGED <<redis, proc, timers, origin, faults>>

\* No such task: recorded as failed, never retried.
Unknown(w) ==
    /\ loop[w].at = "executing"
    /\ loop[w].msg.task \notin Registered
    /\ NextRound(w)
    /\ \/ status' = [status EXCEPT ![loop[w].msg] = "failed"] /\ UNCHANGED <<lost, blips>>
       \/ Blip /\ lost' = lost \cup {loop[w].msg.task} /\ UNCHANGED status
    /\ UNCHANGED <<queue, proc, timers, origin, applied, excused, stops>>

\* Slip: the payload is put back although the task completed.
MarkCompletedRequeues(w) ==
    /\ loop[w].at = "completed"
    /\ status' = [status EXCEPT ![loop[w].msg] = "completed"]
    /\ queue' = Append(queue, loop[w].msg)
    /\ NextRound(w)
    /\ UNCHANGED <<proc, timers, origin, applied, faults>>

MarkCompleted(w) ==
    /\ loop[w].at = "completed"
    /\ status' = [status EXCEPT ![loop[w].msg] = "completed"]
    /\ NextRound(w)
    /\ UNCHANGED <<queue, proc, timers, origin, applied, faults>>

\* Slips: the attempt is not counted; one attempt too many; no retry at all.
RetryUncounted(m) == m
HasRetryAtLimit(m) == m.attempt <= MaxAttempts
ScheduleNoRetry(m) == timers' = timers

\* The retry of m, if it has attempts left, starts its timer.
Retry(m) == [m EXCEPT !.attempt = @ + 1]
HasRetry(m) == m.attempt < MaxAttempts
ScheduleRetry(m) == timers' = IF HasRetry(m) THEN timers \cup {Retry(m)} ELSE timers

\* Both after a failed result and in the except branch.
MarkFailed(w) ==
    /\ loop[w].at \in {"failed", "raised"}
    /\ status' = [status EXCEPT ![loop[w].msg] = "failed"]
    /\ ScheduleRetry(loop[w].msg)
    /\ NextRound(w)
    /\ UNCHANGED <<queue, proc, origin, applied, faults>>

\* A SET whose reply is lost may have reached the server.
MaybeRecorded(m, outcome) == status' \in {status, [status EXCEPT ![m] = outcome]}

\* Recording the outcome fails inside the try block: the except branch takes
\* the task for failed, whatever it did.
MarkRaises(w) ==
    /\ loop[w].at \in {"completed", "failed"}
    /\ Blip
    /\ Goto(w, "raised")
    /\ excused' = IF loop[w].at = "completed"
                  THEN [excused EXCEPT ![loop[w].msg.task] = @ + 1] ELSE excused
    /\ MaybeRecorded(loop[w].msg, loop[w].at)
    /\ UNCHANGED <<queue, proc, timers, origin, applied, lost, stops>>

\* Recording the failure fails in the except branch: the outer handler keeps
\* the loop alive and the message is gone, its retry never scheduled.
MarkFailedRaises(w) ==
    /\ loop[w].at = "raised"
    /\ Blip
    /\ lost' = lost \cup {loop[w].msg.task}
    /\ MaybeRecorded(loop[w].msg, "failed")
    /\ NextRound(w)
    /\ UNCHANGED <<queue, proc, timers, origin, applied, excused, stops>>

LoopStep(w) ==
    \/ Dequeue(w) \/ DequeueFails(w) \/ PollTimeout(w)
    \/ Execute(w) \/ Unknown(w)
    \/ MarkCompleted(w) \/ MarkFailed(w) \/ MarkRaises(w) \/ MarkFailedRaises(w)

(***************************************************************************)
(* _requeue_after(): the delay is over.                                    *)
(***************************************************************************)
\* Slip: the timer fires again after it pushed its message.
RequeueAgain(m) ==
    /\ m \in timers
    /\ proc = "running"
    /\ queue' = Append(queue, m)
    /\ UNCHANGED <<status, proc, loop, timers, origin, applied, faults>>

Requeue(m) ==
    /\ m \in timers
    /\ timers' = timers \ {m}
    /\ IF proc = "running"
       THEN queue' = Append(queue, m) /\ UNCHANGED lost
       ELSE lost' = lost \cup {m.task} /\ UNCHANGED queue
    /\ UNCHANGED <<status, proc, loop, origin, applied, excused, blips, stops>>

\* The push fails, before or after the server has the message; either way
\* the process forgets the retry.
RequeueFails(m) ==
    /\ m \in timers
    /\ proc = "running"
    /\ Blip
    /\ timers' = timers \ {m}
    /\ \/ queue' = Append(queue, m) /\ UNCHANGED lost
       \/ lost' = lost \cup {m.task} /\ UNCHANGED queue
    /\ UNCHANGED <<status, proc, loop, origin, applied, excused, stops>>

(***************************************************************************)
(* The process.                                                            *)
(***************************************************************************)
TimedTasks == {m.task : m \in timers}
HeldBy(ws) == {loop[w].msg.task : w \in {x \in ws : loop[x].at \in Busy}}
DownNow ==
    /\ proc' = "down"
    /\ loop' = [w \in Loops |-> Stopped]
    /\ timers' = {}

Shutdown ==
    /\ proc = "running"
    /\ stops < MaxStops
    /\ stops' = stops + 1
    /\ proc' = "stopping"
    /\ UNCHANGED <<redis, loop, timers, origin, applied, excused, lost, blips>>

\* run() returns once every loop has stopped; the retries still sleeping go
\* with the event loop.
Exit ==
    /\ proc = "stopping"
    /\ \A w \in Loops : loop[w] = Stopped
    /\ DownNow
    /\ lost' = lost \cup TimedTasks
    /\ UNCHANGED <<redis, origin, applied, excused, blips, stops>>

\* Killed at any point: a task being executed has taken effect or has not.
Crash ==
    /\ proc \in {"running", "stopping"}
    /\ stops < MaxStops
    /\ stops' = stops + 1
    /\ DownNow
    /\ lost' = lost \cup TimedTasks \cup HeldBy(Loops)
    /\ \E hit \in SUBSET {w \in Loops : /\ loop[w].at = "executing"
                                        /\ loop[w].msg.task \in Registered} :
        applied' = [t \in Tasks |-> IF t \in HeldBy(hit) THEN applied[t] + 1 ELSE applied[t]]
    /\ UNCHANGED <<redis, origin, excused, blips>>

\* The container is restarted (restart: unless-stopped).
Start ==
    /\ proc = "down"
    /\ proc' = "running"
    /\ loop' = [w \in Loops |-> Polling]
    /\ UNCHANGED <<redis, timers, origin, applied, faults>>

Next ==
    \/ \E t \in Tasks : Submit(t) \/ SubmitFails(t) \/ RunInline(t)
    \/ \E w \in Loops : LoopStep(w)
    \/ \E m \in Msg : Requeue(m) \/ RequeueFails(m)
    \/ Shutdown \/ Exit \/ Crash \/ Start

\* The event loop keeps running every worker loop and every timer, tasks
\* return, and the process is restarted.  Nothing makes a fault happen, and
\* a call that can succeed is not bound to fail for ever.
Fairness ==
    /\ \A t \in Tasks : WF_vars(RunInline(t))
    /\ \A w \in Loops :
        /\ WF_vars(Dequeue(w) \/ PollTimeout(w) \/ Execute(w) \/ Unknown(w))
        /\ WF_vars(MarkCompleted(w) \/ MarkFailed(w))
    /\ \A m \in Msg : WF_vars(Requeue(m))
    /\ WF_vars(Exit)
    /\ WF_vars(Start)

Spec == Init /\ [][Next]_vars
FairSpec == Spec /\ Fairness

(***************************************************************************)
(* Safety.                                                                 *)
(***************************************************************************)
Copies(t) ==
    Cardinality({i \in DOMAIN queue : queue[i].task = t})
    + Cardinality({w \in Loops : loop[w].at \in Busy /\ loop[w].msg.task = t})
    + Cardinality({m \in timers : m.task = t})
GivenUp(t) ==
    IF t \in Registered THEN status[[task |-> t, attempt |-> MaxAttempts]] = "failed"
                        ELSE status[First(t)] = "failed"

\* However blips, retries, shutdowns and restarts interleave, a submitted
\* task exists once - queued, in a loop or waiting for its retry - so no two
\* worker loops ever execute the same payload at the same time.
OneLiveCopy == \A t \in Tasks : Copies(t) <= 1

\* A task takes effect more than once only after a Redis call failed that
\* made the process, or the producer, believe it had not.
AppliedOncePerCause == \A t \in Tasks : applied[t] <= 1 + excused[t]

\* A task that is no longer queued, held or waiting was not forgotten:
\* unless a fault took it, its outcome is recorded and true.
OutcomeIsRecorded ==
    \A t \in Tasks :
        origin[t] = "queued" /\ Copies(t) = 0 /\ t \notin lost /\ excused[t] = 0 =>
            \/ applied[t] = 1 /\ \E m \in Msg : m.task = t /\ status[m] = "completed"
            \/ applied[t] = 0 /\ GivenUp(t)

(***************************************************************************)
(* Liveness: a queued task does not stay in the system for ever.           *)
(***************************************************************************)
EveryTaskSettles == \A t \in Tasks : origin[t] = "queued" ~> Copies(t) = 0

(***************************************************************************)
(* The queue implements TaskDelivery.                                      *)
(***************************************************************************)
Promise(t) ==
    CASE applied[t] > 0 -> "done"
      [] applied[t] = 0 /\ origin[t] = "new" -> "new"
      [] applied[t] = 0 /\ origin[t] # "new" ->
            IF Copies(t) > 0 \/ origin[t] = "inline" THEN "owed"
            ELSE IF t \in lost THEN "lost" ELSE "given_up"

Delivery == INSTANCE TaskDelivery WITH
    state <- [t \in Tasks |-> Promise(t)],
    Faulty <- MaxBlips + MaxStops > 0
ImplementsDelivery == Delivery!Spec
================================================================================
