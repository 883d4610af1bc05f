--------------------------- MODULE WorkerQueueProofs ---------------------------
(***************************************************************************)
(* What TLAPS proves of WorkerQueue for any number of tasks, worker loops, *)
(* attempts and faults: its safety, and that it implements TaskDelivery.   *)
(*                                                                         *)
(* A copy of a task is in the queue, in a loop or in a timer.  The proof   *)
(* says first what a push, a pop, a loop's turn and a timer do to the      *)
(* copies of one task (Queued, Held, Timed), and then that every action is *)
(* one of a few things that can happen to a task (IsStepped) and leaves    *)
(* the others Untouched; only the end of the process strikes several.      *)
(* The invariant of one task (Account, Outcome) and its promise to         *)
(* TaskDelivery follow from what can happen to it.                         *)
(***************************************************************************)
EXTENDS WorkerQueue, SequenceTheorems, FiniteSetTheorems, TLAPS

-------------------------------------------------------------------------------
(***************************************************************************)
(* Types.                                                                  *)
(***************************************************************************)
LEMMA MsgFields ==
    ASSUME NEW m \in Msg
    PROVE  m.task \in Tasks /\ m.attempt \in 1..MaxAttempts
BY DEF Msg

LEMMA FirstIsMsg == \A t \in Tasks : First(t) \in Msg /\ First(t).task = t /\ First(t).attempt = 1
BY BoundAssumption DEF First, Msg

\* What a busy loop holds is a message.
LEMMA BusyHolds ==
    ASSUME TypeOK, NEW w \in Loops, loop[w].at \in Busy
    PROVE  /\ loop[w] \in [at : Busy, msg : Msg]
           /\ loop[w].msg \in Msg
           /\ loop[w].msg.task \in Tasks
           /\ loop[w].msg.attempt \in 1..MaxAttempts
<1>1. loop[w] \in LoopState
  BY DEF TypeOK
<1>2. loop[w] # Polling /\ loop[w] # Stopped
  BY DEF Polling, Stopped, Busy
<1>3. loop[w] \in [at : Busy, msg : Msg]
  BY <1>1, <1>2 DEF LoopState
<1>4. loop[w].msg \in Msg
  BY <1>3
<1> QED BY <1>3, <1>4, MsgFields

LEMMA GotoIs ==
    ASSUME TypeOK, NEW w \in Loops, loop[w].at \in Busy, NEW at \in Busy, Goto(w, at)
    PROVE  loop' = [loop EXCEPT ![w] = [at |-> at, msg |-> loop[w].msg]]
<1>1. loop[w] \in [at : Busy, msg : Msg]
  BY BusyHolds
<1>2. [loop[w] EXCEPT !.at = at] = [at |-> at, msg |-> loop[w].msg]
  BY <1>1
<1> QED BY <1>2 DEF Goto

\* The message at the head of the queue, and the others.
LEMMA HeadOfQueue ==
    ASSUME TypeOK, queue # <<>>
    PROVE  /\ Head(queue) \in Msg
           /\ Tail(queue) \in Seq(Msg)
           /\ Len(queue) \in Nat \ {0}
           /\ DOMAIN queue = 1..Len(queue)
           /\ Head(queue) = queue[1]
           /\ DOMAIN Tail(queue) = 1..(Len(queue) - 1)
           /\ \A i \in 1..(Len(queue) - 1) : Tail(queue)[i] = queue[i + 1]
BY HeadTailProperties, EmptySeq, LenProperties DEF TypeOK

LEMMA EndOfQueue ==
    ASSUME TypeOK, NEW m \in Msg
    PROVE  /\ Append(queue, m) \in Seq(Msg)
           /\ Len(queue) \in Nat
           /\ DOMAIN queue = 1..Len(queue)
           /\ DOMAIN Append(queue, m) = 1..(Len(queue) + 1)
           /\ \A i \in 1..Len(queue) : Append(queue, m)[i] = queue[i]
           /\ Append(queue, m)[Len(queue) + 1] = m
BY LenProperties, AppendProperties DEF TypeOK

LEMMA RetryIsMsg ==
    ASSUME NEW m \in Msg, HasRetry(m)
    PROVE  /\ Retry(m) \in Msg
           /\ Retry(m).task = m.task
           /\ m.attempt < MaxAttempts
<1>1. m.task \in Tasks /\ m.attempt \in 1..MaxAttempts /\ MaxAttempts \in Nat
  BY MsgFields, BoundAssumption
<1>2. Retry(m) = [task |-> m.task, attempt |-> m.attempt + 1]
  BY DEF Retry, Msg
<1> QED BY <1>1, <1>2 DEF HasRetry, Msg

LEMMA LoopSets ==
    ASSUME TypeOK, NEW w \in Loops, NEW value \in LoopState,
           loop' = [loop EXCEPT ![w] = value]
    PROVE  loop' \in [Loops -> LoopState]
BY DEF TypeOK

LEMMA NextRoundIs ==
    ASSUME NEW w \in Loops, NextRound(w)
    PROVE  \E value \in {Polling, Stopped} : loop' = [loop EXCEPT ![w] = value]
BY DEF NextRound

LEMMA RestIsLoopState == Polling \in LoopState /\ Stopped \in LoopState
BY DEF LoopState

LEMMA BusyIsLoopState == \A at \in Busy, m \in Msg : [at |-> at, msg |-> m] \in LoopState
BY DEF LoopState

\* The invariant of types, an action at a time.
LEMMA InitType == Init => TypeOK
BY BoundAssumption DEF Init, TypeOK, LoopState

LEMMA ProducerType ==
    ASSUME TypeOK, NEW t \in Tasks, Submit(t) \/ SubmitFails(t) \/ RunInline(t)
    PROVE  TypeOK'
<1>1. First(t) \in Msg /\ Append(queue, First(t)) \in Seq(Msg)
  BY FirstIsMsg, EndOfQueue
<1>5. applied \in [Tasks -> Nat] /\ excused \in [Tasks -> Nat] /\ queue \in Seq(Msg)
  BY DEF TypeOK
<1>6. \A f \in [Tasks -> Nat] : [f EXCEPT ![t] = @ + 1] \in [Tasks -> Nat]
  OBVIOUS
<1>2. CASE Submit(t)
  BY <1>1, <1>2 DEF TypeOK, Submit, faults
<1>3. CASE SubmitFails(t)
  <2>1. queue' \in {queue, Append(queue, First(t))} /\ excused' \in {excused, [excused EXCEPT ![t] = @ + 1]}
    BY <1>3 DEF SubmitFails
  <2>4. queue' \in Seq(Msg) /\ excused' \in [Tasks -> Nat]
    BY <1>1, <1>5, <1>6, <2>1
  <2>2. origin' \in [Tasks -> {"new", "queued", "inline", "ran", "refused"}]
    BY <1>3 DEF TypeOK, SubmitFails
  <2>3. blips' \in 0..MaxBlips
    BY <1>3, BoundAssumption DEF TypeOK, SubmitFails, Blip
  <2> QED BY <1>3, <2>2, <2>3, <2>4 DEF TypeOK, SubmitFails
<1>4. CASE RunInline(t)
  <2>1. origin' \in [Tasks -> {"new", "queued", "inline", "ran", "refused"}]
    BY <1>4 DEF TypeOK, RunInline
  <2>3. applied' \in {applied, [applied EXCEPT ![t] = @ + 1]}
    BY <1>4 DEF RunInline
  <2>2. applied' \in [Tasks -> Nat]
    BY <1>5, <1>6, <2>3
  <2> QED BY <1>4, <2>1, <2>2 DEF TypeOK, RunInline, faults, redis
<1> QED BY <1>2, <1>3, <1>4

\* A loop that goes back to polling, or stops.
LEMMA RestType ==
    ASSUME TypeOK, NEW w \in Loops, NextRound(w)
    PROVE  loop' \in [Loops -> LoopState]
<1>1. PICK value \in {Polling, Stopped} : loop' = [loop EXCEPT ![w] = value]
  BY NextRoundIs
<1> QED BY <1>1, RestIsLoopState, LoopSets

LEMMA DequeueType ==
    ASSUME TypeOK, NEW w \in Loops, Dequeue(w) \/ DequeueFails(w) \/ PollTimeout(w)
    PROVE  TypeOK'
<1>1. CASE Dequeue(w)
  <2>1. Head(queue) \in Msg /\ Tail(queue) \in Seq(Msg)
    BY <1>1, HeadOfQueue DEF Dequeue
  <2>2. "executing" \in Busy
    BY DEF Busy
  <2>3. loop' \in [Loops -> LoopState]
    BY <1>1, <2>1, <2>2, BusyIsLoopState, LoopSets DEF Dequeue
  <2> QED BY <1>1, <2>1, <2>3 DEF TypeOK, Dequeue, faults
<1>2. CASE DequeueFails(w)
  <2>1. Head(queue) \in Msg /\ Tail(queue) \in Seq(Msg)
    BY <1>2, HeadOfQueue DEF DequeueFails
  <2>2. loop' \in [Loops -> LoopState] /\ Head(queue).task \in Tasks
    BY <1>2, <2>1, RestType, MsgFields DEF DequeueFails
  <2> QED BY <1>2, <2>1, <2>2, BoundAssumption DEF TypeOK, DequeueFails, Blip
<1>3. CASE PollTimeout(w)
  <2>1. loop' \in [Loops -> LoopState]
    BY <1>3, RestType DEF PollTimeout
  <2> QED BY <1>3, <2>1 DEF TypeOK, PollTimeout, redis, faults
<1> QED BY <1>1, <1>2, <1>3

LEMMA GotoType ==
    ASSUME TypeOK, NEW w \in Loops, loop[w].at \in Busy, NEW at \in Busy, Goto(w, at)
    PROVE  loop' \in [Loops -> LoopState]
BY BusyHolds, GotoIs, BusyIsLoopState, LoopSets

LEMMA StatusType ==
    ASSUME TypeOK, NEW m \in Msg, NEW outcome \in {"completed", "failed"}
    PROVE  [status EXCEPT ![m] = outcome] \in [Msg -> {"none", "completed", "failed"}]
BY DEF TypeOK

LEMMA BusyStates == Busy = {"executing", "completed", "failed", "raised"}
BY DEF Busy

LEMMA ExecuteType ==
    ASSUME TypeOK, NEW w \in Loops, Execute(w) \/ Unknown(w)
    PROVE  TypeOK'
<1>0. loop[w].at \in Busy
  BY BusyStates DEF Execute, Unknown
<1>1. loop[w].msg \in Msg /\ loop[w].msg.task \in Tasks
  BY <1>0, BusyHolds
<1>2. CASE Execute(w)
  <2>1. loop' \in [Loops -> LoopState]
    BY <1>2, <1>0, GotoType, BusyStates DEF Execute
  <2>2. applied' \in [Tasks -> Nat]
    BY <1>1, <1>2 DEF TypeOK, Execute
  <2> QED BY <1>2, <2>1, <2>2 DEF TypeOK, Execute, redis, faults
<1>3. CASE Unknown(w)
  <2>1. loop' \in [Loops -> LoopState]
    BY <1>3, RestType DEF Unknown
  <2>2. status' \in [Msg -> {"none", "completed", "failed"}]
    BY <1>1, <1>3, StatusType DEF Unknown, TypeOK
  <2>3. lost' \in SUBSET Tasks /\ blips' \in 0..MaxBlips
    BY <1>1, <1>3, BoundAssumption DEF Unknown, TypeOK, Blip
  <2> QED BY <1>3, <2>1, <2>2, <2>3 DEF TypeOK, Unknown
<1> QED BY <1>2, <1>3

LEMMA MarkType ==
    ASSUME TypeOK, NEW w \in Loops,
           MarkCompleted(w) \/ MarkFailed(w) \/ MarkRaises(w) \/ MarkFailedRaises(w)
    PROVE  TypeOK'
<1>0. loop[w].at \in Busy
  BY BusyStates DEF MarkCompleted, MarkFailed, MarkRaises, MarkFailedRaises
<1>1. loop[w].msg \in Msg /\ loop[w].msg.task \in Tasks
  BY <1>0, BusyHolds
<1>2. \A outcome \in {"completed", "failed"} :
          [status EXCEPT ![loop[w].msg] = outcome] \in [Msg -> {"none", "completed", "failed"}]
  BY <1>1, StatusType
<1>3. CASE MarkCompleted(w)
  <2>1. loop' \in [Loops -> LoopState]
    BY <1>3, RestType DEF MarkCompleted
  <2> QED BY <1>2, <1>3, <2>1 DEF TypeOK, MarkCompleted, faults
<1>4. CASE MarkFailed(w)
  <2>1. loop' \in [Loops -> LoopState]
    BY <1>4, RestType DEF MarkFailed
  <2>2. timers' \in SUBSET Msg
    BY <1>1, <1>4, RetryIsMsg DEF MarkFailed, ScheduleRetry, TypeOK
  <2> QED BY <1>2, <1>4, <2>1, <2>2 DEF TypeOK, MarkFailed, faults
<1>5. CASE MarkRaises(w)
  <2>1. loop' \in [Loops -> LoopState]
    BY <1>5, <1>0, GotoType, BusyStates DEF MarkRaises
  <2>2. status' \in [Msg -> {"none", "completed", "failed"}]
    BY <1>2, <1>5 DEF MarkRaises, MaybeRecorded, TypeOK
  <2>3. excused' \in [Tasks -> Nat]
    BY <1>1, <1>5 DEF MarkRaises, TypeOK
  <2> QED BY <1>5, <2>1, <2>2, <2>3, BoundAssumption DEF TypeOK, MarkRaises, Blip
<1>6. CASE MarkFailedRaises(w)
  <2>1. loop' \in [Loops -> LoopState]
    BY <1>6, RestType DEF MarkFailedRaises
  <2>2. status' \in [Msg -> {"none", "completed", "failed"}]
    BY <1>2, <1>6 DEF MarkFailedRaises, MaybeRecorded, TypeOK
  <2> QED BY <1>1, <1>6, <2>1, <2>2, BoundAssumption DEF TypeOK, MarkFailedRaises, Blip
<1> QED BY <1>3, <1>4, <1>5, <1>6

LEMMA TimerType ==
    ASSUME TypeOK, NEW m \in Msg, Requeue(m) \/ RequeueFails(m)
    PROVE  TypeOK'
<1>1. Append(queue, m) \in Seq(Msg) /\ m.task \in Tasks
  BY EndOfQueue, MsgFields
<1>2. CASE Requeue(m)
  BY <1>1, <1>2 DEF TypeOK, Requeue
<1>3. CASE RequeueFails(m)
  <2>1. queue' \in Seq(Msg) /\ lost' \in SUBSET Tasks
    BY <1>1, <1>3 DEF TypeOK, RequeueFails
  <2>2. blips' \in 0..MaxBlips
    BY <1>3, BoundAssumption DEF TypeOK, RequeueFails, Blip
  <2> QED BY <1>3, <2>1, <2>2 DEF TypeOK, RequeueFails
<1> QED BY <1>2, <1>3

LEMMA HeldAreTasks ==
    ASSUME TypeOK
    PROVE  TimedTasks \subseteq Tasks /\ HeldBy(Loops) \subseteq Tasks
<1>1. TimedTasks \subseteq Tasks
  BY MsgFields DEF TimedTasks, TypeOK
<1>2. HeldBy(Loops) \subseteq Tasks
  BY BusyHolds DEF HeldBy
<1> QED BY <1>1, <1>2

LEMMA ProcessType ==
    ASSUME TypeOK, Shutdown \/ Exit \/ Crash \/ Start
    PROVE  TypeOK'
<1>1. CASE Shutdown
  BY <1>1, BoundAssumption DEF TypeOK, Shutdown, redis
<1>2. CASE Exit
  BY <1>2, HeldAreTasks, RestIsLoopState DEF TypeOK, Exit, DownNow, redis
<1>3. CASE Crash
  <2>1. applied' \in [Tasks -> Nat]
    BY <1>3 DEF Crash, TypeOK
  <2> QED BY <1>3, <2>1, HeldAreTasks, RestIsLoopState, BoundAssumption
          DEF TypeOK, Crash, DownNow, redis
<1>4. CASE Start
  BY <1>4, RestIsLoopState DEF TypeOK, Start, redis, faults
<1> QED BY <1>1, <1>2, <1>3, <1>4

LEMMA NextType == TypeOK /\ [Next]_vars => TypeOK'
<1> SUFFICES ASSUME TypeOK, [Next]_vars PROVE TypeOK'
  OBVIOUS
<1>1. CASE UNCHANGED vars
  BY <1>1 DEF TypeOK, vars
<1>2. CASE \E t \in Tasks : Submit(t) \/ SubmitFails(t) \/ RunInline(t)
  BY <1>2, ProducerType
<1>3. CASE \E w \in Loops : LoopStep(w)
  BY <1>3, DequeueType, ExecuteType, MarkType DEF LoopStep
<1>4. CASE \E m \in Msg : Requeue(m) \/ RequeueFails(m)
  BY <1>4, TimerType
<1>5. CASE Shutdown \/ Exit \/ Crash \/ Start
  BY <1>5, ProcessType
<1> QED BY <1>1, <1>2, <1>3, <1>4, <1>5 DEF Next

\* Queue, loops, timers and counters keep their types, whatever fails.
THEOREM TypeCorrect == Spec => []TypeOK
BY InitType, NextType, PTL DEF Spec

-------------------------------------------------------------------------------
(***************************************************************************)
(* The copies of a task.                                                   *)
(***************************************************************************)
Queued(t) == \E i \in DOMAIN queue : queue[i].task = t
Holds(state, t) == state.at \in Busy /\ state.msg.task = t
Held(t) == \E w \in Loops : Holds(loop[w], t)
Done(t) == \E w \in Loops : Holds(loop[w], t) /\ loop[w].at = "completed"
Timed(t) == \E m \in timers : m.task = t
Live(t) == Queued(t) \/ Held(t) \/ Timed(t)

QueuedOnce(t) == \A i, j \in DOMAIN queue : queue[i].task = t /\ queue[j].task = t => i = j
HeldOnce(t) == \A v, w \in Loops : Holds(loop[v], t) /\ Holds(loop[w], t) => v = w
TimedOnce(t) == \A m, n \in timers : m.task = t /\ n.task = t => m = n
Unique(t) ==
    /\ QueuedOnce(t) /\ HeldOnce(t) /\ TimedOnce(t)
    /\ ~(Queued(t) /\ Held(t))
    /\ ~(Queued(t) /\ Timed(t))
    /\ ~(Held(t) /\ Timed(t))

\* A push adds a copy to the queue.
LEMMA Push ==
    ASSUME TypeOK, NEW m \in Msg, queue' = Append(queue, m), NEW t \in Tasks
    PROVE  /\ Queued(t)' <=> Queued(t) \/ m.task = t
           /\ QueuedOnce(t) /\ (m.task = t => ~Queued(t)) => QueuedOnce(t)'
<1> DEFINE n == Len(queue)
<1>1. /\ n \in Nat
      /\ DOMAIN queue = 1..n
      /\ DOMAIN queue' = 1..(n + 1)
      /\ \A i \in 1..n : queue'[i] = queue[i]
      /\ queue'[n + 1] = m
  BY EndOfQueue
<1> HIDE DEF n
<1>2. \A i \in 1..(n + 1) : i \in 1..n \/ i = n + 1
  BY <1>1
<1>3. n + 1 \in 1..(n + 1) /\ \A i \in 1..n : i \in 1..(n + 1)
  BY <1>1
<1> QED BY <1>1, <1>2, <1>3 DEF Queued, QueuedOnce

\* A pop takes the copy at the head.
LEMMA Pop ==
    ASSUME TypeOK, queue # <<>>, queue' = Tail(queue), NEW t \in Tasks
    PROVE  /\ Queued(t) <=> Queued(t)' \/ Head(queue).task = t
           /\ QueuedOnce(t) => QueuedOnce(t)'
           /\ QueuedOnce(t) /\ Head(queue).task = t => ~Queued(t)'
<1> DEFINE n == Len(queue)
           h == Head(queue)
<1>1. /\ n \in Nat \ {0}
      /\ DOMAIN queue = 1..n
      /\ DOMAIN queue' = 1..(n - 1)
      /\ \A i \in 1..(n - 1) : queue'[i] = queue[i + 1]
      /\ h = queue[1]
  BY HeadOfQueue
<1> HIDE DEF n, h
<1>2. /\ 1 \in 1..n
      /\ \A i \in 1..n : i = 1 \/ (i - 1 \in 1..(n - 1) /\ (i - 1) + 1 = i)
      /\ \A i \in 1..(n - 1) : i + 1 \in 1..n /\ i + 1 # 1
      /\ \A i, j \in 1..(n - 1) : i + 1 = j + 1 => i = j
  BY <1>1
<1>3. Queued(t) => Queued(t)' \/ h.task = t
  <2>1. ASSUME NEW i \in 1..n, queue[i].task = t PROVE Queued(t)' \/ h.task = t
    <3>1. CASE i = 1
      BY <1>1, <2>1, <3>1
    <3>2. CASE i - 1 \in 1..(n - 1) /\ (i - 1) + 1 = i
      <4>1. queue'[i - 1] = queue[i]
        BY <1>1, <3>2
      <4> QED BY <1>1, <2>1, <3>2, <4>1 DEF Queued
    <3> QED BY <1>2, <3>1, <3>2
  <2> QED BY <1>1, <2>1 DEF Queued
<1>4. Queued(t)' \/ h.task = t => Queued(t)
  <2>1. h.task = t => Queued(t)
    BY <1>1, <1>2 DEF Queued
  <2>2. ASSUME NEW i \in 1..(n - 1), queue'[i].task = t PROVE Queued(t)
    BY <1>1, <1>2, <2>2 DEF Queued
  <2> QED BY <1>1, <2>1, <2>2 DEF Queued
<1>5. QueuedOnce(t) => QueuedOnce(t)'
  <2> SUFFICES ASSUME QueuedOnce(t), NEW i \in 1..(n - 1), NEW j \in 1..(n - 1),
                      queue'[i].task = t, queue'[j].task = t
               PROVE  i = j
    BY <1>1 DEF QueuedOnce
  <2>1. queue[i + 1].task = t /\ queue[j + 1].task = t /\ i + 1 \in 1..n /\ j + 1 \in 1..n
    BY <1>1, <1>2
  <2>2. i + 1 = j + 1
    BY <1>1, <2>1 DEF QueuedOnce
  <2> QED BY <1>2, <2>2
<1>6. QueuedOnce(t) /\ h.task = t => ~Queued(t)'
  BY <1>1, <1>2 DEF Queued, QueuedOnce
<1> QED BY <1>3, <1>4, <1>5, <1>6 DEF h

\* A loop's turn replaces the copy it holds by the one in its new state.
LEMMA Turn ==
    ASSUME TypeOK, NEW w \in Loops, NEW state, loop' = [loop EXCEPT ![w] = state],
           NEW t \in Tasks, HeldOnce(t)
    PROVE  /\ Holds(loop[w], t) => Held(t)
           /\ Held(t)' <=> \/ Holds(state, t)
                           \/ Held(t) /\ ~Holds(loop[w], t)
           /\ Done(t)' <=> \/ Holds(state, t) /\ state.at = "completed"
                           \/ Done(t) /\ ~Holds(loop[w], t)
           /\ Holds(loop[w], t) => (Done(t) <=> loop[w].at = "completed")
           /\ (Holds(state, t) => Holds(loop[w], t) \/ ~Held(t)) => HeldOnce(t)'
<1>1. loop'[w] = state /\ \A v \in Loops \ {w} : loop'[v] = loop[v]
  BY DEF TypeOK
<1>2. /\ Holds(loop[w], t) => Held(t)
      /\ Held(t)' <=> Holds(state, t) \/ (Held(t) /\ ~Holds(loop[w], t))
  BY <1>1 DEF Held, HeldOnce
<1>3. /\ Done(t)' <=> \/ Holds(state, t) /\ state.at = "completed"
                      \/ Done(t) /\ ~Holds(loop[w], t)
      /\ Holds(loop[w], t) => (Done(t) <=> loop[w].at = "completed")
  BY <1>1 DEF Done, HeldOnce
<1>4. (Holds(state, t) => Holds(loop[w], t) \/ ~Held(t)) => HeldOnce(t)'
  BY <1>1 DEF Held, HeldOnce
<1> QED BY <1>2, <1>3, <1>4

\* A timer is set, or fires.
LEMMA SetTimer ==
    ASSUME TypeOK, NEW m \in Msg, timers' = timers \cup {m}, NEW t \in Tasks
    PROVE  /\ Timed(t)' <=> Timed(t) \/ m.task = t
           /\ TimedOnce(t) /\ (m.task = t => ~Timed(t)) => TimedOnce(t)'
BY DEF Timed, TimedOnce

LEMMA FireTimer ==
    ASSUME TypeOK, NEW m \in timers, timers' = timers \ {m}, NEW t \in Tasks
    PROVE  /\ Timed(t) <=> Timed(t)' \/ m.task = t
           /\ TimedOnce(t) => TimedOnce(t)'
           /\ TimedOnce(t) /\ m.task = t => ~Timed(t)'
BY DEF Timed, TimedOnce

LEMMA SameQueue ==
    ASSUME UNCHANGED queue, NEW t
    PROVE  (Queued(t)' <=> Queued(t)) /\ (QueuedOnce(t) => QueuedOnce(t)')
BY DEF Queued, QueuedOnce

LEMMA SameLoops ==
    ASSUME UNCHANGED loop, NEW t
    PROVE  (Held(t)' <=> Held(t)) /\ (Done(t)' <=> Done(t)) /\ (HeldOnce(t) => HeldOnce(t)')
BY DEF Held, Done, HeldOnce

LEMMA SameTimers ==
    ASSUME UNCHANGED timers, NEW t
    PROVE  (Timed(t)' <=> Timed(t)) /\ (TimedOnce(t) => TimedOnce(t)')
BY DEF Timed, TimedOnce

LEMMA RestHoldsNothing == \A t : ~Holds(Polling, t) /\ ~Holds(Stopped, t)
BY DEF Holds, Polling, Stopped, Busy

LEMMA BusyHoldsItsTask ==
    \A at \in Busy, m \in Msg : \A t : Holds([at |-> at, msg |-> m], t) <=> m.task = t
BY DEF Holds

\* A loop that ends its turn holds nothing any more.
LEMMA Drop ==
    ASSUME TypeOK, NEW w \in Loops, NextRound(w), NEW t \in Tasks, HeldOnce(t)
    PROVE  /\ Holds(loop[w], t) => Held(t)
           /\ Held(t)' <=> Held(t) /\ ~Holds(loop[w], t)
           /\ Done(t)' <=> Done(t) /\ ~Holds(loop[w], t)
           /\ Holds(loop[w], t) => (Done(t) <=> loop[w].at = "completed")
           /\ HeldOnce(t)'
<1>1. PICK state \in {Polling, Stopped} : loop' = [loop EXCEPT ![w] = state]
  BY NextRoundIs
<1>2. ~Holds(state, t)
  BY RestHoldsNothing
<1> QED BY <1>1, <1>2, Turn

\* A loop that goes on with its message still holds it.
LEMMA GoOn ==
    ASSUME TypeOK, NEW w \in Loops, loop[w].at \in Busy, NEW at \in Busy, Goto(w, at),
           NEW t \in Tasks, HeldOnce(t)
    PROVE  /\ Holds(loop[w], t) => Held(t)
           /\ Held(t)' <=> Held(t)
           /\ Done(t)' <=> IF Holds(loop[w], t) THEN at = "completed" ELSE Done(t)
           /\ Holds(loop[w], t) => (Done(t) <=> loop[w].at = "completed")
           /\ HeldOnce(t)'
<1>1. loop[w].msg \in Msg /\ loop' = [loop EXCEPT ![w] = [at |-> at, msg |-> loop[w].msg]]
  BY BusyHolds, GotoIs
<1> DEFINE state == [at |-> at, msg |-> loop[w].msg]
<1>2. (Holds(state, t) <=> Holds(loop[w], t)) /\ state.at = at
  BY <1>1, BusyHoldsItsTask DEF Holds
<1> HIDE DEF state
<1> QED BY <1>1, <1>2, Turn DEF state

\* A process that ends holds nothing.
LEMMA Down ==
    ASSUME DownNow, NEW t
    PROVE  ~Held(t)' /\ ~Done(t)' /\ HeldOnce(t)' /\ ~Timed(t)' /\ TimedOnce(t)'
<1>1. \A w \in Loops : loop'[w] = Stopped
  BY DEF DownNow
<1>2. ~Held(t)' /\ ~Done(t)' /\ HeldOnce(t)'
  BY <1>1, RestHoldsNothing DEF Held, Done, HeldOnce
<1> QED BY <1>2 DEF DownNow, Timed, TimedOnce

LEMMA DoneIsHeld == \A t : Done(t) => Held(t)
BY DEF Done, Held

LEMMA DoneIsHeldNext == \A t : Done(t)' => Held(t)'
BY DEF Done, Held

-------------------------------------------------------------------------------
(***************************************************************************)
(* What a step does to one task.                                           *)
(***************************************************************************)
Faulted == blips > 0 \/ stops > 0
SameRecord(t) ==
    /\ origin'[t] = origin[t]
    /\ applied'[t] = applied[t]
    /\ excused'[t] = excused[t]
    /\ t \in lost' <=> t \in lost

Untouched(t) ==
    /\ SameRecord(t)
    /\ Live(t)' <=> Live(t)
    /\ Done(t)' <=> Done(t)
    /\ \A m \in Msg : m.task = t => status'[m] = status[m]

\* The producer has handed the task over, or kept it to run it itself.
Queues(t) ==
    /\ origin[t] = "new" /\ origin'[t] = "queued"
    /\ Live(t)' /\ ~Done(t)'
    /\ applied'[t] = applied[t] /\ excused'[t] = excused[t] /\ (t \in lost' <=> t \in lost)
KeepsBack(t) ==
    /\ origin[t] = "new" /\ origin'[t] = "inline"
    /\ Faulted'
    /\ \/ ~Live(t)' /\ excused'[t] = excused[t]
       \/ Live(t)' /\ ~Done(t)' /\ excused'[t] = excused[t] + 1
    /\ applied'[t] = applied[t] /\ (t \in lost' <=> t \in lost)
RunsInline(t) ==
    /\ origin[t] = "inline"
    /\ \/ origin'[t] = "ran" /\ applied'[t] = applied[t] + 1
       \/ origin'[t] = "refused" /\ applied'[t] = applied[t]
    /\ Live(t)' <=> Live(t)
    /\ Done(t)' <=> Done(t)
    /\ excused'[t] = excused[t] /\ (t \in lost' <=> t \in lost)

\* Its copy goes on, takes effect, or is taken for failed although it did.
Moves(t) ==
    /\ SameRecord(t)
    /\ Live(t) /\ Live(t)' /\ ~Done(t) /\ ~Done(t)'
TakesEffect(t) ==
    /\ origin'[t] = origin[t] /\ excused'[t] = excused[t] /\ (t \in lost' <=> t \in lost)
    /\ applied'[t] = applied[t] + 1
    /\ Live(t) /\ Live(t)' /\ ~Done(t) /\ Done(t)'
IsDoubted(t) ==
    /\ origin'[t] = origin[t] /\ applied'[t] = applied[t] /\ (t \in lost' <=> t \in lost)
    /\ excused'[t] = excused[t] + 1
    /\ Faulted'
    /\ Live(t) /\ Live(t)' /\ Done(t) /\ ~Done(t)'

\* Its copy ends: recorded, given up, lost, or lost while it took effect.
Finishes(t) ==
    /\ SameRecord(t)
    /\ Live(t) /\ Done(t) /\ ~Live(t)'
    /\ \E m \in Msg : m.task = t /\ status'[m] = "completed"
GivesUp(t) ==
    /\ SameRecord(t)
    /\ Live(t) /\ ~Done(t) /\ ~Live(t)'
    /\ GivenUp(t)'
IsLost(t) ==
    /\ origin'[t] = origin[t] /\ applied'[t] = applied[t] /\ excused'[t] = excused[t]
    /\ Faulted'
    /\ Live(t) /\ ~Live(t)' /\ t \in lost'
IsKilled(t) ==
    /\ origin'[t] = origin[t] /\ excused'[t] = excused[t]
    /\ applied'[t] = applied[t] + 1
    /\ Faulted'
    /\ Live(t) /\ ~Done(t) /\ ~Live(t)' /\ t \in lost'

IsStepped(t) ==
    \/ Queues(t) \/ KeepsBack(t) \/ RunsInline(t)
    \/ Moves(t) \/ TakesEffect(t) \/ IsDoubted(t)
    \/ Finishes(t) \/ GivesUp(t) \/ IsLost(t)

\* All steps are about one task, but for the end of the process.
TaskStep ==
    \/ \A u \in Tasks : Untouched(u)
    \/ \E t \in Tasks : IsStepped(t) /\ \A u \in Tasks \ {t} : Untouched(u)
    \/ \A u \in Tasks : Untouched(u) \/ IsLost(u) \/ IsKilled(u)

-------------------------------------------------------------------------------
(***************************************************************************)
(* The copies are where they should be.                                    *)
(***************************************************************************)
\* A task the registry does not know is never retried.
Known ==
    /\ \A i \in DOMAIN queue : queue[i].task \notin Registered => queue[i].attempt = 1
    /\ \A w \in Loops : loop[w].at \in Busy /\ loop[w].msg.task \notin Registered =>
            loop[w].at = "executing" /\ loop[w].msg.attempt = 1
    /\ \A m \in timers : m.task \in Registered

Tidy ==
    /\ \A t \in Tasks : Unique(t) /\ (Live(t) => origin[t] # "new")
    /\ proc = "down" => \A w \in Loops : loop[w] = Stopped
    /\ proc # "running" => stops > 0
    /\ Known

LEMMA InitTidy == Init => Tidy
<1> SUFFICES ASSUME Init PROVE Tidy
  OBVIOUS
<1>1. DOMAIN queue = {} /\ timers = {}
  BY EmptySeq, LenProperties DEF Init
<1>2. \A w \in Loops : loop[w] = Polling
  BY DEF Init
<1>3. \A t \in Tasks : ~Queued(t) /\ ~Held(t) /\ ~Timed(t) /\ Unique(t)
  BY <1>1, <1>2, RestHoldsNothing DEF Queued, Held, Timed, Unique, QueuedOnce, HeldOnce, TimedOnce
<1>4. Known
  BY <1>1, <1>2 DEF Known, Polling, Busy
<1> QED BY <1>3, <1>4 DEF Tidy, Live, Init

\* Only messages of the task are recorded.
LEMMA OthersUnrecorded ==
    ASSUME TypeOK, NEW m \in Msg, NEW outcome, MaybeRecorded(m, outcome), NEW u, m.task # u
    PROVE  \A n \in Msg : n.task = u => status'[n] = status[n]
BY DEF MaybeRecorded, TypeOK

LEMMA Recorded ==
    ASSUME TypeOK, NEW m \in Msg, NEW outcome, status' = [status EXCEPT ![m] = outcome]
    PROVE  MaybeRecorded(m, outcome) /\ status'[m] = outcome
BY DEF MaybeRecorded, TypeOK

LEMMA FaultedByBlip ==
    ASSUME TypeOK, Blip, UNCHANGED stops
    PROVE  Faulted'
BY DEF TypeOK, Blip, Faulted

-------------------------------------------------------------------------------
(***************************************************************************)
(* Every action is such a step.                                            *)
(***************************************************************************)
LEMMA SubmitStep ==
    ASSUME TypeOK, Tidy, NEW t \in Tasks, Submit(t)
    PROVE  (\A u \in Tasks : Unique(u)') /\ TaskStep
<1>1. First(t) \in Msg /\ First(t).task = t /\ ~Live(t)
  BY FirstIsMsg DEF Tidy, Submit
<1>2. ASSUME NEW u \in Tasks
      PROVE  Unique(u)' /\ (u # t => Untouched(u)) /\ (u = t => Queues(u))
  <2>1. Unique(u)
    BY DEF Tidy
  <2>2. /\ Queued(u)' <=> Queued(u) \/ u = t
        /\ QueuedOnce(u) /\ (u = t => ~Queued(u)) => QueuedOnce(u)'
    BY <1>1, Push DEF Submit
  <2>3. UNCHANGED <<loop, timers, status, applied, excused, lost>>
    BY DEF Submit, faults
  <2>4. /\ Held(u)' <=> Held(u)
        /\ Done(u)' <=> Done(u)
        /\ HeldOnce(u) => HeldOnce(u)'
        /\ Timed(u)' <=> Timed(u)
        /\ TimedOnce(u) => TimedOnce(u)'
    BY <2>3, SameLoops, SameTimers
  <2>5. Unique(u)'
    BY <1>1, <2>1, <2>2, <2>4 DEF Unique, Live
  <2>6. u # t => Untouched(u)
    BY <2>2, <2>3, <2>4 DEF Untouched, SameRecord, Live, Submit, TypeOK
  <2>7. ~Done(t)
    BY <1>1, DoneIsHeld DEF Live
  <2>8. u = t => Queues(u)
    BY <2>2, <2>3, <2>4, <2>7 DEF Queues, Live, Submit, TypeOK
  <2> QED BY <2>5, <2>6, <2>8
<1> QED BY <1>2 DEF TaskStep, IsStepped

LEMMA CopiesStay ==
    ASSUME UNCHANGED <<queue, loop, timers>>, NEW u
    PROVE  (Unique(u) => Unique(u)') /\ (Live(u)' <=> Live(u)) /\ (Done(u)' <=> Done(u))
BY SameQueue, SameLoops, SameTimers DEF Unique, Live

LEMMA SubmitFailsStep ==
    ASSUME TypeOK, Tidy, NEW t \in Tasks, SubmitFails(t)
    PROVE  (\A u \in Tasks : Unique(u)') /\ TaskStep
<1>1. First(t) \in Msg /\ First(t).task = t /\ ~Live(t) /\ ~Done(t)
  BY FirstIsMsg, DoneIsHeld DEF Tidy, SubmitFails, Live
<1>2. Faulted'
  BY FaultedByBlip DEF SubmitFails
<1>3. UNCHANGED <<loop, timers, status, applied, lost>>
  BY DEF SubmitFails
<1>4. origin[t] = "new" /\ origin'[t] = "inline" /\ \A u \in Tasks \ {t} : origin'[u] = origin[u]
  BY DEF SubmitFails, TypeOK
<1>5. CASE UNCHANGED <<queue, excused>>
  <2>1. \A u \in Tasks : (Unique(u) => Unique(u)') /\ (Live(u)' <=> Live(u)) /\ (Done(u)' <=> Done(u))
    BY <1>3, <1>5, CopiesStay
  <2>2. \A u \in Tasks : Unique(u)'
    BY <2>1 DEF Tidy
  <2>3. \A u \in Tasks \ {t} : Untouched(u)
    BY <1>3, <1>4, <1>5, <2>1 DEF Untouched, SameRecord
  <2>4. KeepsBack(t)
    BY <1>1, <1>2, <1>3, <1>4, <1>5, <2>1 DEF KeepsBack
  <2> QED BY <2>2, <2>3, <2>4 DEF TaskStep, IsStepped
<1>6. CASE queue' = Append(queue, First(t)) /\ excused' = [excused EXCEPT ![t] = @ + 1]
  <2>1. excused'[t] = excused[t] + 1 /\ \A u \in Tasks \ {t} : excused'[u] = excused[u]
    BY <1>6 DEF TypeOK
  <2>2. ASSUME NEW u \in Tasks
        PROVE  Unique(u)' /\ (u # t => Untouched(u)) /\ (u = t => KeepsBack(u))
    <3>1. Unique(u)
      BY DEF Tidy
    <3>2. /\ Queued(u)' <=> Queued(u) \/ u = t
          /\ QueuedOnce(u) /\ (u = t => ~Queued(u)) => QueuedOnce(u)'
      BY <1>1, <1>6, Push
    <3>3. /\ Held(u)' <=> Held(u)
          /\ Done(u)' <=> Done(u)
          /\ HeldOnce(u) => HeldOnce(u)'
          /\ Timed(u)' <=> Timed(u)
          /\ TimedOnce(u) => TimedOnce(u)'
      BY <1>3, SameLoops, SameTimers
    <3>4. Unique(u)'
      BY <1>1, <3>1, <3>2, <3>3 DEF Unique, Live
    <3>5. u # t => Untouched(u)
      BY <1>3, <1>4, <2>1, <3>2, <3>3 DEF Untouched, SameRecord, Live
    <3>6. u = t => KeepsBack(u)
      BY <1>1, <1>2, <1>3, <1>4, <2>1, <3>2, <3>3 DEF KeepsBack, Live
    <3> QED BY <3>4, <3>5, <3>6
  <2> QED BY <2>2 DEF TaskStep, IsStepped
<1> QED BY <1>5, <1>6 DEF SubmitFails

LEMMA RunInlineStep ==
    ASSUME TypeOK, Tidy, NEW t \in Tasks, RunInline(t)
    PROVE  (\A u \in Tasks : Unique(u)') /\ TaskStep
<1>1. UNCHANGED <<queue, status, loop, timers, excused, lost>>
  BY DEF RunInline, redis, faults
<1>2. \A u \in Tasks : (Unique(u) => Unique(u)') /\ (Live(u)' <=> Live(u)) /\ (Done(u)' <=> Done(u))
  BY <1>1, CopiesStay
<1>3. \A u \in Tasks : Unique(u)'
  BY <1>2 DEF Tidy
<1>4. /\ origin[t] = "inline"
      /\ \/ origin'[t] = "ran" /\ applied'[t] = applied[t] + 1
         \/ origin'[t] = "refused" /\ applied'[t] = applied[t]
      /\ \A u \in Tasks \ {t} : origin'[u] = origin[u] /\ applied'[u] = applied[u]
  <2> applied \in [Tasks -> Nat] /\ origin \in [Tasks -> {"new", "queued", "inline", "ran", "refused"}]
    BY DEF TypeOK
  <2> QED BY DEF RunInline
<1>5. \A u \in Tasks \ {t} : Untouched(u)
  BY <1>1, <1>2, <1>4 DEF Untouched, SameRecord
<1>6. RunsInline(t)
  BY <1>1, <1>2, <1>4 DEF RunsInline
<1> QED BY <1>3, <1>5, <1>6 DEF TaskStep, IsStepped

LEMMA DequeueStep ==
    ASSUME TypeOK, Tidy, NEW w \in Loops, Dequeue(w)
    PROVE  (\A u \in Tasks : Unique(u)') /\ TaskStep
<1> DEFINE m == Head(queue)
           state == [at |-> "executing", msg |-> m]
<1>1. m \in Msg /\ m.task \in Tasks
  BY HeadOfQueue, MsgFields DEF Dequeue
<1>2. /\ queue # <<>> /\ queue' = Tail(queue)
      /\ loop' = [loop EXCEPT ![w] = state]
      /\ UNCHANGED <<status, timers, origin, applied, excused, lost>>
  BY DEF Dequeue, faults
<1>3. \A u : (Holds(state, u) <=> m.task = u) /\ ~Holds(loop[w], u)
  BY <1>1, BusyHoldsItsTask, BusyStates, RestHoldsNothing DEF Dequeue
<1>4. state.at = "executing"
  OBVIOUS
<1> HIDE DEF state
<1>5. ASSUME NEW u \in Tasks
      PROVE  Unique(u)' /\ (u # m.task => Untouched(u)) /\ (u = m.task => Moves(u))
  <2>1. Unique(u)
    BY DEF Tidy
  <2>2. /\ Queued(u) <=> Queued(u)' \/ u = m.task
        /\ QueuedOnce(u) => QueuedOnce(u)'
        /\ QueuedOnce(u) /\ u = m.task => ~Queued(u)'
    BY <1>2, Pop
  <2>3. /\ Held(u)' <=> u = m.task \/ Held(u)
        /\ Done(u)' <=> Done(u)
        /\ (u = m.task => ~Held(u)) => HeldOnce(u)'
    BY <1>2, <1>3, <1>4, <2>1, Turn DEF Unique
  <2>4. (Timed(u)' <=> Timed(u)) /\ (TimedOnce(u) => TimedOnce(u)')
    BY <1>2, SameTimers
  <2>5. Unique(u)'
    BY <2>1, <2>2, <2>3, <2>4 DEF Unique
  <2>6. SameRecord(u)
    BY <1>2 DEF SameRecord
  <2>7. u # m.task => Untouched(u)
    BY <1>2, <2>2, <2>3, <2>4, <2>6 DEF Untouched, Live
  <2>8. Done(u) => Held(u)
    BY DoneIsHeld
  <2>9. u = m.task => Moves(u)
    BY <2>1, <2>2, <2>3, <2>6, <2>8 DEF Moves, Live, Unique
  <2> QED BY <2>5, <2>7, <2>9
<1> QED BY <1>1, <1>5 DEF TaskStep, IsStepped

LEMMA DequeueFailsStep ==
    ASSUME TypeOK, Tidy, NEW w \in Loops, DequeueFails(w)
    PROVE  (\A u \in Tasks : Unique(u)') /\ TaskStep
<1> DEFINE m == Head(queue)
<1>1. m \in Msg /\ m.task \in Tasks
  BY HeadOfQueue, MsgFields DEF DequeueFails
<1>2. /\ queue # <<>> /\ queue' = Tail(queue) /\ NextRound(w)
      /\ lost' = lost \cup {m.task}
      /\ UNCHANGED <<status, timers, origin, applied, excused>>
  BY DEF DequeueFails
<1>3. \A u : ~Holds(loop[w], u)
  BY RestHoldsNothing DEF DequeueFails
<1>4. Faulted'
  BY FaultedByBlip DEF DequeueFails
<1> HIDE DEF m
<1>5. ASSUME NEW u \in Tasks
      PROVE  Unique(u)' /\ (u # m.task => Untouched(u)) /\ (u = m.task => IsLost(u))
  <2>1. Unique(u)
    BY DEF Tidy
  <2>2. /\ Queued(u) <=> Queued(u)' \/ u = m.task
        /\ QueuedOnce(u) => QueuedOnce(u)'
        /\ QueuedOnce(u) /\ u = m.task => ~Queued(u)'
    BY <1>2, Pop DEF m
  <2>3. /\ Held(u)' <=> Held(u)
        /\ Done(u)' <=> Done(u)
        /\ HeldOnce(u)'
    BY <1>2, <1>3, <2>1, Drop DEF Unique
  <2>4. (Timed(u)' <=> Timed(u)) /\ (TimedOnce(u) => TimedOnce(u)')
    BY <1>2, SameTimers
  <2>5. Unique(u)'
    BY <2>1, <2>2, <2>3, <2>4 DEF Unique
  <2>6. u # m.task => Untouched(u)
    BY <1>2, <2>2, <2>3, <2>4 DEF Untouched, SameRecord, Live
  <2>7. u = m.task => IsLost(u)
    BY <1>2, <1>4, <2>1, <2>2, <2>3, <2>4 DEF IsLost, Live, Unique
  <2> QED BY <2>5, <2>6, <2>7
<1> QED BY <1>1, <1>5 DEF TaskStep, IsStepped

LEMMA PollTimeoutStep ==
    ASSUME TypeOK, Tidy, NEW w \in Loops, PollTimeout(w)
    PROVE  (\A u \in Tasks : Unique(u)') /\ TaskStep
<1>1. NextRound(w) /\ UNCHANGED <<queue, status, timers, origin, applied, excused, lost>>
  BY DEF PollTimeout, redis, faults
<1>2. \A u : ~Holds(loop[w], u)
  BY RestHoldsNothing DEF PollTimeout
<1>3. ASSUME NEW u \in Tasks PROVE Unique(u)' /\ Untouched(u)
  <2>1. Unique(u)
    BY DEF Tidy
  <2>2. (Held(u)' <=> Held(u)) /\ (Done(u)' <=> Done(u)) /\ HeldOnce(u)'
    BY <1>1, <1>2, <2>1, Drop DEF Unique
  <2>3. /\ Queued(u)' <=> Queued(u)
        /\ QueuedOnce(u) => QueuedOnce(u)'
        /\ Timed(u)' <=> Timed(u)
        /\ TimedOnce(u) => TimedOnce(u)'
    BY <1>1, SameQueue, SameTimers
  <2> QED BY <1>1, <2>1, <2>2, <2>3 DEF Unique, Untouched, SameRecord, Live
<1> QED BY <1>3 DEF TaskStep

\* A loop that goes on with its message disturbs no other task.
LEMMA GoOnStep ==
    ASSUME TypeOK, Tidy, NEW w \in Loops, loop[w].at \in Busy, NEW at \in Busy, Goto(w, at),
           UNCHANGED <<queue, timers>>, NEW u \in Tasks
    PROVE  /\ Unique(u)'
           /\ Live(u)' <=> Live(u)
           /\ u # loop[w].msg.task => (Done(u)' <=> Done(u))
           /\ u = loop[w].msg.task => /\ Live(u)
                                      /\ Done(u) <=> loop[w].at = "completed"
                                      /\ Done(u)' <=> at = "completed"
<1>1. Unique(u)
  BY DEF Tidy
<1>2. Holds(loop[w], u) <=> u = loop[w].msg.task
  BY DEF Holds
<1>3. /\ Holds(loop[w], u) => Held(u)
      /\ Held(u)' <=> Held(u)
      /\ Done(u)' <=> IF Holds(loop[w], u) THEN at = "completed" ELSE Done(u)
      /\ Holds(loop[w], u) => (Done(u) <=> loop[w].at = "completed")
      /\ HeldOnce(u)'
  BY <1>1, GoOn DEF Unique
<1>4. /\ Queued(u)' <=> Queued(u)
      /\ QueuedOnce(u) => QueuedOnce(u)'
      /\ Timed(u)' <=> Timed(u)
      /\ TimedOnce(u) => TimedOnce(u)'
  BY SameQueue, SameTimers
<1>5. Unique(u)'
  BY <1>1, <1>3, <1>4 DEF Unique
<1>6. Live(u)' <=> Live(u)
  BY <1>3, <1>4 DEF Live
<1> QED BY <1>2, <1>3, <1>5, <1>6 DEF Live

\* A loop that drops its message ends the only copy of its task.
LEMMA DropStep ==
    ASSUME TypeOK, Tidy, NEW w \in Loops, loop[w].at \in Busy, NextRound(w),
           UNCHANGED <<queue, timers>>, NEW u \in Tasks
    PROVE  /\ Unique(u)'
           /\ u # loop[w].msg.task => (Live(u)' <=> Live(u)) /\ (Done(u)' <=> Done(u))
           /\ u = loop[w].msg.task => /\ Live(u)
                                      /\ Done(u) <=> loop[w].at = "completed"
                                      /\ ~Live(u)'
<1>1. Unique(u)
  BY DEF Tidy
<1>2. Holds(loop[w], u) <=> u = loop[w].msg.task
  BY DEF Holds
<1>3. /\ Holds(loop[w], u) => Held(u)
      /\ Held(u)' <=> Held(u) /\ ~Holds(loop[w], u)
      /\ Done(u)' <=> Done(u) /\ ~Holds(loop[w], u)
      /\ Holds(loop[w], u) => (Done(u) <=> loop[w].at = "completed")
      /\ HeldOnce(u)'
  BY <1>1, Drop DEF Unique
<1>4. /\ Queued(u)' <=> Queued(u)
      /\ QueuedOnce(u) => QueuedOnce(u)'
      /\ Timed(u)' <=> Timed(u)
      /\ TimedOnce(u) => TimedOnce(u)'
  BY SameQueue, SameTimers
<1>5. Unique(u)'
  BY <1>1, <1>3, <1>4 DEF Unique
<1>6. u # loop[w].msg.task => (Live(u)' <=> Live(u)) /\ (Done(u)' <=> Done(u))
  BY <1>2, <1>3, <1>4 DEF Live
<1>7. u = loop[w].msg.task => Live(u) /\ (Done(u) <=> loop[w].at = "completed") /\ ~Live(u)'
  BY <1>1, <1>2, <1>3, <1>4 DEF Live, Unique
<1> QED BY <1>5, <1>6, <1>7

LEMMA ExecuteStep ==
    ASSUME TypeOK, Tidy, NEW w \in Loops, Execute(w)
    PROVE  (\A u \in Tasks : Unique(u)') /\ TaskStep
<1>1. loop[w].at \in Busy /\ loop[w].at = "executing"
  BY BusyStates DEF Execute
<1>2. PICK t \in Tasks : t = loop[w].msg.task
  BY <1>1, BusyHolds
<1>3. UNCHANGED <<queue, status, timers, origin, excused, lost>>
  BY DEF Execute, redis, faults
<1>4. PICK at \in {"completed", "failed", "raised"} :
          /\ Goto(w, at)
          /\ applied' = IF at = "completed" THEN [applied EXCEPT ![t] = @ + 1] ELSE applied
  BY <1>2 DEF Execute
<1>5. at \in Busy
  BY BusyStates
<1>6. /\ \A u \in Tasks \ {t} : applied'[u] = applied[u]
      /\ applied'[t] = IF at = "completed" THEN applied[t] + 1 ELSE applied[t]
  BY <1>2, <1>4 DEF TypeOK
<1>7. ASSUME NEW u \in Tasks
      PROVE  /\ Unique(u)'
             /\ Live(u)' <=> Live(u)
             /\ u # t => (Done(u)' <=> Done(u))
             /\ u = t => Live(u) /\ ~Done(u) /\ (Done(u)' <=> at = "completed")
  BY <1>1, <1>2, <1>3, <1>4, <1>5, GoOnStep
<1>8. \A u \in Tasks \ {t} : Untouched(u)
  BY <1>3, <1>6, <1>7 DEF Untouched, SameRecord
<1>9. IF at = "completed" THEN TakesEffect(t) ELSE Moves(t)
  BY <1>2, <1>3, <1>6, <1>7 DEF TakesEffect, Moves, SameRecord
<1> QED BY <1>2, <1>7, <1>8, <1>9 DEF TaskStep, IsStepped

LEMMA UnknownStep ==
    ASSUME TypeOK, Tidy, NEW w \in Loops, Unknown(w)
    PROVE  (\A u \in Tasks : Unique(u)') /\ TaskStep
<1>1. loop[w].at \in Busy /\ loop[w].at = "executing" /\ loop[w].msg.task \notin Registered
  BY BusyStates DEF Unknown
<1>2. PICK m \in Msg, t \in Tasks : m = loop[w].msg /\ m.task = t
  BY <1>1, BusyHolds
<1>3. NextRound(w) /\ UNCHANGED <<queue, timers, origin, applied, excused>>
  BY DEF Unknown
<1>4. m = First(t)
  BY <1>1, <1>2 DEF Tidy, Known, First, Msg
<1>5. /\ m.task = t
      /\ \/ status' = [status EXCEPT ![m] = "failed"] /\ UNCHANGED lost
         \/ Blip /\ UNCHANGED stops /\ lost' = lost \cup {t} /\ UNCHANGED status
  BY <1>2 DEF Unknown
<1>6. ASSUME NEW u \in Tasks
      PROVE  /\ Unique(u)'
             /\ u # t => (Live(u)' <=> Live(u)) /\ (Done(u)' <=> Done(u))
             /\ u = t => Live(u) /\ ~Done(u) /\ ~Live(u)'
  BY <1>1, <1>2, <1>3, DropStep
<1>7. \A u \in Tasks \ {t} : Untouched(u)
  <2>1. \A u \in Tasks \ {t} : \A n \in Msg : n.task = u => status'[n] = status[n]
    BY <1>2, <1>5, Recorded, OthersUnrecorded
  <2>2. \A u \in Tasks \ {t} : u \in lost' <=> u \in lost
    BY <1>5
  <2> QED BY <1>3, <1>6, <2>1, <2>2 DEF Untouched, SameRecord
<1>8. GivesUp(t) \/ IsLost(t)
  <2>1. CASE status' = [status EXCEPT ![m] = "failed"] /\ UNCHANGED lost
    <3>1. status'[First(t)] = "failed"
      BY <1>2, <1>4, <2>1, Recorded
    <3> QED BY <1>1, <1>2, <1>3, <1>6, <2>1, <3>1 DEF GivesUp, SameRecord, GivenUp
  <2>2. CASE Blip /\ UNCHANGED stops /\ lost' = lost \cup {t} /\ UNCHANGED status
    BY <1>2, <1>3, <1>6, <2>2, FaultedByBlip DEF IsLost
  <2> QED BY <1>5, <2>1, <2>2
<1> QED BY <1>2, <1>6, <1>7, <1>8 DEF TaskStep, IsStepped

LEMMA MarkCompletedStep ==
    ASSUME TypeOK, Tidy, NEW w \in Loops, MarkCompleted(w)
    PROVE  (\A u \in Tasks : Unique(u)') /\ TaskStep
<1>1. loop[w].at \in Busy /\ loop[w].at = "completed"
  BY BusyStates DEF MarkCompleted
<1>2. PICK m \in Msg, t \in Tasks : m = loop[w].msg /\ m.task = t
  BY <1>1, BusyHolds
<1>3. /\ NextRound(w) /\ UNCHANGED <<queue, timers, origin, applied, excused, lost>>
      /\ status' = [status EXCEPT ![m] = "completed"]
  BY <1>2 DEF MarkCompleted, faults
<1>4. ASSUME NEW u \in Tasks
      PROVE  /\ Unique(u)'
             /\ u # t => (Live(u)' <=> Live(u)) /\ (Done(u)' <=> Done(u))
             /\ u = t => Live(u) /\ Done(u) /\ ~Live(u)'
  BY <1>1, <1>2, <1>3, DropStep
<1>5. \A u \in Tasks \ {t} : \A n \in Msg : n.task = u => status'[n] = status[n]
  BY <1>2, <1>3, Recorded, OthersUnrecorded
<1>6. \A u \in Tasks \ {t} : Untouched(u)
  BY <1>3, <1>4, <1>5 DEF Untouched, SameRecord
<1>7. Finishes(t)
  BY <1>2, <1>3, <1>4, Recorded DEF Finishes, SameRecord
<1> QED BY <1>2, <1>4, <1>6, <1>7 DEF TaskStep, IsStepped

LEMMA MarkFailedStep ==
    ASSUME TypeOK, Tidy, NEW w \in Loops, MarkFailed(w)
    PROVE  (\A u \in Tasks : Unique(u)') /\ TaskStep
<1>1. loop[w].at \in Busy /\ loop[w].at \in {"failed", "raised"}
  BY BusyStates DEF MarkFailed
<1>2. PICK m \in Msg, t \in Tasks : m = loop[w].msg /\ m.task = t
  BY <1>1, BusyHolds
<1>3. /\ NextRound(w) /\ UNCHANGED <<queue, origin, applied, excused, lost>>
      /\ status' = [status EXCEPT ![m] = "failed"]
      /\ timers' = IF HasRetry(m) THEN timers \cup {Retry(m)} ELSE timers
  BY <1>2 DEF MarkFailed, ScheduleRetry, faults
<1>4. t \in Registered
  BY <1>1, <1>2 DEF Tidy, Known
<1>5. \A u : Holds(loop[w], u) <=> u = t
  BY <1>1, <1>2 DEF Holds
<1>6. loop[w].at # "completed"
  BY <1>1
<1>7. HasRetry(m) \/ m.attempt = MaxAttempts
  BY <1>1, <1>2, BusyHolds, BoundAssumption DEF HasRetry
<1>8. \A u \in Tasks \ {t} : \A n \in Msg : n.task = u => status'[n] = status[n]
  BY <1>2, <1>3, Recorded, OthersUnrecorded
<1>9. CASE HasRetry(m)
  <2>1. Retry(m) \in Msg /\ Retry(m).task = t
    BY <1>2, <1>9, RetryIsMsg
  <2>2. ASSUME NEW u \in Tasks
        PROVE  Unique(u)' /\ (u # t => Untouched(u)) /\ (u = t => Moves(u))
    <3>1. Unique(u)
      BY DEF Tidy
    <3>2. /\ Holds(loop[w], u) => Held(u)
          /\ Held(u)' <=> Held(u) /\ u # t
          /\ Done(u)' <=> Done(u) /\ u # t
          /\ u = t => Held(u) /\ ~Done(u)
          /\ HeldOnce(u)'
      BY <1>3, <1>5, <1>6, <3>1, Drop DEF Unique
    <3>3. /\ Timed(u)' <=> Timed(u) \/ u = t
          /\ (u = t => ~Timed(u)) => TimedOnce(u)'
      BY <1>3, <1>9, <2>1, <3>1, SetTimer DEF Unique
    <3>4. (Queued(u)' <=> Queued(u)) /\ (QueuedOnce(u) => QueuedOnce(u)')
      BY <1>3, SameQueue
    <3>5. Unique(u)'
      BY <3>1, <3>2, <3>3, <3>4 DEF Unique
    <3>6. u # t => Untouched(u)
      BY <1>3, <1>8, <3>2, <3>3, <3>4 DEF Untouched, SameRecord, Live
    <3>7. u = t => Moves(u)
      BY <1>3, <3>2, <3>3, <3>4 DEF Moves, SameRecord, Live
    <3> QED BY <3>5, <3>6, <3>7
  <2> QED BY <1>2, <2>2 DEF TaskStep, IsStepped
<1>10. CASE ~HasRetry(m)
  <2>1. UNCHANGED timers
    BY <1>3, <1>10
  <2>2. ASSUME NEW u \in Tasks
        PROVE  /\ Unique(u)'
               /\ u # t => (Live(u)' <=> Live(u)) /\ (Done(u)' <=> Done(u))
               /\ u = t => Live(u) /\ ~Done(u) /\ ~Live(u)'
    BY <1>1, <1>2, <1>3, <1>6, <2>1, DropStep
  <2>3. \A u \in Tasks \ {t} : Untouched(u)
    BY <1>3, <1>8, <2>2 DEF Untouched, SameRecord
  <2>4. m = [task |-> t, attempt |-> MaxAttempts]
    BY <1>2, <1>7, <1>10 DEF Msg
  <2>5. status'[m] = "failed"
    BY <1>2, <1>3, Recorded
  <2>6. GivenUp(t)'
    BY <1>4, <2>4, <2>5 DEF GivenUp
  <2>7. GivesUp(t)
    BY <1>2, <1>3, <2>2, <2>6 DEF GivesUp, SameRecord
  <2> QED BY <1>2, <2>2, <2>3, <2>7 DEF TaskStep, IsStepped
<1> QED BY <1>9, <1>10

LEMMA MarkRaisesStep ==
    ASSUME TypeOK, Tidy, NEW w \in Loops, MarkRaises(w)
    PROVE  (\A u \in Tasks : Unique(u)') /\ TaskStep
<1>1. loop[w].at \in Busy /\ loop[w].at \in {"completed", "failed"} /\ "raised" \in Busy
  BY BusyStates DEF MarkRaises
<1>2. PICK m \in Msg, t \in Tasks : m = loop[w].msg /\ m.task = t
  BY <1>1, BusyHolds
<1>3. /\ Goto(w, "raised")
      /\ UNCHANGED <<queue, timers, origin, applied, lost>>
      /\ MaybeRecorded(m, loop[w].at)
      /\ excused' = IF loop[w].at = "completed" THEN [excused EXCEPT ![t] = @ + 1] ELSE excused
  BY <1>2 DEF MarkRaises
<1>4. Faulted'
  BY FaultedByBlip DEF MarkRaises
<1>5. ASSUME NEW u \in Tasks
      PROVE  /\ Unique(u)'
             /\ Live(u)' <=> Live(u)
             /\ u # t => (Done(u)' <=> Done(u))
             /\ u = t => Live(u) /\ (Done(u) <=> loop[w].at = "completed") /\ ~Done(u)'
  BY <1>1, <1>2, <1>3, GoOnStep
<1>6. \A u \in Tasks \ {t} : \A n \in Msg : n.task = u => status'[n] = status[n]
  BY <1>2, <1>3, OthersUnrecorded
<1>7. /\ \A u \in Tasks \ {t} : excused'[u] = excused[u]
      /\ excused'[t] = IF loop[w].at = "completed" THEN excused[t] + 1 ELSE excused[t]
  BY <1>2, <1>3 DEF TypeOK
<1>8. \A u \in Tasks \ {t} : Untouched(u)
  BY <1>3, <1>5, <1>6, <1>7 DEF Untouched, SameRecord
<1>9. IF loop[w].at = "completed" THEN IsDoubted(t) ELSE Moves(t)
  BY <1>2, <1>3, <1>4, <1>5, <1>7 DEF IsDoubted, Moves, SameRecord
<1> QED BY <1>2, <1>5, <1>8, <1>9 DEF TaskStep, IsStepped

LEMMA MarkFailedRaisesStep ==
    ASSUME TypeOK, Tidy, NEW w \in Loops, MarkFailedRaises(w)
    PROVE  (\A u \in Tasks : Unique(u)') /\ TaskStep
<1>1. loop[w].at \in Busy
  BY BusyStates DEF MarkFailedRaises
<1>2. PICK m \in Msg, t \in Tasks : m = loop[w].msg /\ m.task = t
  BY <1>1, BusyHolds
<1>3. /\ NextRound(w)
      /\ UNCHANGED <<queue, timers, origin, applied, excused>>
      /\ lost' = lost \cup {t}
      /\ MaybeRecorded(m, "failed")
  BY <1>2 DEF MarkFailedRaises
<1>4. Faulted'
  BY FaultedByBlip DEF MarkFailedRaises
<1>5. ASSUME NEW u \in Tasks
      PROVE  /\ Unique(u)'
             /\ u # t => (Live(u)' <=> Live(u)) /\ (Done(u)' <=> Done(u))
             /\ u = t => Live(u) /\ ~Live(u)'
  BY <1>1, <1>2, <1>3, DropStep
<1>6. \A u \in Tasks \ {t} : \A n \in Msg : n.task = u => status'[n] = status[n]
  BY <1>2, <1>3, OthersUnrecorded
<1>7. \A u \in Tasks \ {t} : Untouched(u)
  BY <1>3, <1>5, <1>6 DEF Untouched, SameRecord
<1>8. IsLost(t)
  BY <1>2, <1>3, <1>4, <1>5 DEF IsLost
<1> QED BY <1>2, <1>5, <1>7, <1>8 DEF TaskStep, IsStepped

\* A timer that fires pushes its copy, or loses it.
LEMMA TimerPushes ==
    ASSUME TypeOK, Tidy, NEW m \in timers, timers' = timers \ {m},
           queue' = Append(queue, m), UNCHANGED <<status, loop, origin, applied, excused, lost>>
    PROVE  (\A u \in Tasks : Unique(u)') /\ TaskStep
<1>1. m \in Msg /\ m.task \in Tasks
  BY MsgFields DEF TypeOK
<1>2. ASSUME NEW u \in Tasks
      PROVE  Unique(u)' /\ (u # m.task => Untouched(u)) /\ (u = m.task => Moves(u))
  <2>1. Unique(u)
    BY DEF Tidy
  <2>2. /\ Timed(u) <=> Timed(u)' \/ u = m.task
        /\ TimedOnce(u)'
        /\ u = m.task => ~Timed(u)'
    BY <2>1, FireTimer DEF Unique
  <2>3. /\ Queued(u)' <=> Queued(u) \/ u = m.task
        /\ (u = m.task => ~Queued(u)) => QueuedOnce(u)'
    BY <1>1, <2>1, Push DEF Unique
  <2>4. /\ Held(u)' <=> Held(u)
        /\ Done(u)' <=> Done(u)
        /\ HeldOnce(u) => HeldOnce(u)'
        /\ Done(u) => Held(u)
    BY SameLoops, DoneIsHeld
  <2>5. Unique(u)'
    BY <2>1, <2>2, <2>3, <2>4 DEF Unique
  <2>6. u # m.task => Untouched(u)
    BY <2>2, <2>3, <2>4 DEF Untouched, SameRecord, Live
  <2>7. u = m.task => Moves(u)
    BY <2>1, <2>2, <2>3, <2>4 DEF Moves, SameRecord, Live, Unique
  <2> QED BY <2>5, <2>6, <2>7
<1> QED BY <1>1, <1>2 DEF TaskStep, IsStepped

LEMMA TimerLoses ==
    ASSUME TypeOK, Tidy, NEW m \in timers, timers' = timers \ {m}, lost' = lost \cup {m.task},
           UNCHANGED <<queue, status, loop, origin, applied, excused>>, Faulted'
    PROVE  (\A u \in Tasks : Unique(u)') /\ TaskStep
<1>1. m \in Msg /\ m.task \in Tasks
  BY MsgFields DEF TypeOK
<1>2. ASSUME NEW u \in Tasks
      PROVE  Unique(u)' /\ (u # m.task => Untouched(u)) /\ (u = m.task => IsLost(u))
  <2>1. Unique(u)
    BY DEF Tidy
  <2>2. /\ Timed(u) <=> Timed(u)' \/ u = m.task
        /\ TimedOnce(u)'
        /\ u = m.task => ~Timed(u)'
    BY <2>1, FireTimer DEF Unique
  <2>3. (Queued(u)' <=> Queued(u)) /\ (QueuedOnce(u) => QueuedOnce(u)')
    BY SameQueue
  <2>4. (Held(u)' <=> Held(u)) /\ (Done(u)' <=> Done(u)) /\ (HeldOnce(u) => HeldOnce(u)')
    BY SameLoops
  <2>5. Unique(u)'
    BY <2>1, <2>2, <2>3, <2>4 DEF Unique
  <2>6. u # m.task => Untouched(u)
    BY <2>2, <2>3, <2>4 DEF Untouched, SameRecord, Live
  <2>7. u = m.task => IsLost(u)
    BY <2>1, <2>2, <2>3, <2>4 DEF IsLost, Live, Unique
  <2> QED BY <2>5, <2>6, <2>7
<1> QED BY <1>1, <1>2 DEF TaskStep, IsStepped

LEMMA TimerStep ==
    ASSUME TypeOK, Tidy, NEW m \in Msg, Requeue(m) \/ RequeueFails(m)
    PROVE  (\A u \in Tasks : Unique(u)') /\ TaskStep
<1>1. /\ m \in timers /\ timers' = timers \ {m}
      /\ UNCHANGED <<status, loop, origin, applied, excused>>
  BY DEF Requeue, RequeueFails
<1>2. \/ queue' = Append(queue, m) /\ UNCHANGED lost
      \/ lost' = lost \cup {m.task} /\ UNCHANGED queue /\ Faulted'
  <2>1. CASE Requeue(m)
    <3>1. proc = "running" \/ Faulted'
      BY <2>1, BoundAssumption DEF Requeue, Tidy, Faulted, TypeOK
    <3> QED BY <2>1, <3>1 DEF Requeue
  <2>2. CASE RequeueFails(m)
    BY <2>2, FaultedByBlip DEF RequeueFails
  <2> QED BY <2>1, <2>2
<1> QED BY <1>1, <1>2, TimerPushes, TimerLoses

\* The end of the process takes the copies in its memory with it.
LEMMA DownStep ==
    ASSUME TypeOK, Tidy, DownNow, UNCHANGED queue, NEW u \in Tasks
    PROVE  /\ Unique(u)'
           /\ Live(u)' <=> Queued(u)
           /\ ~Done(u)'
<1>1. ~Held(u)' /\ ~Done(u)' /\ HeldOnce(u)' /\ ~Timed(u)' /\ TimedOnce(u)'
  BY Down
<1>2. Queued(u)' <=> Queued(u)
  BY SameQueue
<1>3. QueuedOnce(u)'
  BY SameQueue DEF Tidy, Unique
<1> QED BY <1>1, <1>2, <1>3 DEF Unique, Live

LEMMA MemoryIs ==
    ASSUME NEW u
    PROVE  /\ u \in TimedTasks <=> Timed(u)
           /\ u \in HeldBy(Loops) <=> Held(u)
BY DEF TimedTasks, Timed, HeldBy, Held, Holds

LEMMA ExitStep ==
    ASSUME TypeOK, Tidy, Exit
    PROVE  (\A u \in Tasks : Unique(u)') /\ TaskStep
<1>1. DownNow /\ UNCHANGED <<queue, status, origin, applied, excused, blips, stops>>
  BY DEF Exit, redis
<1>2. lost' = lost \cup TimedTasks
  BY DEF Exit
<1>3. Faulted'
  BY <1>1, BoundAssumption DEF Exit, Tidy, Faulted, TypeOK
<1>4. \A u : ~Held(u) /\ ~Done(u)
  BY RestHoldsNothing, DoneIsHeld DEF Exit, Held
<1>5. ASSUME NEW u \in Tasks PROVE Unique(u)' /\ (Untouched(u) \/ IsLost(u))
  <2>1. Unique(u)' /\ (Live(u)' <=> Queued(u)) /\ ~Done(u)'
    BY <1>1, DownStep
  <2>2. Live(u) <=> Queued(u) \/ Timed(u)
    BY <1>4 DEF Live
  <2>3. Unique(u)
    BY DEF Tidy
  <2>4. CASE Timed(u)
    <3>1. u \in lost' /\ ~Queued(u)
      BY <1>2, <2>3, <2>4, MemoryIs DEF Unique
    <3>2. IsLost(u)
      BY <1>1, <1>3, <2>1, <2>2, <2>4, <3>1 DEF IsLost
    <3> QED BY <2>1, <3>2
  <2>5. CASE ~Timed(u)
    <3>1. u \in lost' <=> u \in lost
      BY <1>2, <2>5, MemoryIs
    <3>2. Untouched(u)
      BY <1>1, <1>4, <2>1, <2>2, <2>5, <3>1 DEF Untouched, SameRecord
    <3> QED BY <2>1, <3>2
  <2> QED BY <2>4, <2>5
<1> QED BY <1>5 DEF TaskStep

LEMMA CrashStep ==
    ASSUME TypeOK, Tidy, Crash
    PROVE  (\A u \in Tasks : Unique(u)') /\ TaskStep
<1>1. DownNow /\ UNCHANGED <<queue, status, origin, excused, blips>> /\ stops' = stops + 1
  BY DEF Crash, redis
<1>2. lost' = lost \cup TimedTasks \cup HeldBy(Loops)
  BY DEF Crash
<1>3. Faulted'
  BY <1>1, BoundAssumption DEF Faulted, TypeOK
<1>4. PICK hit \in SUBSET {w \in Loops : loop[w].at = "executing" /\ loop[w].msg.task \in Registered} :
          applied' = [t \in Tasks |-> IF t \in HeldBy(hit) THEN applied[t] + 1 ELSE applied[t]]
  BY DEF Crash
<1>5. ASSUME NEW u \in Tasks
      PROVE  Unique(u)' /\ (Untouched(u) \/ IsLost(u) \/ IsKilled(u))
  <2>1. Unique(u)' /\ (Live(u)' <=> Queued(u)) /\ ~Done(u)'
    BY <1>1, DownStep
  <2>2. Unique(u)
    BY DEF Tidy
  <2>3. applied'[u] = IF u \in HeldBy(hit) THEN applied[u] + 1 ELSE applied[u]
    BY <1>4
  <2>4. u \in HeldBy(hit) => Held(u) /\ ~Done(u)
    <3> SUFFICES ASSUME u \in HeldBy(hit) PROVE Held(u) /\ ~Done(u)
      OBVIOUS
    <3>1. PICK w \in hit : loop[w].at \in Busy /\ loop[w].msg.task = u
      BY DEF HeldBy
    <3>2. w \in Loops /\ Holds(loop[w], u) /\ loop[w].at = "executing"
      BY <3>1 DEF Holds
    <3> QED BY <2>2, <3>2 DEF Held, Done, Unique, HeldOnce
  <2>5. CASE Held(u) \/ Timed(u)
    <3>1. Live(u) /\ ~Queued(u) /\ u \in lost'
      BY <1>2, <2>2, <2>5, MemoryIs DEF Unique, Live
    <3>2. CASE u \in HeldBy(hit)
      <4>1. IsKilled(u)
        BY <1>1, <1>3, <2>1, <2>3, <2>4, <3>1, <3>2 DEF IsKilled
      <4> QED BY <2>1, <4>1
    <3>3. CASE u \notin HeldBy(hit)
      <4>1. IsLost(u)
        BY <1>1, <1>3, <2>1, <2>3, <3>1, <3>3 DEF IsLost
      <4> QED BY <2>1, <4>1
    <3> QED BY <3>2, <3>3
  <2>6. CASE ~Held(u) /\ ~Timed(u)
    <3>1. /\ u \in lost' <=> u \in lost
          /\ Live(u) <=> Queued(u)
          /\ ~Done(u)
      BY <1>2, <2>6, MemoryIs, DoneIsHeld DEF Live
    <3>2. Untouched(u)
      BY <1>1, <2>1, <2>3, <2>4, <2>6, <3>1 DEF Untouched, SameRecord
    <3> QED BY <2>1, <3>2
  <2> QED BY <2>5, <2>6
<1> QED BY <1>5 DEF TaskStep

LEMMA StartStep ==
    ASSUME TypeOK, Tidy, Start \/ Shutdown \/ UNCHANGED vars
    PROVE  (\A u \in Tasks : Unique(u)') /\ TaskStep
<1>1. UNCHANGED <<queue, status, timers, origin, applied, excused, lost>>
  BY DEF Start, Shutdown, vars, redis, faults
<1>2. ASSUME NEW u \in Tasks
      PROVE  (Held(u)' <=> Held(u)) /\ (Done(u)' <=> Done(u)) /\ (HeldOnce(u) => HeldOnce(u)')
  <2>1. CASE UNCHANGED loop
    BY <2>1, SameLoops
  <2>2. CASE Start
    <3>1. \A w \in Loops : loop[w] = Stopped /\ loop'[w] = Polling
      BY <2>2 DEF Start, Tidy
    <3>2. ~Held(u) /\ ~Done(u)
      BY <3>1, RestHoldsNothing DEF Held, Done
    <3>3. ~Held(u)' /\ ~Done(u)' /\ HeldOnce(u)'
      BY <3>1, RestHoldsNothing DEF Held, Done, HeldOnce
    <3> QED BY <3>2, <3>3
  <2> QED BY <2>1, <2>2 DEF Shutdown, vars
<1>3. ASSUME NEW u \in Tasks PROVE Unique(u)' /\ Untouched(u)
  <2>1. Unique(u)
    BY DEF Tidy
  <2>2. /\ Queued(u)' <=> Queued(u)
        /\ QueuedOnce(u) => QueuedOnce(u)'
        /\ Timed(u)' <=> Timed(u)
        /\ TimedOnce(u) => TimedOnce(u)'
    BY <1>1, SameQueue, SameTimers
  <2> QED BY <1>1, <1>2, <2>1, <2>2 DEF Unique, Untouched, SameRecord, Live
<1> QED BY <1>3 DEF TaskStep

LEMMA NextStep ==
    ASSUME TypeOK, Tidy, [Next]_vars
    PROVE  (\A u \in Tasks : Unique(u)') /\ TaskStep
<1>1. CASE \E t \in Tasks : Submit(t) \/ SubmitFails(t) \/ RunInline(t)
  BY <1>1, SubmitStep, SubmitFailsStep, RunInlineStep
<1>2. CASE \E w \in Loops : LoopStep(w)
  <2>1. PICK w \in Loops : LoopStep(w)
    BY <1>2
  <2> QED BY <2>1, DequeueStep, DequeueFailsStep, PollTimeoutStep, ExecuteStep, UnknownStep,
             MarkCompletedStep, MarkFailedStep, MarkRaisesStep, MarkFailedRaisesStep DEF LoopStep
<1>3. CASE \E m \in Msg : Requeue(m) \/ RequeueFails(m)
  BY <1>3, TimerStep
<1>4. CASE Shutdown \/ Exit \/ Crash \/ Start \/ UNCHANGED vars
  BY <1>4, ExitStep, CrashStep, StartStep
<1> QED BY <1>1, <1>2, <1>3, <1>4 DEF Next

-------------------------------------------------------------------------------
(***************************************************************************)
(* Tidy is inductive.                                                      *)
(***************************************************************************)
LEMMA KnownKept ==
    ASSUME Known, UNCHANGED <<queue, loop, timers>>
    PROVE  Known'
BY DEF Known

LEMMA KnownPushed ==
    ASSUME TypeOK, Known, NEW m \in Msg, m.task \notin Registered => m.attempt = 1,
           queue' = Append(queue, m), UNCHANGED loop, timers' \subseteq timers
    PROVE  Known'
<1> DEFINE n == Len(queue)
<1>1. /\ n \in Nat
      /\ DOMAIN queue = 1..n
      /\ DOMAIN queue' = 1..(n + 1)
      /\ \A i \in 1..n : queue'[i] = queue[i]
      /\ queue'[n + 1] = m
  BY EndOfQueue
<1> HIDE DEF n
<1>2. \A i \in 1..(n + 1) : i \in 1..n \/ i = n + 1
  BY <1>1
<1>3. \A i \in DOMAIN queue' : queue'[i].task \notin Registered => queue'[i].attempt = 1
  BY <1>1, <1>2 DEF Known
<1> QED BY <1>3 DEF Known

LEMMA KnownPopped ==
    ASSUME TypeOK, Known, queue # <<>>
    PROVE  /\ Head(queue).task \notin Registered => Head(queue).attempt = 1
           /\ \A i \in DOMAIN Tail(queue) :
                  Tail(queue)[i].task \notin Registered => Tail(queue)[i].attempt = 1
<1> DEFINE n == Len(queue)
<1>1. /\ n \in Nat \ {0}
      /\ DOMAIN queue = 1..n
      /\ DOMAIN Tail(queue) = 1..(n - 1)
      /\ \A i \in 1..(n - 1) : Tail(queue)[i] = queue[i + 1]
      /\ Head(queue) = queue[1]
  BY HeadOfQueue
<1> HIDE DEF n
<1>2. 1 \in 1..n /\ \A i \in 1..(n - 1) : i + 1 \in 1..n
  BY <1>1
<1>3. \A i \in 1..n : queue[i].task \notin Registered => queue[i].attempt = 1
  BY <1>1 DEF Known
<1> QED BY <1>1, <1>2, <1>3

\* What a loop may come to hold.
LEMMA KnownTurn ==
    ASSUME TypeOK, Known, NEW w \in Loops, NEW state, loop' = [loop EXCEPT ![w] = state],
           state.at \in Busy /\ state.msg.task \notin Registered =>
               state.at = "executing" /\ state.msg.attempt = 1
    PROVE  \A v \in Loops : loop'[v].at \in Busy /\ loop'[v].msg.task \notin Registered =>
               loop'[v].at = "executing" /\ loop'[v].msg.attempt = 1
<1>1. loop'[w] = state /\ \A v \in Loops \ {w} : loop'[v] = loop[v]
  BY DEF TypeOK
<1> QED BY <1>1 DEF Known

LEMMA KnownRest ==
    ASSUME TypeOK, Known, NEW w \in Loops, NextRound(w)
    PROVE  \A v \in Loops : loop'[v].at \in Busy /\ loop'[v].msg.task \notin Registered =>
               loop'[v].at = "executing" /\ loop'[v].msg.attempt = 1
<1>1. PICK state \in {Polling, Stopped} : loop' = [loop EXCEPT ![w] = state]
  BY NextRoundIs
<1>2. state.at \notin Busy
  BY DEF Polling, Stopped, Busy
<1> QED BY <1>1, <1>2, KnownTurn

LEMMA LoopKnown ==
    ASSUME TypeOK, Tidy, NEW w \in Loops, LoopStep(w)
    PROVE  Known'
<1>0. Known
  BY DEF Tidy
<1>1. CASE Dequeue(w)
  <2> DEFINE state == [at |-> "executing", msg |-> Head(queue)]
  <2>1. loop' = [loop EXCEPT ![w] = state] /\ queue # <<>> /\ queue' = Tail(queue) /\ UNCHANGED timers
    BY <1>1 DEF Dequeue
  <2>2. state.at = "executing" /\ (state.msg.task \notin Registered => state.msg.attempt = 1)
    BY <1>0, <2>1, KnownPopped
  <2> HIDE DEF state
  <2>3. \A v \in Loops : loop'[v].at \in Busy /\ loop'[v].msg.task \notin Registered =>
            loop'[v].at = "executing" /\ loop'[v].msg.attempt = 1
    BY <1>0, <2>1, <2>2, KnownTurn
  <2> QED BY <1>0, <2>1, <2>3, KnownPopped DEF Known
<1>2. CASE DequeueFails(w)
  <2>1. queue # <<>> /\ queue' = Tail(queue) /\ UNCHANGED timers /\ NextRound(w)
    BY <1>2 DEF DequeueFails
  <2> QED BY <1>0, <2>1, KnownPopped, KnownRest DEF Known
<1>3. CASE PollTimeout(w)
  BY <1>0, <1>3, KnownRest DEF Known, PollTimeout, redis
<1>4. CASE Execute(w)
  <2>1. loop[w].at \in Busy /\ loop[w].msg.task \in Registered /\ UNCHANGED <<queue, timers>>
    BY <1>4, BusyStates DEF Execute, redis
  <2>2. PICK at \in Busy : Goto(w, at)
    BY <1>4, BusyStates DEF Execute
  <2> DEFINE state == [at |-> at, msg |-> loop[w].msg]
  <2>3. loop' = [loop EXCEPT ![w] = state] /\ state.msg.task \in Registered
    BY <2>1, <2>2, GotoIs
  <2> HIDE DEF state
  <2> QED BY <1>0, <2>1, <2>3, KnownTurn DEF Known
<1>5. CASE Unknown(w)
  BY <1>0, <1>5, KnownRest DEF Known, Unknown
<1>6. CASE MarkCompleted(w)
  BY <1>0, <1>6, KnownRest DEF Known, MarkCompleted
<1>7. CASE MarkFailed(w)
  <2>1. /\ loop[w].at \in Busy /\ loop[w].at # "executing"
        /\ NextRound(w) /\ UNCHANGED queue
        /\ timers' = IF HasRetry(loop[w].msg) THEN timers \cup {Retry(loop[w].msg)} ELSE timers
    BY <1>7, BusyStates DEF MarkFailed, ScheduleRetry
  <2>2. loop[w].msg \in Msg /\ loop[w].msg.task \in Registered
    BY <1>0, <2>1, BusyHolds DEF Known
  <2>3. \A m \in timers' : m.task \in Registered
    BY <1>0, <2>1, <2>2, RetryIsMsg DEF Known
  <2> QED BY <1>0, <2>1, <2>3, KnownRest DEF Known
<1>8. CASE MarkRaises(w)
  <2>1. loop[w].at \in Busy /\ loop[w].at # "executing" /\ "raised" \in Busy /\ UNCHANGED <<queue, timers>>
    BY <1>8, BusyStates DEF MarkRaises
  <2> DEFINE state == [at |-> "raised", msg |-> loop[w].msg]
  <2>2. loop' = [loop EXCEPT ![w] = state] /\ state.msg.task \in Registered
    BY <1>0, <1>8, <2>1, GotoIs DEF MarkRaises, Known
  <2> HIDE DEF state
  <2> QED BY <1>0, <2>1, <2>2, KnownTurn DEF Known
<1>9. CASE MarkFailedRaises(w)
  BY <1>0, <1>9, KnownRest DEF Known, MarkFailedRaises
<1> QED BY <1>1, <1>2, <1>3, <1>4, <1>5, <1>6, <1>7, <1>8, <1>9 DEF LoopStep

LEMMA DownKnown ==
    ASSUME Known, DownNow, UNCHANGED queue
    PROVE  Known'
<1>1. \A w \in Loops : loop'[w] = Stopped /\ timers' = {}
  BY DEF DownNow
<1>2. Stopped.at \notin Busy
  BY DEF Stopped, Busy
<1>3. timers' = {}
  BY DEF DownNow
<1> QED BY <1>1, <1>2, <1>3 DEF Known

LEMMA NextKnown ==
    ASSUME TypeOK, Tidy, [Next]_vars
    PROVE  Known'
<1>0. Known
  BY DEF Tidy
<1>1. CASE UNCHANGED vars
  BY <1>0, <1>1, KnownKept DEF vars
<1>2. ASSUME NEW t \in Tasks, Submit(t) \/ SubmitFails(t) \/ RunInline(t) PROVE Known'
  <2>1. UNCHANGED <<loop, timers>> /\ (UNCHANGED queue \/ queue' = Append(queue, First(t)))
    BY <1>2 DEF Submit, SubmitFails, RunInline, redis
  <2> QED BY <1>0, <2>1, KnownKept, KnownPushed, FirstIsMsg
<1>3. ASSUME NEW m \in Msg, Requeue(m) \/ RequeueFails(m) PROVE Known'
  <2>1. /\ UNCHANGED loop /\ timers' = timers \ {m} /\ m \in timers
        /\ UNCHANGED queue \/ queue' = Append(queue, m)
    BY <1>3 DEF Requeue, RequeueFails
  <2>2. m.task \in Registered
    BY <1>0, <2>1 DEF Known
  <2>3. CASE UNCHANGED queue
    BY <1>0, <2>1, <2>3 DEF Known
  <2>4. CASE queue' = Append(queue, m)
    BY <1>0, <2>1, <2>2, <2>4, KnownPushed
  <2> QED BY <2>1, <2>3, <2>4
<1>4. CASE Exit \/ Crash
  BY <1>0, <1>4, DownKnown DEF Exit, Crash, redis
<1>5. CASE Shutdown
  BY <1>0, <1>5, KnownKept DEF Shutdown, redis
<1>6. CASE Start
  <2>1. \A w \in Loops : loop'[w] = Polling
    BY <1>6 DEF Start
  <2>2. UNCHANGED <<queue, timers>> /\ Polling.at \notin Busy
    BY <1>6 DEF Start, redis, Polling, Busy
  <2> QED BY <1>0, <2>1, <2>2 DEF Known
<1> QED BY <1>1, <1>2, <1>3, <1>4, <1>5, <1>6, LoopKnown DEF Next

\* The process is down only after it dropped everything, and was stopped.
LEMMA NextProcess ==
    ASSUME TypeOK, Tidy, [Next]_vars
    PROVE  /\ proc' = "down" => \A w \in Loops : loop'[w] = Stopped
           /\ proc' # "running" => stops' > 0
<1>1. CASE UNCHANGED vars
  BY <1>1 DEF vars, Tidy
<1>2. CASE \E t \in Tasks : Submit(t) \/ SubmitFails(t) \/ RunInline(t)
  BY <1>2 DEF Tidy, Submit, SubmitFails, RunInline, faults
<1>3. ASSUME NEW w \in Loops, LoopStep(w)
      PROVE  proc' # "down" /\ (proc' # "running" => stops' > 0)
  <2>1. UNCHANGED <<proc, stops>> /\ loop[w].at \in {"polling", "executing", "completed", "failed", "raised"}
    BY <1>3 DEF LoopStep, Dequeue, DequeueFails, PollTimeout, Execute, Unknown, MarkCompleted,
                MarkFailed, MarkRaises, MarkFailedRaises, faults, Polling
  <2>2. loop[w] # Stopped
    BY <2>1 DEF Stopped
  <2> QED BY <2>1, <2>2 DEF Tidy
<1>4. CASE \E m \in Msg : Requeue(m) \/ RequeueFails(m)
  BY <1>4 DEF Tidy, Requeue, RequeueFails
<1>5. CASE Shutdown
  BY <1>5 DEF Tidy, Shutdown, TypeOK
<1>6. CASE Exit
  BY <1>6 DEF Tidy, Exit, DownNow
<1>7. CASE Crash
  BY <1>7 DEF Tidy, Crash, DownNow, TypeOK
<1>8. CASE Start
  BY <1>8 DEF Start
<1> QED BY <1>1, <1>2, <1>3, <1>4, <1>5, <1>6, <1>7, <1>8 DEF Next

\* Nothing brings a copy back but a submission.
LEMMA LiveIsSubmitted ==
    ASSUME TypeOK, Tidy, TaskStep, NEW t \in Tasks, Live(t)'
    PROVE  origin'[t] # "new"
<1>1. Live(t) => origin[t] # "new"
  BY DEF Tidy
<1>2. \/ Untouched(t) \/ IsStepped(t) \/ IsLost(t) \/ IsKilled(t)
  BY DEF TaskStep
<1> QED BY <1>1, <1>2 DEF Untouched, SameRecord, IsStepped, Queues, KeepsBack, RunsInline, Moves,
        TakesEffect, IsDoubted, Finishes, GivesUp, IsLost, IsKilled

LEMMA NextTidy == TypeOK /\ Tidy /\ [Next]_vars => Tidy'
<1> SUFFICES ASSUME TypeOK, Tidy, [Next]_vars PROVE Tidy'
  OBVIOUS
<1>1. (\A u \in Tasks : Unique(u)') /\ TaskStep
  BY NextStep
<1>2. \A u \in Tasks : Live(u)' => origin'[u] # "new"
  BY <1>1, LiveIsSubmitted
<1> QED BY <1>1, <1>2, NextKnown, NextProcess DEF Tidy

-------------------------------------------------------------------------------
(***************************************************************************)
(* Copies(t) counts what Unique is about.                                  *)
(***************************************************************************)
LEMMA CountOne ==
    ASSUME NEW S, \A x, y \in S : x = y
    PROVE  Cardinality(S) = IF S = {} THEN 0 ELSE 1
<1>1. CASE S = {}
  BY <1>1, FS_EmptySet
<1>2. CASE S # {}
  <2>1. PICK x \in S : TRUE
    BY <1>2
  <2>2. S = {x}
    BY <2>1
  <2> QED BY <1>2, <2>2, FS_Singleton
<1> QED BY <1>1, <1>2

LEMMA CopiesOf ==
    ASSUME NEW t, Unique(t)
    PROVE  Copies(t) = IF Live(t) THEN 1 ELSE 0
<1> DEFINE Q == {i \in DOMAIN queue : queue[i].task = t}
           H == {w \in Loops : loop[w].at \in Busy /\ loop[w].msg.task = t}
           T == {m \in timers : m.task = t}
<1>1. Cardinality(Q) = IF Queued(t) THEN 1 ELSE 0
  <2>1. (Q = {} <=> ~Queued(t)) /\ \A x, y \in Q : x = y
    BY DEF Unique, QueuedOnce, Queued
  <2> HIDE DEF Q
  <2> QED BY <2>1, CountOne
<1>2. Cardinality(H) = IF Held(t) THEN 1 ELSE 0
  <2>1. (H = {} <=> ~Held(t)) /\ \A x, y \in H : x = y
    BY DEF Unique, HeldOnce, Held, Holds
  <2> HIDE DEF H
  <2> QED BY <2>1, CountOne
<1>3. Cardinality(T) = IF Timed(t) THEN 1 ELSE 0
  <2>1. (T = {} <=> ~Timed(t)) /\ \A x, y \in T : x = y
    BY DEF Unique, TimedOnce, Timed
  <2> HIDE DEF T
  <2> QED BY <2>1, CountOne
<1>4. Copies(t) = Cardinality(Q) + Cardinality(H) + Cardinality(T)
  BY DEF Copies
<1> HIDE DEF Q, H, T
<1>5. ~(Queued(t) /\ Held(t)) /\ ~(Queued(t) /\ Timed(t)) /\ ~(Held(t) /\ Timed(t))
  BY DEF Unique
<1> QED BY <1>1, <1>2, <1>3, <1>4, <1>5 DEF Live

-------------------------------------------------------------------------------
(***************************************************************************)
(* How often a task takes effect.                                          *)
(***************************************************************************)
\* What may still take effect: the producer's attempt, a copy that has not.
Pending(t) ==
    (IF origin[t] \in {"new", "inline"} THEN 1 ELSE 0) + (IF Live(t) /\ ~Done(t) THEN 1 ELSE 0)

Account(t) ==
    /\ origin[t] = "new" => applied[t] = 0 /\ excused[t] = 0
    /\ applied[t] + Pending(t) <= 1 + excused[t]
    /\ Done(t) => applied[t] > 0
    /\ excused[t] > 0 \/ t \in lost => Faulted

\* What OutcomeIsRecorded says of one task.
Outcome(t) ==
    origin[t] = "queued" /\ ~Live(t) /\ t \notin lost /\ excused[t] = 0 =>
        \/ applied[t] = 1 /\ \E m \in Msg : m.task = t /\ status[m] = "completed"
        \/ applied[t] = 0 /\ GivenUp(t)

LEMMA FaultsAddUp ==
    ASSUME TypeOK, [Next]_vars
    PROVE  Faulted => Faulted'
<1>1. blips' >= blips /\ stops' >= stops
  <2> blips \in Nat /\ stops \in Nat
    BY BoundAssumption DEF TypeOK
  <2>1. CASE UNCHANGED vars
    BY <2>1 DEF vars
  <2>2. CASE \E t \in Tasks : Submit(t) \/ SubmitFails(t) \/ RunInline(t)
    BY <2>2 DEF Submit, SubmitFails, RunInline, Blip, faults
  <2>3. CASE \E w \in Loops : LoopStep(w)
    BY <2>3 DEF LoopStep, Dequeue, DequeueFails, PollTimeout, Execute, Unknown, MarkCompleted,
                MarkFailed, MarkRaises, MarkFailedRaises, Blip, faults
  <2>4. CASE \E m \in Msg : Requeue(m) \/ RequeueFails(m)
    BY <2>4 DEF Requeue, RequeueFails, Blip
  <2>5. CASE Shutdown \/ Exit \/ Crash \/ Start
    BY <2>5 DEF Shutdown, Exit, Crash, Start, faults
  <2> QED BY <2>1, <2>2, <2>3, <2>4, <2>5 DEF Next
<1>2. blips \in Nat /\ stops \in Nat /\ blips' \in Nat /\ stops' \in Nat
  <2>1. TypeOK'
    BY NextType
  <2> QED BY <2>1, BoundAssumption DEF TypeOK
<1> QED BY <1>1, <1>2 DEF Faulted

LEMMA InitAccount == Init => \A t \in Tasks : Account(t) /\ Outcome(t)
<1> SUFFICES ASSUME Init, NEW t \in Tasks PROVE Account(t) /\ Outcome(t)
  OBVIOUS
<1>1. ~Live(t)
  BY InitTidy DEF Tidy, Init
<1>2. ~Done(t)
  BY <1>1, DoneIsHeld DEF Live
<1> QED BY <1>1, <1>2 DEF Account, Outcome, Pending, Init

\* The counters of one task, in a step that is about it.
LEMMA StepAccount ==
    ASSUME TypeOK, TypeOK', Faulted => Faulted', NEW t \in Tasks, Account(t),
           Untouched(t) \/ IsStepped(t) \/ IsLost(t) \/ IsKilled(t)
    PROVE  Account(t)'
<1>1. /\ applied[t] \in Nat /\ excused[t] \in Nat
      /\ applied'[t] \in Nat /\ excused'[t] \in Nat
      /\ origin[t] \in {"new", "queued", "inline", "ran", "refused"}
  BY DEF TypeOK
<1>2. Done(t)' => Live(t)'
  BY DoneIsHeldNext DEF Live
<1>3. Done(t) => Live(t)
  BY DoneIsHeld DEF Live
<1>4. CASE Untouched(t)
  BY <1>1, <1>4 DEF Account, Pending, Untouched, SameRecord
<1>5. CASE Queues(t)
  BY <1>1, <1>5 DEF Account, Pending, Queues
<1>6. CASE KeepsBack(t)
  BY <1>1, <1>2, <1>6 DEF Account, Pending, KeepsBack
<1>7. CASE RunsInline(t)
  BY <1>1, <1>7 DEF Account, Pending, RunsInline
<1>8. CASE Moves(t)
  BY <1>1, <1>8 DEF Account, Pending, Moves, SameRecord
<1>9. CASE TakesEffect(t)
  BY <1>1, <1>9 DEF Account, Pending, TakesEffect
<1>10. CASE IsDoubted(t)
  BY <1>1, <1>10 DEF Account, Pending, IsDoubted
<1>11. CASE Finishes(t)
  BY <1>1, <1>2, <1>11 DEF Account, Pending, Finishes, SameRecord
<1>12. CASE GivesUp(t)
  BY <1>1, <1>2, <1>12 DEF Account, Pending, GivesUp, SameRecord
<1>13. CASE IsLost(t)
  BY <1>1, <1>2, <1>13 DEF Account, Pending, IsLost
<1>14. CASE IsKilled(t)
  BY <1>1, <1>2, <1>14 DEF Account, Pending, IsKilled
<1> QED BY <1>4, <1>5, <1>6, <1>7, <1>8, <1>9, <1>10, <1>11, <1>12, <1>13, <1>14 DEF IsStepped

LEMMA StepOutcome ==
    ASSUME TypeOK, NEW t \in Tasks, Account(t), Outcome(t), Live(t) => origin[t] # "new",
           Untouched(t) \/ IsStepped(t) \/ IsLost(t) \/ IsKilled(t)
    PROVE  Outcome(t)'
<1>1. applied[t] \in Nat /\ excused[t] \in Nat
  BY DEF TypeOK
<1>2. CASE Untouched(t)
  <2>1. GivenUp(t) <=> GivenUp(t)'
    <3>1. First(t) \in Msg /\ First(t).task = t
      BY FirstIsMsg
    <3>2. /\ [task |-> t, attempt |-> MaxAttempts] \in Msg
          /\ [task |-> t, attempt |-> MaxAttempts].task = t
      BY BoundAssumption DEF Msg
    <3> QED BY <1>2, <3>1, <3>2 DEF GivenUp, Untouched
  <2>2. (\E m \in Msg : m.task = t /\ status[m] = "completed")
            => \E m \in Msg : m.task = t /\ status'[m] = "completed"
    BY <1>2 DEF Untouched
  <2> QED BY <1>2, <2>1, <2>2 DEF Outcome, Untouched, SameRecord
<1>3. CASE Live(t)' \/ origin'[t] # "queued" \/ t \in lost'
  BY <1>3 DEF Outcome
<1>4. CASE Finishes(t)
  <2>1. applied[t] > 0 /\ applied[t] <= 1 + excused[t]
    BY <1>1, <1>4 DEF Account, Pending, Finishes
  <2>2. \E m \in Msg : m.task = t /\ status'[m] = "completed"
    BY <1>4 DEF Finishes
  <2> QED BY <1>1, <1>4, <2>1, <2>2 DEF Outcome, Finishes, SameRecord
<1>5. CASE GivesUp(t)
  <2>1. applied[t] + 1 <= 1 + excused[t]
    BY <1>1, <1>5 DEF Account, Pending, GivesUp
  <2> QED BY <1>1, <1>5, <2>1 DEF Outcome, GivesUp, SameRecord
<1> QED BY <1>2, <1>3, <1>4, <1>5 DEF IsStepped, Queues, KeepsBack, RunsInline, Moves,
        TakesEffect, IsDoubted, IsLost, IsKilled

Inv == TypeOK /\ Tidy /\ \A t \in Tasks : Account(t) /\ Outcome(t)

LEMMA InitInv == Init => Inv
BY InitType, InitTidy, InitAccount DEF Inv

LEMMA NextInv == Inv /\ [Next]_vars => Inv'
<1> SUFFICES ASSUME Inv, [Next]_vars PROVE Inv'
  OBVIOUS
<1>1. TypeOK' /\ Tidy'
  BY NextType, NextTidy DEF Inv
<1>2. TaskStep /\ (Faulted => Faulted')
  BY NextStep, FaultsAddUp DEF Inv
<1>3. ASSUME NEW t \in Tasks PROVE Account(t)' /\ Outcome(t)'
  <2>1. Untouched(t) \/ IsStepped(t) \/ IsLost(t) \/ IsKilled(t)
    BY <1>2 DEF TaskStep
  <2>2. TypeOK /\ Account(t) /\ Outcome(t) /\ (Live(t) => origin[t] # "new")
    BY DEF Inv, Tidy
  <2> QED BY <1>1, <1>2, <2>1, <2>2, StepAccount, StepOutcome
<1> QED BY <1>1, <1>3 DEF Inv

LEMMA InvCopies == Inv => \A t \in Tasks : Copies(t) = IF Live(t) THEN 1 ELSE 0
BY CopiesOf DEF Inv, Tidy

\* No blip, retry, shutdown or restart makes a second copy of a task.
THEOREM CopiesAreSingle == Spec => []OneLiveCopy
<1>1. Inv => OneLiveCopy
  BY InvCopies DEF OneLiveCopy
<1> QED BY <1>1, InitInv, NextInv, PTL DEF Spec

\* A task takes effect again only if a failing call made somebody believe
\* that it had not.
THEOREM EffectsHaveCauses == Spec => []AppliedOncePerCause
<1>1. Inv => AppliedOncePerCause
  <2> SUFFICES ASSUME Inv, NEW t \in Tasks PROVE applied[t] <= 1 + excused[t]
    BY DEF AppliedOncePerCause
  <2>1. applied[t] \in Nat /\ excused[t] \in Nat /\ applied[t] + Pending(t) <= 1 + excused[t]
    BY DEF Inv, TypeOK, Account
  <2>2. Pending(t) >= 0 /\ Pending(t) \in Nat
    BY DEF Pending
  <2> QED BY <2>1, <2>2
<1> QED BY <1>1, InitInv, NextInv, PTL DEF Spec

\* What is neither lost nor under way is recorded as it was.
THEOREM OutcomesAreTrue == Spec => []OutcomeIsRecorded
<1>1. Inv => OutcomeIsRecorded
  <2> SUFFICES ASSUME Inv, NEW t \in Tasks, origin[t] = "queued", Copies(t) = 0,
                      t \notin lost, excused[t] = 0
               PROVE  \/ applied[t] = 1 /\ \E m \in Msg : m.task = t /\ status[m] = "completed"
                      \/ applied[t] = 0 /\ GivenUp(t)
    BY DEF OutcomeIsRecorded
  <2>1. ~Live(t) /\ Outcome(t)
    BY InvCopies DEF Inv
  <2> QED BY <2>1 DEF Outcome
<1> QED BY <1>1, InitInv, NextInv, PTL DEF Spec

-------------------------------------------------------------------------------
(***************************************************************************)
(* The queue implements TaskDelivery.                                      *)
(***************************************************************************)
LEMMA PromiseIs ==
    \A t \in Tasks : Inv =>
        Promise(t) = IF applied[t] > 0 THEN "done"
                     ELSE IF origin[t] = "new" THEN "new"
                     ELSE IF Live(t) \/ origin[t] = "inline" THEN "owed"
                     ELSE IF t \in lost THEN "lost" ELSE "given_up"
<1> SUFFICES ASSUME NEW t \in Tasks, Inv
             PROVE  Promise(t) = IF applied[t] > 0 THEN "done"
                                 ELSE IF origin[t] = "new" THEN "new"
                                 ELSE IF Live(t) \/ origin[t] = "inline" THEN "owed"
                                 ELSE IF t \in lost THEN "lost" ELSE "given_up"
  OBVIOUS
<1>1. Copies(t) > 0 <=> Live(t)
  BY InvCopies
<1>2. applied[t] \in Nat
  BY DEF Inv, TypeOK
<1>3. applied[t] = 0 <=> ~(applied[t] > 0)
  BY <1>2
<1> QED BY <1>1, <1>3 DEF Promise

LEMMA PromiseIsNext ==
    (\A t \in Tasks : Inv =>
        Promise(t) = IF applied[t] > 0 THEN "done"
                     ELSE IF origin[t] = "new" THEN "new"
                     ELSE IF Live(t) \/ origin[t] = "inline" THEN "owed"
                     ELSE IF t \in lost THEN "lost" ELSE "given_up")'
BY PromiseIs, PTL

\* What a step may do to one promise.
Faulty == MaxBlips + MaxStops > 0
Stands(t) == Promise(t)' = Promise(t) /\ applied'[t] = applied[t]
IsMade(t) == Promise(t) = "new" /\ Promise(t)' = "owed" /\ applied'[t] = applied[t]
IsKept(t) == Promise(t) = "owed" /\ Promise(t)' = "done" /\ applied'[t] = applied[t] + 1
IsRepeated(t) ==
    Faulty /\ Promise(t) = "done" /\ Promise(t)' = "done" /\ applied'[t] = applied[t] + 1
IsGivenUp(t) == Promise(t) = "owed" /\ Promise(t)' = "given_up" /\ applied'[t] = applied[t]
IsBroken(t) ==
    Faulty /\ Promise(t) = "owed" /\ Promise(t)' = "lost" /\ applied'[t] = applied[t]

LEMMA FaultsAreBounded == ASSUME TypeOK, Faulted PROVE Faulty
<1>1. blips \in Nat /\ stops \in Nat /\ blips <= MaxBlips /\ stops <= MaxStops
      /\ MaxBlips \in Nat /\ MaxStops \in Nat
  BY BoundAssumption DEF TypeOK
<1> QED BY <1>1 DEF Faulted, Faulty

LEMMA FaultsAreBoundedNext == ASSUME TypeOK', Faulted' PROVE Faulty
<1>1. blips' \in Nat /\ stops' \in Nat /\ blips' <= MaxBlips /\ stops' <= MaxStops
      /\ MaxBlips \in Nat /\ MaxStops \in Nat
  BY BoundAssumption DEF TypeOK
<1> QED BY <1>1 DEF Faulted, Faulty

LEMMA PromiseStep ==
    ASSUME Inv, Inv', NEW t \in Tasks,
           Untouched(t) \/ IsStepped(t) \/ IsLost(t) \/ IsKilled(t)
    PROVE  /\ \/ Stands(t) \/ IsMade(t) \/ IsKept(t) \/ IsRepeated(t)
              \/ IsGivenUp(t) \/ IsBroken(t)
           /\ Untouched(t) => Stands(t)
           /\ IsLost(t) => Stands(t) \/ IsBroken(t)
           /\ IsKilled(t) => IsKept(t) \/ IsRepeated(t)
<1>1. /\ applied[t] \in Nat /\ excused[t] \in Nat
      /\ applied'[t] \in Nat /\ excused'[t] \in Nat
  BY DEF Inv, TypeOK
<1>2. Promise(t) = IF applied[t] > 0 THEN "done"
                   ELSE IF origin[t] = "new" THEN "new"
                   ELSE IF Live(t) \/ origin[t] = "inline" THEN "owed"
                   ELSE IF t \in lost THEN "lost" ELSE "given_up"
  BY PromiseIs
<1>3. Promise(t)' = IF applied'[t] > 0 THEN "done"
                    ELSE IF origin'[t] = "new" THEN "new"
                    ELSE IF Live(t)' \/ origin'[t] = "inline" THEN "owed"
                    ELSE IF t \in lost' THEN "lost" ELSE "given_up"
  BY PromiseIsNext
<1>4. /\ origin[t] = "new" => applied[t] = 0
      /\ applied[t] + Pending(t) <= 1 + excused[t]
      /\ Done(t) => applied[t] > 0
      /\ excused[t] > 0 => Faulty
      /\ t \in lost' => Faulty
      /\ Live(t) => origin[t] # "new"
      /\ Live(t)' => origin'[t] # "new"
  BY FaultsAreBounded, FaultsAreBoundedNext DEF Inv, Account, Tidy
<1>5. \* A second effect has been excused.
      (origin[t] = "inline" \/ (Live(t) /\ ~Done(t))) /\ applied[t] > 0 => Faulty
  BY <1>1, <1>4 DEF Pending
<1>6. Untouched(t) => Stands(t)
  BY <1>2, <1>3 DEF Untouched, SameRecord, Stands
<1>7. Queues(t) => IsMade(t)
  BY <1>2, <1>3, <1>4 DEF Queues, IsMade
<1>8. KeepsBack(t) => IsMade(t)
  BY <1>2, <1>3, <1>4 DEF KeepsBack, IsMade
<1>9. RunsInline(t) => Stands(t) \/ IsKept(t) \/ IsRepeated(t) \/ IsGivenUp(t) \/ IsBroken(t)
  <2>1. RunsInline(t) /\ applied'[t] = applied[t] + 1 => IsKept(t) \/ IsRepeated(t)
    BY <1>1, <1>2, <1>3, <1>4, <1>5 DEF RunsInline, IsKept, IsRepeated
  <2>2. RunsInline(t) /\ applied'[t] = applied[t] /\ origin'[t] = "refused"
            => Stands(t) \/ IsGivenUp(t) \/ IsBroken(t)
    BY <1>1, <1>2, <1>3, <1>4 DEF RunsInline, Stands, IsGivenUp, IsBroken
  <2> QED BY <2>1, <2>2 DEF RunsInline
<1>10. Moves(t) => Stands(t)
  BY <1>2, <1>3 DEF Moves, SameRecord, Stands
<1>11. TakesEffect(t) => IsKept(t) \/ IsRepeated(t)
  BY <1>1, <1>2, <1>3, <1>4, <1>5 DEF TakesEffect, IsKept, IsRepeated
<1>12. IsDoubted(t) => Stands(t)
  BY <1>2, <1>3 DEF IsDoubted, Stands
<1>13. Finishes(t) => Stands(t)
  BY <1>2, <1>3, <1>4 DEF Finishes, SameRecord, Stands
<1>14. GivesUp(t) => Stands(t) \/ IsGivenUp(t) \/ IsBroken(t)
  BY <1>1, <1>2, <1>3, <1>4 DEF GivesUp, SameRecord, Stands, IsGivenUp, IsBroken
<1>15. IsLost(t) => Stands(t) \/ IsBroken(t)
  BY <1>1, <1>2, <1>3, <1>4 DEF IsLost, Stands, IsBroken
<1>16. IsKilled(t) => IsKept(t) \/ IsRepeated(t)
  BY <1>1, <1>2, <1>3, <1>4, <1>5 DEF IsKilled, IsKept, IsRepeated
<1> QED BY <1>6, <1>7, <1>8, <1>9, <1>10, <1>11, <1>12, <1>13, <1>14, <1>15, <1>16
        DEF IsStepped

\* Promises that stand are not in the way of one that changes.
LEMMA OneChange ==
    ASSUME TypeOK, TypeOK', NEW t \in Tasks, \A u \in Tasks \ {t} : Stands(u)
    PROVE  /\ [u \in Tasks |-> Promise(u)'] = [[u \in Tasks |-> Promise(u)] EXCEPT ![t] = Promise(t)']
           /\ applied' = [applied EXCEPT ![t] = applied'[t]]
<1>1. [u \in Tasks |-> Promise(u)'] = [[u \in Tasks |-> Promise(u)] EXCEPT ![t] = Promise(t)']
  BY DEF Stands
<1>2. applied \in [Tasks -> Nat] /\ applied' \in [Tasks -> Nat]
  BY DEF TypeOK
<1> QED BY <1>1, <1>2 DEF Stands

\* Several promises at once: what is broken and what is kept.
LEMMA BreakIs ==
    ASSUME Faulty, NEW gone \in SUBSET Tasks, NEW hit \in SUBSET Tasks, gone \cap hit = {},
           \A t \in gone : Promise(t) = "owed" /\ Promise(t)' = "lost",
           \A t \in hit : Promise(t) \in {"owed", "done"} /\ Promise(t)' = "done",
           \A t \in Tasks \ (gone \cup hit) : Promise(t)' = Promise(t),
           applied' = [t \in Tasks |-> IF t \in hit THEN applied[t] + 1 ELSE applied[t]]
    PROVE  Delivery!Break
<1> DEFINE after(t) == CASE t \in gone -> "lost" [] t \in hit -> "done"
                         [] OTHER -> [u \in Tasks |-> Promise(u)][t]
<1>1. \A t \in Tasks : Promise(t)' = after(t)
  <2> SUFFICES ASSUME NEW t \in Tasks PROVE Promise(t)' = after(t)
    OBVIOUS
  <2>1. CASE t \in gone
    BY <2>1
  <2>2. CASE t \in hit
    BY <2>2
  <2>3. CASE t \notin gone /\ t \notin hit
    BY <2>3
  <2> QED BY <2>1, <2>2, <2>3
<1>2. [t \in Tasks |-> Promise(t)'] = [t \in Tasks |-> after(t)]
  BY <1>1
<1>3. \A t \in gone : [u \in Tasks |-> Promise(u)][t] = "owed"
  OBVIOUS
<1>4. \A t \in hit : [u \in Tasks |-> Promise(u)][t] \in {"owed", "done"}
  OBVIOUS
<1> QED BY <1>2, <1>3, <1>4, Zenon DEF Delivery!Break, Faulty

LEMMA NextImplements ==
    ASSUME Inv, Inv', [Next]_vars
    PROVE  [Delivery!Next]_(Delivery!vars)
<1>1. TaskStep /\ TypeOK /\ TypeOK'
  BY NextStep DEF Inv
<1>2. \A t \in Tasks : Untouched(t) => Stands(t)
  BY PromiseStep
<1>3. CASE \A u \in Tasks : Untouched(u)
  <2>1. [u \in Tasks |-> Promise(u)'] = [u \in Tasks |-> Promise(u)]
    BY <1>2, <1>3 DEF Stands
  <2>2. applied' = applied
    BY <1>1, <1>2, <1>3 DEF Stands, TypeOK
  <2> QED BY <2>1, <2>2 DEF Delivery!vars
<1>4. CASE \E t \in Tasks : IsStepped(t) /\ \A u \in Tasks \ {t} : Untouched(u)
  <2>1. PICK t \in Tasks : IsStepped(t) /\ \A u \in Tasks \ {t} : Untouched(u)
    BY <1>4
  <2>2. \A u \in Tasks \ {t} : Stands(u)
    BY <1>2, <2>1
  <2>3. /\ [u \in Tasks |-> Promise(u)'] = [[u \in Tasks |-> Promise(u)] EXCEPT ![t] = Promise(t)']
        /\ applied' = [applied EXCEPT ![t] = applied'[t]]
    BY <1>1, <2>2, OneChange
  <2>4. applied \in [Tasks -> Nat]
    BY <1>1 DEF TypeOK
  <2>5. \/ Stands(t) \/ IsMade(t) \/ IsKept(t) \/ IsRepeated(t)
        \/ IsGivenUp(t) \/ IsBroken(t)
    BY <2>1, PromiseStep
  <2>6. Stands(t) => UNCHANGED Delivery!vars
    BY <2>3, <2>4 DEF Stands, Delivery!vars
  <2>7. IsMade(t) => Delivery!Submit(t)
    BY <2>3, <2>4 DEF IsMade, Delivery!Submit, Delivery!Move
  <2>8. IsKept(t) => Delivery!Complete(t)
    BY <2>3, <2>4 DEF IsKept, Delivery!Complete, Delivery!Move, Delivery!Effect
  <2>9. IsRepeated(t) => Delivery!Repeat(t)
    BY <2>3, <2>4 DEF IsRepeated, Faulty, Delivery!Repeat, Delivery!Move, Delivery!Effect
  <2>10. IsGivenUp(t) => Delivery!GiveUp(t)
    BY <2>3, <2>4 DEF IsGivenUp, Delivery!GiveUp, Delivery!Move
  <2>11. IsBroken(t) => Delivery!Break
    <3> SUFFICES ASSUME IsBroken(t) PROVE Delivery!Break
      OBVIOUS
    <3>1. Promise(t) = "owed" /\ Promise(t)' = "lost" /\ Faulty /\ applied' = applied
      BY <2>3, <2>4 DEF IsBroken
    <3>2. applied' = [u \in Tasks |-> IF u \in {} THEN applied[u] + 1 ELSE applied[u]]
      BY <2>4, <3>1
    <3>3. {t} \in SUBSET Tasks /\ {} \in SUBSET Tasks /\ {t} \cap {} = {}
      OBVIOUS
    <3>4. \A u \in Tasks \ ({t} \cup {}) : Promise(u)' = Promise(u)
      BY <2>2 DEF Stands
    <3> QED BY <3>1, <3>2, <3>3, <3>4, BreakIs
  <2> QED BY <2>5, <2>6, <2>7, <2>8, <2>9, <2>10, <2>11 DEF Delivery!Next
<1>5. CASE \A u \in Tasks : Untouched(u) \/ IsLost(u) \/ IsKilled(u)
  <2>1. CASE ~\E u \in Tasks : IsLost(u) \/ IsKilled(u)
    BY <1>3, <1>5, <2>1
  <2>2. CASE \E u \in Tasks : IsLost(u) \/ IsKilled(u)
    <3>1. Faulty
      BY <1>1, <2>2, FaultsAreBoundedNext DEF IsLost, IsKilled
    <3>2. \A u \in Tasks : Stands(u) \/ IsBroken(u) \/ IsKept(u) \/ IsRepeated(u)
      BY <1>5, PromiseStep
    <3>3. PICK gone \in SUBSET Tasks : \A u \in Tasks : u \in gone <=> IsBroken(u)
      <4>1. {u \in Tasks : IsBroken(u)} \in SUBSET Tasks
        OBVIOUS
      <4> QED BY <4>1
    <3>4. PICK hit \in SUBSET Tasks : \A u \in Tasks : u \in hit <=> IsKept(u) \/ IsRepeated(u)
      <4>1. {u \in Tasks : IsKept(u) \/ IsRepeated(u)} \in SUBSET Tasks
        OBVIOUS
      <4> QED BY <4>1
    <3>5. gone \cap hit = {}
      BY <3>3, <3>4 DEF IsBroken, IsKept, IsRepeated
    <3>6. \A u \in gone : Promise(u) = "owed" /\ Promise(u)' = "lost"
      BY <3>3 DEF IsBroken
    <3>7. \A u \in hit : Promise(u) \in {"owed", "done"} /\ Promise(u)' = "done"
      BY <3>4 DEF IsKept, IsRepeated
    <3>8. \A u \in Tasks \ (gone \cup hit) : Promise(u)' = Promise(u)
      BY <3>2, <3>3, <3>4 DEF Stands
    <3>9. \A u \in Tasks : applied'[u] = IF u \in hit THEN applied[u] + 1 ELSE applied[u]
      <4> TAKE u \in Tasks
      <4>1. u \in hit => applied'[u] = applied[u] + 1
        BY <3>4 DEF IsKept, IsRepeated
      <4>2. u \notin hit => applied'[u] = applied[u]
        BY <3>2, <3>4 DEF Stands, IsBroken
      <4> QED BY <4>1, <4>2
    <3>10. applied' = [u \in Tasks |-> IF u \in hit THEN applied[u] + 1 ELSE applied[u]]
      <4>1. applied' \in [Tasks -> Nat]
        BY <1>1 DEF TypeOK
      <4> QED BY <3>9, <4>1
    <3>11. Delivery!Break
      BY <3>1, <3>5, <3>6, <3>7, <3>8, <3>10, BreakIs
    <3> QED BY <3>11 DEF Delivery!Next
  <2> QED BY <2>1, <2>2
<1> QED BY <1>1, <1>3, <1>4, <1>5 DEF TaskStep

LEMMA InitImplements == Init => Delivery!Init
<1> SUFFICES ASSUME Init PROVE Delivery!Init
  OBVIOUS
<1>1. \A t \in Tasks : Promise(t) = "new"
  BY InitInv, PromiseIs DEF Init
<1> QED BY <1>1 DEF Init, Delivery!Init

\* Every step of queue, loops, timers and process, with any faults, is one that
\* TaskDelivery allows: effects are repeated and tasks lost only if something
\* can break.
THEOREM ImplementsTaskDelivery == Spec => ImplementsDelivery
<1>1. Inv /\ Inv' /\ [Next]_vars => [Delivery!Next]_(Delivery!vars)
  BY NextImplements
<1> QED BY <1>1, InitInv, NextInv, InitImplements, PTL DEF Spec, ImplementsDelivery, Delivery!Spec

===============================================================================
