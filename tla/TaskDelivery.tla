----------------------------- MODULE TaskDelivery -----------------------------
(***************************************************************************)
(* What the rest of the platform expects of background tasks: a submitted  *)
(* task is applied, at most once, or given up after failing.  Faulty says  *)
(* whether the process or Redis may fail, in which case a task may also be *)
(* lost or applied again.                                                  *)
(*                                                                         *)
(* WorkerQueue implements this module, and states there that no task stays *)
(* undecided for ever (EveryTaskSettles).                                  *)
(***************************************************************************)
EXTENDS Naturals

CONSTANTS
    Tasks,
    Faulty    \* BOOLEAN: whether something may break

VARIABLES
    state,    \* state[t]: how far task t is
    applied   \* applied[t]: how often t has taken effect

vars == <<state, applied>>

State == {"new", "owed", "done", "given_up", "lost"}
Settled == {"done", "given_up", "lost"}

Init ==
    /\ state = [t \in Tasks |-> "new"]
    /\ applied = [t \in Tasks |-> 0]

Move(t, from, to) == state[t] = from /\ state' = [state EXCEPT ![t] = to]
Effect(t) == applied' = [applied EXCEPT ![t] = @ + 1]

Submit(t) == Move(t, "new", "owed") /\ UNCHANGED applied
Complete(t) == Move(t, "owed", "done") /\ Effect(t)
GiveUp(t) == Move(t, "owed", "given_up") /\ UNCHANGED applied
Repeat(t) == Faulty /\ Move(t, "done", "done") /\ Effect(t)

\* A failure strikes the process that holds several tasks: each of them is
\* lost, or has just taken effect, or is left as it was.
Break ==
    /\ Faulty
    /\ \E gone, hit \in SUBSET Tasks :
        /\ gone \cap hit = {}
        /\ \A t \in gone : state[t] = "owed"
        /\ \A t \in hit : state[t] \in {"owed", "done"}
        /\ state' = [t \in Tasks |-> CASE t \in gone -> "lost"
                                       [] t \in hit -> "done"
                                       [] OTHER -> state[t]]
        /\ applied' = [t \in Tasks |-> IF t \in hit THEN applied[t] + 1 ELSE applied[t]]

Next ==
    \/ \E t \in Tasks : Submit(t) \/ Complete(t) \/ GiveUp(t) \/ Repeat(t)
    \/ Break

Spec == Init /\ [][Next]_vars
================================================================================
