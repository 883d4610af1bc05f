------------------------ MODULE MCSubscriptionLifecycle ------------------------
(***************************************************************************)
(* SubscriptionLifecycle for TLC: one subscription with its environment,   *)
(* or two environments of it, against sweeps and requests.                 *)
(***************************************************************************)
EXTENDS SubscriptionLifecycle

CONSTANTS s1, e1, e2

OneSub == {s1}
OneEnv == {e1}
TwoEnvs == {e1, e2}
Owner1 == [e \in OneEnv |-> s1]
Owner2 == [e \in TwoEnvs |-> s1]

\* With a single subscription nothing is claimed once it has been raced, and
\* raced only grows: those states need not be explored further.
NotYetRaced == raced = {}
================================================================================
