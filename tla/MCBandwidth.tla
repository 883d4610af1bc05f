----------------------------- MODULE MCBandwidth -----------------------------
(***************************************************************************)
(* Bandwidth for TLC: one response uses up a plan of 5 units, and an       *)
(* allowance of one more lifts it into the warnings (5/6); the other plan  *)
(* is unlimited.                                                           *)
(***************************************************************************)
EXTENDS Bandwidth

FiveAndUnlimited == {Unlimited, 5}
=============================================================================
