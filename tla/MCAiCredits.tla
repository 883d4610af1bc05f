------------------------------ MODULE MCAiCredits ------------------------------
(***************************************************************************)
(* AiCredits for TLC: calls and operations are interchangeable.            *)
(***************************************************************************)
EXTENDS AiCredits, TLC

CreditSymmetry == Permutations(Calls) \cup Permutations(Ops)
=============================================================================
