---------------------------- MODULE MCOrderPayments ----------------------------
(***************************************************************************)
(* OrderPayments for TLC: the mix of orders, and what is symmetric.        *)
(***************************************************************************)
EXTENDS OrderPayments, TLC

CONSTANTS o1, o2, r1, u1, n1, n2, c1, c2

Mixed == {o1, o2, r1, u1}
KindOfMixed ==
    [o \in Mixed |-> CASE o = r1 -> "renewal" [] o = u1 -> "upgrade" [] OTHER -> "hosting"]

OrderSymmetry ==
    Permutations({c1, c2}) \cup Permutations({o1, o2}) \cup Permutations({n1, n2})
===============================================================================
