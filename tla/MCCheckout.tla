------------------------------ MODULE MCCheckout ------------------------------
(***************************************************************************)
(* Checkout for TLC: two customers, one of whom checks out twice, or once  *)
(* and buys a renewal; the surname Mensah, tried as mensah and mensah2,    *)
(* and the surname Mensah2, whose first address is Mensah's second.        *)
(***************************************************************************)
EXTENDS Checkout, TLC

CONSTANTS k1, k2, o1, o2, o3, o4, h1, h2

MCOwner == o1 :> k1 @@ o2 :> k2 @@ o3 :> k2 @@ o4 :> k2
MCAsks == o1 :> {"mensah"} @@ o2 :> {"mensah"} @@ o3 :> {"mensah2"} @@ o4 :> {}
MCEntered == [o \in Orders |-> IF o = o2 THEN {h1} ELSE {}]
MCTries == "mensah" :> <<h1, h2>> @@ "mensah2" :> <<h2>>
MCCoupons == {[used |-> 0, limit |-> 2, each |-> 1], [used |-> 0, limit |-> 1, each |-> 2]}
MCLockOf == [w \in {"mensah", "mensah2"} |-> w]

\* Bound: the second customer has a second checkout or a renewal, not both, and
\* the renewal next to the coupon of one use only.
OneMore ==
    Exists(o4) => coupon.limit = 1 /\ ~ Exists(o3) /\ \A c \in Busy : call[c].o # o3

CallSymmetry == Permutations(Calls)
===============================================================================
