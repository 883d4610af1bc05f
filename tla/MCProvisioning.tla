---------------------------- MODULE MCProvisioning ----------------------------
(***************************************************************************)
(* Provisioning for TLC: two orders whose plans together exceed the pool,  *)
(* two sessions.                                                           *)
(***************************************************************************)
EXTENDS Provisioning, TLC

CONSTANTS o1, o2, r1, r2

OneGigabyte == [o \in Orders |-> 1]
SmallAndLarge == [o \in Orders |-> IF o = o1 THEN 1 ELSE 2]
LargeCanGrow == [o \in Orders |-> IF o = o1 THEN 0 ELSE 1]

TwoForTheSmall == [o \in Orders |-> IF o = o1 THEN 2 ELSE 1]

SessionSymmetry == Permutations({r1, r2})
===============================================================================
