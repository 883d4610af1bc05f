\* Three operations, two calls, a wallet that runs out and one top-up.
SPECIFICATION Spec
CONSTANTS
    Ops = {o1, o2, o3}
    Calls = {c1, c2}
    Initial = 2
    Amount = 2
    MaxPerChat = 2
    MaxTopUps = 1
INVARIANTS
    TypeOK
    Conserved
    ChargesAreRecorded
SYMMETRY CreditSymmetry
CHECK_DEADLOCK FALSE
