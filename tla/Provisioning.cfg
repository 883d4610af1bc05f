\* A small and a large plan that do not fit together, the large one can be
\* upgraded; two sessions and one fault.
SPECIFICATION Spec
CONSTANTS
    o1 = o1
    o2 = o2
    r1 = r1
    r2 = r2
    Orders = {o1, o2}
    Runs = {r1, r2}
    Size <- SmallAndLarge
    More <- LargeCanGrow
    Pool = 2
    MaxAttempts = 2
    MaxJobs <- TwoForTheSmall
    MaxFaults = 1
INVARIANTS
    TypeOK
    OneEnvironment
    UnpaidHasNothing
    NeverRebuilt
    PoolGated
SYMMETRY SessionSymmetry
CHECK_DEADLOCK FALSE
