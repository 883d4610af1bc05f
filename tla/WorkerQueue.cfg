\* Two tasks and one that is unknown to the registry, two worker loops, one
\* failing Redis call and one shutdown or crash anywhere.
SPECIFICATION FairSpec
CONSTANTS
    t1 = t1
    t2 = t2
    t3 = t3
    Tasks = {t1, t2, t3}
    Registered = {t1, t2}
    Loops = {w1, w2}
    MaxAttempts = 2
    MaxBlips = 1
    MaxStops = 1
INVARIANTS
    TypeOK
    OneLiveCopy
    AppliedOncePerCause
    OutcomeIsRecorded
PROPERTIES
    EveryTaskSettles
    ImplementsDelivery
CHECK_DEADLOCK FALSE
