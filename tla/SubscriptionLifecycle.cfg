\* One subscription; a sweep and a request at a time, each open past one midnight.
SPECIFICATION Spec
CONSTANTS
    s1 = s1
    e1 = e1
    e2 = e2
    Subs <- OneSub
    Envs <- OneEnv
    SubOf <- Owner1
    Sweepers = {w1}
    Requests = {c1}
    GraceDays = 1
    TerminateDays = 2
    TermDays = 1
    PaystackKey = FALSE
    Timely = FALSE
    MaxDay = 4
    MaxPaid = 1
    SessionDays = 1
INVARIANTS
    TypeOK
    ServiceMatchesBilling
    GraceHasDeadline
    PaidTermsApplied
PROPERTIES
    DestroysOnlyLongUnpaid
    SuspendsOnlyAfterGrace
    TerminatedIsFinal
CHECK_DEADLOCK FALSE
