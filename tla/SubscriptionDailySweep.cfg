\* A sweep completes every day; two renewals of one subscription.
SPECIFICATION Spec
CONSTANTS
    s1 = s1
    e1 = e1
    e2 = e2
    Subs <- OneSub
    Envs <- OneEnv
    SubOf <- Owner1
    Sweepers = {w1}
    Requests = {c1}
    GraceDays = 1
    TerminateDays = 2
    TermDays = 1
    PaystackKey = TRUE
    Timely = TRUE
    MaxDay = 5
    MaxPaid = 2
    SessionDays = 0
INVARIANTS
    OverdueServiceIsBounded
CONSTRAINT NotYetRaced
CHECK_DEADLOCK FALSE
