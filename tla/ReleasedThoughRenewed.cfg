\* A renewal commits while a sweep that saw the unpaid row is under way.
SPECIFICATION Spec
CONSTANTS
    s1 = s1
    e1 = e1
    e2 = e2
    Subs <- OneSub
    Envs <- OneEnv
    SubOf <- Owner1
    Sweepers = {w1}
    Requests = {c1}
    GraceDays = 1
    TerminateDays = 2
    TermDays = 1
    PaystackKey = FALSE
    Timely = FALSE
    MaxDay = 4
    MaxPaid = 2
    SessionDays = 0
PROPERTY ReleasedOnlyIfNotRenewed
CHECK_DEADLOCK FALSE
