\* One environment, a tick against a request, one fault.
SPECIFICATION FairSpec
CONSTANTS
    Envs = {e1}
    Limits <- FiveAndUnlimited
    Ticks = {t1}
    Requests = {r1}
    Hit = 5
    MaxHits = 2
    MaxPeriod = 1
    MaxExtra = 1
    MaxFaults = 1
INVARIANTS
    TypeOK
    MeterIsExact
    BlockIsRemembered
PROPERTY ExhaustedIsBlocked
CHECK_DEADLOCK FALSE
