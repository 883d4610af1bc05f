\* A cycle ends while the block is in place; nothing fails.
SPECIFICATION FairSpec
CONSTANTS
    Envs = {e1}
    Limits <- FiveAndUnlimited
    Ticks = {t1}
    Requests = {}
    Hit = 5
    MaxHits = 2
    MaxPeriod = 1
    MaxExtra = 1
    MaxFaults = 0
PROPERTY WaitForNextCycle
CHECK_DEADLOCK FALSE
