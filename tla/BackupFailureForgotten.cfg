\* The shortest story: a backup is asked for, is being made, and fails.
SPECIFICATION Spec
CONSTANTS
    Backups = {1, 2}
    Actors = {a1}
    Keep = 1
    MaxDay = 1
    MaxAsked = 0
    MaxFaults = 1
INVARIANT FailureIsRecorded
CHECK_DEADLOCK FALSE
