\* Three backups, two of workers and requests at a time, two days.
SPECIFICATION Spec
CONSTANTS
    Backups = {1, 2, 3}
    Actors = {a1, a2}
    Keep = 1
    MaxDay = 2
    MaxAsked = 1
    MaxFaults = 1
INVARIANTS
    TypeOK
    SuccessIsRestorable
    Retained
    DailyOnce
SYMMETRY BackupSymmetry
CHECK_DEADLOCK FALSE
