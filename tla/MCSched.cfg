SPECIFICATION Spec
CONSTANTS
    NPROC = 3
    Started = {}
    Calls <- EveryCall
    Period = 3
    Limit = 3
    Nices = {0, 1, 2}
    MaxNice = 1
    Sleeps = {0, 1, 2}
    MaxDispatches = 4
INVARIANTS
    TypeOK
    AlwaysSelectable
    SleepHasReason
    NoOrphans
