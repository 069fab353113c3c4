SPECIFICATION FairSpec
CONSTANTS
    Pids = {1, 2, 3}
    MAX_JOB_COUNT = 3
    Shell = Shell
    NoPid = NoPid
INVARIANTS
    TypeOK
    LiveIsListed
    KeyboardNotLost
PROPERTIES
    ZombiesAreReaped
    ForegroundReturns
CHECK_DEADLOCK FALSE
