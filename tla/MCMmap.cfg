SPECIFICATION Spec
CONSTANTS
    Procs = {1, 2}
    Files = {1, 2}
    NOFILE = 1
    NVMA = 3
    NPages = 4
    NFrames = 2
    Lengths = {1, 2}
    Fixed = {4}
    Kinds <- MCKinds
    MaxCalls <- MCMaxCalls
INVARIANTS
    TypeOK
    FramesConserved
    CountsHolders
    MappedIsFound
CHECK_DEADLOCK FALSE
