SPECIFICATION Spec
CONSTANTS
    p1 = p1
    p2 = p2
    p3 = p3
    b1 = b1
    b2 = b2
    b3 = b3
    b4 = b4
    b5 = b5
    Procs = {p1, p2, p3}
    Blocks = {b1, b2, b3, b4, b5}
    Values = {0, 1}
    Zero = 0
    MAXOPBLOCKS = 3
    LOGSIZE = 6
    nlog = 6
    OpBlocks = 1
    NoBlock = NoBlock
    NotCached = NotCached
SYMMETRY Symmetry
INVARIANTS
    TypeOK
    NeverPanics
    SleeperIsWoken
    QuietIsDurable
PROPERTIES
    ImplementsAtomicDisk
