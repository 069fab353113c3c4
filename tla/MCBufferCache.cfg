SPECIFICATION FairSpec
CONSTANTS
    Procs = {p1, p2}
    Buffers = {b1, b2}
    Blocks = {n1, n2, n3}
    Values = {v1, v2}
    MaxPinned = 2
    NoBlock = NoBlock
    Stale = Stale
    NoBuf = NoBuf
    NoProc = NoProc
    NoView = NoView
INVARIANTS
    HasItsBlock
    SleeperIsWoken
    PanicsOnlyWithoutBuffers
PROPERTIES
    ImplementsBlockStore
    BreadReturns
