SPECIFICATION FairSpec
CONSTANTS
    a1 = a1
    g1 = g1
    g2 = g2
    rLow1 = rLow1
    rLow2 = rLow2
    rHigh1 = rHigh1
    rHigh2 = rHigh2
    Adders = {a1}
    Getters = {g1, g2}
    Requests = {rLow1, rLow2, rHigh1, rHigh2}
    Priority <- MCPriority
    Capacity = 3
    NoThread = NoThread
    NoRequest = NoRequest
INVARIANTS
    TypeOK
    QueueSorted
    OneOwner
    NoLostWakeup
PROPERTIES
    ImplementsPriorityQueue
    QueuedIsTaken
