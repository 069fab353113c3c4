SPECIFICATION FairSpec
CONSTANTS
    cLow1 = cLow1
    cLow2 = cLow2
    cHigh = cHigh
    Clients = {cLow1, cLow2, cHigh}
    Kinds = {"GetJob", "GET", "other"}
    Listeners = {l1, l2}
    Workers = {w1, w2}
    Priority <- MCPriority
    Capacity = 2
    MaxFds = 4
    NoClient = NoClient
INVARIANTS
    HeldIsOpenAndUnanswered
PROPERTIES
    ClosedForAReason
    ForgottenForAReason
    HighestIsServed
CHECK_DEADLOCK FALSE
