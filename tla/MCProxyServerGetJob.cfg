SPECIFICATION FairSpec
CONSTANTS
    cLow1 = cLow1
    cLow2 = cLow2
    cHigh = cHigh
    Clients = {cLow1, cLow2}
    Kinds = {"GetJob", "GET"}
    Listeners = {l1}
    Workers = {w1}
    Priority <- MCPriority
    Capacity = 2
    MaxFds = 8
    NoClient = NoClient
PROPERTIES
    GetJobIsAnswered
CHECK_DEADLOCK FALSE
