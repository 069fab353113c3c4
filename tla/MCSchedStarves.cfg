SPECIFICATION PromptSpec
CONSTANTS
    NPROC = 8
    Started = {2, 3, 4, 5, 6, 7, 8}
    Calls <- Spinning
    Period = 100
    Limit = 50000
    Nices = {}
    MaxNice = 20
    Sleeps = {}
    MaxDispatches = 300
PROPERTIES
    RunnableRuns
