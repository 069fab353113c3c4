SPECIFICATION PromptSpec
CONSTANTS
    NPROC = 7
    Started = {2, 3, 4, 5, 6, 7}
    Calls <- Spinning
    Period = 100
    Limit = 50000
    Nices = {}
    MaxNice = 20
    Sleeps = {}
    MaxDispatches = 300
PROPERTIES
    RunnableRuns
