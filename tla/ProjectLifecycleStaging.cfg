SPECIFICATION RetriedSpec
CONSTANTS
    p1 = p1
    p2 = p2
    r1 = r1
    r2 = r2
    Processes <- OneProcess
    RunIds <- OneRun
    None = None
    MaxCrashes = 1
PROPERTIES
    InitializationRetried
