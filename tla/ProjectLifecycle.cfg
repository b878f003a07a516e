SPECIFICATION FairSpec
CONSTANTS
    p1 = p1
    p2 = p2
    r1 = r1
    r2 = r2
    Processes <- TwoProcesses
    RunIds <- TwoRuns
    None = None
    MaxCrashes = 3
INVARIANTS
    TypeOK
    LeaseNamesWriter
    OneUnfinishedRun
    OwnerOfProject
PROPERTIES
    LeaseTakenOverByItsRun
    OwnerKeptUntilDone
    StaleLeaseCleared
