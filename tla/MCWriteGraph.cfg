SPECIFICATION FairSpec
CONSTANTS
    a = a
    b = b
    c = c
    x = x
    NoItem = NoItem
    Items <- MCItems
    Outside <- MCOutside
    Plans <- MCPlans
    MaxRepair = 2
    MaxItems = 3
INVARIANTS
    TypeOK
    EveryResultAccepted
    CommitGate
    CriticalGate
    PublishGate
    RepairLedgerAgrees
    DependencyOrder
    HonestOutcome
PROPERTIES
    Termination
