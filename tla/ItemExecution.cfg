SPECIFICATION Spec
CONSTANTS
    base = base
    edited = edited
    other = other
    none = none
    Trees <- MCTrees
    BaseTree <- base
    None <- none
    Items = 2
    MaxItems = 2
    MaxRepair = 1
    MaxCrashes = 2
    MaxDrift = 1
INVARIANTS
    CompletedItemsVerify
    CommitsOnce
    AuthorsOnce
    EvidenceBacksState
    RefusedForCause
    StatusAnswersAtRest
PROPERTIES
    ImplementsItemLedger
