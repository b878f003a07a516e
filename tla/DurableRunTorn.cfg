SPECIFICATION FairSpec
CONSTANTS
    ok = ok
    ko = ko
    Outcomes <- MCOutcomes
    NoOutcome = NoOutcome
    Last = 3
    Kind <- MCKind
    MaxCrashes = 1
    Tears = {"crash"}
    Client = "library"
CHECK_DEADLOCK FALSE
PROPERTIES
    TornTailRepaired
