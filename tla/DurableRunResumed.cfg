SPECIFICATION FairSpec
CONSTANTS
    ok = ok
    ko = ko
    Outcomes <- MCOutcomes
    NoOutcome = NoOutcome
    Last = 3
    Kind <- MCKind
    MaxCrashes = 1
    Tears = {}
    Client = "runner"
PROPERTIES
    ReceiptCompleted
