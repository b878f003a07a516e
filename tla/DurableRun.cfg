SPECIFICATION FairSpec
CONSTANTS
    ok = ok
    ko = ko
    Outcomes <- MCOutcomes
    NoOutcome = NoOutcome
    Last = 3
    Kind <- MCKind
    MaxCrashes = 3
    Tears = {"crash", "error"}
    Client = "library"
\* A journal torn by a crash stops the run for good: DurableRunTorn.cfg.
CHECK_DEADLOCK FALSE
INVARIANTS
    WriteOnce
    TerminalEvidence
PROPERTIES
    ImplementsDecisionLog
    RunConcludes
