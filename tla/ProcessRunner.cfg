SPECIFICATION FairSpec
CONSTANT
    MaxInterrupts = 2
CHECK_DEADLOCK FALSE
INVARIANTS
    ChildReaped
    ReportedTruly
PROPERTIES
    Returns
