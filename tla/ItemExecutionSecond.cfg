SPECIFICATION Spec
CONSTANTS
    base = base
    edited = edited
    other = other
    none = none
    Trees <- MCTrees
    BaseTree <- base
    None <- none
    Items = 2
    MaxItems = 2
    MaxRepair = 0
    MaxCrashes = 1
    MaxDrift = 0
INVARIANT
    CommittedTransitionsResume
