SPECIFICATION Spec
CONSTANTS
    base = base
    edited = edited
    other = other
    none = none
    Trees <- MCTrees
    BaseTree <- base
    None <- none
    Items = 1
    MaxItems = 1
    MaxRepair = 1
    MaxCrashes = 1
    MaxDrift = 0
INVARIANT
    InterruptedReviewResumes
