SPECIFICATION FairSpec
CONSTANTS
    first = first
    second = second
    here = here
    there = there
    one = one
    two = two
    three = three
    Callers <- MCCallers
    Roots <- MCRoots
    Ids <- MCIds
    None = None
INVARIANTS
    OneIdentity
    IndexedProjectsWhole
    AnswersRegistered
PROPERTIES
    CallsEnd
