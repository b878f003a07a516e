SPECIFICATION FairSpec
CONSTANTS
    alice = alice
    bob = bob
    Operators <- MCOperators
    None = None
    TTL = 1
    MaxClock = 2
    MaxCrashes = 3
    MaxMeddles = 1
INVARIANTS
    OnePullRequest
    PublishedAsApproved
    PublicationProved
    VerdictIsFiled
PROPERTIES
    DecisionStands
    ApprovedConcludes
