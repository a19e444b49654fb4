SPECIFICATION FairSpec
CONSTANTS
    e1 = e1
    e2 = e2
    cto = cto
    reviewer = reviewer
    Deliveries = {1}
    Engineers = {e1, e2}
    Temporary = {}
    CTO = cto
    Reviewer = reviewer
    MaxWriters = 2
    MaxReviewRounds = 2
    MaxActive = 2
    MaxFaults = 9
    MaxBatch = 2
INVARIANTS
    TypeOK
    BranchRecorded
    FrozenUnderReview
    NoLostWakeup
PROPERTIES
    TrustedSpec
    QueuedIntegrationSettles
