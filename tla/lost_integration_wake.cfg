SPECIFICATION Spec
CONSTANTS
    e1 = e1
    e2 = e2
    cto = cto
    reviewer = reviewer
    Deliveries = {1}
    Engineers = {e1}
    Temporary = {}
    CTO = cto
    Reviewer = reviewer
    MaxWriters = 2
    MaxReviewRounds = 1
    MaxActive = 2
    MaxFaults = 9
    MaxBatch = 1
INVARIANT WaitingHasIntegration
