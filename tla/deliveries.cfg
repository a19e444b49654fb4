SPECIFICATION Spec
CONSTANTS
    e1 = e1
    e2 = e2
    cto = cto
    reviewer = reviewer
    Deliveries = {1, 2}
    Engineers = {e1, e2}
    Temporary = {}
    CTO = cto
    Reviewer = reviewer
    MaxWriters = 2
    MaxReviewRounds = 1
    MaxActive = 2
    MaxFaults = 1
    MaxBatch = 1
INVARIANTS
    DeliveredWork
    OneLiveAllocation
CONSTRAINT FewFaults
SYMMETRY EngineerSymmetry
