SPECIFICATION RemoteSpec
CONSTANTS
    CommitBound = 2
    PublicationBound = 2
INVARIANT NewApprovalPossible
CHECK_DEADLOCK FALSE
