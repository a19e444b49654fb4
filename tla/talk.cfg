SPECIFICATION TalkSpec
CONSTANTS
    Talkers = {w1, w2}
    Human = human
    ConvBound = 2
    ReplyBound = 3
    ChangeBound = 1
    SessionBound = 2
    QueuedWorker = 2
    TurnsPerSession = 1
    Circle = {f, s}
    Facilitator = f
    Synthesizers = {s}
    GroupTurns = 9
    GroupRounds = 1
    Extensions = 1
    ExtensionTurns = 2
    SynthesisTurns = 2
    ReservedTurns = 2
    HardTurns = 11
    HardRounds = 2
    InterventionBound = 1
    MaxExecutions = 3
    MaxTasks = 1
    MaxGroups = 1
    MaxPending = 1
    GroupExecutions = 1
    MaxCycles = 2
    MaxOccurrences = 2
    CycleTime = 2
    Interval = 1
    Failures = 1
    ClockBound = 3
    OwnerBound = 1
    Devices = {d1}
    Keys = {k1}
    Handlers = {h1, h2}
    PairingTime = 1
    ChallengeTime = 1
    TokenTime = 2
    RetryTime = 2
    EventsKept = 1
    ClientClock = 2
    EventBound = 2
    CallBudget = 2
    Corrections = 1
    RequestBound = 3
CONSTRAINT TalkFollowed
SYMMETRY TalkerSymmetry
INVARIANTS
    TalkTypeOK
    NoOrphanContinuation
    PrivateContext
    GroupsConclude
    ReviewsKept
    TurnTold
PROPERTIES
    AnsweredOnce
    ClientsTold
CHECK_DEADLOCK FALSE
