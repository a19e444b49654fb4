SPECIFICATION EffectsSpec
CONSTANTS
    Staff = {w}
    Nix = nix
    OpBound = 2
    ChoreBound = 2
    Documents = {d1}
    ActionBound = 2
    ReconcileBound = 1
    CommitBound = 2
    PublicationBound = 2
    Sessions = {s1, s2}
    Lookups = 2
    Grants = 2
    Turns = 2
    Questions = {q1, q2}
    Attempts = 2
    CreateOps = {c1, c2}
    DisableOps = {x1}
    PrepareOps = {p1}
    RevokeOps = {v1}
    WriteOps = {e1}
    CommitOps = {m1}
    MaxGrants = 2
    MaxTurns = 2
    GrantTicks = 1
    DayTicks = 1
    LastTick = 1
    JournalRoom = 13
    MaxOps = 3
    MaxTries = 2
    Controls = {k1, k2}
    LastHour = 2
    QuestionHours = 1
    Retention = 1
    Freshness = 1
CONSTRAINT Followed
SYMMETRY EffectsSymmetry
INVARIANTS
    EffectsTypeOK
    HostTold
    OutcomesTrue
    UnknownFences
PROPERTIES
    AskTrue
    HostKept
CHECK_DEADLOCK FALSE
