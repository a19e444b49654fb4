SPECIFICATION Spec
CONSTANTS
    ceo = ceo
    res = res
    pm = pm
    cto = cto
    none = none
    Workers = {ceo, res, pm, cto}
    NoWorker = none
    CEO = ceo
    Role <- MCRole
    Life <- MCLife
    Prio <- MCPrio
    RootKinds = {"research", "product"}
    MaxTasks = 3
    MaxExecs = 5
    MaxActive = 2
    MaxDirect = 3
    MaxFaults = 1
INVARIANTS
    TypeOK
    ProviderFence
    NoLostWakeup
    ResultsFrozen
    RunnersOwnWork
    NoLostKick
    WorkerStatusFresh
    StagesInOrder
PROPERTIES
    FinalAndHeld
    LedgerSpec
CHECK_DEADLOCK FALSE
CONSTRAINT OneCompany
