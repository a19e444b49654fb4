SPECIFICATION FairSpec
CONSTANTS
    ceo = ceo
    res = res
    pm = pm
    cto = cto
    none = none
    Workers = {ceo, res}
    NoWorker = none
    CEO = ceo
    Role <- MCRole
    Life <- MCLife
    Prio <- MCPrio
    RootKinds = {"research"}
    MaxTasks = 2
    MaxExecs = 2
    MaxActive = 1
    MaxDirect = 3
    MaxFaults = 2
PROPERTIES
    ExecutionsEnd
    QueuedWorkStarts
CHECK_DEADLOCK FALSE
