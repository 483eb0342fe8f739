\* One request handler at a time, the goroutine of the hook, one MySQL pool
\* and one client that is created under the lock.
SPECIFICATION Spec
CONSTANTS
    Nil = Nil
    Callers = {h, b}
    Background = b
    Pools = {"mysql"}
    Shared = {"redis"}
    MaxClients = 3
    Configs <- MCConfigs
    Environments <- MCEnvironments
INVARIANTS
    NoStrayClient
    NothingLeaks
    HandlersKeepInfra
    RegisteredIsReachable
PROPERTY
    StopEnds
CHECK_DEADLOCK FALSE
