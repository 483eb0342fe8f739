\* When Run has returned the process is over.
CHECK_DEADLOCK FALSE
CONSTANTS
    Gens = {1, 2, 3}
    Nil = Nil
    Any = Any
    Ids = {"derived", "picked", "other"}
    NoId = NoId
    Identities <- MCIdentities
    MaxConfig = 1
    MaxCommands = 2
SPECIFICATION Spec
INVARIANTS CleanShutdown TargetIsReplaced RebuildSeesConfig
PROPERTIES ShutdownEnds
