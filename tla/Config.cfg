\* Two processes with any two of the inputs, two loads each, one edit of an
\* operator and one fault.
SPECIFICATION Spec
CONSTANTS
    Nil = Nil
    Procs = {p1, p2}
    Inputs <- MCInputs
    Edits <- MCEdits
    Misread <- MCMisread
    Unreadable <- MCUnreadable
    MaxLoads = 2
    MaxEdits = 1
    MaxFaults = 1
INVARIANTS
    SeedsAgree
PROPERTIES
    NeverOverwrites
    RestartIsStable
CHECK_DEADLOCK FALSE
