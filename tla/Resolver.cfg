\* A closed resolver is over.
CHECK_DEADLOCK FALSE
CONSTANTS
    Keys = {1, 2}
    Spare = 1
    MaxRevision = 2
    MaxFailures = 1
    MaxSkips = 1
    Malformed = {98}
    Blank = {99}
    MaxOdd = 1
    Run = run
    Refreshers = {f1}
SPECIFICATION ResolverSpec
INVARIANTS OnlyGhosts
PROPERTIES RefreshRepairs
