\* The writes are bounded and a cancelled watch is over.
CHECK_DEADLOCK FALSE
CONSTANTS
    Keys = {1, 2}
    Spare = 1
    MaxRevision = 4
    MaxFailures = 2
    MaxSkips = 1
    Malformed = {98}
    Blank = {99}
    MaxOdd = 1
SPECIFICATION Spec
INVARIANTS EventsAreSnapshot SnapshotIsHistory HealthyIsHonest
PROPERTIES CatchesUp
