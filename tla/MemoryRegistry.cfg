\* Channels with room for one event, so that they are often full.
SPECIFICATION MemorySpec
CONSTANTS
    Absent = Absent
    Ids = {"a", "b"}
    Addresses = {1}
    Watchers = {w}
    Slack = 1
    OutCapacity = 1
INVARIANTS
    ViewIsExact
PROPERTY
    WatchEnds
