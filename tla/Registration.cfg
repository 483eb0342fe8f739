\* After a stop, or a start that failed, the component is done.
CHECK_DEADLOCK FALSE
CONSTANTS
    Leases = {l1, l2, l3, l4}
    Nil = Nil
    MaxFaults = 3
SPECIFICATION Spec
INVARIANTS StoppedStaysGone KeptKeyIsRegistered
PROPERTIES LostKeyComesBack
