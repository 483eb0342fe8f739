\* No call begins once the counter has reached MaxSequence.
CHECK_DEADLOCK FALSE
CONSTANTS
    Builders = {c1, c2, c3}
    Clock = {1, 3}
    MaxSequence = 4
SPECIFICATION SequenceSpec
PROPERTIES NumbersAreUnique NumbersFollowRealTime
