SPECIFICATION FairSpec
CONSTANTS
    N = 4
    MaxFaults = 2
    MaxTriggers = 2
CHECK_DEADLOCK FALSE
INVARIANTS RingInv
PROPERTIES EpochGoesDown EpochSpec
