SPECIFICATION FairSpec
CONSTANTS
    Runs = {e1}
    N = 3
    MaxFaults = 1
CHECK_DEADLOCK FALSE
PROPERTIES EpochsAreGuarded StopIsRepeatable
