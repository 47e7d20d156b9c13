SPECIFICATION FairSpec
CONSTANTS
    N = 2
    MaxLaunch = 2
    MaxFaults = 3
INVARIANTS CollectionInv AskedAgainOnlyIfLost SummaryIsEarned
PROPERTIES CollectionEnds
CHECK_DEADLOCK FALSE
