SPECIFICATION FairSpec
CONSTANTS
    Coords = {c1}
    Leases = {l1, l2}
    NoLease = NoLease
    Torn = Torn
    N = 2
    WriteOutcomes = {"none", "applied", "torn", "late"}
    ClientTimeouts = TRUE
    MaxFaults = 1
CHECK_DEADLOCK FALSE
PROPERTIES AcquireEnds LockIsFreed
