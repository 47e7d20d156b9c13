SPECIFICATION Spec
CONSTANTS
    Coords = {c1, c2}
    Leases = {l1, l2}
    NoLease = NoLease
    Torn = Torn
    N = 2
    WriteOutcomes = {"none", "applied", "torn"}
    ClientTimeouts = FALSE
    MaxFaults = 2
CHECK_DEADLOCK FALSE
SYMMETRY Symmetry
INVARIANTS LeaseInv AdmittedRowIsGuarded UnlockedIsInactiveUnlessFaulty
PROPERTIES ReleaseQuiesces PromiseSpec
