SPECIFICATION Spec
CONSTANTS
    Runs = {e1, e2}
    N = 2
    MaxFaults = 1
SYMMETRY Symmetry
CHECK_DEADLOCK FALSE
INVARIANTS LaunchInv TeardownAfterGuards
PROPERTIES ReadyIsOwnServer
