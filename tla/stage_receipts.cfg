SPECIFICATION FairSpec
CONSTANTS
    Invocations = {i1, i2}
    Phases = {"quality", "qualification"}
    MaxFaults = 2
CHECK_DEADLOCK FALSE
INVARIANTS StageInv
PROPERTIES StagePromise PhaseEnds
