SPECIFICATION FairSpec
CONSTANTS
    Helpers = {h1}
    Limit = 1
    MaxChunks = 2
    MaxFaults = 1
CHECK_DEADLOCK FALSE
INVARIANTS SandboxInv VerdictIsEarned GoodProgramPasses
PROPERTIES DriverEnds
