SPECIFICATION Spec
CONSTANTS
    Invocations = {i1, i2}
    Phases = {"primary", "quality", "qualification"}
    MaxFaults = 1

PROPERTIES FailedStageIsRefused
CHECK_DEADLOCK FALSE
