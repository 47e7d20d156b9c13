SPECIFICATION FairSpec
CONSTANTS
    LowMemorySamples = 2
    SwapWindow = 2
    SwapLimit = 0
    HardFloor = 1
    ReserveFloor = 2
    AdmissionFloor = 2
    WarningFloor = 3
    AllowLoadSwap = TRUE
    PressureAdmissionOnly = TRUE
    JournalRotates = TRUE
    MaxMem = 3
    MaxSwap = 1
    MaxOom = 1
    MaxNvrm = 1
CHECK_DEADLOCK FALSE
INVARIANTS GuardInv AdmissibleRowIsSafe
PROPERTIES HardSignalStops
