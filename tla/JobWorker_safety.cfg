CONSTANTS
    Jobs = {j1, j2, j3}
    NoJob = NoJob
    MaxJobs = 2
    MaxPulls = 5
SPECIFICATION Spec
SYMMETRY Symmetry
INVARIANTS
    BoundedBacklog
    PingedWhileHandled
    OneDirectoryEach
    LostLockHasACause
CHECK_DEADLOCK FALSE
