CONSTANTS
    Jobs = {j1, j2}
    Workers = {w1}
    NoJob = NoJob
    MaxCrashes = 1
    MaxRequeues = 1
SPECIFICATION Spec
SYMMETRY Symmetry
INVARIANT SpoolInv
CHECK_DEADLOCK FALSE
