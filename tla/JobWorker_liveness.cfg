CONSTANTS
    Jobs = {j1, j2}
    NoJob = NoJob
    MaxJobs = 2
    MaxPulls = 3
SPECIFICATION FairSpec
PROPERTY ExecutionEnds
CHECK_DEADLOCK FALSE
