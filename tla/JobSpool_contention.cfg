CONSTANTS
    Jobs = {j1}
    Workers = {w1, w2}
    NoJob = NoJob
    MaxCrashes = 2
    MaxRequeues = 2
SPECIFICATION FairSpec
INVARIANTS
    NoSilentLoss
    DeliveriesAccounted
    GhostsHaveACause
PROPERTIES
    AbandonedJobReturns
    OrphansReclaimed
    ImplementsQueue
CHECK_DEADLOCK FALSE
