CONSTANTS
    j1 = j1
    j2 = j2
    j3 = j3
    Jobs <- PairJobs
    Ordinary <- PairOrdinary
    Size <- PairSize
    Recorded <- PairRecorded
    Quota = 1
    MaxSlots = 2
    MaxAttempts = 2
    MaxLooks = 2
    MaxStarts = 2
    NoJob = NoJob
SPECIFICATION Spec
PROPERTIES
    StoppingLosesNothing
CHECK_DEADLOCK FALSE
