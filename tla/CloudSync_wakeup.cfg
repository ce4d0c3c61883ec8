CONSTANTS
    j1 = j1
    j2 = j2
    j3 = j3
    Jobs <- PairJobs
    Ordinary <- PairOrdinary
    Size <- PairSize
    Recorded <- PairRecorded
    Quota = 1
    MaxSlots = 1
    MaxAttempts = 2
    MaxLooks = 2
    MaxStarts = 1
    NoJob = NoJob
SPECIFICATION FairSpec
PROPERTIES
    QueuedIsTaken
CHECK_DEADLOCK FALSE
