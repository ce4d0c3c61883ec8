CONSTANTS
    j1 = j1
    j2 = j2
    j3 = j3
    Jobs <- MCJobs
    Ordinary <- MCOrdinary
    Size <- MCSize
    Recorded <- MCRecorded
    Quota = 2
    MaxSlots = 2
    MaxAttempts = 2
    MaxLooks = 2
    MaxStarts = 1
    NoJob = NoJob
SPECIFICATION Spec
INVARIANTS
    QuotaHolds
CHECK_DEADLOCK FALSE
