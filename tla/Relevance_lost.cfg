SPECIFICATION AnalysisSpec
CONSTANTS
    front = front
    back = back
    nvr = nvr
    frontPerson = frontPerson
    frontLinger = frontLinger
    backPerson = backPerson
    person = person
    Sensors <- ThreeSensors
    CameraOf <- TheirCameras
    KindOf <- TheirKinds
    RecorderOf <- TheirRecorders
    Scope = "recorder"
    MergeWindow = 1
    LongestRun = 3
    LagEdges <- Edges
    Open = Open
    LeadIn = 5
    Bins = 4
    BinLength = 1
    Kernel <- ShortKernel
    Fresh = 4
    HalfLife = 1
    Day = 4
    Backoff = 2
    Smoothing = 1
    Floor = 1
    Scale = 60
    MinEvents = 2
    MinDays = 1
    Quantile <- Half
    MarkFloor = 0
    Signal <- Rising
    BandCount = 2
    BandMin = 1
    Unknown = Unknown
    NotBuilt = NotBuilt
    MaxChanges = 4
    MaxTime = 9
INVARIANT EveryDetectionCounts
CHECK_DEADLOCK FALSE
