CONSTANTS
    porch = porch
    card = card
    recorder = recorder
    Cameras <- OneCamera
    Devices <- RecorderOnly
    Own <- LoneOwn
    Partner <- LonePartner
    Dates = {0}
    DayLength = 2
    Concurrent = 1
    TtlToday = 1
    TtlPast = 3
    TtlError = 1
    Panels = {p1}
    MaxTime = 3
    MaxFetches = 1
    NoDevice = NoDevice
    NoRecord = NoRecord
    NotTold = NotTold
SPECIFICATION Spec
INVARIANTS
    FreshMeansComplete
CHECK_DEADLOCK FALSE
