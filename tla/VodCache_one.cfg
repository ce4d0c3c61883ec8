CONSTANTS
    porch = porch
    card = card
    recorder = recorder
    Cameras <- OneCamera
    Devices <- RecorderOnly
    Own <- LoneOwn
    Partner <- LonePartner
    Dates = {0}
    DayLength = 2
    Concurrent = 1
    TtlToday = 1
    TtlPast = 3
    TtlError = 1
    Panels = {p1}
    MaxTime = 0
    MaxFetches = 3
    NoDevice = NoDevice
    NoRecord = NoRecord
    NotTold = NotTold
SPECIFICATION Spec
INVARIANTS
    OneFetchPerDay
CHECK_DEADLOCK FALSE
