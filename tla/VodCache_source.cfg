CONSTANTS
    porch = porch
    card = card
    recorder = recorder
    Cameras <- OneCamera
    Devices <- BothDevices
    Own <- OneOwn
    Partner <- OnePartner
    Dates = {0, 1}
    DayLength = 2
    Concurrent = 1
    TtlToday = 1
    TtlPast = 3
    TtlError = 1
    Panels = {p1}
    MaxTime = 2
    MaxFetches = 1
    NoDevice = NoDevice
    NoRecord = NoRecord
    NotTold = NotTold
SPECIFICATION Spec
PROPERTIES
    SourceIsRemembered
CHECK_DEADLOCK FALSE
