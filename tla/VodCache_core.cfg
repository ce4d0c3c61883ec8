CONSTANTS
    porch = porch
    card = card
    recorder = recorder
    Cameras <- OneCamera
    Devices <- BothDevices
    Own <- OneOwn
    Partner <- OnePartner
    Dates = {0}
    DayLength = 2
    Concurrent = 1
    TtlToday = 1
    TtlPast = 3
    TtlError = 1
    Panels = {p1}
    MaxTime = 1
    MaxFetches = 2
    NoDevice = NoDevice
    NoRecord = NoRecord
    NotTold = NotTold
SPECIFICATION FairSpec
INVARIANTS
    TypeOK
    PanelsSeeTheCache
PROPERTIES
    FailureKeepsFiles
    UpdatingEnds
CHECK_DEADLOCK FALSE
