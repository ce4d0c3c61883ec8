CONSTANTS
    porch = porch
    drive = drive
    porchPerson = porchPerson
    porchVehicle = porchVehicle
    driveVehicle = driveVehicle
    person = person
    vehicle = vehicle
    Cameras <- OneCamera
    Sensors <- OneSensors
    CameraOf <- OneCameraOf
    Kinds <- OneKinds
    KindOf <- OneKindOf
    Resolutions <- OneResolutions
    Unusual = FALSE
    Lead = 1
    Tail = 1
    Settle = 1
    Maximum = 2
    SweepEvery = 3
    MaxTime = 4
    NoWindow = NoWindow
    NoTimer = NoTimer
    NoDetection = NoDetection
SPECIFICATION Spec
INVARIANTS
    TypeOK
    DetectionsCovered
    OneVisitOneClip
    GathersOnlyWhenAsked
CHECK_DEADLOCK FALSE
