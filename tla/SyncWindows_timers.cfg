CONSTANTS
    porch = porch
    drive = drive
    porchPerson = porchPerson
    porchVehicle = porchVehicle
    driveVehicle = driveVehicle
    person = person
    vehicle = vehicle
    Cameras <- TwoCameras
    Sensors <- TwoSensors
    CameraOf <- TwoCameraOf
    Kinds <- OneKinds
    KindOf <- TwoKindOf
    Resolutions <- TwoResolutions
    Unusual = TRUE
    Lead = 1
    Tail = 1
    Settle = 2
    Maximum = 4
    SweepEvery = 3
    MaxTime = 8
    NoWindow = NoWindow
    NoTimer = NoTimer
    NoDetection = NoDetection
SPECIFICATION Spec
VIEW Watching
INVARIANTS
    QuietHasTimer
    WindowsAreBounded
PROPERTIES
    AdmissionDecidedOnce
CHECK_DEADLOCK FALSE
