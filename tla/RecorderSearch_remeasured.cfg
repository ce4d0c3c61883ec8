SPECIFICATION Spec
CONSTANTS
    person = person
    animal = animal
    personSensor = personSensor
    catSensor = catSensor
    Sensors <- AllSensors
    ChannelOf <- Channels
    KeyOf <- Keys
    Subjects <- SubjectKinds
    Recorders <- SmallRecorders
    Camera = 0
    DayEnd = 3
    Lookback = 1
    Longest = 2
    Covered <- ThreeQuarters
    Meaningful = 1
    Eve = 1
    MaxTime = 4
    MaxFilms = 3
    MaxEdges = 1
    MaySearchAgain = FALSE
    SummerHour = 1
    Timer = timer
    Flags = {timer}
    NoKind = NoKind
    None = None
    Whole = Whole
INVARIANT JudgementIsKept
CHECK_DEADLOCK FALSE
