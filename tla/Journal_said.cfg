SPECIFICATION Spec
CONSTANTS
    MaxRows = 2
    MaxLives = 2
    FlushRows = 2
    ChunkRows = 1
    SignalSets = {none, home}
    NoSignals = none
    NoMark = never
PROPERTIES StampsKeepWhatWasSaid
CHECK_DEADLOCK FALSE
