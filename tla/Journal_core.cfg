SPECIFICATION FairSpec
CONSTANTS
    MaxRows = 2
    MaxLives = 2
    FlushRows = 2
    ChunkRows = 1
    SignalSets = {none, home}
    NoSignals = none
    NoMark = never
INVARIANTS TypeOK NothingSlipsAway BufferIsAttended RemovedStaysRemoved
PROPERTIES TransitionsAreWritten
CHECK_DEADLOCK FALSE
