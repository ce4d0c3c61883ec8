CONSTANTS
    house = house
    barn = barn
    Nvrs = {house}
    MaxSetups = 1
    MaxEdits = 0
    MaxHome = 0
SPECIFICATION Spec
INVARIANT RemovedLeavesNothing
CHECK_DEADLOCK FALSE
