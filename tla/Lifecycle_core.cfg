CONSTANTS
    house = house
    barn = barn
    Nvrs = {house, barn}
    MaxSetups = 2
    MaxEdits = 1
    MaxHome = 1
SYMMETRY Alike
SPECIFICATION Spec
INVARIANTS
    OnlyFailuresLeak
    LoadedIsCurrent
CHECK_DEADLOCK FALSE
