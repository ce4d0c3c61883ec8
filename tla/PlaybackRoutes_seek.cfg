CONSTANTS
    nvr = nvr
    hub = hub
    cam = cam
    front = front
    q1 = q1
    q2 = q2
    Listed <- MCListed
    KindOf <- MCKindOf
    Places <- MCPlaces
    Uid <- MCUid
    Serves <- MCServes
    Requests <- MCRequests
    MaxChanges = 0
    NoUid = NoUid
    NoPlace = NoPlace
    NoRoute = NoRoute
    NoEntry = NoEntry
SYMMETRY Alike
SPECIFICATION Spec
INVARIANTS
    SeekAppliedOnce
