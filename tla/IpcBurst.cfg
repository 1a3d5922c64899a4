SPECIFICATION FairSpec
CONSTANTS
    Clients = {c1, c2, c3}
    MaxSlots = 1
    None = None
INVARIANT NothingIsCutOff
PROPERTIES NoAddDuringWait BurstIsServed StopEnds
