SPECIFICATION FairSpec
CONSTANTS
    Starts = {s1, s2}
    Pids = {p1, p2}
    None = None
    Free = Free
    Orphan = Orphan
    Stranger = Stranger
INVARIANTS
    StatusReachesOwner
    NoStatusLost
PROPERTIES
    KeepsPromise
    OrphansCollected
