SPECIFICATION Spec
CONSTANTS
    Daemons = {d1, d2}
    Pids = {p1, p2}
    Inodes = {i1, i2}
    None = None
    Free = Free
    Orphan = Orphan
    Stranger = Stranger
    MaxUses = 2
    MaxBoots = 1
    MaxCrashes = 2
SYMMETRY Symmetry
CONSTRAINTS Alone TwoInABoot
INVARIANTS OneDaemon  
PROPERTIES IdentifiedIsRecorded 
