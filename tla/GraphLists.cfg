SPECIFICATION Spec
CONSTANTS
    a = a
    b = b
    c = c
    d = d
    Names = {a, b, c, d}
    MaxDeps = 2
    MaxAdds = 4
    Duplicates = FALSE
INVARIANTS
    DependentsMirror
    RefusesOnlyCycles
    TiersAreTight
CHECK_DEADLOCK FALSE
