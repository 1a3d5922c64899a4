SPECIFICATION Spec
CONSTANTS
    a = a
    b = b
    c = c
    x = x
    here = here
    there = there
    Programs = {a, b, c}
    Missing = {x}
    Configs <- AllConfigs
    HealthChecked = {}
    Always = {b}
    File <- Files
INVARIANTS
    AcceptedCanAllStart
    CircularIsReal
