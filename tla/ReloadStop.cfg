SPECIFICATION Spec
CONSTANTS
    a = a
    b = b
    x = x
    y = y
    Names = {a}
    Defs = {x, y}
    Autostart = {x}
    Files <- OneFile
    Hup = Hup
    Reloaders = {Hup, Ipc}
    Clients = {c1}
    Workers = {w1, w2}
    MaxReloads = 2
    MaxOps = 1
    None = None
INVARIANT OperatorsWordSurvives
