SPECIFICATION LogSpec
CONSTANTS
    MaxBytes = 2
    Lengths = {1, 3}
    MaxBackups = 3
    MaxLines = 5
    MaxFaults = 2
    MaxOpens = 3
    Absent = Absent
INVARIANTS
    
    FilesBounded
CHECK_DEADLOCK FALSE
