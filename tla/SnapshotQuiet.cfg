SPECIFICATION Spec
CONSTANTS
    Worker = {w1, w2}
    Path = {p, q}
    Content = {a, b}
    Absent = Absent
    None = None
    LastStamp = 2
    MaxFaults = 1
    Faults = {"upload", "copy", "gc", "sweep", "forget", "migrate", "toBlobs", "drop"}
    Alone = {"gc", "migrate"}
    Meanwhile = {Absent}
INVARIANT TypeOK
PROPERTIES   Swept
SYMMETRY Symmetry
CHECK_DEADLOCK FALSE
