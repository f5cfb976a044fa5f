CONSTANTS
    p1 = p1
    p2 = p2
    c1 = c1
    c2 = c2
    Process = {p1, p2}
    Snapshots = 2
    Content = {c1, c2}
    Recorded <- MCRecorded
    Layouts <- MCLayouts
    Kinds = {"snapshot", "as-of", "all", "live"}
    MaxOpen = 1
    MaxCached = 1
    MaxMounts = 2
    MaxFaults = 1
    MaxChanges = 1
    Gone = Gone
    None = None
SPECIFICATION Spec
SYMMETRY Symmetry
INVARIANT TypeOK
 
CHECK_DEADLOCK FALSE
