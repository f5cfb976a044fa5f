SPECIFICATION Spec
CONSTANTS
    Kind <- MCKind
    Uploader = {u1, u2}
    Process = {p1, p2}
    File <- MCFile
    f1 = f1
    f2 = f2
    NoFile = NoFile
    MaxAttempts = 2
    MaxCalls = 2
    MaxFaults = 2
SYMMETRY MCSymmetry
INVARIANT TypeOK
INVARIANT WholeOrKnown
 
INVARIANT OneObjectPerPath
INVARIANT TempIsTransient
INVARIANT ListingComplete
INVARIANT DownloadsWhole
 
CHECK_DEADLOCK FALSE
