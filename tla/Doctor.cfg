SPECIFICATION DoctorSpec
CONSTANTS
    Kind <- MCKind
    MirrorKind <- MCKind
    Mirrors = 1
    MaxBlips = 1
INVARIANT DoctorTypeOK
INVARIANT BrokenIsFound
 
INVARIANT RefusalEndsDeepCheck
 
CHECK_DEADLOCK FALSE
