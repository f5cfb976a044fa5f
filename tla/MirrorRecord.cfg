CONSTANTS
    File = {1}
    Mirror = {b1, b2}
    Content = {c1, c2}
    NoFile = NoFile
    NoEntry = NoEntry
    Unseen = Unseen
    NoTarget = NoTarget
    MaxAttempts = 2
    QueueCap = 1
    MaxCrashes = 1
    MaxConfigs = 2
SPECIFICATION Spec
SYMMETRY Symmetry
INVARIANT TypeOK
INVARIANT OkMeansMirrored
CHECK_DEADLOCK FALSE
