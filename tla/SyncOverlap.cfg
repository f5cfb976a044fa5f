CONSTANTS
    Machine = {m1, m2}
    File = {f1}
    NoFile = NoFile
    NoEntry = NoEntry
    None = None
    Mangled = Mangled
    Content = {c1, c2, c3}
    Binary = {}
    Answers <- Interactive
    Commands = {"sync", "push", "force", "pull"}
    Mirrored = TRUE
    MissingRaises = {"delete"}
    Overlap = TRUE
    FreshEdits = TRUE
    MaxFaults = 0
SPECIFICATION Spec
SYMMETRY Symmetry
INVARIANT TypeOK
PROPERTY GuardedOverwrite
PROPERTY PullSparesEdits
CHECK_DEADLOCK FALSE
