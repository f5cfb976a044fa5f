CONSTANTS
    Machine = {m1, m2}
    File = {f1}
    NoFile = NoFile
    NoEntry = NoEntry
    None = None
    Mangled = Mangled
    Content = {c1, c2}
    Binary = {}
    Answers <- Decided
    Commands = {"sync", "push", "force", "pull"}
    Mirrored = TRUE
    MissingRaises = {}
    Overlap = FALSE
    FreshEdits = TRUE
    MaxFaults = 1
SPECIFICATION FairSpec
INVARIANT InSyncAgrees
PROPERTY NoSilentOverwrite
 
 
CHECK_DEADLOCK FALSE
