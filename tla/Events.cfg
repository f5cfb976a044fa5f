CONSTANTS
    Machine = {me, other}
    Me = me
    me = me
    other = other
    Channels = {"log", "topic", "none"}
    MaxLog = 2
    MaxEvents = 2
    MaxFaults = 1
    Overlap = FALSE
    FirstRun = FirstRun
    NoKey = NoKey
    Torn = Torn
SPECIFICATION FairSpec
INVARIANT TypeOK
INVARIANT NothingMissed
INVARIANT LinesKept
PROPERTY LogKeeps
 
CHECK_DEADLOCK FALSE
