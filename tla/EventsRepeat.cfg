CONSTANTS
    Machine = {me, other}
    Me = me
    me = me
    other = other
    Channels = {"log"}
    MaxLog = 2
    MaxEvents = 1
    MaxFaults = 0
    Overlap = FALSE
    FirstRun = FirstRun
    NoKey = NoKey
    Torn = Torn
SPECIFICATION Spec
INVARIANT OnlyNewEvents
CHECK_DEADLOCK FALSE
