CONSTANTS
    Process = {p1, p2, p3}
    File = {f1}
    NoEntry = NoEntry
    Corrupt = Corrupt
    Nobody = Nobody
    MaxSyncs = 2
SPECIFICATION Spec
SYMMETRY Symmetry
INVARIANT TypeOK
PROPERTY AddsLand
 
CHECK_DEADLOCK FALSE
