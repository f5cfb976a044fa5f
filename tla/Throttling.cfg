CONSTANTS
    w1 = w1
    w2 = w2
    w3 = w3
    Worker = {w1, w2, w3}
    Uploads = 3
    MaxWaits = {0, 4}
    Attempts = {2}
    Default = 2
    None = None
    RetryAfter <- MCRetryAfter
    Size = 3
    Blocks = {2}
    Capacity = 1
    Rates = {0, 1}
SPECIFICATION FairSpec
INVARIANT TypeOK
 
PROPERTY EveryUploadEnds
