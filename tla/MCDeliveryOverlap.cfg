\* Two overlapping runs and no lock: the store alone must keep them apart.
SPECIFICATION Spec
CONSTANTS
    Runs = {r1, r2}
    NoRun = NoRun
    NumEvents = 3
    Initial = {1}
    Notices = {2, 3}
    Cve <- OneCve
    Webhook = TRUE
    ChunkLimit = 1
    MaxAttempts = 2
    AuthAttempts = 1
    MaxMessages = 1
    MaxParts = 1
    Serialised = FALSE
    MaxRetries = 1
    MaxFaults = 0
INVARIANTS
    AtMostOnce
    LicenceInv
    NoticeOrder
PROPERTIES
    SentIsFinal
SYMMETRY RunSymmetry
CONSTRAINT TwoRows
