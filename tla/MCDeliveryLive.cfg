\* Every queued event is resolved, whatever fails a bounded number of times.
SPECIFICATION FairSpec
CONSTANTS
    Runs = {r1}
    NoRun = NoRun
    NumEvents = 2
    Initial = {}
    Notices = {1, 2}
    Cve <- OneCve
    Webhook = FALSE
    ChunkLimit = 1
    MaxAttempts = 2
    AuthAttempts = 1
    MaxMessages = 1
    MaxParts = 1
    Serialised = TRUE
    MaxRetries = 1
    MaxFaults = 1
PROPERTIES
    EventuallyResolved
