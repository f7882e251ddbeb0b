\* Runs one after the other, as the operation lock makes them.
SPECIFICATION Spec
CONSTANTS
    Runs = {r1}
    NoRun = NoRun
    NumEvents = 3
    Initial = {1}
    Notices = {3}
    Cve <- OneCve
    Webhook = FALSE
    ChunkLimit = 1
    MaxAttempts = 2
    AuthAttempts = 1
    MaxMessages = 2
    MaxParts = 2
    Serialised = TRUE
    MaxRetries = 1
    MaxFaults = 1
INVARIANTS
    OutboxIsTrue
PROPERTIES
    DoubtIsKept
    KeepsPromise
