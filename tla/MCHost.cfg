\* One small instance of every component.
SPECIFICATION HostSpec
CONSTANTS
    None = None
    Nobody = Nobody
    Nothing = Nothing
    NoRunner = NoRunner
    Broken = Broken
    Missing = Missing
    BeginLine = BeginLine
    EndLine = EndLine
    Separator = Separator
    Blank = Blank
    Entry = Entry
    a = a
    g = g
    c = c
    d = d
    \* the receiver
    Clients = {a, g}
    Packs <- TwoPacks
    Workers = {c, d}
    Attempts = 2
    FailureLimit = 1
    MaxAge = 2
    MaxTime = 2
    MaxCrashes = 1
    \* one editor, one backup to keep
    People = {a}
    KeepBackups = 1
    MaxVersion = 2
    MaxBackups = 2
    \* one page and one shell
    Browsers = {a}
    Shells = {g}
    Plans <- ThreePlans
    Systems = {"linux", "windows"}
    MaxOps = 2
    MaxEdits = 1
    \* two runners, one file and one collected source, two runs
    Runners = {a, g}
    Local = {"file"}
    Pulled = {"host"}
    Required = {"host"}
    MaxRuns = 2
    \* two collections of each kind of source, an observation that expires
    Origins = {"kubernetes", "registry", "ssh"}
    Images = {"i", "j"}
    Wanted = "i"
    Artifacts = {"a", "b"}
    Subject <- OneSubject
    PageOf <- TwoPages
    Pin <- NoPin
    Pages = 2
    AllowPartial = TRUE
    MaxObservedAge = 0
    MaxClock = 1
    MaxPushes = 2
    \* two calls, of which one may run
    Calls = {a, g}
    Capacity = 1
    \* two targets with two ports each, three runs
    Targets = {a, g}
    Ports = {1, 2}
    MaxDiscoveries = 3
    MaxChanges = 2
    \* two assets, two threads, one retry
    Assets = {"a", "b"}
    Host <- TwoHosts
    Privates = {"b"}
    MaxRedirects <- OneRedirects
    Threads = 2
    Retries = 1
    AssetTimeout = 3
    RunTimeout = 3
    PublishesPartial = FALSE
    MaxSeconds = 3
INVARIANTS
    IngestInv
    CollectSafe
    ProcessRunSafe
    DiscoverySafe
    WebDetectSafe
PROPERTIES
    
    ScheduleSafe
    
CHECK_DEADLOCK FALSE
