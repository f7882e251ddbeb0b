\* One small instance of every component.
SPECIFICATION WatchSpec
CONSTANTS
    Nothing = Nothing
    command = command
    serve = serve
    read = read
    probe = probe
    a = a
    b = b
    c = c
    s = s
    u = u
    \* the operation lock
    Procs = {command, serve, read}
    Probes = {probe}
    Nobody = Nobody
    NumPaths = 2
    Needs <- TwoLocations
    SharedProbes = TRUE
    MaxFaults = 1
    \* accounts from the empty database on and for a team of three, two logins at a time
    Names = {a, b, c}
    Addresses = {b}
    Established <- OneTeam
    Roles = {"viewer", "keeper"}
    NoAccount = Nothing
    NoRole = Nothing
    NoOne = Nothing
    Slots = {s, u}
    FailureLimit = 1
    MaxPerUser = 1
    MaxSessions = 1
    MaxTrail = 3
    \* two processes, two files that are ever there
    Handles = {a, b}
    SeededRoles = {s}
    NoHandle = Nothing
    MaxInodes = 2
    \* two reports or withdrawals of one CVE at the same time
    Reports = {a, b}
    People = {s}
    Cves = {c}
    NoReport = Nothing
    MaxRows = 3
    MaxVersion = 1
    \* one message of two parts to a channel of every type
    Kinds = {"post", "telegram", "matrix", "graph", "smtp"}
    Parts = 2
    MaxAttempts = 3
    AuthLimit = 2
    MaxResends = 1
    MaxTests = 1
    \* two records, pages of one, windows of four days that are split above two
    Records = {1, 2}
    Modes = {"backfill", "baseline"}
    Backfill = 9
    PageSize = 1
    WindowDays = 4
    MinSplit = 2
    Attempts = 2
    Overlap = 2
    Lag = 1
    MaxTime = 16
    \* three days of EPSS files, two syncs, a budget of three seconds
    Retries = 1
    ThrottleMax = 3
    Budget = 3
    Delays = {1, 2}
    MaxDelay = 2
    Pages = 2
    Sizes = {1, 3}
    MaxDay = 3
    MaxSyncs = 2
    \* one CVE and two advisories that may be linked with it, two scans
    ScanCves = {1}
    Advisories = {2, 3}
    Enabled = {"osv", "nvd", "cve_list", "euvd", "cisa_kev"}
    Outages = {"osv", "cisa_kev"}
    IdentityPaths = {"package", "product"}
    Channels = {"teams"}
    Says = {"affected", "not_affected"}
    MaxChanges = 1
    MaxScans = 2
INVARIANTS
    LockInv
    SingleFlight
    HolderIsNamed
    SomebodyWorks
    TransportsSafe
PROPERTIES
    AccountsSafe
    AccountFileSafe
    ReportTrailSafe
    NvdScanSafe
    FeedsSafe
    InventoryScanSafe
CHECK_DEADLOCK FALSE
