-------------------------- MODULE WatchComponents ---------------------------
(***************************************************************************)
(* The watcher's components that share no state with each other: accounts, *)
(* the account database, the report trail, channel transports, the NVD     *)
(* scan, feeds and inventory scans.                                        *)
(*                                                                         *)
(* This is their sum: a behaviour is a behaviour of one of them, which     *)
(* "part" names, and the variables of the others stay Nothing.  Names that *)
(* several components use are told apart here.                             *)
(***************************************************************************)
EXTENDS Integers

CONSTANTS
    Nothing,
    Names, Addresses, Roles, NoAccount, NoRole, NoOne, Slots, FailureLimit, MaxPerUser, MaxSessions,
    Established, MaxTrail,
    Handles, SeededRoles, NoHandle, MaxInodes,
    Reports, People, Cves, NoReport, MaxRows, MaxVersion,
    Kinds, Parts, MaxAttempts, AuthLimit, MaxResends, MaxTests,
    Records, Modes, Backfill, PageSize, WindowDays, MinSplit, Attempts, Overlap, Lag, MaxTime,
    Retries, ThrottleMax, Budget, Delays, MaxDelay, Pages, Sizes, MaxDay, MaxSyncs,
    ScanCves, Advisories, Enabled, Outages, IdentityPaths, Channels, Says, MaxChanges, MaxScans

VARIABLES
    part,
    account, role, entries, last, verifying, sessions, local, proofs, tried,
    path, files, lock, opening, opened, found, id, next, deleted,
    identity, trail, schema, boundary, reporters, users, watch, call, altered,
    kind, item, send, wire, answer, seen, copies, whole, logins, resends, tests, cause, ids,
    now, history, stored, cursor, marks, from, run,
    today, published, scores, sync, throttle, syncs, early,
    assetPath, target, world, changes, rows, ledger, events, channel, completed, attempt, scan,
    tx, took, since

Accounts == INSTANCE Accounts
AccountFile == INSTANCE AccountFile WITH DefaultRoles <- SeededRoles, pc <- opening, seen <- found
ReportTrail == INSTANCE ReportTrail WITH account <- reporters
Transports == INSTANCE Transports
NvdScan == INSTANCE NvdScan WITH meta <- marks
Feeds == INSTANCE Feeds WITH run <- sync
InventoryScan == INSTANCE InventoryScan WITH
    None <- Nothing, Cves <- ScanCves, Paths <- IdentityPaths,
    path <- assetPath, run <- completed

\* What the components assume of their constants.
ASSUME ComponentAssumptions ==
    /\ Accounts!AccountsAssumption /\ AccountFile!AccountFileAssumption
    /\ ReportTrail!ReportTrailAssumption /\ Transports!TransportsAssumption
    /\ NvdScan!NvdAssumption /\ NvdScan!Prompt
    /\ Feeds!FeedsAssumption /\ InventoryScan!InventoryScanAssumption
-----------------------------------------------------------------------------
(* The variables of the components that do not run. *)

NoAccounts ==
    account = Nothing /\ role = Nothing /\ entries = Nothing /\ last = Nothing
    /\ verifying = Nothing /\ sessions = Nothing /\ local = Nothing /\ proofs = Nothing
    /\ tried = Nothing
NoAccountFile ==
    path = Nothing /\ files = Nothing /\ lock = Nothing /\ opening = Nothing
    /\ opened = Nothing /\ found = Nothing /\ id = Nothing /\ next = Nothing
    /\ deleted = Nothing
NoReportTrail ==
    identity = Nothing /\ trail = Nothing /\ schema = Nothing /\ boundary = Nothing
    /\ reporters = Nothing /\ users = Nothing /\ watch = Nothing /\ call = Nothing
    /\ altered = Nothing
NoTransports ==
    kind = Nothing /\ item = Nothing /\ send = Nothing /\ wire = Nothing /\ answer = Nothing
    /\ seen = Nothing /\ copies = Nothing /\ whole = Nothing /\ logins = Nothing
    /\ resends = Nothing /\ tests = Nothing /\ cause = Nothing /\ ids = Nothing
NoNvdScan ==
    now = Nothing /\ history = Nothing /\ stored = Nothing /\ cursor = Nothing
    /\ marks = Nothing /\ from = Nothing /\ run = Nothing
NoFeeds ==
    today = Nothing /\ published = Nothing /\ scores = Nothing /\ sync = Nothing
    /\ throttle = Nothing /\ syncs = Nothing /\ early = Nothing
NoInventoryScan ==
    assetPath = Nothing /\ target = Nothing /\ world = Nothing /\ changes = Nothing
    /\ rows = Nothing /\ ledger = Nothing /\ events = Nothing /\ channel = Nothing
    /\ completed = Nothing /\ attempt = Nothing /\ scan = Nothing /\ tx = Nothing
    /\ took = Nothing /\ since = Nothing

accountVars == <<account, role, entries, last, verifying, sessions, local, proofs, tried>>
fileVars == <<path, files, lock, opening, opened, found, id, next, deleted>>
trailVars == <<identity, trail, schema, boundary, reporters, users, watch, call, altered>>
transportVars ==
    <<kind, item, send, wire, answer, seen, copies, whole, logins, resends, tests, cause, ids>>
nvdVars == <<now, history, stored, cursor, marks, from, run>>
feedVars == <<today, published, scores, sync, throttle, syncs, early>>
scanVars ==
    <<assetPath, target, world, changes, rows, ledger, events, channel, completed, attempt,
      scan, tx, took, since>>
componentVars ==
    <<accountVars, fileVars, trailVars, transportVars, nvdVars, feedVars, scanVars>>

ComponentsInit ==
    \/ /\ part = "accounts" /\ Accounts!Init
       /\ NoAccountFile /\ NoReportTrail /\ NoTransports /\ NoNvdScan /\ NoFeeds
       /\ NoInventoryScan
    \/ /\ part = "account_file" /\ AccountFile!Init
       /\ NoAccounts /\ NoReportTrail /\ NoTransports /\ NoNvdScan /\ NoFeeds
       /\ NoInventoryScan
    \/ /\ part = "report_trail" /\ ReportTrail!Init
       /\ NoAccounts /\ NoAccountFile /\ NoTransports /\ NoNvdScan /\ NoFeeds
       /\ NoInventoryScan
    \/ /\ part = "transports" /\ Transports!Init
       /\ NoAccounts /\ NoAccountFile /\ NoReportTrail /\ NoNvdScan /\ NoFeeds
       /\ NoInventoryScan
    \/ /\ part = "nvd_scan" /\ NvdScan!Init
       /\ NoAccounts /\ NoAccountFile /\ NoReportTrail /\ NoTransports /\ NoFeeds
       /\ NoInventoryScan
    \/ /\ part = "feeds" /\ Feeds!Init
       /\ NoAccounts /\ NoAccountFile /\ NoReportTrail /\ NoTransports /\ NoNvdScan
       /\ NoInventoryScan
    \/ /\ part = "inventory_scan" /\ InventoryScan!Init
       /\ NoAccounts /\ NoAccountFile /\ NoReportTrail /\ NoTransports /\ NoNvdScan /\ NoFeeds

AccountsNext ==
    /\ part = "accounts" /\ Accounts!Next
    /\ UNCHANGED <<part, fileVars, trailVars, transportVars, nvdVars, feedVars, scanVars>>
AccountFileNext ==
    /\ part = "account_file" /\ AccountFile!Next
    /\ UNCHANGED <<part, accountVars, trailVars, transportVars, nvdVars, feedVars, scanVars>>
ReportTrailNext ==
    /\ part = "report_trail" /\ ReportTrail!Next
    /\ UNCHANGED <<part, accountVars, fileVars, transportVars, nvdVars, feedVars, scanVars>>
TransportsNext ==
    /\ part = "transports" /\ Transports!Next
    /\ UNCHANGED <<part, accountVars, fileVars, trailVars, nvdVars, feedVars, scanVars>>
NvdScanNext ==
    /\ part = "nvd_scan" /\ NvdScan!Next
    /\ UNCHANGED <<part, accountVars, fileVars, trailVars, transportVars, feedVars, scanVars>>
FeedsNext ==
    /\ part = "feeds" /\ Feeds!Next
    /\ UNCHANGED <<part, accountVars, fileVars, trailVars, transportVars, nvdVars, scanVars>>
InventoryScanNext ==
    /\ part = "inventory_scan" /\ InventoryScan!Next
    /\ UNCHANGED <<part, accountVars, fileVars, trailVars, transportVars, nvdVars, feedVars>>

ComponentsNext ==
    \/ AccountsNext \/ AccountFileNext \/ ReportTrailNext \/ TransportsNext \/ NvdScanNext
    \/ FeedsNext \/ InventoryScanNext

ComponentsSpec == ComponentsInit /\ [][ComponentsNext]_<<part, componentVars>>
-----------------------------------------------------------------------------
\* Accounts, from a new file and from one with a history: unambiguous names, bounded guesses,
\* an administrator for good, revoked sessions that stay revoked, and no permissions that
\* their giver does not hold.
AccountsSafe ==
    /\ [](part = "accounts" => Accounts!AccountsInv)
    /\ [][part = "accounts" => Accounts!AccountsSteps]_<<part, accountVars>>

\* The account database: first openers, migrations and replaced files.
AccountFileSafe ==
    /\ [](part = "account_file" => AccountFile!FileInv)
    /\ [][part = "account_file" => AccountFile!IdentityIsFinal]_<<part, fileVars>>

\* The report trail: alterations are found, and reporters are current.
ReportTrailSafe ==
    /\ [](part = "report_trail" => ReportTrail!TrailInv)
    /\ [][part = "report_trail" => ReportTrail!ReporterIsCurrent]_<<part, trailVars>>

\* Transports: no copy nobody asked for, and what is retried is nowhere.
TransportsSafe == part = "transports" => Transports!TransportInv

\* The NVD scan: nothing behind the cursor is missing.
NvdScanSafe ==
    /\ [](part = "nvd_scan" => NvdScan!NvdInv)
    /\ [][part = "nvd_scan" => NvdScan!NvdSteps]_<<part, nvdVars>>

\* Feeds: bounded waits, whole files, and scores that never get older.
FeedsSafe ==
    /\ [](part = "feeds" => Feeds!FeedsInv)
    /\ [][part = "feeds" => Feeds!NeverOlder]_<<part, feedVars>>

\* Inventory scans: everything is told once, and an outage is no change.
InventoryScanSafe ==
    /\ [](part = "inventory_scan" => InventoryScan!InventoryInv)
    /\ [][part = "inventory_scan" => InventoryScan!OutageIsSilent]_<<part, scanVars>>
=============================================================================
