# Formal models of CVEBeacon

TLA+ models of the parts of CVEBeacon where correctness depends on order:
transactions of several processes on one SQLite database, network calls whose
answer may be lost, threads that supervise child commands, processes that die
half way.  TLC checks the models on small instances; TLAPS proves the central
invariants, action properties and the refinement of the outbox for every size.
Paths are relative to the directory that holds `src/` (the repository's package
is `src/src/cvebeacon`).

    tlc -workers 2 -config MCDeliveryOverlap.cfg MCDelivery
    tlapm DeliveryProofs.tla

## 1. The system

CVEBeacon watches vulnerability sources, evaluates rules over what changed and
tells people about it.  It is a set of short-lived commands (`cli.py`), one
long-lived dashboard process that starts those commands as children, and a
separate automation package that feeds inventories to it.

| Component | State it keeps | Operations | Talks to | What makes it correct |
|---|---|---|---|---|
| Alert outbox (`watch/store.py`, `watch/delivery.py`) | `watch_delivery`: a row per event and channel with status, attempts, error, updated_at | select, claim, send, mark, release, recover, reset | providers over HTTP and SMTP; other runs only through the rows | no second automatic copy; nothing lost; notices in order; doubt is never forgotten |
| Channel transports (`watch/delivery.py`, `http.py`) | none; Matrix keeps transactions at the server | one message in parts to one channel of any type | providers | a request that ended in doubt is never repeated; what is repeated went nowhere |
| Dashboard jobs (`dashboard_jobs.py`) | `dashboard_job` rows; queue, worker thread, child, deadline in memory | submit, cancel, supervise, settle, shut down, recover, record | child commands, account database | no orphaned child, no forgotten row, every outcome in the audit log |
| Locks (`locking.py`) | one lock file per storage location, a holder file | acquire, probe, release | every command that changes state | mutual exclusion per storage, no deadlock, the holder is named; a probe never waits (but may get a command refused) |
| Watch sync (`watch/sync.py`, `watch/feeds.py`) | cursors in `watch_meta`, `euvd_scan` ledger of a resumable scan, `watch_epss` | NVD windows, EUVD pages, verification pass, EPSS file, lookups with backoff | upstream APIs | a cursor only moves past what is stored; a scan that was interrupted misses nothing; waits are bounded; a file is loaded whole or not at all |
| Store views and evaluation (`watch/store.py`, `watch/rules.py`) | `watch_touched`, alert state, `watch_event` | upsert, refresh view, evaluate, queue deliveries | outbox | each change evaluated, each event queued once per channel |
| Report trail (`watch/store.py`, `watch/reporting.py`) | `watch_report` hash chain, the boundary of unchained rows | report, unreport, verify, upgrade | accounts, outbox (a notice in the same transaction) | the chain verifies if and only if nobody edited it; reporters are current; a withdrawal withdraws a report |
| Accounts (`watch/users.py`, `dashboard_auth.py`) | accounts, roles, chained audit; sessions in memory; the database file and its identifier | create, edit, disable, sign in, lock, roles; initialize, migrate | dashboard, command line | an administrator remains; revoked proofs stay revoked; guesses are bounded; nobody gives more than they hold; the file is the one it was |
| Inventory scans (`engine.py`, `state.py`) | findings, aliases, events, deliveries, scans | query sources, record, notify, mark, finish | channels, reports | every finding is told once under all its names; an outage is no change |
| HTTP client and sources (`http.py`, `sources/`) | throttle clocks | request with retry | upstream APIs | rate limits hold, retries end |
| Configuration (`dashboard_config.py`, `setup.py`) | TOML file, secret files, backups, pending previews | preview, confirm, save, roll back | accounts, job manager, the running application | a save is authorised in what it writes, overwrites no edit, keeps what it replaces |
| Scheduling (`scheduling.py`, `dashboard_ops.py`) | one block of the crontab or one Windows task; `dashboard_action` rows | install, remove, show | `crontab`, `schtasks`, accounts | the command runs at the times of the plan; the rest of the crontab stays |
| Dashboard pages, messages, statements | none of their own | render | everything | formatting |
| Automation pipeline (`automation/pipeline.py`) | the published inventory and manifest, `health.json` | collect, merge, publish, scan, deliver | staging, CVEBeacon | a pair is published whole; required sources are in it; health is exact |
| Automation sources (`staging.py`, `ingest/`, `registry/`, `remote/`, `discovery/`, `process.py`) | generations and pointers, evidence, records, discovery history | push, pull, scan, run programs | clusters, registries, hosts, push clients | a source never goes back; what is served has its evidence; programs are bounded |
| Automation notifications (`notifications/`) | ledger and cursor | prepare, claim, send, settle | CVEBeacon's events, providers | an event is settled once, no copy beyond the documented doubt |
| Extensions (`extensions/`) | output files | web detection, merge | hosts, inventory | one bounded request plan per asset; success is complete |

Components interact in three ways.  Commands share the SQLite databases and
exclude each other with the operation lock.  Evaluation and reports queue rows
that a later delivery run sends.  The automation hands inventories over as
immutable generations behind a pointer file and reads the events of the scans.  The dashboard starts commands as children,
probes their lock, interrupts them, and records what happened in another
database.

The hard behaviours, each at its line, are under `hazards` in `PROJECT.json`:
two runs that hold the same snapshot; a claim whose owner died, or did not die
and comes back after the claim was recovered; an answer that is lost after the
provider took the message; parts of one message; a job cancelled while the
worker holds its identifier in a local variable; marks and audit entries in two
databases; children that ignore their interrupt; sources that move between two
pages; logins verified outside the transaction that accepts them; files that
belong together and are replaced one after the other.

## 2. Modules

| Module | Models | Role |
|---|---|---|
| `Delivery` | `watch_delivery` and `deliver_pending` | the detailed specification and its properties |
| `Outbox` | what `docs/WATCH.md` promises per event | abstract specification; `Delivery!KeepsPromise` is the refinement |
| `MCDelivery` | | values of constants for TLC |
| `DeliveryProofs` | | types, the licence to send, `AtMostOnce`, `SentIsFinal` and `NoticeOrder` for any runs; with the lock `OutboxIsTrue`, `DoubtIsKept` and the refinement of `Outbox` |
| `DashboardJobs` | `JobStore` and `JobManager` | specification and properties |
| `DashboardJobsProofs` | | `JobsInv` and `FinishedIsFinal` |
| `OperationLock` | `OperationLock` and `RunLock` | specification and properties |
| `EuvdScan` | the EUVD block of `sync_watch`, `fetch_euvd_page`, the ledger in `store.py` | specification and properties |
| `EuvdScanProofs` | | `ScanInv`, `NothingMissed` and `FrontierAdvances` |
| `Notifications` | the notification ledger and `_deliver` of the automation package | specification and properties |
| `NotificationsProofs` | | `AtMostOnce` and `LedgerInv` |
| `Evaluation` | the writes of `store.py`, the order of `sync_watch`, `evaluate_touched` and `evaluate_all`, `rules.evaluate` | specification and properties |
| `EvaluationProofs` | | `EvaluationInv`, `RiseIsTold` and `InitialStage` |
| `NvdScan` | the NVD block of `sync_watch`, `fetch_nvd_window` | specification and properties |
| `Feeds` | the KEV and EPSS blocks of `sync_watch`, the retries and the throttle of `http.py` | specification and properties |
| `Transports` | the senders of `delivery.py`, `HttpClient.request_once` | specification and properties |
| `Accounts` | `UserStore`, `AccountSessions`, the `users` commands and pages | specification and properties |
| `AccountFile` | `UserStore.initialize`, its migrations and the check of every connection | specification and properties |
| `ReportTrail` | the reports of `store.py`, `reporting.py`, `reporting_guard` of the accounts | specification and properties |
| `InventoryScan` | `QueryEngine`, `package_query.py`, `reconcile.py`, `StateStore`, `affected_clients` | specification and properties |
| `ConfigSave` | `dashboard_config.Editor` | specification and properties |
| `Schedule` | `scheduling.py` and its use by dashboard and command line | specification and properties |
| `Ingest` | `ingest/client.py`, `ingest/server.py`, `staging.publish` | specification and properties |
| `Pipeline` | `run_pipeline`, `publish_pair`, `health.py` | specification and properties |
| `Collect` | `registry/`, `remote/ssh.py`, `collect` of the automation's `cli.py` | specification and properties |
| `ProcessRun` | `process.run` and its gate | specification and properties |
| `Discovery` | `discovery/nmap.py` | specification and properties |
| `WebDetect` | `web.py` of the extensions | specification and properties |
| `WatchComponents` | | the sum of the watcher's components that share no state |
| `HostComponents` | | the sum of configuration, scheduling, automation (without `Ingest`) and extensions |
| `MCWatch`, `MCHost` | | these sums with the locks or the receiver as one more part, and values for TLC |
| `WatchProofs` | | the locks: the inductive invariant, mutual exclusion, the named holder, somebody works; the invariants and steps of `ReportTrail`, `Accounts` and `AccountFile` |
| `ExchangeProofs` | | the components that talk to other hosts: `Feeds`, `Transports`, `NvdScan`, `InventoryScan` |
| `ComponentProofs` | | the receiver (`IngestInv`) and the parts of `HostComponents` |

`MCWatch` and `MCHost` are sums, not products: a behaviour is one of one
component, which the variable `part` names, so that their state spaces add up
instead of multiplying.  `WatchComponents` and `HostComponents` state the sums
for all values of their constants: every component is an INSTANCE over
variables of its own, and those of the parts a behaviour is not about stay
`Nothing`.  `MCWatch` adds the part `OperationLock`, `MCHost` the part
`Ingest`; otherwise they only give constants their values.  Each property of a
component is a definition of its module; `AccountsSafe`, `PipelineSafe` and so
on say that the component has all of them in its part.  The definitions they are
conjunctions of are those to read: `AccountsInv` and `AccountsSteps`,
`PipelineInv` and `PipelineSteps`, ...  Each module states what it assumes of
its constants; `ComponentAssumptions` makes TLC evaluate that.

`Delivery` takes what `OperationLock` proves as its constant `Serialised`: with
it, a run only starts when no other is alive (`LockFree`).

Definitions named after a plausible slip (`RecoverSendingToPending`, ...) stand
before the definition they would replace.  Nothing refers to them: they show
that the property paired with them in `PROJECT.json` notices that slip.  A
conjunction is paired with one slip there; the other slips in its module were
put in place the same way, each against the conjunct it stands for.

### Delivery

One channel of the outbox.  `row[e]` is the row of event `e`: its status, its
attempts, and of `updated_at` and `last_error` only what the code asks of them:
`aged` (older than the backoff of a failed row or the ten minutes after which a
sending row is recovered), `stamp` (the claim time `mark_initial_*` and
`release_initial` look for; distinct runs have distinct start times) and
`doubt` (`last_error` is `_INITIAL_AMBIGUOUS`).  `run[r]` holds the local
variables of `deliver_pending`.  A run advances through

    reset -> initial -> select -> build -> next -> send -> mark

with one action per transaction and one per attempt to send one part.  Between
any two of them another run may act, the process may die (`Crash`), the budget
of the run may be over (`Expire`) or a row may become old (`TimePasses`).

| Action | Code |
|---|---|
| `Enqueue` | the INSERT (an event that does not go to this channel has no row, so identifiers may be skipped) at the end of `_evaluate_batch` and `_record_report_notice` |
| `Start`, `OperatorStart`, `ResetFailed` | `recover_sending` and `reset_failed` at the start of `deliver_pending`; `watch report` starts a run for its own notice |
| `ClaimInitial`, `InitialTooLarge`, `SkipInitial`, `MarkInitial` | the digest or the webhook chunks of the first evaluation |
| `SelectEvents`, `BuildMessages`, `BuildTooLarge` | `delivery_events`, the batches, `_channel_messages` |
| `ClaimGroup` | `claim_delivery` and `claim_notice`: every row of the group or none |
| `SendConfirmed`, `SendUnconfirmed`, `SendInterrupted`, `SendRefused`, `SendTooLate` | `send_messages` and what `_http_call` and the senders make of an answer |
| `MarkDelivery`, `LeaveBatch`, `EndRun` | settle the group, go on or stop |

The copies a provider took are counted in `auto` and `redone`, by whether the
run saw the row as ambiguous (an operator asked for it) or not.  `doubted` and
`gaveUp` record what a row has been.  No action reads these four.

Properties: `AtMostOnce`, `SentIsFinal` and `NoticeOrder` need no lock.
`OutboxIsTrue` (sent was accepted, owed was not, attempts stay under the cap),
`DoubtIsKept` and the refinement `KeepsPromise` hold when runs exclude each
other, which is what `cli.run` does with `OperationLock`.  `EventuallyResolved`
is liveness.

### DashboardJobs

`row` is `dashboard_job` (status, cancel_requested, audit_pending); `queue`,
`worker`, `child`, `told`, `cancel` and `stop` are the manager's memory;
`trail` counts the entries in the audit log of the account database.  One
action per critical section of `_condition` or per transaction outside it.
`cancel()` keeps the lock over its transactions, so it has a phase of its own
during which the worker goes on with what needs no lock.  The two steps of
`_audit_finished` (append in one database, clear the mark in another) are
separate actions under `auditor`, the holder of `_audit_lock`.

A child may end at any time with any exit, or never.  The grace periods are
steps that may happen once the child was told.  The account database may be
unavailable for a while.  The job database is taken to fail only where a child
is at stake, in the supervision loop (`WorkerLosesStore`).

`JobsInv` says that a living dashboard has no child nobody supervises, no row
that is queued and forgotten, no outcome that is neither recorded nor marked,
and none recorded twice; `JobsEnd` is liveness: cancellations and shutdowns end
although a command ignores its interrupt, and a living worker records every
outcome when commands end.

### OperationLock

A command takes the lock of each location it needs, in path order, describes
itself in the file, works, and on the way back clears the description before it
unlocks.  The first lock that is busy ends it (`Refuse`): nothing waits.  The
operating system's side is `held`; `meta` is the text in the file, which outlives
its writer and is `torn` between the write and the cut (`Write`, `Trim`).
`Crash` drops the locks and leaves the text; `WriteFails` is the error path that
closes one lock and releases the others.  A probe takes a lock and drops it
(`ProbeLock`, `ProbeUnlock`, `ProbeEnds`), shared with other probes on POSIX and
exclusive on Windows (`SharedProbes`).

`SingleFlight` is mutual exclusion, `HolderIsNamed` says that the refusal of
others can name the right command, `LockInv` is the inductive invariant, and
`SomebodyWorks` says that contenders cannot refuse each other in a circle.

### EuvdScan

The source is a set of items, each with the day of its last update and the
number of that update (`at`), which orders the answers, first to last or last to
first (`newestFirst`); an update moves an item to one end, and with it every
item behind its old place to another page.  It answers a request for a window
(widened by a day) with a page and a total.  The place of an item is the number
of items before it (`Rank`), and `PageIds` are the items whose places a page has.
`cursor`, `resume`, `next` are the three entries of `watch_meta`, `ledger` is
`watch_euvd_scan`, `fresh` says which items of `watch_euvd_item` are what the
source has.  `run` holds the local variables.  A run goes

    Start -> OpenWindow -> ScanPage ... -> VerifyPage ... -> OpenWindow -> End

`OpenWindow` decides whether the stored position can be used, `ScanPage` accepts
a page or finds that the listing moved (`ScanUnstable`) and begins the window
again (`Restart`, a few times), `VerifyPage` reads the pages of earlier runs
once more, and `Split` halves a window that is too large.  `Fail` is a request
that fails for good, a throttled run, or a process that dies.

`docs/WATCH.md` concedes that a change behind a page that was read for the last
time can go unseen; `late` and `unseen` record exactly those changes, and
`NothingMissed` and `CatchesUp` hold without them.  What they leave open is the
next update of the same item.

### Notifications

`core` is the event table of the scan database, which the automation only reads:
it grows, may be replaced by a backup (its AUTOINCREMENT goes back with it) and
may lose its oldest events.  `rows` and `cursor` are the ledger.  A run recovers
interrupted parts (`Begin`), puts the ledger under its credential and reads a
batch from one snapshot (`Read`), prepares one event per transaction together
with the cursor (`Prepare`), then claims and sends parts (`Claim`, `SendTaken`,
`SendNotTaken`, `SendInterrupted`, `GiveUp`).  `notifications.lock` lets one
process do that; the credential is resolved before it, so a run may use an old
one.  `matrix` is chosen at the start: Matrix drops a repeated transaction of a
device (every credential counts as another device), the other providers take
every copy.  How long a text is when an event is prepared is open, because it
lists the clients concerned at that time.

### Evaluation

What comes before `Delivery`: how a change of a source becomes an event.  The
tables of the sources are functions of the CVE (`nvd`, `euvd`, `kev`, `epss`);
a severity is a band, a listing one of two days, a score one of three, chosen so
that one score crosses the limit of a rule and one that of a band.  A write
queues what it changed in its own transaction (`MarkTouched`), but only CVEs
with a row; a row that arrives later is queued by its own write.  `touched` is
that queue, `alert` and `events` are `watch_alert_state` and `watch_event`, and
`meta` is the sources of the last sync, the mode of the first one, and the three
entries that say when it was initialized, completely read and evaluated.  A
`watch run` goes

    Begin [-> Baseline] -> NvdWindow ... -> EuvdPage ... -> ReplaceKev ->
    SyncLookups -> LookUp ... -> ReplaceEpss -> Finish -> Take ... -> EvaluationEnds

and `watch evaluate` is `BeginAll`, `TakeAll`, `EvaluationEnds`.  A source other
than NVD may fail without ending the run (`SourceFails`, which leaves the first
evaluation open); NVD's failure and a dead process are `Crash`.  One action is
one transaction; the commands exclude each other.  The configuration is edited
between commands.  One rule, which selects providers for the severity, is enough
because rules share only the queue.

`NothingLost` relates the tables to the alert states: whatever is not queued was
judged by what the tables say now.  It makes one exception, recorded in
`strayed`: `watch evaluate` uses the sources of the configuration at once, while
only a sync notices that they changed and queues every row.  When the edit is
taken back before a sync has run, no sync sees a change and the judgements by
the other sources stay until their CVE changes.  `RiseIsTold` compares the marks
with `told`, the marks that the match and edits of the providers set: every
difference has its event.

### NvdScan

Time is the clock of the source: `history[r]` is when record `r` was modified,
`stored[r]` the modification that `watch_cve` has.  A run sets out from the
cursor less an overlap (`CatchUp`), from the backfill (`Backfilling`) or from
now (`Baseline`), reads windows page by page (`FirstPage`, `NextPage`), splits
one that is too large and reads one again whose total moved, and commits each
window with the cursor it justifies (`Commit`).  An answer may be `Lag` old.
`NvdScanSafe`: once initialized, every change older than the overlap is stored
(`NothingMissed`), a committed window is whole up to its cursor
(`WindowIsWhole`), and an initial run is only called complete when it is
(`InitialIsWhole`).  Assumed of the source: it is at most the overlap late, and
between two pages of a window not as many records enter as leave.  Assumed of
the settings: `Prompt`, that half a `NVD_MIN_SPLIT` is at least the lag, or no
backfill; section 4 says why.

### Feeds

The list of exploited vulnerabilities, the pages of the European source and the
EPSS file of the day, with the retries of `HttpClient.request_json`, the waits
of `Throttle`, and the stream of the file (`Opens`, `Row`, `Breaks`, `Load`)
inside one transaction.  `FeedsSafe`: the waits of a run stay within the budget
although two sources share it, a source that never answered is not waited for,
scores are those of one whole file, and never become older.

### Transports

One message in parts to a channel, whose `kind` is chosen at the start.  What
was submitted is on the `wire`, where the provider takes, refuses or loses it at
any time, also after the sender gave up; `answer` is what came back.  `Session`,
`Login`, `Envelope` are SMTP's steps, `Token` that of Graph, `Room` that of
Matrix, `Secret` the lookup of the credential.  `Fail`, `NotSent`, `Unknown` and
`BadCredentials` are the classes `DeliveryFailure` sorts every end into, and
`StaysUnknown` what makes a row ambiguous.  `TransportsSafe`: no reader gets a
part more often than an operator asked (on Matrix not even then), what a run
will try again exists nowhere, sent means every part and recipient, refused
credentials are not tried for ever, and an operator is only asked about what may
have arrived.

### Accounts and AccountFile

`Accounts` has one action per transaction of `UserStore`; the local operator
needs no proof, everybody else acts by one (`ByProof`).  A login takes its
snapshot (`LoginBegins`), hashes outside any transaction and ends in another
(`LoginRefused`, `LoginFails`, `LoginSucceeds`).  A proof, once handed out, may
be used at any later time by anybody.  `AccountsSafe`: names and addresses are
unambiguous, roles exist, at most the limit of wrong passwords is answered
however many are verified at once, an administrator remains, what a transaction
would refuse is never accepted again, and nobody gives an account more than
they hold or takes over one that has more.

`AccountFile` is the file below: handles of several processes create, migrate
and seed it (`TakeLock`, `Open`, `Schema`, `MigrateChecks`, `Commit`), die at
any step, and an operator replaces it or takes it away.  `AccountFileSafe`: a
deleted default role does not come back, nobody writes a store they do not know,
and a store keeps its identifier.

### ReportTrail

A report resolves its reporter (`Resolve`), takes the write lock of the account
database and checks it again (`Guard`), takes that of the watch database
(`Begin`), appends to the chain (`Commit`) and gives both back (`Release`).
Accounts change, databases of the old schema are upgraded, anybody may die, and
somebody may edit rows behind the program (`Alter`).  `ReportTrailSafe`: the
trail verifies exactly if nobody edited it, a withdrawal withdraws a report that
is there, and a row is committed only while its reporter is current.

### InventoryScan

One asset.  `world` is what the sources publish of one CVE and the advisories of
a package database that may be its aliases; any of the sources may be out in a
scan.  `Start` queries them all.  The transaction of `record_scan` takes the
findings one by one: `Begin`, then for each of them `Retain` (it is seen, its row
stays) or `Refresh` (its row, its names and what is told of it), and `Commit`;
`Collide` rolls it back when aliases collide.  `tx` holds the tables as the
transaction sees them, which nobody else does before `Commit`.  Then channels are
notified (`Send`, `Mark`) and the scan is finished (`Finish`).
`InventoryScanSafe`: a vulnerability is new once under all its names, the
current state is what was told last, clients are found by every name, a
completed scan left nothing undelivered, and an outage is no change.

### ConfigSave

The preview a session holds, the save in the steps of the code (`Lock`,
`Rotate`, `Backup`, `Publish`, `EndTransaction`, `Swap`), each of which may
fail (`Fail`, `Compensate`) or be the last (`Crash`), while accounts change,
jobs start and the file is edited.  A document is what the checks tell apart.
`ConfigSaveSafe`: the replaced document is kept, the job manager is given free,
no job runs while the storage moves, and a save is authorised in everything it
writes and overwrites no edit its author has not seen.

### Schedule

A crontab is its sequence of lines as `split` gives them, with the block between
its marks.  Dashboard and command line read and write it in two commands, the
user edits in between.  `ScheduleSafe`: the block runs the command at the times
of the plan and no others, the status page shows the plan, the dashboard's
changes are in the audit trail, and without the block the text is the original.

### Ingest

Clients push with retries, and give up on answers; a request that was given up
may still be handled, beside its own repetition.  A handler admits, authenticates,
decides under the source's lock, stores the generation and moves the pointer,
one action each.  `IngestInv`: the pointer names a complete generation of its
source's credential, success was published, one handler publishes at a time, and
a source never goes back.

### Pipeline, Collect, ProcessRun, Discovery

`Pipeline` is `run_pipeline`: collect, decide, copy, merge, write the pair of
files, scan, deliver, save health.  Runners overlap, are interrupted and die.
`PipelineSafe`: the pair disagrees only where a runner is or died between its
files, nobody scans another's inventory, operational means complete, failures
are counted, an inventory without a required source never replaces one, and
scans never see an older snapshot of a source.

`Collect` is what a source of the pipeline does: list the pages of a registry,
acquire and compose, or probe a host, save evidence, publish the pointer, record
the outcome.  `CollectSafe`: what is served has exactly one evidence, of its
image and observation; an ambiguous image is never given one of its SBOMs;
recorded successes were pointed to.

`ProcessRun` is one external program with its pipes, threads, deadline, slot and
reaper, on POSIX and Windows.  `ProcessRunSafe`: programs and readers never
exceed the slots and no slot is lost, returned output is whole, and no caller
leaves a program behind.

`Discovery` scans targets in batches while the network and the targets change.
`DiscoverySafe`: a crash never leaves a job that refuses to run, a published
result has every target and no other, and reports add up to the result.

### WebDetect

A few threads share a resolver pool, the pace of every host and the set of
blocked hosts; lookups may hang for ever, deadlines end what is late.  `Step` is
what a thread or the command can do, `Tick` lets time pass only when the code
can be that slow.  `WebDetectSafe`: the announced number of requests is kept, a
host that asked to stop gets nothing from a thread that still waits, success
leaves nothing out, files appear in their order, and hanging lookups do not
hang the command.

## 3. Runs

| Run | Instance | Question |
|---|---|---|
| `delivery_overlap` | 2 runs, no lock; webhook: 1 initial row; 2 notices, of which the last is queued beside at most one other row; 1 operator retry | do the conditional UPDATEs alone prevent a second copy, keep notices in order and sent rows sent? |
| `delivery_locked` | runs one at a time; 1 initial row, 1 alert, 1 notice; 2 messages, 2 parts; 1 retry, 1 fault | does the outbox implement its promise? |
| `delivery_live` | runs one at a time; 2 notices; 1 retry, 1 fault; fairness | is every event resolved? |
| `jobs` | 2 jobs, 2 faults; fairness | no orphan, no forgotten row, no outcome lost or recorded twice; cancellations and shutdowns end, outcomes are recorded if commands end |
| `jobs_cancelled` (violation) | 1 job, no fault | finding 1 |
| `euvd_scan` | 3 items, 4 updates, 3 days; pages of 1, windows of 2 days, 2 attempts; any number of failed runs; fairness | is an item missed, a day read again, does catch-up end? |
| `notifications` | 2 events of up to 2 parts; 2 attempts; 1 restore, retention or new credential; any number of crashes; fairness | copies, order, nothing skipped, an honest ledger, every event settled |
| `notifications_frozen` (violation) | 2 events, 1 restore | finding 2 |
| `evaluation` | 2 CVEs, one of them old; batches of 1; 3 changes, 1 failure or crash, 1 edit | is a change lost between a source and its alert, has every rise its event, is the first evaluation digested as a whole? |
| `evaluation_later_rise` (violation) | 1 CVE, 4 changes, 1 edit | finding 3 |
| `watch` | one component per behaviour: locks (3 commands, 1 probe, 2 locations, 1 fault); accounts (3 names, 2 logins at a time, from the empty database and from a team of 3); 2 handles on 2 account files; 2 reports of 1 CVE; 1 message of 2 parts to each type of channel; 2 NVD records, pages of 1, 13 days; 3 days of EPSS files, 2 syncs; 1 CVE and 2 advisories, 2 scans, outages of 2 sources | does each of these components keep its promises? |
| `host` | one component per behaviour: 2 clients, 2 handlers, 2 snapshots, 1 crash; 1 editor, 1 backup; 1 page and 1 shell on one crontab; 2 runners, 2 sources, 2 runs; 3 kinds of source, 2 collections, 2 artifacts; 2 programs for 1 slot; 2 targets, 3 runs; 2 assets on 2 hosts, 2 threads | the same for what surrounds the watcher |

Why the bounds are enough.

* Delivery: rows meet only through groups (all or none), the notice order
  (pairs) and the message budget (a small sum), so two rows at a time give every
  combination.  `TwoRows` in `MCDelivery` says so for the largest run; no
  liveness is checked under it or under symmetry.  Interference between runs is
  pairwise, since a row is claimed by one run at a time; the proof covers any
  number.  Without the lock a run that stalls for ever is as good as dead, so
  `delivery_overlap` needs no crash.  Two attempts tell "may be retried" from
  "at the cap"; one operator retry is what it takes to leave `ambiguous`; one
  fault of each kind reaches every recovery path.
* Jobs: two jobs give a queue behind a running job.
* Locks (`watch`): two locations are the most any command takes; the proof covers more.
* EUVD: what matters is whether a page was read by an earlier run, by this one
  or not yet, and whether items move between those; three items on three pages
  do that, and four updates are three items published and one that moves.
  Windows of one and two days, complete, split or cut at today, occur.
* Notifications: parts compete within an event, events only for the cursor.
* Evaluation: CVEs meet only in the queue and its batches, so two of them and
  batches of one are enough to be between two batches.  Three changes are a row,
  a listing or score that makes it match, and one more of any kind; an edit or a
  failure comes anywhere between them.
* The parts of `watch` and `host`: two actors where actors meet (logins, handles,
  reports, runners, handlers, programs for one slot), because each lock, slot or
  snapshot is held by one of them and the other is everybody else; one actor
  where the code admits one.  Two units of data that can differ (parts, records,
  snapshots, targets, hosts), three names where links between names form chains
  (a CVE and two advisories).  Repetitions are bounded by what has to come twice:
  an attempt and its retry, a version and its successor, a run and the one after
  a crash.  The windows of `NvdScan` are four days and split above two, so
  that windows are complete, split, and too narrow to be split; an answer may be
  one day old, the overlap is two.
  `Accounts` starts from the empty database and from a team of three, because escalation needs an actor, an accomplice and an administrator.

The only other counters that are bounded are those of faults, retries, events
and changes of the environment.  Deadlock is checked in every run except
`watch` and `host`: their components may be done, when every command has run or
the bound on their environment is reached.

Fairness.  `Delivery`: a run that is alive goes on (weak), time passes (weak),
and the scheduled run gets through again and again (strong, because other
commands may hold the lock each time it is tried; the scheduler keeps trying).
No fairness for events, operators or faults.  `DashboardJobs`: threads go on;
the ones that wait for `_condition` get it although requests keep taking it
(strong); the service manager restarts the process; an outage of the account
database ends.  A child owes nothing, except in `WorkerRecords`, where commands
end by themselves because their requests have timeouts.  `EuvdScan` and `Notifications`: the schedule starts runs (weak), and
although any run may fail at any step, now and then one gets to its next page,
part or transaction (strong): the source is not down for ever and processes are
not killed always at the same place.  For `Notifications` this includes that
Core can be read and a text fits into `max_parts` in the end; nothing in the
code promises that, and an event that never fits stops its channel.
`Evaluation` and the components of `watch` and `host` state no liveness and
assume no fairness: they are commands, requests and transactions that somebody
starts, and what could keep them from ending is stated as safety where the code
has an answer to it (`BudgetHolds`, `NobodyHangs`, `LoadIsBounded`,
`SomebodyWorks`).

## 4. Proofs

Each theorem is about a module's own `Spec`, for every value of its constants
that satisfies the assumptions the module names.  The assumptions only say what
the constants are (sets, numbers, limits that are not zero); none bounds a set
of runs, jobs, commands, clients or items to a size.  The counters that bound
the models are arbitrary numbers in the proofs; only `EuvdScan`'s `MaxDay` must
be at least 2, the days on which a model may begin.  Every inductive invariant was model-checked before it was proved.

### Delivery

With `RunsAssumption`, `EventsAssumption` and `LimitsAssumption`, with or without
the lock: `TypeCorrect`, `LicenceCorrect`, `AtMostOnceCorrect`,
`SentIsFinalCorrect`, `OrderCorrect` and `NoticeOrderCorrect`.

`AtMostOnce` is not inductive: nothing in it stops a run from sending a row
that went out already.  The argument is that of a licence.  The licence to send
event `e` automatically is with its row while the row is offered (`OwedHasNoCopy`:
then no automatic copy exists), or with exactly one run that claimed it and has
not sent (`Fresh`; `LicenceIsOut`, `LicenceIsUnique`), and a copy uses it up.
Claims move it from row to run because they are conditional on the status; a
recovery destroys it, because `recover_sending` makes the row ambiguous and
never pending; a definite failure or a release moves it back, which is sound
only because such a run still is `Fresh`.  `StampNamesHolder` does the same for
initial rows, which are found by their stamp, and `RunsAreConsistent` says that
a run's snapshot does not mix rows in doubt with others where it claims them as
one.

`NoticeOrder` is about runs that overlap: the run that sends a notice looked at
the notices before it when it claimed, and by the time it sends their rows may
have moved.  `SendingInOrder` says that what it saw does not go back: an earlier
notice was copied or given up, and both are for ever (`Copied` counts, `gaveUp`
grows).  That needs `ClaimedIsPresent` and, for rows that become `sent`,
`AcceptedIsCopied`: a run that will say "sent" has had its message accepted.

With `Serialised`, the hypothesis of each theorem, which is what `OperationLock`
guarantees: `PromiseInvCorrect`, `OutboxIsTrueCorrect`, `DoubtIsKeptCorrect` and
`KeepsPromiseCorrect`.  `PromiseInv` adds that only one run is alive (`OneRun`),
that what it claimed is `sending` (`HeldIsClaimed`) and what it has still to
claim is as it was selected (`SnapshotsHold`), and that what will be sent
without asking is clean: no copy, no doubt, attempts to spare (`OwedIsClean`,
`FreshIsClean`).  The refinement is then proved step by step: the initial states
map to those of `Outbox`, and each action to a step of it or to a stutter.
Without the lock it is false (section 5), so the hypothesis is needed.

### OperationLock

In `WatchProofs`, with `ActorsAssumption`, for shared or exclusive probes: `LockCorrect`,
`SingleFlightCorrect`, `HolderIsNamedCorrect` and `SomebodyWorksCorrect`.

Mutual exclusion follows from `Exclusive` (no two holders of a location exclude
each other) and `Progress` (a command that is past a location holds it until it
comes back to it).  `HolderIsNamed` needs `Described`: a file describes its
holder from the time it is written until it is cleared, and a file whose
command is between its write and its cut, or between its clearing and its
unlock, is described by nobody else, because only a holder writes.

`SomebodyWorks` is about all commands at once.  Locations are taken in their
order (`InOrder`: everything held comes before everything needed), so a command
that is refused at `x` met one that holds `x`, which is further than anything of
its own.  That holder may itself be on its way back, but then it gave way to
another.  `SomebodyLeads` is what stays true: as far as any command has come,
some command that is still on its way has come.

### DashboardJobs

`ManagerCorrect`, `JobsInvCorrect` and `FinishedIsFinalCorrect`, with
`BoundsAssumption`.  `ManagerInv` says what the manager's memory, the rows and the
audit trail know of each other.  A queued row is in the queue, in the hand of
the worker, or in the list of a shutdown (`QueuedIsSomewhere`), in one of them
only (`QueueHolds`); between mark and settlement the row is `running` and
nobody else ends it (`WorkerOwns`).  An outcome is marked until it is in the
trail (`MarksMatch`, `ClearedIsRecorded`, `NothingEarly`), and the entry is
repeated only if a fault came between the two databases: `EntriesArePaid` counts
entries against faults, those spent on a shutdown that does not wait excepted.

### Notifications

`LedgerCorrect`, `AtMostOnceCorrect` and `LedgerInvCorrect`, with
`NotificationsAssumption`.  For providers that take every copy, a part that
might be sent again was not seen (`PartsAreTrue`), and the one interrupted part
belongs to the run that sends it (`RunMatches`).  For Matrix every attempt of a
part comes from one device (`OneDevice`), because `scope` changes only where
nothing of the part may have been taken.  No event is skipped although Core's
numbers go back: `Numbers` ties a number to the run that recorded it, and
`NothingBehind` says that everything at or before the cursor, or before an event
of the batch, is prepared or in the batch.

### Ingest

`ReceiverCorrect` and `IngestInvCorrect`, in `ComponentProofs`, with
`IngestAssumption`: finitely many
handlers, and times that are numbers.  What a handler decided under the lock of
its source stays true until it moves the pointer (`LockIsHeld`,
`PublishesNewer`, `StoredFirst`), also when the client gave the request up and
repeats it.  `FailuresAreCounted` makes the documented excess exact: a handler
that was admitted may count one failure more, so the limit is exceeded by less
than the number of handlers.

### EuvdScan

`ScanCorrect`, `ScanInvCorrect`, `NothingMissedCorrect` and
`FrontierAdvancesCorrect`, with `ScanAssumption`.  `NothingMissed` speaks of
what lies behind the frontier; why it holds when a window is completed is the
matter of the proof.  `ForGood(p)` says that page `p` of the active window will
not be read again, and `PagesAreFresh` that such a page shows only items that
are stored as they are, unless the source moved behind it (`late`, the change
`docs/WATCH.md` declares).  An update of the source that does not concern the
window leaves its pages alone, one that does is `late` or comes before anything
was read for good.  When the last page is in, the pages that are for good are
all pages, and every item is on a page (`EveryItemIsOnAPage`, from the places
being exactly the numbers below the total).  `SavedMatches` needs that a page
before the last one is full (`FullPage`), so that the ledger has the size the
next run expects; `WindowsMatch` says that the windows of a run follow each
other from the frontier to today (`ChunkWindows`: `euvd_chunks` leaves no day
out), so completing one moves the frontier to the next.  `OldIsSafe` covers
databases of an earlier version, whose page cursor is dropped.

### Evaluation

`EvaluationCorrect`, `EvaluationInvCorrect`, `RiseIsToldCorrect` and
`InitialStageCorrect`, with `EvaluationAssumption` and `AlertsAssumption`.  That
no change is lost (`NothingLost`) is kept by every write of a table in one way:
what it changes of a view is queued in the same transaction
(`QueuesItsChanges`), and the rest is judged as it was (`StaysFair`).  The
evaluation takes what it judges out of the queue (`EvaluateIsFair`); what it
took is a batch of the lowest numbers (`BatchIsLowest`), so a command that goes
through all of them leaves nothing up to the last one it took.  The end of the
initial evaluation depends on what the command that closes it knows: `RunKnows`
says which configuration its tables are those of, when a sync is complete, and
what `evaluate_all` has behind it, whatever other commands did and died of.
`FirstRun` says that there is nothing to evaluate before, and `ToldToo` that
what a match told is kept beside its alert.  `RiseIsTold` survives
`rebase_severity` because the marks it takes back are those of the history as
well, and survives `INSERT OR IGNORE` because a key that was there before is an
event all the same.

### ReportTrail

`TrailCorrect`, in `WatchProofs`, with `ReportTrailAssumption`.  The chain of a
row is a recursive function of the rows before it; what it computes is proved by
induction over its index (`Induct`: a set of numbers that has 0 and the
successors of its members has all, because < is well-founded).  A trail that
holds either has only rows without a chain so far, or its last row carries the
chain of the whole (`ChainAt`), so what `PreviousChain` finds is the chain the
next row is checked against, and appending keeps a trail that holds
(`AppendHolds`).  An edit is found whatever it is.  A changed row has another
hash (`ChangeBreaks`).  When a row is removed, the row after it holds only if the
chains before and after the missing one are equal, and they are not, because
they name the row (`RemovalBreaks`).  A row that is made to look like one of the
old schema lies beyond the boundary (`DisguiseBreaks`), because identifiers only
grow (`IdsGrow`).  Rows that are appended later hide nothing: the check of a row
looks only at those before it (`AppendHides`).  `CallKnows` says what a report
holds at each of its places, and that its reporter stays current while it has
the write lock of the account database.

### Accounts

`AccountsCorrect`, in `WatchProofs`, with `AccountsAssumption`: the invariants
and the three promises about steps.  A behaviour may begin with the empty
database or with one that earlier processes left (`Established`: accounts, roles,
the length of the audit trail and the proofs given out so far) in which names
are unambiguous, the role of every account exists and nobody's wrong passwords
are counted; the theorem covers every set of those.  `ProofsKnown` says that no proof is of a
later version than its account has; so whatever raises the version refuses all
proofs for good, and an operation that does not raise it leaves `disabled` as it
is (`RevokedStay`).  `TriesCounted` ties the wrong passwords that were answered to
the stored counter and the lock, so that logins verified side by side cannot
exceed the limit: each is counted by the transaction that refuses it, which
looks at the lock as it is then.  Of operations that change one account,
`SameRights` covers those that leave its rights alone (passwords, locks, logins,
logging out); what is left is adding, disabling and editing.  An actor who is no
administrator can only edit accounts without more permissions, and can only
assign roles without more (`EditKept`, `AccountAdded`), where `RolesExist` rules
out an account whose role is missing and could come back with more.  `Others`,
the sessions that remain after logging out everywhere, is a recursive function
and treated like the chain (`OtherSessions`).

### Feeds and AccountFile

`FeedsCorrect`, in `ExchangeProofs`, with `FeedsAssumption`.  `RequestKnows`: what
the throttle remembers as an answer is an answer of the source of this request,
so only a source that answered is waited for.  Waiting fits the budget by what
`MayWait` compares, both when the source names the delay and when it does not
(`WaitsFit`).  `ReadingKnows`: the file of the day before is read only when the
stored scores are older still, and a file holds the scores of its day or of the
day before (`FilesAreDated`), so no load can go back.  The rows in the
transaction are the rows read of this body, because a body that broke is asked
for again only while nothing of it was passed on; what is loaded is therefore
one whole file.

`FileCorrect`, in `WatchProofs`, with `AccountFileAssumption`.  Every step that
writes a file of the store writes one (`FileWritten`) or adds one
(`FileAppears`), and those two lemmas say once what that may disturb.
`IdsDrawn`: an identifier is drawn once, and nobody knows one that was not
drawn.  `HandlesKnow`: past the check of its connection a handle is on the file
it opened, whose identifier it knows if it knows one; another store put at the
path does not move it.  `SeededOnce`: nothing is deleted of a file before its
roles were seeded, so a migration that saw no mark either adds roles of which
none was deleted, or meets the mark of another one and is rolled back.

### The other components

`ComponentProofs` and `ExchangeProofs` take these modules through the sums, as
they are instantiated there, and prove `ProcessRunCorrect`, `DiscoveryCorrect`,
`CollectCorrect`, `PipelineCorrect`, `ConfigSaveCorrect`, `WebCorrect`,
`ScheduleCorrect`, `TransportsCorrect`, `NvdWindowsCorrect`, `NvdScanCorrect` and
`InventoryScanCorrect` from the assumption each module names.

What the runs `watch` and `host` check is the same for a behaviour of the sum.
`ProcessRunSafeCorrect`, `CollectSafeCorrect`, `AccountsSafeCorrect` and so on
state those properties for the sums' own specifications (`ComponentsSpec` of
`HostComponents` and of `WatchComponents`), one theorem per component.  They follow from the
theorems above: a behaviour of the sum in which `part` names a component is one
of that component (`PartStays`: the part never changes, and its component takes
every step).

* `ProcessRun`: a slot that is not free belongs to a call in flight
  (`SlotsAdd`), and such a call accounts for its leader and its readers
  (`CallInv`), so there are never more of them than slots.
* `Transports`: a copy that exists and a request that is under way count alike
  (`Possible`): a request becomes at most one copy and may do so late.  Before a
  part leaves the host, no more of it is possible than an operator asked for
  (`CopiesAsked`), and for a row that is tried automatically nothing is possible
  at all, unless its part is the one that waits for its answer.  `RequestsKnown`
  is why a late answer cannot be taken for that of another request.
  `AttemptsCounted` ties refused logins to attempts, `PartsDelivered` the
  progress of the sender to what every recipient has.
* `Discovery`: with `ToldIsTrue` the reports so far add up to the result the
  next report starts from; the step of a report is arithmetic on finite sets
  (`Differences`), hence finitely many targets and ports.
* `Collect`: the listing of an image only grows while it is read, page by page
  (`JobIsTrue`), so what it began with is among the candidates when the last
  page is in, and a single candidate is all of it.  `EvidenceKnown` says that
  evidence and generation name each other one to one.
* `NvdScan`: the pages read so far hold the records of the lowest ranks in the
  listing of one moment (`PagesRead`).  A later page is taken only when its total
  is the one pinned, so a listing that may only lose records has not changed, and
  its page continues the ranks; when all are read the window is whole as of that
  moment (`WindowIsWhole`), and the cursor goes no further than that moment.
  `Follow` says that the windows that are left continue each other up to the end
  of the run, `NvdCovers` what is stored behind the window that is read, and
  behind the cursor when no run is at work: everything up to it while an initial
  run was interrupted, everything up to its overlap afterwards.

  `NvdWindowsCorrect` needs no more than `NvdAssumption`.  `NothingMissed` and
  `InitialIsWhole` turned out to be false for some constants.  An answer that is
  older than the end of its window leaves a gap; the cursor stops before it, but
  the next window moves it past.  Later runs begin an overlap before the cursor
  and read the gap again; an initial run that was interrupted goes on at the
  cursor itself (`sync.py:338-340`) and does not.  Only a window that ends less
  than the lag before its run can have a gap.  When no window but the last is
  narrower than that (`Prompt`), such a window is the last one or the one before
  it, and the last one completes the initial run.  Windows are at least half an
  hour wide (half of `NVD_MIN_SPLIT`), twice the default overlap, so the defaults
  satisfy it for every lag their overlap is meant for; an overlap may be
  configured up to a day, but the initial run does not profit from it.
  `NvdScanCorrect` therefore assumes `Prompt` or that no run backfills.
* `Pipeline`: `RunnerInv` says what a runner knows at each of its places while it
  holds the shared locks, among it that what it accepted, copied and merged is
  nothing older than what was scanned (`Newer`; the copy is made when the source
  may have moved on, and sources only grow), and that a source that was looked
  at is collected and accepted unless the run says otherwise (`Accounted`), from
  which follow complete inventories and exact health.

* `ConfigSave`: what a save was authorised for is what it writes.  Between the
  second look at the account and the publication the save holds the account
  database, so nobody edits the account (`SaveRuns`); the version it carries says
  which file it is about to replace (`SaveWrites`); and by the time it replaces
  the document, the document it found is the last backup (`HoldsEnd`), whatever
  an editor beside it did.
* `WebDetect`: the requests of an asset are paid for by the redirects it
  followed and its attempts since (`Fits`).  `Halts`: a host that was closed when
  an asset got its slot is still closed when the asset looks again, so nothing is
  sent to it.  `OutputKnows` ties the files to results that are final.
  `NobodyHangs` names the guards of the steps (`Moves`): once the time of a run is
  over, an asset that is waiting for a lookup or for its pace may give up, and if
  all assets are queued or done, a thread is free (`ThreadsGoOn`).

* `Schedule`: for every set of plans, pages and command lines.  Every text
  that is in the crontab, or that somebody has read and is about to edit, is the
  original once its block is taken out (`TextKnows`); so it stays when a block is
  written over it, whether its last line ended or not (`CleanAgain`).  The block
  is found where it was written (`BlockIs`), and its lines fire when the plan
  says (`InstallationRuns`).  That they can be put in the order of their minutes
  is shown by induction over their number (`Sorts`, by way of the least
  counterexample, `Least`).  The audit needs that whoever got further than its
  request has that request in the trail (`OpsKnow`, `RowsKnow`).

* `InventoryScan`: the invariant is about the tables as anybody finds them
  (`StoreFits`) and as the transaction sees them (`TxKnows`): every name of a row
  leads to one row, directly (`TablesFit`), so a finding that is looked up under
  all of its names, and under what they lead to, meets every row it could be
  (`LookedUp`).  What is told as new then has no name of any row, and events and
  rows agree (`NewsOf`).  Before an upgrade a row has all the names that lead to
  it, and the groups of a query keep names together that are linked
  (`FirstVersion`, `Within`): two findings of a scan are never about one row,
  which is why `CollisionNeedsUpgrade` holds.  Groups are closures under links;
  that they do not overlap is proved from their definition as the least closed
  sets (`ConnectedLeast`, `ConnectedMeet`).

  `OutageIsSilent` rests on what "complete" leaves behind.  After a refresh for
  which every source answered, the tables say what the sources say
  (`PackageSettled`, `ProductSettled`; `SinceFits` ties that to the history
  variable `since`).  A query of a settled package finds exactly the groups that
  are there, if its database answers, and their claims are those of the rows; if
  it does not, known rows are retained.  So the transaction differs from the
  tables in scores only (`Alike`), as they are lost with NVD and the CVE list and
  found again.  A product is either incomplete, and all its rows are retained, or
  says what its rows say (`ProductTx`).  With OSV disabled a package is not
  queried at all (`engine.py:111`: no findings, unknown coverage); the module
  assumes that it is enabled.

### Only model-checked

* Liveness (`EventuallyResolved`, `JobsEnd`, `CatchesUp`, `EventuallySettled`):
  the prover does not reach properties under fairness.
* That `OperationLock` makes runs serial: `Delivery` takes it as `Serialised`,
  `SingleFlightCorrect` is the fact behind it, and the composition is not
  stated.

## 5. Findings

1. A queued job that was cancelled, with the cancellation recorded, can be
   overwritten with `failed` when another process holds the lock: the busy
   branch of `_run_job` stores its outcome without looking at the status.  The
   same interleaving can clear the mark of the failure before it is recorded.
2. The text of a notification is frozen per part, not per event.  When Core is
   restored from a backup, or its old events are removed, so that the event
   under the cursor is gone, events are prepared again; a text that has become
   longer (more clients are concerned) adds parts to an event that may have been
   accepted as a whole before.
3. Editing a rule's `cvss_providers` takes the severity mark back so that a later
   real rise alerts (`rebase_severity`).  If the CVE had risen to the same band
   before the edit, the event of the later rise has the key of the old one, and
   `INSERT OR IGNORE` drops it while the mark is raised: nobody is told.

Observed and not counted as findings, by module.

* `Delivery`, without the lock: a run that stalls for more than ten minutes, whose
  row is recovered and then claimed by an operator's retry, settles that retry
  when it returns, because `mark_delivery` looks at the status of a row and not
  at whose claim it is (its docstring excludes exactly this, and the command line
  does so with its lock); a stale snapshot lets a run claim a row whose attempts
  have reached the cap meanwhile.  A digest of more than ten parts is cut by
  `build_messages`, so the branch that releases it is never taken.
* `OperationLock`: a probe of the dashboard holds the lock for a moment, and a
  scheduled command that comes just then is refused although nobody works;
  between the write and the cut of a description, and after a crash, a lock file
  names nobody or a command that is gone.
* `DashboardJobs`: a submission whose start cannot be audited is stored as failed
  with its outcome still to be recorded, but no worker is started for it; the
  record waits for the next job or restart.
* `Notifications`: a part that Matrix accepted but did not acknowledge, and that it
  rejects when it is repeated, is `permanent` in the ledger; a test message that
  could not be transmitted stays `retryable` for ever, because later runs only
  look at their own test.
* `Transports`: the cap of attempts holds per message, not per part.
* `InventoryScan`: an outage of the source of scores turns the score of a package's
  finding into none and is told as a change (`state.py:335`), and again when the
  source is back; a search of the European source that finds nothing keeps a
  product degraded, so that later changes of its score or listing are not told
  (`engine.py:158`, `state.py:337`); the incomplete refresh of a rejected record
  counts as a change; after an upgrade of the asset, aliases of two old records
  may collide, which fails every later scan.  `OutageIsSilent` and
  `CollisionNeedsUpgrade` say how far the first and the last of these go.
  An earlier `OutageIsSilent`, without the condition on the version, is false once
  there are three scans: what is known of an old version is not asked for again,
  so after an upgrade a finding can lose its CVE, with the score, the rejection
  and the listing of it, and is told as changed although no source published
  anything; it is told again when a scan finds the link anew.
* `ConfigSave`: a crash between the replacement of a secret and the publication
  leaves the new secret with the old configuration; the compensation itself may
  fail, and says so.
* `Schedule`: reading and writing the crontab are two commands, so an edit of the
  user between them is lost.
* `Ingest`: the repetition of an accepted but already superseded snapshot is
  answered with a conflict, and a disk error after the pointer was replaced with
  a failure; wrong credentials may exceed their limit by the handlers that are
  at work.
* `Pipeline`: an optional source whose file goes bad between its check and its
  private copy fails the whole run.
* `ProcessRun`: a program that ends without reading all of its input makes the
  call fail, whatever its exit code.
* `Collect`: generations contain the time they were made, so that none is ever
  found to be there already.
* `Discovery`: a target without an open port keeps its job incomplete for ever;
  a crash right before the report loses the differences it would have told.
* `WebDetect`: the review says success before the snapshot is written; a crash
  leaves the lock file, which blocks later runs until somebody removes it.

## 6. Not modelled, and the plan

What is left of the plan, in this order: (1) the notice of a report in the same
transaction, which joins `ReportTrail` to `Delivery`; (2) the backoff of lookups
and the full mode of the NVD scan; (3) rule conditions, the merge of a view and
its fingerprint, and version ranges as pure operators.  The abstract promise of the evaluation (each change evaluated, each
event queued once per channel) will join `Evaluation` to `Delivery`.

Compositions worth stating: `Delivery` with `OperationLock` in place of
`Serialised`; `Delivery` with `Transports` in place of its own attempts;
evaluation with `Delivery`'s `Enqueue`; `Pipeline` with the pointers of `Ingest`
and `Collect`; `Notifications` with the events of `InventoryScan`.

Left out for good: parsing and rendering, HTML pages, setup dialogues, argument
handling, pattern data of the extensions, the wording of messages and
statements.  Within the modelled parts:

* delivery: several channels in one run (they share only the deadline); of the
  transports' protocols everything but how a request ends;
* jobs: storage moves of the job manager (what an editor needs of them is in
  `ConfigSave`), history pruning and log files, and a child that outlives a
  crashed dashboard (it keeps its own operation lock);
* synchronisation: malformed pages of EUVD, which only fail a run; the full mode
  of the NVD scan; the pace of requests where it only delays them;
* notifications: their pacing, operational and test messages, which share the
  ledger but are prepared and sent by their own runs, and its capacity;
* evaluation: the fingerprints of `watch_view`, which only count new and changed
  views for the summary, the pruning of EUVD items, rules that are added,
  disabled or removed, and kinds of events other than these four;
* accounts: hashing, the throttle by network address, exports of the audit trail;
* inventory: version ranges and applicability, several assets (they meet only in
  the snapshot clients are looked up in);
* configuration: validation of single settings; scheduling: the quoting of
  commands;
* automation: contents of inventories, SBOMs and scans, TLS; the records of a
  merged inventory (`Pipeline` says only which snapshots are in it).
