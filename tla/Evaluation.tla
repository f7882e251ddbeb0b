----------------------------- MODULE Evaluation -----------------------------
(***************************************************************************)
(* From the sources to the alerts: sync_watch writes what it fetches, each *)
(* write queues the CVEs it changed (watch_touched) in its transaction,    *)
(* and evaluate_touched takes them from the queue in batches, compares the *)
(* CVE's view with the alert state of the rule and stores events.          *)
(* evaluate_all (`watch evaluate`) goes through all CVEs instead.          *)
(*                                                                         *)
(* One rule: it matches a CVE that CISA lists as exploited or whose EPSS   *)
(* score reaches EpssMin, and tells additions to the catalogue and rises   *)
(* of severity and EPSS.  The commands exclude each other (OperationLock). *)
(* Granularity: one action per transaction.                                *)
(***************************************************************************)
EXTENDS Integers, FiniteSets

CONSTANTS
    Cves,        \* CVEs, numbered in the order of their identifiers
    OldCves,     \* those published before the initial window
    NoRow,       \* no row in watch_cve
    NoAlert,     \* no row in watch_alert_state
    Limit,       \* EVALUATION_BATCH
    MaxFetches,  \* bound: fetches that bring something new
    MaxFaults,   \* bound: sources that fail and processes that die
    MaxEdits     \* bound: edits of the configuration

ASSUME EvaluationAssumption ==
    /\ Cves \subseteq Nat \ {0} /\ IsFiniteSet(Cves)
    /\ OldCves \subseteq Cves
    /\ NoRow \notin Nat
    /\ Limit \in Nat \ {0}
    /\ MaxFetches \in Nat /\ MaxFaults \in Nat /\ MaxEdits \in Nat

VARIABLES
    \* the tables of the sources
    nvd,      \* watch_cve: the severity NVD gives, or NoRow
    euvd,     \* watch_euvd_item: the severity of the best item, 0 without
    kev,      \* watch_kev: the day CISA listed the CVE, 0 without
    epss,     \* watch_epss: the score
    lookup,   \* watch_lookup: listed CVEs to ask NVD for
    \* the evaluation
    touched,  \* watch_touched
    alert,    \* watch_alert_state
    events,   \* watch_event
    meta,     \* watch_meta
    \* the configuration and the command that runs
    config,
    run,
    \* bounds
    fetches, faults, edits,
    \* history: no action reads it
    told,     \* what the match told, with the severity last taken over from an edit
    strayed   \* `watch evaluate` ran with sources no sync has run with

tables == <<nvd, euvd, kev, epss, lookup>>
bounds == <<fetches, faults, edits>>
history == <<told, strayed>>
vars == <<tables, touched, alert, events, meta, config, run, bounds, history>>

Bands == 0..2       \* SEVERITY_BANDS: none and two more
KevDays == 0..2     \* not listed, listed before and in the initial window
Scores == 0..3      \* no score, two below the first band limit, one above it
EpssMin == 2        \* the rule's epss_min parts the two below the limit
BandMin == 3        \* EPSS_BANDS

EpssBand(score) == IF score = 0 THEN 0 ELSE IF score < BandMin THEN 1 ELSE 2

\* EPSS is always selected: validate_rule_sources demands it for epss_min, and
\* "euvd" for a rule that looks at no other provider.
Configs ==
    {cfg \in [initial : {"baseline", "backfill"}, sources : SUBSET {"euvd"},
              providers : SUBSET {"nvd", "euvd"}] :
        cfg.providers # {} /\ (cfg.providers = {"euvd"} => cfg.sources = {"euvd"})}

Known == {c \in Cves : nvd[c] # NoRow}

\* `complete` says that no source failed, or that `watch evaluate` may close.
Off(cfg) == [step |-> "off", config |-> cfg, initial |-> FALSE, complete |-> TRUE, last |-> 0]

Init ==
    /\ nvd = [c \in Cves |-> NoRow] /\ lookup = {}
    /\ euvd = [c \in Cves |-> 0] /\ kev = [c \in Cves |-> 0] /\ epss = [c \in Cves |-> 0]
    /\ touched = {} /\ alert = [c \in Cves |-> NoAlert] /\ events = {}
    /\ meta = [policy |-> <<>>, mode |-> "none", initialized |-> FALSE,
               synced |-> FALSE, evaluated |-> FALSE]
    /\ config \in {cfg \in Configs : cfg.sources = {"euvd"} /\ cfg.providers = {"nvd", "euvd"}}
    /\ run = Off(config)
    /\ fetches = 0 /\ faults = 0 /\ edits = 0
    /\ told = [c \in Cves |-> NoAlert] /\ strayed = FALSE
-----------------------------------------------------------------------------
(* What the evaluation makes of a CVE. *)

\* The merged view of a CVE; without EUVD among the sources its score is not seen.
View(c, sources) ==
    [nvd |-> nvd[c], euvd |-> IF "euvd" \in sources THEN euvd[c] ELSE 0,
     kev |-> kev[c], epss |-> epss[c]]

Higher(a, b) == IF a < b THEN b ELSE a

\* highest_cvss among the providers the rule selects.
Severity(view, providers) ==
    Higher(IF "nvd" \in providers THEN view.nvd ELSE 0,
           IF "euvd" \in providers THEN view.euvd ELSE 0)

Matches(view) == view.kev # 0 \/ view.epss >= EpssMin

\* snapshot_for, with the providers it was taken for: current bands and high-water marks.
Snapshot(view, providers) ==
    LET band == Severity(view, providers)
    IN  [kev |-> view.kev # 0, band |-> band, mark |-> band,
         epss |-> EpssBand(view.epss), epssMark |-> EpssBand(view.epss),
         providers |-> providers]

\* Slip: the marks of the old providers stay.
Unrebased(old, view, providers) == old

\* rebase_severity: other providers give other scores, the marks begin again.
Rebased(old, view, providers) ==
    LET band == Severity(view, providers)
    IN  IF old.providers = providers THEN old
        ELSE [old EXCEPT !.band = band, !.mark = band]

\* The marks only rise; a first EPSS score in the lowest band does not raise them.
Marked(previous, now) ==
    [now EXCEPT
        !.mark = Higher(now.band, previous.mark),
        !.epssMark = IF previous.epssMark = 0 /\ now.epss = 1 THEN 0
                     ELSE Higher(now.epss, previous.epssMark)]

Judged(c, cfg) ==
    LET view == View(c, cfg.sources)
        now == Snapshot(view, cfg.providers)
    IN  IF alert[c] = NoAlert
        THEN IF Matches(view) THEN now ELSE NoAlert
        ELSE Marked(Rebased(alert[c], view, cfg.providers), now)

\* _is_backlog: published before the window and not listed since.
Backlog(c) == c \in OldCves /\ kev[c] # 2

Event(c, kind, occurrence, initial) ==
    [cve |-> c, kind |-> kind, occurrence |-> occurrence, initial |-> initial]

When(condition, event) == IF condition THEN {event} ELSE {}

\* The events of evaluate() for a CVE; the severity is compared after the rebase.
Raised(c, cfg, initial) ==
    LET now == Judged(c, cfg)
        previous == Rebased(alert[c], View(c, cfg.sources), cfg.providers)
    IN  IF now = NoAlert THEN {}
        ELSE IF alert[c] = NoAlert THEN {Event(c, "match", 0, initial \/ Backlog(c))}
        ELSE When(now.kev /\ ~previous.kev, Event(c, "kev_added", kev[c], FALSE))
             \cup When(now.mark # previous.mark,
                       Event(c, "severity_increase", now.band, FALSE))
             \cup When(now.epssMark # previous.epssMark,
                       Event(c, "epss_increase", now.epss, FALSE))

Key(e) == <<e.cve, e.kind, e.occurrence>>

\* INSERT OR IGNORE on (rule, cve_id, kind, occurrence).
Stored(raised) == {e \in raised : \A f \in events : Key(e) # Key(f)}

\* _evaluate_batch: alert states and events of a batch in one transaction.
Evaluate(batch, cfg, initial) ==
    /\ alert' = [c \in Cves |-> IF c \in batch \cap Known THEN Judged(c, cfg) ELSE alert[c]]
    /\ events' = events \cup Stored(UNION {Raised(c, cfg, initial) : c \in batch \cap Known})
    /\ told' = [c \in Cves |->
            IF c \notin batch \cap Known \/ alert'[c] = NoAlert THEN told[c]
            ELSE IF alert[c] = NoAlert THEN alert'[c]
            ELSE IF alert[c].providers = cfg.providers THEN told[c]
            ELSE [told[c] EXCEPT !.mark = alert'[c].band]]
-----------------------------------------------------------------------------
(* The synchronisation. *)

\* Slip: a first run that ended before its evaluation was the initial one.
InitialByFirstRun(mode) == ~meta.initialized /\ mode = "backfill"

\* Runs are initial until the evaluation of the first synchronisation is closed.
Initial(mode) ==
    mode = "backfill" /\ (~meta.initialized \/ ~meta.evaluated)

Begin ==
    LET mode == IF meta.mode = "none" THEN config.initial ELSE meta.mode
    IN  /\ run.step = "off"
        /\ touched' = IF meta.policy = <<config.sources>> THEN touched ELSE touched \cup Known
        /\ strayed' = (strayed /\ meta.policy = <<config.sources>>)
        /\ meta' = [meta EXCEPT !.policy = <<config.sources>>]
        /\ run' = [Off(config) EXCEPT
                      !.step = IF ~meta.initialized /\ mode = "baseline"
                               THEN "baseline" ELSE "nvd",
                      !.initial = Initial(mode)]
        /\ UNCHANGED <<tables, alert, events, config, bounds, told>>

\* record_baseline: the first run only remembers when it was; its queue is empty.
Baseline ==
    /\ run.step = "baseline"
    /\ meta' = [meta EXCEPT !.mode = "baseline", !.initialized = TRUE]
    /\ run' = Off(config)
    /\ UNCHANGED <<tables, touched, alert, events, config, bounds, history>>

Differing(old, new) == {c \in Cves : old[c] # new[c]}

\* At most as many entries differ as the bound still allows.
Fetched(changed) ==
    /\ fetches + Cardinality(changed) <= MaxFetches
    /\ fetches' = fetches + Cardinality(changed)
    /\ UNCHANGED <<faults, edits>>

Goes(step) == run' = [run EXCEPT !.step = step]

\* _mark_touched: only CVEs that already have a row are queued.
MarkTouched(changed) == touched' = touched \cup (changed \cap Known)

\* upsert_nvd: rows that are new or differ are queued; a lookup is answered by them.
Upsert(new) ==
    LET written == Differing(nvd, new)
    IN  /\ \A c \in written : new[c] # NoRow
        /\ nvd' = new
        /\ lookup' = lookup \ written
        /\ touched' = touched \cup written
        /\ Fetched(written)

\* A window of the NVD; the last one of the first run completes it.
NvdWindow(last) ==
    /\ run.step = "nvd"
    /\ \E new \in [Cves -> Bands \cup {NoRow}] : Upsert(new)
    /\ meta' = [meta EXCEPT !.mode = IF @ = "none" THEN "backfill" ELSE @,
                            !.initialized = @ \/ last]
    /\ IF last THEN Goes("euvd") ELSE UNCHANGED run
    /\ UNCHANGED <<euvd, kev, epss, alert, events, config, history>>

\* A page of the EUVD changes the best item of some CVEs.
EuvdPage ==
    /\ run.step = "euvd"
    /\ "euvd" \in run.config.sources
    /\ \E new \in [Cves -> Bands] :
        /\ new # euvd
        /\ euvd' = new
        /\ MarkTouched(Differing(euvd, new))
        /\ Fetched(Differing(euvd, new))
    /\ UNCHANGED <<nvd, kev, epss, lookup, alert, events, meta, config, run, history>>

EuvdEnds ==
    /\ run.step = "euvd"
    /\ Goes("kev")
    /\ UNCHANGED <<tables, touched, alert, events, meta, config, bounds, history>>

\* Slip: what left the catalogue is not queued.
KevAddsOnly(old, new) == {c \in Cves : old[c] # new[c] /\ new[c] # 0}

KevChanges(old, new) == Differing(old, new)

\* replace_kev: the whole catalogue.
ReplaceKev ==
    /\ run.step = "kev"
    /\ \E new \in [Cves -> KevDays] :
        /\ kev' = new
        /\ MarkTouched(KevChanges(kev, new))
        /\ Fetched(Differing(kev, new))
    /\ Goes("lookups")
    /\ UNCHANGED <<nvd, euvd, epss, lookup, alert, events, meta, config, history>>

\* sync_lookups: CVEs listed since the initial window that have no row.
SyncLookups ==
    /\ run.step = "lookups"
    /\ lookup' = {c \in Cves \ Known : kev[c] = 2}
    /\ Goes("lookup")
    /\ UNCHANGED <<nvd, euvd, kev, epss, touched, alert, events, meta, config, bounds, history>>

\* NVD knows one of them; it is written outside its window.
LookUp ==
    /\ run.step = "lookup"
    /\ \E c \in lookup, band \in Bands : Upsert([nvd EXCEPT ![c] = band])
    /\ UNCHANGED <<euvd, kev, epss, alert, events, meta, config, run, history>>

\* The others are not due, or NVD does not answer: their next time comes.
LookupsEnd ==
    /\ run.step = "lookup"
    /\ Goes("epss")
    /\ UNCHANGED <<tables, touched, alert, events, meta, config, bounds, history>>

Rows(scores) == {c \in Cves : scores[c] # 0}

\* A score that is new or gone or crossed a limit of the bands or of a rule.
EpssChanges(old, new) ==
    {c \in Differing(old, new) :
        \/ old[c] = 0 \/ new[c] = 0
        \/ \E limit \in {BandMin, EpssMin} : (old[c] < limit) # (new[c] < limit)}

\* replace_epss: the whole file, unless it has lost more than half of the scores.
ReplaceEpss ==
    /\ run.step = "epss"
    /\ \E new \in [Cves -> Scores] :
        /\ 2 * Cardinality(Rows(new)) >= Cardinality(Rows(epss))
        /\ epss' = new
        /\ MarkTouched(EpssChanges(epss, new))
        /\ Fetched(Differing(epss, new))
    /\ Goes("finish")
    /\ UNCHANGED <<nvd, euvd, kev, lookup, alert, events, meta, config, history>>

After == [euvd |-> "kev", kev |-> "lookups", epss |-> "finish"]

\* A source other than NVD fails: the run goes on and knows it.
SourceFails ==
    /\ run.step \in DOMAIN After
    /\ run.step = "euvd" => "euvd" \in run.config.sources
    /\ faults < MaxFaults
    /\ faults' = faults + 1
    /\ run' = [run EXCEPT !.step = After[run.step], !.complete = FALSE]
    /\ UNCHANGED <<tables, touched, alert, events, meta, config, fetches, edits, history>>

\* `watch run` evaluates next, `watch sync` ends.
Finish(next) ==
    /\ run.step = "finish"
    /\ meta' = [meta EXCEPT !.synced = @ \/ (run.initial /\ run.complete)]
    /\ run' = IF next = "off" THEN Off(config) ELSE [run EXCEPT !.step = next]
    /\ UNCHANGED <<tables, touched, alert, events, config, bounds, history>>
-----------------------------------------------------------------------------
(* The evaluation. *)

Lowest(ids) == {c \in ids : Cardinality({d \in ids : d < c}) < Limit}

\* The queue is in the order of the first change; which CVEs come first does not
\* matter here.
Take ==
    /\ run.step = "evaluate"
    /\ \E batch \in SUBSET touched :
        /\ batch # {}
        /\ Cardinality(batch) =
               IF Cardinality(touched) < Limit THEN Cardinality(touched) ELSE Limit
        /\ Evaluate(batch, run.config, run.initial)
        /\ touched' = touched \ batch
    /\ UNCHANGED <<tables, meta, config, run, bounds, strayed>>

\* `watch evaluate`: the queue is consumed only if this closes the initial evaluation.
BeginAll ==
    LET pending == meta.mode = "backfill" /\ ~meta.evaluated
    IN  /\ run.step = "off"
        /\ run' = [Off(config) EXCEPT !.step = "all", !.initial = TRUE,
                                      !.complete = pending /\ meta.synced]
        /\ UNCHANGED <<tables, touched, alert, events, meta, config, bounds, history>>

Ahead == {c \in Known : c > run.last}

TakeAll ==
    LET batch == Lowest(Ahead)
    IN  /\ run.step = "all"
        /\ Ahead # {}
        /\ Evaluate(batch, run.config, run.initial)
        /\ touched' = IF run.complete THEN touched \ batch ELSE touched
        /\ run' = [run EXCEPT !.last = CHOOSE c \in batch : \A d \in batch : d <= c]
        /\ strayed' = (strayed \/ meta.policy # <<run.config.sources>>)
        /\ UNCHANGED <<tables, meta, config, bounds>>

\* Slip: a source that failed does not keep the initial evaluation open.
ClosesAnyway == run.initial

Closes == run.initial /\ run.complete

\* Nothing is left; initial_evaluated_at is set behind a complete initial evaluation.
EvaluationEnds ==
    /\ \/ run.step = "evaluate" /\ touched = {}
       \/ run.step = "all" /\ Ahead = {}
    /\ meta' = [meta EXCEPT !.evaluated = @ \/ Closes]
    /\ run' = Off(config)
    /\ UNCHANGED <<tables, touched, alert, events, config, bounds, history>>

\* NVD fails, or the process dies.
Crash ==
    /\ run.step # "off"
    /\ faults < MaxFaults
    /\ faults' = faults + 1
    /\ run' = Off(config)
    /\ UNCHANGED <<tables, touched, alert, events, meta, config, fetches, edits, history>>

\* A command reads the configuration when it starts: edits in between are enough.
Edit ==
    /\ run.step = "off"
    /\ edits < MaxEdits
    /\ edits' = edits + 1
    /\ \E new \in Configs \ {config} :
        /\ new.initial = config.initial
        /\ config' = new /\ run' = Off(new)
    /\ UNCHANGED <<tables, touched, alert, events, meta, fetches, faults, history>>

Next ==
    \/ Begin
    \/ Baseline
    \/ \E last \in BOOLEAN : NvdWindow(last)
    \/ EuvdPage
    \/ EuvdEnds
    \/ ReplaceKev
    \/ SyncLookups
    \/ LookUp
    \/ LookupsEnd
    \/ ReplaceEpss
    \/ SourceFails
    \/ \E next \in {"evaluate", "off"} : Finish(next)
    \/ Take
    \/ BeginAll
    \/ TakeAll
    \/ EvaluationEnds
    \/ Crash
    \/ Edit

Spec == Init /\ [][Next]_vars
-----------------------------------------------------------------------------
(* Properties. *)

Alerts ==
    [kev : BOOLEAN, band : Bands, mark : Bands, epss : Bands, epssMark : Bands,
     providers : SUBSET {"nvd", "euvd"}]

ASSUME AlertsAssumption == NoAlert \notin Alerts

Runs ==
    [step : {"off", "baseline", "nvd", "euvd", "kev", "lookups", "lookup", "epss", "finish",
             "evaluate", "all"},
     config : Configs, initial : BOOLEAN, complete : BOOLEAN, last : Cves \cup {0}]

\* Every variable has its type, and only CVEs with a row are queued.
TypeOK ==
    /\ nvd \in [Cves -> Bands \cup {NoRow}] /\ euvd \in [Cves -> Bands]
    /\ kev \in [Cves -> KevDays] /\ epss \in [Cves -> Scores]
    /\ lookup \subseteq Cves \ Known
    /\ touched \subseteq Known
    /\ alert \in [Cves -> Alerts \cup {NoAlert}] /\ told \in [Cves -> Alerts \cup {NoAlert}]
    /\ events \subseteq [cve : Cves, initial : BOOLEAN, occurrence : 0..2,
                         kind : {"match", "kev_added", "severity_increase", "epss_increase"}]
    /\ meta \in [policy : {<<>>} \cup {<<s>> : s \in SUBSET {"euvd"}},
                 mode : {"none", "baseline", "backfill"},
                 initialized : BOOLEAN, synced : BOOLEAN, evaluated : BOOLEAN]
    /\ config \in Configs /\ run \in Runs
    /\ strayed \in BOOLEAN

\* No change is lost: a CVE that is not queued was judged by what the tables say
\* now, in whichever order its row, its listing and its scores arrived, and
\* whatever died in between.  `watch evaluate` with sources that no sync has
\* applied judges by other tables; no later run sees that.
NothingLost ==
    strayed \/ \A c \in Known \ touched :
        LET view == View(c, meta.policy[1])
        IN  IF alert[c] = NoAlert THEN ~Matches(view)
            ELSE /\ alert[c].kev = (view.kev # 0)
                 /\ alert[c].epss = EpssBand(view.epss)
                 /\ alert[c].band = Severity(view, alert[c].providers)

\* The types, and nothing lost between a source and the alert.
EvaluationInv == TypeOK /\ NothingLost

\* What rose above what the match told has an event of its own.
RiseIsTold ==
    \A c \in Cves : alert[c] # NoAlert =>
        LET Told(kind, occurrence) ==
                \E e \in events : Key(e) = <<c, kind, occurrence>>
        IN  /\ alert[c].mark # told[c].mark => Told("severity_increase", alert[c].mark)
            /\ alert[c].epssMark # told[c].epssMark => Told("epss_increase", alert[c].epssMark)
            /\ alert[c].kev /\ ~told[c].kev => \E day \in KevDays : Told("kev_added", day)

\* Until the initial evaluation is closed its matches go to the digest, however
\* many runs and crashes it takes (docs/WATCH.md, First-run).
InitialIsDigested ==
    meta.mode = "backfill" /\ ~meta.evaluated =>
        \A e \in events : e.kind = "match" => e.initial

\* It is closed only when all sources were read without a failure and no CVE waits.
ClosedWhenComplete ==
    [][meta'.evaluated /\ ~meta.evaluated => meta.synced /\ touched = {}]_vars

\* The initial evaluation is digested as a whole and closed when it is one.
InitialStage == []InitialIsDigested /\ ClosedWhenComplete

\* Under the providers of an edit a real rise is alerted (rules.py, rebase_severity).
LaterRiseAlerts ==
    [][\A c \in Cves :
          /\ alert[c] # NoAlert
          /\ alert[c].providers = alert'[c].providers
          /\ alert'[c].mark # alert[c].mark
          => events' # events]_vars
=============================================================================
