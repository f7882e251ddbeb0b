--------------------------- MODULE HostComponents ---------------------------
(***************************************************************************)
(* The components around the watcher that share no state with each other:  *)
(* the configuration editor, the scheduler, the automation pipeline,       *)
(* collections, program runs, port discovery and web detection.            *)
(*                                                                         *)
(* This is their sum: a behaviour is a behaviour of one of them, which     *)
(* "part" names, and the variables of the others stay Nothing.  Names that *)
(* several components use are told apart here.                             *)
(***************************************************************************)
EXTENDS Integers

CONSTANTS
    Nothing,
    People, Broken, Missing, KeepBackups, MaxVersion, MaxBackups,
    Browsers, Shells, Plans, Systems, BeginLine, EndLine, Separator, Blank, Entry, MaxOps, MaxEdits,
    Runners, NoRunner, Local, Pulled, Required, MaxRuns,
    Origins, Images, Wanted, Artifacts, Subject, PageOf, Pin, Pages, AllowPartial,
    MaxObservedAge, MaxClock, MaxPushes,
    Calls, Capacity,
    Targets, Ports, MaxDiscoveries, MaxChanges,
    Assets, Host, Privates, MaxRedirects, Threads, Retries, AssetTimeout, RunTimeout,
    PublishesPartial, MaxSeconds

VARIABLES
    part,
    file, secret, backups, running, may, accounts, pending, save, job, reserved, replaced,
    system, tab, task, op, queue, trail, ops, edits, original, current,
    snapshot, run, health, resource, pair, runs, scanned, torn, bad,
    clock, listed, observed, staged, evidence, record, collection, collections, accepted,
    windows, free, stage, result, alive, killed, stopped, reader, writer, failure, gate,
    open, scope, published, history, discovery, discoveries, changes, told, lost,
    seconds, fetch, lookups, last, blocked, phase, lockfile, output, detections, requests, halted

ConfigSave == INSTANCE ConfigSave

Schedule == INSTANCE Schedule WITH
    Pages <- Browsers, Begin <- BeginLine, End <- EndLine, None <- Nothing

Pipeline == INSTANCE Pipeline WITH Nobody <- NoRunner

Collect == INSTANCE Collect WITH
    Sources <- Origins, MaxAge <- MaxObservedAge, MaxTime <- MaxClock, None <- Nothing,
    now <- clock, job <- collection, runs <- collections

ProcessRun == INSTANCE ProcessRun

Discovery == INSTANCE Discovery WITH
    MaxRuns <- MaxDiscoveries, None <- Nothing,
    current <- published, run <- discovery, runs <- discoveries

WebDetect == INSTANCE WebDetect WITH
    Workers <- Threads, AllowPartial <- PublishesPartial, MaxTime <- MaxSeconds,
    now <- seconds, task <- fetch, runs <- detections, stopped <- halted

\* What the components assume of their constants.
ASSUME ComponentAssumptions ==
    /\ ConfigSave!ConfigSaveAssumption /\ Schedule!ScheduleAssumption
    /\ Pipeline!PipelineAssumption /\ Collect!CollectAssumption
    /\ ProcessRun!ProcessRunAssumption /\ Discovery!DiscoveryAssumption
    /\ WebDetect!WebDetectAssumption
-----------------------------------------------------------------------------
(* The variables of the components that do not run. *)

NoConfigSave ==
    file = Nothing /\ secret = Nothing /\ backups = Nothing /\ running = Nothing /\ may = Nothing
    /\ accounts = Nothing /\ pending = Nothing /\ save = Nothing /\ job = Nothing
    /\ reserved = Nothing /\ replaced = Nothing
NoSchedule ==
    system = Nothing /\ tab = Nothing /\ task = Nothing /\ op = Nothing /\ queue = Nothing
    /\ trail = Nothing /\ ops = Nothing /\ edits = Nothing /\ original = Nothing /\ current = Nothing
NoPipeline ==
    snapshot = Nothing /\ run = Nothing /\ health = Nothing /\ resource = Nothing /\ pair = Nothing
    /\ runs = Nothing /\ scanned = Nothing /\ torn = Nothing /\ bad = Nothing
NoCollect ==
    clock = Nothing /\ listed = Nothing /\ observed = Nothing /\ staged = Nothing /\ evidence = Nothing
    /\ record = Nothing /\ collection = Nothing /\ collections = Nothing /\ accepted = Nothing
NoProcessRun ==
    windows = Nothing /\ free = Nothing /\ stage = Nothing /\ result = Nothing /\ alive = Nothing
    /\ killed = Nothing /\ stopped = Nothing /\ reader = Nothing /\ writer = Nothing
    /\ failure = Nothing /\ gate = Nothing
NoDiscovery ==
    open = Nothing /\ scope = Nothing /\ published = Nothing /\ history = Nothing /\ discovery = Nothing
    /\ discoveries = Nothing /\ changes = Nothing /\ told = Nothing /\ lost = Nothing
NoWebDetect ==
    seconds = Nothing /\ fetch = Nothing /\ lookups = Nothing /\ last = Nothing /\ blocked = Nothing
    /\ phase = Nothing /\ lockfile = Nothing /\ output = Nothing /\ detections = Nothing
    /\ requests = Nothing /\ halted = Nothing

configVars ==
    <<file, secret, backups, running, may, accounts, pending, save, job, reserved, replaced>>
scheduleVars == <<system, tab, task, op, queue, trail, ops, edits, original, current>>
pipelineVars == <<snapshot, run, health, resource, pair, runs, scanned, torn, bad>>
collectVars ==
    <<clock, listed, observed, staged, evidence, record, collection, collections, accepted>>
processVars ==
    <<windows, free, stage, result, alive, killed, stopped, reader, writer, failure, gate>>
discoveryVars == <<open, scope, published, history, discovery, discoveries, changes, told, lost>>
webVars ==
    <<seconds, fetch, lookups, last, blocked, phase, lockfile, output, detections, requests, halted>>
componentVars ==
    <<configVars, scheduleVars, pipelineVars, collectVars, processVars,
      discoveryVars, webVars>>

ComponentsInit ==
    \/ /\ part = "config_save" /\ ConfigSave!Init
       /\ NoSchedule /\ NoPipeline /\ NoCollect /\ NoProcessRun /\ NoDiscovery /\ NoWebDetect
    \/ /\ part = "schedule" /\ Schedule!Init
       /\ NoConfigSave /\ NoPipeline /\ NoCollect /\ NoProcessRun /\ NoDiscovery /\ NoWebDetect
    \/ /\ part = "pipeline" /\ Pipeline!Init
       /\ NoConfigSave /\ NoSchedule /\ NoCollect /\ NoProcessRun /\ NoDiscovery /\ NoWebDetect
    \/ /\ part = "collect" /\ Collect!Init
       /\ NoConfigSave /\ NoSchedule /\ NoPipeline /\ NoProcessRun /\ NoDiscovery /\ NoWebDetect
    \/ /\ part = "process_run" /\ ProcessRun!Init
       /\ NoConfigSave /\ NoSchedule /\ NoPipeline /\ NoCollect /\ NoDiscovery /\ NoWebDetect
    \/ /\ part = "discovery" /\ Discovery!Init
       /\ NoConfigSave /\ NoSchedule /\ NoPipeline /\ NoCollect /\ NoProcessRun /\ NoWebDetect
    \/ /\ part = "web_detect" /\ WebDetect!Init
       /\ NoConfigSave /\ NoSchedule /\ NoPipeline /\ NoCollect /\ NoProcessRun /\ NoDiscovery

ConfigSaveNext ==
    /\ part = "config_save" /\ ConfigSave!Next
    /\ UNCHANGED <<part, scheduleVars, pipelineVars, collectVars, processVars,
                   discoveryVars, webVars>>
ScheduleNext ==
    /\ part = "schedule" /\ Schedule!Next
    /\ UNCHANGED <<part, configVars, pipelineVars, collectVars, processVars,
                   discoveryVars, webVars>>
PipelineNext ==
    /\ part = "pipeline" /\ Pipeline!Next
    /\ UNCHANGED <<part, configVars, scheduleVars, collectVars, processVars,
                   discoveryVars, webVars>>
CollectNext ==
    /\ part = "collect" /\ Collect!Next
    /\ UNCHANGED <<part, configVars, scheduleVars, pipelineVars, processVars,
                   discoveryVars, webVars>>
ProcessRunNext ==
    /\ part = "process_run" /\ ProcessRun!Next
    /\ UNCHANGED <<part, configVars, scheduleVars, pipelineVars, collectVars,
                   discoveryVars, webVars>>
DiscoveryNext ==
    /\ part = "discovery" /\ Discovery!Next
    /\ UNCHANGED <<part, configVars, scheduleVars, pipelineVars, collectVars,
                   processVars, webVars>>
WebDetectNext ==
    /\ part = "web_detect" /\ WebDetect!Next
    /\ UNCHANGED <<part, configVars, scheduleVars, pipelineVars, collectVars,
                   processVars, discoveryVars>>

ComponentsNext ==
    \/ ConfigSaveNext \/ ScheduleNext \/ PipelineNext \/ CollectNext
    \/ ProcessRunNext \/ DiscoveryNext \/ WebDetectNext

ComponentsSpec == ComponentsInit /\ [][ComponentsNext]_<<part, componentVars>>
-----------------------------------------------------------------------------
\* The configuration editor: what is replaced is kept, and every save is authorised.
ConfigSaveSafe ==
    /\ [](part = "config_save" => ConfigSave!ConfigInv)
    /\ [][part = "config_save" => ConfigSave!SaveIsSafe]_<<part, configVars>>

\* The scheduler: plans run when they are due, and the rest of the crontab stays.
ScheduleSafe ==
    /\ [](part = "schedule" => Schedule!ScheduleInv)
    /\ [][part = "schedule" => Schedule!OriginalIsRestored]_<<part, scheduleVars>>

\* The pipeline: whole pairs, exact health, and an inventory that never gets worse.
PipelineSafe ==
    /\ [](part = "pipeline" => Pipeline!PipelineInv)
    /\ [][part = "pipeline" => Pipeline!PipelineSteps]_<<part, pipelineVars>>

\* Collections: what is served has its evidence, of the right image.
CollectSafe == part = "collect" => Collect!CollectInv

\* Program runs: bounded load, whole results, and nothing that keeps running.
ProcessRunSafe == part = "process_run" => ProcessRun!ProcessRunInv

\* Discovery: results are complete, and reports add up to them.
DiscoverySafe == part = "discovery" => Discovery!DiscoveryInv

\* Web detection: plans, stopped hosts, and success that is complete.
WebDetectSafe == part = "web_detect" => WebDetect!WebInv
=============================================================================
