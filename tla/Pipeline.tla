------------------------------ MODULE Pipeline ------------------------------
(***************************************************************************)
(* cvebeacon-auto run (pipeline.py): collect the sources, check and copy   *)
(* their snapshots, merge them, publish the inventory with its manifest,   *)
(* scan, deliver, and keep health.json.                                    *)
(*                                                                         *)
(* Each runner has a configuration and a state directory of its own; all   *)
(* share the inventory and the database.  Meanwhile snapshots are          *)
(* uploaded, replaced and grow stale.  A runner may be interrupted, or die *)
(* between any two steps.  A snapshot is its version; an inventory says    *)
(* which version of which source is in it.                                 *)
(***************************************************************************)
EXTENDS Integers, FiniteSets, Functions

CONSTANTS
    Runners,
    Local,       \* sources that are files of somebody else, two of them a snapshot
    Pulled,      \* sources the runner collects itself: ssh, registry, kubernetes
    Required,    \* sources with required = true
    Nobody,
    MaxVersion, MaxRuns    \* bounds: snapshots of a source, runs of all runners

Sources == Local \cup Pulled

PipelineAssumption ==
    /\ Required \subseteq Sources /\ Local \cap Pulled = {}
    /\ Nobody \notin Runners /\ MaxVersion \in Nat /\ MaxRuns \in Nat

VARIABLES
    snapshot,   \* of each source: the inventory, its manifest, whether they are fresh
    run,        \* what each runner does
    health,     \* health.json of each runner
    resource,   \* who holds the locks of the inventory and the database
    pair,       \* the merged inventory and its manifest
    runs,       \* bound
    scanned,    \* history: the inventory that was scanned last
    torn,       \* history: a runner died, or could not restore, between the two files
    bad         \* history: runs of each runner that ended with a code, since one with 0

history == <<runs, scanned, torn, bad>>
vars == <<snapshot, run, health, resource, pair, history>>

Idle == [at |-> "idle"]
NoInventory == [s \in {} |-> 0]

Init ==
    /\ snapshot = [s \in Sources |-> [inv |-> 0, man |-> 0, fresh |-> FALSE]]
    /\ run = [r \in Runners |-> Idle]
    /\ health = [r \in Runners |-> [status |-> "never_run", consecutive |-> 0]]
    /\ resource = Nobody
    /\ pair = [inv |-> NoInventory, man |-> NoInventory]
    /\ runs = 0 /\ scanned = NoInventory /\ torn = FALSE /\ bad = [r \in Runners |-> 0]
-----------------------------------------------------------------------------
(* The sources. *)

\* read_snapshot, of one source
Readable(s) ==
    /\ snapshot[s].inv > 0 /\ snapshot[s].inv = snapshot[s].man
    /\ snapshot[s].fresh

\* A local file is replaced, one of the pair after the other.
ReplaceInventory(s) ==
    /\ snapshot[s].inv = snapshot[s].man /\ snapshot[s].inv < MaxVersion
    /\ snapshot' = [snapshot EXCEPT ![s].inv = @ + 1]
    /\ UNCHANGED <<run, health, resource, pair, history>>

ReplaceManifest(s) ==
    /\ snapshot[s].inv # snapshot[s].man
    /\ snapshot' = [snapshot EXCEPT ![s].man = snapshot[s].inv, ![s].fresh = TRUE]
    /\ UNCHANGED <<run, health, resource, pair, history>>

Age(s) ==
    /\ snapshot[s].fresh
    /\ snapshot' = [snapshot EXCEPT ![s].fresh = FALSE]
    /\ UNCHANGED <<run, health, resource, pair, history>>
-----------------------------------------------------------------------------
(* The run. *)

At(r, place) == run[r].at = place
Goes(r, place) == run' = [run EXCEPT ![r].at = place]

\* The record of a run: sources still to do, those accepted with the version that was
\* found, those collected, the private copies, what went wrong.
Start(r) ==
    /\ At(r, "idle") /\ runs < MaxRuns
    /\ runs' = runs + 1
    /\ run' = [run EXCEPT ![r] =
         [at |-> "locks", previous |-> health[r].consecutive, todo |-> Sources,
          accepted |-> NoInventory, collected |-> {}, copies |-> NoInventory, merged |-> NoInventory,
          required_failed |-> FALSE, failed |-> FALSE, code |-> 2]]
    /\ health' = [health EXCEPT ![r].status = "running"]
    /\ UNCHANGED <<snapshot, resource, pair, scanned, torn, bad>>

\* The end of the try: status and count are saved.  Completed runs go on to operational().
Saved(r, code, status) ==
    LET count == IF code = 0 THEN 0 ELSE run[r].previous + 1
    IN  /\ health' = [health EXCEPT ![r] = [status |-> status, consecutive |-> count]]
        /\ bad' = [bad EXCEPT ![r] = IF code = 0 THEN 0 ELSE @ + 1]
        /\ run' = [run EXCEPT ![r].at = IF status \in {"skipped_locked", "interrupted"} THEN "leaving"
                                                                                     ELSE "operations",
                              ![r].code = code]

\* Slip: runners of different state directories do not exclude each other.
Alone(r) == TRUE

\* The shared locks: one attempt.
Available(r) == resource = Nobody

Lock(r) ==
    /\ At(r, "locks")
    /\ IF Available(r)
       THEN resource' = r /\ Goes(r, "sources") /\ UNCHANGED <<health, bad>>
       ELSE Saved(r, 75, "skipped_locked") /\ UNCHANGED resource
    /\ UNCHANGED <<snapshot, pair, runs, scanned, torn>>

\* Slip: a required source whose collection failed is served from its last snapshot.
ServesPrevious(s, collected, readable) == s \in Required /\ ~readable

\* When a source ends the run.
EndsRun(s, collected, readable) == s \in Required /\ ~(collected /\ readable)

\* Slip: an optional source that has nothing is no failure.
OnlyCollection(collected, readable) == ~collected

\* When something is added to the failures of the run.
IsFailure(collected, readable) == ~collected \/ ~readable

\* collect and the check, of one source.  A collection publishes a new generation or fails
\* and leaves the last one.
Source(r, s) ==
    /\ At(r, "sources") /\ s \in run[r].todo
    /\ \E collected \in IF s \in Pulled THEN BOOLEAN ELSE {TRUE} :
         LET now == IF s \in Pulled /\ collected
                    THEN [inv |-> snapshot[s].inv + 1, man |-> snapshot[s].inv + 1, fresh |-> TRUE]
                    ELSE snapshot[s]
             readable == now.inv > 0 /\ now.inv = now.man /\ now.fresh
         IN  /\ now.inv <= MaxVersion
             /\ snapshot' = [snapshot EXCEPT ![s] = now]
             /\ run' = [run EXCEPT ![r].todo = @ \ {s},
                  ![r].accepted = IF readable THEN [t \in DOMAIN @ \cup {s} |->
                                                       IF t = s THEN now.inv ELSE run[r].accepted[t]] ELSE @,
                  ![r].collected = IF collected THEN @ \cup {s} ELSE @,
                  ![r].required_failed = @ \/ EndsRun(s, collected, readable),
                  ![r].failed = @ \/ IsFailure(collected, readable)]
    /\ UNCHANGED <<health, resource, pair, history>>

Fails(r) == Saved(r, 2, "failed") /\ UNCHANGED <<snapshot, resource, pair, runs, scanned, torn>>

\* All sources were looked at.
Decide(r) ==
    /\ At(r, "sources") /\ run[r].todo = {}
    /\ IF run[r].required_failed \/ DOMAIN run[r].accepted = {} THEN Fails(r)
       ELSE Goes(r, "copying") /\ UNCHANGED <<snapshot, health, resource, pair, history>>

\* The private copy: a generation is immutable, a local file is whatever is there now.
\* The copied pair is read again under the same policy.
Copy(r, s) ==
    /\ At(r, "copying") /\ s \in DOMAIN run[r].accepted \ DOMAIN run[r].copies
    /\ IF snapshot[s].fresh /\ (s \in Local => Readable(s))
       THEN /\ run' = [run EXCEPT ![r].copies =
                 [t \in DOMAIN @ \cup {s} |->
                    IF t # s THEN run[r].copies[t]
                    ELSE IF s \in Local THEN snapshot[s].inv ELSE run[r].accepted[s]]]
            /\ UNCHANGED <<snapshot, health, resource, pair, history>>
       ELSE Fails(r)

\* merge_snapshots and load_inventory in the scratch directory: conflicting records fail.
Merge(r) ==
    /\ At(r, "copying") /\ DOMAIN run[r].copies = DOMAIN run[r].accepted
    /\ \/ run' = [run EXCEPT ![r].merged = run[r].copies, ![r].at = "publishing"]
          /\ UNCHANGED <<snapshot, health, resource, pair, history>>
       \/ Fails(r)
-----------------------------------------------------------------------------
(* publish_pair *)

\* The inventory; the bytes of before stay at hand.
WriteInventory(r) ==
    /\ At(r, "publishing")
    /\ run' = [run EXCEPT ![r].at = "written", ![r].copies = pair.inv]
    /\ pair' = [pair EXCEPT !.inv = run[r].merged]
    /\ UNCHANGED <<snapshot, health, resource, history>>

WriteManifest(r) ==
    /\ At(r, "written")
    /\ pair' = [pair EXCEPT !.man = run[r].merged]
    /\ torn' = FALSE
    /\ Goes(r, "scan")
    /\ UNCHANGED <<snapshot, health, resource, runs, scanned, bad>>

\* Slip: the new inventory stays without its manifest.
Left(r) == pair.inv

\* What is put back when the second file cannot be written.
Restored(r) == run[r].copies

\* An error or an interruption: the inventory is restored, unless that fails too.
Undo(r, code, status) ==
    /\ At(r, "written")
    /\ \/ pair' = [pair EXCEPT !.inv = Restored(r)] /\ Saved(r, code, status) /\ UNCHANGED torn
       \/ torn' = TRUE /\ Saved(r, 2, "failed") /\ UNCHANGED pair
    /\ UNCHANGED <<snapshot, resource, runs, scanned>>

WriteFails(r) == (At(r, "publishing") /\ Fails(r)) \/ Undo(r, 2, "failed")
-----------------------------------------------------------------------------
\* The scan of the core, then the deliveries and discoveries.  They may be unhealthy, and
\* each of the three may raise.
Scan(r) ==
    /\ At(r, "scan")
    /\ scanned' = pair.inv
    /\ \/ \E core \in {0, 3, 4}, unhealthy \in BOOLEAN :
            LET code == IF core = 0 /\ (run[r].failed \/ unhealthy) THEN 5 ELSE core
            IN  Saved(r, code, CASE code = 0 -> "operational"   [] code = 4 -> "coverage_warning"
                                 [] code = 5 -> "degraded"      [] OTHER    -> "failed")
       \/ Saved(r, 2, "failed")
    /\ UNCHANGED <<snapshot, resource, pair, runs, torn>>

\* operational(): notices about the run itself; failing to send them degrades a good run.
Operations(r) ==
    /\ At(r, "operations")
    /\ Goes(r, "leaving")
    /\ \/ UNCHANGED <<health, bad>>
       \/ /\ run[r].code = 0
          /\ health' = [health EXCEPT ![r] = [status |-> "degraded", consecutive |-> run[r].previous + 1]]
          /\ bad' = [bad EXCEPT ![r] = run[r].previous + 1]
    /\ UNCHANGED <<snapshot, resource, pair, runs, scanned, torn>>

Unlocked(r) == resource' = IF resource = r THEN Nobody ELSE resource

Leave(r) ==
    /\ At(r, "leaving")
    /\ run' = [run EXCEPT ![r].at = "idle"] /\ Unlocked(r)
    /\ UNCHANGED <<snapshot, health, pair, history>>

\* KeyboardInterrupt and the like, while the run is inside its try.
Interrupt(r) ==
    \/ /\ run[r].at \in {"locks", "sources", "copying", "publishing", "scan"}
       /\ Saved(r, 130, "interrupted")
       /\ UNCHANGED <<snapshot, resource, pair, runs, scanned, torn>>
    \/ Undo(r, 130, "interrupted")

\* The process is gone; its locks go with it, health.json stays.
Crash(r) ==
    /\ ~At(r, "idle")
    /\ run' = [run EXCEPT ![r] = Idle] /\ Unlocked(r)
    /\ torn' = (torn \/ At(r, "written"))
    /\ UNCHANGED <<snapshot, health, pair, runs, scanned, bad>>

Next ==
    \/ \E s \in Local : ReplaceInventory(s) \/ ReplaceManifest(s)
    \/ \E s \in Sources : Age(s)
    \/ \E r \in Runners :
         \/ Start(r) \/ Lock(r) \/ Decide(r) \/ Merge(r) \/ WriteInventory(r) \/ WriteManifest(r)
         \/ WriteFails(r) \/ Scan(r) \/ Operations(r) \/ Leave(r) \/ Interrupt(r) \/ Crash(r)
         \/ \E s \in Sources : Source(r, s) \/ Copy(r, s)

Spec == Init /\ [][Next]_vars
-----------------------------------------------------------------------------
(* Properties. *)

TypeOK ==
    /\ resource \in Runners \cup {Nobody}
    /\ \A s \in Sources : snapshot[s].man \in 0..snapshot[s].inv /\ snapshot[s].inv \in 0..MaxVersion

\* The inventory and its manifest disagree only while a runner is between the two files,
\* or after one died there or could not restore (the hash makes readers refuse such a
\* pair, until a run publishes both again).
PairIsWhole ==
    pair.inv # pair.man => torn \/ \E r \in Runners : At(r, "written")

\* While a runner holds the shared locks, what it published is what is there: nobody scans
\* half of another's inventory.
PublishedStays ==
    \A r \in Runners : At(r, "scan") => pair.inv = run[r].merged /\ pair.man = run[r].merged

\* A run that saved "operational" published every configured source, each collected in
\* that run: nothing served from an earlier snapshot, nothing left out.
OperationalIsComplete ==
    \A r \in Runners : run[r].at \in {"operations", "leaving"} /\ health[r].status = "operational" =>
        DOMAIN run[r].merged = Sources /\ run[r].collected = Sources

\* The consecutive failures of health.json are the runs that ended badly since a good one,
\* through interruptions, refused locks and crashes.
FailuresAreCounted == \A r \in Runners : health[r].consecutive = bad[r]

PipelineInv ==
    TypeOK /\ PairIsWhole /\ PublishedStays /\ OperationalIsComplete /\ FailuresAreCounted

\* The inventory of before is only replaced by one in which every required source is, as it
\* was collected by the same run, or restored.
LastGoodStays ==
    pair.inv' # pair.inv => \E r \in Runners :
        \/ At(r, "written")
        \/ /\ At(r, "publishing") /\ resource = r
           /\ Required \subseteq run[r].collected \cap DOMAIN pair'.inv

\* Successive scans never see an older snapshot of a source than the one before did.
ScansAdvance == \A s \in DOMAIN scanned \cap DOMAIN scanned' : scanned'[s] >= scanned[s]

\* What no step may do to the inventory and to what is scanned.
PipelineSteps == LastGoodStays /\ ScansAdvance
=============================================================================
