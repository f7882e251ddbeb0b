----------------------------- MODULE Discovery ------------------------------
(***************************************************************************)
(* A discovery job of the automation (discovery/nmap.py): its targets are  *)
(* scanned in batches, and only a complete result replaces the last one,   *)
(* with a history file for every different result.                         *)
(*                                                                         *)
(* The network changes between two batches, a batch may fail, the process  *)
(* may stop between any two writes, and the administrator may change the   *)
(* targets between two runs.  A batch is one target here.                  *)
(***************************************************************************)
EXTENDS Integers, FiniteSets

CONSTANTS
    Targets, Ports,
    MaxRuns, MaxChanges, None

DiscoveryAssumption ==
    /\ IsFiniteSet(Targets) /\ IsFiniteSet(Ports) /\ MaxRuns \in Nat /\ MaxChanges \in Nat
    /\ None \notin [scope : SUBSET Targets, found : SUBSET (Targets \X Ports)]

VARIABLES
    open,     \* the ports each target has open
    scope,    \* the targets of the job
    current,  \* current.json
    history,  \* the results in history/
    run,      \* the run of the job
    runs, changes,
    told,     \* history: how many observations the reports so far add up to
    lost      \* history: a run stopped between its result and its report

vars == <<open, scope, current, history, run, runs, changes, told, lost>>

Idle == [step |-> "idle"]
Observations == SUBSET (Targets \X Ports)

Init ==
    /\ open \in [Targets -> SUBSET Ports] /\ scope = Targets
    /\ current = None /\ history = {} /\ run = Idle
    /\ runs = 0 /\ changes = 0 /\ told = 0 /\ lost = FALSE
-----------------------------------------------------------------------------
(* The world. *)

Changes(t, ports) ==
    /\ changes < MaxChanges /\ changes' = changes + 1
    /\ open' = [open EXCEPT ![t] = ports] /\ open' # open
    /\ UNCHANGED <<scope, current, history, run, runs, told, lost>>

\* The jobs are read when a run starts.
Configure(targets) ==
    /\ run = Idle /\ changes < MaxChanges /\ changes' = changes + 1
    /\ targets # {} /\ targets # scope /\ scope' = targets
    /\ UNCHANGED <<open, current, history, run, runs, told, lost>>
-----------------------------------------------------------------------------
(* The run. *)

Identity(state) == [scope |-> state.scope, found |-> state.found]

\* The last result must be whole: its history file holds the same.
PreviousIsWhole == current # None => Identity(current) \in history

Start ==
    /\ run = Idle /\ runs < MaxRuns /\ runs' = runs + 1 /\ PreviousIsWhole
    /\ run' = [step |-> "scan", scope |-> scope, left |-> scope, found |-> {}, complete |-> TRUE,
               previous |-> current]
    /\ UNCHANGED <<open, scope, current, history, changes, told, lost>>

OpenAt(t) == {t} \X open[t]

\* Slip: the last batch decides.
LastBatch(complete, found) == found # {}

\* A target without an open port leaves the whole run incomplete.
Complete(complete, found) == complete /\ found # {}

Batch(t) ==
    /\ run.step = "scan" /\ t \in run.left
    /\ run' = [run EXCEPT !.left = @ \ {t}, !.found = @ \cup OpenAt(t),
                          !.complete = Complete(@, OpenAt(t))]
    /\ UNCHANGED <<open, scope, current, history, runs, changes, told, lost>>

\* The process fails, answers for another target, or takes too long.
Fail ==
    /\ run.step = "scan" /\ run' = Idle
    /\ UNCHANGED <<open, scope, current, history, runs, changes, told, lost>>

\* Slip: the result is published first.
CurrentFirst == [scanned |-> "publish", saved |-> "report", published |-> "save"]

Order == [scanned |-> "save", saved |-> "publish", published |-> "report"]

Finish ==
    /\ run.step = "scan" /\ run.left = {}
    /\ run' = IF run.complete THEN [run EXCEPT !.step = Order.scanned] ELSE Idle
    /\ UNCHANGED <<open, scope, current, history, runs, changes, told, lost>>

\* A result that was there before has its file already.
Save ==
    /\ run.step = "save"
    /\ history' = history \cup {Identity(run)} /\ run' = [run EXCEPT !.step = Order.saved]
    /\ UNCHANGED <<open, scope, current, runs, changes, told, lost>>

Publish ==
    /\ run.step = "publish"
    /\ current' = Identity(run) /\ run' = [run EXCEPT !.step = Order.published]
    /\ UNCHANGED <<open, scope, history, runs, changes, told, lost>>

\* Slip: with other targets, all is new.
SameScope(previous) ==
    IF previous # None /\ previous.scope = run.scope THEN previous.found ELSE {}

\* What the result is compared with.
Before(previous) == IF previous # None THEN previous.found ELSE {}

Added == Cardinality(run.found \ Before(run.previous))
NotObserved == Cardinality(Before(run.previous) \ run.found)

Report ==
    /\ run.step = "report" /\ run' = Idle
    /\ told' = told + Added - NotObserved
    /\ UNCHANGED <<open, scope, current, history, runs, changes, lost>>

Crash ==
    /\ run # Idle /\ run' = Idle
    /\ lost' = (lost \/ run.step = "report")
    /\ UNCHANGED <<open, scope, current, history, runs, changes, told>>

Next ==
    \/ \E t \in Targets, ports \in SUBSET Ports : Changes(t, ports)
    \/ \E targets \in SUBSET Targets : Configure(targets)
    \/ Start \/ \E t \in Targets : Batch(t)
    \/ Fail \/ Finish \/ Save \/ Publish \/ Report \/ Crash

Spec == Init /\ [][Next]_vars
-----------------------------------------------------------------------------
(* Properties. *)

TypeOK ==
    /\ open \in [Targets -> SUBSET Ports] /\ scope \in SUBSET Targets
    /\ current = None \/ current \in [scope : SUBSET Targets, found : Observations]
    /\ history \subseteq [scope : SUBSET Targets, found : Observations]
    /\ run.step \in {"idle", "scan", "save", "publish", "report"}
    /\ runs \in 0..MaxRuns /\ changes \in 0..MaxChanges /\ told \in Int /\ lost \in BOOLEAN

\* nmap.py:482: wherever a run stopped, the next one finds the last result whole, so that
\* no crash leaves a job that refuses to run for good.
NeverRefused == PreviousIsWhole

\* nmap.py:486: a result that was published holds an observation of each of its targets and
\* of no other one, whatever changed between the batches.
ResultIsComplete ==
    current # None =>
        /\ \A t \in current.scope : \E p \in Ports : <<t, p>> \in current.found
        /\ \A o \in current.found : o[1] \in current.scope

\* nmap.py:462: the differences that were reported add up to the result, over changes of the
\* targets and failed runs, as long as no run stopped right before its report.
ReportsAddUp ==
    run = Idle /\ ~lost => told = (IF current = None THEN 0 ELSE Cardinality(current.found))

DiscoveryInv == TypeOK /\ NeverRefused /\ ResultIsComplete /\ ReportsAddUp
=============================================================================
