---------------------------- MODULE OperationLock ----------------------------
(***************************************************************************)
(* The operation lock: one lock file per storage location, taken in path   *)
(* order by every command that changes state, and probed by the dashboard. *)
(* The operating system keeps the locks and drops those of a dead process; *)
(* the file itself only describes its holder, who writes the description   *)
(* after locking and clears it before unlocking.                           *)
(*                                                                         *)
(* Granularity: one action per system call that others can observe.        *)
(***************************************************************************)
EXTENDS Integers, FiniteSets

CONSTANTS
    Procs,         \* commands, each run once
    Probes,        \* probes of the dashboard, each run once
    Nobody,
    NumPaths,      \* storage locations, in canonical path order
    Needs,         \* Needs[a]: the locations command or probe a goes through
    SharedProbes,  \* a probe takes a shared lock (POSIX) or an exclusive one
    MaxFaults      \* bound: crashes and failed writes

Paths == 1..NumPaths
Actors == Procs \cup Probes

ASSUME ActorsAssumption ==
    /\ Procs \cap Probes = {}
    /\ Nobody \notin Actors
    /\ NumPaths \in Nat
    /\ Needs \in [Actors -> SUBSET Paths]
    /\ SharedProbes \in BOOLEAN
    /\ MaxFaults \in Nat

VARIABLES
    pc,       \* pc[a]: what actor a does
    left,     \* left[a]: the locations it has not come to
    at,       \* at[a]: the location it is at
    held,     \* held[a]: the locations whose lock the system gave it
    goal,     \* goal[a]: how it will end
    meta,     \* meta[x]: whom the file of location x describes
    faults

vars == <<pc, left, at, held, goal, meta, faults>>

Ends == {"done", "refused", "failed"}
Phases == {"take", "write", "trim", "work", "clear", "unlock"} \cup Ends

Init ==
    /\ pc = [a \in Actors |-> "take"]
    /\ left = Needs
    /\ at = [a \in Actors |-> 0]
    /\ held = [a \in Actors |-> {}]
    /\ goal = [a \in Actors |-> "done"]
    /\ meta = [x \in Paths |-> Nobody]
    /\ faults = 0
-----------------------------------------------------------------------------
First(x, paths) == x \in paths /\ \A y \in paths : x <= y
Last(x, paths) == x \in paths /\ \A y \in paths : y <= x

\* Slip: the locations are taken in the order of the configuration, which may
\* differ from one command to the next.
ComesUnsorted(a, x) ==
    IF a = CHOOSE p \in Procs : TRUE THEN Last(x, left[a]) ELSE First(x, left[a])

\* operation_lock_paths returns the locations in sorted order.
Comes(a, x) == First(x, left[a])

\* Slip: every lock is taken the way a probe takes it.
ExcludesNothing(a, b) == a # b /\ ~SharedProbes

\* Locks on two open files exclude each other, except for shared ones.
Excludes(a, b) == a # b /\ ~(SharedProbes /\ {a, b} \subseteq Probes)

Taken(a, x) == \E b \in Actors : x \in held[b] /\ Excludes(a, b)

Busy(a) == \E x \in left[a] : Comes(a, x) /\ Taken(a, x)

Go(a, phase) == pc' = [pc EXCEPT ![a] = phase]

\* release starts with the last lock taken; without one the command has ended.
Back(p, end, mine) ==
    /\ goal' = [goal EXCEPT ![p] = end]
    /\ \/ mine = {} /\ at' = [at EXCEPT ![p] = 0] /\ Go(p, end)
       \/ \E x \in mine : Last(x, mine) /\ at' = [at EXCEPT ![p] = x] /\ Go(p, "clear")
-----------------------------------------------------------------------------
(* A command. *)

Lock(p) ==
    /\ pc[p] = "take"
    /\ \E x \in left[p] :
          /\ Comes(p, x)
          /\ ~Taken(p, x)
          /\ at' = [at EXCEPT ![p] = x]
          /\ left' = [left EXCEPT ![p] = @ \ {x}]
          /\ held' = [held EXCEPT ![p] = @ \cup {x}]
    /\ Go(p, "write")
    /\ UNCHANGED <<goal, meta, faults>>

\* The description goes over what is in the file, which is then cut.
Write(p) ==
    /\ pc[p] = "write"
    /\ meta' = [meta EXCEPT ![at[p]] = IF @ = Nobody THEN p ELSE "torn"]
    /\ Go(p, "trim")
    /\ UNCHANGED <<left, at, held, goal, faults>>

Trim(p) ==
    /\ pc[p] = "trim"
    /\ meta' = [meta EXCEPT ![at[p]] = p]
    /\ Go(p, "take")
    /\ UNCHANGED <<left, at, held, goal, faults>>

\* The description cannot be written: this lock is closed, the others released.
WriteFails(p) ==
    /\ pc[p] \in {"write", "trim"}
    /\ faults < MaxFaults
    /\ faults' = faults + 1
    /\ held' = [held EXCEPT ![p] = @ \ {at[p]}]
    /\ Back(p, "failed", held[p] \ {at[p]})
    /\ UNCHANGED <<left, meta>>

\* Slip: a refused command keeps what it had taken.
RefuseKeeping(p) ==
    /\ pc[p] = "take"
    /\ Busy(p)
    /\ Go(p, "refused")
    /\ UNCHANGED <<left, at, held, goal, meta, faults>>

\* Another actor is there: nobody waits, and what was taken is given back.
Refuse(p) ==
    /\ pc[p] = "take"
    /\ Busy(p)
    /\ Back(p, "refused", held[p])
    /\ UNCHANGED <<left, held, meta, faults>>

Enter(p) ==
    /\ pc[p] = "take"
    /\ left[p] = {}
    /\ Go(p, "work")
    /\ UNCHANGED <<left, at, held, goal, meta, faults>>

Leave(p) ==
    /\ pc[p] = "work"
    /\ Back(p, "done", held[p])
    /\ UNCHANGED <<left, held, meta, faults>>

\* Slip: the description is cleared when the lock has been given up.
ReleaseSwapped(p) ==
    \/ /\ pc[p] = "clear"
       /\ held' = [held EXCEPT ![p] = @ \ {at[p]}]
       /\ Go(p, "unlock")
       /\ UNCHANGED <<left, at, goal, meta, faults>>
    \/ /\ pc[p] = "unlock"
       /\ meta' = [meta EXCEPT ![at[p]] = Nobody]
       /\ Back(p, goal[p], held[p])
       /\ UNCHANGED <<left, held, faults>>

\* release, lock by lock: first the description, then the lock.
Release(p) ==
    \/ /\ pc[p] = "clear"
       /\ meta' = [meta EXCEPT ![at[p]] = Nobody]
       /\ Go(p, "unlock")
       /\ UNCHANGED <<left, at, held, goal, faults>>
    \/ /\ pc[p] = "unlock"
       /\ held' = [held EXCEPT ![p] = @ \ {at[p]}]
       /\ Back(p, goal[p], held[p] \ {at[p]})
       /\ UNCHANGED <<left, meta, faults>>

\* The process dies; its locks go with it, its description stays.
Crash(p) ==
    /\ pc[p] \notin Ends
    /\ faults < MaxFaults
    /\ faults' = faults + 1
    /\ held' = [held EXCEPT ![p] = {}]
    /\ Go(p, "failed")
    /\ UNCHANGED <<left, at, goal, meta>>
-----------------------------------------------------------------------------
(* A probe: each location in turn is locked for a moment, or found busy. *)

ProbeLock(q) ==
    /\ pc[q] = "take"
    /\ \E x \in left[q] :
          /\ Comes(q, x)
          /\ ~Taken(q, x)
          /\ held' = [held EXCEPT ![q] = {x}]
          /\ left' = [left EXCEPT ![q] = @ \ {x}]
    /\ Go(q, "unlock")
    /\ UNCHANGED <<at, goal, meta, faults>>

ProbeUnlock(q) ==
    /\ pc[q] = "unlock"
    /\ held' = [held EXCEPT ![q] = {}]
    /\ Go(q, "take")
    /\ UNCHANGED <<left, at, goal, meta, faults>>

ProbeEnds(q) ==
    /\ pc[q] = "take"
    /\ \/ left[q] = {} /\ Go(q, "done")
       \/ Busy(q) /\ Go(q, "refused")
    /\ UNCHANGED <<left, at, held, goal, meta, faults>>

Next ==
    \/ \E p \in Procs :
          \/ Lock(p)
          \/ Write(p)
          \/ Trim(p)
          \/ WriteFails(p)
          \/ Refuse(p)
          \/ Enter(p)
          \/ Leave(p)
          \/ Release(p)
          \/ Crash(p)
    \/ \E q \in Probes : ProbeLock(q) \/ ProbeUnlock(q) \/ ProbeEnds(q)

Spec == Init /\ [][Next]_vars

-----------------------------------------------------------------------------
(* Properties. *)

\* Every variable has its type.
TypeOK ==
    /\ pc \in [Actors -> Phases]
    /\ left \in [Actors -> SUBSET Paths]
    /\ at \in [Actors -> {0} \cup Paths]
    /\ held \in [Actors -> SUBSET Paths]
    /\ goal \in [Actors -> Ends]
    /\ meta \in [Paths -> Actors \cup {Nobody, "torn"}]
    /\ faults \in Nat

Working(p) == p \in Procs /\ pc[p] = "work"

\* Single flight (docs/DASHBOARD.md): two commands never work on one location,
\* and a command only works with all its locations locked.
SingleFlight ==
    /\ \A p, q \in Procs : Working(p) /\ Working(q) /\ p # q =>
          Needs[p] \cap Needs[q] = {}
    /\ \A p \in Procs : Working(p) => held[p] = Needs[p]

\* Who works is named in the files of all its locations: neither the release of
\* its predecessor nor a refused or failed contender erases its description.
HolderIsNamed == \A p \in Procs : Working(p) => \A x \in Needs[p] : meta[x] = p

\* A command that has ended, refused ones included, holds nothing.
NothingIsLeft == \A a \in Actors : pc[a] \in Ends => held[a] = {}

\* Contenders do not refuse each other in a circle: when all have ended, nothing
\* failed and no probe has begun, somebody did the work (sorted order,
\* OperationLock).
SomebodyWorks ==
    \/ faults > 0 \/ Procs = {}
    \/ \E q \in Probes : pc[q] # "take" \/ left[q] # Needs[q]
    \/ \E p \in Procs : pc[p] \notin Ends \/ pc[p] = "done"
-----------------------------------------------------------------------------
(* Why they hold: the system's locks exclude each other, and each phase of a *)
(* command says what it holds and which of its files describe it.            *)

Exclusive ==
    \A a, b \in Actors : Excludes(a, b) => held[a] \cap held[b] = {}

\* The location a command is about to describe, or has just cleared.
Undescribed(p) == IF pc[p] \in {"write", "trim", "unlock"} THEN {at[p]} ELSE {}

Described == \A p \in Procs : \A x \in held[p] \ Undescribed(p) : meta[x] = p

Progress ==
    \A p \in Procs :
        /\ pc[p] \in {"take", "write", "trim", "work"} => left[p] \cup held[p] = Needs[p]
        /\ pc[p] = "work" => left[p] = {}
        /\ pc[p] \in {"write", "trim", "clear", "unlock"} => at[p] \in held[p]

ProbesHoldBriefly == \A q \in Probes : pc[q] # "unlock" => held[q] = {}

\* The inductive invariant behind SingleFlight and HolderIsNamed.
LockInv ==
    /\ TypeOK
    /\ Exclusive
    /\ Described
    /\ Progress
    /\ ProbesHoldBriefly
    /\ NothingIsLeft
=============================================================================
