----------------------------- MODULE ProcessRun -----------------------------
(***************************************************************************)
(* process.run of the automation: a bounded number of child processes with *)
(* raw pipes, threads that read and write them, a deadline, and a reaper   *)
(* for what does not end in time.                                          *)
(*                                                                         *)
(* The requested program is the leader of its own group.  It may start     *)
(* children in the group, and on POSIX one that leaves the group           *)
(* ("escaped"); all of them hold the pipes.  On Windows the leader is the  *)
(* gate, which joins the job, says so and then starts the program, and     *)
(* nothing leaves the job.  The two readers behave alike: one is modelled. *)
(***************************************************************************)
EXTENDS Integers, FiniteSets

CONSTANTS
    Calls,     \* calls of run, possibly from several threads
    Capacity   \* _CAPACITY

ProcessRunAssumption == Capacity \in Nat \ {0}

VARIABLES
    windows,  \* os.name == "nt"
    free,     \* the semaphore
    stage,    \* where each call stands
    result,   \* what it raised or returned
    alive,    \* which of its processes run
    killed,   \* processes that were sent a kill
    stopped,  \* stop() has been called
    reader,   \* the thread that reads
    writer,   \* the thread that writes
    failure,  \* failures is not empty
    gate      \* Windows: the gate has joined the job and said so, and that was read

vars == <<windows, free, stage, result, alive, killed, stopped, reader, writer, failure, gate>>

Processes == {"leader", "child", "escaped"}
Stages == {"new", "refused", "spawning", "waiting", "joining", "cleaning", "reaping", "done"}
Results == {"none", "returned", "refused", "unavailable", "timeout", "orphaned", "uncontained", "failed"}

Init ==
    /\ windows \in BOOLEAN /\ free = Capacity
    /\ stage = [c \in Calls |-> "new"] /\ result = [c \in Calls |-> "none"]
    /\ alive = [c \in Calls |-> {}] /\ killed = [c \in Calls |-> {}]
    /\ stopped = [c \in Calls |-> FALSE] /\ failure = [c \in Calls |-> FALSE]
    /\ reader = [c \in Calls |-> "none"] /\ writer = [c \in Calls |-> "none"]
    /\ gate = [c \in Calls |-> IF windows THEN "silent" ELSE "read"]
-----------------------------------------------------------------------------
\* terminate: a kill for the group, on Windows for everything in the job.  A second call of
\* stop does nothing.
Stop(c) ==
    /\ stopped' = [stopped EXCEPT ![c] = TRUE]
    /\ killed' = IF stopped[c] THEN killed
                 ELSE [killed EXCEPT ![c] = IF windows THEN alive[c] ELSE alive[c] \ {"escaped"}]

ThreadsEnded(c) == reader[c] # "busy" /\ writer[c] # "busy"
Ended(c) == ThreadsEnded(c) /\ "leader" \notin alive[c]

Start(c) ==
    /\ stage[c] = "new"
    /\ IF free > 0
       THEN free' = free - 1 /\ stage' = [stage EXCEPT ![c] = "spawning"] /\ UNCHANGED result
       ELSE /\ stage' = [stage EXCEPT ![c] = "refused"]
            /\ result' = [result EXCEPT ![c] = "refused"] /\ UNCHANGED free
    /\ UNCHANGED <<windows, alive, killed, stopped, reader, writer, failure, gate>>

\* The program does not exist, or no job can be created: the slot is given back.
SpawnFails(c) ==
    /\ stage[c] = "spawning"
    /\ stage' = [stage EXCEPT ![c] = "done"] /\ result' = [result EXCEPT ![c] = "unavailable"]
    /\ free' = free + 1
    /\ UNCHANGED <<windows, alive, killed, stopped, reader, writer, failure, gate>>

\* The writer is started when there is input, and always on Windows, for the gate.
Spawn(c, input) ==
    /\ stage[c] = "spawning"
    /\ stage' = [stage EXCEPT ![c] = "waiting"]
    /\ alive' = [alive EXCEPT ![c] = {"leader"}]
    /\ reader' = [reader EXCEPT ![c] = "busy"]
    /\ writer' = [writer EXCEPT ![c] = IF input \/ windows THEN "busy" ELSE "none"]
    /\ UNCHANGED <<windows, free, result, killed, stopped, failure, gate>>

\* A process of the group starts another one.
Fork(c, p) ==
    /\ p \notin alive[c] \cup {"leader"} /\ gate[c] # "silent"
    /\ (alive[c] \ {"escaped"}) \ killed[c] # {}
    /\ windows => p # "escaped"
    /\ alive' = [alive EXCEPT ![c] = @ \cup {p}]
    /\ UNCHANGED <<windows, free, stage, result, killed, stopped, reader, writer, failure, gate>>

\* A process ends, by itself or killed.
Exit(c, p) ==
    /\ p \in alive[c]
    /\ alive' = [alive EXCEPT ![c] = @ \ {p}]
    /\ killed' = [killed EXCEPT ![c] = @ \ {p}]
    /\ UNCHANGED <<windows, free, stage, result, stopped, reader, writer, failure, gate>>
-----------------------------------------------------------------------------
(* The threads. *)

\* The first bytes of the gate, once it has joined the job.
Joins(c) ==
    /\ gate[c] = "silent" /\ "leader" \in alive[c] \ killed[c]
    /\ gate' = [gate EXCEPT ![c] = "said"]
    /\ UNCHANGED <<windows, free, stage, result, alive, killed, stopped, reader, writer, failure>>

Announced(c) ==
    /\ reader[c] = "busy" /\ gate[c] = "said"
    /\ gate' = [gate EXCEPT ![c] = "read"]
    /\ UNCHANGED <<windows, free, stage, result, alive, killed, stopped, reader, writer, failure>>

\* Nobody holds the pipe any more: the output is complete.
EndOfOutput(c) ==
    /\ reader[c] = "busy" /\ alive[c] = {} /\ gate[c] # "said"
    /\ reader' = [reader EXCEPT ![c] = "eof"]
    /\ UNCHANGED <<windows, free, stage, result, alive, killed, stopped, writer, failure, gate>>

\* More output than allowed, another first line than the gate's, or a failed read.
ReaderFails(c) ==
    /\ reader[c] = "busy"
    /\ reader' = [reader EXCEPT ![c] = "failed"] /\ failure' = [failure EXCEPT ![c] = TRUE]
    /\ Stop(c)
    /\ UNCHANGED <<windows, free, stage, result, alive, writer, gate>>

Written(c) ==
    /\ writer[c] = "busy" /\ alive[c] # {}
    /\ writer' = [writer EXCEPT ![c] = "eof"]
    /\ UNCHANGED <<windows, free, stage, result, alive, killed, stopped, reader, failure, gate>>

\* Nobody reads the input any more.
WriterFails(c) ==
    /\ writer[c] = "busy" /\ alive[c] = {}
    /\ writer' = [writer EXCEPT ![c] = "failed"] /\ failure' = [failure EXCEPT ![c] = TRUE]
    /\ Stop(c)
    /\ UNCHANGED <<windows, free, stage, result, alive, reader, gate>>
-----------------------------------------------------------------------------
(* The caller. *)

Leaves(c, why) ==
    /\ stage' = [stage EXCEPT ![c] = "cleaning"] /\ result' = [result EXCEPT ![c] = why]

\* Descendants may keep the pipes when the leader has ended: they are killed.
LeaderEnded(c) ==
    /\ stage[c] = "waiting" /\ "leader" \notin alive[c]
    /\ stage' = [stage EXCEPT ![c] = "joining"] /\ Stop(c)
    /\ UNCHANGED <<windows, free, result, alive, reader, writer, failure, gate>>

Timeout(c) ==
    /\ stage[c] = "waiting" /\ "leader" \in alive[c]
    /\ Leaves(c, "timeout") /\ Stop(c)
    /\ UNCHANGED <<windows, free, alive, reader, writer, failure, gate>>

Orphaned(c) ==
    /\ stage[c] = "joining" /\ ~ThreadsEnded(c) /\ Leaves(c, "orphaned")
    /\ UNCHANGED <<windows, free, alive, killed, stopped, reader, writer, failure, gate>>

\* Slip: what went wrong in a thread is forgotten.
SomeOutcome(c) == IF gate[c] # "read" THEN "uncontained" ELSE "returned"

Outcome(c) == IF failure[c] /\ gate[c] = "read" THEN "failed" ELSE SomeOutcome(c)

Collected(c) ==
    /\ stage[c] = "joining" /\ ThreadsEnded(c) /\ Leaves(c, Outcome(c))
    /\ UNCHANGED <<windows, free, alive, killed, stopped, reader, writer, failure, gate>>

\* Slip: the slot is given back when the two seconds are over.
AtOnce(c) == TRUE

\* The slot is given back when the leader and the threads have ended.
MayRelease(c) == Ended(c)

Release(c) ==
    /\ stage' = [stage EXCEPT ![c] = "done"] /\ free' = free + 1

Clean(c) ==
    /\ stage[c] = "cleaning"
    /\ IF MayRelease(c) THEN Release(c)
       ELSE stage' = [stage EXCEPT ![c] = "reaping"] /\ UNCHANGED free
    /\ UNCHANGED <<windows, result, alive, killed, stopped, reader, writer, failure, gate>>

Reap(c) ==
    /\ stage[c] = "reaping" /\ Ended(c) /\ Release(c)
    /\ UNCHANGED <<windows, result, alive, killed, stopped, reader, writer, failure, gate>>

Next ==
    \E c \in Calls :
        \/ Start(c) \/ SpawnFails(c) \/ \E input \in BOOLEAN : Spawn(c, input)
        \/ \E p \in Processes : Fork(c, p) \/ Exit(c, p)
        \/ Joins(c) \/ Announced(c) \/ EndOfOutput(c) \/ ReaderFails(c) \/ Written(c) \/ WriterFails(c)
        \/ LeaderEnded(c) \/ Timeout(c) \/ Orphaned(c) \/ Collected(c) \/ Clean(c) \/ Reap(c)

Spec == Init /\ [][Next]_vars
-----------------------------------------------------------------------------
(* Properties. *)

TypeOK ==
    /\ windows \in BOOLEAN /\ free \in 0..Capacity
    /\ stage \in [Calls -> Stages] /\ result \in [Calls -> Results]
    /\ alive \in [Calls -> SUBSET Processes] /\ killed \in [Calls -> SUBSET Processes]
    /\ stopped \in [Calls -> BOOLEAN] /\ failure \in [Calls -> BOOLEAN]
    /\ gate \in [Calls -> {"silent", "said", "read"}]
    /\ reader \in [Calls -> {"none", "busy", "eof", "failed"}]
    /\ writer \in [Calls -> {"none", "busy", "eof", "failed"}]

\* process.py:314, "Unresolved readers retain one of four slots; a daemon reaper releases it
\* only after real completion": never more programs and readers than slots, whatever their
\* callers were told meanwhile, and no slot lost.
LoadIsBounded ==
    /\ Cardinality({c \in Calls : "leader" \in alive[c] \/ ~ThreadsEnded(c)}) <= Capacity
    /\ free = Capacity - Cardinality({c \in Calls : stage[c] \notin {"new", "refused", "done"}})

\* Output is returned only whole: the reader met its end, nothing failed while it was read
\* or the input was written, and nobody is left who could have written more.
ReturnedIsWhole ==
    \A c \in Calls : result[c] = "returned" =>
        reader[c] = "eof" /\ ~failure[c] /\ gate[c] = "read" /\ alive[c] = {}

\* A caller that was told anything leaves no program behind in the group: it has ended or
\* its kill is on the way.
NothingLeftBehind ==
    \A c \in Calls : stage[c] \in {"cleaning", "reaping", "done"} =>
        alive[c] \ {"escaped"} \subseteq killed[c]

ProcessRunInv == TypeOK /\ LoadIsBounded /\ ReturnedIsWhole /\ NothingLeftBehind
=============================================================================
