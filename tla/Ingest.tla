------------------------------- MODULE Ingest -------------------------------
(***************************************************************************)
(* Uploads of snapshots: the push client (ingest/client.py) with its       *)
(* retries, the authenticated receiver (ingest/server.py) with a bounded   *)
(* number of handlers, and the immutable generations and the pointer they  *)
(* publish (staging.py).                                                   *)
(*                                                                         *)
(* A connection may break at any time: a request that its client gave up   *)
(* may still be handled, much later and next to its own retransmission,    *)
(* and an answer may be lost.  The receiver may die between any two steps. *)
(* The contents of a snapshot are its identity: two snapshots are the same *)
(* generation iff they are equal.                                          *)
(***************************************************************************)
EXTENDS Integers, Sequences, FiniteSets, SequencesExt

CONSTANTS
    Clients,       \* push commands
    Packs,         \* snapshots: source, generated, observed, tag
    Workers,       \* handlers of the receiver
    Attempts,      \* attempts of a command
    FailureLimit,  \* failed authentications per peer and minute
    MaxAge,        \* max_age_seconds
    Nobody, None,  \* no handler, no snapshot
    MaxTime, MaxCrashes    \* bounds

ASSUME IngestAssumption ==
    /\ Attempts \in 1..3 /\ FailureLimit \in Nat \ {0} /\ MaxAge \in Nat
    /\ Nobody \notin Workers /\ None \notin Packs /\ IsFiniteSet(Workers)
    /\ \A p \in Packs : p.generated \in Int /\ p.observed \in Int

Sources == {p.source : p \in Packs}

VARIABLES
    push,        \* what each command does
    wire,        \* requests that are under way
    worker,      \* what each handler does
    failures,    \* Receiver.attempts, of the one peer
    lock,        \* publish.lock of each source
    generations, \* the generation directories of each source
    pointer,     \* current.json of each source
    now,         \* the clock
    crashes,     \* bound
    log          \* history: what the pointer was set to, in order

staging == <<lock, generations, pointer, log>>
receiver == <<worker, failures>>
vars == <<push, wire, receiver, staging, now, crashes>>

Free == [at |-> "free"]
Waiting(c, n) == push[c].at = "waiting" /\ push[c].attempt = n

Init ==
    /\ push = [c \in Clients |-> [at |-> "idle"]]
    /\ wire = {} /\ worker = [w \in Workers |-> Free] /\ failures = 0
    /\ lock = [s \in Sources |-> Nobody]
    /\ generations = [s \in Sources |-> {}]
    /\ pointer = [s \in Sources |-> None]
    /\ now = 1 /\ crashes = 0
    /\ log = [s \in Sources |-> <<>>]
-----------------------------------------------------------------------------
(* Snapshots. *)

\* read_snapshot: hash and schema aside, the times must be in order and recent enough.
Readable(p) == p.observed <= p.generated /\ p.generated <= now /\ now - p.observed <= MaxAge

\* Slip: only the time of generation decides.
NewerAlone(p, q) == p.generated > q.generated

\* publish: what may follow the snapshot that is current.
Newer(p, q) == p.generated > q.generated /\ p.observed >= q.observed
-----------------------------------------------------------------------------
(* The push client. *)

Ends(c, result) == push' = [push EXCEPT ![c].at = "done", ![c].result = result]

Again(c, result) ==
    IF push[c].attempt = Attempts THEN Ends(c, result)
    ELSE push' = [push EXCEPT ![c].at = "sending", ![c].attempt = @ + 1]

\* push: the pair is read once, checked, and sent as it is every time, with the
\* credential of a source or one that the receiver does not know.
Load(c, p, key) ==
    /\ push[c].at = "idle" /\ Readable(p)
    /\ push' = [push EXCEPT ![c] = [at |-> "sending", pack |-> p, key |-> key, attempt |-> 1,
                                     result |-> "none"]]
    /\ UNCHANGED <<wire, receiver, staging, now, crashes>>

Send(c) ==
    /\ push[c].at = "sending"
    /\ push' = [push EXCEPT ![c].at = "waiting"]
    /\ wire' = wire \cup {[client |-> c, attempt |-> push[c].attempt]}
    /\ UNCHANGED <<receiver, staging, now, crashes>>

\* A TransportError; what was sent may still arrive.
Breaks(c) ==
    /\ push[c].at = "waiting"
    /\ Again(c, "unknown")
    /\ wire' \in {wire, wire \ {[client |-> c, attempt |-> push[c].attempt]}}
    /\ UNCHANGED <<receiver, staging, now, crashes>>

\* The response, if the client still waits for this attempt and the connection holds.
Answer(r, code) ==
    \/ /\ Waiting(r.client, r.attempt)
       /\ CASE code = 200 -> Ends(r.client, "accepted")
            [] code = 503 -> Again(r.client, "exhausted")
            [] code = 429 -> Ends(r.client, "limited")
            [] OTHER      -> Ends(r.client, "rejected")
    \/ UNCHANGED push
-----------------------------------------------------------------------------
(* The receiver. *)

At(w, place) == worker[w].at = place
Request(w) == worker[w].request
Pack(w) == push[Request(w).client].pack
Source(w) == Pack(w).source
Goes(w, place) == worker' = [worker EXCEPT ![w].at = place]
Reply(w, code) == Answer(Request(w), code) /\ worker' = [worker EXCEPT ![w] = Free]

\* process_request: without a free handler the connection is closed (Breaks).
Take(w, r) ==
    /\ At(w, "free") /\ r \in wire
    /\ wire' = wire \ {r}
    /\ worker' = [worker EXCEPT ![w] = [at |-> "taken", request |-> r]]
    /\ UNCHANGED <<push, failures, staging, now, crashes>>

\* authenticate, under the guard: the failures of the minute.
Admit(w) ==
    /\ At(w, "taken")
    /\ IF failures >= FailureLimit THEN Reply(w, 429) ELSE Goes(w, "admitted") /\ UNCHANGED push
    /\ UNCHANGED <<wire, failures, staging, now, crashes>>

\* The credential, outside the guard; a failure is counted under it again.  Then the
\* body is decoded and the snapshot in it is checked in a directory of its own.
Authenticate(w) ==
    /\ At(w, "admitted")
    /\ IF push[Request(w).client].key # Source(w)
       THEN Reply(w, 401) /\ failures' = failures + 1
       ELSE /\ IF Readable(Pack(w)) THEN Goes(w, "valid") /\ UNCHANGED push ELSE Reply(w, 400)
            /\ UNCHANGED failures
    /\ UNCHANGED <<wire, staging, now, crashes>>

\* The minute of the first failure is over.
Minute ==
    /\ failures > 0
    /\ failures' = 0
    /\ UNCHANGED <<push, wire, worker, staging, now, crashes>>

\* The timer of process_request_thread shuts the socket before the body was read.
Abort(w) ==
    /\ At(w, "taken")
    /\ worker' = [worker EXCEPT ![w] = Free]
    /\ UNCHANGED <<push, wire, failures, staging, now, crashes>>
-----------------------------------------------------------------------------
(* publish *)

\* Slip: the lock is not waited for and not respected.
Always(s) == TRUE

\* lock(): one attempt.
LockFree(s) == lock[s] = Nobody

\* Under the lock: a retransmission of what is current is answered at once, and what is
\* not newer is refused.
Decide(w) ==
    /\ At(w, "valid")
    /\ LET s == Source(w)
           p == Pack(w)
       IN  IF ~LockFree(s) THEN Reply(w, 503) /\ UNCHANGED lock
           ELSE IF pointer[s] = p THEN Reply(w, 200) /\ UNCHANGED lock
           ELSE IF pointer[s] # None /\ ~Newer(p, pointer[s]) THEN Reply(w, 409) /\ UNCHANGED lock
           ELSE /\ lock' = [lock EXCEPT ![s] = w]
                /\ Goes(w, "storing") /\ UNCHANGED push
    /\ UNCHANGED <<wire, failures, generations, pointer, log, now, crashes>>

\* The generation: written aside and renamed; one that a crash left is the same.
Store(w) ==
    /\ At(w, "storing")
    /\ generations' = [generations EXCEPT ![Source(w)] = @ \cup {Pack(w)}]
    /\ Goes(w, "pointing")
    /\ UNCHANGED <<push, wire, failures, lock, pointer, log, now, crashes>>

SetPointer(w) ==
    /\ pointer' = [pointer EXCEPT ![Source(w)] = Pack(w)]
    /\ log' = [log EXCEPT ![Source(w)] = Append(@, Pack(w))]

Unlock(w) == lock' = [lock EXCEPT ![Source(w)] = IF @ = w THEN Nobody ELSE @]

\* write_json of the pointer: the commit point.
Point(w) ==
    /\ At(w, "pointing")
    /\ SetPointer(w) /\ Unlock(w) /\ Reply(w, 200)
    /\ UNCHANGED <<wire, failures, generations, now, crashes>>

\* The disk fails; it may do so after the pointer was replaced, in the flush of the
\* directory.
Fail(w) ==
    /\ worker[w].at \in {"storing", "pointing"}
    /\ \/ UNCHANGED <<pointer, log>>
       \/ At(w, "pointing") /\ SetPointer(w)
    /\ Unlock(w) /\ Reply(w, 400)
    /\ UNCHANGED <<wire, failures, generations, now, crashes>>
-----------------------------------------------------------------------------
\* The receiver dies and is started again; its locks go with it.
Crash ==
    /\ crashes < MaxCrashes
    /\ crashes' = crashes + 1
    /\ worker' = [w \in Workers |-> Free] /\ failures' = 0
    /\ lock' = [s \in Sources |-> Nobody]
    /\ UNCHANGED <<push, wire, generations, pointer, log, now>>

Tick ==
    /\ now < MaxTime
    /\ now' = now + 1
    /\ UNCHANGED <<push, wire, receiver, staging, crashes>>

Next ==
    \/ \E c \in Clients, p \in Packs, key \in Sources \cup {None} : Load(c, p, key)
    \/ \E c \in Clients : Send(c) \/ Breaks(c)
    \/ \E w \in Workers, r \in wire : Take(w, r)
    \/ \E w \in Workers :
         Admit(w) \/ Authenticate(w) \/ Abort(w) \/ Decide(w) \/ Store(w) \/ Point(w) \/ Fail(w)
    \/ Minute \/ Crash \/ Tick

Spec == Init /\ [][Next]_vars
-----------------------------------------------------------------------------
(* Properties. *)

TypeOK ==
    /\ wire \subseteq [client : Clients, attempt : 1..Attempts]
    /\ failures \in 0..(FailureLimit + Cardinality(Workers))
    /\ \A s \in Sources : lock[s] \in Workers \cup {Nobody} /\ pointer[s] \in Packs \cup {None}

\* What the pointer names is there in full, and was sent with the credential of its source
\* (current_snapshot refuses anything else, so a reader is never without a snapshot once
\* there was one).
PointerIsWhole ==
    \A s \in Sources : pointer[s] # None =>
        /\ pointer[s] \in generations[s] /\ pointer[s].source = s
        /\ \E c \in Clients :
             push[c].at # "idle" /\ push[c].pack = pointer[s] /\ push[c].key = s

\* A command that reports success had its snapshot published, by this attempt, an earlier
\* one whose answer was lost, or another command with the same snapshot.
SuccessIsTrue ==
    \A c \in Clients : push[c].at = "done" /\ push[c].result = "accepted" =>
        push[c].pack \in ToSet(log[push[c].pack.source])

\* Handlers that publish to a source do so one at a time (the lock of publish).
OneWriter ==
    \A v, w \in Workers :
        /\ v # w
        /\ {worker[v].at, worker[w].at} \subseteq {"storing", "pointing"}
        => Source(v) # Source(w)

\* However requests are repeated, delayed and reordered, a source never returns to an older
\* snapshot, and each snapshot becomes current once at most (snapshot_replay_or_rollback).
NeverBack ==
    \A s \in Sources : \A i, j \in DOMAIN log[s] :
        i < j => log[s][i].generated < log[s][j].generated /\ log[s][i].observed <= log[s][j].observed

\* The types, and what holds of pointers, answers, locks and the order of snapshots.
IngestInv == TypeOK /\ PointerIsWhole /\ SuccessIsTrue /\ OneWriter /\ NeverBack
=============================================================================
