----------------------------- MODULE WebDetect -----------------------------
(***************************************************************************)
(* The web detection of the extensions (web.py): one bounded request per   *)
(* allowlisted asset, plus checked redirects and retries, by a few threads *)
(* that share a resolver pool, the pace of every host and the set of hosts *)
(* that asked to stop; then the review file and the snapshot.              *)
(*                                                                         *)
(* A lookup may hang for ever.  Time passes in units of the pace; a        *)
(* request may take any time until its deadline.  The process may die      *)
(* while it publishes, and leaves its lock file then.                      *)
(***************************************************************************)
EXTENDS Integers, FiniteSets

CONSTANTS
    Assets,
    Host,           \* the host of every asset
    Privates,       \* the assets with allow_private_address
    MaxRedirects,   \* of every asset
    Workers,        \* MAX_WORKERS: threads, and as many of the resolver
    Retries,        \* MAX_RETRIES
    AssetTimeout, RunTimeout,
    AllowPartial,
    MaxTime, MaxRuns    \* bounds

WebDetectAssumption ==
    /\ IsFiniteSet(Assets) /\ DOMAIN Host = Assets /\ Privates \subseteq Assets
    /\ MaxRedirects \in [Assets -> Nat] /\ Workers \in Nat \ {0} /\ Retries \in Nat
    /\ AssetTimeout \in Nat \ {0} /\ RunTimeout \in Nat \ {0} /\ AllowPartial \in BOOLEAN
    /\ MaxTime \in Nat

Hosts == {Host[a] : a \in Assets}

VARIABLES
    now,       \* the clock
    task,      \* what is done for each asset
    lookups,   \* the queue of the resolver pool, and what its threads are busy with
    last,      \* _Pacer._last: when a host had its last slot
    blocked,   \* Fetcher._blocked
    phase,     \* where the command is
    lockfile,  \* the .lock file of the output is there
    output,    \* the review, the inventory and its manifest: the run that wrote each
    runs,      \* bound
    requests,  \* history: requests sent for each asset
    stopped    \* history: assets whose host was blocked before they got their slot

fetcher == <<task, lookups, last, blocked, requests, stopped>>
files == <<lockfile, output>>
vars == <<now, fetcher, phase, files, runs>>

Queued == [at |-> "queued"]
NoOutput == [review |-> 0, inv |-> 0, man |-> 0, status |-> "none"]

\* No asset is begun, no host has had a slot.
NoTasks == [a \in Assets |-> Queued]
NoSlots == [h \in Hosts |-> -1]
NoRequests == [a \in Assets |-> 0]
NoLookups == [queue |-> {}, busy |-> {}]

Init ==
    /\ now = 0 /\ phase = "fetching" /\ lockfile = FALSE
    /\ output = NoOutput /\ runs = 1
    /\ task = NoTasks /\ lookups = NoLookups /\ last = NoSlots /\ blocked = {}
    /\ requests = NoRequests /\ stopped = {}
-----------------------------------------------------------------------------
(* One asset: Fetcher.fetch and _observe. *)

At(a, place) == task[a].at = place
Goes(a, place) == task' = [task EXCEPT ![a].at = place]
Ends(a, result) == task' = [task EXCEPT ![a] = [at |-> "done", result |-> result]]
Expired(a) == now >= task[a].deadline
Running == {a \in Assets : task[a].at \notin {"queued", "done"}}

\* A thread of the pool takes an asset, if one is free.
MayBegin(a) == phase = "fetching" /\ At(a, "queued") /\ Cardinality(Running) < Workers

Begin(a) ==
    /\ MayBegin(a)
    /\ IF now >= RunTimeout THEN Ends(a, "timeout")
       ELSE task' = [task EXCEPT ![a] =
              [at |-> "request", host |-> Host[a], hop |-> 0, attempt |-> 0,
               deadline |-> IF now + AssetTimeout < RunTimeout THEN now + AssetTimeout ELSE RunTimeout]]
    /\ UNCHANGED <<now, lookups, last, blocked, requests, stopped, phase, files, runs>>

\* The start of an attempt: a host that asked to stop is left alone; then its address is
\* looked up by the pool.
Attempt(a) ==
    /\ At(a, "request")
    /\ \/ Expired(a) /\ Ends(a, "timeout") /\ UNCHANGED lookups
       \/ ~Expired(a) /\ task[a].host \in blocked /\ Ends(a, "blocked") /\ UNCHANGED lookups
       \/ /\ ~Expired(a) /\ task[a].host \notin blocked
          /\ Goes(a, "resolving")
          /\ lookups' = [lookups EXCEPT !.queue = @ \cup {a}]
    /\ UNCHANGED <<now, last, blocked, requests, stopped, phase, files, runs>>

\* A thread of the resolver; the one that asked may have given up.
Lookup(a) ==
    /\ a \in lookups.queue /\ Cardinality(lookups.busy) < Workers
    /\ lookups' = [queue |-> lookups.queue \ {a}, busy |-> lookups.busy \cup {a}]
    /\ UNCHANGED <<now, task, last, blocked, requests, stopped, phase, files, runs>>

\* Slip: one attempt more than MAX_RETRIES allows.
MayRetryOnce(a) == task[a].attempt <= Retries

MayRetry(a) == task[a].attempt < Retries

\* A connection failure inside an attempt.
Retry(a) ==
    IF MayRetry(a) /\ ~Expired(a)
    THEN task' = [task EXCEPT ![a].at = "request", ![a].attempt = @ + 1]
    ELSE Ends(a, "unreachable")

\* The addresses, if they are still waited for: public ones, one that is not, none.
Resolved(a) ==
    /\ a \in lookups.busy
    /\ lookups' = [lookups EXCEPT !.busy = @ \ {a}]
    /\ IF ~At(a, "resolving") THEN UNCHANGED task
       ELSE \/ Goes(a, "pacing")
            \/ IF a \in Privates THEN Goes(a, "pacing") ELSE Ends(a, "blocked")
            \/ Retry(a)
    /\ UNCHANGED <<now, last, blocked, requests, stopped, phase, files, runs>>

\* resolve waits for its deadline, whatever the pool does.
MayGiveUp(a) == At(a, "resolving") /\ Expired(a)

LookupTimeout(a) ==
    /\ MayGiveUp(a)
    /\ Ends(a, "timeout")
    /\ UNCHANGED <<now, lookups, last, blocked, requests, stopped, phase, files, runs>>

\* _Pacer.wait: one slot per host and unit of time, or the deadline.
MayPace(a) == At(a, "pacing") /\ (Expired(a) \/ last[task[a].host] < now)

Pace(a) ==
    /\ MayPace(a)
    /\ IF Expired(a) THEN Ends(a, "timeout") /\ UNCHANGED <<last, stopped>>
       ELSE /\ last' = [last EXCEPT ![task[a].host] = now]
            /\ Goes(a, "paced")
            /\ stopped' = IF task[a].host \in blocked THEN stopped \cup {a} ELSE stopped \ {a}
    /\ UNCHANGED <<now, lookups, blocked, requests, phase, files, runs>>

\* Slip: the host is not looked at again after the wait.
NotAgain(a) == FALSE

\* _request, after the wait: whether the host asked to stop meanwhile.
AskedToStop(a) == task[a].host \in blocked

Request(a) ==
    /\ At(a, "paced")
    /\ \/ AskedToStop(a) /\ Ends(a, "blocked") /\ UNCHANGED requests
       \/ ~AskedToStop(a) /\ Expired(a) /\ Ends(a, "timeout") /\ UNCHANGED requests
       \/ /\ ~AskedToStop(a) /\ ~Expired(a)
          /\ Goes(a, "sent") /\ requests' = [requests EXCEPT ![a] = @ + 1]
    /\ UNCHANGED <<now, lookups, last, blocked, stopped, phase, files, runs>>

\* What the request comes to: an observation with usable identities or without, a status
\* of failure, a broken connection, TLS, size or encoding, the deadline.
Observed(a) ==
    /\ At(a, "sent") /\ ~Expired(a)
    /\ \E result \in {"rows", "version-unknown", "no-technologies"} : Ends(a, result)
    /\ UNCHANGED <<now, lookups, last, blocked, requests, stopped, phase, files, runs>>

Failed(a) ==
    /\ At(a, "sent")
    /\ \/ Retry(a)
       \/ \E result \in {"unreachable", "blocked", "tls-error", "timeout"} : Ends(a, result)
    /\ UNCHANGED <<now, lookups, last, blocked, requests, stopped, phase, files, runs>>

\* 429 or 503: the host is stopped for every asset.
RateLimited(a) ==
    /\ At(a, "sent")
    /\ blocked' = blocked \cup {task[a].host}
    /\ Ends(a, "blocked")
    /\ UNCHANGED <<now, lookups, last, requests, stopped, phase, files, runs>>

\* A redirect is followed to an allowlisted host, as often as the asset allows.
Redirected(a) ==
    /\ At(a, "sent")
    /\ \/ Ends(a, "redirect-blocked")
       \/ \E h \in Hosts :
            /\ task[a].hop < MaxRedirects[a]
            /\ task' = [task EXCEPT ![a].host = h, ![a].hop = @ + 1, ![a].attempt = 0, ![a].at = "request"]
    /\ UNCHANGED <<now, lookups, last, blocked, requests, stopped, phase, files, runs>>
-----------------------------------------------------------------------------
(* detect_web: the results. *)

Results == {task[a].result : a \in Assets}
Failures == {"unreachable", "tls-error", "blocked", "redirect-blocked", "timeout"}

\* Slip: one asset that could be observed is enough.
SomeRows(results) == IF "rows" \in results THEN "success" ELSE "failed"

\* What the run comes to: an asset without a version has its row, and its omission.
Outcome(results) ==
    IF results \cap {"rows", "version-unknown"} = {} \/ (results \cap Failures # {} /\ ~AllowPartial) THEN "failed"
    ELSE IF results = {"rows"} THEN "success" ELSE "partial"

\* The lock file: one that a run left makes the command fail.
Publish ==
    /\ phase = "fetching" /\ \A a \in Assets : At(a, "done")
    /\ IF lockfile THEN phase' = "ended" /\ UNCHANGED lockfile
       ELSE phase' = "review" /\ lockfile' = TRUE
    /\ UNCHANGED <<now, fetcher, output, runs>>

WriteReview ==
    /\ phase = "review"
    /\ output' = [output EXCEPT !.review = runs]
    /\ IF Outcome(Results) = "failed" THEN phase' = "ended" /\ lockfile' = FALSE
                                      ELSE phase' = "inventory" /\ UNCHANGED lockfile
    /\ UNCHANGED <<now, fetcher, runs>>

WriteInventory ==
    /\ phase = "inventory"
    /\ output' = [output EXCEPT !.inv = runs]
    /\ phase' = "manifest"
    /\ UNCHANGED <<now, fetcher, lockfile, runs>>

WriteManifest ==
    /\ phase = "manifest"
    /\ output' = [output EXCEPT !.man = runs, !.status = Outcome(Results)]
    /\ phase' = "ended" /\ lockfile' = FALSE
    /\ UNCHANGED <<now, fetcher, runs>>

\* A file cannot be written: the lock goes, what was written stays.
Fails ==
    /\ phase \in {"review", "inventory", "manifest"}
    /\ phase' = "ended" /\ lockfile' = FALSE
    /\ UNCHANGED <<now, fetcher, output, runs>>

\* The process dies: the lock stays, until the operator takes it away.
Crash ==
    /\ phase # "ended"
    /\ phase' = "ended"
    /\ UNCHANGED <<now, fetcher, files, runs>>

Investigate ==
    /\ phase = "ended" /\ lockfile
    /\ lockfile' = FALSE
    /\ UNCHANGED <<now, fetcher, phase, output, runs>>

\* The next run, with threads, pool and hosts of its own.
Again ==
    /\ phase = "ended" /\ runs < MaxRuns
    /\ runs' = runs + 1 /\ phase' = "fetching" /\ now' = 0
    /\ task' = NoTasks /\ lookups' = NoLookups /\ last' = NoSlots /\ blocked' = {}
    /\ requests' = NoRequests /\ stopped' = {}
    /\ UNCHANGED files

Tick ==
    /\ phase = "fetching" /\ now < MaxTime
    /\ now' = now + 1
    /\ UNCHANGED <<fetcher, phase, files, runs>>

Next ==
    \/ \E a \in Assets :
         \/ Begin(a) \/ Attempt(a) \/ LookupTimeout(a) \/ Pace(a) \/ Request(a)
         \/ Observed(a) \/ Failed(a) \/ RateLimited(a) \/ Redirected(a)
         \/ Lookup(a) \/ Resolved(a)
    \/ Publish \/ WriteReview \/ WriteInventory \/ WriteManifest \/ Tick
    \/ Fails \/ Crash \/ Investigate \/ Again

Spec == Init /\ [][Next]_vars
-----------------------------------------------------------------------------
(* Properties. *)

TypeOK ==
    /\ now \in 0..MaxTime /\ blocked \subseteq Hosts
    /\ lookups.queue \subseteq Assets /\ lookups.busy \subseteq Assets
    /\ Cardinality(lookups.busy) <= Workers /\ Cardinality(Running) <= Workers

\* No asset takes more requests than the plan promised: one, one for every redirect, and
\* the retries of each (format_plan: "up to ... including connection retries").
PlanIsKept == \A a \in Assets : requests[a] <= (1 + MaxRedirects[a]) * (1 + Retries)

\* A host that answered "too many requests" to one thread gets no request of another that
\* was not past its wait already.
StoppedHost == \A a \in Assets : At(a, "sent") => a \notin stopped

\* A snapshot that says success leaves no asset out, whichever of them failed, were stopped
\* or came too late; without allow_partial nothing is published then.
SuccessIsComplete ==
    phase = "ended" /\ output.man = runs /\ output.inv = runs /\ ~AllowPartial =>
        Results \cap Failures = {} /\ (output.status = "success" => Results = {"rows"})

\* Inventory and manifest are of one run unless the later one died or failed between them,
\* and a manifest never comes without the review that explains it.
OutputIsOrdered == output.man <= output.inv /\ output.inv <= output.review

\* Where an asset can go on without an answer of the resolver.
Moves(a) ==
    MayBegin(a) \/ MayGiveUp(a) \/ MayPace(a) \/ task[a].at \in {"request", "paced", "sent"}

\* Lookups that never return take no thread of the command with them: once its time is
\* over, whatever the pools and paces hold, all assets are done or one of them can go on.
NobodyHangs ==
    phase = "fetching" /\ now >= RunTimeout =>
        (\A a \in Assets : At(a, "done")) \/ \E a \in Assets : Moves(a)

\* What holds of requests, hosts, files and threads.
WebInv ==
    TypeOK /\ PlanIsKept /\ StoppedHost /\ SuccessIsComplete /\ OutputIsOrdered /\ NobodyHangs
=============================================================================
