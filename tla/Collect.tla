------------------------------ MODULE Collect -------------------------------
(***************************************************************************)
(* Pulled sources of the automation: `collect' of cli.py, with the         *)
(* registry and Kubernetes collection (registry/) and the SSH collection   *)
(* (remote/ssh.py), up to the pointer of staging.py.                       *)
(*                                                                         *)
(* The lock automation.lock admits one collection at a time, a crash may   *)
(* fall between any two steps.  Meanwhile artifacts are pushed to the      *)
(* registry and the observations of the cluster are replaced.  The listing *)
(* of an image may name an artifact that belongs to another image; blobs   *)
(* are known by their digest, so a wrong one is only a failed request.     *)
(***************************************************************************)
EXTENDS Integers, FiniteSets

CONSTANTS
    Sources,       \* of {"kubernetes", "registry", "ssh"}, one of each kind
    Images,        \* images the selected registries may serve
    Wanted,        \* the image of the registry source
    Artifacts,     \* SBOM artifacts
    Subject,       \* the image each artifact names as its subject
    PageOf,        \* where a listing has it
    Pin,           \* configured artifact of an image, or None
    Pages,         \* pages of a listing
    AllowPartial,
    MaxAge, MaxTime, MaxPushes, MaxRuns, None

CollectAssumption ==
    /\ Sources \subseteq {"kubernetes", "registry", "ssh"} /\ Wanted \in Images
    /\ IsFiniteSet(Artifacts) /\ Pages \in Nat \ {0}
    /\ Subject \in [Artifacts -> Images] /\ PageOf \in [Artifacts -> 1..Pages]
    /\ Pin \in [Images -> Artifacts \cup {None}] /\ None \notin Artifacts
    /\ AllowPartial \in BOOLEAN /\ MaxAge \in Nat /\ MaxTime \in Nat

VARIABLES
    now,
    listed,    \* registry: the artifacts listed for each image
    observed,  \* the observations file: when, and the images that run
    staged,    \* current.json of each source
    evidence,  \* registry-evidence, and the reviews of SSH collections
    record,    \* collection-<source>.json
    job,       \* the collection that runs
    runs,      \* collections so far
    accepted   \* history: the generations each source ever pointed to

vars == <<now, listed, observed, staged, evidence, record, job, runs, accepted>>

Idle == [step |-> "idle"]

Init ==
    /\ now = 0 /\ listed = [i \in Images |-> {}] /\ observed = [at |-> 0, running |-> {}]
    /\ staged = [s \in Sources |-> None] /\ evidence = [s \in Sources |-> {}]
    /\ record = [s \in Sources |-> None] /\ job = Idle /\ runs = 0
    /\ accepted = [s \in Sources |-> {}]
-----------------------------------------------------------------------------
(* The world. *)

Tick ==
    /\ now < MaxTime /\ now' = now + 1
    /\ UNCHANGED <<listed, observed, staged, evidence, record, job, runs, accepted>>

Pushed == {p \in Images \X Artifacts : p[2] \in listed[p[1]]}

Push(i, a) ==
    /\ Cardinality(Pushed) < MaxPushes /\ a \notin listed[i]
    /\ listed' = [listed EXCEPT ![i] = @ \cup {a}]
    /\ UNCHANGED <<now, observed, staged, evidence, record, job, runs, accepted>>

Observe(running) ==
    /\ observed' = [at |-> now, running |-> running] /\ observed' # observed
    /\ UNCHANGED <<now, listed, staged, evidence, record, job, runs, accepted>>
-----------------------------------------------------------------------------
(* A collection begins and ends. *)

Begins(source, images, obs) ==
    job' = [step |-> IF source = "ssh" THEN "probe" ELSE "list", source |-> source,
            todo |-> images, obs |-> obs, page |-> 1, seen |-> {}, before |-> None,
            found |-> [i \in {} |-> None], partial |-> FALSE, made |-> None]

\* Stale observations, or none of a running image, end a collection before it begins.
Start(source) ==
    /\ job = Idle /\ runs < MaxRuns /\ runs' = runs + 1
    /\ CASE source = "kubernetes" ->
              now - observed.at <= MaxAge /\ observed.running # {}
              /\ Begins(source, observed.running, observed)
         [] source = "registry" -> Begins(source, {Wanted}, None)
         [] source = "ssh" -> Begins(source, {}, None)
    /\ UNCHANGED <<now, listed, observed, staged, evidence, record, accepted>>

\* The record is written in a "finally".
Ended(status, made) ==
    /\ job' = Idle /\ record' = [record EXCEPT ![job.source] = [status |-> status, made |-> made]]

\* Any request, validation, limit or deadline.
Fail ==
    /\ job # Idle /\ Ended("failed", None)
    /\ UNCHANGED <<now, listed, observed, staged, evidence, runs, accepted>>

Crash ==
    /\ job # Idle /\ job' = Idle
    /\ UNCHANGED <<now, listed, observed, staged, evidence, record, runs, accepted>>
-----------------------------------------------------------------------------
(* The registry: RegistryClient, one image after the other.                *)

Left == job.todo \ DOMAIN job.found
Current == CHOOSE i \in Left : TRUE

\* One page of the listing of an image.
List ==
    /\ job.step = "list" /\ Left # {} /\ job.page <= Pages
    /\ job' = [job EXCEPT !.page = @ + 1,
           !.before = IF job.page = 1 THEN listed[Current] ELSE @,
           !.seen = @ \cup {a \in listed[Current] : PageOf[a] = job.page}]
    /\ UNCHANGED <<now, listed, observed, staged, evidence, record, runs, accepted>>

Candidates == IF Pin[Current] = None THEN job.seen ELSE job.seen \cap {Pin[Current]}

\* Slip: the first of several is good enough.
Some(candidates) == candidates # {}

\* Without an artifact the SBOM is missing, with several it is ambiguous.
Single(candidates) == Cardinality(candidates) = 1

\* Slip: what the listing of an image names belongs to it.
AnySubject(a, i) == TRUE

IsSubject(a, i) == Subject[a] = i

\* The artifact, its subject and its blobs are verified, and its components usable.
Acquire ==
    /\ job.step = "list" /\ Left # {} /\ job.page > Pages /\ Single(Candidates)
    /\ \E a \in Candidates, skipped \in BOOLEAN :
        /\ IsSubject(a, Current)
        /\ job' = [job EXCEPT !.page = 1, !.seen = {},
               !.found = [i \in DOMAIN job.found \cup {Current} |->
                             IF i = Current THEN [artifact |-> a, before |-> job.before] ELSE job.found[i]],
               !.partial = @ \/ skipped]
    /\ UNCHANGED <<now, listed, observed, staged, evidence, record, runs, accepted>>

Gathered == [found |-> job.found, obs |-> job.obs]

\* Slip: the pointer is moved first, the evidence saved when that succeeded.
PointerFirst == [made |-> "publish", saved |-> "done", published |-> "save"]

\* The evidence is saved before the pointer moves.
Order == [made |-> "save", saved |-> "publish", published |-> "done"]

\* The candidate snapshot; what it leaves out must be allowed.
Compose ==
    /\ job.step = "list" /\ Left = {} /\ (job.partial => AllowPartial)
    /\ job' = [job EXCEPT !.step = Order.made,
           !.made = [rows |-> [i \in DOMAIN job.found |-> job.found[i].artifact], partial |-> job.partial,
                     at |-> now, observed |-> IF job.obs = None THEN now ELSE job.obs.at]]
    /\ UNCHANGED <<now, listed, observed, staged, evidence, record, runs, accepted>>

\* The answer of the host: its packages, and some that need a review.
Probe(review) ==
    /\ job.step = "probe"
    /\ job' = [job EXCEPT !.step = Order.made, !.partial = review,
           !.made = [rows |-> "packages", partial |-> review, at |-> now, observed |-> now]]
    /\ UNCHANGED <<now, listed, observed, staged, evidence, record, runs, accepted>>
-----------------------------------------------------------------------------
(* What both end with. *)

Saved == {e \in evidence[job.source] : e.made = job.made}

\* Another archive of the same generation is a conflict, an equal one is used again.
Save ==
    /\ job.step = "save" /\ \A e \in Saved : e.of = Gathered
    /\ evidence' = [evidence EXCEPT ![job.source] = @ \cup {[made |-> job.made, of |-> Gathered]}]
    /\ IF Order.saved = "done" THEN Ended("success", job.made)
       ELSE job' = [job EXCEPT !.step = Order.saved] /\ UNCHANGED record
    /\ UNCHANGED <<now, listed, observed, staged, runs, accepted>>

Pointer == staged[job.source]

\* publish answers "idempotent" for the generation that is current.
IsCurrent == Pointer # None /\ Pointer = job.made

\* A generation that is not newer is refused as a replay.
Newer == Pointer # None => job.made.at > Pointer.at /\ job.made.observed >= Pointer.observed

Publish ==
    /\ job.step = "publish" /\ (IsCurrent \/ Newer)
    /\ staged' = IF IsCurrent THEN staged ELSE [staged EXCEPT ![job.source] = job.made]
    /\ accepted' = [accepted EXCEPT ![job.source] = @ \cup {staged'[job.source]}]
    /\ IF Order.published = "done" THEN Ended("success", job.made)
       ELSE job' = [job EXCEPT !.step = Order.published] /\ UNCHANGED record
    /\ UNCHANGED <<now, listed, observed, evidence, runs>>

Next ==
    \/ Tick \/ \E i \in Images, a \in Artifacts : Push(i, a)
    \/ \E running \in SUBSET Images : Observe(running)
    \/ \E source \in Sources : Start(source)
    \/ Fail \/ Crash \/ List \/ Acquire \/ Compose \/ \E review \in BOOLEAN : Probe(review)
    \/ Save \/ Publish

Spec == Init /\ [][Next]_vars
-----------------------------------------------------------------------------
(* Properties. *)

TypeOK ==
    /\ now \in 0..MaxTime /\ listed \in [Images -> SUBSET Artifacts]
    /\ observed \in [at : 0..MaxTime, running : SUBSET Images]
    /\ DOMAIN staged = Sources /\ DOMAIN evidence = Sources /\ DOMAIN record = Sources
    /\ job.step \in {"idle", "probe", "list", "save", "publish"}

Of(source) == {e \in evidence[source] : e.made = staged[source]}

\* acquire.py:162, "Commit only fully verified evidence": the snapshot that is current
\* always has its evidence, exactly one, whenever a collection failed or was cut off.
ServedHasEvidence ==
    \A s \in Sources : staged[s] # None => Cardinality(Of(s)) = 1

\* Each component comes from an artifact of its own image, the images are those observed
\* as running at the time the snapshot gives, and the evidence is of that observation.
EvidenceIsOfTheImage ==
    \A s \in Sources \ {"ssh"} : staged[s] # None =>
        \A e \in Of(s) :
            /\ \A i \in DOMAIN e.of.found : Subject[e.of.found[i].artifact] = i
            /\ DOMAIN e.of.found = DOMAIN staged[s].rows
            /\ e.of.obs # None => e.of.obs.at = staged[s].observed /\ e.of.obs.running = DOMAIN e.of.found

\* An image for which two SBOMs were listed when its listing began is never given one of
\* them without a pin, however the listing changed between two pages.
NeverAmbiguous ==
    \A s \in Sources \ {"ssh"} : staged[s] # None =>
        \A e \in Of(s), i \in Images : i \in DOMAIN e.of.found /\ Pin[i] = None =>
            e.of.found[i].before \subseteq {e.of.found[i].artifact}

\* A success that is recorded is that of a generation the source pointed to.
RecordIsTrue ==
    \A s \in Sources : record[s] # None =>
        (record[s].status = "success" => record[s].made \in accepted[s])

CollectInv == TypeOK /\ ServedHasEvidence /\ EvidenceIsOfTheImage /\ NeverAmbiguous /\ RecordIsTrue
=============================================================================
