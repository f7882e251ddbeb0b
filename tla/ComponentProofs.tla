-------------------------- MODULE ComponentProofs ---------------------------
(***************************************************************************)
(* The components around the watcher, which MCHost checks on one small     *)
(* instance, for every value of their constants: program runs, discovery,  *)
(* collections, the pipeline, the configuration editor, web detection and  *)
(* the scheduler.                                                          *)
(*                                                                         *)
(* For each component there is a theorem about its own specification and   *)
(* one that says the same of the sum of the components.                    *)
(***************************************************************************)
EXTENDS Ingest, HostComponents, FiniteSetTheorems, SequenceTheorems, WellFoundedInduction, TLAPS
-----------------------------------------------------------------------------
(* Pushed snapshots. *)

Idle == [at |-> "idle"]
Requests == [client : Clients, attempt : 1..Attempts]
Loads ==
    [at : {"sending", "waiting", "done"}, pack : Packs, key : Sources \cup {None},
     attempt : 1..Attempts,
     result : {"none", "unknown", "accepted", "exhausted", "limited", "rejected"}]
HandlerTasks == [at : {"taken", "admitted", "valid", "storing", "pointing"}, request : Requests]

IngestShapes ==
    /\ push \in [Clients -> {Idle} \cup Loads]
    /\ wire \in SUBSET Requests
    /\ worker \in [Workers -> {Free} \cup HandlerTasks]
    /\ failures \in Nat
    /\ lock \in [Sources -> Workers \cup {Nobody}]
    /\ generations \in [Sources -> SUBSET Packs]
    /\ pointer \in [Sources -> Packs \cup {None}]
    /\ log \in [Sources -> Seq(Packs)]

Loaded(c) == push[c].at # "idle"
Busy(w) == worker[w].at # "free"
Publishes(w) == worker[w].at \in {"storing", "pointing"}
Accepted(c) == push[c].at = "done" /\ push[c].result = "accepted"
Admitted == {w \in Workers : worker[w].at = "admitted"}

\* A handler that was admitted may still count one failure.
FailuresAreCounted ==
    failures + Cardinality(Admitted) < FailureLimit + Cardinality(Workers)

\* Every request was sent by a command that has read its snapshot.
RequestsAreLoaded ==
    /\ \A r \in wire : Loaded(r.client)
    /\ \A w \in Workers : Busy(w) => Loaded(Request(w).client)

KeyIsChecked ==
    \A w \in Workers : worker[w].at \in {"valid", "storing", "pointing"} =>
        push[Request(w).client].key = Source(w)

\* The lock of publish, and what was decided under it and stays true.
LockIsHeld == \A w \in Workers : Publishes(w) => lock[Source(w)] = w

PublishesNewer ==
    \A w \in Workers : Publishes(w) =>
        pointer[Source(w)] = None \/ Newer(Pack(w), pointer[Source(w)])

StoredFirst ==
    \A w \in Workers : worker[w].at = "pointing" => Pack(w) \in generations[Source(w)]

PointerIsLast ==
    \A s \in Sources :
        IF pointer[s] = None THEN log[s] = <<>>
        ELSE log[s] # <<>> /\ log[s][Len(log[s])] = pointer[s]

\* The inductive invariant.
ReceiverInv ==
    /\ IngestShapes
    /\ FailuresAreCounted
    /\ RequestsAreLoaded
    /\ KeyIsChecked
    /\ LockIsHeld
    /\ PublishesNewer
    /\ StoredFirst
    /\ PointerIsLast
    /\ PointerIsWhole
    /\ SuccessIsTrue
    /\ NeverBack
-----------------------------------------------------------------------------
\* What a command has read stays with it.
Kept ==
    \A c \in Clients : Loaded(c) =>
        /\ push'[c].at # "idle"
        /\ push'[c].pack = push[c].pack
        /\ push'[c].key = push[c].key

\* The fields of what commands and handlers hold.
LEMMA Fields ==
    ASSUME IngestShapes
    PROVE  /\ \A c \in Clients : Loaded(c) =>
                /\ push[c] \in Loads
                /\ push[c].pack \in Packs /\ push[c].pack.source \in Sources
           /\ \A w \in Workers : Busy(w) =>
                worker[w] \in HandlerTasks /\ Request(w) \in Requests /\ Request(w).client \in Clients
BY DEF IngestShapes, Loaded, Busy, Idle, Loads, HandlerTasks, Requests, Free, Request, Sources

\* A command moves on with what it has read.
LEMMA PushMoves ==
    ASSUME IngestShapes, NEW c \in Clients, Loaded(c), NEW x \in Loads,
           x.pack = push[c].pack, x.key = push[c].key, push' = [push EXCEPT ![c] = x]
    PROVE  /\ push' \in [Clients -> {Idle} \cup Loads]
           /\ Kept
           /\ \A d \in Clients : push'[d].at = "done" /\ push'[d].result = "accepted" =>
                Accepted(d) \/ (d = c /\ x.at = "done" /\ x.result = "accepted")
<1>1. push' \in [Clients -> {Idle} \cup Loads]
  BY DEF IngestShapes
<1>2. x.at # "idle"
  BY DEF Loads
<1> QED BY <1>1, <1>2 DEF Kept, IngestShapes, Loaded, Accepted

\* How a command ends, or tries again.
LEMMA EndsMoves ==
    ASSUME IngestShapes, NEW c \in Clients, Loaded(c),
           NEW code \in {"unknown", "accepted", "exhausted", "limited", "rejected"},
           Ends(c, code) \/ (code # "accepted" /\ Again(c, code))
    PROVE  /\ push' \in [Clients -> {Idle} \cup Loads]
           /\ Kept
           /\ \A d \in Clients : push'[d].at = "done" /\ push'[d].result = "accepted" =>
                Accepted(d) \/ (d = c /\ code = "accepted")
<1>1. push[c] \in Loads
  BY Fields
<1>2. CASE Ends(c, code)
  <2> DEFINE x == [push[c] EXCEPT !.at = "done", !.result = code]
  <2>1. x \in Loads /\ x.pack = push[c].pack /\ x.key = push[c].key /\ x.result = code
    BY <1>1 DEF Loads
  <2>2. push' = [push EXCEPT ![c] = x]
    BY <1>1, <1>2 DEF Ends, IngestShapes
  <2> HIDE DEF x
  <2> QED BY <2>1, <2>2, PushMoves
<1>3. CASE code # "accepted" /\ push[c].attempt # Attempts /\ Again(c, code)
  <2> DEFINE x == [push[c] EXCEPT !.at = "sending", !.attempt = @ + 1]
  <2>0. push[c].attempt + 1 \in 1..Attempts
    BY <1>1, <1>3, IngestAssumption DEF Loads
  <2>1. x \in Loads /\ x.pack = push[c].pack /\ x.key = push[c].key /\ x.at = "sending"
    BY <1>1, <2>0 DEF Loads
  <2>2. push' = [push EXCEPT ![c] = x]
    BY <1>1, <1>3 DEF Again, IngestShapes
  <2> HIDE DEF x
  <2> QED BY <2>1, <2>2, PushMoves
<1> QED BY <1>2, <1>3 DEF Again

\* A response changes its command only, and only a 200 makes it a success.
LEMMA AnswerMoves ==
    ASSUME IngestShapes, NEW r \in Requests, NEW code \in {200, 400, 401, 409, 429, 503},
           Answer(r, code)
    PROVE  /\ push' \in [Clients -> {Idle} \cup Loads]
           /\ Kept
           /\ \A c \in Clients : push'[c].at = "done" /\ push'[c].result = "accepted" =>
                Accepted(c) \/ (code = 200 /\ c = r.client)
<1>1. CASE UNCHANGED push
  BY <1>1 DEF IngestShapes, Kept, Loaded, Accepted
<1>2. CASE Waiting(r.client, r.attempt) /\ ~UNCHANGED push
  <2>1. r.client \in Clients /\ Loaded(r.client)
    BY <1>2 DEF Waiting, Loaded, Requests
  <2>2. CASE code = 200
    BY <1>2, <2>1, <2>2, EndsMoves DEF Answer
  <2>3. CASE code = 503
    <3>1. Again(r.client, "exhausted")
      BY <1>2, <2>3 DEF Answer
    <3> QED BY <2>1, <3>1, EndsMoves
  <2>4. CASE code = 429
    <3>1. Ends(r.client, "limited")
      BY <1>2, <2>4 DEF Answer
    <3> QED BY <2>1, <3>1, EndsMoves
  <2>5. CASE code \notin {200, 429, 503}
    <3>1. Ends(r.client, "rejected")
      BY <1>2, <2>5 DEF Answer
    <3> QED BY <2>1, <3>1, EndsMoves
  <2> QED BY <2>2, <2>3, <2>4, <2>5
<1> QED BY <1>1, <1>2 DEF Answer
-----------------------------------------------------------------------------
\* A reply frees the handler and answers its request.
LEMMA ReplyMoves ==
    ASSUME IngestShapes, NEW w \in Workers, Busy(w),
           NEW code \in {200, 400, 401, 409, 429, 503}, Reply(w, code)
    PROVE  /\ push' \in [Clients -> {Idle} \cup Loads]
           /\ worker' \in [Workers -> {Free} \cup HandlerTasks]
           /\ worker' = [worker EXCEPT ![w] = Free]
           /\ Kept
           /\ \A c \in Clients : push'[c].at = "done" /\ push'[c].result = "accepted" =>
                Accepted(c) \/ (code = 200 /\ c = Request(w).client)
<1>1. Request(w) \in Requests /\ Answer(Request(w), code)
  BY Fields DEF Reply
<1>2. worker' = [worker EXCEPT ![w] = Free]
  BY DEF Reply
<1> QED BY <1>1, <1>2, AnswerMoves DEF IngestShapes

\* A handler goes on with its request.
LEMMA GoesMoves ==
    ASSUME IngestShapes, NEW w \in Workers, Busy(w),
           NEW place \in {"admitted", "valid", "storing", "pointing"}, Goes(w, place)
    PROVE  /\ worker' \in [Workers -> {Free} \cup HandlerTasks]
           /\ \A v \in Workers : v # w => worker'[v] = worker[v]
           /\ worker'[w].at = place /\ worker'[w].request = worker[w].request
<1>1. worker[w] \in HandlerTasks
  BY Fields
<1> DEFINE x == [worker[w] EXCEPT !.at = place]
<1>2. x \in HandlerTasks /\ x.at = place /\ x.request = worker[w].request
  BY <1>1 DEF HandlerTasks
<1>3. worker' = [worker EXCEPT ![w] = x]
  BY <1>1 DEF Goes, IngestShapes
<1> HIDE DEF x
<1> QED BY <1>2, <1>3 DEF IngestShapes

\* A command that loads a snapshot had none.
LEMMA LoadMoves ==
    ASSUME IngestShapes, NEW c \in Clients, NEW p \in Packs, NEW key \in Sources \cup {None},
           Load(c, p, key)
    PROVE  /\ push' \in [Clients -> {Idle} \cup Loads]
           /\ Kept
           /\ \A d \in Clients : push'[d].at = "done" /\ push'[d].result = "accepted" =>
                Accepted(d)
<1> DEFINE x == [at |-> "sending", pack |-> p, key |-> key, attempt |-> 1, result |-> "none"]
<1>1. x \in Loads /\ x.at = "sending"
  BY IngestAssumption DEF Loads
<1>2. push' = [push EXCEPT ![c] = x] /\ push[c].at = "idle"
  BY DEF Load
<1> HIDE DEF x
<1>3. push' \in [Clients -> {Idle} \cup Loads]
  BY <1>1, <1>2 DEF IngestShapes
<1> QED BY <1>1, <1>2, <1>3 DEF IngestShapes, Kept, Loaded, Accepted

\* A command sends what it has read.
LEMMA SendMoves ==
    ASSUME IngestShapes, NEW c \in Clients, Send(c)
    PROVE  /\ push' \in [Clients -> {Idle} \cup Loads]
           /\ wire' \in SUBSET Requests
           /\ Loaded(c)
           /\ Kept
           /\ \A d \in Clients : push'[d].at = "done" /\ push'[d].result = "accepted" =>
                Accepted(d)
<1>1. Loaded(c) /\ push[c] \in Loads /\ push[c].at = "sending"
  BY Fields DEF Send, Loaded
<1> DEFINE x == [push[c] EXCEPT !.at = "waiting"]
<1>2. x \in Loads /\ x.pack = push[c].pack /\ x.key = push[c].key /\ x.at = "waiting"
  BY <1>1 DEF Loads
<1>3. push' = [push EXCEPT ![c] = x]
  BY <1>1 DEF Send, IngestShapes
<1> HIDE DEF x
<1>4. wire' \in SUBSET Requests
  BY <1>1 DEF Send, IngestShapes, Requests, Loads
<1> QED BY <1>1, <1>2, <1>3, <1>4, PushMoves
-----------------------------------------------------------------------------
\* A failure is counted by a handler that was admitted before.
LEMMA CountFacts ==
    ASSUME IngestShapes
    PROVE  /\ IsFiniteSet(Admitted)
           /\ Cardinality(Admitted) \in Nat /\ Cardinality(Workers) \in Nat
           /\ Cardinality(Admitted) <= Cardinality(Workers)
           /\ FailureLimit \in Nat /\ FailureLimit > 0 /\ failures \in Nat
<1>1. Admitted \subseteq Workers /\ IsFiniteSet(Workers)
  BY IngestAssumption DEF Admitted
<1>2. IsFiniteSet(Admitted) /\ Cardinality(Admitted) <= Cardinality(Workers)
  BY <1>1, FS_Subset
<1> QED BY <1>1, <1>2, IngestAssumption, FS_CardinalityType DEF IngestShapes

\* Without another admission or failure the count stays within its limit.
LEMMA CountStays ==
    ASSUME IngestShapes, IngestShapes', FailuresAreCounted, failures' <= failures,
           Admitted' \subseteq Admitted
    PROVE  FailuresAreCounted'
<1>1. Cardinality(Admitted') <= Cardinality(Admitted) /\ Cardinality(Admitted') \in Nat
  BY CountFacts, FS_Subset, FS_CardinalityType
<1> QED BY <1>1, CountFacts DEF FailuresAreCounted, IngestShapes

\* What a handler may turn into while nothing is published.
Quiet(v) ==
    \/ worker'[v] = worker[v]
    \/ worker'[v] = Free
    \/ /\ worker'[v].at \in {"taken", "admitted"}
       /\ push'[worker'[v].request.client].at # "idle"
    \/ /\ Busy(v) /\ push[Request(v).client].key = Source(v)
       /\ worker'[v].at = "valid" /\ worker'[v].request = worker[v].request

\* The request of a handler stays what it is.
LEMMA SamePack ==
    ASSUME ReceiverInv, Kept, NEW v \in Workers, Busy(v),
           worker'[v].request = worker[v].request
    PROVE  /\ Pack(v)' = Pack(v) /\ Pack(v) \in Packs
           /\ Source(v)' = Source(v) /\ Source(v) \in Sources
           /\ push'[worker'[v].request.client].key = push[Request(v).client].key
           /\ push'[worker'[v].request.client].at # "idle"
<1>1. Request(v).client \in Clients /\ Loaded(Request(v).client)
  BY Fields DEF ReceiverInv, RequestsAreLoaded
<1>2. Pack(v) \in Packs /\ Source(v) \in Sources
  BY <1>1, Fields DEF Pack, Source, ReceiverInv
<1> QED BY <1>1, <1>2 DEF Kept, Pack, Source, Request

\* Requests come and go, and nothing is stored or published.
LEMMA QuietStep ==
    ASSUME ReceiverInv, IngestShapes', FailuresAreCounted', Kept,
           UNCHANGED <<generations, pointer, log>>,
           \A r \in wire' : push'[r.client].at # "idle",
           \A v \in Workers : Quiet(v),
           \A v \in Workers : Publishes(v)' => lock' = lock,
           \A c \in Clients : push'[c].at = "done" /\ push'[c].result = "accepted" =>
                Accepted(c) \/ (Loaded(c) /\ push[c].pack \in ToSet(log[push[c].pack.source]))
    PROVE  ReceiverInv'
<1>1. ASSUME NEW v \in Workers, worker'[v].at \in {"storing", "pointing"}
      PROVE  worker'[v] = worker[v] /\ Busy(v) /\ Publishes(v)
  BY <1>1 DEF Quiet, Free, Busy, Publishes
<1>2. RequestsAreLoaded'
  <2> SUFFICES ASSUME NEW v \in Workers, worker'[v].at # "free"
               PROVE  push'[worker'[v].request.client].at # "idle"
    BY DEF RequestsAreLoaded, Loaded, Busy, Request
  <2> QED BY SamePack DEF Quiet, Free, Busy
<1>3. KeyIsChecked'
  <2> SUFFICES ASSUME NEW v \in Workers, worker'[v].at \in {"valid", "storing", "pointing"}
               PROVE  push'[worker'[v].request.client].key = Source(v)'
    BY DEF KeyIsChecked, Request
  <2>1. Busy(v) /\ worker'[v].request = worker[v].request
        /\ push[Request(v).client].key = Source(v)
    BY DEF Quiet, Free, Busy, ReceiverInv, KeyIsChecked
  <2> QED BY <2>1, SamePack
<1>4. LockIsHeld' /\ PublishesNewer' /\ StoredFirst'
  <2> SUFFICES ASSUME NEW v \in Workers, worker'[v].at \in {"storing", "pointing"}
               PROVE  /\ lock'[Source(v)'] = v
                      /\ pointer[Source(v)'] = None \/ Newer(Pack(v)', pointer[Source(v)'])
                      /\ worker'[v].at = "pointing" => Pack(v)' \in generations[Source(v)']
    BY DEF LockIsHeld, PublishesNewer, StoredFirst, Publishes, Newer
  <2>1. worker'[v] = worker[v] /\ Busy(v) /\ Publishes(v) /\ Publishes(v)'
    BY <1>1 DEF Publishes
  <2> QED BY <2>1, SamePack DEF ReceiverInv, LockIsHeld, PublishesNewer, StoredFirst
<1>5. PointerIsLast' /\ NeverBack'
  BY DEF ReceiverInv, PointerIsLast, NeverBack
<1>6. PointerIsWhole'
  BY DEF ReceiverInv, PointerIsWhole, Kept, Loaded
<1>7. SuccessIsTrue'
  BY DEF ReceiverInv, SuccessIsTrue, Accepted, Kept, Loaded
<1> QED BY <1>2, <1>3, <1>4, <1>5, <1>6, <1>7 DEF ReceiverInv
-----------------------------------------------------------------------------
(* The steps that publish nothing. *)

\* What was published earlier was published.
LEMMA CurrentIsLogged ==
    ASSUME ReceiverInv, NEW s \in Sources, pointer[s] # None
    PROVE  pointer[s] \in ToSet(log[s])
<1>1. log[s] \in Seq(Packs) /\ log[s] # <<>> /\ log[s][Len(log[s])] = pointer[s]
  BY DEF ReceiverInv, IngestShapes, PointerIsLast
<1>2. Len(log[s]) \in DOMAIN log[s]
  BY <1>1
<1> QED BY <1>1, <1>2 DEF ToSet

\* A command: nothing the handlers hold changes.
LEMMA CommandSteps ==
    ASSUME ReceiverInv,
           \/ \E c \in Clients, p \in Packs, key \in Sources \cup {None} : Load(c, p, key)
           \/ \E c \in Clients : Send(c) \/ Breaks(c)
    PROVE  ReceiverInv'
<1>1. ASSUME UNCHANGED <<receiver, staging>>, Kept,
             push' \in [Clients -> {Idle} \cup Loads], wire' \in SUBSET Requests,
             \A r \in wire' : r \in wire \/ Loaded(r.client),
             \A d \in Clients : push'[d].at = "done" /\ push'[d].result = "accepted" =>
                Accepted(d)
      PROVE  ReceiverInv'
  <2>1. UNCHANGED <<worker, failures, lock, generations, pointer, log>>
    BY <1>1 DEF receiver, staging
  <2>2. IngestShapes'
    BY <1>1, <2>1 DEF ReceiverInv, IngestShapes
  <2>3. FailuresAreCounted'
    BY <2>1 DEF ReceiverInv, FailuresAreCounted, Admitted
  <2>4. \A r \in wire' : push'[r.client].at # "idle"
    BY <1>1 DEF ReceiverInv, RequestsAreLoaded, Kept, Requests
  <2>5. \A v \in Workers : Quiet(v)
    BY <2>1 DEF Quiet
  <2> QED BY <1>1, <2>1, <2>2, <2>3, <2>4, <2>5, QuietStep
<1>2. ASSUME NEW c \in Clients, NEW p \in Packs, NEW key \in Sources \cup {None},
             Load(c, p, key)
      PROVE  ReceiverInv'
  <2>1. UNCHANGED <<wire, receiver, staging>>
    BY <1>2 DEF Load
  <2> QED BY <1>1, <1>2, <2>1, LoadMoves DEF ReceiverInv, IngestShapes
<1>3. ASSUME NEW c \in Clients, Send(c) PROVE ReceiverInv'
  <2>1. /\ UNCHANGED <<receiver, staging>>
        /\ \A r \in wire' : r \in wire \/ r.client = c
    BY <1>3 DEF Send
  <2>2. Loaded(c)
    BY <1>3, SendMoves DEF ReceiverInv
  <2> QED BY <1>1, <1>3, <2>1, <2>2, SendMoves DEF ReceiverInv
<1>4. ASSUME NEW c \in Clients, Breaks(c) PROVE ReceiverInv'
  <2>1. /\ UNCHANGED <<receiver, staging>> /\ wire' \subseteq wire
        /\ Again(c, "unknown") /\ Loaded(c)
    BY <1>4 DEF Breaks, Loaded
  <2>2. /\ push' \in [Clients -> {Idle} \cup Loads] /\ Kept
        /\ \A d \in Clients : push'[d].at = "done" /\ push'[d].result = "accepted" =>
                Accepted(d)
    BY <2>1, EndsMoves DEF ReceiverInv
  <2> QED BY <1>1, <2>1, <2>2 DEF ReceiverInv, IngestShapes
<1> QED BY <1>2, <1>3, <1>4

\* A handler that neither stores nor publishes: it keeps its request, changes no lock
\* and answers 200 only for what is current.
LEMMA HandlerStep ==
    ASSUME ReceiverInv, IngestShapes', FailuresAreCounted', Kept, NEW w \in Workers,
           UNCHANGED <<lock, generations, pointer, log>>, wire' \subseteq wire,
           Quiet(w), \A v \in Workers : v # w => worker'[v] = worker[v],
           \A c \in Clients : push'[c].at = "done" /\ push'[c].result = "accepted" =>
                Accepted(c) \/ (Loaded(c) /\ push[c].pack \in ToSet(log[push[c].pack.source]))
    PROVE  ReceiverInv'
<1>1. \A r \in wire' : push'[r.client].at # "idle"
  BY DEF ReceiverInv, IngestShapes, RequestsAreLoaded, Kept, Requests
<1>2. \A v \in Workers : Quiet(v)
  BY DEF Quiet
<1> QED BY <1>1, <1>2, QuietStep

\* A reply that is not a success of this handler.
LEMMA ReplyStep ==
    ASSUME ReceiverInv, NEW w \in Workers, Busy(w), UNCHANGED <<wire, staging>>,
           NEW code \in {200, 400, 401, 409, 429, 503}, Reply(w, code),
           failures' \in Nat,
           failures' <= failures \/ (failures' = failures + 1 /\ w \in Admitted),
           code = 200 => Pack(w) \in ToSet(log[Source(w)])
    PROVE  ReceiverInv'
<1>0. UNCHANGED <<lock, generations, pointer, log>>
  BY DEF staging
<1>1. worker' = [worker EXCEPT ![w] = Free]
  BY DEF Reply
<1>2. IngestShapes' /\ Kept
  BY <1>0, ReplyMoves DEF ReceiverInv, IngestShapes
<1>3. worker'[w] = Free /\ \A v \in Workers : v # w => worker'[v] = worker[v]
  BY <1>1 DEF ReceiverInv, IngestShapes
<1>4. Admitted' = Admitted \ {w}
  BY <1>3 DEF Admitted, Free
<1>5. FailuresAreCounted'
  <2>1. CASE failures' <= failures
    BY <1>2, <1>4, <2>1, CountStays DEF ReceiverInv
  <2>2. CASE failures' = failures + 1 /\ w \in Admitted
    <3>1. Cardinality(Admitted') = Cardinality(Admitted) - 1
      BY <1>4, <2>2, CountFacts, FS_RemoveElement DEF ReceiverInv
    <3> QED BY <2>2, <3>1, CountFacts DEF FailuresAreCounted, ReceiverInv
  <2> QED BY <2>1, <2>2
<1>6. Quiet(w)
  BY <1>3 DEF Quiet
<1>7. ASSUME NEW c \in Clients, push'[c].at = "done", push'[c].result = "accepted",
             ~Accepted(c)
      PROVE  Loaded(c) /\ push[c].pack \in ToSet(log[push[c].pack.source])
  <2>1. code = 200 /\ c = Request(w).client
    BY <1>7, ReplyMoves DEF ReceiverInv
  <2> QED BY <2>1 DEF Pack, Source, ReceiverInv, RequestsAreLoaded
<1> QED BY <1>0, <1>2, <1>3, <1>5, <1>6, <1>7, HandlerStep
\* process_request: a handler takes a request off the wire.
LEMMA TakeStep ==
    ASSUME ReceiverInv, NEW w \in Workers, NEW r \in wire, Take(w, r)
    PROVE  ReceiverInv'
<1>1. /\ UNCHANGED <<push, failures, lock, generations, pointer, log>>
      /\ wire' = wire \ {r} /\ worker[w].at = "free"
      /\ worker' = [worker EXCEPT ![w] = [at |-> "taken", request |-> r]]
  BY DEF Take, At, staging
<1>2. r \in Requests /\ Loaded(r.client)
  BY DEF ReceiverInv, IngestShapes, RequestsAreLoaded
<1> DEFINE x == [at |-> "taken", request |-> r]
<1>3. x \in HandlerTasks /\ x.at = "taken" /\ x.request = r
  BY <1>2 DEF HandlerTasks
<1>4. worker' = [worker EXCEPT ![w] = x]
  BY <1>1
<1> HIDE DEF x
<1>5. worker'[w] = x /\ \A v \in Workers : v # w => worker'[v] = worker[v]
  BY <1>4 DEF ReceiverInv, IngestShapes
<1>6. IngestShapes' /\ Kept
  BY <1>1, <1>3, <1>4 DEF ReceiverInv, IngestShapes, Kept, Loaded
<1>7. FailuresAreCounted'
  <2>1. Admitted' \subseteq Admitted
    BY <1>3, <1>5 DEF Admitted
  <2> QED BY <1>1, <1>6, <2>1, CountStays, CountFacts DEF ReceiverInv
<1>8. Quiet(w)
  BY <1>1, <1>2, <1>3, <1>5 DEF Quiet, Loaded
<1> QED BY <1>1, <1>5, <1>6, <1>7, <1>8, HandlerStep DEF Accepted

\* A handler that goes on with its request without a change of the stage.
LEMMA GoesStep ==
    ASSUME ReceiverInv, NEW w \in Workers, Busy(w),
           UNCHANGED <<push, wire, failures, staging>>,
           NEW place \in {"admitted", "valid"}, Goes(w, place),
           place = "admitted" => failures < FailureLimit,
           place = "valid" => push[Request(w).client].key = Source(w)
    PROVE  ReceiverInv'
<1>1. UNCHANGED <<lock, generations, pointer, log>>
  BY DEF staging
<1>2. /\ worker' \in [Workers -> {Free} \cup HandlerTasks]
      /\ \A v \in Workers : v # w => worker'[v] = worker[v]
      /\ worker'[w].at = place /\ worker'[w].request = worker[w].request
  BY GoesMoves DEF ReceiverInv
<1>3. IngestShapes' /\ Kept
  BY <1>1, <1>2 DEF ReceiverInv, IngestShapes, Kept, Loaded
<1>4. FailuresAreCounted'
  <2>1. CASE place = "admitted"
    <3>1. IsFiniteSet(Workers) /\ Admitted' \subseteq Workers
      BY IngestAssumption DEF Admitted
    <3>2. Cardinality(Admitted') <= Cardinality(Workers) /\ Cardinality(Admitted') \in Nat
      BY <3>1, FS_Subset, FS_CardinalityType
    <3> QED BY <2>1, <3>2, CountFacts DEF FailuresAreCounted, ReceiverInv
  <2>2. CASE place = "valid"
    <3>1. Admitted' \subseteq Admitted
      BY <1>2, <2>2 DEF Admitted
    <3> QED BY <1>3, <3>1, CountStays, CountFacts DEF ReceiverInv
  <2> QED BY <2>1, <2>2
<1>5. Quiet(w)
  BY <1>2, SamePack, <1>3 DEF Quiet
<1> QED BY <1>1, <1>2, <1>3, <1>4, <1>5, HandlerStep DEF Accepted

\* authenticate, and the checks of the body.
LEMMA AdmissionSteps ==
    ASSUME ReceiverInv, NEW w \in Workers, Admit(w) \/ Authenticate(w)
    PROVE  ReceiverInv'
<1>1. failures \in Nat /\ failures <= failures
  BY CountFacts DEF ReceiverInv
<1>2. CASE Admit(w)
  <2>1. Busy(w) /\ UNCHANGED <<wire, failures, staging>>
    BY <1>2 DEF Admit, At, Busy
  <2>2. CASE failures >= FailureLimit
    BY <1>1, <1>2, <2>1, <2>2, ReplyStep DEF Admit
  <2>3. CASE ~(failures >= FailureLimit)
    <3>1. failures < FailureLimit
      BY <1>1, <2>3, IngestAssumption
    <3> QED BY <1>2, <2>1, <2>3, <3>1, GoesStep DEF Admit
  <2> QED BY <2>2, <2>3
<1>3. CASE Authenticate(w)
  <2>1. Busy(w) /\ UNCHANGED <<wire, staging>> /\ w \in Admitted
    BY <1>3 DEF Authenticate, At, Busy, Admitted
  <2>2. CASE push[Request(w).client].key # Source(w)
    <3>1. Reply(w, 401) /\ failures' = failures + 1
      BY <1>3, <2>2 DEF Authenticate
    <3> QED BY <1>1, <2>1, <3>1, ReplyStep
  <2>3. CASE push[Request(w).client].key = Source(w)
    <3>1. failures' = failures
      BY <1>3, <2>3 DEF Authenticate
    <3>2. CASE Readable(Pack(w))
      BY <1>3, <2>1, <2>3, <3>1, <3>2, GoesStep DEF Authenticate
    <3>3. CASE ~Readable(Pack(w))
      <4>1. Reply(w, 400)
        BY <1>3, <2>3, <3>3 DEF Authenticate
      <4> QED BY <1>1, <2>1, <3>1, <4>1, ReplyStep
    <3> QED BY <3>2, <3>3
  <2> QED BY <2>2, <2>3
<1> QED BY <1>2, <1>3

\* The receiver forgets: the minute ends, a handler is cut off, the process dies; and
\* the clock.
LEMMA ForgettingSteps ==
    ASSUME ReceiverInv, (\E w \in Workers : Abort(w)) \/ Minute \/ Crash \/ Tick
    PROVE  ReceiverInv'
<1>1. UNCHANGED <<push, wire, generations, pointer, log>>
  BY DEF Abort, Minute, Crash, Tick, staging, receiver
<1>2. \A v \in Workers : worker'[v] = worker[v] \/ worker'[v] = Free
  BY DEF Abort, Minute, Crash, Tick, receiver, ReceiverInv, IngestShapes
<1>3. failures' = failures \/ failures' = 0
  BY DEF Abort, Minute, Crash, Tick, receiver
<1>4. lock' = lock \/ (lock' = [s \in Sources |-> Nobody] /\ \A v \in Workers : worker'[v] = Free)
  BY DEF Abort, Minute, Crash, Tick, staging
<1>5. worker' \in [Workers -> {Free} \cup HandlerTasks]
  BY DEF Abort, Minute, Crash, Tick, receiver, ReceiverInv, IngestShapes
<1>6. IngestShapes' /\ Kept
  BY <1>1, <1>3, <1>4, <1>5 DEF ReceiverInv, IngestShapes, Kept, Loaded
<1>7. FailuresAreCounted'
  <2>1. Admitted' \subseteq Admitted
    BY <1>2 DEF Admitted, Free
  <2>2. failures' <= failures
    BY <1>3, CountFacts DEF ReceiverInv
  <2> QED BY <1>6, <2>1, <2>2, CountStays DEF ReceiverInv
<1>8. \A r \in wire' : push'[r.client].at # "idle"
  BY <1>1 DEF ReceiverInv, RequestsAreLoaded, Loaded
<1>9. \A v \in Workers : Quiet(v)
  BY <1>2 DEF Quiet
<1>10. \A v \in Workers : Publishes(v)' => lock' = lock
  BY <1>4 DEF Publishes, Free
<1> QED BY <1>1, <1>6, <1>7, <1>8, <1>9, <1>10, QuietStep DEF Accepted
-----------------------------------------------------------------------------
(* publish *)
\* The lock of a source has one holder.
LEMMA Alone ==
    ASSUME ReceiverInv, NEW v \in Workers, NEW w \in Workers, v # w, Publishes(v),
           Publishes(w) \/ lock[Source(w)] = Nobody
    PROVE  Source(v) # Source(w)
BY IngestAssumption DEF ReceiverInv, LockIsHeld

\* What a snapshot that is published asks of its source.
Published(s) ==
    /\ IF pointer[s] = None THEN log[s] = <<>>
       ELSE log[s] # <<>> /\ log[s][Len(log[s])] = pointer[s]
    /\ pointer[s] # None =>
        /\ pointer[s] \in generations[s] /\ pointer[s].source = s
        /\ \E c \in Clients : push[c].at # "idle" /\ push[c].pack = pointer[s] /\ push[c].key = s
    /\ \A i, j \in DOMAIN log[s] : i < j =>
        log[s][i].generated < log[s][j].generated /\ log[s][i].observed <= log[s][j].observed

\* A handler that holds the lock of its source, before or after its step, disturbs no
\* other source and no other handler.
LEMMA PublisherStep ==
    ASSUME ReceiverInv, IngestShapes', FailuresAreCounted', Kept, NEW w \in Workers, Busy(w),
           wire' = wire,
           \A v \in Workers : v # w => worker'[v] = worker[v],
           \A v \in Workers : v # w /\ Publishes(v) => Source(v) # Source(w),
           \A s \in Sources : s # Source(w) =>
                lock'[s] = lock[s] /\ pointer'[s] = pointer[s] /\ log'[s] = log[s],
           \A s \in Sources : generations[s] \subseteq generations'[s],
           \/ worker'[w] = Free
           \/ /\ worker'[w].at \in {"storing", "pointing"}
              /\ worker'[w].request = worker[w].request
              /\ push[Request(w).client].key = Source(w)
              /\ lock'[Source(w)] = w
              /\ pointer'[Source(w)] = None \/ Newer(Pack(w), pointer'[Source(w)])
              /\ worker'[w].at = "pointing" => Pack(w) \in generations'[Source(w)],
           NEW t \in Sources, t = Source(w), Published(t)',
           \A s \in Sources : ToSet(log[s]) \subseteq ToSet(log'[s]),
           \A c \in Clients : push'[c].at = "done" /\ push'[c].result = "accepted" =>
                Accepted(c) \/ (Loaded(c) /\ push[c].pack \in ToSet(log'[push[c].pack.source]))
    PROVE  ReceiverInv'
<1>1. /\ worker'[w] # Free => Source(w)' = Source(w) /\ Pack(w)' = Pack(w)
      /\ Source(w) \in Sources
      /\ Request(w).client \in Clients
  BY SamePack, Fields DEF ReceiverInv
<1>2. RequestsAreLoaded'
  <2>1. \A r \in wire' : push'[r.client].at # "idle"
    BY DEF ReceiverInv, IngestShapes, RequestsAreLoaded, Kept, Requests
  <2>2. ASSUME NEW v \in Workers, worker'[v].at # "free"
        PROVE  push'[worker'[v].request.client].at # "idle"
    <3>1. Busy(v) /\ worker'[v].request = worker[v].request
      BY <2>2 DEF Busy, Free
    <3> QED BY <3>1, SamePack
  <2> QED BY <2>1, <2>2 DEF RequestsAreLoaded, Loaded, Busy, Request
<1>3. ASSUME NEW v \in Workers, v # w, Busy(v)
      PROVE  /\ Pack(v)' = Pack(v) /\ Source(v)' = Source(v) /\ Source(v) \in Sources
             /\ push'[worker'[v].request.client].key = push[Request(v).client].key
  BY <1>3, SamePack
<1>4. KeyIsChecked'
  <2> SUFFICES ASSUME NEW v \in Workers, worker'[v].at \in {"valid", "storing", "pointing"}
               PROVE  push'[worker'[v].request.client].key = Source(v)'
    BY DEF KeyIsChecked, Request
  <2>1. CASE v = w
    BY <1>1, <2>1, SamePack DEF Free
  <2>2. CASE v # w
    BY <1>3, <2>2 DEF ReceiverInv, KeyIsChecked, Busy
  <2> QED BY <2>1, <2>2
<1>5. LockIsHeld' /\ PublishesNewer' /\ StoredFirst'
  <2> SUFFICES ASSUME NEW v \in Workers, worker'[v].at \in {"storing", "pointing"}
               PROVE  /\ lock'[Source(v)'] = v
                      /\ pointer'[Source(v)'] = None \/ Newer(Pack(v)', pointer'[Source(v)'])
                      /\ worker'[v].at = "pointing" => Pack(v)' \in generations'[Source(v)']
    BY DEF LockIsHeld, PublishesNewer, StoredFirst, Publishes, Newer
  <2>1. CASE v = w
    <3>1. worker'[w] # Free
      BY <2>1 DEF Free
    <3> QED BY <1>1, <2>1, <3>1
  <2>2. CASE v # w
    <3>1. Busy(v) /\ Publishes(v) /\ worker'[v] = worker[v]
      BY <2>2 DEF Busy, Publishes
    <3>2. Source(v) # Source(w) /\ Source(v) \in Sources
      BY <1>3, <2>2, <3>1
    <3>3. /\ lock'[Source(v)] = lock[Source(v)] /\ pointer'[Source(v)] = pointer[Source(v)]
          /\ generations[Source(v)] \subseteq generations'[Source(v)]
      BY <3>2
    <3>4. /\ lock[Source(v)] = v
          /\ pointer[Source(v)] = None \/ Newer(Pack(v), pointer[Source(v)])
          /\ worker[v].at = "pointing" => Pack(v) \in generations[Source(v)]
      BY <3>1 DEF ReceiverInv, LockIsHeld, PublishesNewer, StoredFirst
    <3> QED BY <1>3, <2>2, <3>1, <3>3, <3>4
  <2> QED BY <2>1, <2>2
<1>6. ASSUME NEW s \in Sources PROVE Published(s)'
  <2>1. CASE s = t
    BY <2>1
  <2>2. CASE s # t
    <3>1. Published(s)
      BY DEF Published, ReceiverInv, PointerIsLast, PointerIsWhole, NeverBack
    <3>2. pointer'[s] = pointer[s] /\ log'[s] = log[s] /\ generations[s] \subseteq generations'[s]
      BY <2>2
    <3> QED BY <3>1, <3>2 DEF Published, Kept, Loaded
  <2> QED BY <2>1, <2>2
<1>7. PointerIsLast' /\ PointerIsWhole' /\ NeverBack'
  BY <1>6 DEF Published, PointerIsLast, PointerIsWhole, NeverBack
<1>8. SuccessIsTrue'
  <2> SUFFICES ASSUME NEW c \in Clients, push'[c].at = "done", push'[c].result = "accepted"
               PROVE  push'[c].pack \in ToSet(log'[push'[c].pack.source])
    BY DEF SuccessIsTrue
  <2>1. Loaded(c) /\ push'[c].pack = push[c].pack /\ push[c].pack.source \in Sources
    BY Fields DEF Accepted, Kept, Loaded, ReceiverInv
  <2> QED BY <2>1 DEF ReceiverInv, SuccessIsTrue, Accepted
<1> QED BY <1>2, <1>4, <1>5, <1>7, <1>8 DEF ReceiverInv
\* Under the lock: the answer is known, or this handler is the next to publish.
LEMMA DecideStep ==
    ASSUME ReceiverInv, NEW w \in Workers, Decide(w)
    PROVE  ReceiverInv'
<1>1. /\ Busy(w) /\ worker[w].at = "valid"
      /\ UNCHANGED <<wire, failures, generations, pointer, log>>
      /\ Source(w) \in Sources /\ Pack(w) \in Packs
      /\ push[Request(w).client].key = Source(w)
  BY Fields DEF Decide, At, Busy, ReceiverInv, KeyIsChecked, RequestsAreLoaded, Source, Pack
<1>2. failures \in Nat /\ failures <= failures
  BY CountFacts DEF ReceiverInv
<1>3. CASE Reply(w, 503) /\ UNCHANGED lock
  BY <1>1, <1>2, <1>3, ReplyStep DEF staging
<1>4. CASE pointer[Source(w)] = Pack(w) /\ Reply(w, 200) /\ UNCHANGED lock
  <2>1. Pack(w) \in ToSet(log[Source(w)])
    BY <1>1, <1>4, CurrentIsLogged, IngestAssumption
  <2> QED BY <1>1, <1>2, <1>4, <2>1, ReplyStep DEF staging
<1>5. CASE Reply(w, 409) /\ UNCHANGED lock
  BY <1>1, <1>2, <1>5, ReplyStep DEF staging
<1>6. CASE /\ LockFree(Source(w)) /\ (pointer[Source(w)] = None \/ Newer(Pack(w), pointer[Source(w)]))
           /\ lock' = [lock EXCEPT ![Source(w)] = w]
           /\ Goes(w, "storing") /\ UNCHANGED push
  <2>1. /\ worker' \in [Workers -> {Free} \cup HandlerTasks]
        /\ \A v \in Workers : v # w => worker'[v] = worker[v]
        /\ worker'[w].at = "storing" /\ worker'[w].request = worker[w].request
    BY <1>1, <1>6, GoesMoves DEF ReceiverInv
  <2>2. /\ lock' \in [Sources -> Workers \cup {Nobody}] /\ lock'[Source(w)] = w
        /\ \A s \in Sources : s # Source(w) => lock'[s] = lock[s]
    BY <1>1, <1>6 DEF ReceiverInv, IngestShapes
  <2>3. IngestShapes' /\ Kept
    BY <1>1, <1>6, <2>1, <2>2 DEF ReceiverInv, IngestShapes, Kept, Loaded
  <2>4. FailuresAreCounted'
    <3>1. Admitted' \subseteq Admitted
      BY <2>1 DEF Admitted
    <3> QED BY <1>1, <1>2, <2>3, <3>1, CountStays DEF ReceiverInv
  <2>5. \A v \in Workers : v # w /\ Publishes(v) => Source(v) # Source(w)
    BY <1>6, Alone DEF LockFree
  <2>6. Published(Source(w))
    BY <1>1 DEF Published, ReceiverInv, PointerIsLast, PointerIsWhole, NeverBack
  <2>7. PICK t \in Sources : t = Source(w)
    BY <1>1
  <2>8. Published(t)'
    BY <1>1, <1>6, <2>6, <2>7 DEF Published
  <2> QED BY <1>1, <1>6, <2>1, <2>2, <2>3, <2>4, <2>5, <2>7, <2>8, PublisherStep DEF Accepted
<1> QED BY <1>3, <1>4, <1>5, <1>6 DEF Decide

\* The generation is stored before the pointer names it.
LEMMA StoreStep ==
    ASSUME ReceiverInv, NEW w \in Workers, Store(w)
    PROVE  ReceiverInv'
<1>1. /\ Busy(w) /\ Publishes(w) /\ worker[w].at = "storing"
      /\ UNCHANGED <<push, wire, failures, lock, pointer, log>>
      /\ Source(w) \in Sources /\ Pack(w) \in Packs
      /\ push[Request(w).client].key = Source(w) /\ lock[Source(w)] = w
      /\ pointer[Source(w)] = None \/ Newer(Pack(w), pointer[Source(w)])
  BY Fields DEF Store, At, Busy, Publishes, ReceiverInv, KeyIsChecked, RequestsAreLoaded, Source,
                Pack, LockIsHeld, PublishesNewer
<1>2. /\ worker' \in [Workers -> {Free} \cup HandlerTasks]
      /\ \A v \in Workers : v # w => worker'[v] = worker[v]
      /\ worker'[w].at = "pointing" /\ worker'[w].request = worker[w].request
  BY <1>1, GoesMoves DEF ReceiverInv, Store
<1>3. /\ generations' \in [Sources -> SUBSET Packs] /\ Pack(w) \in generations'[Source(w)]
      /\ \A s \in Sources : generations[s] \subseteq generations'[s]
  <2>1. generations' = [generations EXCEPT ![Source(w)] = generations[Source(w)] \cup {Pack(w)}]
    BY DEF Store
  <2> QED BY <1>1, <2>1 DEF ReceiverInv, IngestShapes
<1>4. IngestShapes' /\ Kept
  BY <1>1, <1>2, <1>3 DEF ReceiverInv, IngestShapes, Kept, Loaded
<1>5. FailuresAreCounted'
  <2>1. Admitted' \subseteq Admitted
    BY <1>2 DEF Admitted
  <2>2. failures' <= failures
    BY <1>1, CountFacts DEF ReceiverInv
  <2> QED BY <1>4, <2>1, <2>2, CountStays DEF ReceiverInv
<1>6. \A v \in Workers : v # w /\ Publishes(v) => Source(v) # Source(w)
  BY <1>1, Alone
<1>7. PICK t \in Sources : t = Source(w)
  BY <1>1
<1>8. Published(t)
  BY DEF Published, ReceiverInv, PointerIsLast, PointerIsWhole, NeverBack
<1>9. Published(t)'
  BY <1>1, <1>3, <1>8 DEF Published
<1> QED BY <1>1, <1>2, <1>3, <1>4, <1>5, <1>6, <1>7, <1>9, PublisherStep DEF Accepted

\* What a source has published, one snapshot later.
Grows(before, p, after) ==
    /\ after \in Seq(Packs) /\ after # <<>>
    /\ after[Len(after)] = p
    /\ ToSet(before) \subseteq ToSet(after)
    /\ p \in ToSet(after)
    /\ \A i, j \in DOMAIN after : i < j =>
         /\ after[i].generated < after[j].generated
         /\ after[i].observed <= after[j].observed

\* The one after keeps the order: newer, and observed no earlier.
LEMMA LogGrows ==
    ASSUME ReceiverInv, NEW s \in Sources, NEW p \in Packs,
           pointer[s] = None \/ Newer(p, pointer[s])
    PROVE  Grows(log[s], p, Append(log[s], p))
<1> DEFINE before == log[s]
           after == Append(log[s], p)
           n == Len(before)
<1>1. before \in Seq(Packs) /\ n \in Nat /\ DOMAIN before = 1..n
  BY DEF ReceiverInv, IngestShapes
<1>2. /\ after \in Seq(Packs) /\ DOMAIN after = 1..(n + 1) /\ Len(after) = n + 1
      /\ after[n + 1] = p /\ \A i \in 1..n : after[i] = before[i] /\ before[i] \in Packs
  BY <1>1
<1>3. \A i, j \in 1..n : i < j =>
        before[i].generated < before[j].generated /\ before[i].observed <= before[j].observed
  BY <1>1 DEF ReceiverInv, NeverBack
<1>4. n # 0 => p.generated > before[n].generated /\ p.observed >= before[n].observed
  BY <1>1 DEF ReceiverInv, PointerIsLast, Newer
<1> HIDE DEF before, after, n
<1>5. ASSUME NEW i \in 1..n
      PROVE  after[i].generated < p.generated /\ after[i].observed <= p.observed
  <2>1. n \in 1..n /\ after[i] = before[i] /\ before[i] \in Packs /\ before[n] \in Packs
    BY <1>1, <1>2
  <2>2. /\ p.generated \in Int /\ p.observed \in Int
        /\ before[i].generated \in Int /\ before[i].observed \in Int
        /\ before[n].generated \in Int /\ before[n].observed \in Int
    BY <2>1, IngestAssumption
  <2>3. i = n \/ (before[i].generated < before[n].generated /\ before[i].observed <= before[n].observed)
    BY <1>1, <1>3, <2>1
  <2> QED BY <1>1, <1>4, <2>1, <2>2, <2>3
<1>6. \A i, j \in DOMAIN after : i < j =>
        after[i].generated < after[j].generated /\ after[i].observed <= after[j].observed
  <2> SUFFICES ASSUME NEW i \in 1..(n + 1), NEW j \in 1..(n + 1), i < j
               PROVE  after[i].generated < after[j].generated /\ after[i].observed <= after[j].observed
    BY <1>2
  <2>1. CASE j = n + 1
    BY <1>1, <1>2, <1>5, <2>1
  <2>2. CASE j # n + 1
    BY <1>1, <1>2, <1>3, <2>2
  <2> QED BY <2>1, <2>2
<1>7. ToSet(before) \subseteq ToSet(after) /\ p \in ToSet(after)
  BY <1>1, <1>2 DEF ToSet
<1>8. after # <<>>
  BY <1>1, <1>2
<1> QED BY <1>2, <1>6, <1>7, <1>8 DEF before, after, Grows
\* The handler is done with its source: the lock goes, and the pointer may have moved.
LEMMA DoneStep ==
    ASSUME ReceiverInv, NEW w \in Workers, Publishes(w), UNCHANGED <<wire, failures, generations>>,
           NEW code \in {200, 400}, Reply(w, code), Unlock(w),
           \/ UNCHANGED <<pointer, log>> /\ code = 400
           \/ worker[w].at = "pointing" /\ SetPointer(w)
    PROVE  ReceiverInv'
<1>1. /\ Busy(w) /\ Source(w) \in Sources /\ Pack(w) \in Packs
      /\ push[Request(w).client].key = Source(w) /\ lock[Source(w)] = w
      /\ pointer[Source(w)] = None \/ Newer(Pack(w), pointer[Source(w)])
      /\ worker[w].at = "pointing" => Pack(w) \in generations[Source(w)]
      /\ Request(w).client \in Clients /\ Loaded(Request(w).client)
  BY Fields DEF Busy, Publishes, ReceiverInv, KeyIsChecked, RequestsAreLoaded, Source, Pack,
                LockIsHeld, PublishesNewer, StoredFirst
<1>2. PICK s \in Sources, p \in Packs : s = Source(w) /\ p = Pack(w) /\ p.source = s
  BY <1>1 DEF Source
<1>3. /\ lock' \in [Sources -> Workers \cup {Nobody}]
      /\ \A x \in Sources : x # s => lock'[x] = lock[x]
  BY <1>1, <1>2 DEF Unlock, ReceiverInv, IngestShapes
<1>4. /\ worker' \in [Workers -> {Free} \cup HandlerTasks]
      /\ worker'[w] = Free /\ \A v \in Workers : v # w => worker'[v] = worker[v]
      /\ push' \in [Clients -> {Idle} \cup Loads] /\ Kept
      /\ \A c \in Clients : push'[c].at = "done" /\ push'[c].result = "accepted" =>
           Accepted(c) \/ (code = 200 /\ c = Request(w).client)
  <2>1. code \in {200, 400, 401, 409, 429, 503}
    OBVIOUS
  <2> QED BY <1>1, <2>1, ReplyMoves DEF ReceiverInv, IngestShapes
<1>5. Published(s)
  BY <1>2 DEF Published, ReceiverInv, PointerIsLast, PointerIsWhole, NeverBack
<1>6. /\ pointer' \in [Sources -> Packs \cup {None}] /\ log' \in [Sources -> Seq(Packs)]
      /\ \A x \in Sources : x # s => pointer'[x] = pointer[x] /\ log'[x] = log[x]
      /\ \A x \in Sources : ToSet(log[x]) \subseteq ToSet(log'[x])
      /\ code = 200 => p \in ToSet(log'[s])
      /\ Published(s)'
  <2>1. CASE UNCHANGED <<pointer, log>> /\ code = 400
    BY <1>4, <1>5, <2>1 DEF ReceiverInv, IngestShapes, Published, Kept, Loaded
  <2>2. CASE worker[w].at = "pointing" /\ SetPointer(w)
    <3>1. /\ pointer' = [pointer EXCEPT ![s] = p]
          /\ log' = [log EXCEPT ![s] = Append(log[s], p)]
      BY <1>2, <2>2 DEF SetPointer
    <3>2. Grows(log[s], p, Append(log[s], p))
      <4>1. pointer[s] = None \/ Newer(p, pointer[s])
        BY <1>1, <1>2
      <4> QED BY <4>1, LogGrows
    <3> DEFINE after == Append(log[s], p)
    <3>3. log' = [log EXCEPT ![s] = after]
      BY <3>1
    <3> HIDE DEF after
    <3>4. /\ pointer' \in [Sources -> Packs \cup {None}] /\ pointer'[s] = p
          /\ \A x \in Sources : x # s => pointer'[x] = pointer[x]
      BY <3>1 DEF ReceiverInv, IngestShapes
    <3>5. /\ log' \in [Sources -> Seq(Packs)] /\ log'[s] = after
          /\ \A x \in Sources : x # s => log'[x] = log[x]
      BY <3>2, <3>3 DEF ReceiverInv, IngestShapes, Grows, after
    <3>6. \A x \in Sources : ToSet(log[x]) \subseteq ToSet(log'[x])
      BY <3>2, <3>5 DEF Grows, after
    <3>7. \E c \in Clients : push'[c].at # "idle" /\ push'[c].pack = p /\ push'[c].key = s
      BY <1>1, <1>2, <1>4 DEF Kept, Pack
    <3>8. p \in generations'[s] /\ p # None
      BY <1>1, <1>2, <2>2, IngestAssumption
    <3>9. /\ after # <<>> /\ after[Len(after)] = p /\ p \in ToSet(after)
          /\ \A i, j \in DOMAIN after : i < j =>
               after[i].generated < after[j].generated /\ after[i].observed <= after[j].observed
      BY <3>2 DEF Grows, after
    <3>10. Published(s)'
      BY <1>2, <3>4, <3>5, <3>7, <3>8, <3>9 DEF Published
    <3> QED BY <3>4, <3>5, <3>6, <3>9, <3>10
  <2> QED BY <2>1, <2>2
<1>7. IngestShapes'
  BY <1>3, <1>4, <1>6 DEF ReceiverInv, IngestShapes
<1>8. FailuresAreCounted'
  <2>1. Admitted' \subseteq Admitted
    BY <1>4 DEF Admitted, Free
  <2>2. failures' <= failures
    BY CountFacts DEF ReceiverInv
  <2> QED BY <1>7, <2>1, <2>2, CountStays DEF ReceiverInv
<1>9. \A v \in Workers : v # w /\ Publishes(v) => Source(v) # Source(w)
  BY Alone
<1>10. ASSUME NEW c \in Clients, push'[c].at = "done", push'[c].result = "accepted", ~Accepted(c)
       PROVE  Loaded(c) /\ push[c].pack \in ToSet(log'[push[c].pack.source])
  BY <1>1, <1>2, <1>4, <1>6, <1>10 DEF Pack, Source
<1>11. \A c \in Clients : push'[c].at = "done" /\ push'[c].result = "accepted" =>
          Accepted(c) \/ (Loaded(c) /\ push[c].pack \in ToSet(log'[push[c].pack.source]))
  BY <1>10
<1>12. \A x \in Sources : x # Source(w) =>
          lock'[x] = lock[x] /\ pointer'[x] = pointer[x] /\ log'[x] = log[x]
  BY <1>2, <1>3, <1>6
<1>13. wire' = wire /\ \A x \in Sources : generations[x] \subseteq generations'[x]
  OBVIOUS
<1>14. s \in Sources /\ s = Source(w)
  BY <1>2
<1> QED BY <1>1, <1>4, <1>6, <1>7, <1>8, <1>9, <1>11, <1>12, <1>13, <1>14, PublisherStep

\* Every step keeps the invariant.
LEMMA ReceiverStep == ReceiverInv /\ [Next]_vars => ReceiverInv'
<1> SUFFICES ASSUME ReceiverInv, [Next]_vars PROVE ReceiverInv'
  OBVIOUS
<1>1. CASE UNCHANGED vars
  BY <1>1 DEF vars, receiver, staging, ReceiverInv, IngestShapes, FailuresAreCounted, Admitted,
              RequestsAreLoaded, Loaded, Busy, Request, KeyIsChecked, Source, Pack, LockIsHeld,
              Publishes, PublishesNewer, Newer, StoredFirst, PointerIsLast, PointerIsWhole,
              SuccessIsTrue, NeverBack
<1>2. ASSUME NEW w \in Workers, Point(w) PROVE ReceiverInv'
  <2>1. /\ Publishes(w) /\ worker[w].at = "pointing"
        /\ UNCHANGED <<wire, failures, generations>>
        /\ Reply(w, 200) /\ Unlock(w) /\ SetPointer(w)
    BY <1>2 DEF Point, At, Publishes
  <2> QED BY <2>1, DoneStep
<1>3. ASSUME NEW w \in Workers, Fail(w) PROVE ReceiverInv'
  <2>1. /\ Publishes(w) /\ UNCHANGED <<wire, failures, generations>>
        /\ Reply(w, 400) /\ Unlock(w)
        /\ UNCHANGED <<pointer, log>> \/ (worker[w].at = "pointing" /\ SetPointer(w))
    BY <1>3 DEF Fail, At, Publishes
  <2> QED BY <2>1, DoneStep
<1>4. ASSUME NEW w \in Workers,
             Admit(w) \/ Authenticate(w) \/ Abort(w) \/ Decide(w) \/ Store(w)
      PROVE ReceiverInv'
  BY <1>4, AdmissionSteps, ForgettingSteps, DecideStep, StoreStep
<1> QED BY <1>1, <1>2, <1>3, <1>4, CommandSteps, TakeStep, ForgettingSteps DEF Next

\* Nothing is sent, held or published at first.
LEMMA ReceiverInit == Init => ReceiverInv
<1> SUFFICES ASSUME Init PROVE ReceiverInv
  OBVIOUS
<1>1. IngestShapes
  BY DEF Init, IngestShapes, Idle, Free
<1>2. FailuresAreCounted
  <2>1. failures = 0 /\ Admitted = {}
    BY DEF Init, Admitted, Free
  <2> QED BY <2>1, <1>1, CountFacts, FS_EmptySet DEF FailuresAreCounted
<1> QED BY <1>1, <1>2 DEF Init, ReceiverInv, RequestsAreLoaded, Busy, Free, KeyIsChecked,
    LockIsHeld, Publishes, PublishesNewer, StoredFirst, PointerIsLast, PointerIsWhole,
    SuccessIsTrue, NeverBack

\* Pushed snapshots are received as they should be, whatever is lost, repeated, delayed
\* or cut off.
THEOREM ReceiverCorrect == Spec => []ReceiverInv
BY ReceiverInit, ReceiverStep, PTL DEF Spec

\* Handlers of one source publish one at a time, the pointer of a source names a complete
\* snapshot that was sent with its credential, a success is never told in vain, and no
\* source goes back to an older snapshot.
THEOREM IngestInvCorrect == Spec => []IngestInv
<1>1. ReceiverInv => IngestInv
  <2> SUFFICES ASSUME ReceiverInv PROVE IngestInv
    OBVIOUS
  <2>1. failures \in 0..(FailureLimit + Cardinality(Workers))
    BY CountFacts DEF ReceiverInv, FailuresAreCounted
  <2>2. TypeOK
    BY <2>1 DEF ReceiverInv, IngestShapes, TypeOK, Requests
  <2>3. OneWriter
    BY Alone DEF OneWriter, Publishes, ReceiverInv
  <2> QED BY <2>2, <2>3 DEF IngestInv, ReceiverInv
<1> QED BY <1>1, ReceiverCorrect, PTL
-----------------------------------------------------------------------------
(* Program runs. *)

LEMMA SameCardinality == \A S : ProcessRun!Cardinality(S) = Cardinality(S)
BY DEF ProcessRun!Cardinality, Cardinality

InFlight == {c \in Calls : stage[c] \notin {"new", "refused", "done"}}

Shapes ==
    /\ windows \in BOOLEAN
    /\ stage \in [Calls -> ProcessRun!Stages] /\ result \in [Calls -> ProcessRun!Results]
    /\ alive \in [Calls -> SUBSET ProcessRun!Processes]
    /\ killed \in [Calls -> SUBSET ProcessRun!Processes]
    /\ stopped \in [Calls -> BOOLEAN] /\ failure \in [Calls -> BOOLEAN]
    /\ gate \in [Calls -> {"silent", "said", "read"}]
    /\ reader \in [Calls -> {"none", "busy", "eof", "failed"}]
    /\ writer \in [Calls -> {"none", "busy", "eof", "failed"}]

\* Every slot that is not free is that of a call.
SlotsAdd ==
    /\ IsFiniteSet(InFlight)
    /\ free \in Nat /\ free = Capacity - Cardinality(InFlight)

\* One call: nothing exists before the spawn, everything that ended was stopped, and what
\* was read to its end has nobody left to write.
CallInv(c) ==
    /\ stage[c] \in {"new", "refused", "spawning"} =>
           ~stopped[c] /\ alive[c] = {} /\ reader[c] = "none" /\ writer[c] = "none"
    /\ stage[c] \in {"waiting", "joining", "cleaning", "reaping"} => reader[c] # "none"
    /\ stage[c] \in {"joining", "cleaning", "reaping"} => stopped[c]
    /\ stage[c] = "done" =>
           /\ reader[c] # "busy" /\ writer[c] # "busy" /\ "leader" \notin alive[c]
           /\ stopped[c] \/ alive[c] = {}
    /\ stopped[c] => alive[c] \ {"escaped"} \subseteq killed[c]
    /\ reader[c] = "eof" => alive[c] = {}
    /\ reader[c] = "failed" => failure[c]
    /\ result[c] = "returned" =>
           /\ stage[c] \in {"cleaning", "reaping", "done"}
           /\ reader[c] = "eof" /\ writer[c] # "busy" /\ ~failure[c] /\ gate[c] = "read"

RunsInv == Shapes /\ SlotsAdd /\ \A c \in Calls : CallInv(c)

\* What a step of a call leaves alone: the other calls.
Apart(c) ==
    \A d \in Calls \ {c} :
        /\ stage'[d] = stage[d] /\ result'[d] = result[d] /\ alive'[d] = alive[d]
        /\ killed'[d] = killed[d] /\ stopped'[d] = stopped[d] /\ failure'[d] = failure[d]
        /\ gate'[d] = gate[d] /\ reader'[d] = reader[d] /\ writer'[d] = writer[d]

LEMMA OthersStay ==
    ASSUME RunsInv, NEW c \in Calls, Apart(c), CallInv(c)'
    PROVE  \A d \in Calls : CallInv(d)'
BY DEF RunsInv, Apart, CallInv

\* A call takes a slot, gives it back or keeps what it has.
LEMMA Slots ==
    ASSUME RunsInv, Capacity \in Nat, NEW c \in Calls, Apart(c),
           \/ free' = free /\ (c \in InFlight <=> stage'[c] \notin {"new", "refused", "done"})
           \/ /\ free > 0 /\ free' = free - 1 /\ c \notin InFlight
              /\ stage'[c] \notin {"new", "refused", "done"}
           \/ free' = free + 1 /\ c \in InFlight /\ stage'[c] = "done"
    PROVE  SlotsAdd'
<1>1. IsFiniteSet(InFlight) /\ Cardinality(InFlight) \in Nat
      /\ free \in Nat /\ free = Capacity - Cardinality(InFlight)
  BY FS_CardinalityType DEF RunsInv, SlotsAdd
<1>2. CASE free' = free /\ (c \in InFlight <=> stage'[c] \notin {"new", "refused", "done"})
  <2>1. InFlight' = InFlight
    BY <1>2 DEF InFlight, Apart
  <2> QED BY <1>1, <1>2, <2>1 DEF SlotsAdd
<1>3. CASE /\ free > 0 /\ free' = free - 1 /\ c \notin InFlight
           /\ stage'[c] \notin {"new", "refused", "done"}
  <2>1. InFlight' = InFlight \cup {c}
    BY <1>3 DEF InFlight, Apart
  <2>2. IsFiniteSet(InFlight') /\ Cardinality(InFlight') = Cardinality(InFlight) + 1
    BY <1>1, <1>3, <2>1, FS_AddElement
  <2> QED BY <1>1, <1>3, <2>2 DEF SlotsAdd
<1>4. CASE free' = free + 1 /\ c \in InFlight /\ stage'[c] = "done"
  <2>1. InFlight' = InFlight \ {c}
    BY <1>4 DEF InFlight, Apart
  <2>2. IsFiniteSet(InFlight') /\ Cardinality(InFlight') = Cardinality(InFlight) - 1
    BY <1>1, <1>4, <2>1, FS_RemoveElement
  <2> QED BY <1>1, <1>4, <2>2 DEF SlotsAdd
<1> QED BY <1>2, <1>3, <1>4

\* A step of a call keeps what is said of it, and its slot.
LEMMA CallStep ==
    ASSUME RunsInv, ProcessRun!ProcessRunAssumption, NEW c \in Calls,
           \/ ProcessRun!Start(c) \/ ProcessRun!SpawnFails(c)
           \/ \E input \in BOOLEAN : ProcessRun!Spawn(c, input)
           \/ \E p \in ProcessRun!Processes : ProcessRun!Fork(c, p) \/ ProcessRun!Exit(c, p)
           \/ ProcessRun!Joins(c) \/ ProcessRun!Announced(c) \/ ProcessRun!EndOfOutput(c)
           \/ ProcessRun!ReaderFails(c) \/ ProcessRun!Written(c) \/ ProcessRun!WriterFails(c)
           \/ ProcessRun!LeaderEnded(c) \/ ProcessRun!Timeout(c) \/ ProcessRun!Orphaned(c)
           \/ ProcessRun!Collected(c) \/ ProcessRun!Clean(c) \/ ProcessRun!Reap(c)
    PROVE  RunsInv'
<1>1. Shapes /\ CallInv(c) /\ Capacity \in Nat
  BY DEF RunsInv, ProcessRun!ProcessRunAssumption
<1>2. SUFFICES /\ Shapes' /\ Apart(c) /\ CallInv(c)'
               /\ \/ free' = free /\ (c \in InFlight <=> stage'[c] \notin {"new", "refused", "done"})
                  \/ /\ free > 0 /\ free' = free - 1 /\ c \notin InFlight
                     /\ stage'[c] \notin {"new", "refused", "done"}
                  \/ free' = free + 1 /\ c \in InFlight /\ stage'[c] = "done"
  BY <1>1, OthersStay, Slots DEF RunsInv
<1> USE DEF Shapes, Apart, ProcessRun!Stages, ProcessRun!Results
<1>3. CASE ProcessRun!Start(c)
  BY <1>1, <1>3 DEF CallInv, InFlight, ProcessRun!Start
<1>4. CASE ProcessRun!SpawnFails(c)
  BY <1>1, <1>4 DEF CallInv, InFlight, ProcessRun!SpawnFails
<1>5. CASE \E input \in BOOLEAN : ProcessRun!Spawn(c, input)
  BY <1>1, <1>5 DEF CallInv, InFlight, ProcessRun!Spawn, ProcessRun!Processes
<1>6. CASE \E p \in ProcessRun!Processes : ProcessRun!Fork(c, p)
  BY <1>1, <1>6 DEF CallInv, InFlight, ProcessRun!Fork
<1>7. CASE \E p \in ProcessRun!Processes : ProcessRun!Exit(c, p)
  BY <1>1, <1>7 DEF CallInv, InFlight, ProcessRun!Exit
<1>8. CASE ProcessRun!Joins(c)
  BY <1>1, <1>8 DEF CallInv, InFlight, ProcessRun!Joins
<1>9. CASE ProcessRun!Announced(c)
  BY <1>1, <1>9 DEF CallInv, InFlight, ProcessRun!Announced
<1>10. CASE ProcessRun!EndOfOutput(c)
  BY <1>1, <1>10 DEF CallInv, InFlight, ProcessRun!EndOfOutput
<1>11. CASE ProcessRun!ReaderFails(c)
  BY <1>1, <1>11 DEF CallInv, InFlight, ProcessRun!ReaderFails, ProcessRun!Stop
<1>12. CASE ProcessRun!Written(c)
  BY <1>1, <1>12 DEF CallInv, InFlight, ProcessRun!Written
<1>13. CASE ProcessRun!WriterFails(c)
  BY <1>1, <1>13 DEF CallInv, InFlight, ProcessRun!WriterFails, ProcessRun!Stop
<1>14. CASE ProcessRun!LeaderEnded(c)
  BY <1>1, <1>14 DEF CallInv, InFlight, ProcessRun!LeaderEnded, ProcessRun!Stop
<1>15. CASE ProcessRun!Timeout(c)
  BY <1>1, <1>15 DEF CallInv, InFlight, ProcessRun!Timeout, ProcessRun!Stop, ProcessRun!Leaves
<1>16. CASE ProcessRun!Orphaned(c)
  BY <1>1, <1>16 DEF CallInv, InFlight, ProcessRun!Orphaned, ProcessRun!Leaves, ProcessRun!ThreadsEnded
<1>17. CASE ProcessRun!Collected(c)
  BY <1>1, <1>17 DEF CallInv, InFlight, ProcessRun!Collected, ProcessRun!Leaves, ProcessRun!ThreadsEnded, ProcessRun!Outcome, ProcessRun!SomeOutcome
<1>18. CASE ProcessRun!Clean(c)
  BY <1>1, <1>18 DEF CallInv, InFlight, ProcessRun!Clean, ProcessRun!MayRelease, ProcessRun!Ended, ProcessRun!ThreadsEnded, ProcessRun!Release
<1>19. CASE ProcessRun!Reap(c)
  BY <1>1, <1>19 DEF CallInv, InFlight, ProcessRun!Reap, ProcessRun!Ended, ProcessRun!ThreadsEnded, ProcessRun!Release
<1> QED BY <1>3, <1>4, <1>5, <1>6, <1>7, <1>8, <1>9, <1>10, <1>11, <1>12, <1>13, <1>14, <1>15, <1>16, <1>17, <1>18, <1>19

LEMMA RunsStart == ProcessRun!ProcessRunAssumption /\ ProcessRun!Init => RunsInv
<1> SUFFICES ASSUME ProcessRun!ProcessRunAssumption, ProcessRun!Init PROVE RunsInv
  OBVIOUS
<1>1. InFlight = {}
  BY DEF ProcessRun!Init, InFlight
<1>2. SlotsAdd
  BY <1>1, FS_EmptySet DEF ProcessRun!Init, ProcessRun!ProcessRunAssumption, SlotsAdd
<1>3. Shapes
  BY DEF ProcessRun!Init, Shapes, ProcessRun!Stages, ProcessRun!Results
<1>4. \A c \in Calls : CallInv(c)
  BY DEF ProcessRun!Init, CallInv
<1> QED BY <1>2, <1>3, <1>4 DEF RunsInv

LEMMA RunsStay == RunsInv /\ UNCHANGED ProcessRun!vars => RunsInv'
BY DEF ProcessRun!vars, RunsInv, Shapes, SlotsAdd, InFlight, CallInv

LEMMA RunsImply == ProcessRun!ProcessRunAssumption /\ RunsInv => ProcessRun!ProcessRunInv
<1> SUFFICES ASSUME ProcessRun!ProcessRunAssumption, RunsInv PROVE ProcessRun!ProcessRunInv
  OBVIOUS
<1>1. /\ Capacity \in Nat /\ IsFiniteSet(InFlight) /\ Cardinality(InFlight) \in Nat
      /\ free \in Nat /\ free = Capacity - Cardinality(InFlight)
  BY FS_CardinalityType DEF RunsInv, SlotsAdd, ProcessRun!ProcessRunAssumption
<1>2. ProcessRun!TypeOK
  <2>1. free \in 0..Capacity
    BY <1>1
  <2> QED BY <2>1 DEF RunsInv, Shapes, ProcessRun!TypeOK
<1>3. ProcessRun!LoadIsBounded
  <2> DEFINE Loading == {c \in Calls : "leader" \in alive[c] \/ ~ProcessRun!ThreadsEnded(c)}
  <2>1. Loading \subseteq InFlight
    <3> SUFFICES ASSUME NEW c \in Calls, c \notin InFlight
                 PROVE  "leader" \notin alive[c] /\ ProcessRun!ThreadsEnded(c)
      OBVIOUS
    <3>1. stage[c] \in {"new", "refused", "done"} /\ CallInv(c)
      BY DEF InFlight, RunsInv
    <3> QED BY <3>1 DEF CallInv, ProcessRun!ThreadsEnded
  <2> HIDE DEF Loading
  <2>2. Cardinality(Loading) <= Cardinality(InFlight) /\ IsFiniteSet(Loading)
    BY <1>1, <2>1, FS_Subset
  <2>3. Cardinality(Loading) \in Nat
    BY <2>2, FS_CardinalityType
  <2>4. Cardinality(Loading) <= Capacity
    BY <1>1, <2>2, <2>3
  <2>5. free = Capacity - Cardinality({c \in Calls : stage[c] \notin {"new", "refused", "done"}})
    BY <1>1, Zenon DEF InFlight
  <2>6. /\ ProcessRun!Cardinality(Loading) <= Capacity
        /\ free = Capacity - ProcessRun!Cardinality(
                      {c \in Calls : stage[c] \notin {"new", "refused", "done"}})
    BY <2>4, <2>5, SameCardinality, Zenon
  <2> QED BY <2>6, Zenon DEF ProcessRun!LoadIsBounded, Loading
<1>4. ProcessRun!ReturnedIsWhole
  BY DEF RunsInv, CallInv, ProcessRun!ReturnedIsWhole
<1>5. ProcessRun!NothingLeftBehind
  BY DEF RunsInv, CallInv, ProcessRun!NothingLeftBehind
<1> QED BY <1>2, <1>3, <1>4, <1>5 DEF ProcessRun!ProcessRunInv

\* Never more programs and readers than slots, whatever their callers were told; output is
\* returned only whole, and a caller that was told anything leaves nothing behind: for any
\* number of calls and slots.
THEOREM ProcessRunCorrect ==
    ProcessRun!ProcessRunAssumption => (ProcessRun!Spec => []ProcessRun!ProcessRunInv)
<1> SUFFICES ASSUME ProcessRun!ProcessRunAssumption
             PROVE  ProcessRun!Spec => []ProcessRun!ProcessRunInv
  OBVIOUS
<1>1. ProcessRun!Init => RunsInv
  BY RunsStart
<1>2. RunsInv /\ [ProcessRun!Next]_(ProcessRun!vars) => RunsInv'
  BY CallStep, RunsStay DEF ProcessRun!Next
<1>3. RunsInv => ProcessRun!ProcessRunInv
  BY RunsImply
<1> QED BY <1>1, <1>2, <1>3, PTL DEF ProcessRun!Spec
-----------------------------------------------------------------------------
(* Discovery. *)

Results == [scope : SUBSET Targets, found : SUBSET (Targets \X Ports)]
DiscoveryRuns ==
    [step : {"scan", "save", "publish", "report"}, scope : SUBSET Targets, left : SUBSET Targets,
     found : SUBSET (Targets \X Ports), complete : BOOLEAN, previous : Results \cup {Nothing}]

\* Observations of all of these targets and of no others.
Covers(found, targets) ==
    /\ \A t \in targets : \E p \in Ports : <<t, p>> \in found
    /\ \A o \in found : o[1] \in targets

Size(state) == IF state = Nothing THEN 0 ELSE Cardinality(state.found)

DiscoveryShapes ==
    /\ open \in [Targets -> SUBSET Ports] /\ scope \in SUBSET Targets
    /\ published \in Results \cup {Nothing} /\ history \subseteq Results
    /\ discovery \in {[step |-> "idle"]} \cup DiscoveryRuns
    /\ discoveries \in 0..MaxDiscoveries /\ changes \in 0..MaxChanges /\ told \in Int /\ lost \in BOOLEAN

\* What a run has so far, and what it compares it with.
RunIsTrue ==
    /\ discovery.step = "scan" =>
           /\ discovery.left \subseteq discovery.scope
           /\ \A o \in discovery.found : o[1] \in discovery.scope
           /\ discovery.complete => Covers(discovery.found, discovery.scope \ discovery.left)
    /\ discovery.step \in {"save", "publish", "report"} => Covers(discovery.found, discovery.scope)
    /\ discovery.step \in {"scan", "save", "publish"} => discovery.previous = published
    /\ discovery.step \in {"publish", "report"} => Discovery!Identity(discovery) \in history
    /\ discovery.step = "report" => published = Discovery!Identity(discovery)

\* What was reported adds up to the result that the next report starts from.
ToldIsTrue == ~lost => told = Size(IF discovery.step = "report" THEN discovery.previous ELSE published)

DiscoveryKnows ==
    /\ DiscoveryShapes /\ RunIsTrue /\ ToldIsTrue
    /\ Discovery!PreviousIsWhole
    /\ published # Nothing => Covers(published.found, published.scope)

LEMMA SameFinite == \A S : Discovery!IsFiniteSet(S) <=> IsFiniteSet(S)
BY DEF Discovery!IsFiniteSet, IsFiniteSet

LEMMA SameNumber == \A S : Discovery!Cardinality(S) = Cardinality(S)
BY DEF Discovery!Cardinality, Cardinality

\* Results are finite.
LEMMA FoundIsFinite ==
    ASSUME Discovery!DiscoveryAssumption, NEW found \in SUBSET (Targets \X Ports)
    PROVE  IsFiniteSet(found) /\ Cardinality(found) \in Nat
<1>1. Discovery!IsFiniteSet(Targets) /\ Discovery!IsFiniteSet(Ports)
  BY DEF Discovery!DiscoveryAssumption
<1>2. IsFiniteSet(Targets) /\ IsFiniteSet(Ports)
  BY <1>1, SameFinite, Zenon
<1>3. IsFiniteSet(Targets \X Ports)
  BY <1>2, FS_Product
<1> QED BY <1>3, FS_Subset, FS_CardinalityType

\* The differences between two results make up for their sizes.
LEMMA Differences ==
    ASSUME Discovery!DiscoveryAssumption, NEW old \in SUBSET (Targets \X Ports),
           NEW new \in SUBSET (Targets \X Ports)
    PROVE  Cardinality(new) = Cardinality(old) + Cardinality(new \ old) - Cardinality(old \ new)
<1>1. /\ IsFiniteSet(old) /\ IsFiniteSet(new) /\ Cardinality(old) \in Nat /\ Cardinality(new) \in Nat
      /\ Cardinality(old \cap new) \in Nat
  <2>1. old \cap new \in SUBSET (Targets \X Ports)
    OBVIOUS
  <2> QED BY <2>1, FoundIsFinite
<1>2. /\ Cardinality(new \ old) = Cardinality(new) - Cardinality(new \cap old)
      /\ Cardinality(old \ new) = Cardinality(old) - Cardinality(old \cap new)
  BY <1>1, FS_Difference
<1>3. new \cap old = old \cap new
  OBVIOUS
<1> DEFINE n == Cardinality(new)  o == Cardinality(old)  both == Cardinality(old \cap new)
<1>4. /\ n \in Nat /\ o \in Nat /\ both \in Nat
      /\ Cardinality(new \ old) = n - both /\ Cardinality(old \ new) = o - both
  BY <1>1, <1>2, <1>3, Zenon
<1>5. n = o + (n - both) - (o - both)
  <2> HIDE DEF n, o, both
  <2> QED BY <1>4
<1> QED BY <1>4, <1>5, Zenon

LEMMA DiscoveryStart == Discovery!DiscoveryAssumption /\ Discovery!Init => DiscoveryKnows
<1> SUFFICES ASSUME Discovery!DiscoveryAssumption, Discovery!Init PROVE DiscoveryKnows
  OBVIOUS
<1> USE DEF Discovery!Init, Discovery!Idle
<1>1. DiscoveryShapes
  <2>1. 0 \in 0..MaxDiscoveries /\ 0 \in 0..MaxChanges /\ 0 \in Int
    BY DEF Discovery!DiscoveryAssumption
  <2> QED BY <2>1 DEF DiscoveryShapes
<1>2. RunIsTrue
  BY DEF RunIsTrue
<1>3. ToldIsTrue
  BY DEF ToldIsTrue, Size
<1> QED BY <1>1, <1>2, <1>3 DEF DiscoveryKnows, Discovery!PreviousIsWhole

\* A step of the world or of the configuration.
LEMMA DiscoveryWorld ==
    ASSUME DiscoveryKnows, Discovery!DiscoveryAssumption,
           \/ \E t \in Targets, ports \in SUBSET Ports : Discovery!Changes(t, ports)
           \/ \E targets \in SUBSET Targets : Discovery!Configure(targets)
    PROVE  DiscoveryKnows'
<1>1. /\ published' = published /\ history' = history /\ discovery' = discovery /\ discoveries' = discoveries /\ told' = told
      /\ lost' = lost /\ changes < MaxChanges /\ changes' = changes + 1
      /\ \/ scope' = scope /\ \E t \in Targets, ports \in SUBSET Ports : open' = [open EXCEPT ![t] = ports]
         \/ open' = open /\ scope' \in SUBSET Targets
  BY DEF Discovery!Changes, Discovery!Configure
<1>2. changes' \in 0..MaxChanges
  BY <1>1 DEF DiscoveryKnows, DiscoveryShapes, Discovery!DiscoveryAssumption
<1>3. open' \in [Targets -> SUBSET Ports] /\ scope' \in SUBSET Targets
  BY <1>1 DEF DiscoveryKnows, DiscoveryShapes
<1>4. DiscoveryShapes'
  BY <1>1, <1>2, <1>3 DEF DiscoveryKnows, DiscoveryShapes
<1> QED BY <1>1, <1>4 DEF DiscoveryKnows, RunIsTrue, ToldIsTrue, Size, Covers,
                          Discovery!PreviousIsWhole, Discovery!Identity

\* A run ends before its report.
LEMMA DiscoveryStops ==
    ASSUME DiscoveryKnows, discovery' = [step |-> "idle"], published' = published, history' = history,
           open' = open, scope' = scope, discoveries' = discoveries, changes' = changes,
           lost' \in BOOLEAN, told' \in Int,
           ~lost' => told' = Size(published)
    PROVE  DiscoveryKnows'
<1>1. DiscoveryShapes'
  BY DEF DiscoveryKnows, DiscoveryShapes
<1>2. RunIsTrue'
  BY DEF RunIsTrue
<1>3. ToldIsTrue'
  BY DEF ToldIsTrue, Size
<1> QED BY <1>1, <1>2, <1>3 DEF DiscoveryKnows, Covers, Discovery!PreviousIsWhole, Discovery!Identity

LEMMA DiscoveryRunStarts ==
    ASSUME DiscoveryKnows, Discovery!DiscoveryAssumption, Discovery!Start
    PROVE  DiscoveryKnows'
<1>1. /\ discovery.step = "idle" /\ discoveries < MaxDiscoveries /\ discoveries' = discoveries + 1
      /\ discovery' = [step |-> "scan", scope |-> scope, left |-> scope, found |-> {}, complete |-> TRUE,
                 previous |-> published]
      /\ open' = open /\ scope' = scope /\ published' = published /\ history' = history
      /\ changes' = changes /\ told' = told /\ lost' = lost
  BY DEF Discovery!Start, Discovery!Idle
<1>2. DiscoveryShapes'
  <2>1. discoveries' \in 0..MaxDiscoveries
    BY <1>1 DEF DiscoveryKnows, DiscoveryShapes, Discovery!DiscoveryAssumption
  <2>2. discovery' \in DiscoveryRuns
    BY <1>1 DEF DiscoveryKnows, DiscoveryShapes, DiscoveryRuns
  <2> QED BY <1>1, <2>1, <2>2 DEF DiscoveryKnows, DiscoveryShapes
<1>3. RunIsTrue'
  BY <1>1 DEF RunIsTrue, Covers
<1>4. ToldIsTrue'
  BY <1>1 DEF DiscoveryKnows, ToldIsTrue, Size
<1> QED BY <1>1, <1>2, <1>3, <1>4
        DEF DiscoveryKnows, Covers, Discovery!PreviousIsWhole, Discovery!Identity

LEMMA DiscoveryScans ==
    ASSUME DiscoveryKnows, Discovery!DiscoveryAssumption, NEW t \in Targets, Discovery!Batch(t)
    PROVE  DiscoveryKnows'
<1>1. /\ discovery.step = "scan" /\ t \in discovery.left
      /\ discovery' = [discovery EXCEPT !.left = discovery.left \ {t}, !.found = discovery.found \cup ({t} \X open[t]),
                            !.complete = discovery.complete /\ ({t} \X open[t]) # {}]
      /\ open' = open /\ scope' = scope /\ published' = published /\ history' = history
      /\ discoveries' = discoveries /\ changes' = changes /\ told' = told /\ lost' = lost
  BY DEF Discovery!Batch, Discovery!Complete, Discovery!OpenAt
<1>2. discovery \in DiscoveryRuns /\ open[t] \in SUBSET Ports
  BY <1>1 DEF DiscoveryKnows, DiscoveryShapes
<1>3. /\ discovery'.step = "scan" /\ discovery'.scope = discovery.scope /\ discovery'.left = discovery.left \ {t}
      /\ discovery'.found = discovery.found \cup ({t} \X open[t])
      /\ discovery'.complete = (discovery.complete /\ ({t} \X open[t]) # {}) /\ discovery'.previous = discovery.previous
  BY <1>1, <1>2 DEF DiscoveryRuns
<1>4. discovery' \in DiscoveryRuns
  <2>1. ({t} \X open[t]) \in SUBSET (Targets \X Ports)
    BY <1>2
  <2> QED BY <1>1, <1>2, <2>1 DEF DiscoveryRuns
<1>5. RunIsTrue'
  <2>1. /\ discovery.left \subseteq discovery.scope /\ discovery.previous = published
        /\ \A o \in discovery.found : o[1] \in discovery.scope
        /\ discovery.complete => Covers(discovery.found, discovery.scope \ discovery.left)
    BY <1>1 DEF DiscoveryKnows, RunIsTrue
  <2>2. \A o \in discovery'.found : o[1] \in discovery'.scope
    <3>1. \A o \in {t} \X open[t] : o[1] = t
      OBVIOUS
    <3> QED BY <1>1, <1>3, <2>1, <3>1
  <2>3. discovery'.complete => Covers(discovery'.found, discovery'.scope \ discovery'.left)
    <3> SUFFICES ASSUME discovery.complete, ({t} \X open[t]) # {}
                 PROVE  Covers(discovery'.found, discovery'.scope \ discovery'.left)
      BY <1>3
    <3>1. Covers(discovery.found, discovery.scope \ discovery.left)
      BY <2>1
    <3>2. discovery'.scope \ discovery'.left = (discovery.scope \ discovery.left) \cup {t}
      BY <1>1, <1>3, <2>1
    <3>3. PICK p \in open[t] : <<t, p>> \in {t} \X open[t]
      OBVIOUS
    <3>4. \A u \in (discovery.scope \ discovery.left) \cup {t} : \E p1 \in Ports : <<u, p1>> \in discovery'.found
      BY <1>2, <1>3, <3>1, <3>3 DEF Covers
    <3>5. \A o \in discovery'.found : o[1] \in (discovery.scope \ discovery.left) \cup {t}
      <4>1. \A o \in {t} \X open[t] : o[1] = t
        OBVIOUS
      <4> QED BY <1>3, <3>1, <4>1 DEF Covers
    <3> QED BY <3>2, <3>4, <3>5 DEF Covers
  <2> QED BY <1>1, <1>3, <2>1, <2>2, <2>3 DEF RunIsTrue
<1>6. ToldIsTrue'
  BY <1>1, <1>3 DEF DiscoveryKnows, ToldIsTrue, Size
<1>7. DiscoveryShapes'
  BY <1>1, <1>4 DEF DiscoveryKnows, DiscoveryShapes
<1> QED BY <1>1, <1>5, <1>6, <1>7
        DEF DiscoveryKnows, Covers, Discovery!PreviousIsWhole, Discovery!Identity

\* A run without a result, or one that is cut off.
LEMMA DiscoveryFails ==
    ASSUME DiscoveryKnows,
           \/ Discovery!Fail \/ Discovery!Crash
           \/ Discovery!Finish /\ ~discovery.complete
    PROVE  DiscoveryKnows'
<1>1. /\ discovery' = [step |-> "idle"] /\ published' = published /\ history' = history
      /\ open' = open /\ scope' = scope /\ discoveries' = discoveries /\ changes' = changes /\ told' = told
      /\ lost' = lost \/ lost' = (lost \/ discovery.step = "report")
      /\ discovery.step = "report" => lost' = (lost \/ discovery.step = "report")
  BY DEF Discovery!Fail, Discovery!Crash, Discovery!Finish, Discovery!Idle
<1>2. lost \in BOOLEAN /\ told \in Int
  BY DEF DiscoveryKnows, DiscoveryShapes
<1>3. lost' \in BOOLEAN /\ told' \in Int
  BY <1>1, <1>2
<1>4. ~lost' => told' = Size(published)
  <2> SUFFICES ASSUME ~lost' PROVE told = Size(published)
    BY <1>1
  <2>1. ~lost /\ discovery.step # "report"
    BY <1>1, <1>2
  <2> QED BY <2>1 DEF DiscoveryKnows, ToldIsTrue
<1> QED BY <1>1, <1>3, <1>4, DiscoveryStops

\* The complete result: its file, its publication.
LEMMA DiscoveryPublishes ==
    ASSUME DiscoveryKnows,
           \/ Discovery!Finish /\ discovery.complete
           \/ Discovery!Save \/ Discovery!Publish
    PROVE  DiscoveryKnows'
<1>1. discovery.step \in {"scan", "save", "publish"} /\ discovery \in DiscoveryRuns
      /\ discovery.previous = published
  BY DEF DiscoveryKnows, DiscoveryShapes, RunIsTrue, Discovery!Finish, Discovery!Save,
         Discovery!Publish
<1>2. /\ open' = open /\ scope' = scope /\ discoveries' = discoveries /\ changes' = changes /\ told' = told
      /\ lost' = lost
      /\ \E next \in {"save", "publish", "report"} : discovery' = [discovery EXCEPT !.step = next]
      /\ \/ /\ discovery.step = "scan" /\ discovery'.step = "save" /\ discovery.left = {} /\ discovery.complete
            /\ published' = published /\ history' = history
         \/ /\ discovery.step = "save" /\ discovery'.step = "publish" /\ published' = published
            /\ history' = history \cup {Discovery!Identity(discovery)}
         \/ /\ discovery.step = "publish" /\ discovery'.step = "report" /\ history' = history
            /\ published' = Discovery!Identity(discovery)
  BY <1>1 DEF Discovery!Finish, Discovery!Save, Discovery!Publish, Discovery!Order, DiscoveryRuns
<1>3. /\ discovery' \in DiscoveryRuns /\ discovery'.scope = discovery.scope /\ discovery'.found = discovery.found
      /\ discovery'.previous = discovery.previous
  BY <1>1, <1>2 DEF DiscoveryRuns
<1>4. Discovery!Identity(discovery)' = Discovery!Identity(discovery) /\ Discovery!Identity(discovery) \in Results
      /\ Discovery!Identity(discovery).found = discovery.found /\ Discovery!Identity(discovery).scope = discovery.scope
  BY <1>1, <1>3 DEF Discovery!Identity, DiscoveryRuns, Results
<1>5. Covers(discovery.found, discovery.scope)
  <2>1. CASE discovery.step = "scan"
    <3>1. discovery.scope \ discovery.left = discovery.scope
      BY <1>2, <2>1
    <3> QED BY <1>2, <2>1, <3>1 DEF DiscoveryKnows, RunIsTrue
  <2>2. CASE discovery.step # "scan"
    BY <1>1, <2>2 DEF DiscoveryKnows, RunIsTrue
  <2> QED BY <2>1, <2>2
<1>6. Covers(discovery.found, discovery.scope)'
  BY <1>3, <1>5 DEF Covers
<1>7. DiscoveryShapes'
  BY <1>2, <1>3, <1>4 DEF DiscoveryKnows, DiscoveryShapes
<1>8. RunIsTrue'
  BY <1>1, <1>2, <1>3, <1>4, <1>6 DEF DiscoveryKnows, RunIsTrue
<1>9. ToldIsTrue'
  BY <1>1, <1>2, <1>3 DEF DiscoveryKnows, ToldIsTrue, Size
<1>10. Discovery!PreviousIsWhole'
  <2>1. CASE discovery.step = "publish"
    <3>1. Discovery!Identity(discovery) \in history /\ history' = history
          /\ published' = Discovery!Identity(discovery)
      BY <1>2, <2>1 DEF DiscoveryKnows, RunIsTrue
    <3>2. Discovery!Identity(Discovery!Identity(discovery)) = Discovery!Identity(discovery)
      BY DEF Discovery!Identity
    <3> QED BY <3>1, <3>2 DEF Discovery!PreviousIsWhole, Discovery!Identity
  <2>2. CASE discovery.step # "publish"
    BY <1>2, <2>2 DEF DiscoveryKnows, Discovery!PreviousIsWhole, Discovery!Identity
  <2> QED BY <2>1, <2>2
<1>11. (published # Nothing => Covers(published.found, published.scope))'
  <2>1. CASE discovery.step = "publish"
    BY <1>2, <1>4, <1>5, <2>1 DEF Covers
  <2>2. CASE discovery.step # "publish"
    BY <1>2, <2>2 DEF DiscoveryKnows, Covers
  <2> QED BY <2>1, <2>2
<1> QED BY <1>7, <1>8, <1>9, <1>10, <1>11 DEF DiscoveryKnows

LEMMA DiscoveryReports ==
    ASSUME DiscoveryKnows, Discovery!DiscoveryAssumption, Discovery!Report
    PROVE  DiscoveryKnows'
<1>1. /\ discovery.step = "report" /\ discovery' = [step |-> "idle"]
      /\ told' = told + Discovery!Added - Discovery!NotObserved
      /\ open' = open /\ scope' = scope /\ published' = published /\ history' = history
      /\ discoveries' = discoveries /\ changes' = changes /\ lost' = lost
  BY DEF Discovery!Report, Discovery!Idle
<1>2. /\ discovery \in DiscoveryRuns /\ published = Discovery!Identity(discovery) /\ told \in Int
      /\ lost \in BOOLEAN /\ published \in Results \cup {Nothing}
  BY <1>1 DEF DiscoveryKnows, DiscoveryShapes, RunIsTrue
<1>3. discovery.previous \in Results \cup {Nothing} /\ discovery.found \in SUBSET (Targets \X Ports)
  BY <1>2 DEF DiscoveryRuns
<1> DEFINE before == IF discovery.previous # Nothing THEN discovery.previous.found ELSE {}
           added == Cardinality(discovery.found \ before)
           gone == Cardinality(before \ discovery.found)
<1>4. before \in SUBSET (Targets \X Ports)
  BY <1>3 DEF Results
<1>5. Discovery!Added = added /\ Discovery!NotObserved = gone
  <2>1. Discovery!Added = Discovery!Cardinality(discovery.found \ before)
        /\ Discovery!NotObserved = Discovery!Cardinality(before \ discovery.found)
    BY DEF Discovery!Added, Discovery!NotObserved, Discovery!Before
  <2> QED BY <2>1, SameNumber, Zenon
<1>6. Cardinality(discovery.found) = Cardinality(before) + added - gone
  BY <1>3, <1>4, Differences
<1>7. /\ Cardinality(discovery.found) \in Nat /\ Cardinality(before) \in Nat /\ added \in Nat /\ gone \in Nat
  <2>1. discovery.found \ before \in SUBSET (Targets \X Ports)
        /\ before \ discovery.found \in SUBSET (Targets \X Ports)
    BY <1>3, <1>4
  <2> QED BY <1>3, <1>4, <2>1, FoundIsFinite
<1>8. Size(discovery.previous) = Cardinality(before)
  <2>1. CASE discovery.previous = Nothing
    BY <2>1, FS_EmptySet DEF Size
  <2>2. CASE discovery.previous # Nothing
    BY <2>2 DEF Size
  <2> QED BY <2>1, <2>2
<1>9. Size(published) = Cardinality(discovery.found)
  <2>1. published # Nothing
    <3>1. Discovery!Identity(discovery) \in Results
      BY <1>2 DEF Discovery!Identity, DiscoveryRuns, Results
    <3> QED BY <1>2, <3>1 DEF Discovery!DiscoveryAssumption, Results
  <2>2. published.found = discovery.found
    BY <1>2 DEF Discovery!Identity
  <2> QED BY <2>1, <2>2 DEF Size
<1>10. ~lost => told = Cardinality(before)
  BY <1>1, <1>8 DEF DiscoveryKnows, ToldIsTrue
<1> HIDE DEF before, added, gone
<1>11. told' = told + added - gone
  BY <1>1, <1>5
<1>12. told' \in Int
  BY <1>2, <1>7, <1>11
<1>13. ~lost => told' = Cardinality(discovery.found)
  <2> SUFFICES ASSUME told = Cardinality(before) PROVE told' = Cardinality(discovery.found)
    BY <1>10
  <2> QED BY <1>6, <1>11
<1>14. ~lost' => told' = Size(published)
  BY <1>1, <1>9, <1>13
<1>15. lost' \in BOOLEAN
  BY <1>1, <1>2
<1> QED BY <1>1, <1>12, <1>14, <1>15, DiscoveryStops

LEMMA DiscoveryStays ==
    DiscoveryKnows /\ UNCHANGED Discovery!vars => DiscoveryKnows'
BY DEF Discovery!vars, DiscoveryKnows, DiscoveryShapes, RunIsTrue, ToldIsTrue, Size, Covers,
       Discovery!PreviousIsWhole, Discovery!Identity

LEMMA DiscoveryImplies ==
    Discovery!DiscoveryAssumption /\ DiscoveryKnows => Discovery!DiscoveryInv
<1> SUFFICES ASSUME Discovery!DiscoveryAssumption, DiscoveryKnows PROVE Discovery!DiscoveryInv
  OBVIOUS
<1>1. Discovery!TypeOK
  <2>1. discovery.step \in {"idle", "scan", "save", "publish", "report"}
    BY DEF DiscoveryKnows, DiscoveryShapes, DiscoveryRuns
  <2> QED BY <2>1 DEF DiscoveryKnows, DiscoveryShapes, Results, Discovery!TypeOK,
                      Discovery!Observations
<1>2. Discovery!NeverRefused
  BY DEF DiscoveryKnows, Discovery!NeverRefused
<1>3. Discovery!ResultIsComplete
  BY DEF DiscoveryKnows, Covers, Discovery!ResultIsComplete
<1>4. Discovery!ReportsAddUp
  <2> SUFFICES ASSUME discovery.step = "idle", ~lost
               PROVE  told = IF published = Nothing THEN 0 ELSE Discovery!Cardinality(published.found)
    BY DEF Discovery!ReportsAddUp, Discovery!Idle
  <2>1. told = Size(published)
    BY DEF DiscoveryKnows, ToldIsTrue
  <2> QED BY <2>1, SameNumber, Zenon DEF Size
<1> QED BY <1>1, <1>2, <1>3, <1>4 DEF Discovery!DiscoveryInv

\* Wherever a discovery run stops, the last result is whole and no later run is refused; a
\* published result has every target, and the reported differences add up to it: for any
\* finite set of targets and ports, and any number of runs and changes.
THEOREM DiscoveryCorrect ==
    Discovery!DiscoveryAssumption => (Discovery!Spec => []Discovery!DiscoveryInv)
<1> SUFFICES ASSUME Discovery!DiscoveryAssumption
             PROVE  Discovery!Spec => []Discovery!DiscoveryInv
  OBVIOUS
<1>1. Discovery!Init => DiscoveryKnows
  BY DiscoveryStart
<1>2. DiscoveryKnows /\ [Discovery!Next]_(Discovery!vars) => DiscoveryKnows'
  <2> SUFFICES ASSUME DiscoveryKnows, Discovery!Next PROVE DiscoveryKnows'
    BY DiscoveryStays
  <2>1. CASE Discovery!Finish
    BY <2>1, DiscoveryFails, DiscoveryPublishes
  <2> QED BY <2>1, DiscoveryWorld, DiscoveryRunStarts, DiscoveryScans, DiscoveryFails,
             DiscoveryPublishes, DiscoveryReports DEF Discovery!Next
<1>3. DiscoveryKnows => Discovery!DiscoveryInv
  BY DiscoveryImplies
<1> QED BY <1>1, <1>2, <1>3, PTL DEF Discovery!Spec
-----------------------------------------------------------------------------
(* Collections. *)

Mapped(f) == f = [s \in Origins |-> f[s]]

CollectShapes ==
    /\ clock \in 0..MaxClock /\ listed \in [Images -> SUBSET Artifacts]
    /\ observed \in [at : 0..MaxClock, running : SUBSET Images]
    /\ Mapped(staged) /\ Mapped(evidence) /\ Mapped(record) /\ Mapped(accepted)

\* The artifact of an image is its own, and the only one its listing began with.
Acquired(found, i) ==
    /\ Subject[found[i].artifact] = i
    /\ Pin[i] = Nothing => found[i].before \subseteq {found[i].artifact}

\* The collection that runs.
JobShape ==
    /\ collection = [step |-> collection.step, source |-> collection.source, todo |-> collection.todo, obs |-> collection.obs,
              page |-> collection.page, seen |-> collection.seen, before |-> collection.before, found |-> collection.found,
              partial |-> collection.partial, made |-> collection.made]
    /\ collection.step \in {"probe", "list", "save", "publish"} /\ collection.source \in Origins
    /\ collection.todo \subseteq Images /\ collection.page \in Nat \ {0} /\ collection.seen \subseteq Artifacts
    /\ collection.found = [i \in DOMAIN collection.found |-> collection.found[i]] /\ DOMAIN collection.found \subseteq collection.todo
    /\ collection.step = "list" => collection.source # "ssh"
    /\ collection.step = "probe" => collection.source = "ssh"

\* What evidence says, and what a generation made from it.
IsOf(of, made) ==
    /\ \A i \in DOMAIN of.found : Acquired(of.found, i)
    /\ DOMAIN of.found = DOMAIN made.rows
    /\ of.obs # Nothing => of.obs.at = made.observed /\ of.obs.running = DOMAIN of.found

JobIsTrue ==
    /\ \A i \in DOMAIN collection.found : Acquired(collection.found, i)
    /\ collection.step = "list" =>
           /\ collection.obs # Nothing => collection.todo = collection.obs.running
           /\ collection.page > 1 /\ collection.todo # DOMAIN collection.found =>
                  /\ collection.before \subseteq listed[Collect!Current]
                  /\ \A x \in collection.before : PageOf[x] < collection.page => x \in collection.seen
    /\ collection.step \in {"save", "publish"} /\ collection.source # "ssh" =>
           IsOf([found |-> collection.found, obs |-> collection.obs], collection.made)
    /\ collection.step = "publish" => \E e \in evidence[collection.source] : e.made = collection.made

EvidenceKnown ==
    \A s \in Origins :
        /\ \A e \in evidence[s] : e = [made |-> e.made, of |-> e.of]
        /\ \A e, f \in evidence[s] : e.made = f.made => e = f
        /\ s # "ssh" => \A e \in evidence[s] : IsOf(e.of, e.made)
        /\ staged[s] # Nothing => \E e \in evidence[s] : e.made = staged[s]

RecordsKnown ==
    \A s \in Origins : record[s] # Nothing =>
        (record[s].status = "success" => record[s].made \in accepted[s])

CollectKnows ==
    /\ CollectShapes /\ EvidenceKnown /\ RecordsKnown
    /\ collection = Collect!Idle \/ (JobShape /\ JobIsTrue)

LEMMA CollectStart == Collect!CollectAssumption /\ Collect!Init => CollectKnows
<1> SUFFICES ASSUME Collect!CollectAssumption, Collect!Init PROVE CollectKnows
  OBVIOUS
<1> USE DEF Collect!Init
<1>1. CollectShapes
  <2>1. 0 \in 0..MaxClock
    BY DEF Collect!CollectAssumption
  <2>2. listed \in [Images -> SUBSET Artifacts]
    OBVIOUS
  <2>3. observed \in [at : 0..MaxClock, running : SUBSET Images]
    BY <2>1
  <2>4. Mapped(staged) /\ Mapped(evidence) /\ Mapped(record) /\ Mapped(accepted)
    BY DEF Mapped
  <2> QED BY <2>1, <2>2, <2>3, <2>4 DEF CollectShapes
<1>2. EvidenceKnown /\ RecordsKnown
  BY DEF EvidenceKnown, RecordsKnown
<1> QED BY <1>1, <1>2 DEF CollectKnows

\* The image that is looked for is one that is left.
LEMMA CurrentIsLeft ==
    ASSUME JobShape, Collect!Left # {}
    PROVE  Collect!Current \in collection.todo \ DOMAIN collection.found /\ Collect!Current \in Images
<1>1. Collect!Left = collection.todo \ DOMAIN collection.found
  BY DEF Collect!Left
<1>2. Collect!Current \in Collect!Left
  BY Zenon DEF Collect!Current
<1> QED BY <1>1, <1>2 DEF JobShape

\* The world moves on while a collection runs: listings only grow.
LEMMA CollectWorld ==
    ASSUME CollectKnows, Collect!CollectAssumption,
           \/ Collect!Tick \/ \E i \in Images, a \in Artifacts : Collect!Push(i, a)
           \/ \E images \in SUBSET Images : Collect!Observe(images)
    PROVE  CollectKnows'
<1>1. /\ staged' = staged /\ evidence' = evidence /\ record' = record /\ collection' = collection
      /\ accepted' = accepted
  BY DEF Collect!Tick, Collect!Push, Collect!Observe
<1>2. /\ clock' \in 0..MaxClock /\ observed' \in [at : 0..MaxClock, running : SUBSET Images]
      /\ listed' \in [Images -> SUBSET Artifacts]
      /\ \A i \in Images : listed[i] \subseteq listed'[i]
  <2>0. CollectShapes /\ MaxClock \in Nat
    BY DEF CollectKnows, Collect!CollectAssumption
  <2>1. CASE Collect!Tick
    BY <2>0, <2>1 DEF CollectShapes, Collect!Tick
  <2>2. CASE \E i \in Images, a \in Artifacts : Collect!Push(i, a)
    <3>1. PICK i \in Images, a \in Artifacts : Collect!Push(i, a)
      BY <2>2
    <3>2. listed' = [listed EXCEPT ![i] = listed[i] \cup {a}] /\ clock' = clock /\ observed' = observed
      BY <3>1 DEF Collect!Push
    <3> QED BY <2>0, <3>2 DEF CollectShapes
  <2>3. CASE \E images \in SUBSET Images : Collect!Observe(images)
    BY <2>0, <2>3 DEF CollectShapes, Collect!Observe
  <2> QED BY <2>1, <2>2, <2>3
<1>3. CollectShapes'
  BY <1>1, <1>2 DEF CollectKnows, CollectShapes, Mapped
<1>4. EvidenceKnown' /\ RecordsKnown'
  BY <1>1 DEF CollectKnows, EvidenceKnown, RecordsKnown, IsOf, Acquired
<1>5. ASSUME JobShape, JobIsTrue PROVE JobShape' /\ JobIsTrue'
  <2>1. JobShape'
    BY <1>1, <1>5 DEF JobShape
  <2>2. Collect!Current' = Collect!Current
    BY <1>1 DEF Collect!Current, Collect!Left
  <2>3. ASSUME collection.step = "list", collection.page > 1, collection.todo # DOMAIN collection.found
        PROVE  collection.before \subseteq listed'[Collect!Current]
    <3>1. Collect!Left # {}
      BY <1>5, <2>3 DEF JobShape, Collect!Left
    <3> QED BY <1>2, <1>5, <2>3, <3>1, CurrentIsLeft DEF JobIsTrue
  <2>4. JobIsTrue'
    BY <1>1, <1>5, <2>2, <2>3 DEF JobIsTrue, IsOf, Acquired
  <2> QED BY <2>1, <2>4
<1>6. collection = Collect!Idle => collection' = Collect!Idle
  BY <1>1
<1> QED BY <1>3, <1>4, <1>5, <1>6 DEF CollectKnows, Collect!Idle

LEMMA CollectBegins ==
    ASSUME CollectKnows, Collect!CollectAssumption, NEW source \in Origins, Collect!Start(source)
    PROVE  CollectKnows'
<1>1. /\ clock' = clock /\ listed' = listed /\ observed' = observed /\ staged' = staged
      /\ evidence' = evidence /\ record' = record /\ accepted' = accepted
  BY DEF Collect!Start
<1>2. PICK images \in SUBSET Images, obs \in {observed, Nothing} :
          /\ collection' = [step |-> IF source = "ssh" THEN "probe" ELSE "list", source |-> source,
                     todo |-> images, obs |-> obs, page |-> 1, seen |-> {}, before |-> Nothing,
                     found |-> [i \in {} |-> Nothing], partial |-> FALSE, made |-> Nothing]
          /\ source # "ssh" /\ obs # Nothing => images = obs.running
  <2>1. source \in {"kubernetes", "registry", "ssh"} /\ Wanted \in Images
    BY DEF Collect!CollectAssumption
  <2>2. observed.running \subseteq Images
    BY DEF CollectKnows, CollectShapes
  <2>3. CASE source = "kubernetes"
    <3>1. Collect!Begins(source, observed.running, observed)
      BY <2>3 DEF Collect!Start
    <3> QED BY <2>2, <3>1 DEF Collect!Begins
  <2>4. CASE source = "registry"
    <3>1. Collect!Begins(source, {Wanted}, Nothing)
      BY <2>4 DEF Collect!Start
    <3> QED BY <2>1, <3>1 DEF Collect!Begins
  <2>5. CASE source = "ssh"
    <3>1. Collect!Begins(source, {}, Nothing)
      BY <2>5 DEF Collect!Start
    <3>2. collection' = [step |-> IF source = "ssh" THEN "probe" ELSE "list", source |-> source,
                  todo |-> {}, obs |-> Nothing, page |-> 1, seen |-> {}, before |-> Nothing,
                  found |-> [i \in {} |-> Nothing], partial |-> FALSE, made |-> Nothing]
      BY <3>1 DEF Collect!Begins
    <3> QED BY <2>5, <3>2
  <2> QED BY <2>1, <2>3, <2>4, <2>5
<1>3. JobShape'
  BY <1>2 DEF JobShape
<1>4. JobIsTrue'
  BY <1>2 DEF JobIsTrue
<1>5. CollectShapes' /\ EvidenceKnown' /\ RecordsKnown'
  BY <1>1 DEF CollectKnows, CollectShapes, EvidenceKnown, RecordsKnown, IsOf, Acquired, Mapped
<1> QED BY <1>3, <1>4, <1>5 DEF CollectKnows

LEMMA CollectStops ==
    ASSUME CollectKnows, Collect!Fail \/ Collect!Crash
    PROVE  CollectKnows'
<1>1. /\ collection' = Collect!Idle' /\ clock' = clock /\ listed' = listed /\ observed' = observed
      /\ staged' = staged /\ evidence' = evidence /\ accepted' = accepted
      /\ \/ record' = record
         \/ record' = [record EXCEPT ![collection.source] = [status |-> "failed", made |-> Nothing]]
  BY DEF Collect!Fail, Collect!Crash, Collect!Ended, Collect!Idle
<1>2. Mapped(record)' /\ RecordsKnown'
  BY <1>1 DEF CollectKnows, CollectShapes, RecordsKnown, Mapped
<1>3. CollectShapes' /\ EvidenceKnown'
  BY <1>1, <1>2 DEF CollectKnows, CollectShapes, EvidenceKnown, IsOf, Acquired, Mapped
<1> QED BY <1>1, <1>2, <1>3 DEF CollectKnows

\* A step of the collection that only changes the collection.
LEMMA CollectMoves ==
    ASSUME CollectKnows, JobShape', JobIsTrue',
           UNCHANGED <<clock, listed, observed, staged, evidence, record, accepted>>
    PROVE  CollectKnows'
BY DEF CollectKnows, CollectShapes, EvidenceKnown, RecordsKnown, IsOf, Acquired, Mapped

LEMMA CollectLists ==
    ASSUME CollectKnows, Collect!CollectAssumption, Collect!List
    PROVE  CollectKnows'
<1>1. /\ collection.step = "list" /\ Collect!Left # {} /\ collection.page <= Pages
      /\ UNCHANGED <<clock, listed, observed, staged, evidence, record, accepted>>
  BY DEF Collect!List
<1>2. JobShape /\ JobIsTrue
  BY <1>1 DEF CollectKnows, Collect!Idle
<1> DEFINE i == Collect!Current
<1>3. i \in collection.todo \ DOMAIN collection.found /\ i \in Images
  BY <1>1, <1>2, CurrentIsLeft
<1>4. collection.page \in Nat \ {0} /\ Pages \in Nat /\ listed[i] \subseteq Artifacts
  BY <1>2, <1>3 DEF JobShape, CollectKnows, CollectShapes, Collect!CollectAssumption
<1>5. collection' = [collection EXCEPT !.page = collection.page + 1,
                  !.before = IF collection.page = 1 THEN listed[i] ELSE collection.before,
                  !.seen = collection.seen \cup {a \in listed[i] : PageOf[a] = collection.page}]
  BY DEF Collect!List
<1> HIDE DEF i
<1>6. /\ collection'.step = collection.step /\ collection'.source = collection.source /\ collection'.todo = collection.todo
      /\ collection'.obs = collection.obs /\ collection'.page = collection.page + 1 /\ collection'.found = collection.found
      /\ collection'.before = IF collection.page = 1 THEN listed[i] ELSE collection.before
      /\ collection'.seen = collection.seen \cup {a \in listed[i] : PageOf[a] = collection.page}
      /\ collection'.partial = collection.partial /\ collection'.made = collection.made
      /\ collection' = [step |-> collection'.step, source |-> collection'.source, todo |-> collection'.todo, obs |-> collection'.obs,
                 page |-> collection'.page, seen |-> collection'.seen, before |-> collection'.before,
                 found |-> collection'.found, partial |-> collection'.partial, made |-> collection'.made]
  BY <1>2, <1>5 DEF JobShape
<1>7. JobShape'
  BY <1>2, <1>4, <1>6 DEF JobShape
<1>8. Collect!Current' = i
  BY <1>6 DEF Collect!Current, Collect!Left, i
<1>9. JobIsTrue'
  <2>1. collection'.before \subseteq listed[i]
    BY <1>1, <1>2, <1>3, <1>4, <1>6 DEF JobIsTrue, i
  <2>2. ASSUME NEW x \in collection'.before, PageOf[x] < collection.page + 1 PROVE x \in collection'.seen
    <3>1. x \in listed[i] /\ PageOf[x] \in 1..Pages
      BY <1>4, <2>1 DEF Collect!CollectAssumption
    <3>2. CASE PageOf[x] = collection.page
      BY <1>6, <3>1, <3>2
    <3>3. CASE PageOf[x] # collection.page
      <4>1. PageOf[x] < collection.page /\ collection.page # 1 /\ collection.page > 1
        BY <1>4, <2>2, <3>1, <3>3
      <4>2. collection'.before = collection.before
        BY <1>6, <4>1
      <4> QED BY <1>1, <1>2, <1>3, <1>6, <2>2, <4>1, <4>2 DEF JobIsTrue
    <3> QED BY <3>2, <3>3
  <2> QED BY <1>1, <1>2, <1>6, <1>8, <2>1, <2>2 DEF JobIsTrue, IsOf, Acquired
<1> QED BY <1>1, <1>7, <1>9, CollectMoves

LEMMA SameCount == \A S : Collect!Cardinality(S) = Cardinality(S)
BY DEF Collect!Cardinality, Cardinality

LEMMA SameFiniteness == \A S : Collect!IsFiniteSet(S) <=> IsFiniteSet(S)
BY DEF Collect!IsFiniteSet, IsFiniteSet

\* The single candidate is all the listing had when it began.
LEMMA CollectAcquires ==
    ASSUME CollectKnows, Collect!CollectAssumption, Collect!Acquire
    PROVE  CollectKnows'
<1>1. /\ collection.step = "list" /\ Collect!Left # {} /\ collection.page > Pages
      /\ Collect!Single(Collect!Candidates)
      /\ UNCHANGED <<clock, listed, observed, staged, evidence, record, accepted>>
  BY DEF Collect!Acquire
<1>2. JobShape /\ JobIsTrue
  BY <1>1 DEF CollectKnows, Collect!Idle
<1> DEFINE c == Collect!Current
<1>3. c \in collection.todo /\ c \notin DOMAIN collection.found /\ c \in Images
  BY <1>1, <1>2, CurrentIsLeft
<1>4. PICK a \in Collect!Candidates, skipped \in BOOLEAN :
          /\ Subject[a] = c
          /\ collection' = [collection EXCEPT !.page = 1, !.seen = {},
                 !.found = [i \in DOMAIN collection.found \cup {c} |->
                                IF i = c THEN [artifact |-> a, before |-> collection.before]
                                ELSE collection.found[i]],
                 !.partial = collection.partial \/ skipped]
  BY DEF Collect!Acquire, Collect!IsSubject
<1>5. Pin[c] = Nothing => collection.before \subseteq {a}
  <2> SUFFICES ASSUME Pin[c] = Nothing PROVE collection.before \subseteq {a}
    OBVIOUS
  <2>1. Collect!Candidates = collection.seen
    BY DEF Collect!Candidates
  <2>2. IsFiniteSet(collection.seen)
    <3>1. Collect!IsFiniteSet(Artifacts)
      BY DEF Collect!CollectAssumption
    <3>2. IsFiniteSet(Artifacts)
      BY <3>1, SameFiniteness, Zenon
    <3>3. collection.seen \subseteq Artifacts
      BY <1>2 DEF JobShape
    <3> QED BY <3>2, <3>3, FS_Subset
  <2>3. Cardinality(collection.seen) = 1
    <3>1. Collect!Cardinality(collection.seen) = 1
      BY <1>1, <2>1, Zenon DEF Collect!Single
    <3> QED BY <3>1, SameCount, Zenon
  <2>4. collection.seen = {a}
    BY <2>1, <2>2, <2>3, FS_Singleton
  <2>5. /\ collection.before \subseteq listed[c]
        /\ \A x \in collection.before : PageOf[x] < collection.page => x \in collection.seen
    <3>1. collection.page > 1
      BY <1>1, <1>2 DEF Collect!CollectAssumption, JobShape
    <3> QED BY <1>1, <1>2, <1>3, <3>1 DEF JobIsTrue
  <2>6. \A x \in collection.before : PageOf[x] < collection.page
    <3> SUFFICES ASSUME NEW x \in collection.before PROVE PageOf[x] < collection.page
      OBVIOUS
    <3>1. x \in Artifacts
      BY <1>3, <2>5 DEF CollectKnows, CollectShapes
    <3>2. PageOf[x] \in 1..Pages /\ Pages \in Nat /\ collection.page \in Nat
      BY <1>2, <3>1 DEF Collect!CollectAssumption, JobShape
    <3> QED BY <1>1, <3>2
  <2> QED BY <2>4, <2>5, <2>6
<1> HIDE DEF c
<1>6. /\ collection'.step = collection.step /\ collection'.source = collection.source /\ collection'.todo = collection.todo
      /\ collection'.obs = collection.obs /\ collection'.page = 1 /\ collection'.seen = {}
      /\ collection'.found = [i \in DOMAIN collection.found \cup {c} |->
                           IF i = c THEN [artifact |-> a, before |-> collection.before] ELSE collection.found[i]]
      /\ collection' = [step |-> collection'.step, source |-> collection'.source, todo |-> collection'.todo, obs |-> collection'.obs,
                 page |-> collection'.page, seen |-> collection'.seen, before |-> collection'.before,
                 found |-> collection'.found, partial |-> collection'.partial, made |-> collection'.made]
  BY <1>2, <1>4 DEF JobShape
<1>7. JobShape'
  <2>1. DOMAIN collection'.found = DOMAIN collection.found \cup {c}
    BY <1>6
  <2>2. collection'.found = [i \in DOMAIN collection'.found |-> collection'.found[i]]
    BY <1>6
  <2>3. DOMAIN collection'.found \subseteq collection'.todo
    BY <1>2, <1>3, <1>6, <2>1 DEF JobShape
  <2> QED BY <1>2, <1>6, <2>2, <2>3 DEF JobShape
<1>8. JobIsTrue'
  <2>1. \A i \in DOMAIN collection'.found : Acquired(collection'.found, i)
    <3> SUFFICES ASSUME NEW i \in DOMAIN collection.found \cup {c} PROVE Acquired(collection'.found, i)
      BY <1>6
    <3>1. CASE i = c
      <4>1. collection'.found[i] = [artifact |-> a, before |-> collection.before]
        BY <1>6, <3>1
      <4> QED BY <1>4, <1>5, <3>1, <4>1 DEF Acquired, c
    <3>2. CASE i # c
      <4>1. collection'.found[i] = collection.found[i] /\ i \in DOMAIN collection.found
        BY <1>6, <3>2
      <4> QED BY <1>2, <4>1 DEF JobIsTrue, Acquired
    <3> QED BY <3>1, <3>2
  <2>2. (\A i \in DOMAIN collection.found : Acquired(collection.found, i))'
    BY <2>1 DEF Acquired
  <2> QED BY <1>1, <1>2, <1>6, <2>2 DEF JobIsTrue
<1> QED BY <1>1, <1>7, <1>8, CollectMoves

\* The candidate is made of what was verified.
LEMMA CollectComposes ==
    ASSUME CollectKnows, Collect!CollectAssumption,
           Collect!Compose \/ \E review \in BOOLEAN : Collect!Probe(review)
    PROVE  CollectKnows'
<1>1. /\ collection.step \in {"list", "probe"}
      /\ UNCHANGED <<clock, listed, observed, staged, evidence, record, accepted>>
  BY DEF Collect!Compose, Collect!Probe
<1>2. JobShape /\ JobIsTrue
  BY <1>1 DEF CollectKnows, Collect!Idle
<1>3. CASE Collect!Compose
  <2>1. /\ collection.step = "list" /\ Collect!Left = {}
        /\ collection' = [collection EXCEPT !.step = "save",
               !.made = [rows |-> [i \in DOMAIN collection.found |-> collection.found[i].artifact],
                         partial |-> collection.partial, at |-> clock,
                         observed |-> IF collection.obs = Nothing THEN clock ELSE collection.obs.at]]
    BY <1>3 DEF Collect!Compose, Collect!Order
  <2>2. DOMAIN collection.found = collection.todo
    BY <1>2, <2>1 DEF Collect!Left, JobShape
  <2>3. /\ collection'.step = "save" /\ collection'.source = collection.source /\ collection'.todo = collection.todo
        /\ collection'.obs = collection.obs /\ collection'.page = collection.page /\ collection'.seen = collection.seen
        /\ collection'.before = collection.before /\ collection'.found = collection.found
        /\ collection'.made = [rows |-> [i \in DOMAIN collection.found |-> collection.found[i].artifact],
                         partial |-> collection.partial, at |-> clock,
                         observed |-> IF collection.obs = Nothing THEN clock ELSE collection.obs.at]
        /\ collection' = [step |-> collection'.step, source |-> collection'.source, todo |-> collection'.todo,
                   obs |-> collection'.obs, page |-> collection'.page, seen |-> collection'.seen,
                   before |-> collection'.before, found |-> collection'.found, partial |-> collection'.partial,
                   made |-> collection'.made]
    BY <1>2, <2>1 DEF JobShape
  <2>4. JobShape'
    BY <1>2, <2>3 DEF JobShape
  <2>5. DOMAIN collection'.made.rows = DOMAIN collection'.found
        /\ collection'.made.observed = IF collection'.obs = Nothing THEN clock ELSE collection'.obs.at
    BY <2>3
  <2>6. IsOf([found |-> collection.found, obs |-> collection.obs], collection.made)'
    BY <1>2, <2>1, <2>2, <2>3, <2>5 DEF JobIsTrue, IsOf, Acquired
  <2>7. (\A i \in DOMAIN collection.found : Acquired(collection.found, i))'
    BY <1>2, <2>3 DEF JobIsTrue, Acquired
  <2>8. JobIsTrue'
    BY <2>3, <2>6, <2>7 DEF JobIsTrue
  <2> QED BY <1>1, <2>4, <2>8, CollectMoves
<1>4. CASE \E review \in BOOLEAN : Collect!Probe(review)
  <2>1. PICK review \in BOOLEAN :
            /\ collection.step = "probe"
            /\ collection' = [collection EXCEPT !.step = "save", !.partial = review,
                   !.made = [rows |-> "packages", partial |-> review, at |-> clock, observed |-> clock]]
    BY <1>4 DEF Collect!Probe, Collect!Order
  <2>2. collection.source = "ssh"
    BY <1>2, <2>1 DEF JobShape
  <2>3. /\ collection'.step = "save" /\ collection'.source = collection.source /\ collection'.todo = collection.todo
        /\ collection'.obs = collection.obs /\ collection'.page = collection.page /\ collection'.seen = collection.seen
        /\ collection'.before = collection.before /\ collection'.found = collection.found
        /\ collection' = [step |-> collection'.step, source |-> collection'.source, todo |-> collection'.todo,
                   obs |-> collection'.obs, page |-> collection'.page, seen |-> collection'.seen,
                   before |-> collection'.before, found |-> collection'.found, partial |-> collection'.partial,
                   made |-> collection'.made]
    BY <1>2, <2>1 DEF JobShape
  <2>4. JobShape'
    BY <1>2, <2>3 DEF JobShape
  <2>5. JobIsTrue'
    BY <1>2, <2>2, <2>3 DEF JobIsTrue, Acquired
  <2> QED BY <1>1, <2>4, <2>5, CollectMoves
<1> QED BY <1>3, <1>4

LEMMA CollectSaves ==
    ASSUME CollectKnows, Collect!CollectAssumption, Collect!Save
    PROVE  CollectKnows'
<1> DEFINE s == collection.source
           of == [found |-> collection.found, obs |-> collection.obs]
           new == [made |-> collection.made, of |-> of]
<1>1. /\ collection.step = "save"
      /\ \A e \in evidence[s] : e.made = collection.made => e.of = of
      /\ evidence' = [evidence EXCEPT ![s] = evidence[s] \cup {new}]
      /\ collection' = [collection EXCEPT !.step = "publish"]
      /\ UNCHANGED <<clock, listed, observed, staged, record, accepted>>
  BY DEF Collect!Save, Collect!Saved, Collect!Gathered, Collect!Order
<1>2. JobShape /\ JobIsTrue /\ CollectShapes /\ EvidenceKnown /\ RecordsKnown
  BY <1>1 DEF CollectKnows, Collect!Idle
<1>3. s \in Origins /\ (s # "ssh" => IsOf(of, collection.made))
  BY <1>1, <1>2 DEF JobShape, JobIsTrue
<1>4. new.made = collection.made /\ new.of = of
  OBVIOUS
<1>5. /\ collection'.step = "publish" /\ collection'.source = collection.source /\ collection'.todo = collection.todo
      /\ collection'.obs = collection.obs /\ collection'.page = collection.page /\ collection'.seen = collection.seen
      /\ collection'.before = collection.before /\ collection'.found = collection.found /\ collection'.made = collection.made
      /\ collection' = [step |-> collection'.step, source |-> collection'.source, todo |-> collection'.todo,
                 obs |-> collection'.obs, page |-> collection'.page, seen |-> collection'.seen,
                 before |-> collection'.before, found |-> collection'.found, partial |-> collection'.partial,
                 made |-> collection'.made]
  BY <1>1, <1>2 DEF JobShape
<1>6. evidence' = [z \in Origins |-> IF z = s THEN evidence[z] \cup {new} ELSE evidence[z]]
  BY <1>1, <1>2 DEF CollectShapes, Mapped
<1>7. JobShape'
  BY <1>2, <1>5 DEF JobShape
<1>8. IsOf([found |-> collection.found, obs |-> collection.obs], collection.made)' <=> IsOf(of, collection.made)
  BY <1>5 DEF IsOf, Acquired
<1>9. (\A i \in DOMAIN collection.found : Acquired(collection.found, i))'
  BY <1>2, <1>5 DEF JobIsTrue, Acquired
<1> HIDE DEF new
<1>10. \E e \in evidence'[s] : e.made = collection.made
  BY <1>3, <1>4, <1>6
<1>11. JobIsTrue'
  BY <1>3, <1>5, <1>8, <1>9, <1>10 DEF JobIsTrue
<1>12. new = [made |-> new.made, of |-> new.of]
  BY DEF new
<1> HIDE DEF of
<1>13. \A e \in evidence[s] : e.made = new.made => e = new
  <2> SUFFICES ASSUME NEW e \in evidence[s], e.made = new.made PROVE e = new
    OBVIOUS
  <2>1. e = [made |-> e.made, of |-> e.of] /\ e.of = of
    BY <1>1, <1>2, <1>3, <1>4 DEF EvidenceKnown
  <2> QED BY <1>4, <1>12, <2>1
<1>14. EvidenceKnown'
  <2> SUFFICES ASSUME NEW z \in Origins
               PROVE  /\ \A e \in evidence'[z] : e = [made |-> e.made, of |-> e.of]
                      /\ \A e, f \in evidence'[z] : e.made = f.made => e = f
                      /\ z # "ssh" => \A e \in evidence'[z] : IsOf(e.of, e.made)
                      /\ staged[z] # Nothing => \E e \in evidence'[z] : e.made = staged[z]
    BY <1>1 DEF EvidenceKnown, IsOf, Acquired
  <2>1. /\ \A e \in evidence[z] : e = [made |-> e.made, of |-> e.of]
        /\ \A e, f \in evidence[z] : e.made = f.made => e = f
        /\ z # "ssh" => \A e \in evidence[z] : IsOf(e.of, e.made)
        /\ staged[z] # Nothing => \E e \in evidence[z] : e.made = staged[z]
    BY <1>2 DEF EvidenceKnown
  <2>2. CASE z = s
    <3>1. evidence'[z] = evidence[z] \cup {new}
      BY <1>6, <2>2
    <3> QED BY <1>3, <1>4, <1>12, <1>13, <2>1, <2>2, <3>1
  <2>3. CASE z # s
    BY <1>6, <2>1, <2>3
  <2> QED BY <2>2, <2>3
<1>15. CollectShapes' /\ RecordsKnown'
  BY <1>1, <1>2, <1>6 DEF CollectShapes, RecordsKnown, Mapped
<1> QED BY <1>7, <1>11, <1>14, <1>15 DEF CollectKnows

LEMMA CollectPublishes ==
    ASSUME CollectKnows, Collect!CollectAssumption, Collect!Publish
    PROVE  CollectKnows'
<1> DEFINE s == collection.source
<1>1. /\ collection.step = "publish"
      /\ staged' = IF Collect!IsCurrent THEN staged ELSE [staged EXCEPT ![s] = collection.made]
      /\ accepted' = [accepted EXCEPT ![s] = accepted[s] \cup {staged'[s]}]
      /\ collection' = Collect!Idle
      /\ record' = [record EXCEPT ![s] = [status |-> "success", made |-> collection.made]]
      /\ UNCHANGED <<clock, listed, observed, evidence>>
  BY DEF Collect!Publish, Collect!Order, Collect!Ended
<1>2. JobShape /\ JobIsTrue /\ CollectShapes /\ EvidenceKnown /\ RecordsKnown
  BY <1>1 DEF CollectKnows, Collect!Idle
<1>3. s \in Origins /\ \E e \in evidence[s] : e.made = collection.made
  BY <1>1, <1>2 DEF JobShape, JobIsTrue
<1>4. staged' = [z \in Origins |-> IF z = s THEN collection.made ELSE staged[z]]
  <2>1. staged = [z \in Origins |-> staged[z]]
    BY <1>2 DEF CollectShapes, Mapped
  <2>2. CASE Collect!IsCurrent
    BY <1>1, <2>1, <2>2 DEF Collect!IsCurrent, Collect!Pointer
  <2>3. CASE ~Collect!IsCurrent
    <3>1. staged' = [staged EXCEPT ![s] = collection.made]
      BY <1>1, <2>3
    <3> QED BY <2>1, <3>1
  <2> QED BY <2>2, <2>3
<1>5. /\ accepted' = [z \in Origins |-> IF z = s THEN accepted[z] \cup {collection.made} ELSE accepted[z]]
      /\ record' = [z \in Origins |-> IF z = s THEN [status |-> "success", made |-> collection.made]
                                      ELSE record[z]]
  <2>1. staged'[s] = collection.made
    BY <1>3, <1>4
  <2>2. accepted = [z \in Origins |-> accepted[z]] /\ record = [z \in Origins |-> record[z]]
    BY <1>2 DEF CollectShapes, Mapped
  <2>3. accepted' = [accepted EXCEPT ![s] = accepted[s] \cup {collection.made}]
    BY <1>1, <2>1
  <2>4. record' = [record EXCEPT ![s] = [status |-> "success", made |-> collection.made]]
    BY <1>1
  <2> HIDE DEF s
  <2> QED BY <2>2, <2>3, <2>4
<1>6. CollectShapes'
  BY <1>1, <1>2, <1>4, <1>5 DEF CollectShapes, Mapped
<1>7. EvidenceKnown'
  BY <1>1, <1>2, <1>3, <1>4 DEF EvidenceKnown, IsOf, Acquired
<1>8. RecordsKnown'
  <2> SUFFICES ASSUME NEW z \in Origins, record'[z] # Nothing, record'[z].status = "success"
               PROVE  record'[z].made \in accepted'[z]
    BY DEF RecordsKnown
  <2>1. CASE z = s
    BY <1>5, <2>1
  <2>2. CASE z # s
    <3>1. record'[z] = record[z] /\ accepted'[z] = accepted[z]
      BY <1>5, <2>2
    <3> QED BY <1>2, <3>1 DEF RecordsKnown
  <2> QED BY <2>1, <2>2
<1> QED BY <1>1, <1>6, <1>7, <1>8 DEF CollectKnows, Collect!Idle

LEMMA CollectStays == CollectKnows /\ UNCHANGED Collect!vars => CollectKnows'
<1> SUFFICES ASSUME CollectKnows, UNCHANGED Collect!vars PROVE CollectKnows'
  OBVIOUS
<1>1. UNCHANGED <<clock, listed, observed, staged, evidence, record, collection, accepted>>
  BY DEF Collect!vars
<1>2. CASE collection = Collect!Idle
  BY <1>1, <1>2 DEF CollectKnows, CollectShapes, EvidenceKnown, RecordsKnown, IsOf, Acquired,
                    Mapped, Collect!Idle
<1>3. CASE JobShape /\ JobIsTrue
  <2>1. Collect!Current' = Collect!Current
    BY <1>1 DEF Collect!Current, Collect!Left
  <2>2. JobShape' /\ JobIsTrue'
    BY <1>1, <1>3, <2>1 DEF JobShape, JobIsTrue, IsOf, Acquired
  <2> QED BY <1>1, <2>2, CollectMoves
<1> QED BY <1>2, <1>3 DEF CollectKnows

LEMMA CollectImplies == Collect!CollectAssumption /\ CollectKnows => Collect!CollectInv
<1> SUFFICES ASSUME Collect!CollectAssumption, CollectKnows PROVE Collect!CollectInv
  OBVIOUS
<1>1. CollectShapes /\ EvidenceKnown /\ RecordsKnown
  BY DEF CollectKnows
<1>2. Collect!TypeOK
  <2>1. collection.step \in {"idle", "probe", "list", "save", "publish"}
    BY DEF CollectKnows, JobShape, Collect!Idle
  <2>2. DOMAIN staged = Origins /\ DOMAIN evidence = Origins /\ DOMAIN record = Origins
    BY <1>1 DEF CollectShapes, Mapped
  <2> QED BY <1>1, <2>1, <2>2 DEF Collect!TypeOK, CollectShapes
<1>3. Collect!ServedHasEvidence
  <2> SUFFICES ASSUME NEW s \in Origins, staged[s] # Nothing
               PROVE  Collect!Cardinality(Collect!Of(s)) = 1
    BY DEF Collect!ServedHasEvidence
  <2>1. PICK e \in evidence[s] : e.made = staged[s]
    BY <1>1 DEF EvidenceKnown
  <2>2. Collect!Of(s) = {e}
    BY <1>1, <2>1 DEF EvidenceKnown, Collect!Of
  <2>3. Cardinality(Collect!Of(s)) = 1
    BY <2>2, FS_Singleton
  <2> QED BY <2>3, SameCount, Zenon
<1>4. \A s \in Origins \ {"ssh"} : \A e \in Collect!Of(s) : IsOf(e.of, staged[s])
  BY <1>1 DEF EvidenceKnown, Collect!Of
<1>5. Collect!EvidenceIsOfTheImage
  BY <1>4 DEF IsOf, Acquired, Collect!EvidenceIsOfTheImage
<1>6. Collect!NeverAmbiguous
  BY <1>4 DEF IsOf, Acquired, Collect!NeverAmbiguous
<1>7. Collect!RecordIsTrue
  BY <1>1 DEF RecordsKnown, Collect!RecordIsTrue
<1> QED BY <1>2, <1>3, <1>5, <1>6, <1>7 DEF Collect!CollectInv

\* A snapshot that is served always has its one piece of evidence, of the right images, never
\* chosen among several, and a success that is recorded was pointed to, whatever is pushed,
\* observed and cut off meanwhile: for any images, artifacts, pages and pins.
THEOREM CollectCorrect ==
    Collect!CollectAssumption => (Collect!Spec => []Collect!CollectInv)
<1> SUFFICES ASSUME Collect!CollectAssumption PROVE Collect!Spec => []Collect!CollectInv
  OBVIOUS
<1>1. Collect!Init => CollectKnows
  BY CollectStart
<1>2. CollectKnows /\ [Collect!Next]_(Collect!vars) => CollectKnows'
  BY CollectStays, CollectWorld, CollectBegins, CollectStops, CollectLists, CollectAcquires,
     CollectComposes, CollectSaves, CollectPublishes DEF Collect!Next
<1>3. CollectKnows => Collect!CollectInv
  BY CollectImplies
<1> QED BY <1>1, <1>2, <1>3, PTL DEF Collect!Spec
-----------------------------------------------------------------------------
(* Runs of the pipeline. *)

\* Which version of which source, where one is known.
Versions == UNION {[D -> 0..MaxVersion] : D \in SUBSET Pipeline!Sources}

BeforeSaved == {"locks", "sources", "copying", "publishing", "written", "scan"}
WithLocks == {"sources", "copying", "publishing", "written", "scan", "operations"}

Statuses ==
    {"never_run", "running", "skipped_locked", "interrupted", "operational", "coverage_warning",
     "degraded", "failed"}

Codes == {0, 2, 3, 4, 5, 75, 130}
PipelineRuns ==
    [at : BeforeSaved \cup {"operations", "leaving", "idle"}, previous : Nat,
     todo : SUBSET Pipeline!Sources, accepted : Versions,
     collected : SUBSET Pipeline!Sources, copies : Versions, merged : Versions,
     required_failed : BOOLEAN, failed : BOOLEAN, code : Codes]

PipelineShapes ==
    /\ snapshot \in [Pipeline!Sources -> [inv : 0..MaxVersion, man : 0..MaxVersion, fresh : BOOLEAN]]
    /\ \A s \in Pipeline!Sources : snapshot[s].man <= snapshot[s].inv
    /\ run \in [Runners -> {Pipeline!Idle} \cup PipelineRuns]
    /\ health \in [Runners -> [status : Statuses, consecutive : Nat]]
    /\ resource \in Runners \cup {NoRunner}
    /\ pair \in [inv : Versions, man : Versions]
    /\ scanned \in Versions /\ torn \in BOOLEAN /\ bad \in [Runners -> Nat]

\* What may be scanned next: nothing that is older than what was scanned, or newer than
\* what is there.
InBounds(versions) ==
    \A s \in DOMAIN versions :
        /\ versions[s] <= snapshot[s].inv
        /\ s \in DOMAIN scanned => scanned[s] <= versions[s]

\* The sources that were looked at are collected and accepted, unless the run says otherwise.
Accounted(r, looked, taken) ==
    /\ ~run[r].required_failed => looked \cap Required \subseteq run[r].collected \cap taken
    /\ ~run[r].failed => looked \subseteq run[r].collected \cap taken

\* What a run knows at each of its places, while it holds the shared locks.
RunnerInv(r) ==
    /\ run[r].at \in WithLocks => resource = r
    /\ run[r].at \in BeforeSaved => run[r].previous = bad[r]
    /\ run[r].at = "locks" =>
           /\ run[r].todo = Pipeline!Sources
           /\ run[r].accepted = Pipeline!NoInventory /\ run[r].copies = Pipeline!NoInventory
    /\ run[r].at = "sources" =>
           /\ Accounted(r, Pipeline!Sources \ run[r].todo, DOMAIN run[r].accepted)
           /\ DOMAIN run[r].copies = {} /\ InBounds(run[r].accepted)
    /\ run[r].at = "copying" =>
           /\ ~run[r].required_failed
           /\ Accounted(r, Pipeline!Sources, DOMAIN run[r].accepted)
           /\ InBounds(run[r].accepted) /\ InBounds(run[r].copies)
    /\ run[r].at \in {"publishing", "written", "scan"} =>
           /\ ~run[r].required_failed /\ InBounds(run[r].merged)
           /\ Accounted(r, Pipeline!Sources, DOMAIN run[r].merged)
    /\ run[r].at = "written" =>
           pair.inv = run[r].merged /\ (run[r].copies # pair.man => torn)
    /\ run[r].at = "scan" => pair.inv = run[r].merged /\ pair.man = run[r].merged
    /\ run[r].at \in {"operations", "leaving"} /\ health[r].status = "operational" =>
           DOMAIN run[r].merged = Pipeline!Sources /\ run[r].collected = Pipeline!Sources
    /\ health[r].consecutive = bad[r]

PipelineKnows ==
    /\ PipelineShapes
    /\ \A s \in DOMAIN scanned : scanned[s] <= snapshot[s].inv
    /\ pair.inv # pair.man => torn \/ \E r \in Runners : run[r].at = "written"
    /\ \A r \in Runners : RunnerInv(r)

LEMMA PipelineRun ==
    ASSUME PipelineShapes, NEW r \in Runners, run[r].at # "idle"
    PROVE  run[r] \in PipelineRuns
BY DEF PipelineShapes, Pipeline!Idle

LEMMA NoVersions == Pipeline!NoInventory \in Versions /\ DOMAIN Pipeline!NoInventory = {}
<1>1. Pipeline!NoInventory \in [{} -> 0..MaxVersion] /\ DOMAIN Pipeline!NoInventory = {}
  BY DEF Pipeline!NoInventory
<1>2. {} \in SUBSET Pipeline!Sources
  OBVIOUS
<1> QED BY <1>1, <1>2 DEF Versions

LEMMA VersionsAre ==
    ASSUME NEW v \in Versions
    PROVE  DOMAIN v \subseteq Pipeline!Sources /\ \A s \in DOMAIN v : v[s] \in 0..MaxVersion
<1>1. PICK D \in SUBSET Pipeline!Sources : v \in [D -> 0..MaxVersion]
  BY DEF Versions
<1> QED BY <1>1

LEMMA OneMore ==
    ASSUME NEW v \in Versions, NEW s \in Pipeline!Sources, NEW n \in 0..MaxVersion
    PROVE  [t \in DOMAIN v \cup {s} |-> IF t = s THEN n ELSE v[t]] \in Versions
<1>1. DOMAIN v \cup {s} \in SUBSET Pipeline!Sources
  BY VersionsAre
<1>2. [t \in DOMAIN v \cup {s} |-> IF t = s THEN n ELSE v[t]] \in [DOMAIN v \cup {s} -> 0..MaxVersion]
  BY VersionsAre
<1> QED BY <1>1, <1>2 DEF Versions

LEMMA PipelineStart ==
    ASSUME Pipeline!PipelineAssumption, Pipeline!Init
    PROVE  PipelineKnows
<1> USE DEF Pipeline!Init, Pipeline!Idle
<1>1. /\ snapshot \in [Pipeline!Sources -> [inv : 0..MaxVersion, man : 0..MaxVersion, fresh : BOOLEAN]]
      /\ \A s \in Pipeline!Sources : snapshot[s].man <= snapshot[s].inv
  BY DEF Pipeline!PipelineAssumption
<1>2. pair \in [inv : Versions, man : Versions] /\ scanned \in Versions /\ DOMAIN scanned = {}
  BY NoVersions
<1>3. health \in [Runners -> [status : Statuses, consecutive : Nat]]
  BY DEF Statuses
<1>4. PipelineShapes
  BY <1>1, <1>2, <1>3 DEF PipelineShapes
<1>5. ASSUME NEW r \in Runners PROVE RunnerInv(r)
  BY DEF RunnerInv, WithLocks, BeforeSaved
<1> QED BY <1>2, <1>4, <1>5 DEF PipelineKnows

-----------------------------------------------------------------------------
\* Snapshots only get newer.
Grow == \A s \in Pipeline!Sources : snapshot'[s].inv \in Nat /\ snapshot[s].inv <= snapshot'[s].inv

\* What InBounds says of the next state.
NewerNext(v) ==
    \A t \in DOMAIN v : /\ v[t] <= snapshot'[t].inv
                        /\ t \in DOMAIN scanned' => scanned'[t] <= v[t]

LEMMA StaysNewer ==
    ASSUME PipelineShapes, Grow, scanned' = scanned, NEW v \in Versions, InBounds(v)
    PROVE  InBounds(v)'
<1> SUFFICES ASSUME NEW s \in DOMAIN v
             PROVE  v[s] <= snapshot'[s].inv /\ (s \in DOMAIN scanned => scanned[s] <= v[s])
  BY DEF InBounds
<1>1. s \in Pipeline!Sources /\ v[s] \in Nat /\ v[s] <= snapshot[s].inv /\ snapshot[s].inv \in Nat
  BY VersionsAre DEF InBounds, PipelineShapes
<1> QED BY <1>1 DEF InBounds, Grow

\* What a step does not touch of a runner.
Untouched(q) == run'[q] = run[q] /\ health'[q] = health[q] /\ bad'[q] = bad[q]

\* Runners without the locks are not concerned by what others do.
LEMMA RunnersStay ==
    ASSUME PipelineShapes, NEW q \in Runners, RunnerInv(q), Untouched(q), Grow,
           run[q].at \in WithLocks =>
               /\ resource' = resource /\ pair' = pair /\ scanned' = scanned
               /\ torn => torn'
    PROVE  RunnerInv(q)'
<1>1. CASE run[q].at \notin WithLocks
  BY <1>1 DEF RunnerInv, Untouched, WithLocks
<1>2. CASE run[q].at \in WithLocks
  <2>1. run[q] \in PipelineRuns
    BY <1>2, PipelineRun DEF WithLocks
  <2>2. /\ run[q].accepted \in Versions /\ run[q].copies \in Versions /\ run[q].merged \in Versions
    BY <2>1 DEF PipelineRuns
  <2>3. /\ InBounds(run[q].accepted) => InBounds(run[q].accepted)'
        /\ InBounds(run[q].copies) => InBounds(run[q].copies)'
        /\ InBounds(run[q].merged) => InBounds(run[q].merged)'
    BY <1>2, <2>2, StaysNewer DEF Untouched, InBounds
  <2>4. /\ Accounted(q, Pipeline!Sources \ run[q].todo, DOMAIN run[q].accepted)' <=>
              Accounted(q, Pipeline!Sources \ run[q].todo, DOMAIN run[q].accepted)
        /\ Accounted(q, Pipeline!Sources, DOMAIN run[q].accepted)' <=>
              Accounted(q, Pipeline!Sources, DOMAIN run[q].accepted)
        /\ Accounted(q, Pipeline!Sources, DOMAIN run[q].merged)' <=>
              Accounted(q, Pipeline!Sources, DOMAIN run[q].merged)
    BY DEF Untouched, Accounted
  <2> HIDE DEF InBounds, Accounted
  <2> QED BY <1>2, <2>3, <2>4 DEF RunnerInv, Untouched
<1> QED BY <1>1, <1>2
-----------------------------------------------------------------------------
\* What Saved does.
LEMMA Saves ==
    ASSUME PipelineShapes, NEW r \in Runners, run[r].at # "idle",
           NEW code \in Codes, NEW status \in Statuses, Pipeline!Saved(r, code, status)
    PROVE  /\ run' \in [Runners -> {Pipeline!Idle} \cup PipelineRuns]
           /\ health' \in [Runners -> [status : Statuses, consecutive : Nat]]
           /\ bad' \in [Runners -> Nat]
           /\ \A q \in Runners \ {r} : Untouched(q)
           /\ run'[r].at = IF status \in {"skipped_locked", "interrupted"} THEN "leaving"
                                                                           ELSE "operations"
           /\ run'[r].merged = run[r].merged /\ run'[r].collected = run[r].collected
           /\ health'[r].status = status
           /\ run[r].previous = bad[r] => health'[r].consecutive = bad'[r]
<1>1. run[r] \in PipelineRuns /\ run[r].previous \in Nat /\ bad[r] \in Nat
  BY PipelineRun DEF PipelineShapes, PipelineRuns
<1> DEFINE place == IF status \in {"skipped_locked", "interrupted"} THEN "leaving" ELSE "operations"
           count == IF code = 0 THEN 0 ELSE run[r].previous + 1
           one == [run[r] EXCEPT !.at = place, !.code = code]
<1>2. /\ health' = [health EXCEPT ![r] = [status |-> status, consecutive |-> count]]
      /\ bad' = [bad EXCEPT ![r] = IF code = 0 THEN 0 ELSE @ + 1]
      /\ run' = [run EXCEPT ![r].at = place, ![r].code = code]
  BY DEF Pipeline!Saved
<1>3. count \in Nat
  BY <1>1
<1>4. run' = [run EXCEPT ![r] = one]
  BY <1>2 DEF PipelineShapes
<1>5. one \in PipelineRuns /\ one.at = place /\ one.merged = run[r].merged
      /\ one.collected = run[r].collected
  BY <1>1 DEF PipelineRuns
<1>6. run' \in [Runners -> {Pipeline!Idle} \cup PipelineRuns] /\ run'[r] = one
      /\ \A q \in Runners \ {r} : run'[q] = run[q]
  BY <1>4, <1>5 DEF PipelineShapes
<1>7. /\ health' \in [Runners -> [status : Statuses, consecutive : Nat]]
      /\ health'[r].status = status /\ health'[r].consecutive = count
      /\ \A q \in Runners \ {r} : health'[q] = health[q]
  BY <1>2, <1>3 DEF PipelineShapes
<1>8. /\ bad' \in [Runners -> Nat] /\ bad'[r] = IF code = 0 THEN 0 ELSE bad[r] + 1
      /\ \A q \in Runners \ {r} : bad'[q] = bad[q]
  BY <1>1, <1>2 DEF PipelineShapes
<1> QED BY <1>5, <1>6, <1>7, <1>8 DEF Untouched

\* A run that ends: its count is saved, and what it says of itself is true.
LEMMA RunEnds ==
    ASSUME PipelineShapes, NEW r \in Runners, run[r].at \in BeforeSaved, RunnerInv(r),
           NEW code \in Codes, NEW status \in Statuses, Pipeline!Saved(r, code, status),
           resource' = resource,
           status \in {"skipped_locked", "interrupted"} \/ run[r].at \in WithLocks,
           status = "operational" =>
               DOMAIN run[r].merged = Pipeline!Sources /\ run[r].collected = Pipeline!Sources
    PROVE  RunnerInv(r)'
<1>1. /\ run'[r].at = IF status \in {"skipped_locked", "interrupted"} THEN "leaving" ELSE "operations"
      /\ run'[r].merged = run[r].merged /\ run'[r].collected = run[r].collected
      /\ health'[r].status = status
      /\ health'[r].consecutive = bad'[r]
  BY Saves DEF BeforeSaved, RunnerInv
<1>2. run'[r].at \notin BeforeSaved
  BY <1>1 DEF BeforeSaved
<1>3. run'[r].at \in WithLocks => resource' = r
  BY <1>1 DEF WithLocks, RunnerInv
<1> QED BY <1>1, <1>2, <1>3 DEF RunnerInv, BeforeSaved

\* What a runner does that holds the locks, or takes them, when only it is concerned.
LEMMA RunnerSteps ==
    ASSUME PipelineKnows, NEW r \in Runners, PipelineShapes', Grow,
           \A q \in Runners \ {r} : Untouched(q),
           resource = r \/ (pair' = pair /\ scanned' = scanned /\ (torn => torn')),
           resource' = resource \/ resource \in {r, NoRunner},
           Pipeline!PipelineAssumption,
           RunnerInv(r)',
           \A s \in DOMAIN scanned' : scanned'[s] <= snapshot'[s].inv,
           pair'.inv # pair'.man => torn' \/ \E q \in Runners : run'[q].at = "written"
    PROVE  PipelineKnows'
<1>1. ASSUME NEW q \in Runners \ {r} PROVE RunnerInv(q)'
  <2>1. run[q].at \in WithLocks => resource = q
    BY DEF PipelineKnows, RunnerInv
  <2>2. q # NoRunner /\ q # r
    BY DEF Pipeline!PipelineAssumption
  <2>3. run[q].at \in WithLocks =>
            /\ resource' = resource /\ pair' = pair /\ scanned' = scanned
            /\ torn => torn'
    BY <2>1, <2>2
  <2> QED BY <2>3, RunnersStay DEF PipelineKnows
<1>2. \A q \in Runners : RunnerInv(q)'
  BY <1>1
<1> QED BY <1>2 DEF PipelineKnows

\* The same for a step that leaves the inventory alone and ends a run.
LEMMA EndsAlone ==
    ASSUME PipelineKnows, Pipeline!PipelineAssumption, NEW r \in Runners, run[r].at \in BeforeSaved,
           NEW code \in Codes, NEW status \in Statuses, Pipeline!Saved(r, code, status),
           snapshot' = snapshot, resource' = resource, pair' = pair, scanned' = scanned, torn' = torn,
           run[r].at # "written",
           status \in {"skipped_locked", "interrupted"} \/ run[r].at \in WithLocks,
           status # "operational"
    PROVE  PipelineKnows'
<1>1. /\ run' \in [Runners -> {Pipeline!Idle} \cup PipelineRuns]
      /\ health' \in [Runners -> [status : Statuses, consecutive : Nat]]
      /\ bad' \in [Runners -> Nat]
      /\ \A q \in Runners \ {r} : Untouched(q)
  BY Saves DEF PipelineKnows, BeforeSaved
<1>2. PipelineShapes'
  BY <1>1 DEF PipelineKnows, PipelineShapes
<1>3. Grow
  BY DEF Grow, PipelineKnows, PipelineShapes
<1>4. RunnerInv(r)'
  BY RunEnds DEF PipelineKnows
<1>5. \A s \in DOMAIN scanned' : scanned'[s] <= snapshot'[s].inv
  BY DEF PipelineKnows
<1>6. pair'.inv # pair'.man => torn' \/ \E q \in Runners : run'[q].at = "written"
  BY <1>1 DEF PipelineKnows, Untouched
<1> QED BY <1>1, <1>2, <1>3, <1>4, <1>5, <1>6, RunnerSteps
-----------------------------------------------------------------------------
LEMMA WorldSteps ==
    ASSUME PipelineKnows, Pipeline!PipelineAssumption,
           \/ \E s \in Local : Pipeline!ReplaceInventory(s) \/ Pipeline!ReplaceManifest(s)
           \/ \E s \in Pipeline!Sources : Pipeline!Age(s)
    PROVE  PipelineKnows'
<1>1. /\ run' = run /\ health' = health /\ bad' = bad /\ resource' = resource
      /\ pair' = pair /\ scanned' = scanned /\ torn' = torn
  BY DEF Pipeline!ReplaceInventory, Pipeline!ReplaceManifest, Pipeline!Age, Pipeline!history
<1>2. Local \subseteq Pipeline!Sources /\ MaxVersion \in Nat
  BY DEF Pipeline!Sources, Pipeline!PipelineAssumption
<1>3. PICK s \in Pipeline!Sources :
          \/ /\ snapshot[s].inv < MaxVersion /\ snapshot' = [snapshot EXCEPT ![s].inv = @ + 1]
          \/ snapshot' = [snapshot EXCEPT ![s].man = snapshot[s].inv, ![s].fresh = TRUE]
          \/ snapshot' = [snapshot EXCEPT ![s].fresh = FALSE]
  BY <1>2 DEF Pipeline!ReplaceInventory, Pipeline!ReplaceManifest, Pipeline!Age
<1>4. /\ snapshot[s] \in [inv : 0..MaxVersion, man : 0..MaxVersion, fresh : BOOLEAN]
      /\ snapshot[s].man <= snapshot[s].inv
      /\ snapshot \in [Pipeline!Sources -> [inv : 0..MaxVersion, man : 0..MaxVersion, fresh : BOOLEAN]]
  BY DEF PipelineKnows, PipelineShapes
<1>5. /\ snapshot' = [snapshot EXCEPT ![s] = snapshot'[s]]
      /\ snapshot'[s] \in [inv : 0..MaxVersion, man : 0..MaxVersion, fresh : BOOLEAN]
      /\ snapshot[s].inv <= snapshot'[s].inv /\ snapshot'[s].man <= snapshot'[s].inv
  <2>1. CASE snapshot[s].inv < MaxVersion /\ snapshot' = [snapshot EXCEPT ![s].inv = @ + 1]
    <3> DEFINE new == [snapshot[s] EXCEPT !.inv = snapshot[s].inv + 1]
    <3>1. /\ new \in [inv : 0..MaxVersion, man : 0..MaxVersion, fresh : BOOLEAN]
          /\ new.inv = snapshot[s].inv + 1 /\ new.man = snapshot[s].man
      BY <1>2, <1>4, <2>1
    <3>2. snapshot' = [snapshot EXCEPT ![s] = new]
      BY <1>4, <2>1
    <3> HIDE DEF new
    <3> QED BY <1>4, <3>1, <3>2
  <2>2. CASE snapshot' = [snapshot EXCEPT ![s].man = snapshot[s].inv, ![s].fresh = TRUE]
    <3> DEFINE new == [snapshot[s] EXCEPT !.man = snapshot[s].inv, !.fresh = TRUE]
    <3>1. /\ new \in [inv : 0..MaxVersion, man : 0..MaxVersion, fresh : BOOLEAN]
          /\ new.inv = snapshot[s].inv /\ new.man = snapshot[s].inv
      BY <1>4
    <3>2. snapshot' = [snapshot EXCEPT ![s] = new]
      BY <1>4, <2>2
    <3> HIDE DEF new
    <3> QED BY <1>4, <3>1, <3>2
  <2>3. CASE snapshot' = [snapshot EXCEPT ![s].fresh = FALSE]
    <3> DEFINE new == [snapshot[s] EXCEPT !.fresh = FALSE]
    <3>1. /\ new \in [inv : 0..MaxVersion, man : 0..MaxVersion, fresh : BOOLEAN]
          /\ new.inv = snapshot[s].inv /\ new.man = snapshot[s].man
      BY <1>4
    <3>2. snapshot' = [snapshot EXCEPT ![s] = new]
      BY <1>4, <2>3
    <3> HIDE DEF new
    <3> QED BY <1>4, <3>1, <3>2
  <2> QED BY <1>3, <2>1, <2>2, <2>3
<1>6. /\ snapshot' \in [Pipeline!Sources -> [inv : 0..MaxVersion, man : 0..MaxVersion, fresh : BOOLEAN]]
      /\ \A q \in Pipeline!Sources :
             /\ snapshot'[q].man <= snapshot'[q].inv
             /\ snapshot'[q].inv \in Nat /\ snapshot[q].inv \in Nat
             /\ snapshot[q].inv <= snapshot'[q].inv
  BY <1>4, <1>5 DEF PipelineKnows, PipelineShapes
<1>7. PipelineShapes'
  BY <1>1, <1>6 DEF PipelineKnows, PipelineShapes
<1>8. Grow
  BY <1>6 DEF Grow
<1>9. ASSUME NEW q \in Runners PROVE RunnerInv(q)'
  BY <1>1, <1>8, RunnersStay DEF PipelineKnows, Untouched
<1>10. \A q \in DOMAIN scanned' : scanned'[q] <= snapshot'[q].inv
  <2> SUFFICES ASSUME NEW q \in DOMAIN scanned PROVE scanned[q] <= snapshot'[q].inv
    BY <1>1
  <2>1. q \in Pipeline!Sources /\ scanned[q] \in Nat /\ scanned[q] <= snapshot[q].inv
    BY VersionsAre DEF PipelineKnows, PipelineShapes
  <2> QED BY <1>6, <2>1
<1>11. pair'.inv # pair'.man => torn' \/ \E q \in Runners : run'[q].at = "written"
  BY <1>1 DEF PipelineKnows
<1> QED BY <1>7, <1>9, <1>10, <1>11 DEF PipelineKnows

\* A runner that changes only what it does itself.
LEMMA OwnStep ==
    ASSUME PipelineKnows, Pipeline!PipelineAssumption, NEW r \in Runners, NEW new,
           new = Pipeline!Idle \/ new \in PipelineRuns, run[r].at # "written",
           run' = [run EXCEPT ![r] = new],
           health' \in [Runners -> [status : Statuses, consecutive : Nat]], bad' \in [Runners -> Nat],
           \A q \in Runners \ {r} : health'[q] = health[q] /\ bad'[q] = bad[q],
           resource' = resource \/ (resource \in {r, NoRunner} /\ resource' \in {r, NoRunner}),
           snapshot' = snapshot, pair' = pair, scanned' = scanned, torn' = torn,
           RunnerInv(r)'
    PROVE  PipelineKnows'
<1>1. /\ run' \in [Runners -> {Pipeline!Idle} \cup PipelineRuns] /\ run'[r] = new
      /\ \A q \in Runners \ {r} : Untouched(q)
  BY DEF PipelineKnows, PipelineShapes, Untouched
<1>2. PipelineShapes'
  BY <1>1 DEF PipelineKnows, PipelineShapes
<1>3. Grow
  BY DEF Grow, PipelineKnows, PipelineShapes
<1>4. \A s \in DOMAIN scanned' : scanned'[s] <= snapshot'[s].inv
  BY DEF PipelineKnows
<1>5. pair'.inv # pair'.man => torn' \/ \E q \in Runners : run'[q].at = "written"
  BY <1>1 DEF PipelineKnows, Untouched
<1>6. resource' = resource \/ resource \in {r, NoRunner}
  OBVIOUS
<1> QED BY <1>1, <1>2, <1>3, <1>4, <1>5, <1>6, RunnerSteps

LEMMA StartSteps ==
    ASSUME PipelineKnows, Pipeline!PipelineAssumption, NEW r \in Runners, Pipeline!Start(r)
    PROVE  PipelineKnows'
<1> DEFINE new == [at |-> "locks", previous |-> health[r].consecutive, todo |-> Pipeline!Sources,
                   accepted |-> Pipeline!NoInventory, collected |-> {},
                   copies |-> Pipeline!NoInventory, merged |-> Pipeline!NoInventory,
                   required_failed |-> FALSE, failed |-> FALSE, code |-> 2]
<1>1. /\ run[r].at = "idle" /\ run' = [run EXCEPT ![r] = new]
      /\ health' = [health EXCEPT ![r].status = "running"]
      /\ snapshot' = snapshot /\ resource' = resource /\ pair' = pair
      /\ scanned' = scanned /\ torn' = torn /\ bad' = bad
  BY DEF Pipeline!Start, Pipeline!At
<1>2. /\ health[r] \in [status : Statuses, consecutive : Nat] /\ health[r].consecutive = bad[r]
      /\ run \in [Runners -> {Pipeline!Idle} \cup PipelineRuns]
      /\ health \in [Runners -> [status : Statuses, consecutive : Nat]]
      /\ bad \in [Runners -> Nat]
  BY DEF PipelineKnows, PipelineShapes, RunnerInv
<1>3. new \in PipelineRuns
  BY <1>2, NoVersions DEF PipelineRuns, BeforeSaved, Codes
<1>4. /\ health' \in [Runners -> [status : Statuses, consecutive : Nat]]
      /\ health'[r].consecutive = bad[r]
      /\ \A q \in Runners \ {r} : health'[q] = health[q]
  BY <1>1, <1>2 DEF Statuses
<1>5. run'[r] = new
  BY <1>1, <1>2
<1>6. RunnerInv(r)'
  BY <1>1, <1>4, <1>5 DEF RunnerInv, WithLocks, BeforeSaved
<1> QED BY <1>1, <1>3, <1>4, <1>6, <1>2, OwnStep

LEMMA LockSteps ==
    ASSUME PipelineKnows, Pipeline!PipelineAssumption, NEW r \in Runners, Pipeline!Lock(r)
    PROVE  PipelineKnows'
<1>1. /\ run[r].at = "locks" /\ snapshot' = snapshot /\ pair' = pair
      /\ scanned' = scanned /\ torn' = torn
  BY DEF Pipeline!Lock, Pipeline!At
<1>2. CASE resource' = resource /\ Pipeline!Saved(r, 75, "skipped_locked")
  BY <1>1, <1>2, EndsAlone DEF BeforeSaved, Codes, Statuses
<1>3. CASE /\ resource = NoRunner /\ resource' = r /\ health' = health /\ bad' = bad
           /\ run' = [run EXCEPT ![r].at = "sources"]
  <2> DEFINE new == [run[r] EXCEPT !.at = "sources"]
  <2>1. run[r] \in PipelineRuns
    BY <1>1, PipelineRun DEF PipelineKnows
  <2>2. new \in PipelineRuns /\ run' = [run EXCEPT ![r] = new] /\ run'[r] = new
    BY <1>3, <2>1 DEF PipelineRuns, BeforeSaved, PipelineKnows, PipelineShapes
  <2>3. RunnerInv(r)'
    \* what a run begins with
    <3>1. run[r].todo = Pipeline!Sources /\ run[r].accepted = Pipeline!NoInventory
          /\ run[r].copies = Pipeline!NoInventory
      BY <1>1 DEF PipelineKnows, RunnerInv
    <3> QED BY <1>1, <1>3, <2>2, <3>1, NoVersions
         DEF PipelineKnows, RunnerInv, WithLocks, BeforeSaved, InBounds, Accounted
  <2> QED BY <1>1, <1>3, <2>2, <2>3, OwnStep DEF PipelineKnows, PipelineShapes
<1> QED BY <1>2, <1>3 DEF Pipeline!Lock, Pipeline!Available, Pipeline!Goes

\* A source is looked at: whatever was collected is newer, and what is wrong is remembered.
LEMMA SourceSteps ==
    ASSUME PipelineKnows, Pipeline!PipelineAssumption, NEW r \in Runners,
           NEW s \in Pipeline!Sources, Pipeline!Source(r, s)
    PROVE  PipelineKnows'
<1>1. /\ run[r].at = "sources" /\ s \in run[r].todo
      /\ health' = health /\ resource' = resource /\ pair' = pair
      /\ scanned' = scanned /\ torn' = torn /\ bad' = bad
  BY DEF Pipeline!Source, Pipeline!At, Pipeline!history
<1> DEFINE Now(c) == IF s \in Pulled /\ c
                     THEN [inv |-> snapshot[s].inv + 1, man |-> snapshot[s].inv + 1, fresh |-> TRUE]
                     ELSE snapshot[s]
           Fine(c) == Now(c).inv > 0 /\ Now(c).inv = Now(c).man /\ Now(c).fresh
           After(c) == [run EXCEPT ![r].todo = @ \ {s},
                  ![r].accepted = IF Fine(c) THEN [t \in DOMAIN @ \cup {s} |->
                                                       IF t = s THEN Now(c).inv ELSE run[r].accepted[t]] ELSE @,
                  ![r].collected = IF c THEN @ \cup {s} ELSE @,
                  ![r].required_failed = @ \/ Pipeline!EndsRun(s, c, Fine(c)),
                  ![r].failed = @ \/ Pipeline!IsFailure(c, Fine(c))]
<1>2. \E c \in BOOLEAN : /\ Now(c).inv <= MaxVersion
                         /\ snapshot' = [snapshot EXCEPT ![s] = Now(c)]
                         /\ run' = After(c)
  BY ZenonT(40) DEF Pipeline!Source
<1>3. PICK collected \in BOOLEAN : /\ Now(collected).inv <= MaxVersion
                                  /\ snapshot' = [snapshot EXCEPT ![s] = Now(collected)]
                                  /\ run' = After(collected)
  BY <1>2
<1> DEFINE there == Now(collected)
           readable == Fine(collected)
<1>4. /\ snapshot[s] \in [inv : 0..MaxVersion, man : 0..MaxVersion, fresh : BOOLEAN]
      /\ snapshot[s].man <= snapshot[s].inv
      /\ snapshot \in [Pipeline!Sources -> [inv : 0..MaxVersion, man : 0..MaxVersion, fresh : BOOLEAN]]
      /\ MaxVersion \in Nat
  BY DEF PipelineKnows, PipelineShapes, Pipeline!PipelineAssumption
<1>5. /\ there \in [inv : 0..MaxVersion, man : 0..MaxVersion, fresh : BOOLEAN]
      /\ there.man <= there.inv /\ snapshot[s].inv <= there.inv
  <2>1. Now(collected).inv <= MaxVersion
    BY <1>3
  <2>2. CASE s \in Pulled /\ collected
    BY <1>4, <2>1, <2>2
  <2>3. CASE ~(s \in Pulled /\ collected)
    BY <1>4, <2>3
  <2> QED BY <2>2, <2>3
<1>6. /\ snapshot' \in [Pipeline!Sources -> [inv : 0..MaxVersion, man : 0..MaxVersion, fresh : BOOLEAN]]
      /\ snapshot'[s] = there
      /\ \A q \in Pipeline!Sources :
             /\ snapshot'[q].man <= snapshot'[q].inv
             /\ snapshot'[q].inv \in Nat /\ snapshot[q].inv \in Nat
             /\ snapshot[q].inv <= snapshot'[q].inv
  <2>1. snapshot' = [snapshot EXCEPT ![s] = there]
    BY <1>3
  <2>2. \A q \in Pipeline!Sources : snapshot[q].man <= snapshot[q].inv
    BY DEF PipelineKnows, PipelineShapes
  <2> HIDE DEF there
  <2> QED BY <1>4, <1>5, <2>1, <2>2
<1>7. Grow
  BY <1>6 DEF Grow
<1>8. run[r] \in PipelineRuns /\ run \in [Runners -> {Pipeline!Idle} \cup PipelineRuns]
  BY <1>1, PipelineRun DEF PipelineKnows, PipelineShapes
<1> DEFINE taken == IF readable THEN [t \in DOMAIN run[r].accepted \cup {s} |->
                                          IF t = s THEN there.inv ELSE run[r].accepted[t]]
                    ELSE run[r].accepted
           new == [run[r] EXCEPT
                      !.todo = run[r].todo \ {s}, !.accepted = taken,
                      !.collected = IF collected THEN run[r].collected \cup {s} ELSE run[r].collected,
                      !.required_failed = run[r].required_failed \/ Pipeline!EndsRun(s, collected, readable),
                      !.failed = run[r].failed \/ Pipeline!IsFailure(collected, readable)]
<1>9. run' = [run EXCEPT ![r] = new]
  <2>1. run' = After(collected)
    BY <1>3
  <2> HIDE DEF Now, Fine
  <2>2. After(collected) = [run EXCEPT ![r] = new]
    BY <1>8
  <2> QED BY <2>1, <2>2
<1> HIDE DEF Next, Now, Fine
<1> HIDE DEF there, readable
<1>10. taken \in Versions
  BY <1>5, <1>8, OneMore DEF PipelineRuns
<1>11. /\ DOMAIN taken = IF readable THEN DOMAIN run[r].accepted \cup {s} ELSE DOMAIN run[r].accepted
       /\ \A t \in DOMAIN taken : IF readable /\ t = s THEN taken[t] = there.inv
                                  ELSE t \in DOMAIN run[r].accepted /\ taken[t] = run[r].accepted[t]
  OBVIOUS
<1> HIDE DEF taken
<1>12. /\ Pipeline!EndsRun(s, collected, readable) \in BOOLEAN
       /\ Pipeline!IsFailure(collected, readable) \in BOOLEAN
       /\ Pipeline!EndsRun(s, collected, readable) <=> s \in Required /\ ~(collected /\ readable)
       /\ Pipeline!IsFailure(collected, readable) <=> ~collected \/ ~readable
  BY DEF Pipeline!EndsRun, Pipeline!IsFailure
<1>13. /\ new \in PipelineRuns /\ new.at = "sources" /\ new.todo = run[r].todo \ {s}
       /\ new.accepted = taken /\ new.copies = run[r].copies /\ new.previous = run[r].previous
       /\ new.collected = IF collected THEN run[r].collected \cup {s} ELSE run[r].collected
       /\ new.required_failed <=> run[r].required_failed \/ (s \in Required /\ ~(collected /\ readable))
       /\ new.failed <=> run[r].failed \/ ~collected \/ ~readable
  BY <1>1, <1>8, <1>10, <1>12 DEF PipelineRuns
<1> HIDE DEF new
<1>14. run'[r] = new /\ run' \in [Runners -> {Pipeline!Idle} \cup PipelineRuns]
       /\ \A q \in Runners \ {r} : Untouched(q)
  BY <1>1, <1>8, <1>9, <1>13 DEF Untouched
<1>15. PipelineShapes'
  BY <1>1, <1>6, <1>14 DEF PipelineKnows, PipelineShapes
<1>16. RunnerInv(r)
  BY DEF PipelineKnows
<1>17. \A t \in DOMAIN run[r].accepted :
           /\ run[r].accepted[t] <= snapshot'[t].inv
           /\ t \in DOMAIN scanned => scanned[t] <= run[r].accepted[t]
  <2> SUFFICES ASSUME NEW t \in DOMAIN run[r].accepted
               PROVE  /\ run[r].accepted[t] <= snapshot'[t].inv
                      /\ t \in DOMAIN scanned => scanned[t] <= run[r].accepted[t]
    OBVIOUS
  <2>1. InBounds(run[r].accepted) /\ run[r].accepted \in Versions
    BY <1>1, <1>8, <1>16 DEF RunnerInv, PipelineRuns
  <2>2. t \in Pipeline!Sources /\ run[r].accepted[t] \in 0..MaxVersion
    BY <2>1, VersionsAre
  <2> QED BY <1>4, <1>6, <2>1, <2>2 DEF InBounds
<1>18. s \in DOMAIN scanned => scanned[s] <= there.inv
  <2>1. s \in DOMAIN scanned => scanned[s] \in 0..MaxVersion /\ scanned[s] <= snapshot[s].inv
    BY VersionsAre DEF PipelineKnows, PipelineShapes
  <2> QED BY <1>4, <1>5, <2>1
<1>19. InBounds(run[r].accepted)'
  <2>1. \A t \in DOMAIN taken : /\ taken[t] <= snapshot'[t].inv
                                /\ t \in DOMAIN scanned' => scanned'[t] <= taken[t]
    <3> SUFFICES ASSUME NEW t \in DOMAIN taken
                 PROVE  /\ taken[t] <= snapshot'[t].inv
                        /\ t \in DOMAIN scanned => scanned[t] <= taken[t]
      BY <1>1
    <3>1. CASE readable /\ t = s
      <4>1. taken[t] = there.inv
        BY <1>11, <3>1
      <4> QED BY <1>4, <1>5, <1>6, <1>18, <3>1, <4>1
    <3>2. CASE ~(readable /\ t = s)
      <4>1. t \in DOMAIN run[r].accepted /\ taken[t] = run[r].accepted[t]
        BY <1>11, <3>2
      <4> QED BY <1>17, <4>1
    <3> QED BY <3>1, <3>2
  <2>2. run'[r].accepted = taken
    BY <1>13, <1>14
  <2>3. NewerNext(run'[r].accepted)
    <3>1. NewerNext(taken)
      BY <2>1 DEF NewerNext
    <3> QED BY <2>2, <3>1
  <2> QED BY <2>3 DEF InBounds, NewerNext
<1>20. Accounted(r, Pipeline!Sources \ run[r].todo, DOMAIN run[r].accepted)'
  <2>1. Accounted(r, Pipeline!Sources \ run[r].todo, DOMAIN run[r].accepted)
    BY <1>1, <1>16 DEF RunnerInv
  <2>2. Pipeline!Sources \ new.todo \subseteq (Pipeline!Sources \ run[r].todo) \cup {s}
    BY <1>13
  <2>3. /\ ~new.required_failed =>
               (Pipeline!Sources \ new.todo) \cap Required \subseteq new.collected \cap DOMAIN taken
        /\ ~new.failed => Pipeline!Sources \ new.todo \subseteq new.collected \cap DOMAIN taken
    BY <1>11, <1>13, <2>1, <2>2 DEF Accounted
  <2> QED BY <1>13, <1>14, <2>3 DEF Accounted
<1>21. RunnerInv(r)'
  <2>1. /\ run'[r].at = "sources" /\ run'[r].previous = run[r].previous
        /\ DOMAIN run'[r].copies = DOMAIN run[r].copies
    BY <1>13, <1>14
  <2> HIDE DEF InBounds, Accounted
  <2> QED BY <1>1, <1>16, <1>19, <1>20, <2>1 DEF RunnerInv, WithLocks, BeforeSaved
<1>22. \A t \in DOMAIN scanned' : scanned'[t] <= snapshot'[t].inv
  <2> SUFFICES ASSUME NEW t \in DOMAIN scanned PROVE scanned[t] <= snapshot'[t].inv
    BY <1>1
  <2>1. t \in Pipeline!Sources /\ scanned[t] \in 0..MaxVersion /\ scanned[t] <= snapshot[t].inv
    BY VersionsAre DEF PipelineKnows, PipelineShapes
  <2> QED BY <1>4, <1>6, <2>1
<1>23. pair'.inv # pair'.man => torn' \/ \E q \in Runners : run'[q].at = "written"
  BY <1>1, <1>14 DEF PipelineKnows, Untouched
<1> QED BY <1>1, <1>7, <1>14, <1>15, <1>21, <1>22, <1>23, RunnerSteps

LEMMA DecideSteps ==
    ASSUME PipelineKnows, Pipeline!PipelineAssumption, NEW r \in Runners, Pipeline!Decide(r)
    PROVE  PipelineKnows'
<1>1. run[r].at = "sources" /\ run[r].todo = {}
  BY DEF Pipeline!Decide, Pipeline!At
<1>2. CASE Pipeline!Fails(r)
  BY <1>1, <1>2, EndsAlone DEF Pipeline!Fails, BeforeSaved, WithLocks, Codes, Statuses
<1>3. CASE /\ ~run[r].required_failed /\ run' = [run EXCEPT ![r].at = "copying"]
           /\ snapshot' = snapshot /\ health' = health /\ resource' = resource /\ pair' = pair
           /\ scanned' = scanned /\ torn' = torn /\ bad' = bad
  <2> DEFINE new == [run[r] EXCEPT !.at = "copying"]
  <2>1. run[r] \in PipelineRuns
    BY <1>1, PipelineRun DEF PipelineKnows
  <2>2. new \in PipelineRuns /\ run' = [run EXCEPT ![r] = new] /\ run'[r] = new
    BY <1>3, <2>1 DEF PipelineRuns, BeforeSaved, PipelineKnows, PipelineShapes
  <2>3. /\ run'[r].at = "copying" /\ run'[r].todo = run[r].todo
        /\ run'[r].accepted = run[r].accepted /\ run'[r].copies = run[r].copies
        /\ run'[r].collected = run[r].collected /\ run'[r].failed = run[r].failed
        /\ run'[r].required_failed = run[r].required_failed /\ run'[r].previous = run[r].previous
    BY <2>1, <2>2 DEF PipelineRuns
  <2>4. RunnerInv(r)'
    <3>1. RunnerInv(r)
      BY DEF PipelineKnows
    <3>2. Accounted(r, Pipeline!Sources, DOMAIN run[r].accepted)'
      BY <1>1, <2>3, <3>1 DEF RunnerInv, Accounted
    <3>3. InBounds(run[r].accepted)' /\ InBounds(run[r].copies)'
      BY <1>1, <1>3, <2>3, <3>1 DEF RunnerInv, InBounds
    <3> HIDE DEF new, Accounted, InBounds
    <3> QED BY <1>1, <1>3, <2>3, <3>1, <3>2, <3>3 DEF RunnerInv, WithLocks, BeforeSaved
  <2> HIDE DEF new
  <2> QED BY <1>1, <1>3, <2>2, <2>4, OwnStep DEF PipelineKnows, PipelineShapes
<1> QED BY <1>2, <1>3 DEF Pipeline!Decide, Pipeline!Goes, Pipeline!history

LEMMA CopySteps ==
    ASSUME PipelineKnows, Pipeline!PipelineAssumption, NEW r \in Runners,
           NEW s \in Pipeline!Sources, Pipeline!Copy(r, s)
    PROVE  PipelineKnows'
<1>1. /\ run[r].at = "copying" /\ s \in DOMAIN run[r].accepted
  BY DEF Pipeline!Copy, Pipeline!At
<1>2. CASE Pipeline!Fails(r)
  BY <1>1, <1>2, EndsAlone DEF Pipeline!Fails, BeforeSaved, WithLocks, Codes, Statuses
<1> DEFINE copy == IF s \in Local THEN snapshot[s].inv ELSE run[r].accepted[s]
           taken == [t \in DOMAIN run[r].copies \cup {s} |-> IF t = s THEN copy ELSE run[r].copies[t]]
           new == [run[r] EXCEPT !.copies = taken]
<1>3. CASE /\ run' = [run EXCEPT ![r].copies =
                 [t \in DOMAIN @ \cup {s} |->
                    IF t # s THEN run[r].copies[t]
                    ELSE IF s \in Local THEN snapshot[s].inv ELSE run[r].accepted[s]]]
           /\ snapshot' = snapshot /\ health' = health /\ resource' = resource /\ pair' = pair
           /\ scanned' = scanned /\ torn' = torn /\ bad' = bad
  <2>1. run[r] \in PipelineRuns /\ run \in [Runners -> {Pipeline!Idle} \cup PipelineRuns]
    BY <1>1, PipelineRun DEF PipelineKnows, PipelineShapes
  <2>2. run[r].copies \in Versions /\ run[r].accepted \in Versions
    BY <2>1 DEF PipelineRuns
  <2>3. RunnerInv(r) /\ InBounds(run[r].accepted) /\ InBounds(run[r].copies)
    BY <1>1 DEF PipelineKnows, RunnerInv
  <2>4. /\ copy \in 0..MaxVersion /\ copy <= snapshot[s].inv
        /\ s \in DOMAIN scanned => scanned[s] <= copy
    <3>1. snapshot[s].inv \in 0..MaxVersion /\ run[r].accepted[s] \in 0..MaxVersion
      BY <1>1, <2>2, VersionsAre DEF PipelineKnows, PipelineShapes
    <3>2. s \in DOMAIN scanned => scanned[s] <= snapshot[s].inv
      BY DEF PipelineKnows
    <3> QED BY <1>1, <2>3, <3>1, <3>2 DEF InBounds
  <2> HIDE DEF copy
  <2>5. taken \in Versions
    BY <2>2, <2>4, OneMore
  <2>6. \A t \in DOMAIN taken : /\ taken[t] <= snapshot[t].inv
                                /\ t \in DOMAIN scanned => scanned[t] <= taken[t]
    BY <2>3, <2>4 DEF InBounds
  <2>7. run' = [run EXCEPT ![r] = new]
    <3>1. [t \in DOMAIN run[r].copies \cup {s} |->
                    IF t # s THEN run[r].copies[t]
                    ELSE IF s \in Local THEN snapshot[s].inv ELSE run[r].accepted[s]] = taken
      BY DEF copy
    <3> HIDE DEF taken
    <3>2. run' = [run EXCEPT ![r].copies = taken]
      BY <1>3, <2>1, <3>1
    <3> QED BY <2>1, <3>2
  <2> HIDE DEF taken
  <2>8. /\ new \in PipelineRuns /\ run'[r] = new
        /\ run'[r].at = "copying" /\ run'[r].copies = taken
        /\ run'[r].accepted = run[r].accepted
        /\ run'[r].collected = run[r].collected /\ run'[r].failed = run[r].failed
        /\ run'[r].required_failed = run[r].required_failed /\ run'[r].previous = run[r].previous
    BY <1>1, <2>1, <2>5, <2>7 DEF PipelineRuns
  <2>9. RunnerInv(r)'
    <3>1. Accounted(r, Pipeline!Sources, DOMAIN run[r].accepted)'
      BY <1>1, <2>3, <2>8 DEF RunnerInv, Accounted
    <3>2. InBounds(run[r].accepted)' /\ InBounds(run[r].copies)'
      <4>1. NewerNext(taken)
        BY <1>3, <2>6 DEF NewerNext
      <4>2. NewerNext(run[r].accepted)
        BY <1>3, <2>3 DEF InBounds, NewerNext
      <4>3. NewerNext(run'[r].copies) /\ NewerNext(run'[r].accepted)
        BY <2>8, <4>1, <4>2
      <4> QED BY <4>3 DEF InBounds, NewerNext
    <3> HIDE DEF new, Accounted, InBounds
    <3> QED BY <1>1, <1>3, <2>3, <2>8, <3>1, <3>2 DEF RunnerInv, WithLocks, BeforeSaved
  <2> HIDE DEF new
  <2> QED BY <1>1, <1>3, <2>7, <2>8, <2>9, OwnStep DEF PipelineKnows, PipelineShapes
<1> HIDE DEF copy, taken, new
<1> QED BY <1>2, <1>3 DEF Pipeline!Copy, Pipeline!Goes, Pipeline!history

LEMMA MergeSteps ==
    ASSUME PipelineKnows, Pipeline!PipelineAssumption, NEW r \in Runners, Pipeline!Merge(r)
    PROVE  PipelineKnows'
<1>1. run[r].at = "copying" /\ DOMAIN run[r].copies = DOMAIN run[r].accepted
  BY DEF Pipeline!Merge, Pipeline!At
<1>2. CASE Pipeline!Fails(r)
  BY <1>1, <1>2, EndsAlone DEF Pipeline!Fails, BeforeSaved, WithLocks, Codes, Statuses
<1>3. CASE /\ run' = [run EXCEPT ![r].merged = run[r].copies, ![r].at = "publishing"]
           /\ snapshot' = snapshot /\ health' = health /\ resource' = resource /\ pair' = pair
           /\ scanned' = scanned /\ torn' = torn /\ bad' = bad
  <2> DEFINE new == [run[r] EXCEPT !.merged = run[r].copies, !.at = "publishing"]
  <2>1. run[r] \in PipelineRuns /\ run \in [Runners -> {Pipeline!Idle} \cup PipelineRuns]
    BY <1>1, PipelineRun DEF PipelineKnows, PipelineShapes
  <2>2. new \in PipelineRuns /\ run' = [run EXCEPT ![r] = new] /\ run'[r] = new
    BY <1>3, <2>1 DEF PipelineRuns, BeforeSaved
  <2>3. /\ run'[r].at = "publishing" /\ run'[r].merged = run[r].copies
        /\ run'[r].collected = run[r].collected /\ run'[r].failed = run[r].failed
        /\ run'[r].required_failed = run[r].required_failed /\ run'[r].previous = run[r].previous
    BY <2>1, <2>2 DEF PipelineRuns
  <2>4. RunnerInv(r)'
    <3>1. RunnerInv(r)
      BY DEF PipelineKnows
    <3>2. Accounted(r, Pipeline!Sources, DOMAIN run[r].merged)'
      BY <1>1, <2>3, <3>1 DEF RunnerInv, Accounted
    <3>3. InBounds(run[r].merged)'
      <4>1. NewerNext(run[r].copies)
        BY <1>1, <1>3, <3>1 DEF RunnerInv, InBounds, NewerNext
      <4>2. NewerNext(run'[r].merged)
        BY <2>3, <4>1
      <4> QED BY <4>2 DEF InBounds, NewerNext
    <3> HIDE DEF new, Accounted, InBounds
    <3> QED BY <1>1, <1>3, <2>3, <3>1, <3>2, <3>3 DEF RunnerInv, WithLocks, BeforeSaved
  <2> HIDE DEF new
  <2> QED BY <1>1, <1>3, <2>2, <2>4, OwnStep DEF PipelineKnows, PipelineShapes
<1> QED BY <1>2, <1>3 DEF Pipeline!Merge, Pipeline!Goes, Pipeline!history

LEMMA WriteInventorySteps ==
    ASSUME PipelineKnows, Pipeline!PipelineAssumption, NEW r \in Runners,
           Pipeline!WriteInventory(r)
    PROVE  PipelineKnows'
<1> DEFINE new == [run[r] EXCEPT !.at = "written", !.copies = pair.inv]
<1>1. /\ run[r].at = "publishing" /\ run' = [run EXCEPT ![r].at = "written", ![r].copies = pair.inv]
      /\ pair' = [pair EXCEPT !.inv = run[r].merged]
      /\ snapshot' = snapshot /\ health' = health /\ resource' = resource
      /\ scanned' = scanned /\ torn' = torn /\ bad' = bad
  BY DEF Pipeline!WriteInventory, Pipeline!At, Pipeline!history
<1>2. run[r] \in PipelineRuns /\ run \in [Runners -> {Pipeline!Idle} \cup PipelineRuns]
      /\ pair \in [inv : Versions, man : Versions]
  BY <1>1, PipelineRun DEF PipelineKnows, PipelineShapes
<1>3. new \in PipelineRuns /\ run' = [run EXCEPT ![r] = new] /\ run'[r] = new
  BY <1>1, <1>2 DEF PipelineRuns, BeforeSaved
<1>4. /\ run'[r].at = "written" /\ run'[r].merged = run[r].merged /\ run'[r].copies = pair.inv
      /\ run'[r].collected = run[r].collected /\ run'[r].failed = run[r].failed
      /\ run'[r].required_failed = run[r].required_failed /\ run'[r].previous = run[r].previous
  BY <1>2, <1>3 DEF PipelineRuns
<1>5. /\ pair' \in [inv : Versions, man : Versions]
      /\ pair'.inv = run[r].merged /\ pair'.man = pair.man
  BY <1>1, <1>2 DEF PipelineRuns
<1>6. RunnerInv(r) /\ resource = r
  BY <1>1 DEF PipelineKnows, RunnerInv, WithLocks
<1>7. pair.inv # pair.man => torn
  <2> SUFFICES ASSUME NEW q \in Runners, run[q].at = "written" PROVE FALSE
    BY DEF PipelineKnows
  <2>1. resource = q
    BY DEF PipelineKnows, RunnerInv, WithLocks
  <2> QED BY <1>1, <1>6, <2>1
<1>8. RunnerInv(r)'
  <2>1. Accounted(r, Pipeline!Sources, DOMAIN run[r].merged)'
    BY <1>1, <1>4, <1>6 DEF RunnerInv, Accounted
  <2>2. InBounds(run[r].merged)'
    BY <1>1, <1>4, <1>6 DEF RunnerInv, InBounds
  <2> HIDE DEF new, Accounted, InBounds
  <2> QED BY <1>1, <1>4, <1>5, <1>6, <1>7, <2>1, <2>2 DEF RunnerInv, WithLocks, BeforeSaved
<1> HIDE DEF new
<1>9. /\ \A q \in Runners \ {r} : Untouched(q)
      /\ run' \in [Runners -> {Pipeline!Idle} \cup PipelineRuns]
  BY <1>1, <1>2, <1>3 DEF Untouched
<1>10. PipelineShapes'
  BY <1>1, <1>5, <1>9 DEF PipelineKnows, PipelineShapes
<1>11. Grow
  BY <1>1 DEF Grow, PipelineKnows, PipelineShapes
<1>12. \A s \in DOMAIN scanned' : scanned'[s] <= snapshot'[s].inv
  BY <1>1 DEF PipelineKnows
<1> QED BY <1>1, <1>4, <1>6, <1>8, <1>9, <1>10, <1>11, <1>12, RunnerSteps

LEMMA WriteManifestSteps ==
    ASSUME PipelineKnows, Pipeline!PipelineAssumption, NEW r \in Runners,
           Pipeline!WriteManifest(r)
    PROVE  PipelineKnows'
<1> DEFINE new == [run[r] EXCEPT !.at = "scan"]
<1>1. /\ run[r].at = "written" /\ run' = [run EXCEPT ![r].at = "scan"]
      /\ pair' = [pair EXCEPT !.man = run[r].merged] /\ torn' = FALSE
      /\ snapshot' = snapshot /\ health' = health /\ resource' = resource
      /\ scanned' = scanned /\ bad' = bad
  BY DEF Pipeline!WriteManifest, Pipeline!At, Pipeline!Goes
<1>2. run[r] \in PipelineRuns /\ run \in [Runners -> {Pipeline!Idle} \cup PipelineRuns]
      /\ pair \in [inv : Versions, man : Versions]
  BY <1>1, PipelineRun DEF PipelineKnows, PipelineShapes
<1>3. new \in PipelineRuns /\ run' = [run EXCEPT ![r] = new] /\ run'[r] = new
  BY <1>1, <1>2 DEF PipelineRuns, BeforeSaved
<1>4. /\ run'[r].at = "scan" /\ run'[r].merged = run[r].merged
      /\ run'[r].collected = run[r].collected /\ run'[r].failed = run[r].failed
      /\ run'[r].required_failed = run[r].required_failed /\ run'[r].previous = run[r].previous
  BY <1>2, <1>3 DEF PipelineRuns
<1>5. RunnerInv(r) /\ resource = r /\ pair.inv = run[r].merged
  BY <1>1 DEF PipelineKnows, RunnerInv, WithLocks
<1>6. /\ pair' \in [inv : Versions, man : Versions]
      /\ pair'.inv = run[r].merged /\ pair'.man = run[r].merged
  BY <1>1, <1>2, <1>5 DEF PipelineRuns
<1>7. RunnerInv(r)'
  <2>1. Accounted(r, Pipeline!Sources, DOMAIN run[r].merged)'
    BY <1>1, <1>4, <1>5 DEF RunnerInv, Accounted
  <2>2. InBounds(run[r].merged)'
    BY <1>1, <1>4, <1>5 DEF RunnerInv, InBounds
  <2> HIDE DEF new, Accounted, InBounds
  <2> QED BY <1>1, <1>4, <1>5, <1>6, <2>1, <2>2 DEF RunnerInv, WithLocks, BeforeSaved
<1> HIDE DEF new
<1>8. /\ \A q \in Runners \ {r} : Untouched(q)
      /\ run' \in [Runners -> {Pipeline!Idle} \cup PipelineRuns]
  BY <1>1, <1>2, <1>3 DEF Untouched
<1>9. PipelineShapes'
  BY <1>1, <1>6, <1>8 DEF PipelineKnows, PipelineShapes
<1>10. Grow
  BY <1>1 DEF Grow, PipelineKnows, PipelineShapes
<1>11. \A s \in DOMAIN scanned' : scanned'[s] <= snapshot'[s].inv
  BY <1>1 DEF PipelineKnows
<1> QED BY <1>1, <1>5, <1>6, <1>7, <1>8, <1>9, <1>10, <1>11, RunnerSteps

\* The inventory of before is put back, or the pair is known to be torn.
LEMMA UndoSteps ==
    ASSUME PipelineKnows, Pipeline!PipelineAssumption, NEW r \in Runners,
           NEW code \in Codes, NEW status \in {"failed", "interrupted"},
           Pipeline!Undo(r, code, status)
    PROVE  PipelineKnows'
<1>1. /\ run[r].at = "written" /\ snapshot' = snapshot /\ resource' = resource /\ scanned' = scanned
  BY DEF Pipeline!Undo, Pipeline!At
<1>2. run[r] \in PipelineRuns /\ pair \in [inv : Versions, man : Versions] /\ run[r].copies \in Versions
  BY <1>1, PipelineRun DEF PipelineKnows, PipelineShapes, PipelineRuns
<1>3. RunnerInv(r) /\ resource = r /\ (run[r].copies # pair.man => torn)
  BY <1>1 DEF PipelineKnows, RunnerInv, WithLocks
<1>4. PICK c \in Codes, st \in {"failed", "interrupted"} :
         /\ Pipeline!Saved(r, c, st)
         /\ \/ pair' = [pair EXCEPT !.inv = run[r].copies] /\ torn' = torn
            \/ torn' = TRUE /\ pair' = pair
  BY DEF Pipeline!Undo, Pipeline!Restored, Codes
<1>5. st \in Statuses /\ st # "operational"
  BY DEF Statuses
<1>6. /\ run' \in [Runners -> {Pipeline!Idle} \cup PipelineRuns]
      /\ health' \in [Runners -> [status : Statuses, consecutive : Nat]]
      /\ bad' \in [Runners -> Nat]
      /\ \A q \in Runners \ {r} : Untouched(q)
  BY <1>1, <1>4, <1>5, Saves DEF PipelineKnows
<1>7. /\ pair' \in [inv : Versions, man : Versions] /\ torn' \in BOOLEAN
      /\ pair'.inv # pair'.man => torn'
  <2>1. torn \in BOOLEAN
    BY DEF PipelineKnows, PipelineShapes
  <2>2. CASE pair' = [pair EXCEPT !.inv = run[r].copies] /\ torn' = torn
    <3>1. pair' \in [inv : Versions, man : Versions] /\ pair'.inv = run[r].copies /\ pair'.man = pair.man
      BY <1>2, <2>2
    <3> QED BY <1>3, <2>1, <2>2, <3>1
  <2>3. CASE torn' = TRUE /\ pair' = pair
    BY <1>2, <2>3
  <2> QED BY <1>4, <2>2, <2>3
<1>8. PipelineShapes'
  BY <1>1, <1>6, <1>7 DEF PipelineKnows, PipelineShapes
<1>9. Grow
  BY <1>1 DEF Grow, PipelineKnows, PipelineShapes
<1>10. RunnerInv(r)'
  <2>1. run[r].at \in BeforeSaved /\ run[r].at \in WithLocks
    BY <1>1 DEF BeforeSaved, WithLocks
  <2> QED BY <1>1, <1>3, <1>4, <1>5, <2>1, RunEnds DEF PipelineKnows
<1>11. \A s \in DOMAIN scanned' : scanned'[s] <= snapshot'[s].inv
  BY <1>1 DEF PipelineKnows
<1> QED BY <1>1, <1>3, <1>6, <1>7, <1>8, <1>9, <1>10, <1>11, RunnerSteps

LEMMA WriteFailsSteps ==
    ASSUME PipelineKnows, Pipeline!PipelineAssumption, NEW r \in Runners,
           Pipeline!WriteFails(r)
    PROVE  PipelineKnows'
<1>1. CASE Pipeline!Undo(r, 2, "failed")
  BY <1>1, UndoSteps DEF Codes
<1>2. CASE run[r].at = "publishing" /\ Pipeline!Fails(r)
  BY <1>2, EndsAlone DEF Pipeline!Fails, BeforeSaved, WithLocks, Codes, Statuses
<1> QED BY <1>1, <1>2 DEF Pipeline!WriteFails, Pipeline!At

LEMMA InterruptSteps ==
    ASSUME PipelineKnows, Pipeline!PipelineAssumption, NEW r \in Runners,
           Pipeline!Interrupt(r)
    PROVE  PipelineKnows'
<1>1. CASE Pipeline!Undo(r, 130, "interrupted")
  BY <1>1, UndoSteps DEF Codes
<1>2. CASE /\ run[r].at \in {"locks", "sources", "copying", "publishing", "scan"}
           /\ Pipeline!Saved(r, 130, "interrupted")
           /\ UNCHANGED <<snapshot, resource, pair, runs, scanned, torn>>
  BY <1>2, EndsAlone DEF BeforeSaved, WithLocks, Codes, Statuses
<1> QED BY <1>1, <1>2 DEF Pipeline!Interrupt

LEMMA ScanSteps ==
    ASSUME PipelineKnows, Pipeline!PipelineAssumption, NEW r \in Runners, Pipeline!Scan(r)
    PROVE  PipelineKnows'
<1>1. /\ run[r].at = "scan" /\ scanned' = pair.inv
      /\ snapshot' = snapshot /\ resource' = resource /\ pair' = pair /\ torn' = torn
  BY DEF Pipeline!Scan, Pipeline!At
<1>2. /\ RunnerInv(r) /\ resource = r /\ pair.inv = run[r].merged /\ pair.man = run[r].merged
      /\ InBounds(run[r].merged) /\ Accounted(r, Pipeline!Sources, DOMAIN run[r].merged)
  BY <1>1 DEF PipelineKnows, RunnerInv, WithLocks
<1>3. /\ run[r] \in PipelineRuns /\ pair \in [inv : Versions, man : Versions]
      /\ run[r].merged \in Versions /\ run[r].collected \subseteq Pipeline!Sources
  BY <1>1, PipelineRun DEF PipelineKnows, PipelineShapes, PipelineRuns
<1>4. PICK code \in Codes, status \in Statuses :
         /\ Pipeline!Saved(r, code, status)
         /\ status \in {"operational", "coverage_warning", "degraded", "failed"}
         /\ status = "operational" => ~run[r].failed
  <2>1. CASE Pipeline!Saved(r, 2, "failed")
    BY <2>1 DEF Codes, Statuses
  <2>2. CASE \E core \in {0, 3, 4}, unhealthy \in BOOLEAN :
            LET code == IF core = 0 /\ (run[r].failed \/ unhealthy) THEN 5 ELSE core
            IN  Pipeline!Saved(r, code,
                    CASE code = 0 -> "operational"   [] code = 4 -> "coverage_warning"
                      [] code = 5 -> "degraded"      [] OTHER    -> "failed")
    <3>1. PICK core \in {0, 3, 4}, unhealthy \in BOOLEAN :
            LET code == IF core = 0 /\ (run[r].failed \/ unhealthy) THEN 5 ELSE core
            IN  Pipeline!Saved(r, code,
                    CASE code = 0 -> "operational"   [] code = 4 -> "coverage_warning"
                      [] code = 5 -> "degraded"      [] OTHER    -> "failed")
      BY <2>2
    <3> DEFINE code == IF core = 0 /\ (run[r].failed \/ unhealthy) THEN 5 ELSE core
               status == CASE code = 0 -> "operational"   [] code = 4 -> "coverage_warning"
                           [] code = 5 -> "degraded"      [] OTHER    -> "failed"
    <3>2. Pipeline!Saved(r, code, status)
      BY <3>1
    <3>3. code \in {0, 3, 4, 5} /\ (code = 0 => ~run[r].failed)
      OBVIOUS
    <3> HIDE DEF code
    <3>4. /\ status \in {"operational", "coverage_warning", "degraded", "failed"}
          /\ status = "operational" => code = 0
      BY <3>3
    <3> HIDE DEF status
    <3> QED BY <3>2, <3>3, <3>4 DEF Codes, Statuses
  <2> QED BY <2>1, <2>2 DEF Pipeline!Scan
<1>5. /\ run' \in [Runners -> {Pipeline!Idle} \cup PipelineRuns]
      /\ health' \in [Runners -> [status : Statuses, consecutive : Nat]]
      /\ bad' \in [Runners -> Nat]
      /\ \A q \in Runners \ {r} : Untouched(q)
  BY <1>1, <1>4, Saves DEF PipelineKnows
<1>6. PipelineShapes'
  BY <1>1, <1>3, <1>5 DEF PipelineKnows, PipelineShapes
<1>7. Grow
  BY <1>1 DEF Grow, PipelineKnows, PipelineShapes
<1>8. RunnerInv(r)'
  <2>1. run[r].at \in BeforeSaved /\ run[r].at \in WithLocks
    BY <1>1 DEF BeforeSaved, WithLocks
  <2>2. status = "operational" =>
            DOMAIN run[r].merged = Pipeline!Sources /\ run[r].collected = Pipeline!Sources
    BY <1>2, <1>3, <1>4, VersionsAre DEF Accounted
  <2> QED BY <1>1, <1>2, <1>4, <2>1, <2>2, RunEnds DEF PipelineKnows
<1>9. \A s \in DOMAIN scanned' : scanned'[s] <= snapshot'[s].inv
  BY <1>1, <1>2 DEF InBounds
<1>10. pair'.inv = pair'.man
  BY <1>1, <1>2
<1> QED BY <1>1, <1>2, <1>5, <1>6, <1>7, <1>8, <1>9, <1>10, RunnerSteps

LEMMA OperationsSteps ==
    ASSUME PipelineKnows, Pipeline!PipelineAssumption, NEW r \in Runners,
           Pipeline!Operations(r)
    PROVE  PipelineKnows'
<1> DEFINE new == [run[r] EXCEPT !.at = "leaving"]
           counted == [status |-> "degraded", consecutive |-> run[r].previous + 1]
<1>1. /\ run[r].at = "operations" /\ run' = [run EXCEPT ![r].at = "leaving"]
      /\ snapshot' = snapshot /\ resource' = resource /\ pair' = pair
      /\ scanned' = scanned /\ torn' = torn
      /\ \/ health' = health /\ bad' = bad
         \/ /\ health' = [health EXCEPT ![r] = counted]
            /\ bad' = [bad EXCEPT ![r] = run[r].previous + 1]
  BY DEF Pipeline!Operations, Pipeline!At, Pipeline!Goes
<1>2. /\ run[r] \in PipelineRuns /\ run \in [Runners -> {Pipeline!Idle} \cup PipelineRuns]
      /\ run[r].previous \in Nat /\ counted \in [status : Statuses, consecutive : Nat]
  BY <1>1, PipelineRun DEF PipelineKnows, PipelineShapes, PipelineRuns, Statuses
<1>3. new \in PipelineRuns /\ run' = [run EXCEPT ![r] = new] /\ run'[r] = new
  BY <1>1, <1>2 DEF PipelineRuns, BeforeSaved
<1>4. /\ run'[r].at = "leaving" /\ run'[r].merged = run[r].merged
      /\ run'[r].collected = run[r].collected
  BY <1>2, <1>3 DEF PipelineRuns
<1>5. /\ health' \in [Runners -> [status : Statuses, consecutive : Nat]] /\ bad' \in [Runners -> Nat]
      /\ \A q \in Runners \ {r} : health'[q] = health[q] /\ bad'[q] = bad[q]
      /\ health'[r].status = "operational" => health[r].status = "operational"
      /\ health'[r].consecutive = bad'[r]
  <2>1. health[r].consecutive = bad[r]
    BY DEF PipelineKnows, RunnerInv
  <2>2. health \in [Runners -> [status : Statuses, consecutive : Nat]] /\ bad \in [Runners -> Nat]
    BY DEF PipelineKnows, PipelineShapes
  <2>3. counted.status # "operational" /\ counted.consecutive = run[r].previous + 1
    OBVIOUS
  <2>4. counted \in [status : Statuses, consecutive : Nat] /\ run[r].previous + 1 \in Nat
    BY <1>2
  <2> HIDE DEF counted
  <2>5. CASE health' = health /\ bad' = bad
    BY <2>1, <2>2, <2>5
  <2>6. CASE /\ health' = [health EXCEPT ![r] = counted]
             /\ bad' = [bad EXCEPT ![r] = run[r].previous + 1]
    BY <2>2, <2>3, <2>4, <2>6
  <2> QED BY <1>1, <2>5, <2>6 DEF counted
<1>6. RunnerInv(r)'
  <2>1. RunnerInv(r)
    BY DEF PipelineKnows
  <2> HIDE DEF new, counted
  <2> QED BY <1>1, <1>4, <1>5, <2>1 DEF RunnerInv, WithLocks, BeforeSaved
<1> HIDE DEF new, counted
<1> QED BY <1>1, <1>3, <1>5, <1>6, OwnStep

LEMMA LeaveSteps ==
    ASSUME PipelineKnows, Pipeline!PipelineAssumption, NEW r \in Runners, Pipeline!Leave(r)
    PROVE  PipelineKnows'
<1> DEFINE new == [run[r] EXCEPT !.at = "idle"]
<1>1. /\ run[r].at = "leaving" /\ run' = [run EXCEPT ![r].at = "idle"]
      /\ resource' = IF resource = r THEN NoRunner ELSE resource
      /\ snapshot' = snapshot /\ health' = health /\ pair' = pair
      /\ scanned' = scanned /\ torn' = torn /\ bad' = bad
  BY DEF Pipeline!Leave, Pipeline!At, Pipeline!Unlocked, Pipeline!history
<1>2. run[r] \in PipelineRuns /\ run \in [Runners -> {Pipeline!Idle} \cup PipelineRuns]
  BY <1>1, PipelineRun DEF PipelineKnows, PipelineShapes
<1>3. new \in PipelineRuns /\ run' = [run EXCEPT ![r] = new] /\ run'[r] = new /\ new.at = "idle"
  BY <1>1, <1>2 DEF PipelineRuns
<1>4. RunnerInv(r)'
  BY <1>1, <1>3 DEF PipelineKnows, RunnerInv, WithLocks, BeforeSaved
<1> HIDE DEF new
<1>5. resource' = resource \/ (resource \in {r, NoRunner} /\ resource' \in {r, NoRunner})
  BY <1>1
<1> QED BY <1>1, <1>3, <1>4, <1>5, OwnStep DEF PipelineKnows, PipelineShapes

LEMMA CrashSteps ==
    ASSUME PipelineKnows, Pipeline!PipelineAssumption, NEW r \in Runners, Pipeline!Crash(r)
    PROVE  PipelineKnows'
<1>1. /\ run' = [run EXCEPT ![r] = Pipeline!Idle]
      /\ resource' = IF resource = r THEN NoRunner ELSE resource
      /\ snapshot' = snapshot /\ health' = health /\ pair' = pair
      /\ scanned' = scanned /\ bad' = bad
      /\ torn' = (torn \/ run[r].at = "written")
  BY DEF Pipeline!Crash, Pipeline!At, Pipeline!Unlocked
<1>2. run'[r].at = "idle" /\ run' \in [Runners -> {Pipeline!Idle} \cup PipelineRuns]
  BY <1>1 DEF PipelineKnows, PipelineShapes, Pipeline!Idle
<1>3. RunnerInv(r)'
  BY <1>1, <1>2 DEF PipelineKnows, RunnerInv, WithLocks, BeforeSaved
<1>4. \A q \in Runners \ {r} : Untouched(q)
  BY <1>1 DEF Untouched, PipelineKnows, PipelineShapes
<1>5. resource' \in Runners \cup {NoRunner} /\ torn' \in BOOLEAN
      /\ (resource' = resource \/ resource \in {r, NoRunner}) /\ (torn => torn')
  BY <1>1 DEF PipelineKnows, PipelineShapes
<1>6. PipelineShapes'
  BY <1>1, <1>2, <1>5 DEF PipelineKnows, PipelineShapes
<1>7. Grow
  BY <1>1 DEF Grow, PipelineKnows, PipelineShapes
<1>8. \A s \in DOMAIN scanned' : scanned'[s] <= snapshot'[s].inv
  BY <1>1 DEF PipelineKnows
<1>9. pair'.inv # pair'.man => torn' \/ \E q \in Runners : run'[q].at = "written"
  BY <1>1, <1>4 DEF PipelineKnows, Untouched
<1> QED BY <1>1, <1>3, <1>4, <1>5, <1>6, <1>7, <1>8, <1>9, RunnerSteps
-----------------------------------------------------------------------------
LEMMA PipelineStep ==
    ASSUME Pipeline!PipelineAssumption, PipelineKnows, [Pipeline!Next]_(Pipeline!vars)
    PROVE  PipelineKnows'
<1>1. CASE UNCHANGED Pipeline!vars
  <2>1. /\ snapshot' = snapshot /\ run' = run /\ health' = health /\ resource' = resource
        /\ pair' = pair /\ scanned' = scanned /\ torn' = torn /\ bad' = bad
    BY <1>1 DEF Pipeline!vars, Pipeline!history
  <2>2. PipelineShapes'
    BY <2>1 DEF PipelineKnows, PipelineShapes
  <2>3. Grow
    BY <2>1 DEF Grow, PipelineKnows, PipelineShapes
  <2>4. \A q \in Runners : RunnerInv(q)'
    BY <2>1, <2>3, RunnersStay DEF PipelineKnows, Untouched
  <2> QED BY <2>1, <2>2, <2>4 DEF PipelineKnows
<1>2. CASE \/ \E s \in Local : Pipeline!ReplaceInventory(s) \/ Pipeline!ReplaceManifest(s)
           \/ \E s \in Pipeline!Sources : Pipeline!Age(s)
  BY <1>2, WorldSteps
<1>3. ASSUME NEW r \in Runners,
             \/ Pipeline!Start(r) \/ Pipeline!Lock(r) \/ Pipeline!Decide(r) \/ Pipeline!Merge(r)
             \/ Pipeline!WriteInventory(r) \/ Pipeline!WriteManifest(r)
             \/ Pipeline!WriteFails(r) \/ Pipeline!Scan(r) \/ Pipeline!Operations(r)
             \/ Pipeline!Leave(r) \/ Pipeline!Interrupt(r) \/ Pipeline!Crash(r)
             \/ \E s \in Pipeline!Sources : Pipeline!Source(r, s) \/ Pipeline!Copy(r, s)
      PROVE  PipelineKnows'
  BY <1>3, StartSteps, LockSteps, DecideSteps, MergeSteps, WriteInventorySteps, WriteManifestSteps,
     WriteFailsSteps, ScanSteps, OperationsSteps, LeaveSteps, InterruptSteps, CrashSteps,
     SourceSteps, CopySteps
<1> QED BY <1>1, <1>2, <1>3 DEF Pipeline!Next

\* Who changes what was scanned, and the inventory.
LEMMA Publishers ==
    ASSUME [Pipeline!Next]_(Pipeline!vars)
    PROVE  /\ scanned' = scanned \/ \E r \in Runners : Pipeline!Scan(r)
           /\ pair' = pair \/ \E r \in Runners : Pipeline!At(r, "written") \/ Pipeline!WriteInventory(r)
<1>1. CASE \/ UNCHANGED Pipeline!vars
           \/ \E s \in Local : Pipeline!ReplaceInventory(s) \/ Pipeline!ReplaceManifest(s)
           \/ \E s \in Pipeline!Sources : Pipeline!Age(s)
  BY <1>1 DEF Pipeline!vars, Pipeline!history, Pipeline!ReplaceInventory,
              Pipeline!ReplaceManifest, Pipeline!Age
<1>2. ASSUME NEW r \in Runners,
             \/ Pipeline!Start(r) \/ Pipeline!Lock(r) \/ Pipeline!Decide(r) \/ Pipeline!Merge(r)
             \/ \E s \in Pipeline!Sources : Pipeline!Source(r, s) \/ Pipeline!Copy(r, s)
      PROVE  scanned' = scanned /\ pair' = pair
  <2>1. CASE Pipeline!Fails(r)
    BY <2>1 DEF Pipeline!Fails
  <2>2. CASE UNCHANGED <<scanned, pair>>
    BY <2>2
  <2>3. Pipeline!Start(r) \/ Pipeline!Lock(r) => UNCHANGED <<scanned, pair>>
    BY DEF Pipeline!Start, Pipeline!Lock
  <2>4. Pipeline!Decide(r) \/ Pipeline!Merge(r) => Pipeline!Fails(r) \/ UNCHANGED <<scanned, pair>>
    BY DEF Pipeline!Decide, Pipeline!Merge, Pipeline!history
  <2>5. \A s \in Pipeline!Sources :
            Pipeline!Source(r, s) \/ Pipeline!Copy(r, s) => Pipeline!Fails(r) \/ UNCHANGED <<scanned, pair>>
    BY DEF Pipeline!Source, Pipeline!Copy, Pipeline!history
  <2> QED BY <1>2, <2>1, <2>2, <2>3, <2>4, <2>5
<1>3. ASSUME NEW r \in Runners, Pipeline!Operations(r) \/ Pipeline!Leave(r) \/ Pipeline!Crash(r)
      PROVE  scanned' = scanned /\ pair' = pair
  BY <1>3 DEF Pipeline!Operations, Pipeline!Leave, Pipeline!Crash, Pipeline!history
<1>4. ASSUME NEW r \in Runners, Pipeline!WriteFails(r) \/ Pipeline!Interrupt(r)
      PROVE  scanned' = scanned /\ (pair' = pair \/ Pipeline!At(r, "written"))
  BY <1>4 DEF Pipeline!WriteFails, Pipeline!Interrupt, Pipeline!Undo, Pipeline!Fails
<1>5. ASSUME NEW r \in Runners, Pipeline!WriteManifest(r)
      PROVE  scanned' = scanned /\ Pipeline!At(r, "written")
  BY <1>5 DEF Pipeline!WriteManifest
<1>6. ASSUME NEW r \in Runners, Pipeline!WriteInventory(r)
      PROVE  scanned' = scanned
  BY <1>6 DEF Pipeline!WriteInventory, Pipeline!history
<1>7. ASSUME NEW r \in Runners, Pipeline!Scan(r)
      PROVE  pair' = pair
  BY <1>7 DEF Pipeline!Scan
<1> QED BY <1>1, <1>2, <1>3, <1>4, <1>5, <1>6, <1>7 DEF Pipeline!Next

\* A scan sees nothing that is older than what the scan before saw.
LEMMA ScanAdvances ==
    ASSUME Pipeline!PipelineAssumption, PipelineKnows, [Pipeline!Next]_(Pipeline!vars)
    PROVE  Pipeline!ScansAdvance
<1>1. CASE scanned' = scanned
  <2>1. \A s \in DOMAIN scanned : scanned[s] \in 0..MaxVersion
    BY VersionsAre DEF PipelineKnows, PipelineShapes
  <2> QED BY <1>1, <2>1 DEF Pipeline!ScansAdvance
<1>2. CASE \E r \in Runners : Pipeline!Scan(r)
  <2>1. PICK r \in Runners : Pipeline!Scan(r)
    BY <1>2
  <2>2. run[r].at = "scan" /\ scanned' = pair.inv
    BY <2>1 DEF Pipeline!Scan, Pipeline!At
  <2>3. pair.inv = run[r].merged /\ InBounds(run[r].merged)
    BY <2>2 DEF PipelineKnows, RunnerInv
  <2> QED BY <2>2, <2>3 DEF Pipeline!ScansAdvance, InBounds
<1>3. scanned' = scanned \/ \E r \in Runners : Pipeline!Scan(r)
  BY Publishers
<1> QED BY <1>1, <1>2, <1>3

\* The inventory of before gives way to a complete one, or comes back.
LEMMA GoodStays ==
    ASSUME Pipeline!PipelineAssumption, PipelineKnows, [Pipeline!Next]_(Pipeline!vars)
    PROVE  Pipeline!LastGoodStays
<1>1. CASE pair'.inv = pair.inv
  BY <1>1 DEF Pipeline!LastGoodStays
<1>2. CASE \E r \in Runners : Pipeline!At(r, "written")
  BY <1>2 DEF Pipeline!LastGoodStays
<1>3. CASE \E r \in Runners : Pipeline!WriteInventory(r)
  <2>1. PICK r \in Runners : Pipeline!WriteInventory(r)
    BY <1>3
  <2>2. run[r].at = "publishing" /\ pair' = [pair EXCEPT !.inv = run[r].merged]
    BY <2>1 DEF Pipeline!WriteInventory, Pipeline!At
  <2>3. pair'.inv = run[r].merged
    BY <2>2 DEF PipelineKnows, PipelineShapes
  <2>4. resource = r /\ ~run[r].required_failed
        /\ Accounted(r, Pipeline!Sources, DOMAIN run[r].merged)
    BY <2>2 DEF PipelineKnows, RunnerInv, WithLocks
  <2>5. Required \subseteq run[r].collected \cap DOMAIN pair'.inv
    BY <2>3, <2>4 DEF Accounted, Pipeline!PipelineAssumption
  <2> QED BY <2>2, <2>4, <2>5 DEF Pipeline!LastGoodStays, Pipeline!At
<1>4. pair' = pair \/ \E r \in Runners : Pipeline!At(r, "written") \/ Pipeline!WriteInventory(r)
  BY Publishers
<1> QED BY <1>1, <1>2, <1>3, <1>4

LEMMA PipelineImplies ==
    ASSUME PipelineKnows
    PROVE  Pipeline!PipelineInv
<1>1. Pipeline!TypeOK
  BY DEF PipelineKnows, PipelineShapes, Pipeline!TypeOK
<1>2. Pipeline!PairIsWhole
  BY DEF PipelineKnows, Pipeline!PairIsWhole, Pipeline!At
<1>3. Pipeline!PublishedStays
  BY DEF PipelineKnows, RunnerInv, Pipeline!PublishedStays, Pipeline!At
<1>4. Pipeline!OperationalIsComplete
  BY DEF PipelineKnows, RunnerInv, Pipeline!OperationalIsComplete
<1>5. Pipeline!FailuresAreCounted
  BY DEF PipelineKnows, RunnerInv, Pipeline!FailuresAreCounted
<1> QED BY <1>1, <1>2, <1>3, <1>4, <1>5 DEF Pipeline!PipelineInv

\* Runs that share an inventory, are refused, interrupted and die between any two steps:
\* the inventory and its manifest agree or are known not to, what is scanned is what was
\* published whole and never older than before, a run is only called operational when it
\* is complete, and its failures are counted.
THEOREM PipelineCorrect ==
    Pipeline!PipelineAssumption =>
        (Pipeline!Spec => []Pipeline!PipelineInv /\ [][Pipeline!PipelineSteps]_(Pipeline!vars))
<1> SUFFICES ASSUME Pipeline!PipelineAssumption
             PROVE  Pipeline!Spec => []Pipeline!PipelineInv /\ [][Pipeline!PipelineSteps]_(Pipeline!vars)
  OBVIOUS
<1>1. Pipeline!Init => PipelineKnows
  BY PipelineStart
<1>2. PipelineKnows /\ [Pipeline!Next]_(Pipeline!vars) => PipelineKnows'
  BY PipelineStep
<1>3. PipelineKnows => Pipeline!PipelineInv
  BY PipelineImplies
<1>4. PipelineKnows /\ [Pipeline!Next]_(Pipeline!vars) => [Pipeline!PipelineSteps]_(Pipeline!vars)
  BY ScanAdvances, GoodStays DEF Pipeline!PipelineSteps
<1> QED BY <1>1, <1>2, <1>3, <1>4, PTL DEF Pipeline!Spec
-----------------------------------------------------------------------------
(* The configuration editor. *)

Docs == ConfigSave!Docs
Legible == Docs \cup {Broken}
Files == [doc : Docs \cup {Broken, Missing}, ver : Nat]
Previews == [doc : Docs, ver : Nat, rollback : BOOLEAN, rotates : BOOLEAN, lockout : BOOLEAN]
SavePhases ==
    {"prepared", "locked", "rotated", "kept", "published", "committed", "refused", "failing"}
Ongoing ==
    [phase : SavePhases, who : People, new : Previews, old : Files, confirmed : BOOLEAN,
     secret : 0..1, backups : Seq(Legible), applied : BOOLEAN, published : BOOLEAN]

ConfigShapes ==
    /\ file \in Files /\ file.ver <= MaxVersion + 1
    /\ secret \in 0..1 /\ backups \in Seq(Legible)
    /\ running \in Docs \cup {Nothing} /\ may \in [People -> ConfigSave!Rights]
    /\ accounts \in People \cup {Nothing}
    /\ pending \in [People -> Previews \cup {Nothing}]
    /\ save \in {ConfigSave!Idle} \cup Ongoing
    /\ job \in BOOLEAN /\ reserved \in BOOLEAN
    /\ replaced \in Legible \cup {Nothing}

Holds(text) == replaced # Nothing => replaced \in ConfigSave!ToSet(text)

\* The backups once the original is kept, and what a published save replaced.
WithOriginal == IF save.old.doc = Missing THEN save.backups ELSE Append(save.backups, save.old.doc)
Original == IF save.old.doc = Missing THEN Nothing ELSE save.old.doc

\* The save that runs has the account database while it writes, and may do what it does.
SaveRuns ==
    save # ConfigSave!Idle =>
        /\ running \in Docs /\ reserved /\ (ConfigSave!Moves(save.new.doc) => ~job)
        /\ save.old.ver = save.new.ver
        /\ accounts = IF save.phase \in {"locked", "rotated", "kept", "published", "refused"}
                      THEN save.who ELSE Nothing
        /\ save.phase \in {"locked", "rotated", "kept"} => ConfigSave!StillAllowed

\* What a save has done to the file and its backups, by its place.
SaveWrites ==
    save # ConfigSave!Idle =>
        /\ ~save.published =>
               /\ Holds(save.backups)
               /\ save.old.ver <= file.ver /\ (file.ver = save.old.ver => file = save.old)
        /\ save.published => save.phase \in {"published", "committed", "failing"} /\ file.ver <= MaxVersion
        /\ save.phase \in {"prepared", "locked", "rotated"} => backups = save.backups
        /\ save.phase \in {"kept", "published", "committed"} => backups = WithOriginal
        /\ save.phase \in {"published", "committed"} => save.published /\ replaced = Original

NobodySaves == save = ConfigSave!Idle => ~reserved /\ accounts = Nothing

ConfigKnows == ConfigShapes /\ Holds(backups) /\ SaveRuns /\ SaveWrites /\ NobodySaves

ConfigGoal == ConfigKnows' /\ ConfigSave!SaveIsSafe

\* A save that runs is a record of one; none runs as long as it is idle.
LEMMA SaveIs ==
    /\ ConfigSave!Idle.phase = "idle" /\ ConfigSave!Idle \notin Ongoing
    /\ save \in Ongoing => save.phase \in SavePhases /\ save.phase # "idle" /\ save # ConfigSave!Idle
    /\ save \in {ConfigSave!Idle} \cup Ongoing /\ save.phase # "idle" => save \in Ongoing
<1>1. ConfigSave!Idle.phase = "idle"
  BY DEF ConfigSave!Idle
<1>2. save \in Ongoing => save.phase \in SavePhases /\ save.phase # "idle"
  BY DEF Ongoing, SavePhases
<1>3. ConfigSave!Idle \in Ongoing => ConfigSave!Idle.phase # "idle"
  BY DEF Ongoing, SavePhases
<1> QED BY <1>1, <1>2, <1>3

LEMMA MovedSave ==
    ASSUME save \in Ongoing, NEW place \in SavePhases
    PROVE  LET x == [save EXCEPT !.phase = place]
           IN  /\ x \in Ongoing /\ x.phase = place /\ x.who = save.who /\ x.new = save.new
               /\ x.old = save.old /\ x.confirmed = save.confirmed /\ x.secret = save.secret
               /\ x.backups = save.backups /\ x.applied = save.applied
               /\ x.published = save.published
BY DEF Ongoing

\* What the second check allows stays allowed as long as the account, what runs, and what
\* the save is about stay.
LEMMA AllowedStays ==
    ASSUME ConfigSave!StillAllowed, save'.new = save.new, save'.old = save.old,
           save'.who = save.who, save'.confirmed = save.confirmed,
           may'[save.who] = may[save.who], running' = running
    PROVE  ConfigSave!StillAllowed'
BY DEF ConfigSave!StillAllowed, ConfigSave!Authorised, ConfigSave!PathChanged,
       ConfigSave!CredentialChanged, ConfigSave!Base, ConfigSave!Lockout

\* A save that goes on: what it knows of the account database and of jobs.
LEMMA SaveGoesOn ==
    ASSUME ConfigKnows, save \in Ongoing, save' \in Ongoing,
           save'.new = save.new, save'.old = save.old,
           save'.who = save.who, save'.confirmed = save.confirmed,
           UNCHANGED <<running, may, job, reserved>>,
           accounts' = IF save'.phase \in {"locked", "rotated", "kept", "published", "refused"}
                       THEN save.who ELSE Nothing,
           save'.phase \in {"locked", "rotated", "kept"} => ConfigSave!StillAllowed
    PROVE  SaveRuns' /\ NobodySaves'
<1>1. save # ConfigSave!Idle /\ save' # ConfigSave!Idle
  BY SaveIs
<1>2. save'.phase \in {"locked", "rotated", "kept"} => ConfigSave!StillAllowed'
  <2> SUFFICES ASSUME ConfigSave!StillAllowed PROVE ConfigSave!StillAllowed'
    OBVIOUS
  <2>1. may'[save.who] = may[save.who] /\ running' = running
    OBVIOUS
  <2> QED BY <2>1, AllowedStays
<1>3. ~job \/ ~ConfigSave!Moves(save.new.doc)
  BY <1>1 DEF ConfigKnows, SaveRuns
<1>4. ConfigSave!Moves(save.new.doc)' => ~job'
  BY <1>3 DEF ConfigSave!Moves
<1> QED BY <1>1, <1>2, <1>4 DEF ConfigKnows, SaveRuns, NobodySaves

\* Steps that leave the file and the secret alone are safe.
LEMMA NothingWritten ==
    file' = file /\ secret' = secret => ConfigSave!SaveIsSafe
BY DEF ConfigSave!SaveIsSafe, ConfigSave!SaveIsAuthorised, ConfigSave!SecretIsAuthorised,
       ConfigSave!NoLostEdit

\* While no save runs, previews come and go.
LEMMA PreviewsChange ==
    ASSUME ConfigKnows, save = ConfigSave!Idle, pending' \in [People -> Previews \cup {Nothing}],
           UNCHANGED <<file, secret, backups, running, may, accounts, save, job, reserved, replaced>>
    PROVE  ConfigGoal
<1>1. ConfigShapes'
  BY DEF ConfigKnows, ConfigShapes
<1>2. Holds(backups)'
  BY DEF ConfigKnows, Holds
<1>3. SaveRuns' /\ SaveWrites' /\ NobodySaves'
  BY DEF ConfigKnows, SaveRuns, SaveWrites, NobodySaves
<1> QED BY <1>1, <1>2, <1>3, NothingWritten DEF ConfigGoal, ConfigKnows

LEMMA PreviewKept ==
    ASSUME ConfigKnows, NEW p \in People, NEW doc \in ConfigSave!Docs, NEW rollback \in BOOLEAN,
           NEW rotates \in BOOLEAN, ConfigSave!Preview(p, doc, rollback, rotates)
    PROVE  ConfigGoal
<1> DEFINE lockout == ConfigSave!Lockout(doc, file.doc)
           new == [doc |-> doc, ver |-> file.ver, rollback |-> rollback, rotates |-> rotates,
                   lockout |-> lockout]
<1>1. /\ save = ConfigSave!Idle /\ pending' = [pending EXCEPT ![p] = new]
      /\ UNCHANGED <<file, secret, backups, running, may, accounts, save, job, reserved, replaced>>
  BY DEF ConfigSave!Preview, ConfigSave!disk
<1>2. lockout \in BOOLEAN /\ file.ver \in Nat
  BY DEF ConfigSave!Lockout, ConfigSave!PathChanged, ConfigKnows, ConfigShapes, Files
<1> HIDE DEF lockout
<1>3. new \in Previews
  BY <1>2 DEF Previews, Docs
<1> HIDE DEF new
<1>4. pending' \in [People -> Previews \cup {Nothing}]
  BY <1>1, <1>3 DEF ConfigKnows, ConfigShapes
<1> QED BY <1>1, <1>4, PreviewsChange

LEMMA ExpireKept ==
    ASSUME ConfigKnows, NEW p \in People, ConfigSave!Expire(p)
    PROVE  ConfigGoal
<1>1. /\ save = ConfigSave!Idle /\ pending' = [pending EXCEPT ![p] = Nothing]
      /\ UNCHANGED <<file, secret, backups, running, may, accounts, save, job, reserved, replaced>>
  BY DEF ConfigSave!Expire, ConfigSave!disk
<1>2. pending' \in [People -> Previews \cup {Nothing}]
  BY <1>1 DEF ConfigKnows, ConfigShapes
<1> QED BY <1>1, <1>2, PreviewsChange

LEMMA BeginKept ==
    ASSUME ConfigKnows, NEW p \in People, NEW confirmed \in BOOLEAN, ConfigSave!Begin(p, confirmed)
    PROVE  ConfigGoal
<1> DEFINE new == pending[p]
           x == [phase |-> "prepared", who |-> p, new |-> new, old |-> file,
                 confirmed |-> confirmed, secret |-> secret, backups |-> backups,
                 applied |-> FALSE, published |-> FALSE]
<1>1. /\ save' = x /\ reserved' = TRUE /\ running \in Docs /\ new # Nothing /\ file.ver = new.ver
      /\ accounts = Nothing /\ ~(ConfigSave!Moves(new.doc) /\ job)
      /\ UNCHANGED <<file, secret, backups, running, may, accounts, pending, job, replaced>>
  BY DEF ConfigSave!Begin, ConfigSave!disk, Docs
<1>2. new \in Previews /\ file \in Files /\ file.ver \in Nat
  BY <1>1 DEF ConfigKnows, ConfigShapes, Files
<1> HIDE DEF new
<1>3. /\ x \in Ongoing /\ x.phase = "prepared" /\ x.new = new /\ x.old = file /\ ~x.published
      /\ x.backups = backups
  BY <1>2 DEF Ongoing, SavePhases, ConfigKnows, ConfigShapes
<1> HIDE DEF x
<1>4. ConfigShapes'
  BY <1>1, <1>3 DEF ConfigKnows, ConfigShapes
<1>5. Holds(backups)'
  BY <1>1 DEF ConfigKnows, Holds
<1>6. SaveRuns' /\ NobodySaves'
  BY <1>1, <1>3, SaveIs DEF SaveRuns, NobodySaves, ConfigSave!Moves
<1>7. SaveWrites'
  BY <1>1, <1>2, <1>3 DEF SaveWrites, ConfigKnows, Holds
<1> QED BY <1>1, <1>4, <1>5, <1>6, <1>7, NothingWritten DEF ConfigGoal, ConfigKnows

LEMMA LockKept ==
    ASSUME ConfigKnows, ConfigSave!Lock
    PROVE  ConfigGoal
<1>1. /\ save.phase = "prepared" /\ accounts' = save.who
      /\ UNCHANGED <<file, secret, backups, running, may, pending, job, reserved, replaced>>
  BY DEF ConfigSave!Lock, ConfigSave!disk
<1>2. save \in Ongoing
  BY <1>1, SaveIs DEF ConfigKnows, ConfigShapes
<1>3. PICK place \in {"locked", "refused"} :
        save' = [save EXCEPT !.phase = place] /\ (place = "locked" => ConfigSave!StillAllowed)
  BY DEF ConfigSave!Lock, ConfigSave!Phase
<1>4. /\ save' \in Ongoing /\ save'.phase = place /\ save'.who = save.who /\ save'.new = save.new
      /\ save'.old = save.old /\ save'.confirmed = save.confirmed
      /\ save'.backups = save.backups /\ save'.published = save.published
  BY <1>2, <1>3, MovedSave DEF SavePhases
<1>5. ConfigShapes'
  BY <1>1, <1>2, <1>4 DEF ConfigKnows, ConfigShapes, Ongoing
<1>6. SaveRuns' /\ NobodySaves'
  BY <1>1, <1>2, <1>3, <1>4, SaveGoesOn
<1>7. SaveWrites'
  BY <1>1, <1>2, <1>4, SaveIs DEF ConfigKnows, SaveWrites, Holds
<1> QED BY <1>1, <1>5, <1>6, <1>7, NothingWritten DEF ConfigGoal, ConfigKnows, Holds

LEMMA RotateKept ==
    ASSUME ConfigKnows, ConfigSave!Rotate
    PROVE  ConfigGoal
<1>1. /\ save.phase = "locked" /\ save.new.rotates /\ secret' = 1 - secret
      /\ save' = [save EXCEPT !.phase = "rotated", !.applied = TRUE]
      /\ UNCHANGED <<file, backups, running, may, accounts, pending, job, reserved, replaced>>
  BY DEF ConfigSave!Rotate
<1>2. save \in Ongoing /\ save # ConfigSave!Idle
  BY <1>1, SaveIs DEF ConfigKnows, ConfigShapes
<1>3. /\ save' \in Ongoing /\ save'.phase = "rotated" /\ save'.who = save.who
      /\ save'.new = save.new /\ save'.old = save.old /\ save'.confirmed = save.confirmed
      /\ save'.backups = save.backups /\ save'.published = save.published
  BY <1>1, <1>2 DEF Ongoing, SavePhases
<1>4. secret' \in 0..1
  BY <1>1 DEF ConfigKnows, ConfigShapes
<1>5. ConfigShapes'
  BY <1>1, <1>3, <1>4 DEF ConfigKnows, ConfigShapes
<1>6. accounts = save.who /\ ConfigSave!StillAllowed
  BY <1>1, <1>2 DEF ConfigKnows, SaveRuns
<1>7. SaveRuns' /\ NobodySaves'
  BY <1>1, <1>2, <1>3, <1>6, SaveGoesOn
<1>8. SaveWrites'
  BY <1>1, <1>2, <1>3 DEF ConfigKnows, SaveWrites, Holds
<1>9. "secrets" \in may[save.who]
  BY <1>1, <1>6 DEF ConfigSave!StillAllowed, ConfigSave!Authorised
<1>10. ConfigSave!SaveIsSafe
  BY <1>1, <1>9 DEF ConfigSave!SaveIsSafe, ConfigSave!SaveIsAuthorised,
                    ConfigSave!SecretIsAuthorised, ConfigSave!NoLostEdit
<1> QED BY <1>1, <1>5, <1>7, <1>8, <1>10 DEF ConfigGoal, ConfigKnows, Holds

\* Of a text that grows, and of one that keeps its end.
LEMMA HoldsMore ==
    ASSUME NEW text \in Seq(Legible), NEW d \in Legible
    PROVE  /\ Append(text, d) \in Seq(Legible)
           /\ ConfigSave!ToSet(text) \subseteq ConfigSave!ToSet(Append(text, d))
           /\ d \in ConfigSave!ToSet(Append(text, d))
<1>1. /\ Append(text, d) \in Seq(Legible) /\ Len(Append(text, d)) = Len(text) + 1
      /\ \A i \in 1..Len(text) : Append(text, d)[i] = text[i]
      /\ Append(text, d)[Len(text) + 1] = d
  OBVIOUS
<1>2. DOMAIN Append(text, d) = 1..(Len(text) + 1) /\ Len(text) \in Nat /\ DOMAIN text = 1..Len(text)
  BY <1>1
<1> QED BY <1>1, <1>2 DEF ConfigSave!ToSet

LEMMA HoldsEnd ==
    ASSUME ConfigSave!ConfigSaveAssumption, NEW text \in Seq(Legible)
    PROVE  /\ ConfigSave!Retained(text) \in Seq(Legible)
           /\ Len(text) > 0 => text[Len(text)] \in ConfigSave!ToSet(ConfigSave!Retained(text))
           /\ \A d \in ConfigSave!ToSet(ConfigSave!Retained(text)) : d \in Legible
<1>1. KeepBackups \in Nat /\ KeepBackups > 0 /\ Len(text) \in Nat
  BY DEF ConfigSave!ConfigSaveAssumption
<1>2. CASE Len(text) <= KeepBackups
  <2>1. ConfigSave!Retained(text) = text
    BY <1>2 DEF ConfigSave!Retained
  <2> QED BY <1>1, <2>1 DEF ConfigSave!ToSet
<1>3. CASE ~(Len(text) <= KeepBackups)
  <2> DEFINE first == Len(text) - KeepBackups + 1
             rest == SubSeq(text, first, Len(text))
  <2>1. ConfigSave!Retained(text) = rest
    BY <1>3 DEF ConfigSave!Retained
  <2>2. first \in 1..Len(text) /\ Len(text) - first + 1 = KeepBackups
    BY <1>1, <1>3
  <2>3. /\ rest \in Seq(Legible) /\ Len(rest) = Len(text) - first + 1
        /\ \A i \in 1..(Len(text) - first + 1) : rest[i] = text[first + i - 1]
    BY <1>1, <2>2
  <2>4. KeepBackups \in DOMAIN rest /\ rest[KeepBackups] = text[Len(text)]
    BY <1>1, <2>2, <2>3
  <2> HIDE DEF rest
  <2>5. \A i \in DOMAIN rest : rest[i] \in Legible
    BY <2>3
  <2> QED BY <2>1, <2>3, <2>4, <2>5 DEF ConfigSave!ToSet
<1> QED BY <1>2, <1>3

\* The original is in the backups before anything of it is replaced.
LEMMA BackupKept ==
    ASSUME ConfigKnows, ConfigSave!Backup
    PROVE  ConfigGoal
<1>1. /\ save.phase \in {"locked", "rotated"} /\ save' = [save EXCEPT !.phase = "kept"]
      /\ backups' = IF save.old.doc = Missing THEN backups ELSE Append(backups, save.old.doc)
      /\ UNCHANGED <<file, secret, running, may, accounts, pending, job, reserved, replaced>>
  BY DEF ConfigSave!Backup, ConfigSave!Phase
<1>2. save \in Ongoing /\ save # ConfigSave!Idle
  BY <1>1, SaveIs DEF ConfigKnows, ConfigShapes
<1>3. /\ save' \in Ongoing /\ save'.phase = "kept" /\ save'.who = save.who
      /\ save'.new = save.new /\ save'.old = save.old /\ save'.confirmed = save.confirmed
      /\ save'.backups = save.backups /\ save'.published = save.published
  BY <1>1, <1>2, MovedSave DEF SavePhases
<1>4. backups = save.backups /\ backups \in Seq(Legible)
  BY <1>1, <1>2 DEF ConfigKnows, SaveWrites, ConfigShapes
<1>5. backups' = WithOriginal'
  BY <1>1, <1>3, <1>4 DEF WithOriginal
<1>6. backups' \in Seq(Legible) /\ ConfigSave!ToSet(backups) \subseteq ConfigSave!ToSet(backups')
  <2>1. save.old.doc \in Legible \cup {Missing}
    BY <1>2 DEF Ongoing, Files, Legible
  <2> QED BY <1>1, <1>4, <2>1, HoldsMore
<1>7. ConfigShapes'
  BY <1>1, <1>3, <1>6 DEF ConfigKnows, ConfigShapes
<1>8. Holds(backups)'
  BY <1>1, <1>6 DEF ConfigKnows, Holds
<1>9. accounts = save.who /\ ConfigSave!StillAllowed
  BY <1>1, <1>2 DEF ConfigKnows, SaveRuns
<1>10. SaveRuns' /\ NobodySaves'
  BY <1>1, <1>2, <1>3, <1>9, SaveGoesOn
<1>11. SaveWrites'
  BY <1>1, <1>2, <1>3, <1>5 DEF ConfigKnows, SaveWrites, Holds
<1> QED BY <1>1, <1>7, <1>8, <1>10, <1>11, NothingWritten DEF ConfigGoal, ConfigKnows

\* The file that is replaced is the one that was backed up, and its author may do it now.
LEMMA PublishKept ==
    ASSUME ConfigSave!ConfigSaveAssumption, ConfigKnows, ConfigSave!Publish
    PROVE  ConfigGoal
<1>1. /\ save.phase = "kept" /\ file.ver < MaxVersion
      /\ UNCHANGED <<secret, backups, running, may, accounts, pending, job, reserved>>
  BY DEF ConfigSave!Publish
<1>2. save \in Ongoing /\ save # ConfigSave!Idle /\ MaxVersion \in Nat /\ file.ver \in Nat
  BY <1>1, SaveIs DEF ConfigKnows, ConfigShapes, ConfigSave!ConfigSaveAssumption, Files
<1>3. /\ accounts = save.who /\ ConfigSave!StillAllowed /\ backups = WithOriginal
      /\ save.old.ver = save.new.ver /\ (file.ver = save.old.ver => file = save.old)
      /\ ~save.published
  BY <1>1, <1>2 DEF ConfigKnows, SaveRuns, SaveWrites
<1>4. CASE ~ConfigSave!SameVersion
  <2>1. save' = [save EXCEPT !.phase = "refused"] /\ UNCHANGED <<file, replaced>>
    BY <1>4 DEF ConfigSave!Publish, ConfigSave!Phase
  <2>2. /\ save' \in Ongoing /\ save'.phase = "refused" /\ save'.who = save.who
        /\ save'.new = save.new /\ save'.old = save.old /\ save'.confirmed = save.confirmed
        /\ save'.backups = save.backups /\ save'.published = save.published
    BY <1>2, <2>1, MovedSave DEF SavePhases
  <2>3. ConfigShapes'
    BY <1>1, <2>1, <2>2 DEF ConfigKnows, ConfigShapes
  <2>4. SaveRuns' /\ NobodySaves'
    BY <1>1, <1>2, <1>3, <2>2, SaveGoesOn
  <2>5. SaveWrites'
    BY <1>1, <1>2, <2>1, <2>2 DEF ConfigKnows, SaveWrites, Holds
  <2> QED BY <1>1, <2>1, <2>3, <2>4, <2>5, NothingWritten DEF ConfigGoal, ConfigKnows, Holds
<1>5. CASE ConfigSave!SameVersion
  <2> DEFINE ver == file.ver + 1
             new == [doc |-> save.new.doc, ver |-> ver]
  <2>1. /\ file' = new
        /\ save' = [save EXCEPT !.phase = "published", !.published = TRUE]
        /\ replaced' = IF file.doc = Missing THEN Nothing ELSE file.doc
    BY <1>5 DEF ConfigSave!Publish
  <2>2. file = save.old /\ file.ver = save.new.ver
    BY <1>3, <1>5 DEF ConfigSave!SameVersion
  <2>3. ver \in Nat /\ ver <= MaxVersion /\ save.new.doc \in Docs
    BY <1>1, <1>2 DEF Ongoing, Previews
  <2> HIDE DEF ver
  <2>4. new \in Files /\ new.ver <= MaxVersion /\ new.ver <= MaxVersion + 1
    BY <1>2, <2>3 DEF Files
  <2> HIDE DEF new
  <2>5. /\ save' \in Ongoing /\ save'.phase = "published" /\ save'.who = save.who
        /\ save'.new = save.new /\ save'.old = save.old /\ save'.confirmed = save.confirmed
        /\ save'.backups = save.backups /\ save'.published = TRUE
    BY <1>2, <2>1 DEF Ongoing, SavePhases
  <2>6. replaced' = Original' /\ backups' = WithOriginal'
    BY <1>1, <1>3, <2>1, <2>2, <2>5 DEF Original, WithOriginal
  <2>7. replaced' \in Legible \cup {Nothing}
    <3>1. file.doc \in Legible \cup {Missing}
      BY DEF ConfigKnows, ConfigShapes, Files, Legible
    <3> QED BY <2>1, <3>1
  <2>8. Holds(backups)'
    <3> SUFFICES ASSUME replaced' # Nothing PROVE replaced' \in ConfigSave!ToSet(backups')
      BY DEF Holds
    <3>1. file.doc # Missing /\ replaced' = save.old.doc /\ save.old.doc \in Legible
      BY <2>1, <2>2, <2>7
    <3>2. backups' = Append(save.backups, save.old.doc) /\ save.backups \in Seq(Legible)
      BY <1>1, <1>2, <1>3, <2>2, <3>1 DEF WithOriginal, Ongoing
    <3> QED BY <3>1, <3>2, HoldsMore
  <2>9. ConfigShapes'
    BY <1>1, <2>1, <2>4, <2>5, <2>7 DEF ConfigKnows, ConfigShapes
  <2>10. SaveRuns' /\ NobodySaves'
    BY <1>1, <1>2, <1>3, <2>5, SaveGoesOn
  <2>11. SaveWrites'
    BY <2>1, <2>4, <2>5, <2>6 DEF SaveWrites
  <2>12. ConfigSave!SaveIsAuthorised
    <3> SUFFICES /\ "edit" \in may[save.who]
                 /\ \A d \in {file.doc, running} \cap ConfigSave!Docs :
                        /\ save.new.doc.path # d.path =>
                               "admin" \in may[save.who] /\ save.confirmed
                        /\ save.new.doc.cred # d.cred => "secrets" \in may[save.who]
      BY DEF ConfigSave!SaveIsAuthorised
    <3> QED BY <1>3, <2>2 DEF ConfigSave!StillAllowed, ConfigSave!Authorised,
              ConfigSave!PathChanged, ConfigSave!CredentialChanged, ConfigSave!Base,
              ConfigSave!Lockout
  <2>13. ConfigSave!SaveIsSafe
    BY <1>1, <2>2, <2>12 DEF ConfigSave!SaveIsSafe, ConfigSave!SecretIsAuthorised,
                             ConfigSave!NoLostEdit
  <2> QED BY <2>8, <2>9, <2>10, <2>11, <2>13 DEF ConfigGoal, ConfigKnows
<1> QED BY <1>4, <1>5

LEMMA FailKept ==
    ASSUME ConfigSave!ConfigSaveAssumption, ConfigKnows, ConfigSave!Fail
    PROVE  ConfigGoal
<1>1. /\ save.phase \in {"prepared", "locked", "rotated", "kept", "published", "refused"}
      /\ save' = [save EXCEPT !.phase = "failing"]
      /\ accounts' = IF accounts = save.who THEN Nothing ELSE accounts
      /\ UNCHANGED <<file, secret, backups, running, may, pending, job, reserved, replaced>>
  BY DEF ConfigSave!Fail, ConfigSave!Phase, ConfigSave!disk
<1>2. save \in Ongoing /\ save # ConfigSave!Idle
  BY <1>1, SaveIs DEF ConfigKnows, ConfigShapes
<1>3. /\ save' \in Ongoing /\ save'.phase = "failing" /\ save'.who = save.who
      /\ save'.new = save.new /\ save'.old = save.old /\ save'.confirmed = save.confirmed
      /\ save'.backups = save.backups /\ save'.published = save.published
  BY <1>1, <1>2, MovedSave DEF SavePhases
<1>4. accounts' = Nothing
  BY <1>1, <1>2 DEF ConfigKnows, SaveRuns
<1>5. ConfigShapes'
  BY <1>1, <1>3, <1>4 DEF ConfigKnows, ConfigShapes
<1>6. SaveRuns' /\ NobodySaves'
  BY <1>1, <1>2, <1>3, <1>4, SaveGoesOn
<1>7. SaveWrites'
  BY <1>1, <1>2, <1>3 DEF ConfigKnows, SaveWrites, Holds
<1> QED BY <1>1, <1>5, <1>6, <1>7, NothingWritten DEF ConfigGoal, ConfigKnows, Holds

LEMMA EndKept ==
    ASSUME ConfigKnows, ConfigSave!EndTransaction
    PROVE  ConfigGoal
<1>1. /\ save.phase = "published" /\ accounts' = Nothing
      /\ save' = [save EXCEPT !.phase = "committed"]
      /\ UNCHANGED <<file, secret, backups, running, may, pending, job, reserved, replaced>>
  BY DEF ConfigSave!EndTransaction, ConfigSave!Phase, ConfigSave!disk
<1>2. save \in Ongoing /\ save # ConfigSave!Idle
  BY <1>1, SaveIs DEF ConfigKnows, ConfigShapes
<1>3. /\ save' \in Ongoing /\ save'.phase = "committed" /\ save'.who = save.who
      /\ save'.new = save.new /\ save'.old = save.old /\ save'.confirmed = save.confirmed
      /\ save'.backups = save.backups /\ save'.published = save.published
  BY <1>1, <1>2, MovedSave DEF SavePhases
<1>4. ConfigShapes'
  BY <1>1, <1>3 DEF ConfigKnows, ConfigShapes
<1>5. SaveRuns' /\ NobodySaves'
  BY <1>1, <1>2, <1>3, SaveGoesOn
<1>6. SaveWrites'
  BY <1>1, <1>2, <1>3 DEF ConfigKnows, SaveWrites, WithOriginal, Original
<1> QED BY <1>1, <1>4, <1>5, <1>6, NothingWritten DEF ConfigGoal, ConfigKnows, Holds

\* The end of a save keeps the original it replaced: it is the latest backup.
LEMMA SwapKept ==
    ASSUME ConfigSave!ConfigSaveAssumption, ConfigKnows, ConfigSave!Swap
    PROVE  ConfigGoal
<1>1. /\ save.phase = "committed" /\ running' = save.new.doc /\ reserved' = FALSE
      /\ pending' = [p \in People |-> Nothing]
      /\ backups' = ConfigSave!Retained(backups) /\ save' = ConfigSave!Idle
      /\ UNCHANGED <<file, secret, may, accounts, job, replaced>>
  BY DEF ConfigSave!Swap
<1>2. save \in Ongoing /\ save # ConfigSave!Idle
  BY <1>1, SaveIs DEF ConfigKnows, ConfigShapes
<1>3. /\ accounts = Nothing /\ backups = WithOriginal /\ replaced = Original
      /\ backups \in Seq(Legible) /\ save.new.doc \in Docs /\ save.backups \in Seq(Legible)
  BY <1>1, <1>2 DEF ConfigKnows, ConfigShapes, SaveRuns, SaveWrites, Ongoing, Previews
<1>4. backups' \in Seq(Legible)
  BY <1>1, <1>3, HoldsEnd
<1>5. Holds(backups)'
  <2> SUFFICES ASSUME replaced # Nothing PROVE replaced \in ConfigSave!ToSet(backups')
    BY <1>1 DEF Holds
  <2>1. /\ save.old.doc # Missing /\ replaced = save.old.doc
        /\ backups = Append(save.backups, save.old.doc)
    BY <1>3 DEF WithOriginal, Original
  <2>2. Len(backups) > 0 /\ backups[Len(backups)] = replaced
    BY <1>3, <2>1
  <2> QED BY <1>1, <1>3, <2>2, HoldsEnd
<1>6. ConfigShapes'
  BY <1>1, <1>3, <1>4 DEF ConfigKnows, ConfigShapes
<1>7. SaveRuns' /\ SaveWrites' /\ NobodySaves'
  BY <1>1, <1>3 DEF SaveRuns, SaveWrites, NobodySaves
<1> QED BY <1>1, <1>5, <1>6, <1>7, NothingWritten DEF ConfigGoal, ConfigKnows

\* What is put back was there before, and what was replaced since is backed up.
LEMMA CompensateKept ==
    ASSUME ConfigSave!ConfigSaveAssumption, ConfigKnows, NEW restored \in BOOLEAN,
           NEW recovered \in BOOLEAN, ConfigSave!Compensate(restored, recovered)
    PROVE  ConfigGoal
<1>1. /\ save.phase = "failing" /\ (save.published \/ recovered)
      /\ secret' = IF save.applied /\ restored THEN save.secret ELSE secret
      /\ backups' = IF recovered THEN save.backups ELSE backups
      /\ replaced' = IF save.published /\ recovered THEN Nothing ELSE replaced
      /\ reserved' = FALSE /\ save' = ConfigSave!Idle
      /\ UNCHANGED <<running, may, accounts, pending, job>>
  BY DEF ConfigSave!Compensate
<1>2. save \in Ongoing /\ save # ConfigSave!Idle
  BY <1>1, SaveIs DEF ConfigKnows, ConfigShapes
<1>3. /\ accounts = Nothing /\ (~save.published => Holds(save.backups)) /\ Holds(backups)
      /\ (save.published => file.ver <= MaxVersion)
  BY <1>1, <1>2 DEF ConfigKnows, SaveRuns, SaveWrites
<1>4. save.secret \in 0..1 /\ save.backups \in Seq(Legible) /\ save.old \in Files
  BY <1>2 DEF Ongoing
<1>5. file' \in Files /\ file'.ver <= MaxVersion + 1
  <2>1. CASE save.published /\ recovered
    <3> DEFINE ver == file.ver + 1
    <3>1. file' = [save.old EXCEPT !.ver = ver]
      BY <2>1 DEF ConfigSave!Compensate
    <3>2. ver \in Nat /\ ver <= MaxVersion + 1
      BY <1>3, <2>1 DEF ConfigKnows, ConfigShapes, Files, ConfigSave!ConfigSaveAssumption
    <3> HIDE DEF ver
    <3>3. file' \in Files /\ file'.ver = ver
      BY <1>4, <3>1, <3>2 DEF Files
    <3> QED BY <3>2, <3>3
  <2>2. CASE ~(save.published /\ recovered)
    BY <2>2 DEF ConfigSave!Compensate, ConfigKnows, ConfigShapes
  <2> QED BY <2>1, <2>2
<1>6. ConfigShapes'
  BY <1>1, <1>4, <1>5 DEF ConfigKnows, ConfigShapes
<1>7. Holds(backups)'
  BY <1>1, <1>3 DEF Holds
<1>8. SaveRuns' /\ SaveWrites' /\ NobodySaves'
  BY <1>1, <1>3 DEF SaveRuns, SaveWrites, NobodySaves
<1>9. ConfigSave!SaveIsSafe
  BY <1>1 DEF ConfigSave!SaveIsSafe, ConfigSave!SaveIsAuthorised,
              ConfigSave!SecretIsAuthorised, ConfigSave!NoLostEdit
<1> QED BY <1>6, <1>7, <1>8, <1>9 DEF ConfigGoal, ConfigKnows

LEMMA EditorDies ==
    ASSUME ConfigSave!ConfigSaveAssumption, ConfigKnows, ConfigSave!Crash \/ ConfigSave!Restart
    PROVE  ConfigGoal
<1>1. /\ UNCHANGED <<file, secret, backups, may, replaced>> /\ save' = ConfigSave!Idle
      /\ reserved' = FALSE /\ accounts' = Nothing /\ running' \in Docs \cup {Nothing}
      /\ pending' \in [People -> Previews \cup {Nothing}] /\ job' \in BOOLEAN
  <2>1. CASE ConfigSave!Crash
    BY <2>1 DEF ConfigSave!Crash, ConfigSave!disk
  <2>2. CASE ConfigSave!Restart
    <3>1. /\ running = Nothing /\ running' = file.doc /\ file.doc \in Docs
          /\ UNCHANGED <<file, secret, backups, may, accounts, pending, save, job, reserved, replaced>>
      BY <2>2 DEF ConfigSave!Restart, ConfigSave!disk, Docs
    <3>2. save = ConfigSave!Idle
      BY <3>1 DEF ConfigKnows, SaveRuns, ConfigSave!ConfigSaveAssumption, Docs
    <3> QED BY <3>1, <3>2 DEF ConfigKnows, ConfigShapes, NobodySaves
  <2> QED BY <2>1, <2>2
<1>2. ConfigShapes'
  BY <1>1 DEF ConfigKnows, ConfigShapes
<1>3. Holds(backups)'
  BY <1>1 DEF ConfigKnows, Holds
<1>4. SaveRuns' /\ SaveWrites' /\ NobodySaves'
  BY <1>1 DEF SaveRuns, SaveWrites, NobodySaves
<1> QED BY <1>1, <1>2, <1>3, <1>4, NothingWritten DEF ConfigGoal, ConfigKnows

\* An edit from outside: the file has another version from then on, and its original is
\* nobody's to keep.
LEMMA EditKeepsConfig ==
    ASSUME ConfigSave!ConfigSaveAssumption, ConfigKnows, ConfigSave!Edit
    PROVE  ConfigGoal
<1>1. /\ save.phase \notin {"published", "failing", "committed"} /\ file.ver < MaxVersion
      /\ replaced' = Nothing
      /\ UNCHANGED <<secret, backups, running, may, accounts, pending, save, job, reserved>>
  BY DEF ConfigSave!Edit
<1> DEFINE ver == file.ver + 1
<1>2. PICK d \in Docs \cup {Broken, Missing} : file' = [doc |-> d, ver |-> ver]
  BY DEF ConfigSave!Edit, Docs
<1>3. ver \in Nat /\ ver <= MaxVersion /\ ver <= MaxVersion + 1 /\ ver > file.ver /\ file.ver \in Nat
  BY <1>1 DEF ConfigKnows, ConfigShapes, Files, ConfigSave!ConfigSaveAssumption
<1> HIDE DEF ver
<1>4. file' \in Files /\ file'.ver = ver
  BY <1>2, <1>3 DEF Files
<1>5. ConfigShapes'
  BY <1>1, <1>3, <1>4 DEF ConfigKnows, ConfigShapes
<1>6. SaveRuns' /\ NobodySaves'
  BY <1>1 DEF ConfigKnows, SaveRuns, NobodySaves, ConfigSave!Moves, ConfigSave!StillAllowed,
              ConfigSave!Authorised, ConfigSave!PathChanged, ConfigSave!CredentialChanged,
              ConfigSave!Base, ConfigSave!Lockout
<1>7. SaveWrites'
  <2> SUFFICES ASSUME save # ConfigSave!Idle
               PROVE  /\ ~save.published /\ save.old.ver <= file'.ver /\ file'.ver # save.old.ver
                      /\ save.phase \in {"prepared", "locked", "rotated"} => backups = save.backups
                      /\ save.phase = "kept" => backups = WithOriginal
    BY <1>1 DEF SaveWrites, Holds, WithOriginal
  <2>1. save \in Ongoing
    BY DEF ConfigKnows, ConfigShapes
  <2>2. ~save.published /\ save.old.ver <= file.ver /\ save.old.ver \in Nat
    BY <1>1, <2>1 DEF ConfigKnows, SaveWrites, Ongoing, Files
  <2> QED BY <1>3, <1>4, <2>2 DEF ConfigKnows, SaveWrites
<1>8. ConfigSave!SaveIsSafe
  BY <1>1 DEF ConfigSave!SaveIsSafe, ConfigSave!SaveIsAuthorised,
              ConfigSave!SecretIsAuthorised, ConfigSave!NoLostEdit
<1> QED BY <1>1, <1>5, <1>6, <1>7, <1>8 DEF ConfigGoal, ConfigKnows, Holds

\* An account only changes while nobody saves with it.
LEMMA AccountKept ==
    ASSUME ConfigSave!ConfigSaveAssumption, ConfigKnows, NEW p \in People,
           ConfigSave!ChangeAccount(p)
    PROVE  ConfigGoal
<1>1. PICK r \in ConfigSave!Rights : may' = [may EXCEPT ![p] = r]
  BY DEF ConfigSave!ChangeAccount
<1>2. /\ accounts = Nothing
      /\ UNCHANGED <<file, secret, backups, running, accounts, pending, save, job, reserved, replaced>>
  BY DEF ConfigSave!ChangeAccount, ConfigSave!disk
<1>3. ConfigShapes'
  BY <1>1, <1>2 DEF ConfigKnows, ConfigShapes
<1>4. save # ConfigSave!Idle => save.phase \notin {"locked", "rotated", "kept"}
  <2> SUFFICES ASSUME save # ConfigSave!Idle, save.phase \in {"locked", "rotated", "kept"}
               PROVE  FALSE
    OBVIOUS
  <2>1. save.who \in People
    BY DEF ConfigKnows, ConfigShapes, Ongoing
  <2>2. accounts = save.who
    BY DEF ConfigKnows, SaveRuns
  <2> QED BY <1>2, <2>1, <2>2 DEF ConfigSave!ConfigSaveAssumption
<1>5. SaveRuns' /\ NobodySaves'
  BY <1>2, <1>4 DEF ConfigKnows, SaveRuns, NobodySaves, ConfigSave!Moves
<1>6. SaveWrites'
  BY <1>2 DEF ConfigKnows, SaveWrites, Holds, WithOriginal, Original
<1> QED BY <1>2, <1>3, <1>5, <1>6, NothingWritten DEF ConfigGoal, ConfigKnows, Holds

\* A job does not start while the manager is reserved.
LEMMA JobKept ==
    ASSUME ConfigKnows, ConfigSave!Job \/ UNCHANGED ConfigSave!vars
    PROVE  ConfigGoal
<1>1. /\ job' = job \/ (job' = ~job /\ (reserved => job))
      /\ UNCHANGED <<file, secret, backups, running, may, accounts, pending, save, reserved, replaced>>
  BY DEF ConfigSave!Job, ConfigSave!disk, ConfigSave!vars
<1>2. job \in BOOLEAN
  BY DEF ConfigKnows, ConfigShapes
<1>3. ConfigShapes'
  BY <1>1, <1>2 DEF ConfigKnows, ConfigShapes
<1>4. SaveRuns' /\ NobodySaves'
  BY <1>1, <1>2 DEF ConfigKnows, SaveRuns, NobodySaves, ConfigSave!Moves, ConfigSave!StillAllowed,
              ConfigSave!Authorised, ConfigSave!PathChanged, ConfigSave!CredentialChanged,
              ConfigSave!Base, ConfigSave!Lockout
<1>5. SaveWrites'
  BY <1>1 DEF ConfigKnows, SaveWrites, Holds, WithOriginal, Original
<1> QED BY <1>1, <1>3, <1>4, <1>5, NothingWritten DEF ConfigGoal, ConfigKnows, Holds

LEMMA ConfigInit == ConfigSave!ConfigSaveAssumption /\ ConfigSave!Init => ConfigKnows
<1> SUFFICES ASSUME ConfigSave!ConfigSaveAssumption, ConfigSave!Init PROVE ConfigKnows
  OBVIOUS
<1>1. running \in Docs
  BY DEF ConfigSave!Init, Docs, ConfigSave!Docs
<1>2. file \in Files /\ file.ver = 0
  BY <1>1 DEF ConfigSave!Init, Files
<1>3. ConfigShapes
  <2>1. secret \in 0..1 /\ backups \in Seq(Legible) /\ may \in [People -> ConfigSave!Rights]
    BY DEF ConfigSave!Init
  <2>2. /\ accounts = Nothing /\ save = ConfigSave!Idle /\ job = FALSE /\ reserved = FALSE
        /\ replaced = Nothing /\ pending = [p \in People |-> Nothing]
    BY DEF ConfigSave!Init
  <2>3. 0 <= MaxVersion + 1
    BY DEF ConfigSave!ConfigSaveAssumption
  <2> QED BY <1>1, <1>2, <2>1, <2>2, <2>3 DEF ConfigShapes
<1>4. Holds(backups) /\ SaveRuns /\ SaveWrites /\ NobodySaves
  BY DEF ConfigSave!Init, Holds, SaveRuns, SaveWrites, NobodySaves
<1> QED BY <1>3, <1>4 DEF ConfigKnows

LEMMA ConfigNext ==
    ASSUME ConfigSave!ConfigSaveAssumption, ConfigKnows, [ConfigSave!Next]_(ConfigSave!vars)
    PROVE  ConfigGoal
BY PreviewKept, ExpireKept, BeginKept, LockKept, RotateKept, BackupKept, PublishKept, FailKept,
   EndKept, SwapKept, CompensateKept, EditorDies, EditKeepsConfig, AccountKept, JobKept
   DEF ConfigSave!Next

\* Whatever accounts change, files are edited, writes fail and wherever the dashboard dies
\* between preview and save: the configuration and its secrets are only written by somebody who
\* may do it at that moment, no edit is overwritten unseen, the original is kept, and no job
\* runs while its storage moves, for any people, versions and number of backups.
THEOREM ConfigCorrect ==
    ConfigSave!ConfigSaveAssumption =>
        (ConfigSave!Spec =>
            []ConfigSave!ConfigInv /\ [][ConfigSave!SaveIsSafe]_(ConfigSave!vars))
<1> SUFFICES ASSUME ConfigSave!ConfigSaveAssumption
             PROVE  ConfigSave!Spec =>
                        []ConfigSave!ConfigInv /\ [][ConfigSave!SaveIsSafe]_(ConfigSave!vars)
  OBVIOUS
<1>1. ConfigSave!Init => ConfigKnows
  BY ConfigInit
<1>2. ConfigKnows /\ [ConfigSave!Next]_(ConfigSave!vars) => ConfigKnows'
  BY ConfigNext DEF ConfigGoal
<1>3. ConfigKnows /\ [ConfigSave!Next]_(ConfigSave!vars) =>
          [ConfigSave!SaveIsSafe]_(ConfigSave!vars)
  BY ConfigNext DEF ConfigGoal
<1>4. ConfigKnows => ConfigSave!ConfigInv
  <2> SUFFICES ASSUME ConfigKnows PROVE ConfigSave!ConfigInv
    OBVIOUS
  <2>1. ConfigSave!TypeOK
    <3>1. ConfigSave!ToSet(backups) \subseteq Legible
      BY DEF ConfigKnows, ConfigShapes, ConfigSave!ToSet
    <3>2. file.doc \in Docs \cup {Broken, Missing} /\ file.ver \in 0..(MaxVersion + 1)
      BY DEF ConfigKnows, ConfigShapes, Files, ConfigSave!ConfigSaveAssumption
    <3> QED BY <3>1, <3>2 DEF ConfigKnows, ConfigShapes, ConfigSave!TypeOK, Docs, Legible
  <2>2. ConfigSave!OriginalIsKept
    BY DEF ConfigKnows, Holds, ConfigSave!OriginalIsKept
  <2>3. ConfigSave!JobsStay
    BY SaveIs DEF ConfigKnows, SaveRuns, NobodySaves, ConfigSave!JobsStay
  <2> QED BY <2>1, <2>2, <2>3 DEF ConfigSave!ConfigInv
<1> QED BY <1>1, <1>2, <1>3, <1>4, PTL DEF ConfigSave!Spec

-----------------------------------------------------------------------------
(* Web detection. *)

Steps == {"request", "resolving", "pacing", "paced", "sent"}
Answers == WebDetect!Failures \cup {"rows", "version-unknown", "no-technologies"}
Fetches ==
    [at : Steps, host : WebDetect!Hosts, hop : Nat, attempt : Nat, deadline : 0..RunTimeout]
Tasks == {WebDetect!Queued} \cup Fetches \cup [at : {"done"}, result : Answers]

FetcherShapes ==
    /\ fetch \in [Assets -> Tasks]
    /\ lookups \in [queue : SUBSET Assets, busy : SUBSET Assets]
    /\ Cardinality(lookups.busy) <= Threads /\ Cardinality(WebDetect!Running) <= Threads
    /\ blocked \subseteq WebDetect!Hosts /\ halted \subseteq Assets
    /\ requests \in [Assets -> Nat]

\* The requests that the redirects an asset followed, and its attempts since, account for.
Fits(asset, t, sent) ==
    /\ t.at = "queued" => sent = 0
    /\ t.at \in Steps =>
           /\ t.hop <= MaxRedirects[asset] /\ t.attempt <= Retries
           /\ sent <= t.hop * (1 + Retries) + t.attempt + (IF t.at = "sent" THEN 1 ELSE 0)
    /\ sent <= (1 + MaxRedirects[asset]) * (1 + Retries)

\* A host that was blocked when an asset got its slot is still blocked when it looks again.
Halts(asset, t, late, closed) ==
    /\ t.at = "paced" /\ asset \in late => t.host \in closed
    /\ t.at = "sent" => asset \notin late

FetcherKnows ==
    /\ FetcherShapes
    /\ \A asset \in Assets :
           /\ Fits(asset, fetch[asset], requests[asset])
           /\ Halts(asset, fetch[asset], halted, blocked)

AllDone == \A asset \in Assets : fetch[asset].at = "done"

\* What a run has written is of results that are final.
OutputKnows ==
    /\ seconds \in 0..MaxSeconds /\ detections \in Nat
    /\ phase \in {"fetching", "review", "inventory", "manifest", "ended"}
    /\ output \in [review : Nat, inv : Nat, man : Nat,
                   status : {"none", "failed", "success", "partial"}]
    /\ output.man <= output.inv /\ output.inv <= output.review /\ output.review <= detections
    /\ phase \in {"fetching", "review"} => output.review < detections
    /\ phase \in {"inventory", "manifest"} => output.review = detections /\ output.man < detections
    /\ phase = "inventory" => output.inv < detections
    /\ phase = "manifest" => output.inv = detections
    /\ phase \in {"review", "inventory", "manifest"} => AllDone
    /\ phase \in {"inventory", "manifest"} => WebDetect!Outcome(WebDetect!Results) # "failed"
    /\ output.man = detections =>
           /\ phase = "ended" /\ AllDone
           /\ output.status = WebDetect!Outcome(WebDetect!Results) /\ output.status # "failed"

WebKnows == FetcherKnows /\ OutputKnows

LEMMA SameFetchers ==
    /\ \A S : WebDetect!Cardinality(S) = Cardinality(S)
    /\ \A S : WebDetect!IsFiniteSet(S) <=> IsFiniteSet(S)
BY DEF WebDetect!Cardinality, Cardinality, WebDetect!IsFiniteSet, IsFiniteSet

LEMMA HopsAdd ==
    ASSUME NEW hops \in Nat, NEW most \in Nat, NEW tries \in Nat
    PROVE  /\ (hops + 1) * (1 + tries) = hops * (1 + tries) + 1 + tries
           /\ hops * (1 + tries) \in Nat /\ (1 + most) * (1 + tries) \in Nat
           /\ hops <= most => hops * (1 + tries) + tries + 1 <= (1 + most) * (1 + tries)
<1> DEFINE each == 1 + tries
<1>1. each \in Nat
  OBVIOUS
<1> HIDE DEF each
<1>2. /\ (hops + 1) * each = hops * each + each /\ (1 + most) * each = most * each + each
      /\ hops * each \in Nat /\ most * each \in Nat
  BY <1>1
<1>3. hops <= most => hops * each <= most * each
  <2> SUFFICES ASSUME hops <= most PROVE hops * each <= most * each
    OBVIOUS
  <2> DEFINE more == most - hops
  <2>1. more \in Nat /\ most = hops + more
    OBVIOUS
  <2> HIDE DEF more
  <2>2. most * each = hops * each + more * each /\ more * each \in Nat
    BY <1>1, <2>1
  <2> QED BY <1>2, <2>2
<1> QED BY <1>1, <1>2, <1>3 DEF each

LEMMA TaskIs ==
    ASSUME FetcherShapes, NEW asset \in Assets
    PROVE  /\ fetch[asset] \in Tasks /\ requests[asset] \in Nat
           /\ fetch[asset].at \in Steps => fetch[asset] \in Fetches
           /\ fetch[asset].at \in Steps \cup {"queued", "done"}
<1>1. fetch[asset] \in Tasks /\ requests[asset] \in Nat
  BY DEF FetcherShapes
<1>2. CASE fetch[asset] \in Fetches
  BY <1>1, <1>2 DEF Fetches
<1>3. CASE fetch[asset] = WebDetect!Queued
  BY <1>1, <1>3 DEF WebDetect!Queued, Steps
<1>4. CASE fetch[asset] \in [at : {"done"}, result : Answers]
  BY <1>1, <1>4 DEF Steps
<1> QED BY <1>1, <1>2, <1>3, <1>4 DEF Tasks

LEMMA EndIs ==
    ASSUME NEW outcome \in Answers
    PROVE  LET t == [at |-> "done", result |-> outcome]
           IN  t \in Tasks /\ t.at = "done" /\ t.result = outcome
BY DEF Tasks

LEMMA MovedTask ==
    ASSUME NEW t \in Fetches, NEW place \in Steps
    PROVE  LET x == [t EXCEPT !.at = place]
           IN  /\ x \in Fetches /\ x \in Tasks /\ x.at = place /\ x.host = t.host /\ x.hop = t.hop
               /\ x.attempt = t.attempt
BY DEF Fetches, Tasks

\* One asset moves, whatever it does: the others keep what is known of them.
LEMMA AssetMoves ==
    ASSUME WebDetect!WebDetectAssumption, FetcherKnows, NEW asset \in Assets, NEW t \in Tasks, NEW sent \in Nat,
           \/ fetch[asset].at \in Steps
           \/ Cardinality(WebDetect!Running) < Threads,
           fetch' = [fetch EXCEPT ![asset] = t], requests' = [requests EXCEPT ![asset] = sent],
           lookups' \in [queue : SUBSET Assets, busy : SUBSET Assets],
           lookups'.busy \subseteq lookups.busy,
           blocked' \subseteq WebDetect!Hosts, blocked \subseteq blocked', halted' \subseteq Assets,
           \A other \in Assets \ {asset} : other \in halted' <=> other \in halted,
           Fits(asset, t, sent), Halts(asset, t, halted', blocked')
    PROVE  FetcherKnows'
<1>1. IsFiniteSet(Assets) /\ Threads \in Nat
  BY SameFetchers DEF WebDetect!WebDetectAssumption
<1>2. /\ fetch'[asset] = t /\ \A other \in Assets \ {asset} : fetch'[other] = fetch[other]
      /\ requests'[asset] = sent
      /\ \A other \in Assets \ {asset} : requests'[other] = requests[other]
      /\ fetch' \in [Assets -> Tasks] /\ requests' \in [Assets -> Nat]
  BY DEF FetcherKnows, FetcherShapes
<1>3. Cardinality(lookups'.busy) <= Threads
  <2>1. IsFiniteSet(lookups.busy) /\ Cardinality(lookups.busy) <= Threads
    <3>1. lookups.busy \subseteq Assets
      BY DEF FetcherKnows, FetcherShapes
    <3> QED BY <1>1, <3>1, FS_Subset DEF FetcherKnows, FetcherShapes
  <2>2. /\ IsFiniteSet(lookups'.busy) /\ Cardinality(lookups'.busy) <= Cardinality(lookups.busy)
        /\ Cardinality(lookups.busy) \in Nat /\ Cardinality(lookups'.busy) \in Nat
    BY <2>1, FS_Subset, FS_CardinalityType
  <2> QED BY <1>1, <2>1, <2>2
<1>4. Cardinality(WebDetect!Running') <= Threads
  <2> DEFINE R == WebDetect!Running
  <2>1. WebDetect!Running \subseteq Assets /\ WebDetect!Running' \subseteq R \cup {asset}
    BY <1>2 DEF WebDetect!Running
  <2>2. IsFiniteSet(R) /\ Cardinality(R) \in Nat /\ Cardinality(R) <= Threads
    BY <1>1, <2>1, FS_Subset, FS_CardinalityType DEF FetcherKnows, FetcherShapes
  <2>3. /\ IsFiniteSet(R \cup {asset})
        /\ Cardinality(R \cup {asset}) = IF asset \in R THEN Cardinality(R) ELSE Cardinality(R) + 1
    BY <2>2, FS_AddElement
  <2>4. asset \in R \/ Cardinality(R) < Threads
    BY DEF WebDetect!Running, Steps
  <2> HIDE DEF R
  <2>5. Cardinality(R \cup {asset}) <= Threads /\ Cardinality(R \cup {asset}) \in Nat
    BY <1>1, <2>2, <2>3, <2>4
  <2>6. /\ Cardinality(WebDetect!Running') <= Cardinality(R \cup {asset})
        /\ Cardinality(WebDetect!Running') \in Nat
    BY <2>1, <2>3, FS_Subset, FS_CardinalityType
  <2> QED BY <1>1, <2>5, <2>6
<1>5. FetcherShapes'
  BY <1>2, <1>3, <1>4 DEF FetcherShapes
<1>6. \A other \in Assets :
          Fits(other, fetch'[other], requests'[other]) /\ Halts(other, fetch'[other], halted', blocked')
  <2> SUFFICES ASSUME NEW other \in Assets
               PROVE  /\ Fits(other, fetch'[other], requests'[other])
                      /\ Halts(other, fetch'[other], halted', blocked')
    OBVIOUS
  <2>1. CASE other = asset
    BY <1>2, <2>1
  <2>2. CASE other # asset
    <3>1. Fits(other, fetch[other], requests[other]) /\ Halts(other, fetch[other], halted, blocked)
      BY DEF FetcherKnows
    <3>2. Halts(other, fetch[other], halted', blocked')
      BY <2>2, <3>1 DEF Halts
    <3> QED BY <1>2, <2>2, <3>1, <3>2
  <2> QED BY <2>1, <2>2
<1> QED BY <1>5, <1>6 DEF FetcherKnows

\* What is published is of results that are final: while an asset is at work nothing is.
LEMMA OutputStays ==
    ASSUME OutputKnows, NEW asset \in Assets, fetch[asset].at # "done",
           UNCHANGED <<seconds, phase, output, detections>>
    PROVE  OutputKnows'
BY DEF OutputKnows, AllDone

LEMMA SameOutput ==
    ASSUME OutputKnows, UNCHANGED <<fetch, phase, output, detections>>, seconds' \in 0..MaxSeconds
    PROVE  OutputKnows'
BY DEF OutputKnows, AllDone, WebDetect!Results

\* A step of one asset that ends.
LEMMA AssetEnds ==
    ASSUME WebDetect!WebDetectAssumption, WebKnows, NEW asset \in Assets, NEW outcome \in Answers,
           \/ fetch[asset].at \in Steps
           \/ fetch[asset].at = "queued" /\ Cardinality(WebDetect!Running) < Threads,
           WebDetect!Ends(asset, outcome),
           lookups' \in [queue : SUBSET Assets, busy : SUBSET Assets],
           lookups'.busy \subseteq lookups.busy,
           blocked' \subseteq WebDetect!Hosts, blocked \subseteq blocked', halted' = halted,
           UNCHANGED <<seconds, phase, output, detections, requests>>
    PROVE  WebKnows'
<1> DEFINE t == [at |-> "done", result |-> outcome]
<1>1. t \in Tasks /\ t.at = "done"
  BY EndIs
<1>2. fetch' = [fetch EXCEPT ![asset] = t]
  BY DEF WebDetect!Ends
<1> HIDE DEF t
<1>3. requests' = [requests EXCEPT ![asset] = requests[asset]] /\ requests[asset] \in Nat
  BY DEF WebKnows, FetcherKnows, FetcherShapes
<1>4. Fits(asset, t, requests[asset]) /\ Halts(asset, t, halted', blocked')
  BY <1>1 DEF WebKnows, FetcherKnows, Fits, Halts, Steps
<1>5. FetcherKnows'
  BY <1>1, <1>2, <1>3, <1>4, AssetMoves DEF WebKnows, FetcherKnows, FetcherShapes
<1>6. OutputKnows'
  BY OutputStays DEF WebKnows, Steps
<1> QED BY <1>5, <1>6 DEF WebKnows

\* A step of one asset that goes on.
LEMMA AssetGoesOn ==
    ASSUME WebDetect!WebDetectAssumption, WebKnows, NEW asset \in Assets, NEW t \in Fetches, NEW sent \in Nat,
           fetch[asset].at \in Steps,
           fetch' = [fetch EXCEPT ![asset] = t], requests' = [requests EXCEPT ![asset] = sent],
           lookups' \in [queue : SUBSET Assets, busy : SUBSET Assets],
           lookups'.busy \subseteq lookups.busy, halted' \subseteq Assets,
           \A other \in Assets \ {asset} : other \in halted' <=> other \in halted,
           t.hop <= MaxRedirects[asset], t.attempt <= Retries,
           sent <= t.hop * (1 + Retries) + t.attempt + (IF t.at = "sent" THEN 1 ELSE 0),
           Halts(asset, t, halted', blocked),
           UNCHANGED <<seconds, blocked, phase, output, detections>>
    PROVE  WebKnows'
<1>1. t \in Tasks /\ t.at \in Steps /\ t.hop \in Nat /\ t.attempt \in Nat
  BY DEF Fetches, Tasks
<1>2. MaxRedirects[asset] \in Nat /\ Retries \in Nat
  BY DEF WebDetect!WebDetectAssumption
<1>3. Fits(asset, t, sent)
  <2> DEFINE before == t.hop * (1 + Retries)
             most == (1 + MaxRedirects[asset]) * (1 + Retries)
  <2>1. before \in Nat /\ most \in Nat /\ before + Retries + 1 <= most
    BY <1>1, <1>2, HopsAdd
  <2>2. sent <= before + t.attempt + (IF t.at = "sent" THEN 1 ELSE 0)
    OBVIOUS
  <2>3. t.at # "queued"
    BY <1>1 DEF Steps
  <2> HIDE DEF before, most
  <2>4. sent <= most
    BY <1>1, <1>2, <2>1, <2>2
  <2> QED BY <2>3, <2>4 DEF Fits, most
<1>4. FetcherKnows'
  BY <1>1, <1>3, AssetMoves DEF WebKnows, FetcherKnows, FetcherShapes
<1>5. OutputKnows'
  BY OutputStays DEF WebKnows, Steps
<1> QED BY <1>4, <1>5 DEF WebKnows

LEMMA BeginsKept ==
    ASSUME WebDetect!WebDetectAssumption, WebKnows, NEW asset \in Assets, WebDetect!Begin(asset)
    PROVE  WebKnows'
<1>1. /\ fetch[asset].at = "queued" /\ Cardinality(WebDetect!Running) < Threads
      /\ UNCHANGED <<seconds, lookups, blocked, halted, requests, phase, output, detections>>
  BY SameFetchers DEF WebDetect!Begin, WebDetect!MayBegin, WebDetect!At, WebDetect!files
<1>2. CASE seconds >= RunTimeout
  <2>1. WebDetect!Ends(asset, "timeout")
    BY <1>2 DEF WebDetect!Begin
  <2> QED BY <1>1, <2>1, AssetEnds
          DEF WebKnows, FetcherKnows, FetcherShapes, Answers, WebDetect!Failures
<1>3. CASE ~(seconds >= RunTimeout)
  <2> DEFINE until == IF seconds + AssetTimeout < RunTimeout THEN seconds + AssetTimeout ELSE RunTimeout
             t == [at |-> "request", host |-> Host[asset], hop |-> 0, attempt |-> 0,
                   deadline |-> until]
  <2>1. fetch' = [fetch EXCEPT ![asset] = t]
    BY <1>3 DEF WebDetect!Begin
  <2>2. until \in 0..RunTimeout
    BY DEF WebKnows, OutputKnows, WebDetect!WebDetectAssumption
  <2>3. Host[asset] \in WebDetect!Hosts
    BY DEF WebDetect!Hosts
  <2> HIDE DEF until
  <2>4. t \in Tasks /\ t.at = "request" /\ t.hop = 0 /\ t.attempt = 0
    BY <2>2, <2>3 DEF Tasks, Fetches, Steps
  <2> HIDE DEF t
  <2>5. requests' = [requests EXCEPT ![asset] = 0]
    BY <1>1 DEF WebKnows, FetcherKnows, FetcherShapes, Fits
  <2>6. Fits(asset, t, 0) /\ Halts(asset, t, halted', blocked')
    <3>1. MaxRedirects[asset] \in Nat /\ Retries \in Nat
      BY DEF WebDetect!WebDetectAssumption
    <3>2. (1 + MaxRedirects[asset]) * (1 + Retries) \in Nat
      BY <3>1, HopsAdd
    <3> QED BY <2>4, <3>1, <3>2 DEF Fits, Halts
  <2>7. FetcherKnows'
    BY <1>1, <2>1, <2>4, <2>5, <2>6, AssetMoves DEF WebKnows, FetcherKnows, FetcherShapes
  <2>8. OutputKnows'
    BY <1>1, OutputStays DEF WebKnows
  <2> QED BY <2>7, <2>8 DEF WebKnows
<1> QED BY <1>2, <1>3

\* Where a fetch is, and what is known of it.
LEMMA FetchIs ==
    ASSUME WebDetect!WebDetectAssumption, WebKnows, NEW asset \in Assets, fetch[asset].at \in Steps
    PROVE  /\ fetch[asset] \in Fetches /\ requests[asset] \in Nat
           /\ fetch[asset].hop \in Nat /\ fetch[asset].attempt \in Nat
           /\ fetch[asset].host \in WebDetect!Hosts
           /\ fetch[asset].hop <= MaxRedirects[asset] /\ fetch[asset].attempt <= Retries
           /\ requests[asset] <= fetch[asset].hop * (1 + Retries) + fetch[asset].attempt
                                     + (IF fetch[asset].at = "sent" THEN 1 ELSE 0)
           /\ requests = [requests EXCEPT ![asset] = requests[asset]]
           /\ MaxRedirects[asset] \in Nat /\ Retries \in Nat
           /\ fetch[asset].hop * (1 + Retries) \in Nat
<1>1. fetch[asset] \in Fetches /\ requests[asset] \in Nat
  BY TaskIs DEF WebKnows, FetcherKnows
<1>2. MaxRedirects[asset] \in Nat /\ Retries \in Nat
  BY DEF WebDetect!WebDetectAssumption
<1>3. fetch[asset].hop \in Nat /\ fetch[asset].attempt \in Nat /\ fetch[asset].host \in WebDetect!Hosts
  BY <1>1 DEF Fetches
<1>4. Fits(asset, fetch[asset], requests[asset])
  BY DEF WebKnows, FetcherKnows
<1>5. requests = [requests EXCEPT ![asset] = requests[asset]]
  BY DEF WebKnows, FetcherKnows, FetcherShapes
<1> QED BY <1>1, <1>2, <1>3, <1>4, <1>5, HopsAdd DEF Fits

\* From one place to another before the request is sent.
LEMMA PlaceMoves ==
    ASSUME WebDetect!WebDetectAssumption, WebKnows, NEW asset \in Assets,
           fetch[asset].at \in {"request", "resolving", "pacing"},
           NEW place \in {"resolving", "pacing"}, WebDetect!Goes(asset, place),
           lookups' \in [queue : SUBSET Assets, busy : SUBSET Assets],
           lookups'.busy \subseteq lookups.busy,
           UNCHANGED <<seconds, blocked, halted, requests, phase, output, detections>>
    PROVE  WebKnows'
<1> DEFINE t == [fetch[asset] EXCEPT !.at = place]
<1>1. fetch' = [fetch EXCEPT ![asset] = t]
  BY DEF WebDetect!Goes
<1>2. fetch[asset].at \in Steps /\ place \in Steps /\ fetch[asset].at # "sent"
  BY DEF Steps
<1>3. t \in Fetches /\ t.at = place /\ t.hop = fetch[asset].hop /\ t.attempt = fetch[asset].attempt
  BY <1>2, FetchIs, MovedTask
<1> HIDE DEF t
<1>4. Halts(asset, t, halted', blocked)
  BY <1>3 DEF Halts
<1> QED BY <1>1, <1>2, <1>3, <1>4, FetchIs, AssetGoesOn DEF WebKnows, FetcherKnows, FetcherShapes

LEMMA AttemptKept ==
    ASSUME WebDetect!WebDetectAssumption, WebKnows, NEW asset \in Assets, WebDetect!Attempt(asset)
    PROVE  WebKnows'
<1>1. /\ fetch[asset].at = "request"
      /\ UNCHANGED <<seconds, blocked, halted, requests, phase, output, detections>>
  BY DEF WebDetect!Attempt, WebDetect!At, WebDetect!files
<1>2. lookups \in [queue : SUBSET Assets, busy : SUBSET Assets]
  BY DEF WebKnows, FetcherKnows, FetcherShapes
<1>3. CASE lookups' = lookups /\ \E outcome \in {"timeout", "blocked"} : WebDetect!Ends(asset, outcome)
  <2>1. PICK outcome \in {"timeout", "blocked"} : WebDetect!Ends(asset, outcome)
    BY <1>3
  <2>2. outcome \in Answers /\ fetch[asset].at \in Steps /\ blocked \subseteq WebDetect!Hosts
    BY <1>1 DEF Answers, WebDetect!Failures, Steps, WebKnows, FetcherKnows, FetcherShapes
  <2> QED BY <1>1, <1>2, <1>3, <2>1, <2>2, AssetEnds
<1>4. CASE /\ WebDetect!Goes(asset, "resolving")
           /\ lookups' = [lookups EXCEPT !.queue = @ \cup {asset}]
  <2> DEFINE asked == lookups.queue \cup {asset}
  <2>1. lookups' = [lookups EXCEPT !.queue = asked] /\ asked \in SUBSET Assets
    BY <1>2, <1>4
  <2> HIDE DEF asked
  <2>2. lookups' \in [queue : SUBSET Assets, busy : SUBSET Assets] /\ lookups'.busy = lookups.busy
    BY <1>2, <2>1
  <2> QED BY <1>1, <1>4, <2>2, PlaceMoves
<1> QED BY <1>3, <1>4 DEF WebDetect!Attempt

\* The next attempt after a failed connection, or the end of them.
LEMMA RetryKept ==
    ASSUME WebDetect!WebDetectAssumption, WebKnows, NEW asset \in Assets,
           fetch[asset].at \in {"resolving", "sent"}, WebDetect!Retry(asset),
           lookups' \in [queue : SUBSET Assets, busy : SUBSET Assets],
           lookups'.busy \subseteq lookups.busy,
           UNCHANGED <<seconds, blocked, halted, requests, phase, output, detections>>
    PROVE  WebKnows'
<1>1. fetch[asset].at \in Steps /\ blocked \subseteq WebDetect!Hosts
  BY DEF Steps, WebKnows, FetcherKnows, FetcherShapes
<1>2. CASE WebDetect!Ends(asset, "unreachable")
  BY <1>1, <1>2, AssetEnds DEF Answers, WebDetect!Failures
<1>3. CASE /\ fetch[asset].attempt < Retries
           /\ fetch' = [fetch EXCEPT ![asset].at = "request", ![asset].attempt = @ + 1]
  <2> DEFINE tries == fetch[asset].attempt + 1
             t == [fetch[asset] EXCEPT !.at = "request", !.attempt = tries]
  <2>1. fetch' = [fetch EXCEPT ![asset] = t]
    BY <1>3, FetchIs DEF Fetches
  <2>2. tries \in Nat /\ tries <= Retries
    BY <1>1, <1>3, FetchIs
  <2>3. requests[asset] <= fetch[asset].hop * (1 + Retries) + tries
    BY <1>1, FetchIs
  <2> HIDE DEF tries
  <2>4. t \in Fetches /\ t.at = "request" /\ t.hop = fetch[asset].hop /\ t.attempt = tries
    BY <1>1, <2>2, FetchIs DEF Fetches, Steps
  <2> HIDE DEF t
  <2>5. /\ t.hop * (1 + Retries) \in Nat /\ t.hop <= MaxRedirects[asset] /\ t.attempt <= Retries
        /\ requests[asset] <= t.hop * (1 + Retries) + t.attempt + (IF t.at = "sent" THEN 1 ELSE 0)
        /\ requests[asset] \in Nat /\ requests' = [requests EXCEPT ![asset] = requests[asset]]
    BY <1>1, <2>2, <2>3, <2>4, FetchIs
  <2>6. Halts(asset, t, halted', blocked)
    BY <2>4 DEF Halts
  <2> QED BY <1>1, <2>1, <2>4, <2>5, <2>6, AssetGoesOn DEF WebKnows, FetcherKnows, FetcherShapes
<1> QED BY <1>2, <1>3 DEF WebDetect!Retry, WebDetect!MayRetry

LEMMA LookupKept ==
    ASSUME WebDetect!WebDetectAssumption, WebKnows, NEW asset \in Assets, WebDetect!Lookup(asset)
    PROVE  WebKnows'
<1> DEFINE busy == lookups.busy \cup {asset}
           asked == lookups.queue \ {asset}
<1>1. /\ lookups' = [queue |-> asked, busy |-> busy] /\ Cardinality(lookups.busy) < Threads
      /\ UNCHANGED <<seconds, fetch, blocked, halted, requests, phase, output, detections>>
  BY SameFetchers DEF WebDetect!Lookup, WebDetect!files
<1>2. busy \subseteq Assets /\ asked \subseteq Assets /\ IsFiniteSet(lookups.busy)
  <2>1. lookups \in [queue : SUBSET Assets, busy : SUBSET Assets] /\ IsFiniteSet(Assets)
    BY SameFetchers DEF WebKnows, FetcherKnows, FetcherShapes, WebDetect!WebDetectAssumption
  <2> QED BY <2>1, FS_Subset
<1>3. Cardinality(busy) <= Threads
  <2>1. Cardinality(busy) \in {Cardinality(lookups.busy), Cardinality(lookups.busy) + 1}
    BY <1>2, FS_AddElement
  <2>2. Cardinality(lookups.busy) \in Nat /\ Threads \in Nat
    BY <1>2, FS_CardinalityType DEF WebDetect!WebDetectAssumption
  <2> QED BY <1>1, <2>1, <2>2
<1> HIDE DEF busy, asked
<1>4. lookups' \in [queue : SUBSET Assets, busy : SUBSET Assets] /\ lookups'.busy = busy
  BY <1>1, <1>2
<1>5. FetcherKnows'
  BY <1>1, <1>3, <1>4 DEF WebKnows, FetcherKnows, FetcherShapes, WebDetect!Running
<1>6. OutputKnows'
  BY <1>1, SameOutput DEF WebKnows, OutputKnows
<1> QED BY <1>5, <1>6 DEF WebKnows

\* The thread of the resolver is free again, whoever still waits for it.
LEMMA ResolvedKept ==
    ASSUME WebDetect!WebDetectAssumption, WebKnows, NEW asset \in Assets, WebDetect!Resolved(asset)
    PROVE  WebKnows'
<1> DEFINE busy == lookups.busy \ {asset}
<1>1. /\ lookups' = [lookups EXCEPT !.busy = busy]
      /\ UNCHANGED <<seconds, blocked, halted, requests, phase, output, detections>>
  BY DEF WebDetect!Resolved, WebDetect!files
<1>2. busy \in SUBSET Assets /\ busy \subseteq lookups.busy /\ lookups \in [queue : SUBSET Assets, busy : SUBSET Assets]
  BY DEF WebKnows, FetcherKnows, FetcherShapes
<1> HIDE DEF busy
<1>3. /\ lookups' \in [queue : SUBSET Assets, busy : SUBSET Assets]
      /\ lookups'.busy \subseteq lookups.busy
  BY <1>1, <1>2
<1>4. CASE fetch' = fetch
  <2>1. IsFiniteSet(lookups.busy) /\ Threads \in Nat /\ Cardinality(lookups.busy) <= Threads
    <3>1. IsFiniteSet(Assets) /\ lookups.busy \subseteq Assets /\ Threads \in Nat
      BY <1>2, SameFetchers DEF WebDetect!WebDetectAssumption
    <3> QED BY <3>1, FS_Subset DEF WebKnows, FetcherKnows, FetcherShapes
  <2>2. /\ Cardinality(lookups'.busy) <= Cardinality(lookups.busy)
        /\ Cardinality(lookups.busy) \in Nat /\ Cardinality(lookups'.busy) \in Nat
    BY <1>3, <2>1, FS_Subset, FS_CardinalityType
  <2>3. Cardinality(lookups'.busy) <= Threads
    BY <2>1, <2>2
  <2>4. FetcherKnows'
    BY <1>1, <1>3, <1>4, <2>3 DEF WebKnows, FetcherKnows, FetcherShapes, WebDetect!Running
  <2>5. OutputKnows'
    BY <1>1, <1>4, SameOutput DEF WebKnows, OutputKnows
  <2> QED BY <2>4, <2>5 DEF WebKnows
<1>5. CASE fetch[asset].at = "resolving" /\ WebDetect!Goes(asset, "pacing")
  BY <1>1, <1>3, <1>5, PlaceMoves
<1>6. CASE fetch[asset].at = "resolving" /\ WebDetect!Ends(asset, "blocked")
  <2>1. "blocked" \in Answers /\ fetch[asset].at \in Steps /\ blocked \subseteq WebDetect!Hosts
    BY <1>6 DEF Answers, WebDetect!Failures, Steps, WebKnows, FetcherKnows, FetcherShapes
  <2> QED BY <1>1, <1>3, <1>6, <2>1, AssetEnds
<1>7. CASE fetch[asset].at = "resolving" /\ WebDetect!Retry(asset)
  BY <1>1, <1>3, <1>7, RetryKept
<1> QED BY <1>4, <1>5, <1>6, <1>7 DEF WebDetect!Resolved, WebDetect!At

\* A step that only ends one asset, with nothing else.
LEMMA EndsKeep ==
    ASSUME WebDetect!WebDetectAssumption, WebKnows, NEW asset \in Assets, NEW outcome \in Answers,
           fetch[asset].at \in Steps, WebDetect!Ends(asset, outcome),
           blocked' \subseteq WebDetect!Hosts, blocked \subseteq blocked',
           UNCHANGED <<seconds, lookups, halted, requests, phase, output, detections>>
    PROVE  WebKnows'
<1>1. lookups' \in [queue : SUBSET Assets, busy : SUBSET Assets] /\ lookups'.busy \subseteq lookups.busy
  BY DEF WebKnows, FetcherKnows, FetcherShapes
<1> QED BY <1>1, AssetEnds

LEMMA LookupTimeoutKept ==
    ASSUME WebDetect!WebDetectAssumption, WebKnows, NEW asset \in Assets,
           WebDetect!LookupTimeout(asset)
    PROVE  WebKnows'
<1>1. /\ fetch[asset].at \in Steps /\ WebDetect!Ends(asset, "timeout") /\ "timeout" \in Answers
      /\ UNCHANGED <<seconds, lookups, blocked, halted, requests, phase, output, detections>>
  BY DEF WebDetect!LookupTimeout, WebDetect!MayGiveUp, WebDetect!At, WebDetect!files, Steps,
         Answers, WebDetect!Failures
<1> QED BY <1>1, EndsKeep DEF WebKnows, FetcherKnows, FetcherShapes

LEMMA PaceKept ==
    ASSUME WebDetect!WebDetectAssumption, WebKnows, NEW asset \in Assets, WebDetect!Pace(asset)
    PROVE  WebKnows'
<1>1. /\ fetch[asset].at = "pacing" /\ fetch[asset].at \in Steps
      /\ UNCHANGED <<seconds, lookups, blocked, requests, phase, output, detections>>
  BY DEF WebDetect!Pace, WebDetect!MayPace, WebDetect!At, WebDetect!files, Steps
<1>2. CASE WebDetect!Expired(asset)
  <2>1. WebDetect!Ends(asset, "timeout") /\ halted' = halted /\ "timeout" \in Answers
    BY <1>2 DEF WebDetect!Pace, Answers, WebDetect!Failures
  <2> QED BY <1>1, <2>1, EndsKeep DEF WebKnows, FetcherKnows, FetcherShapes
<1>3. CASE ~WebDetect!Expired(asset)
  <2> DEFINE t == [fetch[asset] EXCEPT !.at = "paced"]
  <2>1. /\ fetch' = [fetch EXCEPT ![asset] = t]
        /\ halted' = IF fetch[asset].host \in blocked THEN halted \cup {asset} ELSE halted \ {asset}
    BY <1>3 DEF WebDetect!Pace, WebDetect!Goes
  <2>2. /\ t \in Fetches /\ t.at = "paced" /\ t.hop = fetch[asset].hop /\ t.host = fetch[asset].host
        /\ t.attempt = fetch[asset].attempt
    <3>1. fetch[asset] \in Fetches /\ "paced" \in Steps
      BY <1>1, FetchIs DEF Steps
    <3> QED BY <3>1, MovedTask
  <2> HIDE DEF t
  <2>3. /\ halted' \subseteq Assets
        /\ \A other \in Assets \ {asset} : other \in halted' <=> other \in halted
    BY <2>1 DEF WebKnows, FetcherKnows, FetcherShapes
  <2>4. Halts(asset, t, halted', blocked)
    BY <2>1, <2>2 DEF Halts
  <2>5. lookups' \in [queue : SUBSET Assets, busy : SUBSET Assets] /\ lookups'.busy \subseteq lookups.busy
    BY <1>1 DEF WebKnows, FetcherKnows, FetcherShapes
  <2>6. /\ t.hop <= MaxRedirects[asset] /\ t.attempt <= Retries
        /\ requests[asset] <= t.hop * (1 + Retries) + t.attempt + (IF t.at = "sent" THEN 1 ELSE 0)
        /\ requests[asset] \in Nat /\ requests' = [requests EXCEPT ![asset] = requests[asset]]
    BY <1>1, <2>2, FetchIs
  <2> QED BY <1>1, <2>1, <2>2, <2>3, <2>4, <2>5, <2>6, AssetGoesOn
<1> QED BY <1>2, <1>3

\* The request that is sent is counted, and its host has not asked to stop.
LEMMA RequestKept ==
    ASSUME WebDetect!WebDetectAssumption, WebKnows, NEW asset \in Assets, WebDetect!Request(asset)
    PROVE  WebKnows'
<1>1. /\ fetch[asset].at = "paced" /\ fetch[asset].at \in Steps
      /\ UNCHANGED <<seconds, lookups, blocked, halted, phase, output, detections>>
  BY DEF WebDetect!Request, WebDetect!At, WebDetect!files, Steps
<1>2. CASE requests' = requests /\ \E outcome \in {"blocked", "timeout"} : WebDetect!Ends(asset, outcome)
  <2>1. PICK outcome \in {"blocked", "timeout"} : WebDetect!Ends(asset, outcome)
    BY <1>2
  <2>2. outcome \in Answers
    BY DEF Answers, WebDetect!Failures
  <2> QED BY <1>1, <1>2, <2>1, <2>2, EndsKeep DEF WebKnows, FetcherKnows, FetcherShapes
<1>3. CASE /\ fetch[asset].host \notin blocked /\ WebDetect!Goes(asset, "sent")
           /\ requests' = [requests EXCEPT ![asset] = @ + 1]
  <2> DEFINE t == [fetch[asset] EXCEPT !.at = "sent"]
             sent == requests[asset] + 1
  <2>1. fetch' = [fetch EXCEPT ![asset] = t] /\ requests' = [requests EXCEPT ![asset] = sent]
    BY <1>3 DEF WebDetect!Goes
  <2>2. /\ t \in Fetches /\ t.at = "sent" /\ t.hop = fetch[asset].hop /\ t.host = fetch[asset].host
        /\ t.attempt = fetch[asset].attempt
    <3>1. fetch[asset] \in Fetches /\ "sent" \in Steps
      BY <1>1, FetchIs DEF Steps
    <3> QED BY <3>1, MovedTask
  <2> HIDE DEF t
  <2>3. sent \in Nat /\ sent <= t.hop * (1 + Retries) + t.attempt + (IF t.at = "sent" THEN 1 ELSE 0)
    <3> DEFINE before == fetch[asset].hop * (1 + Retries)
    <3>1. /\ requests[asset] \in Nat /\ before \in Nat /\ fetch[asset].attempt \in Nat
          /\ requests[asset] <= before + fetch[asset].attempt
      BY <1>1, FetchIs
    <3> HIDE DEF before
    <3>2. sent \in Nat /\ sent <= before + fetch[asset].attempt + 1
      BY <3>1
    <3> QED BY <2>2, <3>2 DEF before
  <2> HIDE DEF sent
  <2>4. Halts(asset, t, halted', blocked)
    <3>1. asset \notin halted
      BY <1>1, <1>3 DEF WebKnows, FetcherKnows, Halts
    <3> QED BY <1>1, <2>2, <3>1 DEF Halts
  <2>5. /\ lookups' \in [queue : SUBSET Assets, busy : SUBSET Assets] /\ lookups'.busy \subseteq lookups.busy
        /\ halted' \subseteq Assets
    BY <1>1 DEF WebKnows, FetcherKnows, FetcherShapes
  <2>6. t.hop <= MaxRedirects[asset] /\ t.attempt <= Retries
    BY <1>1, <2>2, FetchIs
  <2> QED BY <1>1, <2>1, <2>2, <2>3, <2>4, <2>5, <2>6, AssetGoesOn
<1> QED BY <1>2, <1>3 DEF WebDetect!Request, WebDetect!AskedToStop

LEMMA AnswerKept ==
    ASSUME WebDetect!WebDetectAssumption, WebKnows, NEW asset \in Assets,
           WebDetect!Observed(asset) \/ WebDetect!Failed(asset) \/ WebDetect!RateLimited(asset)
    PROVE  WebKnows'
<1>1. /\ fetch[asset].at = "sent" /\ fetch[asset].at \in Steps
      /\ UNCHANGED <<seconds, lookups, halted, requests, phase, output, detections>>
  BY DEF WebDetect!Observed, WebDetect!Failed, WebDetect!RateLimited, WebDetect!At,
         WebDetect!files, Steps
<1>2. blocked' \subseteq WebDetect!Hosts /\ blocked \subseteq blocked'
  <2>1. fetch[asset].host \in WebDetect!Hosts /\ blocked \subseteq WebDetect!Hosts
    BY <1>1, FetchIs DEF WebKnows, FetcherKnows, FetcherShapes
  <2> QED BY <2>1 DEF WebDetect!Observed, WebDetect!Failed, WebDetect!RateLimited
<1>3. CASE \E outcome \in Answers : WebDetect!Ends(asset, outcome)
  BY <1>1, <1>2, <1>3, EndsKeep
<1>4. CASE WebDetect!Retry(asset) /\ blocked' = blocked
  BY <1>1, <1>4, RetryKept DEF WebKnows, FetcherKnows, FetcherShapes
<1> QED BY <1>3, <1>4 DEF WebDetect!Observed, WebDetect!Failed, WebDetect!RateLimited, Answers,
              WebDetect!Failures

LEMMA RedirectedKept ==
    ASSUME WebDetect!WebDetectAssumption, WebKnows, NEW asset \in Assets,
           WebDetect!Redirected(asset)
    PROVE  WebKnows'
<1>1. /\ fetch[asset].at = "sent" /\ fetch[asset].at \in Steps
      /\ UNCHANGED <<seconds, lookups, blocked, halted, requests, phase, output, detections>>
  BY DEF WebDetect!Redirected, WebDetect!At, WebDetect!files, Steps
<1>2. CASE WebDetect!Ends(asset, "redirect-blocked")
  <2>1. "redirect-blocked" \in Answers
    BY DEF Answers, WebDetect!Failures
  <2> QED BY <1>1, <1>2, <2>1, EndsKeep DEF WebKnows, FetcherKnows, FetcherShapes
<1>3. CASE ~WebDetect!Ends(asset, "redirect-blocked")
  <2> DEFINE hops == fetch[asset].hop + 1
  <2>1. PICK h \in WebDetect!Hosts :
          /\ fetch[asset].hop < MaxRedirects[asset]
          /\ fetch' = [fetch EXCEPT ![asset].host = h, ![asset].hop = @ + 1, ![asset].attempt = 0,
                                  ![asset].at = "request"]
    BY <1>3 DEF WebDetect!Redirected
  <2> DEFINE t == [fetch[asset] EXCEPT !.host = h, !.hop = hops, !.attempt = 0, !.at = "request"]
  <2>2. fetch' = [fetch EXCEPT ![asset] = t]
    BY <1>1, <2>1, FetchIs DEF Fetches
  <2>3. /\ hops \in Nat /\ hops <= MaxRedirects[asset]
        /\ hops * (1 + Retries) = fetch[asset].hop * (1 + Retries) + 1 + Retries
    <3>1. /\ fetch[asset].hop \in Nat /\ fetch[asset].hop < MaxRedirects[asset]
          /\ MaxRedirects[asset] \in Nat /\ Retries \in Nat
      BY <1>1, <2>1, FetchIs
    <3>2. (fetch[asset].hop + 1) * (1 + Retries) = fetch[asset].hop * (1 + Retries) + 1 + Retries
      BY <3>1, HopsAdd
    <3> QED BY <3>1, <3>2
  <2>4. requests[asset] <= hops * (1 + Retries)
    <3> DEFINE before == fetch[asset].hop * (1 + Retries)
    <3>1. /\ requests[asset] \in Nat /\ before \in Nat /\ fetch[asset].attempt \in Nat
          /\ requests[asset] <= before + fetch[asset].attempt + 1
          /\ fetch[asset].attempt <= Retries /\ Retries \in Nat
      BY <1>1, FetchIs
    <3>2. hops * (1 + Retries) = before + 1 + Retries
      BY <2>3
    <3> HIDE DEF before, hops
    <3> QED BY <3>1, <3>2
  <2> HIDE DEF hops
  <2>5. t \in Fetches /\ t.at = "request" /\ t.hop = hops /\ t.attempt = 0
    BY <1>1, <2>3, FetchIs DEF Fetches, Steps
  <2> HIDE DEF t
  <2>6. /\ t.hop <= MaxRedirects[asset] /\ t.attempt <= Retries
        /\ requests[asset] <= t.hop * (1 + Retries) + t.attempt + (IF t.at = "sent" THEN 1 ELSE 0)
        /\ requests[asset] \in Nat /\ requests' = [requests EXCEPT ![asset] = requests[asset]]
    <3>1. /\ requests[asset] \in Nat /\ requests = [requests EXCEPT ![asset] = requests[asset]]
          /\ Retries \in Nat /\ fetch[asset].hop * (1 + Retries) \in Nat
      BY <1>1, FetchIs
    <3> QED BY <1>1, <2>3, <2>4, <2>5, <3>1
  <2>7. Halts(asset, t, halted', blocked)
    BY <2>5 DEF Halts
  <2>8. /\ lookups' \in [queue : SUBSET Assets, busy : SUBSET Assets] /\ lookups'.busy \subseteq lookups.busy
        /\ halted' \subseteq Assets
    BY <1>1 DEF WebKnows, FetcherKnows, FetcherShapes
  <2> QED BY <1>1, <2>2, <2>5, <2>6, <2>7, <2>8, AssetGoesOn
<1> QED BY <1>2, <1>3

\* Steps of the command that leave the assets alone.
LEMMA FetcherStays ==
    ASSUME FetcherKnows, UNCHANGED <<fetch, lookups, blocked, halted, requests>>
    PROVE  FetcherKnows'
BY DEF FetcherKnows, FetcherShapes, WebDetect!Running

LEMMA OutcomeIs ==
    /\ WebDetect!Outcome(WebDetect!Results) \in {"failed", "success", "partial"}
    /\ UNCHANGED fetch => WebDetect!Outcome(WebDetect!Results)' = WebDetect!Outcome(WebDetect!Results)
BY DEF WebDetect!Outcome, WebDetect!Results

\* The files are written in their order, and only of results that are final.
LEMMA FilesKept ==
    ASSUME WebKnows,
           \/ WebDetect!Publish \/ WebDetect!WriteReview \/ WebDetect!WriteInventory
           \/ WebDetect!WriteManifest \/ WebDetect!Fails \/ WebDetect!Crash \/ WebDetect!Investigate
           \/ UNCHANGED WebDetect!vars
    PROVE  WebKnows'
<1>1. UNCHANGED <<seconds, fetch, lookups, blocked, halted, requests, detections>>
  BY DEF WebDetect!Publish, WebDetect!WriteReview, WebDetect!WriteInventory,
         WebDetect!WriteManifest, WebDetect!Fails, WebDetect!Crash, WebDetect!Investigate,
         WebDetect!fetcher, WebDetect!vars, WebDetect!files
<1>2. FetcherKnows'
  BY <1>1, FetcherStays DEF WebKnows
<1>3. /\ OutputKnows /\ (AllDone' <=> AllDone)
      /\ WebDetect!Outcome(WebDetect!Results) \in {"failed", "success", "partial"}
      /\ WebDetect!Outcome(WebDetect!Results)' = WebDetect!Outcome(WebDetect!Results)
  BY <1>1, OutcomeIs DEF WebKnows, AllDone
<1> SUFFICES OutputKnows'
  BY <1>2 DEF WebKnows
<1>4. CASE UNCHANGED <<phase, output>>
  BY <1>1, <1>3, <1>4 DEF OutputKnows
<1>5. CASE WebDetect!Publish
  <2>1. phase = "fetching" /\ AllDone /\ phase' \in {"ended", "review"} /\ output' = output
    BY <1>5 DEF WebDetect!Publish, WebDetect!At, AllDone
  <2>2. output.man # detections
    BY <1>3, <2>1 DEF OutputKnows
  <2> QED BY <1>1, <1>3, <2>1, <2>2 DEF OutputKnows
<1>6. CASE WebDetect!WriteReview
  <2>1. /\ phase = "review" /\ output' = [output EXCEPT !.review = detections]
        /\ phase' = IF WebDetect!Outcome(WebDetect!Results) = "failed" THEN "ended" ELSE "inventory"
    BY <1>6 DEF WebDetect!WriteReview
  <2>2. /\ output' \in [review : Nat, inv : Nat, man : Nat,
                        status : {"none", "failed", "success", "partial"}]
        /\ output'.review = detections /\ output'.inv = output.inv /\ output'.man = output.man
        /\ output.inv < detections /\ output.man < detections
    BY <1>3, <2>1 DEF OutputKnows
  <2> QED BY <1>1, <1>3, <2>1, <2>2 DEF OutputKnows
<1>7. CASE WebDetect!WriteInventory
  <2>1. phase = "inventory" /\ output' = [output EXCEPT !.inv = detections] /\ phase' = "manifest"
    BY <1>7 DEF WebDetect!WriteInventory
  <2>2. /\ output' \in [review : Nat, inv : Nat, man : Nat,
                        status : {"none", "failed", "success", "partial"}]
        /\ output'.review = detections /\ output'.inv = detections /\ output'.man = output.man
        /\ output.man < detections
    BY <1>3, <2>1 DEF OutputKnows
  <2> QED BY <1>1, <1>3, <2>1, <2>2 DEF OutputKnows
<1>8. CASE WebDetect!WriteManifest
  <2> DEFINE status == WebDetect!Outcome(WebDetect!Results)
  <2>1. /\ phase = "manifest" /\ output' = [output EXCEPT !.man = detections, !.status = status]
        /\ phase' = "ended"
    BY <1>8 DEF WebDetect!WriteManifest
  <2>2. status \in {"failed", "success", "partial"} /\ status # "failed"
    BY <1>3, <2>1 DEF OutputKnows
  <2>3. status' = status
    BY <1>3
  <2> HIDE DEF status
  <2>4. /\ output' \in [review : Nat, inv : Nat, man : Nat,
                        status : {"none", "failed", "success", "partial"}]
        /\ output'.review = detections /\ output'.inv = detections /\ output'.man = detections
        /\ output'.status = status
    BY <1>3, <2>1, <2>2 DEF OutputKnows
  <2>5. AllDone'
    BY <1>3, <2>1 DEF OutputKnows
  <2>6. output'.status = WebDetect!Outcome(WebDetect!Results)' /\ output'.status # "failed"
    BY <2>2, <2>3, <2>4 DEF status
  <2> QED BY <1>1, <1>3, <2>1, <2>4, <2>5, <2>6 DEF OutputKnows
<1>9. CASE WebDetect!Fails \/ WebDetect!Crash
  <2>1. phase # "ended" /\ phase' = "ended" /\ output' = output
    BY <1>9 DEF WebDetect!Fails, WebDetect!Crash, WebDetect!files
  <2>2. output.man # detections
    BY <1>3, <2>1 DEF OutputKnows
  <2> QED BY <1>1, <1>3, <2>1, <2>2 DEF OutputKnows
<1> QED
  BY <1>4, <1>5, <1>6, <1>7, <1>8, <1>9 DEF WebDetect!Investigate, WebDetect!vars, WebDetect!files

LEMMA TickKept ==
    ASSUME WebDetect!WebDetectAssumption, WebKnows, WebDetect!Tick
    PROVE  WebKnows'
<1>1. /\ seconds' = seconds + 1 /\ seconds < MaxSeconds
      /\ UNCHANGED <<fetch, lookups, blocked, halted, requests, phase, output, detections>>
  BY DEF WebDetect!Tick, WebDetect!fetcher, WebDetect!files
<1>2. seconds' \in 0..MaxSeconds
  BY <1>1 DEF WebKnows, OutputKnows, WebDetect!WebDetectAssumption
<1> QED BY <1>1, <1>2, FetcherStays, SameOutput DEF WebKnows

\* Nothing is known of an asset that was not begun.
LEMMA NothingBegun ==
    ASSUME WebDetect!WebDetectAssumption, fetch = WebDetect!NoTasks, lookups = WebDetect!NoLookups,
           blocked = {}, requests = WebDetect!NoRequests, halted = {}
    PROVE  FetcherKnows
<1>1. /\ fetch \in [Assets -> Tasks] /\ \A asset \in Assets : fetch[asset].at = "queued"
      /\ requests \in [Assets -> Nat] /\ \A asset \in Assets : requests[asset] = 0
  BY DEF WebDetect!NoTasks, WebDetect!NoRequests, Tasks, WebDetect!Queued
<1>2. WebDetect!Running = {} /\ lookups.busy = {}
  BY <1>1 DEF WebDetect!Running, WebDetect!NoLookups
<1>3. Cardinality(lookups.busy) <= Threads /\ Cardinality(WebDetect!Running) <= Threads
  BY <1>2, FS_EmptySet DEF WebDetect!WebDetectAssumption
<1>4. lookups \in [queue : SUBSET Assets, busy : SUBSET Assets]
  BY DEF WebDetect!NoLookups
<1>5. FetcherShapes
  BY <1>1, <1>3, <1>4 DEF FetcherShapes
<1>6. \A asset \in Assets :
          Fits(asset, fetch[asset], requests[asset]) /\ Halts(asset, fetch[asset], halted, blocked)
  <2> SUFFICES ASSUME NEW asset \in Assets
               PROVE  /\ Fits(asset, fetch[asset], requests[asset])
                      /\ Halts(asset, fetch[asset], halted, blocked)
    OBVIOUS
  <2>1. (1 + MaxRedirects[asset]) * (1 + Retries) \in Nat
    BY HopsAdd DEF WebDetect!WebDetectAssumption
  <2> QED BY <1>1, <2>1 DEF Fits, Halts, Steps
<1> QED BY <1>5, <1>6 DEF FetcherKnows

LEMMA AgainKept ==
    ASSUME WebDetect!WebDetectAssumption, WebKnows, WebDetect!Again
    PROVE  WebKnows'
<1>1. /\ fetch' = WebDetect!NoTasks /\ lookups' = WebDetect!NoLookups /\ blocked' = {}
      /\ requests' = WebDetect!NoRequests /\ halted' = {}
      /\ seconds' = 0 /\ phase' = "fetching" /\ detections' = detections + 1 /\ output' = output
  BY DEF WebDetect!Again, WebDetect!files
<1>2. FetcherKnows'
  <2>1. /\ fetch' \in [Assets -> Tasks] /\ \A asset \in Assets : fetch'[asset].at = "queued"
        /\ requests' \in [Assets -> Nat] /\ \A asset \in Assets : requests'[asset] = 0
    BY <1>1 DEF WebDetect!NoTasks, WebDetect!NoRequests, Tasks, WebDetect!Queued
  <2>2. WebDetect!Running' = {} /\ lookups'.busy = {}
    BY <1>1, <2>1 DEF WebDetect!Running, WebDetect!NoLookups
  <2>3. Cardinality(lookups'.busy) <= Threads /\ Cardinality(WebDetect!Running') <= Threads
    BY <2>2, FS_EmptySet DEF WebDetect!WebDetectAssumption
  <2>4. lookups' \in [queue : SUBSET Assets, busy : SUBSET Assets]
    BY <1>1 DEF WebDetect!NoLookups
  <2>5. FetcherShapes'
    BY <1>1, <2>1, <2>3, <2>4 DEF FetcherShapes
  <2>6. \A asset \in Assets :
            /\ Fits(asset, fetch'[asset], requests'[asset])
            /\ Halts(asset, fetch'[asset], halted', blocked')
    <3> SUFFICES ASSUME NEW asset \in Assets
                 PROVE  /\ Fits(asset, fetch'[asset], requests'[asset])
                        /\ Halts(asset, fetch'[asset], halted', blocked')
      OBVIOUS
    <3>1. (1 + MaxRedirects[asset]) * (1 + Retries) \in Nat
      BY HopsAdd DEF WebDetect!WebDetectAssumption
    <3> QED BY <2>1, <3>1 DEF Fits, Halts, Steps
  <2> QED BY <2>5, <2>6 DEF FetcherKnows
<1>3. OutputKnows'
  <2>1. 0 \in 0..MaxSeconds
    BY DEF WebDetect!WebDetectAssumption
  <2> QED BY <1>1, <2>1 DEF WebKnows, OutputKnows
<1> QED BY <1>2, <1>3 DEF WebKnows

LEMMA WebInit == WebDetect!WebDetectAssumption /\ WebDetect!Init => WebKnows
<1> SUFFICES ASSUME WebDetect!WebDetectAssumption, WebDetect!Init PROVE WebKnows
  OBVIOUS
<1>1. FetcherKnows
  BY NothingBegun DEF WebDetect!Init
<1>2. OutputKnows
  <2>1. 0 \in 0..MaxSeconds
    BY DEF WebDetect!WebDetectAssumption
  <2> QED BY <2>1 DEF WebDetect!Init, WebDetect!NoOutput, OutputKnows
<1> QED BY <1>1, <1>2 DEF WebKnows

LEMMA WebNext ==
    ASSUME WebDetect!WebDetectAssumption, WebKnows, [WebDetect!Next]_(WebDetect!vars)
    PROVE  WebKnows'
BY BeginsKept, AttemptKept, LookupTimeoutKept, PaceKept, RequestKept, AnswerKept, RedirectedKept,
   LookupKept, ResolvedKept, FilesKept, TickKept, AgainKept DEF WebDetect!Next

\* When the time of the run is over, so is that of every asset, and one that is in nobody's
\* hands finds a thread.
LEMMA ThreadsGoOn ==
    ASSUME WebDetect!WebDetectAssumption, WebKnows
    PROVE  WebDetect!NobodyHangs
<1> SUFFICES ASSUME phase = "fetching", seconds >= RunTimeout,
                    NEW asset \in Assets, fetch[asset].at # "done"
             PROVE  \E other \in Assets : WebDetect!Moves(other)
  BY DEF WebDetect!NobodyHangs, WebDetect!At
<1>1. fetch \in [Assets -> Tasks] /\ seconds \in Nat /\ RunTimeout \in Nat /\ Threads \in Nat \ {0}
  BY DEF WebKnows, FetcherKnows, FetcherShapes, OutputKnows, WebDetect!WebDetectAssumption
<1>2. ASSUME NEW other \in Assets, fetch[other].at \in Steps
      PROVE  WebDetect!Moves(other)
  <2>1. fetch[other] \in Fetches
    BY <1>1, <1>2 DEF Tasks, Steps, WebDetect!Queued
  <2>2. seconds >= fetch[other].deadline
    BY <1>1, <2>1 DEF Fetches
  <2> QED BY <1>2, <2>2 DEF WebDetect!Moves, WebDetect!MayGiveUp, WebDetect!MayPace, WebDetect!Expired,
             WebDetect!At, Steps
<1>3. CASE WebDetect!Running = {}
  <2>1. Cardinality(WebDetect!Running) = 0
    BY <1>3, FS_EmptySet
  <2>2. fetch[asset].at = "queued"
    BY <1>3 DEF WebDetect!Running
  <2>3. WebDetect!MayBegin(asset)
    BY <1>1, <2>1, <2>2, SameFetchers DEF WebDetect!MayBegin, WebDetect!At
  <2> QED BY <2>3 DEF WebDetect!Moves
<1>4. CASE WebDetect!Running # {}
  <2>1. PICK other \in Assets : fetch[other].at \notin {"queued", "done"}
    BY <1>4 DEF WebDetect!Running
  <2>2. fetch[other].at \in Steps
    BY <1>1, <2>1 DEF Tasks, Fetches, WebDetect!Queued
  <2> QED BY <1>2, <2>2
<1> QED BY <1>3, <1>4

LEMMA WebIs ==
    ASSUME WebDetect!WebDetectAssumption, WebKnows
    PROVE  WebDetect!WebInv
<1>1. WebDetect!TypeOK
  BY SameFetchers DEF WebKnows, FetcherKnows, FetcherShapes, OutputKnows, WebDetect!TypeOK
<1>2. WebDetect!PlanIsKept
  BY DEF WebKnows, FetcherKnows, Fits, WebDetect!PlanIsKept
<1>3. WebDetect!StoppedHost
  BY DEF WebKnows, FetcherKnows, Halts, WebDetect!StoppedHost, WebDetect!At
<1>4. WebDetect!SuccessIsComplete
  <2> SUFFICES ASSUME output.man = detections, ~PublishesPartial
               PROVE  /\ WebDetect!Results \cap WebDetect!Failures = {}
                      /\ output.status = "success" => WebDetect!Results = {"rows"}
    BY DEF WebDetect!SuccessIsComplete
  <2>1. /\ output.status = WebDetect!Outcome(WebDetect!Results) /\ output.status # "failed"
    BY DEF WebKnows, OutputKnows
  <2> QED BY <2>1 DEF WebDetect!Outcome
<1>5. WebDetect!OutputIsOrdered
  BY DEF WebKnows, OutputKnows, WebDetect!OutputIsOrdered
<1> QED BY <1>1, <1>2, <1>3, <1>4, <1>5, ThreadsGoOn DEF WebDetect!WebInv

\* However requests fail, hang, are redirected or throttled in the threads of a run, and
\* wherever it dies: no asset takes more requests than the plan said, a host that asked to stop
\* gets no more, a snapshot that says success leaves nothing out, files come in their order,
\* and lookups that never return stop nobody, for any assets, hosts, threads and limits.
THEOREM WebCorrect ==
    WebDetect!WebDetectAssumption => (WebDetect!Spec => []WebDetect!WebInv)
<1> SUFFICES ASSUME WebDetect!WebDetectAssumption PROVE WebDetect!Spec => []WebDetect!WebInv
  OBVIOUS
<1>1. WebDetect!Init => WebKnows
  BY WebInit
<1>2. WebKnows /\ [WebDetect!Next]_(WebDetect!vars) => WebKnows'
  BY WebNext
<1>3. WebKnows => WebDetect!WebInv
  BY WebIs
<1> QED BY <1>1, <1>2, <1>3, PTL DEF WebDetect!Spec
-----------------------------------------------------------------------------
(* The schedule: its task and its audit trail. *)

Requested(id) == [name |-> "requested", of |-> id]

\* An operation at a place, changed or not, with the rest of it kept.
Moved(x, place, changed) ==
    [at |-> place, id |-> x.id, plan |-> x.plan, stored |-> x.stored, read |-> x.read,
     changed |-> changed]

\* What somebody who works on the schedule is at: only a crontab is read before it is
\* written, nothing is changed before that, and a page that got further than its request
\* has it in the trail.
OpKnows(a) ==
    op[a] # Schedule!Idle =>
        /\ op[a] = Moved(op[a], op[a].at, op[a].changed) /\ op[a].changed \in BOOLEAN
        /\ op[a].at \in {"requested", "ready", "read", "finished"}
        /\ op[a].at = "read" => system = "linux"
        /\ op[a].at \in {"requested", "ready", "read"} => ~op[a].changed
        /\ a \in Browsers /\ op[a].at # "requested" => Requested(op[a].id) \in trail

OpsKnow ==
    /\ op = [a \in Schedule!Actors |-> op[a]]
    /\ \A a \in Schedule!Actors : OpKnows(a)

RowsKnow ==
    \A row \in queue \cup trail : row.name # "requested" => Requested(row.of) \in trail

ScheduleKnows == OpsKnow /\ RowsKnow /\ Schedule!ShowsTask

\* An actor goes on, or is done: the others stay, and a trail that grows keeps what they know.
LEMMA OpMoves ==
    ASSUME OpsKnow, NEW a \in Schedule!Actors, system' = system, trail \subseteq trail',
           NEW x, op' = [op EXCEPT ![a] = x],
           \/ x = Schedule!Idle
           \/ /\ x = Moved(x, x.at, x.changed) /\ x.changed \in BOOLEAN
              /\ x.at \in {"requested", "ready", "read", "finished"}
              /\ x.at = "read" => system = "linux"
              /\ x.at \in {"requested", "ready", "read"} => ~x.changed
              /\ a \in Browsers /\ x.at # "requested" => Requested(x.id) \in trail'
    PROVE  OpsKnow'
<1>1. /\ op' = [d \in Schedule!Actors |-> op'[d]] /\ op'[a] = x
      /\ \A d \in Schedule!Actors : d # a => op'[d] = op[d]
  BY DEF OpsKnow
<1>2. ASSUME NEW d \in Schedule!Actors PROVE OpKnows(d)'
  <2>1. CASE d = a
    BY <1>1, <2>1 DEF OpKnows, Moved, Requested, Schedule!Idle
  <2>2. CASE d # a
    <3>1. op'[d] = op[d] /\ OpKnows(d)
      BY <1>1, <2>2 DEF OpsKnow
    <3> QED BY <3>1 DEF OpKnows, Moved, Requested, Schedule!Idle
  <2> QED BY <2>1, <2>2
<1>3. Schedule!Actors' = Schedule!Actors
  BY DEF Schedule!Actors
<1> QED BY <1>1, <1>2, <1>3 DEF OpsKnow

\* What an actor at work is, and what it is when it goes on.
LEMMA OpIs ==
    ASSUME OpsKnow, NEW a \in Schedule!Actors, op[a] # Schedule!Idle
    PROVE  /\ op[a] = Moved(op[a], op[a].at, op[a].changed) /\ op[a].changed \in BOOLEAN
           /\ op[a].at \in {"requested", "ready", "read", "finished"}
           /\ op[a].at = "read" => system = "linux"
           /\ op[a].at \in {"requested", "ready", "read"} => ~op[a].changed
           /\ a \in Browsers /\ op[a].at # "requested" => Requested(op[a].id) \in trail
BY DEF OpsKnow, OpKnows

LEMMA MovedIs ==
    ASSUME NEW x, NEW place, NEW changed \in BOOLEAN
    PROVE  LET y == Moved(x, place, changed)
           IN  /\ y.at = place /\ y.changed = changed /\ y.id = x.id
               /\ y = Moved(y, y.at, y.changed)
BY DEF Moved

\* Moving a shaped operation is an update of its place.
LEMMA MovesTo ==
    ASSUME NEW x, NEW place, x = Moved(x, x.at, x.changed), x.changed \in BOOLEAN
    PROVE  [x EXCEPT !.at = place] = Moved(x, place, x.changed)
BY DEF Moved

\* The change is made.
Done(x, changed) == [x EXCEPT !.at = "finished", !.changed = changed]

LEMMA DoneIs ==
    ASSUME NEW x, NEW changed, x = Moved(x, x.at, x.changed), x.changed \in BOOLEAN
    PROVE  Done(x, changed) = Moved(x, "finished", changed)
<1> DEFINE y == [x EXCEPT !.at = "finished"]
<1>1. Done(x, changed) = [y EXCEPT !.changed = changed]
  BY DEF Done
<1>2. y = Moved(x, "finished", x.changed)
  BY MovesTo
<1> HIDE DEF y
<1>3. y = Moved(y, y.at, y.changed) /\ y.at = "finished" /\ y.changed \in BOOLEAN
  BY <1>2, MovedIs
<1>4. [y EXCEPT !.changed = changed] = Moved(y, "finished", changed)
  BY <1>3 DEF Moved
<1>5. Moved(y, "finished", changed) = Moved(x, "finished", changed)
  BY <1>2 DEF Moved
<1> QED BY <1>1, <1>4, <1>5


LEMMA ScheduleAsk ==
    ASSUME ScheduleKnows,
           NEW a \in Schedule!Actors, NEW plan \in Plans \cup {Nothing}, NEW stored \in BOOLEAN,
           Schedule!Ask(a, plan, stored)
    PROVE  ScheduleKnows'
<1> DEFINE x == [at |-> Schedule!First(a), id |-> ops, plan |-> plan, stored |-> stored,
                 read |-> Nothing, changed |-> FALSE]
<1>1. /\ op' = [op EXCEPT ![a] = x]
      /\ system' = system /\ task' = task /\ queue' = queue /\ trail' = trail
      /\ current' = current /\ tab' = tab
  BY DEF Schedule!Ask, Schedule!jobs
<1>2. Schedule!First(a) \in {"requested", "ready"} /\ (a \in Browsers => Schedule!First(a) = "requested")
  BY DEF Schedule!First
<1>3. /\ x = Moved(x, x.at, x.changed) /\ x.changed = FALSE /\ x.at = Schedule!First(a)
  BY DEF Moved
<1> HIDE DEF x
<1>4. OpsKnow'
  BY <1>1, <1>2, <1>3, OpMoves DEF ScheduleKnows
<1>5. RowsKnow'
  BY <1>1 DEF ScheduleKnows, RowsKnow
<1>6. Schedule!ShowsTask'
  BY <1>1 DEF ScheduleKnows, Schedule!ShowsTask, Schedule!Described
<1> QED BY <1>4, <1>5, <1>6 DEF ScheduleKnows

\* The row that a page records is the request itself, or one of a request in the trail.
LEMMA ScheduleAudit ==
    ASSUME ScheduleKnows,
           NEW a \in Browsers, NEW recorded \in BOOLEAN, NEW cleared \in BOOLEAN,
           Schedule!Audit(a, recorded, cleared)
    PROVE  ScheduleKnows'
<1> DEFINE row == Schedule!Row(a, Schedule!AuditName(a))
           x == IF cleared /\ Schedule!Recorded(a) = "ready" THEN [op[a] EXCEPT !.at = "ready"]
                ELSE Schedule!Idle
<1>1. /\ op' = [op EXCEPT ![a] = x]
      /\ system' = system /\ task' = task /\ current' = current /\ tab' = tab
      /\ trail' = IF recorded THEN trail \cup {row} ELSE trail
      /\ queue' = IF cleared THEN queue ELSE queue \cup {row}
      /\ op[a].at \in {"requested", "finished"} /\ (cleared => recorded)
  BY DEF Schedule!Audit, Schedule!past
<1>2. a \in Schedule!Actors
  BY DEF Schedule!Actors
<1>3. op[a] # Schedule!Idle
  BY <1>1 DEF Schedule!Idle
<1>4. /\ op[a] = Moved(op[a], op[a].at, op[a].changed) /\ op[a].changed \in BOOLEAN
      /\ op[a].at \in {"requested", "ready", "read"} => ~op[a].changed
      /\ op[a].at # "requested" => Requested(op[a].id) \in trail
  BY <1>2, <1>3, OpIs DEF ScheduleKnows
<1>5. op[a].at = "requested" => row = Requested(op[a].id)
  BY DEF Schedule!Row, Schedule!AuditName, Requested
<1>6. row.of = op[a].id
  BY DEF Schedule!Row
<1>7. x # Schedule!Idle =>
        /\ x = Moved(op[a], "ready", op[a].changed) /\ op[a].at = "requested" /\ recorded
  BY <1>1, <1>4, MovesTo DEF Schedule!Recorded
<1> HIDE DEF row, x
<1>8. x # Schedule!Idle =>
        /\ x = Moved(x, x.at, x.changed) /\ x.at = "ready" /\ x.changed = op[a].changed
        /\ x.id = op[a].id /\ ~x.changed
  BY <1>4, <1>7, MovedIs
<1>9. x # Schedule!Idle => Requested(x.id) \in trail'
  BY <1>1, <1>5, <1>7, <1>8
<1>10. trail \subseteq trail'
  BY <1>1
<1>11. OpsKnow'
  BY <1>1, <1>2, <1>4, <1>8, <1>9, <1>10, OpMoves DEF ScheduleKnows
<1>12. row.name # "requested" => Requested(row.of) \in trail
  BY <1>4, <1>5, <1>6 DEF Requested
<1>13. queue' \cup trail' \subseteq (queue \cup trail) \cup {row}
  BY <1>1
<1>14. RowsKnow'
  BY <1>10, <1>12, <1>13 DEF ScheduleKnows, RowsKnow
<1>15. Schedule!ShowsTask'
  BY <1>1 DEF ScheduleKnows, Schedule!ShowsTask, Schedule!Described
<1> QED BY <1>11, <1>14, <1>15 DEF ScheduleKnows

LEMMA ScheduleRetry ==
    ASSUME ScheduleKnows, NEW row \in queue, NEW cleared \in BOOLEAN,
           Schedule!Retry(row, cleared)
    PROVE  ScheduleKnows'
<1>1. /\ op' = op /\ system' = system /\ task' = task /\ current' = current /\ tab' = tab
      /\ trail' = trail \cup {row} /\ queue' \subseteq queue
  BY DEF Schedule!Retry, Schedule!past
<1>2. OpsKnow'
  BY <1>1 DEF ScheduleKnows, OpsKnow, OpKnows, Schedule!Actors, Moved, Schedule!Idle, Requested
<1>3. RowsKnow'
  BY <1>1 DEF ScheduleKnows, RowsKnow, Requested
<1>4. Schedule!ShowsTask'
  BY <1>1 DEF ScheduleKnows, Schedule!ShowsTask, Schedule!Described
<1> QED BY <1>2, <1>3, <1>4 DEF ScheduleKnows


LEMMA ScheduleRead ==
    ASSUME ScheduleKnows, NEW a \in Schedule!Actors, Schedule!Read(a)
    PROVE  ScheduleKnows'
<1>1. /\ system = "linux" /\ op[a].at = "ready" /\ system' = system /\ task' = task
      /\ current' = current /\ tab' = tab /\ queue' = queue /\ trail' = trail
  BY DEF Schedule!Read, Schedule!jobs, Schedule!past
<1>2. PICK x : /\ op' = [op EXCEPT ![a] = x]
               /\ \/ x = Schedule!Idle
                  \/ x = [op[a] EXCEPT !.at = "finished"]
                  \/ x = [op[a] EXCEPT !.at = "read", !.read = tab]
  BY Zenon DEF Schedule!Read
<1>3. op[a] # Schedule!Idle
  BY <1>1 DEF Schedule!Idle
<1>4. /\ op[a] = Moved(op[a], op[a].at, op[a].changed) /\ op[a].changed \in BOOLEAN
      /\ ~op[a].changed /\ (a \in Browsers => Requested(op[a].id) \in trail)
  BY <1>1, <1>3, OpIs DEF ScheduleKnows
<1>5. \/ x = Schedule!Idle
      \/ /\ x = Moved(x, x.at, x.changed) /\ x.changed = op[a].changed /\ x.id = op[a].id
         /\ x.at \in {"finished", "read"}
  BY <1>2, <1>4 DEF Moved
<1>6. OpsKnow'
  BY <1>1, <1>2, <1>4, <1>5, OpMoves DEF ScheduleKnows
<1>7. RowsKnow'
  BY <1>1 DEF ScheduleKnows, RowsKnow
<1>8. Schedule!ShowsTask'
  BY <1>1 DEF ScheduleKnows, Schedule!ShowsTask, Schedule!Described
<1> QED BY <1>6, <1>7, <1>8 DEF ScheduleKnows

\* An operation that made its change is done, or has a change to tell of.
LEMMA AfterIs ==
    ASSUME OpsKnow, NEW a \in Schedule!Actors, op[a] # Schedule!Idle
    PROVE  \/ Schedule!After(a) = Schedule!Idle
           \/ LET x == Schedule!After(a)
              IN  /\ x = Moved(x, x.at, x.changed) /\ x.changed \in BOOLEAN
                  /\ x.at = "finished" /\ x.id = op[a].id
<1>1. op[a] = Moved(op[a], op[a].at, op[a].changed) /\ op[a].changed \in BOOLEAN
  BY OpIs
<1>2. CASE a \notin Browsers
  BY <1>2 DEF Schedule!After
<1>3. CASE a \in Browsers
  <2>1. Schedule!After(a) = Done(op[a], TRUE)
    BY <1>3 DEF Schedule!After, Done
  <2>2. Done(op[a], TRUE) = Moved(op[a], "finished", TRUE)
    BY <1>1, DoneIs
  <2>3. ASSUME NEW y, NEW changed \in BOOLEAN, y = Moved(op[a], "finished", changed)
        PROVE  /\ y = Moved(y, y.at, y.changed) /\ y.changed \in BOOLEAN
               /\ y.at = "finished" /\ y.id = op[a].id
    BY <2>3, MovedIs
  <2> QED BY <2>1, <2>2, <2>3, Zenon
<1> QED BY <1>2, <1>3

LEMMA ScheduleWrite ==
    ASSUME ScheduleKnows, NEW a \in Schedule!Actors, NEW ok \in BOOLEAN, Schedule!Write(a, ok)
    PROVE  ScheduleKnows'
<1>1. /\ op[a].at = "read" /\ system' = system /\ task' = task
      /\ queue' = queue /\ trail' = trail
  BY DEF Schedule!Write, Schedule!jobs
<1>2. op' = [op EXCEPT ![a] = Schedule!After(a)] \/ op' = [op EXCEPT ![a] = Schedule!Idle]
  BY DEF Schedule!Write
<1>3. op[a] # Schedule!Idle
  BY <1>1 DEF Schedule!Idle
<1>4. system = "linux" /\ (a \in Browsers => Requested(op[a].id) \in trail)
  BY <1>1, <1>3, OpIs DEF ScheduleKnows
<1>5. OpsKnow'
  BY <1>1, <1>2, <1>3, <1>4, AfterIs, OpMoves DEF ScheduleKnows
<1>6. RowsKnow'
  BY <1>1 DEF ScheduleKnows, RowsKnow
<1>7. Schedule!ShowsTask'
  BY <1>1, <1>4 DEF Schedule!ShowsTask
<1> QED BY <1>5, <1>6, <1>7 DEF ScheduleKnows

\* A task is at the interval that was asked for, or at midnight.
LEMMA TaskIsShown ==
    ASSUME NEW plan, NEW xml
    PROVE  LET x == Schedule!WindowsTask(plan, xml)
           IN  x.every = plan.every \/ x.times = {<<0, 0>>}
BY DEF Schedule!WindowsTask

LEMMA ScheduleRegister ==
    ASSUME ScheduleKnows, NEW a \in Schedule!Actors, NEW ok \in BOOLEAN, Schedule!Register(a, ok)
    PROVE  ScheduleKnows'
<1> DEFINE done == [op[a] EXCEPT !.at = "finished"]
           x == IF ~ok THEN Schedule!Idle
                ELSE IF op[a].plan = Nothing /\ task = Nothing /\ a \in Browsers THEN done
                ELSE Schedule!After(a)
<1>1. /\ op[a].at = "ready" /\ system' = system /\ queue' = queue /\ trail' = trail
      /\ tab' = tab /\ op' = [op EXCEPT ![a] = x]
  BY DEF Schedule!Register, Schedule!jobs
<1>2. op[a] # Schedule!Idle
  BY <1>1 DEF Schedule!Idle
<1>3. /\ op[a] = Moved(op[a], op[a].at, op[a].changed) /\ op[a].changed \in BOOLEAN
      /\ a \in Browsers => Requested(op[a].id) \in trail
  BY <1>1, <1>2, OpIs DEF ScheduleKnows
<1>4. /\ done = Moved(done, done.at, done.changed) /\ done.changed = op[a].changed
      /\ done.id = op[a].id /\ done.at = "finished"
  <2>1. done = Moved(op[a], "finished", op[a].changed)
    BY <1>3, MovesTo
  <2> HIDE DEF done
  <2> QED BY <1>3, <2>1, MovedIs
<1> HIDE DEF done
<1>5. \/ x = Schedule!Idle
      \/ /\ x = Moved(x, x.at, x.changed) /\ x.changed \in BOOLEAN
         /\ x.at = "finished" /\ x.id = op[a].id
  <2>1. x \in {Schedule!Idle, done, Schedule!After(a)}
    OBVIOUS
  <2> HIDE DEF x
  <2> QED BY <1>2, <1>3, <1>4, <2>1, AfterIs DEF ScheduleKnows
<1> HIDE DEF x
<1>6. OpsKnow'
  BY <1>1, <1>3, <1>5, OpMoves DEF ScheduleKnows
<1>7. RowsKnow'
  BY <1>1 DEF ScheduleKnows, RowsKnow
<1>8. Schedule!ShowsTask'
  <2>1. CASE ~ok
    <3>1. task' = task /\ current' = current
      BY <2>1 DEF Schedule!Register
    <3> QED BY <1>1, <3>1 DEF ScheduleKnows, Schedule!ShowsTask, Schedule!Described
  <2>2. CASE ok
    <3>1. PICK xml \in BOOLEAN :
            /\ current' = op[a].plan
            /\ current' # Nothing => task' = Schedule!WindowsTask(op[a].plan, xml)
      BY <2>2 DEF Schedule!Register
    <3>2. current' # Nothing => task'.every = current'.every \/ task'.times = {<<0, 0>>}
      BY <3>1, TaskIsShown
    <3> QED BY <3>2 DEF Schedule!ShowsTask, Schedule!Described
  <2> QED BY <2>1, <2>2
<1> QED BY <1>6, <1>7, <1>8 DEF ScheduleKnows

LEMMA ScheduleElse ==
    ASSUME ScheduleKnows, Schedule!Crash \/ Schedule!Edit \/ UNCHANGED Schedule!vars
    PROVE  ScheduleKnows'
<1>1. /\ queue' = queue /\ trail' = trail /\ system' = system /\ task' = task
      /\ \A a \in Schedule!Actors : op'[a] \in {op[a], Schedule!Idle}
      /\ op' = [a \in Schedule!Actors |-> op'[a]]
  BY DEF ScheduleKnows, OpsKnow, Schedule!Crash, Schedule!Edit, Schedule!vars, Schedule!jobs,
         Schedule!past
<1>2. OpsKnow'
  <2>1. ASSUME NEW a \in Schedule!Actors PROVE OpKnows(a)'
    BY <1>1 DEF ScheduleKnows, OpsKnow, OpKnows, Moved, Requested, Schedule!Idle
  <2>2. Schedule!Actors' = Schedule!Actors
    BY DEF Schedule!Actors
  <2> QED BY <1>1, <2>1, <2>2 DEF OpsKnow
<1>3. RowsKnow'
  BY <1>1 DEF ScheduleKnows, RowsKnow
<1>4. Schedule!ShowsTask'
  <2>1. system = "linux" \/ current' = current
    BY DEF Schedule!Crash, Schedule!Edit, Schedule!vars, Schedule!past
  <2>2. CASE system = "linux"
    BY <1>1, <2>2 DEF Schedule!ShowsTask
  <2>3. CASE current' = current /\ system # "linux"
    BY <1>1, <2>3 DEF ScheduleKnows, Schedule!ShowsTask, Schedule!Described
  <2> QED BY <2>1, <2>2, <2>3
<1> QED BY <1>2, <1>3, <1>4 DEF ScheduleKnows

\* A set of natural numbers that is not empty has a least one.
LEMMA Least ==
    ASSUME NEW S \in SUBSET Nat, S # {}
    PROVE  \E n \in S : \A m \in S : n <= m
<1>1. \E n \in S : \A m \in S : ~(<<m, n>> \in OpToRel(<, Nat))
  BY NatLessThanWellFounded, WFMin, Zenon
<1>2. PICK n \in S : \A m \in S : ~(<<m, n>> \in OpToRel(<, Nat))
  BY <1>1
<1>3. \A m \in S : ~(m < n)
  BY <1>2, Zenon DEF OpToRel
<1> QED BY <1>3

\* Induction, for the members of a set.
LEMMA Induct ==
    ASSUME NEW S, 0 \in S, \A n \in Nat : n \in S => n + 1 \in S
    PROVE  Nat \subseteq S
<1> DEFINE U == Nat \ S
<1> SUFFICES ASSUME U # {} PROVE FALSE
  OBVIOUS
<1>1. PICK n \in U : \A m \in U : n <= m
  BY Least
<1>2. n # 0 /\ n - 1 \in Nat /\ ~(n <= n - 1) /\ (n - 1) + 1 = n
  BY <1>1
<1>3. n - 1 \in S
  BY <1>1, <1>2
<1> QED BY <1>1, <1>2, <1>3

-----------------------------------------------------------------------------
(* The lines of a crontab. *)

Sorted(s) == \A i, j \in DOMAIN s : i < j => s[i].minute < s[j].minute
Until(S, k) == {l \in S : l.minute < k}

\* Lines of different minutes can be put in their order.
SortsUntil(S, k) ==
    /\ IsFiniteSet(Until(S, k))
    /\ \E s \in Seq(Schedule!Starts) :
           Len(s) = Cardinality(Until(S, k)) /\ Range(s) = Until(S, k) /\ Sorted(s)

LEMMA SortsNext ==
    ASSUME NEW S \in SUBSET Schedule!Starts, \A l, m \in S : l.minute = m.minute => l = m,
           NEW k \in Nat, SortsUntil(S, k)
    PROVE  SortsUntil(S, k + 1)
<1>1. \A l \in S : l.minute \in Nat
  BY DEF Schedule!Starts
<1>2. PICK s \in Seq(Schedule!Starts) :
        Len(s) = Cardinality(Until(S, k)) /\ Range(s) = Until(S, k) /\ Sorted(s)
  BY DEF SortsUntil
<1>3. CASE \A l \in S : l.minute # k
  <2>1. Until(S, k + 1) = Until(S, k)
    BY <1>1, <1>3 DEF Until
  <2> QED BY <2>1 DEF SortsUntil
<1>4. CASE \E l \in S : l.minute = k
  <2>1. PICK l \in S : l.minute = k
    BY <1>4
  <2>2. Until(S, k + 1) = Until(S, k) \cup {l} /\ l \notin Until(S, k)
    BY <1>1, <2>1 DEF Until
  <2>3. /\ IsFiniteSet(Until(S, k + 1))
        /\ Cardinality(Until(S, k + 1)) = Cardinality(Until(S, k)) + 1
    BY <2>2, FS_AddElement DEF SortsUntil
  <2> DEFINE t == Append(s, l)
  <2>4. /\ t \in Seq(Schedule!Starts) /\ Len(t) = Len(s) + 1
        /\ \A i \in 1..Len(s) : t[i] = s[i]
        /\ t[Len(s) + 1] = l
    BY AppendProperties
  <2>5. /\ DOMAIN s = 1..Len(s) /\ DOMAIN t = 1..(Len(s) + 1) /\ Len(s) \in Nat
    BY <2>4, LenProperties
  <2> HIDE DEF t
  <2>6. Range(t) = Range(s) \cup {l}
    <3>1. \A x \in Range(t) : x \in Range(s) \cup {l}
      BY <2>4, <2>5 DEF Range
    <3>2. \A x \in Range(s) : x \in Range(t)
      BY <2>4, <2>5 DEF Range
    <3>3. l \in Range(t)
      <4>1. Len(s) + 1 \in DOMAIN t
        BY <2>5
      <4> QED BY <2>4, <4>1 DEF Range
    <3> QED BY <3>1, <3>2, <3>3
  <2>7. Sorted(t)
    <3> SUFFICES ASSUME NEW i \in DOMAIN t, NEW j \in DOMAIN t, i < j
                 PROVE  t[i].minute < t[j].minute
      BY DEF Sorted
    <3>1. i \in 1..Len(s) /\ t[i] = s[i] /\ s[i] \in Until(S, k)
      <4>1. i \in 1..Len(s)
        BY <2>5
      <4> QED BY <1>2, <2>4, <2>5, <4>1 DEF Range
    <3>2. CASE j \in 1..Len(s)
      BY <1>2, <2>4, <2>5, <3>1, <3>2 DEF Sorted
    <3>3. CASE j = Len(s) + 1
      BY <2>1, <2>4, <3>1, <3>3 DEF Until
    <3> QED BY <2>5, <3>2, <3>3
  <2> QED BY <1>2, <2>2, <2>3, <2>4, <2>6, <2>7 DEF SortsUntil
<1> QED BY <1>3, <1>4

LEMMA Sorts ==
    ASSUME NEW S \in SUBSET Schedule!Starts, \A l, m \in S : l.minute = m.minute => l = m
    PROVE  /\ IsFiniteSet(S)
           /\ \E s \in [1..Cardinality(S) -> S] :
                  s \in Seq(Schedule!Starts) /\ Range(s) = S /\ Sorted(s)
<1> DEFINE K == {k \in Nat : SortsUntil(S, k)}
<1>1. 0 \in K
  <2>1. Until(S, 0) = {}
    BY DEF Until, Schedule!Starts
  <2>2. <<>> \in Seq(Schedule!Starts) /\ Len(<<>>) = 0 /\ Range(<<>>) = {} /\ Sorted(<<>>)
    BY DEF Range, Sorted
  <2> QED BY <2>1, <2>2, FS_EmptySet DEF SortsUntil
<1>2. \A k \in Nat : k \in K => k + 1 \in K
  BY SortsNext
<1> HIDE DEF K
<1>3. 60 \in K
  BY <1>1, <1>2, Induct
<1>4. Until(S, 60) = S
  BY DEF Until, Schedule!Starts
<1>5. PICK s \in Seq(Schedule!Starts) : Len(s) = Cardinality(S) /\ Range(s) = S /\ Sorted(s)
  BY <1>3, <1>4 DEF K, SortsUntil
<1>6. s \in [1..Cardinality(S) -> S]
  BY <1>5, LenProperties DEF Range
<1>7. IsFiniteSet(S)
  BY <1>3, <1>4 DEF K, SortsUntil
<1> QED BY <1>5, <1>6, <1>7

-----------------------------------------------------------------------------
(* The text of the crontab and its block. *)

UserLines == {Separator, Blank, Entry} \cup Schedule!Starts
Lines == {BeginLine, EndLine} \cup UserLines

LEMMA LinesDiffer ==
    ASSUME Schedule!ScheduleAssumption
    PROVE  /\ BeginLine \notin UserLines /\ EndLine \notin UserLines /\ BeginLine # EndLine
           /\ Separator \notin Schedule!Starts /\ Separator # Blank
           /\ Schedule!Starts \subseteq UserLines /\ UserLines \subseteq Lines
BY DEF Schedule!ScheduleAssumption, UserLines, Lines

\* The text that an installation writes: lines, the block, and the end of the last line.
Around(p, q) == p \o <<BeginLine>> \o q \o <<EndLine, Blank>>

\* The lines of two texts in a row.
LEMMA JoinedAt ==
    ASSUME NEW S, NEW s \in Seq(S), NEW t \in Seq(S)
    PROVE  /\ s \o t \in Seq(S) /\ Len(s \o t) = Len(s) + Len(t)
           /\ Len(s) \in Nat /\ Len(t) \in Nat
           /\ \A i \in 1..Len(s) : (s \o t)[i] = s[i]
           /\ \A j \in 1..Len(t) : (s \o t)[Len(s) + j] = t[j]
<1> DEFINE u == s \o t
           n == Len(s)
           m == Len(t)
<1>1. n \in Nat /\ m \in Nat
  BY LenProperties
<1>2. /\ u \in Seq(S) /\ Len(u) = n + m
      /\ \A i \in 1..(n + m) : u[i] = IF i <= n THEN s[i] ELSE t[i - n]
  BY ConcatProperties
<1> HIDE DEF u, n, m
<1>3. ASSUME NEW i \in 1..n PROVE u[i] = s[i]
  <2>1. i \in 1..(n + m) /\ i <= n
    BY <1>1
  <2> QED BY <1>2, <2>1
<1>4. ASSUME NEW j \in 1..m PROVE u[n + j] = t[j]
  <2>1. n + j \in 1..(n + m) /\ ~(n + j <= n) /\ (n + j) - n = j
    BY <1>1
  <2> QED BY <1>2, <2>1
<1> QED BY <1>1, <1>2, <1>3, <1>4 DEF u, n, m

\* The lines of a text between two places, when it is known what they are.
LEMMA Slice ==
    ASSUME NEW S, NEW t, NEW k \in Nat, NEW q \in Seq(S), \A i \in 1..Len(q) : t[k + i] = q[i]
    PROVE  SubSeq(t, k + 1, k + Len(q)) = q
<1> DEFINE m == Len(q)
           s == SubSeq(t, k + 1, k + m)
<1>1. m \in Nat /\ \A i \in 1..m : q[i] \in S
  BY LenProperties, ElementOfSeq
<1>2. \A i \in 1..m : t[k + i] = q[i]
  OBVIOUS
<1> HIDE DEF m
<1>3. ASSUME NEW i \in (k + 1)..(k + m) PROVE t[i] \in S
  <2>1. i - k \in 1..m /\ k + (i - k) = i
    BY <1>1
  <2> QED BY <1>1, <1>2, <2>1
<1>4. k + 1 \in Int /\ k + m \in Int
  BY <1>1
<1>5. /\ s \in Seq(S) /\ Len(s) = IF k + 1 <= k + m THEN (k + m) - (k + 1) + 1 ELSE 0
      /\ \A i \in 1..((k + m) - (k + 1) + 1) : s[i] = t[(k + 1) + i - 1]
  BY <1>3, <1>4, SubSeqProperties
<1> HIDE DEF s
<1>6. (k + m) - (k + 1) + 1 = m /\ (IF k + 1 <= k + m THEN m ELSE 0) = m
  BY <1>1
<1>7. Len(s) = m
  BY <1>5, <1>6
<1>8. ASSUME NEW i \in 1..m PROVE s[i] = q[i]
  <2>1. (k + 1) + i - 1 = k + i
    BY <1>1
  <2> QED BY <1>2, <1>5, <1>6, <2>1
<1>9. s = q
  BY <1>5, <1>7, <1>8, SeqEqual DEF m
<1> QED BY <1>9 DEF s, m

\* It line by line.
LEMMA AroundIs ==
    ASSUME NEW p \in Seq(UserLines), NEW q \in Seq(UserLines), NEW t, t = Around(p, q)
    PROVE  /\ t \in Seq(Lines) /\ Len(t) = Len(p) + Len(q) + 3 /\ DOMAIN t = 1..Len(t)
           /\ Len(p) \in Nat /\ Len(q) \in Nat
           /\ \A i \in 1..Len(p) : t[i] = p[i]
           /\ t[Len(p) + 1] = BeginLine
           /\ \A i \in 1..Len(q) : t[Len(p) + 1 + i] = q[i]
           /\ t[Len(p) + Len(q) + 2] = EndLine /\ t[Len(p) + Len(q) + 3] = Blank
<1> DEFINE b == <<BeginLine>>
           e == <<EndLine, Blank>>
           u == p \o b
           v == u \o q
           n == Len(p)
           m == Len(q)
<1>1. /\ b \in Seq(Lines) /\ Len(b) = 1 /\ b[1] = BeginLine
      /\ e \in Seq(Lines) /\ Len(e) = 2 /\ e[1] = EndLine /\ e[2] = Blank
  BY DEF Lines, UserLines
<1>2. p \in Seq(Lines) /\ q \in Seq(Lines)
  BY SeqMonotonic DEF Lines
<1> HIDE DEF b, e
<1>3. /\ u \in Seq(Lines) /\ Len(u) = n + Len(b) /\ n \in Nat
      /\ \A i \in 1..n : u[i] = p[i]
      /\ \A j \in 1..Len(b) : u[n + j] = b[j]
  <2>1. p \in Seq(Lines) /\ b \in Seq(Lines)
    BY <1>1, <1>2
  <2> QED BY <2>1, JoinedAt
<1> HIDE DEF u
<1>4. /\ v \in Seq(Lines) /\ Len(v) = Len(u) + m /\ m \in Nat
      /\ \A i \in 1..Len(u) : v[i] = u[i]
      /\ \A j \in 1..m : v[Len(u) + j] = q[j]
  <2>1. u \in Seq(Lines) /\ q \in Seq(Lines)
    BY <1>2, <1>3
  <2> QED BY <2>1, JoinedAt
<1> HIDE DEF v
<1>5. t = v \o e
  BY DEF Around, u, v, b, e
<1>6. /\ t \in Seq(Lines) /\ Len(t) = Len(v) + Len(e)
      /\ \A i \in 1..Len(v) : t[i] = v[i]
      /\ \A j \in 1..Len(e) : t[Len(v) + j] = e[j]
  <2>1. v \in Seq(Lines) /\ e \in Seq(Lines)
    BY <1>1, <1>4
  <2> QED BY <1>5, <2>1, JoinedAt
<1>7. n \in Nat /\ m \in Nat
  BY <1>3, <1>4
<1> HIDE DEF n, m
<1>8. Len(u) = n + 1 /\ Len(v) = n + 1 + m /\ Len(t) = n + m + 3
  <2>1. Len(u) = n + 1
    BY <1>1, <1>3
  <2>2. Len(v) = n + 1 + m
    BY <1>4, <2>1
  <2>3. Len(t) = (n + 1 + m) + 2
    BY <1>1, <1>6, <2>2
  <2> QED BY <1>7, <2>1, <2>2, <2>3
<1>9. ASSUME NEW i \in 1..n PROVE t[i] = p[i]
  <2>1. i \in 1..(n + 1) /\ i \in 1..(n + 1 + m)
    BY <1>7
  <2>2. t[i] = v[i] /\ v[i] = u[i]
    BY <1>4, <1>6, <1>8, <2>1
  <2> QED BY <1>3, <2>2
<1>10. t[n + 1] = BeginLine
  <2>1. n + 1 \in 1..(n + 1) /\ n + 1 \in 1..(n + 1 + m) /\ 1 \in 1..1
    BY <1>7
  <2>2. t[n + 1] = v[n + 1] /\ v[n + 1] = u[n + 1]
    BY <1>4, <1>6, <1>8, <2>1
  <2>3. u[n + 1] = b[1]
    BY <1>1, <1>3, <2>1
  <2> QED BY <1>1, <2>2, <2>3
<1>11. ASSUME NEW i \in 1..m PROVE t[n + 1 + i] = q[i]
  <2>1. n + 1 + i \in 1..(n + 1 + m)
    BY <1>7
  <2>2. t[n + 1 + i] = v[n + 1 + i]
    BY <1>6, <1>8, <2>1
  <2> QED BY <1>4, <1>8, <2>2
<1>12. t[n + m + 2] = EndLine /\ t[n + m + 3] = Blank
  <2>1. 1 \in 1..2 /\ 2 \in 1..2 /\ (n + 1 + m) + 1 = n + m + 2 /\ (n + 1 + m) + 2 = n + m + 3
    BY <1>7
  <2>2. t[(n + 1 + m) + 1] = e[1] /\ t[(n + 1 + m) + 2] = e[2]
    BY <1>1, <1>6, <1>8, <2>1
  <2> QED BY <1>1, <2>1, <2>2
<1>13. DOMAIN t = 1..Len(t)
  BY <1>6, LenProperties
<1> QED BY <1>6, <1>7, <1>8, <1>9, <1>10, <1>11, <1>12, <1>13 DEF n, m

\* Its marked lines, and what they enclose.
LEMMA BlockIs ==
    ASSUME Schedule!ScheduleAssumption, NEW p \in Seq(UserLines), NEW q \in Seq(UserLines)
    PROVE  LET t == Around(p, q)
           IN  /\ Schedule!HasBlock(t) /\ Schedule!WellFormed(t)
               /\ Schedule!Block(t) = [inside |-> q, before |-> p, after |-> <<Blank>>]
<1> DEFINE t == Around(p, q)
           n == Len(p)
           m == Len(q)
<1>1. /\ t \in Seq(Lines) /\ Len(t) = n + m + 3 /\ DOMAIN t = 1..Len(t)
      /\ \A i \in 1..n : t[i] = p[i]
      /\ t[n + 1] = BeginLine
      /\ \A i \in 1..m : t[n + 1 + i] = q[i]
      /\ t[n + m + 2] = EndLine /\ t[n + m + 3] = Blank
  BY AroundIs
<1>2. /\ n \in Nat /\ m \in Nat
      /\ \A i \in 1..n : p[i] \in UserLines
      /\ \A i \in 1..m : q[i] \in UserLines
  BY AroundIs, ElementOfSeq
<1> HIDE DEF t, n, m
<1>3. ASSUME NEW i \in 1..(n + m + 3), i # n + 1, i # n + m + 2
      PROVE  t[i] \in UserLines
  <2>1. CASE i \in 1..n
    BY <1>1, <1>2, <2>1
  <2>2. CASE i - (n + 1) \in 1..m
    <3>1. i = n + 1 + (i - (n + 1))
      BY <1>2
    <3>2. t[n + 1 + (i - (n + 1))] = q[i - (n + 1)]
      BY <1>1, <2>2
    <3> QED BY <1>2, <2>2, <3>1, <3>2
  <2>3. CASE i = n + m + 3
    BY <1>1, <2>3 DEF UserLines
  <2>4. n \in Nat /\ m \in Nat
    BY <1>2
  <2>5. i \in 1..n \/ i - (n + 1) \in 1..m \/ i = n + m + 3
    BY <1>3, <2>4
  <2> QED BY <2>1, <2>2, <2>3, <2>5
<1>4. Schedule!At(t, BeginLine) = {n + 1} /\ Schedule!At(t, EndLine) = {n + m + 2}
  <2>1. DOMAIN t = 1..(n + m + 3)
    BY <1>1
  <2>2. n + 1 \in 1..(n + m + 3) /\ n + m + 2 \in 1..(n + m + 3) /\ n + 1 # n + m + 2
    BY <1>2
  <2>3. BeginLine \notin UserLines /\ EndLine \notin UserLines /\ BeginLine # EndLine
    BY LinesDiffer
  <2>4. \A i \in 1..(n + m + 3) : t[i] = BeginLine <=> i = n + 1
    BY <1>1, <1>3, <2>2, <2>3
  <2>5. \A i \in 1..(n + m + 3) : t[i] = EndLine <=> i = n + m + 2
    BY <1>1, <1>3, <2>2, <2>3
  <2> QED BY <2>1, <2>2, <2>4, <2>5 DEF Schedule!At
<1>5. Schedule!HasBlock(t) /\ Schedule!WellFormed(t)
  <2>1. n + 1 \in 1..(n + m + 3) /\ n + m + 2 \in 1..(n + m + 3) /\ n + 1 < n + m + 2
    BY <1>2
  <2>2. n + 1 \in DOMAIN t /\ n + m + 2 \in DOMAIN t
    BY <1>1, <2>1
  <2> QED BY <1>4, <2>1, <2>2 DEF Schedule!HasBlock, Schedule!WellFormed
<1>6. /\ (CHOOSE i \in Schedule!At(t, BeginLine) : TRUE) = n + 1
      /\ (CHOOSE i \in Schedule!At(t, EndLine) : TRUE) = n + m + 2
  BY <1>4
<1>7. SubSeq(t, n + 2, n + m + 1) = q
  <2>1. n + 1 \in Nat /\ (n + 1) + 1 = n + 2 /\ (n + 1) + m = n + m + 1
    BY <1>2
  <2>2. \A i \in 1..Len(q) : t[(n + 1) + i] = q[i]
    BY <1>1 DEF m
  <2>3. SubSeq(t, (n + 1) + 1, (n + 1) + Len(q)) = q
    BY <2>1, <2>2, Slice
  <2> QED BY <2>1, <2>3 DEF m
<1>8. SubSeq(t, 1, n) = p
  <2>1. 0 \in Nat /\ 0 + 1 = 1 /\ 0 + n = n /\ \A i \in 1..n : 0 + i = i
    BY <1>2
  <2>2. \A i \in 1..Len(p) : t[0 + i] = p[i]
    BY <1>1, <2>1 DEF n
  <2>3. SubSeq(t, 0 + 1, 0 + Len(p)) = p
    BY <2>1, <2>2, Slice
  <2> QED BY <2>1, <2>3 DEF n
<1>9. SubSeq(t, n + m + 3, n + m + 3) = <<Blank>>
  <2> DEFINE r == <<Blank>>
  <2>1. r \in Seq(UserLines) /\ Len(r) = 1 /\ r[1] = Blank
    BY DEF UserLines
  <2> HIDE DEF r
  <2>2. n + m + 2 \in Nat /\ (n + m + 2) + 1 = n + m + 3 /\ \A i \in 1..1 : i = 1
    BY <1>2
  <2>3. \A i \in 1..Len(r) : t[(n + m + 2) + i] = r[i]
    BY <1>1, <2>1, <2>2
  <2>4. SubSeq(t, (n + m + 2) + 1, (n + m + 2) + Len(r)) = r
    BY <2>1, <2>2, <2>3, Slice
  <2> QED BY <2>1, <2>2, <2>4 DEF r
<1>10. Schedule!Block(t) = [inside |-> q, before |-> p, after |-> <<Blank>>]
  <2>1. /\ (n + 1) + 1 = n + 2 /\ (n + m + 2) - 1 = n + m + 1 /\ (n + 1) - 1 = n
        /\ (n + m + 2) + 1 = n + m + 3
    BY <1>2
  <2>2. Len(t) = n + m + 3
    BY <1>1
  <2> QED BY <1>6, <1>7, <1>8, <1>9, <2>1, <2>2 DEF Schedule!Block
<1> QED BY <1>5, <1>10 DEF t


\* The last line, and the lines before it.
LEMMA LastIs ==
    ASSUME NEW S, NEW s \in Seq(S), s # <<>>
    PROVE  /\ Len(s) \in Nat \ {0} /\ Schedule!Last(s) = s[Len(s)]
           /\ Schedule!Front(s) \in Seq(S) /\ Len(Schedule!Front(s)) = Len(s) - 1
           /\ \A i \in 1..(Len(s) - 1) : Schedule!Front(s)[i] = s[i]
<1> DEFINE n == Len(s)
           f == SubSeq(s, 1, n - 1)
<1>1. n \in Nat \ {0} /\ \A i \in 1..n : s[i] \in S
  BY EmptySeq, LenProperties, ElementOfSeq
<1>2. Schedule!Last(s) = s[n] /\ Schedule!Front(s) = f
  BY DEF Schedule!Last, Schedule!Front
<1> HIDE DEF n
<1>3. /\ f \in Seq(S) /\ Len(f) = IF 1 <= n - 1 THEN (n - 1) - 1 + 1 ELSE 0
      /\ \A i \in 1..((n - 1) - 1 + 1) : f[i] = s[1 + i - 1]
  <2>1. 1 \in Int /\ n - 1 \in Int /\ \A i \in 1..(n - 1) : s[i] \in S
    BY <1>1
  <2> QED BY <2>1, SubSeqProperties
<1> HIDE DEF f
<1>4. Len(f) = n - 1
  BY <1>1, <1>3
<1>5. ASSUME NEW i \in 1..(n - 1) PROVE f[i] = s[i]
  <2>1. i \in 1..((n - 1) - 1 + 1) /\ 1 + i - 1 = i
    BY <1>1
  <2> QED BY <1>3, <2>1
<1> QED BY <1>1, <1>2, <1>3, <1>4, <1>5 DEF n

\* A text that ends with a newline is the lines before it and the newline.
LEMMA SplitIs ==
    ASSUME NEW s \in Seq(UserLines), s # <<>>, Schedule!Last(s) = Blank
    PROVE  Schedule!Front(s) \o <<Blank>> = s
<1> DEFINE f == Schedule!Front(s)
           r == <<Blank>>
           t == f \o r
<1>1. /\ Len(s) \in Nat \ {0} /\ s[Len(s)] = Blank
      /\ f \in Seq(UserLines) /\ Len(f) = Len(s) - 1
      /\ \A i \in 1..(Len(s) - 1) : f[i] = s[i]
  BY LastIs
<1>2. r \in Seq(UserLines) /\ Len(r) = 1 /\ r[1] = Blank
  BY DEF UserLines
<1> HIDE DEF f, r
<1>3. /\ t \in Seq(UserLines) /\ Len(t) = Len(f) + Len(r)
      /\ \A i \in 1..(Len(f) + Len(r)) : t[i] = IF i <= Len(f) THEN f[i] ELSE r[i - Len(f)]
  <2>1. f \in Seq(UserLines) /\ r \in Seq(UserLines)
    BY <1>1, <1>2
  <2> QED BY <2>1, ConcatProperties
<1> HIDE DEF t
<1>4. Len(t) = Len(s)
  BY <1>1, <1>2, <1>3
<1>5. ASSUME NEW i \in 1..Len(s) PROVE t[i] = s[i]
  <2>1. CASE i <= Len(s) - 1
    BY <1>1, <1>2, <1>3, <2>1
  <2>2. CASE i = Len(s)
    <3>1. i \in 1..(Len(f) + Len(r)) /\ ~(i <= Len(f)) /\ i - Len(f) = 1
      BY <1>1, <1>2, <2>2
    <3> QED BY <1>1, <1>2, <1>3, <2>2, <3>1
  <2> QED BY <1>1, <2>1, <2>2
<1>6. t = s
  BY <1>3, <1>4, <1>5, SeqEqual
<1> QED BY <1>6 DEF t, f, r

\* A text and a newline.
LEMMA JoinIs ==
    ASSUME NEW s \in Seq(UserLines)
    PROVE  LET t == s \o <<Blank>>
           IN  /\ t \in Seq(UserLines) /\ t # <<>> /\ Len(t) = Len(s) + 1
               /\ Schedule!Last(t) = Blank /\ Schedule!Front(t) = s
<1> DEFINE r == <<Blank>>
           t == s \o r
<1>1. r \in Seq(UserLines) /\ Len(r) = 1 /\ r[1] = Blank
  BY DEF UserLines
<1> HIDE DEF r
<1>2. /\ t \in Seq(UserLines) /\ Len(t) = Len(s) + Len(r)
      /\ \A i \in 1..(Len(s) + Len(r)) : t[i] = IF i <= Len(s) THEN s[i] ELSE r[i - Len(s)]
  BY <1>1, ConcatProperties
<1> HIDE DEF t
<1>3. Len(s) \in Nat /\ Len(t) = Len(s) + 1 /\ t # <<>>
  <2>1. Len(s) \in Nat
    BY LenProperties
  <2> QED BY <1>1, <1>2, <2>1, EmptySeq
<1>4. Schedule!Last(t) = Blank
  <2>1. Schedule!Last(t) = t[Len(s) + 1]
    BY <1>2, <1>3, LastIs
  <2>2. Len(s) + 1 \in 1..(Len(s) + Len(r)) /\ ~(Len(s) + 1 <= Len(s)) /\ (Len(s) + 1) - Len(s) = 1
    BY <1>1, <1>3
  <2>3. t[Len(s) + 1] = r[1]
    BY <1>2, <2>2
  <2> QED BY <1>1, <2>1, <2>3
<1>5. Schedule!Front(t) = s
  <2> DEFINE f == Schedule!Front(t)
  <2>1. /\ f \in Seq(UserLines) /\ Len(f) = Len(s)
        /\ \A i \in 1..Len(s) : f[i] = t[i]
    <3>1. t \in Seq(UserLines) /\ t # <<>> /\ Len(t) - 1 = Len(s)
      BY <1>2, <1>3
    <3>2. /\ f \in Seq(UserLines) /\ Len(f) = Len(t) - 1
          /\ \A i \in 1..(Len(t) - 1) : f[i] = t[i]
      BY <3>1, LastIs
    <3> QED BY <3>1, <3>2
  <2> HIDE DEF f
  <2>2. \A i \in 1..Len(s) : f[i] = s[i]
    BY <1>1, <1>2, <1>3, <2>1
  <2>3. f = s
    BY <2>1, <2>2, SeqEqual
  <2> QED BY <2>3 DEF f
<1> QED BY <1>2, <1>3, <1>4, <1>5 DEF t, r


-----------------------------------------------------------------------------
(* The lines that start the command. *)

Minutes(plan) ==
    {[minute |-> t[2], step |-> 0,
      hours |-> {u[1] : u \in {u \in plan.times : u[2] = t[2]}}] : t \in plan.times}

\* Lines that run the command when a plan says so.
RunWhenDue(lines, plan) == UNION {Schedule!Runs(line) : line \in lines} = Schedule!Due(plan)

LEMMA MinutesRun ==
    ASSUME NEW plan, plan.times \subseteq (0..23) \X (0..59), plan.times # {}
    PROVE  /\ Minutes(plan) \subseteq Schedule!Starts
           /\ \A l, m \in Minutes(plan) : l.minute = m.minute => l = m
           /\ RunWhenDue(Minutes(plan), plan)
<1> DEFINE T == plan.times
           hours(n) == {u[1] : u \in {u \in T : u[2] = n}}
           line(n) == [minute |-> n, step |-> 0, hours |-> hours(n)]
<1>1. \A t \in T : t[1] \in 0..23 /\ t[2] \in 0..59 /\ t = <<t[1], t[2]>>
  OBVIOUS
<1>2. Minutes(plan) = {line(t[2]) : t \in T}
  BY DEF Minutes
<1>3. \A n \in 0..59 : hours(n) \subseteq 0..23
  BY <1>1
<1>4. Minutes(plan) \subseteq Schedule!Starts
  <2>1. \A n \in 0..59 : line(n) \in Schedule!Starts
    BY <1>3 DEF Schedule!Starts
  <2> QED BY <1>1, <1>2, <2>1
<1>5. \A n : Schedule!Runs(line(n)) = {<<h, n>> : h \in hours(n)}
  BY DEF Schedule!Runs
<1>6. UNION {Schedule!Runs(l) : l \in Minutes(plan)} = T
  <2>1. ASSUME NEW t \in T PROVE t \in UNION {Schedule!Runs(l) : l \in Minutes(plan)}
    <3>1. t[1] \in hours(t[2]) /\ t = <<t[1], t[2]>>
      BY <1>1
    <3>2. t \in Schedule!Runs(line(t[2]))
      BY <1>5, <3>1
    <3>3. line(t[2]) \in Minutes(plan)
      BY <1>2
    <3> QED BY <3>2, <3>3
  <2>2. ASSUME NEW l \in Minutes(plan), NEW x \in Schedule!Runs(l) PROVE x \in T
    <3>1. PICK t \in T : l = line(t[2])
      BY <1>2
    <3>2. PICK h \in hours(t[2]) : x = <<h, t[2]>>
      BY <1>5, <3>1
    <3>3. PICK u \in T : u[2] = t[2] /\ h = u[1]
      BY <3>2
    <3> QED BY <1>1, <3>2, <3>3
  <2> QED BY <2>1, <2>2
<1>7. Schedule!Due(plan) = T
  BY DEF Schedule!Due
<1>8. \A l, m \in Minutes(plan) : l.minute = m.minute => l = m
  BY <1>2
<1> QED BY <1>4, <1>6, <1>7, <1>8 DEF RunWhenDue

\* All lines are written, in the order of their minutes.
LEMMA CronIsTimes ==
    ASSUME NEW plan, plan.times \subseteq (0..23) \X (0..59), plan.times # {}
    PROVE  LET s == Schedule!CronLines(plan)
           IN  /\ s \in Seq(Schedule!Starts) /\ RunWhenDue(Range(s), plan)
               /\ \A line \in Range(s) : line.step = 0
<1> DEFINE S == Minutes(plan)
           n == Schedule!Cardinality(S)
           chosen(s) == /\ Schedule!ToSet(s) = S
                        /\ \A i, j \in DOMAIN s : i < j => s[i].minute < s[j].minute
           c == CHOOSE s \in [1..n -> S] : chosen(s)
<1>1. Schedule!CronLines(plan) = c
  BY DEF Schedule!CronLines, Minutes
<1>2. S \subseteq Schedule!Starts /\ (\A l, m \in S : l.minute = m.minute => l = m) /\ RunWhenDue(S, plan)
  BY MinutesRun
<1>10. \A line \in S : line.step = 0
  BY DEF Minutes
<1> HIDE DEF S
<1>3. n = Cardinality(S)
  BY DEF Schedule!Cardinality, Cardinality
<1>4. PICK s \in [1..Cardinality(S) -> S] : s \in Seq(Schedule!Starts) /\ Range(s) = S /\ Sorted(s)
  BY <1>2, Sorts
<1>5. chosen(s)
  BY <1>4 DEF Schedule!ToSet, Range, Sorted
<1>6. c \in [1..n -> S] /\ chosen(c)
  BY <1>3, <1>4, <1>5
<1>7. c \in [1..Cardinality(S) -> S] /\ Range(c) = S
  BY <1>3, <1>6 DEF Schedule!ToSet, Range
<1> HIDE DEF c
<1>8. Cardinality(S) \in Nat
  BY <1>2, Sorts, FS_CardinalityType
<1>9. c \in Seq(Schedule!Starts)
  BY <1>2, <1>7, <1>8
<1> QED BY <1>1, <1>2, <1>7, <1>9, <1>10

\* What an installation writes between the marks runs the command when the plan says so.
LEMMA CronIs ==
    ASSUME Schedule!ScheduleAssumption, NEW plan \in Plans, Schedule!Valid(plan)
    PROVE  LET s == Schedule!CronLines(plan)
           IN  /\ s \in Seq(Schedule!Starts) /\ RunWhenDue(Range(s), plan)
               /\ \A line \in Range(s) : line.step # 0 =>
                      line.step = plan.every /\ (system = "linux" => 24 % plan.every = 0)
<1> DEFINE s == Schedule!CronLines(plan)
<1>1. plan.times \subseteq (0..23) \X (0..59) /\ plan.every \in Nat
  BY DEF Schedule!ScheduleAssumption
<1>2. CASE plan.times # {}
  BY <1>1, <1>2, CronIsTimes
<1>3. CASE plan.times = {}
  <2> DEFINE k == IF plan.every = 24 THEN 0 ELSE plan.every
             l == [minute |-> 0, step |-> k, hours |-> {0}]
  <2>1. s = <<l>> /\ plan.every \in 2..24 /\ k \in 0..23
    BY <1>3 DEF Schedule!CronLines, Schedule!Valid
  <2>2. l \in Schedule!Starts
    BY <2>1 DEF Schedule!Starts
  <2>3. Schedule!Runs(l) = {<<h, 0>> : h \in IF k = 0 THEN {0} ELSE {h \in 0..23 : h % k = 0}}
    BY DEF Schedule!Runs
  <2>4. Schedule!Due(plan) = {<<h, 0>> : h \in {h \in 0..23 : h % plan.every = 0}}
    BY <1>3 DEF Schedule!Due
  <2>5. (IF k = 0 THEN {0} ELSE {h \in 0..23 : h % k = 0}) = {h \in 0..23 : h % plan.every = 0}
    <3>1. CASE plan.every = 24
      <4>1. \A h \in 0..23 : h % 24 = h
        OBVIOUS
      <4> QED BY <3>1, <4>1
    <3>2. CASE plan.every # 24
      BY <2>1, <3>2
    <3> QED BY <3>1, <3>2
  <2>8. l.step # 0 => l.step = plan.every /\ (system = "linux" => 24 % plan.every = 0)
    BY <1>3, <2>1 DEF Schedule!Valid
  <2> HIDE DEF l
  <2>6. s \in Seq(Schedule!Starts) /\ Range(s) = {l}
    BY <2>1, <2>2 DEF Range
  <2>7. Schedule!Runs(l) = Schedule!Due(plan)
    BY <2>3, <2>4, <2>5
  <2> QED BY <2>6, <2>7, <2>8 DEF RunWhenDue
<1> QED BY <1>2, <1>3


-----------------------------------------------------------------------------
(* A crontab without its block, and with a new one. *)

\* Part of a text in which no line is marked.
LEMMA PartIs ==
    ASSUME NEW s \in Seq(Lines), NEW i \in Int, NEW j \in Int,
           \A k \in i..j : s[k] \in UserLines
    PROVE  SubSeq(s, i, j) \in Seq(UserLines)
BY SubSeqProperties

LEMMA UnmarkedIs ==
    ASSUME NEW s \in Seq(Lines), Schedule!At(s, BeginLine) = {}, Schedule!At(s, EndLine) = {}
    PROVE  s \in Seq(UserLines)
<1>1. Len(s) \in Nat /\ DOMAIN s = 1..Len(s) /\ \A k \in 1..Len(s) : s[k] \in Lines
  BY LenProperties, ElementOfSeq
<1>2. \A k \in 1..Len(s) : s[k] \in UserLines
  BY <1>1 DEF Schedule!At, Lines
<1>3. SubSeq(s, 1, Len(s)) \in Seq(UserLines)
  BY <1>1, <1>2, PartIs
<1> QED BY <1>3, SubSeqFull

LEMMA AreLines ==
    ASSUME Schedule!ScheduleAssumption
    PROVE  /\ \A s \in Seq(UserLines) : s \in Seq(Lines)
           /\ \A s \in Seq(Schedule!Starts) : s \in Seq(Lines)
<1>1. UserLines \subseteq Lines /\ Schedule!Starts \subseteq Lines
  BY LinesDiffer
<1>2. ASSUME NEW s \in Seq(UserLines) PROVE s \in Seq(Lines)
  BY <1>1, SeqMonotonic
<1>3. ASSUME NEW s \in Seq(Schedule!Starts) PROVE s \in Seq(Lines)
  BY <1>1, SeqMonotonic
<1> QED BY <1>2, <1>3

LEMMA WithoutIs ==
    ASSUME NEW text \in Seq(Lines), text # <<>>, Schedule!WellFormed(text)
    PROVE  Schedule!Without(text) \in Seq(UserLines) /\ Schedule!Without(text) # <<>>
<1>1. CASE ~Schedule!HasBlock(text)
  <2>1. Schedule!At(text, BeginLine) = {} /\ Schedule!At(text, EndLine) = {}
    BY <1>1 DEF Schedule!HasBlock, Schedule!WellFormed
  <2> QED BY <1>1, <2>1, UnmarkedIs DEF Schedule!Without
<1>2. CASE Schedule!HasBlock(text)
  <2>1. PICK b \in DOMAIN text, e \in DOMAIN text :
          b < e /\ Schedule!At(text, BeginLine) = {b} /\ Schedule!At(text, EndLine) = {e}
    BY <1>2 DEF Schedule!HasBlock, Schedule!WellFormed
  <2>2. Len(text) \in Nat /\ DOMAIN text = 1..Len(text) /\ \A k \in 1..Len(text) : text[k] \in Lines
    BY LenProperties, ElementOfSeq
  <2>3. \A k \in 1..Len(text) : k # b /\ k # e => text[k] \in UserLines
    BY <2>1, <2>2 DEF Schedule!At, Lines
  <2> DEFINE p == SubSeq(text, 1, b - 1)
             r == SubSeq(text, e + 1, Len(text))
             block == Schedule!Block(text)
             rest == Schedule!Text(block.before \o block.after)
  <2>4. p \in Seq(UserLines)
    <3>1. 1 \in Int /\ b - 1 \in Int /\ \A k \in 1..(b - 1) : text[k] \in UserLines
      BY <2>1, <2>2, <2>3
    <3> QED BY <3>1, PartIs
  <2>5. r \in Seq(UserLines)
    <3>1. e + 1 \in Int /\ Len(text) \in Int /\ \A k \in (e + 1)..Len(text) : text[k] \in UserLines
      BY <2>1, <2>2, <2>3
    <3> QED BY <3>1, PartIs
  <2>6. block.before = p /\ block.after = r
    <3>1. /\ (CHOOSE i \in Schedule!At(text, BeginLine) : TRUE) = b
          /\ (CHOOSE i \in Schedule!At(text, EndLine) : TRUE) = e
      BY <2>1
    <3> QED BY <3>1 DEF Schedule!Block
  <2>7. p \o r \in Seq(UserLines)
    <3> HIDE DEF p, r
    <3> QED BY <2>4, <2>5, ConcatProperties
  <2>8. <<Blank>> \in Seq(UserLines) /\ <<Blank>> # <<>>
    BY DEF UserLines
  <2>9. rest \in Seq(UserLines) /\ rest # <<>>
    BY <2>6, <2>7, <2>8 DEF Schedule!Text
  <2>10. \/ Schedule!Without(text) = rest
         \/ Schedule!Ended(rest) /\ Schedule!Without(text) = Schedule!Front(rest)
    BY <1>2 DEF Schedule!Without
  <2> HIDE DEF rest
  <2>11. CASE Schedule!Ended(rest) /\ Schedule!Without(text) = Schedule!Front(rest)
    <3>1. Len(rest) > 1
      BY <2>11 DEF Schedule!Ended
    <3>2. /\ Schedule!Front(rest) \in Seq(UserLines) /\ Len(Schedule!Front(rest)) = Len(rest) - 1
          /\ Len(rest) \in Nat
      BY <2>9, LastIs
    <3>3. Schedule!Front(rest) # <<>>
      BY <3>1, <3>2, EmptySeq
    <3> QED BY <2>11, <3>2, <3>3
  <2> QED BY <2>9, <2>10, <2>11
<1> QED BY <1>1, <1>2

\* What is written before the block, and in it.
Separate(clean) == clean # <<Blank>> /\ ~Schedule!Ended(clean)
KeptLines(clean) == IF Separate(clean) THEN clean ELSE Schedule!Front(clean)
Inside(clean, cron) == (IF Separate(clean) THEN <<Separator>> ELSE <<>>) \o cron

LEMMA InsideIs ==
    ASSUME Schedule!ScheduleAssumption, NEW clean, NEW cron \in Seq(Schedule!Starts)
    PROVE  LET q == Inside(clean, cron)
           IN  /\ q \in Seq(UserLines) /\ Range(q) \ {Separator} = Range(cron)
               /\ Separator \in Range(q) <=> Separate(clean)
<1> DEFINE a == IF Separate(clean) THEN <<Separator>> ELSE <<>>
           q == a \o cron
<1>1. cron \in Seq(UserLines) /\ DOMAIN cron = 1..Len(cron) /\ Len(cron) \in Nat
  BY LinesDiffer, SeqMonotonic, LenProperties
<1>2. Range(cron) \subseteq Schedule!Starts
  BY <1>1, ElementOfSeq DEF Range
<1>3. /\ a \in Seq(UserLines) /\ Len(a) = IF Separate(clean) THEN 1 ELSE 0
      /\ Separate(clean) => a[1] = Separator
  <2>1. CASE Separate(clean)
    <3>1. a = <<Separator>>
      BY <2>1
    <3> QED BY <2>1, <3>1 DEF UserLines
  <2>2. CASE ~Separate(clean)
    <3>1. a = <<>>
      BY <2>2
    <3> QED BY <2>2, <3>1
  <2> QED BY <2>1, <2>2
<1> HIDE DEF a
<1>4. /\ q \in Seq(UserLines) /\ Len(q) = Len(a) + Len(cron) /\ DOMAIN q = 1..Len(q)
      /\ \A i \in 1..(Len(a) + Len(cron)) : q[i] = IF i <= Len(a) THEN a[i] ELSE cron[i - Len(a)]
  <2>1. /\ q \in Seq(UserLines) /\ Len(q) = Len(a) + Len(cron)
        /\ \A i \in 1..(Len(a) + Len(cron)) : q[i] = IF i <= Len(a) THEN a[i] ELSE cron[i - Len(a)]
    BY <1>1, <1>3, ConcatProperties
  <2> HIDE DEF q
  <2> QED BY <2>1, LenProperties
<1> HIDE DEF q
<1>5. \A x \in Range(cron) : x \in Range(q)
  <2> SUFFICES ASSUME NEW j \in 1..Len(cron) PROVE cron[j] \in Range(q)
    BY <1>1 DEF Range
  <2>1. Len(a) \in Nat /\ Len(a) + j \in 1..(Len(a) + Len(cron)) /\ ~(Len(a) + j <= Len(a))
        /\ (Len(a) + j) - Len(a) = j
    BY <1>1, <1>3
  <2>2. q[Len(a) + j] = cron[j] /\ Len(a) + j \in DOMAIN q
    BY <1>4, <2>1
  <2> QED BY <2>2 DEF Range
<1>6. \A x \in Range(q) : x \in Range(cron) \/ (Separate(clean) /\ x = Separator)
  <2> SUFFICES ASSUME NEW i \in 1..(Len(a) + Len(cron))
               PROVE  q[i] \in Range(cron) \/ (Separate(clean) /\ q[i] = Separator)
    BY <1>4 DEF Range
  <2>1. CASE i <= Len(a)
    BY <1>1, <1>3, <1>4, <2>1
  <2>2. CASE ~(i <= Len(a))
    <3>1. i - Len(a) \in 1..Len(cron)
      BY <1>1, <1>3, <2>2
    <3> QED BY <1>1, <1>4, <2>2, <3>1 DEF Range
  <2> QED BY <2>1, <2>2
<1>7. Separate(clean) => Separator \in Range(q)
  <2> SUFFICES ASSUME Separate(clean) PROVE Separator \in Range(q)
    OBVIOUS
  <2>1. 1 \in DOMAIN q /\ q[1] = Separator
    BY <1>1, <1>3, <1>4
  <2> QED BY <2>1 DEF Range
<1>8. Separator \notin Range(cron)
  BY <1>2, LinesDiffer
<1>9. Inside(clean, cron) = q
  BY DEF Inside, q, a
<1> QED BY <1>4, <1>5, <1>6, <1>7, <1>8, <1>9

LEMMA KeptIs ==
    ASSUME NEW clean \in Seq(UserLines), clean # <<>>
    PROVE  KeptLines(clean) \in Seq(UserLines)
BY LastIs DEF KeptLines

\* An installation writes the clean text with the new block after it.
LEMMA InstalledIs ==
    ASSUME Schedule!ScheduleAssumption, NEW text \in Seq(Lines), text # <<>>, Schedule!WellFormed(text),
           NEW plan \in Plans, Schedule!Valid(plan)
    PROVE  LET clean == Schedule!Without(text)
           IN  Schedule!Installed(text, plan) = Around(KeptLines(clean), Inside(clean, Schedule!CronLines(plan)))
<1> DEFINE clean == Schedule!Without(text)
           cron == Schedule!CronLines(plan)
           a == IF Separate(clean) THEN <<Separator>> ELSE <<>>
           b == <<BeginLine>>
           e == <<EndLine, Blank>>
           u == KeptLines(clean) \o b
<1>1. KeptLines(clean) \in Seq(Lines) /\ cron \in Seq(Lines) /\ a \in Seq(Lines) /\ b \in Seq(Lines)
  <2>1. clean \in Seq(UserLines) /\ clean # <<>>
    BY WithoutIs
  <2>2. KeptLines(clean) \in Seq(UserLines) /\ cron \in Seq(Schedule!Starts)
    BY <2>1, KeptIs, CronIs
  <2>3. KeptLines(clean) \in Seq(Lines) /\ cron \in Seq(Lines)
    <3>1. /\ \A s \in Seq(UserLines) : s \in Seq(Lines)
          /\ \A s \in Seq(Schedule!Starts) : s \in Seq(Lines)
      BY AreLines
    <3> HIDE DEF clean, cron
    <3> QED BY <2>2, <3>1
  <2>4. a \in Seq(Lines) /\ b \in Seq(Lines)
    <3>1. <<Separator>> \in Seq(Lines) /\ <<>> \in Seq(Lines) /\ b \in Seq(Lines)
      BY DEF Lines, UserLines
    <3> QED BY <3>1
  <2> QED BY <2>3, <2>4
<1>2. Schedule!Installed(text, plan) = ((u \o a) \o cron) \o e
  BY DEF Schedule!Installed, Separate, KeptLines
<1>3. Around(KeptLines(clean), Inside(clean, cron)) = (u \o (a \o cron)) \o e
  BY DEF Around, Inside
<1> HIDE DEF a, b, e, cron, clean
<1>4. u \in Seq(Lines)
  BY <1>1, ConcatProperties
<1> HIDE DEF u
<1>5. (u \o a) \o cron = u \o (a \o cron)
  BY <1>1, <1>4, ConcatAssociative, SMTT(30)
<1> QED BY <1>2, <1>3, <1>5 DEF clean, cron

\* Without the new block the text is the clean one again.
LEMMA CleanAgain ==
    ASSUME Schedule!ScheduleAssumption, NEW clean \in Seq(UserLines), clean # <<>>,
           NEW cron \in Seq(Schedule!Starts)
    PROVE  Schedule!Without(Around(KeptLines(clean), Inside(clean, cron))) = clean
<1> DEFINE p == KeptLines(clean)
           q == Inside(clean, cron)
           t == Around(p, q)
           r == <<Blank>>
           rest == p \o r
<1>1. p \in Seq(UserLines) /\ q \in Seq(UserLines) /\ (Separator \in Range(q) <=> Separate(clean))
  BY KeptIs, InsideIs
<1> HIDE DEF p, q
<1>2. Schedule!HasBlock(t) /\ Schedule!Block(t) = [inside |-> q, before |-> p, after |-> r]
  BY <1>1, BlockIs
<1>3. /\ rest \in Seq(UserLines) /\ rest # <<>> /\ Len(rest) = Len(p) + 1
      /\ Schedule!Last(rest) = Blank /\ Schedule!Front(rest) = p
  BY <1>1, JoinIs
<1>4. Schedule!ToSet(q) = Range(q) /\ Schedule!ToSet(r) \subseteq {Blank}
  BY DEF Schedule!ToSet, Range
<1> HIDE DEF t
<1>5. Schedule!Without(t) = IF Separator \in Range(q) /\ Schedule!Ended(rest) THEN Schedule!Front(rest) ELSE rest
  <2>1. Schedule!Text(p \o r) = rest
    BY <1>3 DEF Schedule!Text
  <2> HIDE DEF rest, r
  <2>2. Schedule!Text(Schedule!Block(t).before \o Schedule!Block(t).after) = rest
    BY <1>2, <2>1
  <2>3. Schedule!Block(t).inside = q /\ Schedule!Block(t).after = r
    BY <1>2
  <2> QED BY <1>2, <1>4, <2>2, <2>3 DEF Schedule!Without
<1> HIDE DEF rest, r
<1>6. Len(clean) \in Nat \ {0}
  BY LastIs
<1>7. CASE Separate(clean)
  <2>1. p = clean
    BY <1>7 DEF p, KeptLines
  <2>2. Schedule!Ended(rest)
    BY <1>3, <1>6, <2>1 DEF Schedule!Ended
  <2> QED BY <1>1, <1>3, <1>5, <1>7, <2>1, <2>2 DEF t, p, q
<1>8. CASE ~Separate(clean)
  <2>1. Schedule!Last(clean) = Blank
    <3>1. CASE clean = <<Blank>>
      BY <1>6, <3>1 DEF Schedule!Last
    <3>2. CASE Schedule!Ended(clean)
      BY <3>2 DEF Schedule!Ended
    <3> QED BY <1>8, <3>1, <3>2 DEF Separate
  <2>2. p = Schedule!Front(clean)
    BY <1>8 DEF p, KeptLines
  <2>3. rest = clean
    BY <2>1, <2>2, SplitIs DEF rest, r
  <2> QED BY <1>1, <1>5, <1>8, <2>3 DEF t, p, q
<1> QED BY <1>7, <1>8


-----------------------------------------------------------------------------
(* What the actors know of the crontab. *)

\* A plan that was accepted, and a crontab as it was read: without its block it is the
\* original, if the user did not edit it since.
PlanFits(plan) == plan # Nothing => plan \in Plans /\ Schedule!Valid(plan)

IsText(text) ==
    /\ text \in Seq(Lines) /\ text # <<>>
    /\ original # Nothing => Schedule!WellFormed(text) /\ Schedule!Without(text) = original

ReadFits(x) == x.at = "read" => IsText(x.read) /\ Schedule!WellFormed(x.read)

OpFits(x) == x # Schedule!Idle => PlanFits(x.plan) /\ ReadFits(x)

OpsFit == \A a \in Schedule!Actors : OpFits(op[a])

TextKnows ==
    /\ system \in Systems /\ ops \in 0..MaxOps /\ edits \in 0..MaxEdits
    /\ IsText(tab) /\ OpsFit /\ Schedule!RunsAsPlanned

\* A text in which no line is marked is clean.
LEMMA NoBlock ==
    ASSUME Schedule!ScheduleAssumption, NEW s \in Seq(UserLines)
    PROVE  /\ s \in Seq(Lines) /\ Schedule!WellFormed(s) /\ Schedule!Without(s) = s
<1>1. \A i \in DOMAIN s : s[i] \in UserLines
  BY LenProperties, ElementOfSeq
<1>2. Schedule!At(s, BeginLine) = {} /\ Schedule!At(s, EndLine) = {}
  BY <1>1, LinesDiffer DEF Schedule!At
<1> QED BY <1>2, AreLines DEF Schedule!WellFormed, Schedule!Without, Schedule!HasBlock

LEMMA SystemStays ==
    ASSUME system' = system
    PROVE  \A plan : Schedule!Valid(plan)' = Schedule!Valid(plan)
BY DEF Schedule!Valid

LEMMA TextStays ==
    ASSUME NEW text, IsText(text), original' \in {original, Nothing}
    PROVE  IsText(text)'
BY DEF IsText

\* An actor goes on or is done; the others know what they knew.
LEMMA FitsAgain ==
    ASSUME NEW x, OpFits(x), system' = system, original' \in {original, Nothing}
    PROVE  OpFits(x)'
<1>1. PlanFits(x.plan) => PlanFits(x.plan)'
  BY SystemStays DEF PlanFits
<1>2. ReadFits(x) => ReadFits(x)'
  BY DEF ReadFits, IsText
<1> QED BY <1>1, <1>2 DEF OpFits, Schedule!Idle

LEMMA FitsMoves ==
    ASSUME OpsKnow, OpsFit, system' = system, original' \in {original, Nothing},
           NEW a \in Schedule!Actors, NEW x, op' = [op EXCEPT ![a] = x], OpFits(x)
    PROVE  OpsFit'
<1>1. \A d \in Schedule!Actors : op'[d] = x \/ op'[d] = op[d]
  BY DEF OpsKnow
<1>2. ASSUME NEW d \in Schedule!Actors PROVE OpFits(op[d])'
  <2>1. PICK y : y = op'[d]
    OBVIOUS
  <2>2. OpFits(y)
    BY <1>1, <2>1 DEF OpsFit
  <2>3. OpFits(y)'
    BY <2>2, FitsAgain
  <2> QED BY <2>1, <2>3 DEF OpFits, PlanFits, ReadFits, IsText, Schedule!Idle, Schedule!Valid
<1> QED BY <1>2 DEF OpsFit, Schedule!Actors


\* A crontab that an installation wrote runs the plan, and is the same without its block.
LEMMA InstallationRuns ==
    ASSUME Schedule!ScheduleAssumption, NEW text \in Seq(Lines), text # <<>>, Schedule!WellFormed(text),
           NEW plan \in Plans, Schedule!Valid(plan), system = "linux",
           NEW t, t = Schedule!Installed(text, plan)
    PROVE  /\ t \in Seq(Lines) /\ t # <<>> /\ Schedule!HasBlock(t) /\ Schedule!WellFormed(t)
           /\ Schedule!Without(t) = Schedule!Without(text)
           /\ LET lines == Schedule!ToSet(Schedule!Block(t).inside) \ {Separator}
              IN  /\ UNION {Schedule!Runs(line) : line \in lines} = Schedule!Due(plan)
                  /\ \A line \in lines : line.step # 0 =>
                         line.step \in Nat \ {0} /\ 24 % line.step = 0
<1> DEFINE clean == Schedule!Without(text)
           cron == Schedule!CronLines(plan)
           p == KeptLines(clean)
           q == Inside(clean, cron)
<1>1. clean \in Seq(UserLines) /\ clean # <<>>
  BY WithoutIs
<1>2. /\ cron \in Seq(Schedule!Starts) /\ RunWhenDue(Range(cron), plan)
      /\ \A line \in Range(cron) : line.step # 0 =>
             line.step = plan.every /\ 24 % plan.every = 0
  BY CronIs
<1>3. t = Around(p, q)
  BY InstalledIs
<1> HIDE DEF clean, cron
<1>4. p \in Seq(UserLines) /\ q \in Seq(UserLines) /\ Range(q) \ {Separator} = Range(cron)
  BY <1>1, <1>2, KeptIs, InsideIs
<1>5. Schedule!Without(t) = clean
  BY <1>1, <1>2, <1>3, CleanAgain
<1> HIDE DEF p, q
<1>6. t \in Seq(Lines) /\ t # <<>>
  <2>1. t \in Seq(Lines) /\ Len(t) = Len(p) + Len(q) + 3 /\ Len(p) \in Nat /\ Len(q) \in Nat
    BY <1>3, <1>4, AroundIs
  <2> QED BY <2>1, EmptySeq
<1>7. Schedule!HasBlock(t) /\ Schedule!WellFormed(t) /\ Schedule!Block(t).inside = q
  BY <1>3, <1>4, BlockIs
<1>8. Schedule!ToSet(Schedule!Block(t).inside) \ {Separator} = Range(cron)
  BY <1>4, <1>7 DEF Schedule!ToSet, Range
<1>9. \A line \in Range(cron) : line.step \in Nat
  <2>1. \A line \in Range(cron) : line \in Schedule!Starts
    BY <1>2, ElementOfSeq, LenProperties DEF Range
  <2>2. \A line \in Schedule!Starts : line.step \in 0..23
    BY DEF Schedule!Starts
  <2>3. \A k \in 0..23 : k \in Nat
    OBVIOUS
  <2> QED BY <2>1, <2>2, <2>3
<1> QED BY <1>2, <1>5, <1>6, <1>7, <1>8, <1>9 DEF RunWhenDue, clean

LEMMA TextAsk ==
    ASSUME OpsKnow, TextKnows,
           NEW a \in Schedule!Actors, NEW plan \in Plans \cup {Nothing}, NEW stored \in BOOLEAN,
           Schedule!Ask(a, plan, stored), Schedule!ScheduleAssumption
    PROVE  TextKnows'
<1> DEFINE x == [at |-> Schedule!First(a), id |-> ops, plan |-> plan, stored |-> stored,
                 read |-> Nothing, changed |-> FALSE]
<1>1. /\ op' = [op EXCEPT ![a] = x] /\ system' = system /\ tab' = tab /\ current' = current
      /\ original' = original /\ edits' = edits /\ ops' = ops + 1 /\ ops < MaxOps /\ task' = task
      /\ plan # Nothing => Schedule!Valid(plan)
  BY DEF Schedule!Ask
<1>2. OpFits(x)
  BY <1>1 DEF OpFits, PlanFits, ReadFits, Schedule!First
<1> HIDE DEF x
<1>3. OpsFit'
  BY <1>1, <1>2, FitsMoves DEF TextKnows
<1>4. ops' \in 0..MaxOps
  BY <1>1 DEF TextKnows, Schedule!ScheduleAssumption
<1>5. Schedule!RunsAsPlanned'
  BY <1>1 DEF TextKnows, Schedule!RunsAsPlanned, Schedule!Described
<1> QED BY <1>1, <1>3, <1>4, <1>5 DEF TextKnows, IsText

\* Nobody reads or writes the crontab; an actor is where it was, at another place, or done.
LEMMA TextAside ==
    ASSUME OpsKnow, TextKnows, NEW a \in Schedule!Actors, NEW x, op' = [op EXCEPT ![a] = x],
           OpFits(x), UNCHANGED <<system, tab, ops, edits, original>>,
           system = "windows" \/ UNCHANGED <<task, current>>
    PROVE  TextKnows'
<1>1. OpsFit'
  BY FitsMoves DEF TextKnows
<1>2. Schedule!RunsAsPlanned'
  BY DEF TextKnows, Schedule!RunsAsPlanned, Schedule!Described
<1> QED BY <1>1, <1>2 DEF TextKnows, IsText

LEMMA TextAudit ==
    ASSUME OpsKnow, TextKnows,
           NEW a \in Browsers, NEW recorded \in BOOLEAN, NEW cleared \in BOOLEAN,
           Schedule!Audit(a, recorded, cleared)
    PROVE  TextKnows'
<1> DEFINE x == IF cleared /\ Schedule!Recorded(a) = "ready" THEN [op[a] EXCEPT !.at = "ready"]
                ELSE Schedule!Idle
<1>1. /\ op' = [op EXCEPT ![a] = x] /\ a \in Schedule!Actors
      /\ UNCHANGED <<system, tab, ops, edits, original, task, current>>
      /\ op[a].at \in {"requested", "finished"}
  BY DEF Schedule!Audit, Schedule!past, Schedule!Actors
<1>2. OpFits(x)
  <2>1. CASE x = Schedule!Idle
    BY <2>1 DEF OpFits
  <2>2. CASE x = [op[a] EXCEPT !.at = "ready"]
    <3>1. op[a] # Schedule!Idle
      BY <1>1 DEF Schedule!Idle
    <3>2. op[a] = Moved(op[a], op[a].at, op[a].changed) /\ op[a].changed \in BOOLEAN
      BY <1>1, <3>1, OpIs
    <3>3. x = Moved(op[a], "ready", op[a].changed)
      BY <2>2, <3>2, MovesTo
    <3>4. x.plan = op[a].plan /\ x.at = "ready" /\ PlanFits(op[a].plan)
      BY <1>1, <3>1, <3>3 DEF Moved, TextKnows, OpsFit, OpFits
    <3> QED BY <3>4 DEF OpFits, ReadFits
  <2> QED BY <2>1, <2>2
<1> HIDE DEF x
<1> QED BY <1>1, <1>2, TextAside

LEMMA TextRead ==
    ASSUME OpsKnow, TextKnows, NEW a \in Schedule!Actors, Schedule!Read(a)
    PROVE  TextKnows'
<1>1. /\ op[a].at = "ready" /\ op[a] # Schedule!Idle
      /\ UNCHANGED <<system, tab, ops, edits, original, task, current>>
  BY DEF Schedule!Read, Schedule!past, Schedule!Idle
<1>2. op[a] = Moved(op[a], op[a].at, op[a].changed) /\ op[a].changed \in BOOLEAN
  BY <1>1, OpIs
<1>3. PlanFits(op[a].plan) /\ IsText(tab)
  BY <1>1 DEF TextKnows, OpsFit, OpFits
<1> DEFINE done == [op[a] EXCEPT !.at = "finished"]
           read == [op[a] EXCEPT !.at = "read", !.read = tab]
<1>4. PICK x : /\ op' = [op EXCEPT ![a] = x]
               /\ \/ x = Schedule!Idle \/ x = done
                  \/ x = read /\ Schedule!WellFormed(tab)
  BY DEF Schedule!Read
<1>5. OpFits(x)
  <2>1. CASE x = Schedule!Idle
    BY <2>1 DEF OpFits
  <2>2. CASE x = done
    <3>1. x = Moved(op[a], "finished", op[a].changed)
      BY <1>2, <2>2, MovesTo
    <3>2. x.plan = op[a].plan /\ x.at = "finished"
      BY <3>1 DEF Moved
    <3> QED BY <1>3, <3>2 DEF OpFits, ReadFits
  <2>3. CASE x = read /\ Schedule!WellFormed(tab)
    <3>1. x.plan = op[a].plan /\ x.read = tab
      BY <1>2, <2>3 DEF Moved
    <3> QED BY <1>3, <2>3, <3>1 DEF OpFits, ReadFits
  <2> QED BY <1>4, <2>1, <2>2, <2>3
<1> QED BY <1>1, <1>4, <1>5, TextAside


LEMMA TextRetry ==
    ASSUME OpsKnow, TextKnows, NEW row \in queue, NEW cleared \in BOOLEAN,
           Schedule!Retry(row, cleared)
    PROVE  TextKnows'
<1>1. UNCHANGED <<system, tab, ops, edits, original, task, current, op>>
  BY DEF Schedule!Retry, Schedule!past
<1> QED BY <1>1 DEF TextKnows, IsText, OpsFit, OpFits, PlanFits, ReadFits, Schedule!Valid,
                    Schedule!RunsAsPlanned, Schedule!Described, Schedule!Idle

LEMMA TextWrite ==
    ASSUME OpsKnow, TextKnows, NEW a \in Schedule!Actors, NEW ok \in BOOLEAN, Schedule!Write(a, ok),
           Schedule!ScheduleAssumption
    PROVE  TextKnows'
<1> DEFINE x == IF ok THEN Schedule!After(a) ELSE Schedule!Idle
           text == op[a].read
           plan == op[a].plan
<1>1. /\ op[a].at = "read" /\ op[a] # Schedule!Idle /\ op' = [op EXCEPT ![a] = x]
      /\ UNCHANGED <<system, ops, edits, original, task>>
  BY DEF Schedule!Write, Schedule!jobs, Schedule!Idle
<1>2. op[a] = Moved(op[a], op[a].at, op[a].changed) /\ op[a].changed \in BOOLEAN /\ system = "linux"
  BY <1>1, OpIs
<1>3. PlanFits(plan) /\ IsText(text) /\ Schedule!WellFormed(text)
  BY <1>1 DEF TextKnows, OpsFit, OpFits, ReadFits
<1>4. OpFits(x)
  <2>1. CASE x = Schedule!Idle
    BY <2>1 DEF OpFits
  <2>2. CASE x # Schedule!Idle
    <3>1. x = Done(op[a], TRUE)
      BY <2>2 DEF Schedule!After, Done
    <3>2. x = Moved(op[a], "finished", TRUE)
      BY <1>2, <3>1, DoneIs
    <3>3. x.plan = plan /\ x.at = "finished"
      BY <3>2 DEF Moved
    <3> QED BY <1>3, <3>3 DEF OpFits, ReadFits
  <2> QED BY <2>1, <2>2
<1> HIDE DEF x
<1>5. CASE ~ok
  <2>1. UNCHANGED <<tab, current>>
    BY <1>5 DEF Schedule!Write
  <2> QED BY <1>1, <1>4, <2>1, TextAside
<1>6. CASE ok
  <2>1. OpsFit'
    BY <1>1, <1>4, FitsMoves DEF TextKnows
  <2>2. /\ tab' = IF plan = Nothing THEN Schedule!Without(text) ELSE Schedule!Installed(text, plan)
        /\ current' = plan
    BY <1>6 DEF Schedule!Write
  <2> HIDE DEF text, plan
  <2>3. CASE plan = Nothing
    <3>1. tab' \in Seq(UserLines) /\ tab' # <<>>
      BY <1>3, <2>2, <2>3, WithoutIs DEF IsText
    <3>2. tab' \in Seq(Lines) /\ Schedule!WellFormed(tab') /\ Schedule!Without(tab') = tab'
      BY <3>1, NoBlock
    <3>3. IsText(tab)'
      BY <1>1, <1>3, <2>2, <2>3, <3>1, <3>2 DEF IsText
    <3>4. Schedule!RunsAsPlanned'
      BY <2>2, <2>3 DEF Schedule!RunsAsPlanned
    <3> QED BY <1>1, <2>1, <3>3, <3>4 DEF TextKnows
  <2>4. CASE plan # Nothing
    <3>1. plan \in Plans /\ Schedule!Valid(plan) /\ tab' = Schedule!Installed(text, plan)
      BY <1>3, <2>2, <2>4 DEF PlanFits
    <3> DEFINE lines == Schedule!ToSet(Schedule!Block(tab').inside) \ {Separator}
    <3>2. /\ tab' \in Seq(Lines) /\ tab' # <<>>
          /\ Schedule!HasBlock(tab') /\ Schedule!WellFormed(tab')
          /\ Schedule!Without(tab') = Schedule!Without(text)
          /\ UNION {Schedule!Runs(line) : line \in lines} = Schedule!Due(plan)
          /\ \A line \in lines : line.step # 0 =>
                 line.step \in Nat \ {0} /\ 24 % line.step = 0
      BY <1>2, <1>3, <3>1, InstallationRuns DEF IsText
    <3>3. IsText(tab)'
      BY <1>1, <1>3, <3>2 DEF IsText
    <3> DEFINE steps == {line.step : line \in {line \in lines : line.step # 0}}
    <3>4. Schedule!Described' =
            IF steps # {} THEN [times |-> {}, every |-> CHOOSE n \in steps : TRUE]
            ELSE [times |-> UNION {Schedule!Runs(line) : line \in lines}, every |-> 0]
      BY <1>1, <1>2 DEF Schedule!Described
    <3>5. \A n \in steps : n \in Nat \ {0} /\ 24 % n = 0
      BY <3>2
    <3> HIDE DEF steps
    <3>6. /\ Schedule!Described'.every \in 1..23 => 24 % Schedule!Described'.every = 0
          /\ Schedule!Described'.every = 0 => Schedule!Described'.times = Schedule!Due(plan)
      <4>1. CASE steps # {}
        <5>1. Schedule!Described'.every \in steps
          BY <3>4, <4>1
        <5> QED BY <3>5, <5>1
      <4>2. CASE steps = {}
        BY <3>2, <3>4, <4>2
      <4> QED BY <4>1, <4>2
    <3>7. Schedule!RunsAsPlanned'
      <4>1. (UNION {Schedule!Runs(line) : line \in Schedule!ToSet(Schedule!Block(tab).inside) \ {Separator}})'
              = Schedule!Due(plan)
        BY <3>2
      <4> HIDE DEF lines
      <4> QED BY <2>2, <3>2, <3>6, <4>1 DEF Schedule!RunsAsPlanned
    <3> QED BY <1>1, <2>1, <3>3, <3>7 DEF TextKnows
  <2> QED BY <2>3, <2>4
<1> QED BY <1>5, <1>6

LEMMA TextRegister ==
    ASSUME OpsKnow, TextKnows, NEW a \in Schedule!Actors, NEW ok \in BOOLEAN, Schedule!Register(a, ok)
    PROVE  TextKnows'
<1> DEFINE done == [op[a] EXCEPT !.at = "finished"]
<1>1. /\ op[a].at = "ready" /\ op[a] # Schedule!Idle /\ system = "windows"
      /\ UNCHANGED <<system, tab, ops, edits, original>>
  BY DEF Schedule!Register, Schedule!jobs, Schedule!Idle
<1>2. op[a] = Moved(op[a], op[a].at, op[a].changed) /\ op[a].changed \in BOOLEAN
  BY <1>1, OpIs
<1>3. PlanFits(op[a].plan)
  BY <1>1 DEF TextKnows, OpsFit, OpFits
<1>4. PICK x : /\ op' = [op EXCEPT ![a] = x]
               /\ x = Schedule!Idle \/ x = done \/ x = Done(op[a], TRUE)
  BY DEF Schedule!Register, Schedule!After, Done
<1>5. OpFits(x)
  <2>1. CASE x = Schedule!Idle
    BY <2>1 DEF OpFits
  <2>2. CASE x = done
    <3>1. x = Moved(op[a], "finished", op[a].changed)
      BY <1>2, <2>2, MovesTo
    <3>2. x.plan = op[a].plan /\ x.at = "finished"
      BY <3>1 DEF Moved
    <3> QED BY <1>3, <3>2 DEF OpFits, ReadFits
  <2>3. CASE x = Done(op[a], TRUE)
    <3>1. x = Moved(op[a], "finished", TRUE)
      BY <1>2, <2>3, DoneIs
    <3>2. x.plan = op[a].plan /\ x.at = "finished"
      BY <3>1 DEF Moved
    <3> QED BY <1>3, <3>2 DEF OpFits, ReadFits
  <2> QED BY <1>4, <2>1, <2>2, <2>3
<1> QED BY <1>1, <1>4, <1>5, TextAside

\* Several actors are done, the others stay.
LEMMA FitsEnd ==
    ASSUME OpsFit, system' = system, original' \in {original, Nothing},
           \A a \in Schedule!Actors : op'[a] \in {op[a], Schedule!Idle}
    PROVE  OpsFit'
<1>1. ASSUME NEW d \in Schedule!Actors PROVE OpFits(op[d])'
  <2>1. PICK y : y = op'[d]
    OBVIOUS
  <2>2. OpFits(y)
    BY <2>1 DEF OpsFit, OpFits
  <2>3. OpFits(y)'
    BY <2>2, FitsAgain
  <2> QED BY <2>1, <2>3 DEF OpFits, PlanFits, ReadFits, IsText, Schedule!Idle, Schedule!Valid
<1> QED BY <1>1 DEF OpsFit, Schedule!Actors

LEMMA TextEdit ==
    ASSUME OpsKnow, TextKnows, Schedule!Edit, Schedule!ScheduleAssumption
    PROVE  TextKnows'
<1>1. /\ UNCHANGED <<system, op, ops>> /\ edits' = edits + 1 /\ edits < MaxEdits
      /\ original' = Nothing /\ current' = Nothing
  BY DEF Schedule!Edit
<1>2. OpsFit'
  BY <1>1, FitsEnd DEF TextKnows
<1>3. tab \in Seq(Lines) /\ tab # <<>>
  BY DEF TextKnows, IsText
<1>4. Len(tab) \in Nat /\ DOMAIN tab = 1..Len(tab) /\ \A i \in 1..Len(tab) : tab[i] \in Lines
  BY <1>3, LenProperties, ElementOfSeq
<1> DEFINE kept == IF tab = <<Blank>> \/ Schedule!Ended(tab) THEN Schedule!Front(tab) ELSE tab
<1>5. kept \in Seq(Lines)
  BY <1>3, LastIs
<1>6. tab' \in Seq(Lines) /\ tab' # <<>>
  <2>1. ASSUME NEW e \in Seq(Lines), Len(e) > 0
        PROVE  kept \o e \in Seq(Lines) /\ kept \o e # <<>>
    <3> DEFINE t == kept \o e
    <3>1. t \in Seq(Lines) /\ Len(t) = Len(kept) + Len(e) /\ Len(kept) \in Nat
      <4> HIDE DEF kept
      <4> QED BY <1>5, ConcatProperties, LenProperties
    <3>2. t # <<>>
      BY <2>1, <3>1, EmptySeq
    <3> QED BY <3>1, <3>2
  <2>2. /\ <<Entry>> \in Seq(Lines) /\ Len(<<Entry>>) > 0
        /\ <<Entry, Blank>> \in Seq(Lines) /\ Len(<<Entry, Blank>>) > 0
    BY DEF Lines, UserLines
  <2>3. ASSUME NEW i \in 1..Len(tab)
        PROVE  /\ Schedule!Text(Schedule!RemoveAt(tab, i)) \in Seq(Lines)
               /\ Schedule!Text(Schedule!RemoveAt(tab, i)) # <<>>
    <3> DEFINE p == SubSeq(tab, 1, i - 1)
               r == SubSeq(tab, i + 1, Len(tab))
    <3>1. p \in Seq(Lines)
      <4>1. 1 \in Int /\ i - 1 \in Int /\ \A k \in 1..(i - 1) : tab[k] \in Lines
        BY <1>4
      <4> QED BY <4>1, SubSeqProperties
    <3>2. r \in Seq(Lines)
      <4>1. i + 1 \in Int /\ Len(tab) \in Int /\ \A k \in (i + 1)..Len(tab) : tab[k] \in Lines
        BY <1>4
      <4> QED BY <4>1, SubSeqProperties
    <3>3. Schedule!RemoveAt(tab, i) = p \o r
      BY DEF Schedule!RemoveAt
    <3> HIDE DEF p, r
    <3>4. Schedule!RemoveAt(tab, i) \in Seq(Lines)
      BY <3>1, <3>2, <3>3, ConcatProperties
    <3>5. <<Blank>> \in Seq(Lines) /\ <<Blank>> # <<>>
      BY DEF Lines, UserLines
    <3> QED BY <3>4, <3>5 DEF Schedule!Text
  <2>4. \/ tab' = kept \o <<Entry>> \/ tab' = kept \o <<Entry, Blank>>
        \/ \E i \in 1..Len(tab) : tab' = Schedule!Text(Schedule!RemoveAt(tab, i))
    BY <1>4 DEF Schedule!Edit
  <2> HIDE DEF kept
  <2> QED BY <2>1, <2>2, <2>3, <2>4
<1>7. IsText(tab)'
  BY <1>1, <1>6 DEF IsText
<1>8. edits' \in 0..MaxEdits /\ Schedule!RunsAsPlanned'
  BY <1>1 DEF TextKnows, Schedule!ScheduleAssumption, Schedule!RunsAsPlanned
<1> QED BY <1>1, <1>2, <1>7, <1>8 DEF TextKnows

LEMMA TextElse ==
    ASSUME OpsKnow, TextKnows, Schedule!Crash \/ UNCHANGED Schedule!vars
    PROVE  TextKnows'
<1>1. /\ UNCHANGED <<system, tab, ops, edits, original, task, current>>
      /\ \A a \in Schedule!Actors : op'[a] \in {op[a], Schedule!Idle}
  BY DEF OpsKnow, Schedule!Crash, Schedule!vars, Schedule!jobs, Schedule!past
<1>2. OpsFit'
  BY <1>1, FitsEnd DEF TextKnows
<1> QED BY <1>1, <1>2 DEF TextKnows, IsText, Schedule!RunsAsPlanned, Schedule!Described


LEMMA OriginalStays ==
    ASSUME Schedule!Next \/ UNCHANGED Schedule!vars
    PROVE  original' \in {original, Nothing}
BY DEF Schedule!Next, Schedule!vars, Schedule!past, Schedule!Ask, Schedule!Audit, Schedule!Retry,
       Schedule!Read, Schedule!Write, Schedule!Register, Schedule!Crash, Schedule!Edit

\* Whoever installs and removes the schedule, in whatever order they read and write the
\* crontab while its user edits it, whenever the dashboard dies or an audit row is not
\* recorded: the block runs the command at the times of the plan and no other, the task that
\* is shown is what was asked for, every change of the dashboard has its request in the audit
\* trail, and without the block the crontab is what it was before, for any pages, command
\* lines and plans.
THEOREM ScheduleCorrect ==
    Schedule!ScheduleAssumption =>
        (Schedule!Spec =>
            []Schedule!ScheduleInv /\ [][Schedule!OriginalIsRestored]_(Schedule!vars))
<1> SUFFICES ASSUME Schedule!ScheduleAssumption
             PROVE  Schedule!Spec =>
                        []Schedule!ScheduleInv /\ [][Schedule!OriginalIsRestored]_(Schedule!vars)
  OBVIOUS
<1> DEFINE Knows == ScheduleKnows /\ TextKnows
<1>1. Schedule!Init => Knows
  <2> SUFFICES ASSUME Schedule!Init PROVE Knows
    OBVIOUS
  <2>1. OpsKnow
    BY DEF Schedule!Init, OpsKnow, OpKnows
  <2>2. RowsKnow
    BY DEF Schedule!Init, RowsKnow
  <2>3. Schedule!ShowsTask
    BY DEF Schedule!Init, Schedule!ShowsTask
  <2>4. tab \in Seq(UserLines) /\ tab # <<>> /\ original = tab
    <3>1. /\ <<Blank>> \in Seq(UserLines) /\ <<Blank>> # <<>>
          /\ <<Entry>> \in Seq(UserLines) /\ <<Entry>> # <<>>
          /\ <<Entry, Blank>> \in Seq(UserLines) /\ <<Entry, Blank>> # <<>>
      BY DEF UserLines
    <3> QED BY <3>1 DEF Schedule!Init
  <2>5. IsText(tab)
    BY <2>4, NoBlock DEF IsText
  <2>6. OpsFit
    BY DEF Schedule!Init, OpsFit, OpFits
  <2>7. system \in Systems /\ ops \in 0..MaxOps /\ edits \in 0..MaxEdits /\ Schedule!RunsAsPlanned
    BY DEF Schedule!Init, Schedule!ScheduleAssumption, Schedule!RunsAsPlanned
  <2> QED BY <2>1, <2>2, <2>3, <2>5, <2>6, <2>7 DEF ScheduleKnows, TextKnows
<1>2. Knows /\ [Schedule!Next]_(Schedule!vars) => Knows'
  <2> SUFFICES ASSUME Knows, [Schedule!Next]_(Schedule!vars) PROVE Knows'
    OBVIOUS
  <2>1. ScheduleKnows'
    BY ScheduleAsk, ScheduleAudit, ScheduleRetry, ScheduleRead, ScheduleWrite, ScheduleRegister,
       ScheduleElse DEF Schedule!Next
  <2>2. TextKnows'
    <3>1. OpsKnow /\ TextKnows
      BY DEF ScheduleKnows
    <3> QED BY <3>1, TextAsk, TextAudit, TextRetry, TextRead, TextWrite, TextRegister, TextEdit,
               TextElse DEF Schedule!Next, Schedule!Actors
  <2> QED BY <2>1, <2>2
<1>3. Knows => Schedule!ScheduleInv
  <2> SUFFICES ASSUME Knows PROVE Schedule!ScheduleInv
    OBVIOUS
  <2>1. Schedule!AuditIsTrue
    <3>1. ASSUME NEW a \in Browsers, op[a] # Schedule!Idle, op[a].changed
          PROVE  Requested(op[a].id) \in trail
      <4>1. a \in Schedule!Actors
        BY DEF Schedule!Actors
      <4> QED BY <3>1, <4>1, OpIs DEF ScheduleKnows
    <3>2. ASSUME NEW row \in queue \cup trail, row.name # "requested"
          PROVE  Requested(row.of) \in trail
      BY <3>2 DEF ScheduleKnows, RowsKnow
    <3> QED BY <3>1, <3>2 DEF Schedule!AuditIsTrue, Requested
  <2>2. Schedule!TypeOK
    <3>1. tab \in Seq(Lines) /\ tab # <<>>
      BY DEF TextKnows, IsText
    <3>2. \A i \in DOMAIN tab : tab[i] \in Lines
      BY <3>1, LenProperties, ElementOfSeq
    <3>3. \A line \in Schedule!Starts : line.minute \in 0..59
      BY DEF Schedule!Starts
    <3> QED BY <3>1, <3>2, <3>3 DEF TextKnows, Schedule!TypeOK, Lines, UserLines
  <2> QED BY <2>1, <2>2 DEF ScheduleKnows, TextKnows, Schedule!ScheduleInv
<1>4. Knows' /\ [Schedule!Next]_(Schedule!vars) => [Schedule!OriginalIsRestored]_(Schedule!vars)
  BY OriginalStays DEF TextKnows, IsText, Schedule!OriginalIsRestored
<1> HIDE DEF Knows
<1> QED BY <1>1, <1>2, <1>3, <1>4, PTL DEF Schedule!Spec

-----------------------------------------------------------------------------
(* The sum of the components. *)

\* Every step is one of the component that runs.
LEMMA PartStays ==
    ASSUME [ComponentsNext]_<<part, componentVars>>
    PROVE  /\ part' = part
           /\ part = "config_save" => [ConfigSave!Next]_(ConfigSave!vars)
           /\ part = "schedule" => [Schedule!Next]_(Schedule!vars)
           /\ part = "pipeline" => [Pipeline!Next]_(Pipeline!vars)
           /\ part = "collect" => [Collect!Next]_(Collect!vars)
           /\ part = "process_run" => [ProcessRun!Next]_(ProcessRun!vars)
           /\ part = "discovery" => [Discovery!Next]_(Discovery!vars)
           /\ part = "web_detect" => [WebDetect!Next]_(WebDetect!vars)
<1>1. CASE UNCHANGED <<part, componentVars>>
  <2>1. UNCHANGED <<ConfigSave!vars, Schedule!vars, Pipeline!vars, Collect!vars,
                    ProcessRun!vars, Discovery!vars, WebDetect!vars>>
    BY <1>1 DEF componentVars, configVars, ConfigSave!vars, ConfigSave!disk,
         scheduleVars, Schedule!vars, Schedule!jobs, Schedule!past,
         pipelineVars, Pipeline!vars, Pipeline!history, collectVars, Collect!vars,
         processVars, ProcessRun!vars, discoveryVars, Discovery!vars,
         webVars, WebDetect!vars, WebDetect!fetcher, WebDetect!files
  <2> QED BY <1>1, <2>1
<1>2. CASE ComponentsNext
  BY <1>2 DEF ComponentsNext, ConfigSaveNext, ScheduleNext, PipelineNext, CollectNext,
       ProcessRunNext, DiscoveryNext, WebDetectNext
<1> QED BY <1>1, <1>2

\* What CollectCorrect says, of the sum.
THEOREM CollectSafeCorrect == ComponentsSpec => []CollectSafe
<1> DEFINE Runs == part = "collect"
<1>1. Collect!Spec => []Collect!CollectInv
  BY CollectCorrect, ComponentAssumptions
<1>2. ComponentsInit /\ Runs => Collect!Init
  BY DEF ComponentsInit
<1>3. [ComponentsNext]_<<part, componentVars>> =>
          (Runs' <=> Runs) /\ (Runs => [Collect!Next]_(Collect!vars))
  BY PartStays
<1>4. (Runs => Collect!CollectInv) <=> CollectSafe
  BY DEF CollectSafe
<1> HIDE DEF Runs
<1> QED BY <1>1, <1>2, <1>3, <1>4, PTL DEF ComponentsSpec, Collect!Spec

\* What ConfigCorrect says, of the sum.
THEOREM ConfigSaveSafeCorrect == ComponentsSpec => ConfigSaveSafe
<1> DEFINE Runs == part = "config_save"
<1>1. ConfigSave!Spec => []ConfigSave!ConfigInv /\ [][ConfigSave!SaveIsSafe]_(ConfigSave!vars)
  BY ConfigCorrect, ComponentAssumptions
<1>2. ComponentsInit /\ Runs => ConfigSave!Init
  BY DEF ComponentsInit
<1>3. [ComponentsNext]_<<part, componentVars>> =>
          (Runs' <=> Runs) /\ (Runs => [ConfigSave!Next]_(ConfigSave!vars))
  BY PartStays
<1>4. [ComponentsNext]_<<part, componentVars>>
          /\ (Runs => [ConfigSave!SaveIsSafe]_(ConfigSave!vars)) =>
              [Runs => ConfigSave!SaveIsSafe]_<<part, configVars>>
  BY PartStays DEF configVars, ConfigSave!vars, ConfigSave!disk
<1> HIDE DEF Runs
<1>5. ComponentsSpec => [](Runs => ConfigSave!ConfigInv)
                        /\ [][Runs => ConfigSave!SaveIsSafe]_<<part, configVars>>
  BY <1>1, <1>2, <1>3, <1>4, PTL DEF ComponentsSpec, ConfigSave!Spec
<1> QED BY <1>5 DEF Runs, ConfigSaveSafe

\* What ProcessRunCorrect says, of the sum.
THEOREM ProcessRunSafeCorrect == ComponentsSpec => []ProcessRunSafe
<1> DEFINE Runs == part = "process_run"
<1>1. ProcessRun!Spec => []ProcessRun!ProcessRunInv
  BY ProcessRunCorrect, ComponentAssumptions
<1>2. ComponentsInit /\ Runs => ProcessRun!Init
  BY DEF ComponentsInit
<1>3. [ComponentsNext]_<<part, componentVars>> =>
          (Runs' <=> Runs) /\ (Runs => [ProcessRun!Next]_(ProcessRun!vars))
  BY PartStays
<1>4. (Runs => ProcessRun!ProcessRunInv) <=> ProcessRunSafe
  BY DEF ProcessRunSafe
<1> HIDE DEF Runs
<1> QED BY <1>1, <1>2, <1>3, <1>4, PTL DEF ComponentsSpec, ProcessRun!Spec

\* What DiscoveryCorrect says, of the sum.
THEOREM DiscoverySafeCorrect == ComponentsSpec => []DiscoverySafe
<1> DEFINE Runs == part = "discovery"
<1>1. Discovery!Spec => []Discovery!DiscoveryInv
  BY DiscoveryCorrect, ComponentAssumptions
<1>2. ComponentsInit /\ Runs => Discovery!Init
  BY DEF ComponentsInit
<1>3. [ComponentsNext]_<<part, componentVars>> =>
          (Runs' <=> Runs) /\ (Runs => [Discovery!Next]_(Discovery!vars))
  BY PartStays
<1>4. (Runs => Discovery!DiscoveryInv) <=> DiscoverySafe
  BY DEF DiscoverySafe
<1> HIDE DEF Runs
<1> QED BY <1>1, <1>2, <1>3, <1>4, PTL DEF ComponentsSpec, Discovery!Spec

\* What WebCorrect says, of the sum.
THEOREM WebDetectSafeCorrect == ComponentsSpec => []WebDetectSafe
<1> DEFINE Runs == part = "web_detect"
<1>1. WebDetect!Spec => []WebDetect!WebInv
  BY WebCorrect, ComponentAssumptions
<1>2. ComponentsInit /\ Runs => WebDetect!Init
  BY DEF ComponentsInit
<1>3. [ComponentsNext]_<<part, componentVars>> =>
          (Runs' <=> Runs) /\ (Runs => [WebDetect!Next]_(WebDetect!vars))
  BY PartStays
<1>4. (Runs => WebDetect!WebInv) <=> WebDetectSafe
  BY DEF WebDetectSafe
<1> HIDE DEF Runs
<1> QED BY <1>1, <1>2, <1>3, <1>4, PTL DEF ComponentsSpec, WebDetect!Spec

\* What PipelineCorrect says, of the sum.
THEOREM PipelineSafeCorrect == ComponentsSpec => PipelineSafe
<1> DEFINE Runs == part = "pipeline"
<1>1. Pipeline!Spec => []Pipeline!PipelineInv /\ [][Pipeline!PipelineSteps]_(Pipeline!vars)
  BY PipelineCorrect, ComponentAssumptions
<1>2. ComponentsInit /\ Runs => Pipeline!Init
  BY DEF ComponentsInit
<1>3. [ComponentsNext]_<<part, componentVars>> =>
          (Runs' <=> Runs) /\ (Runs => [Pipeline!Next]_(Pipeline!vars))
  BY PartStays
<1>4. [ComponentsNext]_<<part, componentVars>>
          /\ (Runs => [Pipeline!PipelineSteps]_(Pipeline!vars)) =>
              [Runs => Pipeline!PipelineSteps]_<<part, pipelineVars>>
  BY PartStays DEF pipelineVars, Pipeline!vars, Pipeline!history
<1> HIDE DEF Runs
<1>5. ComponentsSpec => [](Runs => Pipeline!PipelineInv)
                        /\ [][Runs => Pipeline!PipelineSteps]_<<part, pipelineVars>>
  BY <1>1, <1>2, <1>3, <1>4, PTL DEF ComponentsSpec, Pipeline!Spec
<1> QED BY <1>5 DEF Runs, PipelineSafe

\* What ScheduleCorrect says, of the sum.
THEOREM ScheduleSafeCorrect == ComponentsSpec => ScheduleSafe
<1> DEFINE Runs == part = "schedule"
<1>1. Schedule!Spec => []Schedule!ScheduleInv /\ [][Schedule!OriginalIsRestored]_(Schedule!vars)
  BY ScheduleCorrect, ComponentAssumptions
<1>2. ComponentsInit /\ Runs => Schedule!Init
  BY DEF ComponentsInit
<1>3. [ComponentsNext]_<<part, componentVars>> =>
          (Runs' <=> Runs) /\ (Runs => [Schedule!Next]_(Schedule!vars))
  BY PartStays
<1>4. [ComponentsNext]_<<part, componentVars>>
          /\ (Runs => [Schedule!OriginalIsRestored]_(Schedule!vars)) =>
              [Runs => Schedule!OriginalIsRestored]_<<part, scheduleVars>>
  BY PartStays DEF scheduleVars, Schedule!vars, Schedule!jobs, Schedule!past
<1> HIDE DEF Runs
<1>5. ComponentsSpec => [](Runs => Schedule!ScheduleInv)
                        /\ [][Runs => Schedule!OriginalIsRestored]_<<part, scheduleVars>>
  BY <1>1, <1>2, <1>3, <1>4, PTL DEF ComponentsSpec, Schedule!Spec
<1> QED BY <1>5 DEF Runs, ScheduleSafe
=============================================================================
