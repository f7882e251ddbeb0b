------------------------ MODULE NotificationsProofs ------------------------
(***************************************************************************)
(* Proofs about Notifications.  What a provider was sent is never sent     *)
(* again unless the provider drops the repetition, parts go out in order,  *)
(* and no event of Core is skipped: for any number of events, parts,       *)
(* attempts, replaced credentials and restored or pruned databases.        *)
(***************************************************************************)
EXTENDS Notifications, TLAPS, FiniteSetTheorems

States == {"pending", "sending", "accepted", "retryable", "permanent", "ambiguous"}
Row == [state : States, attempts : 0..MaxAttempts, scope : 1..(MaxChanges + 1), of : 1..MaxParts]
Run == [mode : {"off", "read", "ready", "request"}, token : 0..(MaxChanges + 1),
        batch : SUBSET Events, sent : Nat, row : Keys \cup {NoKey}]

\* The text of part k was taken; any two texts of k that were taken are the same attempt.
Seen(k) == \E x \in took : x[1] = k
SeenOnce(k) == \A x, y \in took : x[1] = k /\ y[1] = k => x = y

Prepared(e) == [event |-> e, part |-> 1] \in DOMAIN rows

(* The inductive invariant. *)

\* The types, and what bounds them: Core gives no number above the events it recorded,
\* and a credential was replaced for every change at most.
Shapes ==
    /\ matrix \in BOOLEAN /\ core \subseteq Events
    /\ last \in Nat /\ recorded \in Nat /\ last <= recorded /\ recorded <= MaxEvents
    /\ changes \in 0..MaxChanges /\ token \in 1..(changes + 1)
    /\ rows \in [DOMAIN rows -> Row] /\ DOMAIN rows \subseteq Keys
    /\ cursor \in Events \cup {NoCursor}
    /\ run \in Run
    /\ IsFiniteSet(took) /\ took \subseteq Keys \X Nat

\* What the state of a part says about what was taken.
PartsAreTrue ==
    /\ \A x \in took : x[1] \in DOMAIN rows
    /\ \A k \in DOMAIN rows :
           /\ SeenOnce(k)
           /\ rows[k].state = "pending" => rows[k].attempts = 0 /\ ~Seen(k)
           /\ rows[k].state \in {"retryable", "sending"} => rows[k].attempts > 0
           /\ rows[k].state = "accepted" => Seen(k)
           /\ ~matrix /\ rows[k].state \in {"retryable", "permanent"} => ~Seen(k)

\* Matrix got every attempt of a part from the device of the part's scope.
OneDevice == matrix => \A x \in took : x[2] = rows[x[1]].scope

\* A run that prepares or sends knows every interrupted part and has the scope of what
\* it may send; the part it sends is new to a provider that repeats.
RunMatches ==
    /\ run.mode # "off" => run.token \in 1..(MaxChanges + 1)
    /\ run.mode \in {"off", "read"} => run.batch = {}
    /\ run.mode # "request" => run.row = NoKey
    /\ run.mode = "request" => /\ run.row \in DOMAIN rows /\ rows[run.row].state = "sending"
                               /\ ~matrix => ~Seen(run.row)
    /\ run.mode # "off" => \A k \in DOMAIN rows : rows[k].state = "sending" => k = run.row
    /\ matrix /\ run.mode \in {"ready", "request"} =>
           \A k \in DOMAIN rows :
               rows[k].state \in {"pending", "retryable", "sending"} => rows[k].scope = run.token

Earlier(o, k) == o.event = k.event /\ o.part < k.part

\* The parts of an event are prepared from the first on, and sent after the parts before.
InOrder ==
    /\ \A k \in DOMAIN rows, p \in 1..MaxParts :
           p < k.part => [event |-> k.event, part |-> p] \in DOMAIN rows
    /\ \A x \in took, o \in DOMAIN rows : Earlier(o, x[1]) => rows[o].state = "accepted"
    /\ run.mode = "request" =>
           \A o \in DOMAIN rows : Earlier(o, run.row) => rows[o].state = "accepted"

\* Core gives a number again only to an event of a later run.
Numbers ==
    /\ \A e \in core : e.id <= last
    /\ \A e, f \in core : e.id = f.id => e = f
    /\ \A e \in core \cup {cursor} \cup run.batch : e.run <= recorded

\* Nothing unprepared is left behind the cursor, nor behind an event of the batch.
NothingBehind ==
    /\ cursor \in core => \A e \in core : e.id <= cursor.id => Prepared(e)
    /\ \A e \in run.batch, f \in core :
           e \in core /\ f.id < e.id => Prepared(f) \/ f \in run.batch

PreparedInv ==
    /\ Shapes /\ PartsAreTrue /\ OneDevice /\ RunMatches
    /\ InOrder /\ Numbers /\ NothingBehind
-----------------------------------------------------------------------------
(* What the steps have in common. *)

KeptRow(k) ==
    /\ rows'[k].attempts = rows[k].attempts /\ rows'[k].scope = rows[k].scope
    /\ rows'[k].of = rows[k].of

\* The parts, the events and the rest of the environment stay.
Frame == DOMAIN rows' = DOMAIN rows /\ rows' \in [DOMAIN rows -> Row] /\ UNCHANGED environment

\* A function is determined by its values.
LEMMA OneRow ==
    ASSUME NEW k \in DOMAIN rows, rows \in [DOMAIN rows -> Row], NEW s \in States,
           rows' = [rows EXCEPT ![k].state = s]
    PROVE  /\ DOMAIN rows' = DOMAIN rows /\ rows' \in [DOMAIN rows -> Row]
           /\ rows'[k].state = s /\ KeptRow(k)
           /\ \A o \in DOMAIN rows : o # k => rows'[o] = rows[o]
BY DEF Row, KeptRow

LEMMA ShapesFrame ==
    ASSUME PreparedInv, Frame, cursor' = cursor, run' \in Run, IsFiniteSet(took'), took' \subseteq Keys \X Nat
    PROVE  Shapes'
BY DEF PreparedInv, Shapes, Frame, environment

\* Numbers and what is behind the cursor, when the batch stays or is given up.
LEMMA EventsFrame ==
    ASSUME PreparedInv, Frame, cursor' = cursor, run'.batch = run.batch \/ run'.batch = {}
    PROVE  Numbers' /\ NothingBehind'
BY DEF PreparedInv, Frame, environment, Numbers, NothingBehind, Prepared

\* Parts that were accepted stay so, and nothing else is taken.
LEMMA OrderFrame ==
    ASSUME PreparedInv, Frame, took' = took,
           \A k \in DOMAIN rows : rows[k].state = "accepted" => rows'[k].state = "accepted",
           run'.mode = "request" => run' = run
    PROVE  InOrder'
BY DEF PreparedInv, Frame, InOrder, Earlier

\* The types of what a run knows.
LEMMA IdleIsRun ==
    /\ Idle \in Run /\ Idle.mode = "off" /\ Idle.batch = {} /\ Idle.row = NoKey
    /\ Idle.token = 0 /\ Idle.sent = 0
BY NotificationsAssumption DEF Idle, Run
-----------------------------------------------------------------------------
(* Around the ledger. *)

\* The ledger and the run stay, the events and the credential move.
LEMMA AroundFrame ==
    ASSUME PreparedInv, UNCHANGED <<matrix, took, rows, cursor, run>>
    PROVE  PartsAreTrue' /\ OneDevice' /\ RunMatches' /\ InOrder'
BY DEF PreparedInv, PartsAreTrue, Seen, SeenOnce, OneDevice, RunMatches, InOrder, Earlier

LEMMA RecordKeeps ==
    ASSUME PreparedInv, NEW n \in 1..2, Record(n)
    PROVE  PreparedInv'
<1> DEFINE new == {[id |-> last + i, run |-> recorded + 1] : i \in 1..n}
<1>0. /\ Shapes /\ Numbers /\ NothingBehind
      /\ UNCHANGED <<matrix, changes, token, took, rows, cursor, run>>
      /\ core' = core \cup new /\ last' = last + n /\ recorded' = recorded + n
      /\ recorded + n <= MaxEvents
      /\ last \in Nat /\ recorded \in Nat /\ last <= recorded
  BY DEF PreparedInv, Shapes, Record
<1>1. \A e \in new : /\ e \in Events /\ e.id > last /\ e.id <= last + n /\ e.run = recorded + 1
  BY <1>0, NotificationsAssumption DEF Events
<1>2. \A e, f \in new : e.id = f.id => e = f
  BY <1>0
<1>3. \A e \in new : e \notin core /\ e # cursor /\ e \notin run.batch
  BY <1>0, <1>1 DEF Numbers
<1> HIDE DEF new
<1>4. Shapes'
  <2>1. core' \subseteq Events /\ last' \in Nat /\ recorded' \in Nat /\ last' <= recorded' /\ recorded' <= MaxEvents
    BY <1>0, <1>1 DEF Shapes
  <2> QED BY <1>0, <2>1 DEF Shapes
<1>5. Numbers'
  <2>1. \A e \in core' : e.id <= last'
    <3> SUFFICES ASSUME NEW e \in core' PROVE e.id <= last + n
      BY <1>0
    <3>1. CASE e \in core
      <4>1. e.id <= last /\ e.id \in Int
        BY <1>0, <3>1 DEF Numbers, Shapes, Events
      <4> QED BY <1>0, <4>1
    <3> QED BY <1>0, <1>1, <3>1
  <2>2. \A e \in core, f \in new : e.id # f.id
    <3> SUFFICES ASSUME NEW e \in core, NEW f \in new PROVE e.id # f.id
      OBVIOUS
    <3>1. e.id <= last /\ e.id \in Int /\ f.id > last /\ f.id \in Int
      BY <1>0, <1>1 DEF Numbers, Shapes, Events
    <3> QED BY <1>0, <3>1
  <2>3. \A e, f \in core' : e.id = f.id => e = f
    BY <1>0, <1>2, <2>2 DEF Numbers
  <2>4. \A e \in core' \cup {cursor'} \cup run'.batch : e.run <= recorded'
    <3> SUFFICES ASSUME NEW e \in core \cup {cursor} \cup run.batch \cup new PROVE e.run <= recorded + n
      BY <1>0
    <3>1. CASE e \in new
      BY <1>0, <1>1, <3>1
    <3>2. CASE e \notin new
      <4>1. e.run <= recorded /\ e.run \in Int
        BY <1>0, <3>2 DEF Numbers, Shapes, Events, NoCursor, Run
      <4> QED BY <1>0, <4>1
    <3> QED BY <3>1, <3>2
  <2> QED BY <2>1, <2>3, <2>4 DEF Numbers
<1>6. NothingBehind'
  <2>1. \A e \in core, f \in new : ~(f.id <= e.id) /\ ~(f.id < e.id)
    <3> SUFFICES ASSUME NEW e \in core, NEW f \in new PROVE ~(f.id <= e.id) /\ ~(f.id < e.id)
      OBVIOUS
    <3>1. e.id <= last /\ e.id \in Int /\ f.id > last /\ f.id \in Int
      BY <1>0, <1>1 DEF Numbers, Shapes, Events
    <3> QED BY <1>0, <3>1
  <2> QED BY <1>0, <1>3, <2>1 DEF NothingBehind, Prepared
<1> QED BY <1>0, <1>4, <1>5, <1>6, AroundFrame DEF PreparedInv

LEMMA ChangesKeep ==
    ASSUME PreparedInv, (\E n \in 0..MaxEvents : Restore(n) \/ Retain(n)) \/ Rotate
    PROVE  PreparedInv'
<1>0. /\ Shapes /\ Numbers /\ NothingBehind /\ changes \in 0..MaxChanges /\ changes < MaxChanges
      /\ UNCHANGED <<matrix, recorded, took, rows, cursor, run>> /\ changes' = changes + 1
      /\ token' = token \/ token' = token + 1
      /\ core' \subseteq core
  BY DEF PreparedInv, Shapes, Restore, Retain, Rotate
<1>1. last' \in Nat /\ last' <= recorded /\ \A e \in core' : e.id <= last'
  <2>1. ASSUME NEW n \in 0..MaxEvents, Restore(n) PROVE last' \in Nat /\ last' <= recorded /\ \A e \in core' : e.id <= last'
    BY <1>0, <2>1 DEF Restore, Shapes
  <2>2. CASE last' = last
    BY <1>0, <2>2 DEF Shapes, Numbers
  <2> QED BY <2>1, <2>2 DEF Retain, Rotate
<1>2. changes' \in 0..MaxChanges /\ token' \in 1..(changes' + 1)
  BY <1>0, NotificationsAssumption DEF Shapes
<1>3. Shapes'
  BY <1>0, <1>1, <1>2 DEF Shapes
<1>4. Numbers' /\ NothingBehind'
  BY <1>0, <1>1 DEF Numbers, NothingBehind, Prepared
<1> QED BY <1>0, <1>3, <1>4, AroundFrame DEF PreparedInv
-----------------------------------------------------------------------------
(* Preparation. *)

LEMMA BeginKeeps ==
    ASSUME PreparedInv, NEW t \in 1..token, Begin(t)
    PROVE  PreparedInv'
<1>0. /\ Shapes /\ rows \in [DOMAIN rows -> Row]
      /\ UNCHANGED <<environment, took, cursor>> /\ rows' = Recovered
      /\ run' = [Idle EXCEPT !.mode = "read", !.token = t]
  BY DEF PreparedInv, Shapes, Begin
<1>1. /\ run' \in Run /\ run'.mode = "read" /\ run'.token \in 1..(MaxChanges + 1)
      /\ run'.batch = {} /\ run'.row = NoKey
  <2>1. t \in 1..(MaxChanges + 1)
    BY <1>0, NotificationsAssumption DEF Shapes
  <2>2. run' = [mode |-> "read", token |-> t, batch |-> {}, sent |-> 0, row |-> NoKey]
    BY <1>0 DEF Idle
  <2> QED BY <2>1, <2>2 DEF Run
<1>2. /\ DOMAIN rows' = DOMAIN rows /\ rows' \in [DOMAIN rows -> Row]
      /\ \A k \in DOMAIN rows :
             /\ KeptRow(k)
             /\ rows'[k].state = IF rows[k].state = "sending"
                                 THEN IF matrix THEN "retryable" ELSE "ambiguous"
                                 ELSE rows[k].state
  BY <1>0 DEF Recovered, Row, KeptRow, States
<1>3. Frame /\ UNCHANGED <<matrix, took, cursor>>
  BY <1>0, <1>2 DEF Frame, environment
<1>4. Shapes'
  BY <1>0, <1>1, <1>3, ShapesFrame DEF Shapes
<1>5. PartsAreTrue'
  BY <1>2, <1>3 DEF PreparedInv, PartsAreTrue, Seen, SeenOnce, KeptRow, Frame
<1>6. OneDevice'
  BY <1>2, <1>3 DEF PreparedInv, PartsAreTrue, OneDevice, KeptRow, Frame
<1>7. RunMatches'
  BY <1>1, <1>2 DEF RunMatches
<1>8. InOrder'
  BY <1>1, <1>2, <1>3, OrderFrame
<1>9. Numbers' /\ NothingBehind'
  BY <1>1, <1>3, EventsFrame
<1> QED BY <1>4, <1>5, <1>6, <1>7, <1>8, <1>9 DEF PreparedInv

\* What the events of a batch have before them in Core is prepared or in the batch.
LEMMA BatchIsFirst ==
    ASSUME Shapes, NothingBehind, NEW e \in core, NEW f \in core, f.id < e.id, e \in Unread,
           Cardinality({g \in Unread : g.id < e.id}) < BatchSize
    PROVE  Prepared(f) \/ (f \in Unread /\ Cardinality({g \in Unread : g.id < f.id}) < BatchSize)
<1>1. CASE f \notin Unread
  <2>1. cursor \in core /\ ~(f.id > cursor.id) /\ f.id \in Int /\ cursor.id \in Int
    BY <1>1 DEF Unread, Shapes, Events
  <2> QED BY <2>1 DEF NothingBehind
<1>2. CASE f \in Unread
  <2> DEFINE F == {g \in Unread : g.id < f.id}
             E == {g \in Unread : g.id < e.id}
  <2>1. IsFiniteSet(Events)
    <3>1. IsFiniteSet(1..MaxEvents)
      BY FS_Interval, NotificationsAssumption
    <3>2. IsFiniteSet((1..MaxEvents) \X (1..MaxEvents))
      BY <3>1, FS_Product
    <3> DEFINE P == (1..MaxEvents) \X (1..MaxEvents)
               event == [p \in P |-> [id |-> p[1], run |-> p[2]]]
    <3>3. event \in [P -> Events]
      BY DEF Events
    <3>4. \A x \in Events : event[<<x.id, x.run>>] = x /\ <<x.id, x.run>> \in P
      BY DEF Events
    <3>5. event \in Surjection(P, Events)
      BY <3>3, <3>4 DEF Surjection
    <3> HIDE DEF event, P
    <3> QED BY <3>2, <3>5, FS_Surjection DEF P
  <2>2. Unread \subseteq core /\ core \subseteq Events
    BY DEF Unread, Shapes
  <2>3. F \subseteq E
    <3> SUFFICES ASSUME NEW g \in Unread, g.id < f.id PROVE g.id < e.id
      OBVIOUS
    <3>1. g.id \in Int /\ f.id \in Int /\ e.id \in Int
      BY <2>2 DEF Events
    <3> QED BY <3>1
  <2>4. IsFiniteSet(E)
    BY <2>1, <2>2, FS_Subset
  <2>5. Cardinality(F) <= Cardinality(E) /\ Cardinality(F) \in Nat /\ Cardinality(E) \in Nat
    BY <2>3, <2>4, FS_Subset, FS_CardinalityType
  <2>6. Cardinality(E) < BatchSize /\ BatchSize \in Nat
    BY NotificationsAssumption
  <2> HIDE DEF E
  <2> QED BY <1>2, <2>5, <2>6
<1> QED BY <1>1, <1>2

LEMMA ReadKeeps ==
    ASSUME PreparedInv, Read
    PROVE  PreparedInv'
<1> DEFINE batch == {e \in Unread : Cardinality({f \in Unread : f.id < e.id}) < BatchSize}
<1>0. /\ Shapes /\ RunMatches /\ rows \in [DOMAIN rows -> Row] /\ run \in Run
      /\ UNCHANGED <<environment, took, cursor>> /\ run.mode = "read"
      /\ rows' = [k \in DOMAIN rows |-> Scoped(rows[k])]
      /\ run' = [run EXCEPT !.mode = "ready", !.batch = batch]
      /\ run.token \in 1..(MaxChanges + 1) /\ run.row = NoKey
      /\ \A k \in DOMAIN rows : k # NoKey /\ rows[k].state # "sending"
  <2>1. Shapes /\ RunMatches /\ run.mode = "read"
    BY DEF PreparedInv, Read
  <2>2. \A k \in DOMAIN rows : k # NoKey
    BY <2>1 DEF Shapes, Keys, Events, NoKey
  <2> QED BY <2>1, <2>2 DEF Shapes, RunMatches, Read
<1>1. batch \subseteq core
  BY DEF Unread
<1> HIDE DEF batch
<1>2. /\ run' \in Run /\ run'.mode = "ready" /\ run'.token = run.token
      /\ run'.batch = batch /\ run'.row = NoKey
  <2>1. batch \subseteq Events
    BY <1>0, <1>1 DEF Shapes
  <2> QED BY <1>0, <2>1 DEF Run
<1>3. /\ DOMAIN rows' = DOMAIN rows /\ rows' \in [DOMAIN rows -> Row]
      /\ \A k \in DOMAIN rows :
             /\ rows'[k].attempts = rows[k].attempts
             /\ rows'[k].state \in {rows[k].state, "ambiguous"}
             /\ rows'[k].state # rows[k].state => matrix /\ rows[k].attempts > 0 /\ rows[k].state # "accepted"
             /\ rows'[k].scope # rows[k].scope => rows[k].attempts = 0 /\ rows[k].state = "pending"
             /\ matrix /\ rows'[k].state \in {"pending", "retryable"} =>
                    \/ rows[k].attempts = 0 /\ rows[k].state = "retryable"
                    \/ rows[k].attempts # 0 /\ rows[k].state = "pending"
                    \/ rows'[k].scope = run.token
  <2>1. \A k \in DOMAIN rows : rows'[k] = Scoped(rows[k]) /\ rows[k] \in Row
    BY <1>0
  <2> QED BY <1>0, <2>1 DEF Scoped, Row, States
<1>4. Frame /\ UNCHANGED <<matrix, took, cursor>>
  BY <1>0, <1>3 DEF Frame, environment
<1>5. Shapes'
  BY <1>0, <1>2, <1>4, ShapesFrame DEF Shapes
<1>6. PartsAreTrue'
  BY <1>3, <1>4 DEF PreparedInv, PartsAreTrue, Seen, SeenOnce, Frame
<1>7. OneDevice'
  BY <1>3, <1>4 DEF PreparedInv, PartsAreTrue, OneDevice, Seen, Frame
<1>8. RunMatches'
  BY <1>0, <1>2, <1>3, <1>4 DEF PreparedInv, PartsAreTrue, RunMatches
<1>9. InOrder'
  BY <1>2, <1>3, <1>4, OrderFrame
<1>10. Numbers'
  BY <1>1, <1>2, <1>4 DEF PreparedInv, Numbers, Frame, environment
<1>11. NothingBehind'
  <2>1. \A e \in batch, f \in core : f.id < e.id => Prepared(f) \/ f \in batch
    BY <1>0, <1>1, BatchIsFirst DEF PreparedInv, batch
  <2> QED BY <1>2, <1>3, <1>4, <2>1 DEF PreparedInv, NothingBehind, Prepared, Frame, environment
<1> QED BY <1>5, <1>6, <1>7, <1>8, <1>9, <1>10, <1>11 DEF PreparedInv

\* The parts of an event are prepared together, and those that exist stay.
LEMMA PrepareKeeps ==
    ASSUME PreparedInv, NEW e \in run.batch, NEW n \in 1..MaxParts, Prepare(e, n)
    PROVE  PreparedInv'
<1> DEFINE new == {[event |-> e, part |-> p] : p \in 1..n}
<1>0. /\ Shapes /\ RunMatches /\ rows \in [DOMAIN rows -> Row] /\ run \in Run /\ e \in Events
      /\ UNCHANGED <<environment, took>> /\ run.mode = "ready" /\ cursor' = e
      /\ rows' = [k \in DOMAIN rows \cup new |-> IF k \in DOMAIN rows THEN rows[k] ELSE NewRow(n)]
      /\ run' = [run EXCEPT !.batch = run.batch \ {e}]
      /\ run.token \in 1..(MaxChanges + 1) /\ run.row = NoKey
      /\ \A f \in run.batch : e.id <= f.id
  BY DEF PreparedInv, Shapes, RunMatches, Prepare, Run
<1>1. /\ run' \in Run /\ run'.mode = "ready" /\ run'.token = run.token
      /\ run'.batch = run.batch \ {e} /\ run'.row = NoKey
  <2>1. run.batch \ {e} \in SUBSET Events
    BY <1>0 DEF Run
  <2> QED BY <1>0, <2>1 DEF Run
<1>2. new \subseteq Keys /\ \A k \in new : k.event = e /\ k.part \in 1..n
  <2>1. \A p \in 1..n : p \in 1..MaxParts
    BY NotificationsAssumption
  <2> QED BY <1>0, <2>1 DEF Keys
<1>3. \A p \in 1..n : [event |-> e, part |-> p] \in new
  OBVIOUS
<1>4. NewRow(n) \in Row
  BY <1>0, NotificationsAssumption DEF NewRow, Row, States
<1> HIDE DEF new
<1>5. /\ DOMAIN rows' = DOMAIN rows \cup new
      /\ \A k \in DOMAIN rows : rows'[k] = rows[k]
      /\ \A k \in new \ DOMAIN rows : rows'[k] = NewRow(n)
      /\ rows' \in [DOMAIN rows' -> Row]
  BY <1>0, <1>4
<1>6. \A k \in new \ DOMAIN rows : /\ rows'[k].state = "pending" /\ rows'[k].attempts = 0
                                   /\ rows'[k].scope = run.token /\ ~Seen(k)
  BY <1>5 DEF NewRow, PreparedInv, PartsAreTrue, Seen
<1>7. Shapes'
  BY <1>0, <1>1, <1>2, <1>5 DEF Shapes, environment
<1>8. PartsAreTrue'
  BY <1>0, <1>5, <1>6 DEF PreparedInv, PartsAreTrue, Seen, SeenOnce, environment
<1>9. OneDevice'
  BY <1>0, <1>5 DEF PreparedInv, PartsAreTrue, OneDevice, environment
<1>10. RunMatches'
  BY <1>0, <1>1, <1>5, <1>6 DEF RunMatches, environment
<1>11. InOrder'
  <2>1. \A k \in DOMAIN rows', p \in 1..MaxParts :
            p < k.part => [event |-> k.event, part |-> p] \in DOMAIN rows'
    <3> SUFFICES ASSUME NEW k \in DOMAIN rows', NEW p \in 1..MaxParts, p < k.part
                 PROVE  [event |-> k.event, part |-> p] \in DOMAIN rows'
      OBVIOUS
    <3>1. CASE k \in DOMAIN rows
      BY <1>5, <3>1 DEF PreparedInv, InOrder
    <3>2. CASE k \in new
      <4>1. p \in 1..n
        BY <1>2, <3>2
      <4> QED BY <1>2, <1>3, <1>5, <3>2, <4>1
    <3> QED BY <1>5, <3>1, <3>2
  <2>2. \A x \in took, o \in DOMAIN rows' : Earlier(o, x[1]) => rows'[o].state = "accepted"
    <3> SUFFICES ASSUME NEW x \in took, NEW o \in DOMAIN rows', Earlier(o, x[1])
                 PROVE  o \in DOMAIN rows /\ rows[o].state = "accepted"
      BY <1>5
    <3>1. x[1] \in DOMAIN rows /\ o \in Keys /\ x[1] \in Keys
      BY <1>2, <1>5 DEF PreparedInv, PartsAreTrue, Shapes
    <3>2. o.part \in 1..MaxParts /\ o = [event |-> o.event, part |-> o.part]
      BY <3>1 DEF Keys
    <3>3. o \in DOMAIN rows
      BY <3>1, <3>2 DEF PreparedInv, InOrder, Earlier
    <3> QED BY <3>3 DEF PreparedInv, InOrder
  <2> QED BY <1>0, <1>1, <2>1, <2>2 DEF InOrder
<1>12. Numbers'
  BY <1>0, <1>1 DEF PreparedInv, Numbers, environment
<1>13. NothingBehind'
  <2>1. Prepared(e)' /\ \A f \in core : Prepared(f) => Prepared(f)'
    <3>1. 1 \in 1..n
      OBVIOUS
    <3> QED BY <1>3, <1>5, <3>1 DEF Prepared
  <2>2. \A f \in core : e \in core /\ f.id <= e.id => Prepared(f)'
    <3> SUFFICES ASSUME NEW f \in core, e \in core, f.id <= e.id PROVE Prepared(f)'
      OBVIOUS
    <3>1. f.id \in Int /\ e.id \in Int
      BY <1>0 DEF Shapes, Events
    <3>2. CASE f.id = e.id
      BY <2>1, <3>2 DEF PreparedInv, Numbers
    <3>3. CASE f.id < e.id
      BY <1>0, <2>1, <3>1, <3>3 DEF PreparedInv, NothingBehind
    <3> QED BY <3>1, <3>2, <3>3
  <2>3. \A d \in run'.batch, f \in core :
            d \in core /\ f.id < d.id => Prepared(f)' \/ f \in run'.batch
    BY <1>1, <2>1 DEF PreparedInv, NothingBehind
  <2> QED BY <1>0, <2>2, <2>3 DEF NothingBehind, environment
<1> QED BY <1>7, <1>8, <1>9, <1>10, <1>11, <1>12, <1>13 DEF PreparedInv
-----------------------------------------------------------------------------
(* Sending. *)

\* A run that ends leaves the ledger as it is.
LEMMA EndKeeps ==
    ASSUME PreparedInv, End
    PROVE  PreparedInv'
<1>0. UNCHANGED <<environment, took, rows, cursor>> /\ run' = Idle
  BY DEF End
<1>1. Frame /\ run' \in Run /\ run'.batch = {} /\ run'.mode = "off"
  BY <1>0, IdleIsRun DEF Frame, PreparedInv, Shapes
<1>2. Shapes'
  BY <1>0, <1>1, ShapesFrame DEF PreparedInv, Shapes
<1>3. PartsAreTrue' /\ OneDevice'
  BY <1>0 DEF PreparedInv, PartsAreTrue, Seen, SeenOnce, OneDevice, environment
<1>4. RunMatches'
  BY <1>0, <1>1, IdleIsRun DEF RunMatches
<1>5. InOrder' /\ Numbers' /\ NothingBehind'
  BY <1>0, <1>1, OrderFrame, EventsFrame
<1> QED BY <1>2, <1>3, <1>4, <1>5 DEF PreparedInv

LEMMA ClaimKeeps ==
    ASSUME PreparedInv, NEW k \in DOMAIN rows, Claim(k)
    PROVE  PreparedInv'
<1>0. /\ Shapes /\ RunMatches /\ rows \in [DOMAIN rows -> Row] /\ run \in Run
      /\ UNCHANGED <<environment, took, cursor>> /\ run.mode = "ready" /\ run.batch = {}
      /\ rows[k].state \in {"pending", "retryable"} /\ rows[k].attempts < MaxAttempts
      /\ \A o \in DOMAIN rows : Earlier(o, k) => rows[o].state = "accepted"
      /\ rows' = [rows EXCEPT ![k].state = "sending", ![k].attempts = rows[k].attempts + 1]
      /\ run' = [run EXCEPT !.mode = "request", !.row = k]
      /\ run.token \in 1..(MaxChanges + 1) /\ run.row = NoKey
      /\ k \in Keys
  BY DEF PreparedInv, Shapes, RunMatches, Claim, Selected, Due, Earlier
<1>1. /\ run' \in Run /\ run'.mode = "request" /\ run'.token = run.token
      /\ run'.batch = {} /\ run'.row = k
  BY <1>0 DEF Run
<1>2. /\ DOMAIN rows' = DOMAIN rows /\ rows' \in [DOMAIN rows -> Row]
      /\ \A o \in DOMAIN rows : o # k => rows'[o] = rows[o]
      /\ rows'[k].state = "sending" /\ rows'[k].attempts > 0 /\ rows'[k].scope = rows[k].scope
  <2>1. rows[k] \in Row /\ rows[k].attempts + 1 \in 0..MaxAttempts /\ rows[k].attempts + 1 > 0
    BY <1>0, NotificationsAssumption DEF Row
  <2>2. rows'[k] = [rows[k] EXCEPT !.state = "sending", !.attempts = rows[k].attempts + 1]
    BY <1>0
  <2>3. /\ rows'[k].state = "sending" /\ rows'[k].attempts = rows[k].attempts + 1
        /\ rows'[k].scope = rows[k].scope /\ rows'[k] \in Row
    BY <2>1, <2>2 DEF Row, States
  <2> QED BY <1>0, <2>1, <2>3
<1>3. Frame /\ UNCHANGED <<matrix, took, cursor>>
  BY <1>0, <1>2 DEF Frame, environment
<1>4. Shapes'
  BY <1>0, <1>1, <1>3, ShapesFrame DEF Shapes
<1>5. PartsAreTrue'
  BY <1>2, <1>3 DEF PreparedInv, PartsAreTrue, Seen, SeenOnce
<1>6. OneDevice'
  BY <1>2, <1>3 DEF PreparedInv, PartsAreTrue, OneDevice
<1>7. ~matrix => ~Seen(k)
  BY <1>0 DEF PreparedInv, PartsAreTrue
<1>8. \A o \in DOMAIN rows : o # NoKey /\ rows[o].state # "sending"
  BY <1>0 DEF RunMatches, Shapes, Keys, Events, NoKey
<1>9. RunMatches'
  BY <1>0, <1>1, <1>2, <1>3, <1>7, <1>8 DEF RunMatches, Seen
<1>10. InOrder'
  <2>1. \A o \in DOMAIN rows : rows[o].state = "accepted" => rows'[o].state = "accepted"
    BY <1>0, <1>2
  <2> QED BY <1>0, <1>1, <1>2, <1>3, <2>1 DEF PreparedInv, InOrder, Earlier
<1>11. Numbers' /\ NothingBehind'
  BY <1>1, <1>3, EventsFrame
<1> QED BY <1>4, <1>5, <1>6, <1>9, <1>10, <1>11 DEF PreparedInv

LEMMA GiveUpKeeps ==
    ASSUME PreparedInv, NEW k \in DOMAIN rows, GiveUp(k)
    PROVE  PreparedInv'
<1>0. /\ Shapes /\ rows \in [DOMAIN rows -> Row]
      /\ UNCHANGED <<environment, took, cursor, run>> /\ run.mode = "ready"
      /\ rows[k].state \in {"pending", "retryable"}
      /\ rows' = [rows EXCEPT ![k].state = "ambiguous"]
  BY DEF PreparedInv, Shapes, GiveUp, Selected, Due
<1>1. /\ DOMAIN rows' = DOMAIN rows /\ rows' \in [DOMAIN rows -> Row]
      /\ rows'[k].state = "ambiguous" /\ KeptRow(k)
      /\ \A o \in DOMAIN rows : o # k => rows'[o] = rows[o]
  BY <1>0, OneRow DEF States
<1>2. Frame /\ UNCHANGED <<matrix, took, cursor>>
  BY <1>0, <1>1 DEF Frame, environment
<1>3. Shapes'
  BY <1>0, <1>2, ShapesFrame DEF Shapes
<1>4. PartsAreTrue'
  BY <1>1, <1>2 DEF PreparedInv, PartsAreTrue, Seen, SeenOnce
<1>5. OneDevice'
  BY <1>1, <1>2 DEF PreparedInv, PartsAreTrue, OneDevice, KeptRow
<1>6. RunMatches'
  BY <1>0, <1>1, <1>2 DEF PreparedInv, RunMatches, Seen
<1>7. InOrder'
  BY <1>0, <1>1, <1>2, OrderFrame
<1>8. Numbers' /\ NothingBehind'
  BY <1>0, <1>2, EventsFrame
<1> QED BY <1>3, <1>4, <1>5, <1>6, <1>7, <1>8 DEF PreparedInv

\* The provider takes the text of the part that is being sent: a repetition reaches only
\* Matrix, and from the device that sent it before.
LEMMA TakenOnce ==
    ASSUME PreparedInv, run.mode = "request", Taken(run.row)
    PROVE  /\ IsFiniteSet(took') /\ took' \subseteq Keys \X Nat /\ took \subseteq took'
           /\ \A x \in took' : x \in took \/ x[1] = run.row
           /\ \A x, y \in took' : x[1] = y[1] => x = y
           /\ \E x \in took' : x[1] = run.row
           /\ matrix => \A x \in took' : x[2] = rows[x[1]].scope
<1> DEFINE k == run.row
           v == IF matrix THEN run.token ELSE rows[k].attempts
<1>0. /\ k \in DOMAIN rows /\ k \in Keys /\ rows[k] \in Row /\ rows[k].state = "sending"
      /\ took' = took \cup {<<k, v>>} /\ took \subseteq Keys \X Nat /\ IsFiniteSet(took)
      /\ run.token \in 1..(MaxChanges + 1)
      /\ ~matrix => ~Seen(k)
      /\ matrix => rows[k].scope = run.token
  BY DEF PreparedInv, Shapes, RunMatches, Taken
<1>1. v \in Nat
  BY <1>0, NotificationsAssumption DEF Row
<1>2. matrix => v = rows[k].scope
  BY <1>0
<1> HIDE DEF k, v
<1>3. IsFiniteSet(took') /\ took' \subseteq Keys \X Nat /\ took \subseteq took'
  <2>1. <<k, v>> \in Keys \X Nat
    BY <1>0, <1>1
  <2>2. IsFiniteSet(took \cup {<<k, v>>})
    BY <1>0, FS_AddElement
  <2> QED BY <1>0, <2>1, <2>2
<1>4. matrix => \A x \in took' : x[2] = rows[x[1]].scope
  BY <1>0, <1>2 DEF PreparedInv, OneDevice
<1>5. \A x \in took : x[1] = k => x = <<k, v>>
  <2> SUFFICES ASSUME NEW x \in took, x[1] = k PROVE x = <<k, v>>
    OBVIOUS
  <2>1. matrix /\ x = <<x[1], x[2]>>
    BY <1>0 DEF Seen
  <2> QED BY <1>2, <2>1 DEF PreparedInv, OneDevice
<1>6. \A x, y \in took' : x[1] = y[1] => x = y
  BY <1>0, <1>5 DEF PreparedInv, PartsAreTrue, SeenOnce
<1>7. (\A x \in took' : x \in took \/ x[1] = k) /\ (\E x \in took' : x[1] = k)
  <2>1. <<k, v>> \in took' /\ <<k, v>>[1] = k /\ \A x \in took' : x \in took \/ x = <<k, v>>
    BY <1>0
  <2>2. \E x \in took' : x[1] = k
    BY <2>1
  <2>3. \A x \in took' : x \in took \/ x[1] = k
    BY <2>1
  <2> QED BY <2>2, <2>3
<1>8. (\A x \in took' : x \in took \/ x[1] = run.row) /\ (\E x \in took' : x[1] = run.row)
  BY <1>7 DEF k
<1> QED BY <1>3, <1>4, <1>6, <1>8

\* What an answer, or its absence, does to the ledger and to the run.
LEMMA FinishFacts ==
    ASSUME PreparedInv, run.mode = "request",
           NEW o \in {"accepted", "retryable", "permanent", "ambiguous"}, Finish(o)
    PROVE  /\ Frame /\ cursor' = cursor /\ matrix' = matrix
           /\ run' \in Run /\ run'.mode = "ready" /\ run'.token = run.token
           /\ run'.batch = run.batch /\ run'.row = NoKey
           /\ KeptRow(run.row)
           /\ \A k \in DOMAIN rows : k # run.row => rows'[k] = rows[k]
           /\ rows'[run.row].state \in {o, "ambiguous", "permanent"}
           /\ rows'[run.row].state = "permanent" => ~matrix \/ o = "permanent"
           /\ o # "retryable" => rows'[run.row].state = o
           /\ matrix /\ o = "retryable" => rows'[run.row].state \in {"retryable", "ambiguous"}
<1>0. /\ Shapes /\ rows \in [DOMAIN rows -> Row] /\ run \in Run /\ run.row \in DOMAIN rows
      /\ UNCHANGED <<environment, cursor>>
      /\ rows' = [rows EXCEPT ![run.row].state = Outcome(run.row, o)]
      /\ run' = [run EXCEPT !.mode = "ready", !.sent = run.sent + 1, !.row = NoKey]
  BY DEF PreparedInv, Shapes, RunMatches, Finish
<1>1. /\ run' \in Run /\ run'.mode = "ready" /\ run'.token = run.token
      /\ run'.batch = run.batch /\ run'.row = NoKey
  <2>1. run.token \in 0..(MaxChanges + 1) /\ run.batch \in SUBSET Events /\ run.sent + 1 \in Nat
    BY <1>0 DEF Run
  <2>2. run' = [mode |-> "ready", token |-> run.token, batch |-> run.batch,
                sent |-> run.sent + 1, row |-> NoKey]
    BY <1>0 DEF Run
  <2> QED BY <2>1, <2>2 DEF Run
<1>2. /\ Outcome(run.row, o) \in {o, "ambiguous", "permanent"}
      /\ Outcome(run.row, o) \in States
      /\ Outcome(run.row, o) = "permanent" => ~matrix \/ o = "permanent"
      /\ o # "retryable" => Outcome(run.row, o) = o
      /\ matrix /\ o = "retryable" => Outcome(run.row, o) \in {"retryable", "ambiguous"}
  BY DEF Outcome, States
<1>3. /\ DOMAIN rows' = DOMAIN rows /\ rows' \in [DOMAIN rows -> Row]
      /\ rows'[run.row].state = Outcome(run.row, o) /\ KeptRow(run.row)
      /\ \A k \in DOMAIN rows : k # run.row => rows'[k] = rows[k]
  BY <1>0, <1>2, OneRow
<1> QED BY <1>0, <1>1, <1>2, <1>3 DEF Frame, environment

LEMMA SendTakenKeeps ==
    ASSUME PreparedInv, SendTaken
    PROVE  PreparedInv'
<1>0. /\ Shapes /\ RunMatches /\ run.mode = "request" /\ Taken(run.row) /\ run.row \in DOMAIN rows
      /\ rows[run.row].state = "sending" /\ run.row \in Keys
      /\ \A k \in DOMAIN rows : k # NoKey /\ (rows[k].state = "sending" => k = run.row)
  <2>1. Shapes /\ RunMatches /\ run.mode = "request" /\ Taken(run.row)
    BY DEF PreparedInv, SendTaken
  <2>2. \A k \in DOMAIN rows : k # NoKey
    BY <2>1 DEF Shapes, Keys, Events, NoKey
  <2> QED BY <2>1, <2>2 DEF Shapes, RunMatches
<1>1. PICK o \in {"accepted", Uncertain} : Finish(o)
  BY DEF SendTaken
<1>2. o \in {"accepted", "retryable", "ambiguous"} /\ (o = "retryable" => matrix)
  BY <1>1 DEF Uncertain
<1>3. /\ Frame /\ cursor' = cursor /\ matrix' = matrix
      /\ run' \in Run /\ run'.mode = "ready" /\ run'.token = run.token
      /\ run'.batch = run.batch /\ run'.row = NoKey
      /\ KeptRow(run.row)
      /\ \A k \in DOMAIN rows : k # run.row => rows'[k] = rows[k]
      /\ rows'[run.row].state \in {"accepted", "ambiguous"} \/ (matrix /\ rows'[run.row].state = "retryable")
  BY <1>0, <1>1, <1>2, FinishFacts
<1>4. /\ IsFiniteSet(took') /\ took' \subseteq Keys \X Nat /\ took \subseteq took'
      /\ \A x \in took' : x \in took \/ x[1] = run.row
      /\ \A x, y \in took' : x[1] = y[1] => x = y
      /\ \E x \in took' : x[1] = run.row
      /\ matrix => \A x \in took' : x[2] = rows[x[1]].scope
  BY <1>0, TakenOnce
<1>5. Shapes'
  BY <1>3, <1>4, ShapesFrame
<1>6. PartsAreTrue'
  <2>1. \A x \in took' : x[1] \in DOMAIN rows'
    BY <1>0, <1>3, <1>4 DEF PreparedInv, PartsAreTrue, Frame
  <2>2. \A k \in DOMAIN rows' : k # run.row =>
            /\ (\E x \in took' : x[1] = k) <=> (\E x \in took : x[1] = k)
            /\ rows'[k] = rows[k]
    BY <1>3, <1>4 DEF Frame
  <2>3. rows'[run.row].attempts > 0
    BY <1>0, <1>3 DEF PreparedInv, PartsAreTrue, KeptRow
  <2> QED BY <1>3, <1>4, <2>1, <2>2, <2>3 DEF PreparedInv, PartsAreTrue, Seen, SeenOnce, Frame
<1>7. OneDevice'
  BY <1>3, <1>4 DEF OneDevice, KeptRow, PreparedInv, PartsAreTrue
<1>8. RunMatches'
  BY <1>0, <1>3 DEF RunMatches, KeptRow, Frame
<1>9. InOrder'
  <2>1. \A k \in DOMAIN rows : rows[k].state = "accepted" => rows'[k].state = "accepted"
    BY <1>0, <1>3
  <2>2. \A x \in took', k \in DOMAIN rows : Earlier(k, x[1]) => rows[k].state = "accepted"
    BY <1>0, <1>4 DEF PreparedInv, InOrder
  <2> QED BY <1>3, <2>1, <2>2 DEF PreparedInv, InOrder, Frame, Earlier
<1>10. Numbers' /\ NothingBehind'
  BY <1>3, EventsFrame
<1> QED BY <1>5, <1>6, <1>7, <1>8, <1>9, <1>10 DEF PreparedInv

LEMMA SendNotTakenKeeps ==
    ASSUME PreparedInv, SendNotTaken
    PROVE  PreparedInv'
<1>0. /\ Shapes /\ RunMatches /\ run.mode = "request" /\ took' = took /\ run.row \in DOMAIN rows
      /\ rows[run.row].state = "sending" /\ (~matrix => ~Seen(run.row))
      /\ \A k \in DOMAIN rows : rows[k].state = "sending" => k = run.row
  BY DEF PreparedInv, RunMatches, SendNotTaken
<1>1. PICK o \in {"retryable", "permanent", Uncertain} : Finish(o)
  BY DEF SendNotTaken
<1>2. o \in {"retryable", "permanent", "ambiguous"}
  BY <1>1 DEF Uncertain
<1>3. /\ Frame /\ cursor' = cursor /\ matrix' = matrix
      /\ run' \in Run /\ run'.mode = "ready" /\ run'.token = run.token
      /\ run'.batch = run.batch /\ run'.row = NoKey
      /\ KeptRow(run.row)
      /\ \A k \in DOMAIN rows : k # run.row => rows'[k] = rows[k]
      /\ rows'[run.row].state \in {"retryable", "permanent", "ambiguous"}
  BY <1>0, <1>1, <1>2, FinishFacts
<1>4. Shapes'
  BY <1>0, <1>3, ShapesFrame DEF Shapes
<1>5. PartsAreTrue'
  <2>1. rows'[run.row].attempts > 0
    BY <1>0, <1>3 DEF PreparedInv, PartsAreTrue, KeptRow
  <2> QED BY <1>0, <1>3, <2>1 DEF PreparedInv, PartsAreTrue, Seen, SeenOnce, Frame
<1>6. OneDevice'
  BY <1>0, <1>3 DEF PreparedInv, PartsAreTrue, OneDevice, KeptRow
<1>7. RunMatches'
  BY <1>0, <1>3 DEF RunMatches, KeptRow, Frame
<1>8. InOrder'
  BY <1>0, <1>3, OrderFrame
<1>9. Numbers' /\ NothingBehind'
  BY <1>3, EventsFrame
<1> QED BY <1>4, <1>5, <1>6, <1>7, <1>8, <1>9 DEF PreparedInv

LEMMA SendInterruptedKeeps ==
    ASSUME PreparedInv, SendInterrupted
    PROVE  PreparedInv'
<1>0. /\ Shapes /\ RunMatches /\ run.mode = "request" /\ Taken(run.row) /\ run.row \in DOMAIN rows
      /\ rows[run.row].state = "sending" /\ UNCHANGED <<environment, rows, cursor>> /\ run' = Idle
  BY DEF PreparedInv, RunMatches, SendInterrupted
<1>1. /\ IsFiniteSet(took') /\ took' \subseteq Keys \X Nat /\ took \subseteq took'
      /\ \A x \in took' : x \in took \/ x[1] = run.row
      /\ \A x, y \in took' : x[1] = y[1] => x = y
      /\ \E x \in took' : x[1] = run.row
      /\ matrix => \A x \in took' : x[2] = rows[x[1]].scope
  BY <1>0, TakenOnce
<1>2. Frame /\ run' \in Run /\ run'.batch = {} /\ run'.mode = "off"
  BY <1>0, IdleIsRun DEF Frame, Shapes
<1>3. Shapes'
  BY <1>0, <1>1, <1>2, ShapesFrame
<1>4. PartsAreTrue'
  BY <1>0, <1>1 DEF PreparedInv, PartsAreTrue, Seen, SeenOnce, environment
<1>5. OneDevice'
  BY <1>0, <1>1 DEF OneDevice, environment
<1>6. RunMatches'
  BY <1>0, <1>2, IdleIsRun DEF RunMatches
<1>7. InOrder'
  BY <1>0, <1>1, <1>2 DEF PreparedInv, InOrder
<1>8. Numbers' /\ NothingBehind'
  BY <1>0, <1>2, EventsFrame
<1> QED BY <1>3, <1>4, <1>5, <1>6, <1>7, <1>8 DEF PreparedInv
-----------------------------------------------------------------------------
(* The theorems. *)

LEMMA LedgerInit == Init => PreparedInv
<1> SUFFICES ASSUME Init PROVE PreparedInv
  OBVIOUS
<1>1. DOMAIN rows = {} /\ rows \in [{} -> Row]
  BY DEF Init
<1>2. Shapes
  BY <1>1, IdleIsRun, NotificationsAssumption, FS_EmptySet DEF Init, Shapes
<1>3. PartsAreTrue /\ OneDevice /\ RunMatches /\ InOrder
  BY <1>1, IdleIsRun DEF Init, PartsAreTrue, OneDevice, RunMatches, InOrder
<1>4. Numbers /\ NothingBehind
  BY IdleIsRun DEF Init, Numbers, NothingBehind, NoCursor
<1> QED BY <1>2, <1>3, <1>4 DEF PreparedInv

\* Every step keeps the invariant.
LEMMA LedgerStep == PreparedInv /\ [Next]_vars => PreparedInv'
<1> SUFFICES ASSUME PreparedInv, [Next]_vars PROVE PreparedInv'
  OBVIOUS
<1>1. CASE UNCHANGED vars
  <2>1. UNCHANGED <<matrix, core, last, recorded, changes, token, took, rows, cursor, run>>
    BY <1>1 DEF vars, environment
  <2>2. Shapes' /\ Numbers' /\ NothingBehind'
    BY <2>1 DEF PreparedInv, Shapes, Numbers, NothingBehind, Prepared
  <2> QED BY <2>1, <2>2, AroundFrame DEF PreparedInv
<1>2. CASE Next
  BY <1>2, RecordKeeps, ChangesKeep, BeginKeeps, ReadKeeps, PrepareKeeps, ClaimKeeps, GiveUpKeeps,
     SendTakenKeeps, SendNotTakenKeeps, SendInterruptedKeeps, EndKeeps DEF Next
<1> QED BY <1>1, <1>2

\* The ledger, the run that holds it, the events and what was taken agree.
THEOREM LedgerCorrect == Spec => []PreparedInv
BY LedgerInit, LedgerStep, PTL DEF Spec

\* How many copies of a part people see.
LEMMA CountCopies ==
    ASSUME PreparedInv, NEW k \in DOMAIN rows
    PROVE  Copies(k) <= 1 /\ Copies(k) \in Nat /\ (Copies(k) > 0 <=> Seen(k))
<1> DEFINE C == {x \in took : x[1] = k}
<1>1. SeenOnce(k)
  BY DEF PreparedInv, PartsAreTrue
<1>2. CASE Seen(k)
  <2>1. PICK x \in took : x[1] = k
    BY <1>2 DEF Seen
  <2>2. C = {x}
    BY <1>1, <2>1 DEF SeenOnce
  <2>3. Cardinality(C) = 1
    BY <2>2, FS_Singleton
  <2> QED BY <1>2, <2>3 DEF Copies
<1>3. CASE ~Seen(k)
  <2>1. C = {}
    BY <1>3 DEF Seen
  <2>2. Cardinality(C) = 0
    BY <2>1, FS_EmptySet
  <2> QED BY <1>3, <2>2 DEF Copies
<1> QED BY <1>2, <1>3

\* No part is seen twice: not after a crash between the request and its record, not with
\* another credential, and not when Core is restored and gives its numbers again.
THEOREM AtMostOnceCorrect == Spec => []AtMostOnce
<1>1. PreparedInv => AtMostOnce
  BY CountCopies DEF AtMostOnce
<1> QED BY <1>1, LedgerCorrect, PTL

\* Parts go out in order, no event of Core is skipped, and the ledger is true about
\* what it is certain of.
THEOREM LedgerInvCorrect == Spec => []LedgerInv
<1>1. PreparedInv => LedgerInv
  <2> SUFFICES ASSUME PreparedInv PROVE LedgerInv
    OBVIOUS
  <2>1. TypeOK
    <3>1. token \in 1..(MaxChanges + 1)
      BY NotificationsAssumption DEF PreparedInv, Shapes
    <3>2. run.row \in DOMAIN rows \cup {NoKey} /\ run.batch \subseteq Events
          /\ run.mode \in {"off", "read", "ready", "request"}
      BY DEF PreparedInv, Shapes, RunMatches, Run
    <3>3. \A k \in DOMAIN rows : rows[k] \in Row
      BY DEF PreparedInv, Shapes
    <3> QED BY <3>1, <3>2, <3>3 DEF PreparedInv, Shapes, TypeOK, Row, States
  <2>2. PartsInOrder
    <3> SUFFICES ASSUME NEW k \in DOMAIN rows, NEW o \in DOMAIN rows, Copies(k) > 0,
                        o.event = k.event, o.part < k.part
                 PROVE  rows[o].state = "accepted"
      BY DEF PartsInOrder
    <3>1. PICK x \in took : x[1] = k
      BY CountCopies DEF Seen
    <3> QED BY <3>1 DEF PreparedInv, InOrder, Earlier
  <2>3. NothingSkipped
    <3> SUFFICES ASSUME NEW e \in core, e \notin Unread PROVE Prepared(e)
      BY DEF NothingSkipped, Prepared
    <3>1. cursor \in core /\ ~(e.id > cursor.id) /\ e.id \in Int /\ cursor.id \in Int
      BY DEF Unread, PreparedInv, Shapes, Events
    <3> QED BY <3>1 DEF PreparedInv, NothingBehind
  <2>4. LedgerIsTrue
    <3> SUFFICES ASSUME NEW k \in DOMAIN rows
                 PROVE  /\ rows[k].state = "accepted" => Copies(k) = 1
                        /\ rows[k].state = "pending" => Copies(k) = 0
                        /\ ~matrix /\ rows[k].state \in {"retryable", "permanent"} => Copies(k) = 0
      BY DEF LedgerIsTrue
    <3>1. /\ Copies(k) \in Nat /\ Copies(k) <= 1
          /\ Seen(k) => Copies(k) > 0
          /\ ~Seen(k) => ~(Copies(k) > 0)
      BY CountCopies
    <3>2. (Seen(k) => Copies(k) = 1) /\ (~Seen(k) => Copies(k) = 0)
      BY <3>1
    <3> QED BY <3>2 DEF PreparedInv, PartsAreTrue
  <2> QED BY <2>1, <2>2, <2>3, <2>4 DEF LedgerInv
<1> QED BY <1>1, LedgerCorrect, PTL
=============================================================================
