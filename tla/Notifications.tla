---------------------------- MODULE Notifications ----------------------------
(***************************************************************************)
(* The notification ledger of the automation package, for one channel and  *)
(* destination: events of the Core database are prepared as parts and sent *)
(* to a provider.  The ledger is not in the database the events come from, *)
(* which may be restored from a backup or pruned behind its back.          *)
(*                                                                         *)
(* Granularity: one action per transaction on the ledger and one for the   *)
(* request.  notifications.lock lets one process at a time do this.        *)
(***************************************************************************)
EXTENDS Integers, FiniteSets

CONSTANTS
    MaxAttempts, \* max_attempts of the channel
    BatchSize,   \* batch_size of the channel
    MaxParts,    \* max_parts of the channel
    MaxEvents,   \* bound: events Core records
    MaxChanges   \* bound: credentials replaced, Core restored or pruned

ASSUME NotificationsAssumption ==
    /\ MaxAttempts \in Nat \ {0} /\ BatchSize \in Nat \ {0} /\ MaxParts \in Nat \ {0}
    /\ MaxEvents \in Nat /\ MaxChanges \in Nat

VARIABLES
    \* the environment
    matrix,   \* the provider is Matrix, which drops repeated transactions of a device
    core,     \* the events Core has
    last,     \* the last event identifier Core gave (AUTOINCREMENT)
    recorded, \* how many events Core recorded
    changes,
    token,    \* the credential
    took,     \* history: the attempts the provider took; for Matrix, their credentials
    \* the ledger
    rows,
    cursor,
    \* the process that holds the lock
    run

environment == <<matrix, core, last, recorded, changes, token>>
vars == <<environment, took, rows, cursor, run>>

\* run_id is a new UUID for each run of Core.
Events == [id : 1..MaxEvents, run : 1..MaxEvents]
Keys == [event : Events, part : 1..MaxParts]
NoKey == [event |-> [id |-> 0, run |-> 0], part |-> 0]
NoCursor == [id |-> 0, run |-> 0]

Idle == [mode |-> "off", token |-> 0, batch |-> {}, sent |-> 0, row |-> NoKey]

Init ==
    /\ matrix \in BOOLEAN /\ core = {} /\ last = 0 /\ recorded = 0 /\ changes = 0
    /\ token = 1 /\ took = {}
    /\ rows = [k \in {} |-> k] /\ cursor = NoCursor
    /\ run = Idle
-----------------------------------------------------------------------------
(* Around the ledger. *)

\* A run of Core records n events.
Record(n) ==
    /\ recorded + n <= MaxEvents
    /\ core' = core \cup {[id |-> last + i, run |-> recorded + 1] : i \in 1..n}
    /\ last' = last + n
    /\ recorded' = recorded + n
    /\ UNCHANGED <<matrix, changes, token, took, rows, cursor, run>>

\* A backup, which ends with event n, replaces the database.
Restore(n) ==
    /\ changes < MaxChanges /\ changes' = changes + 1
    /\ n < last
    /\ core' = {e \in core : e.id <= n}
    /\ last' = n
    /\ UNCHANGED <<matrix, recorded, token, took, rows, cursor, run>>

Retain(n) ==
    /\ changes < MaxChanges /\ changes' = changes + 1
    /\ core' = {e \in core : e.id > n}
    /\ UNCHANGED <<matrix, last, recorded, token, took, rows, cursor, run>>

\* Only Matrix has a context that a credential changes.
Rotate ==
    /\ matrix
    /\ changes < MaxChanges /\ changes' = changes + 1
    /\ token' = token + 1
    /\ UNCHANGED <<matrix, core, last, recorded, took, rows, cursor, run>>
-----------------------------------------------------------------------------
(* Preparation. *)

\* Slip: interrupted parts are sent again whatever the provider.
RecoverAlways ==
    [k \in DOMAIN rows |->
        IF rows[k].state = "sending" THEN [rows[k] EXCEPT !.state = "retryable"] ELSE rows[k]]

Recovered ==
    [k \in DOMAIN rows |->
        IF rows[k].state = "sending"
        THEN [rows[k] EXCEPT !.state = IF matrix THEN "retryable" ELSE "ambiguous"]
        ELSE rows[k]]

\* The credential was resolved before the lock was taken and may have been replaced.
Begin(t) ==
    /\ run.mode = "off"
    /\ rows' = Recovered
    /\ run' = [Idle EXCEPT !.mode = "read", !.token = t]
    /\ UNCHANGED <<environment, took, cursor>>

\* Another credential may be another device, to which a transaction is new.
Scoped(row) ==
    IF ~matrix THEN row
    ELSE IF row.attempts > 0 /\ row.scope # run.token
            /\ row.state \in {"pending", "retryable", "sending"}
    THEN [row EXCEPT !.state = "ambiguous"]
    ELSE IF row.attempts = 0 /\ row.state = "pending"
    THEN [row EXCEPT !.scope = run.token]
    ELSE row

\* Slip: the event under the cursor is known by its number alone.
UnreadByNumber ==
    IF \E e \in core : e.id = cursor.id THEN {e \in core : e.id > cursor.id} ELSE core

\* The events behind the cursor; all of them when the cursor's own event is gone.
Unread == IF cursor \in core THEN {e \in core : e.id > cursor.id} ELSE core

\* Scope and batch: what a run does first for the channel.
Read ==
    /\ run.mode = "read"
    /\ rows' = [k \in DOMAIN rows |-> Scoped(rows[k])]
    /\ run' = [run EXCEPT !.mode = "ready",
                          !.batch = {e \in Unread :
                              Cardinality({f \in Unread : f.id < e.id}) < BatchSize}]
    /\ UNCHANGED <<environment, took, cursor>>

NewRow(n) == [state |-> "pending", attempts |-> 0, scope |-> run.token, of |-> n]

\* The text lists the clients concerned now and needs n parts.  INSERT OR IGNORE:
\* parts that exist keep their text and their state.
Prepare(e, n) ==
    /\ run.mode = "ready"
    /\ e \in run.batch /\ \A f \in run.batch : e.id <= f.id
    /\ rows' = [k \in DOMAIN rows \cup {[event |-> e, part |-> p] : p \in 1..n} |->
                   IF k \in DOMAIN rows THEN rows[k] ELSE NewRow(n)]
    /\ cursor' = e
    /\ run' = [run EXCEPT !.batch = @ \ {e}]
    /\ UNCHANGED <<environment, took>>
-----------------------------------------------------------------------------
(* Sending. *)

\* Slip: parts do not wait for earlier ones.
DueInAnyOrder(k) == rows[k].state \in {"pending", "retryable"}

\* The retry time may have been reached by now.
Due(k) ==
    /\ rows[k].state \in {"pending", "retryable"}
    /\ \A o \in DOMAIN rows :
           o.event = k.event /\ o.part < k.part => rows[o].state = "accepted"

\* What the run may send next: everything is prepared, the batch is not full.
Selected(k) ==
    /\ run.mode = "ready" /\ run.batch = {} /\ run.sent < BatchSize
    /\ Due(k)

\* Slip: an attempt only counts when it was answered.
ClaimUncounted(k) ==
    /\ Selected(k)
    /\ rows[k].attempts < MaxAttempts
    /\ rows' = [rows EXCEPT ![k].state = "sending"]
    /\ run' = [run EXCEPT !.mode = "request", !.row = k]
    /\ UNCHANGED <<environment, took, cursor>>

Claim(k) ==
    /\ Selected(k)
    /\ rows[k].attempts < MaxAttempts
    /\ rows' = [rows EXCEPT ![k].state = "sending", ![k].attempts = @ + 1]
    /\ run' = [run EXCEPT !.mode = "request", !.row = k]
    /\ UNCHANGED <<environment, took, cursor>>

\* A part whose last attempt was interrupted.
GiveUp(k) ==
    /\ Selected(k)
    /\ rows[k].attempts >= MaxAttempts
    /\ rows' = [rows EXCEPT ![k].state = "ambiguous"]
    /\ UNCHANGED <<environment, took, cursor, run>>

\* Slip: a timeout status of the provider counts as its rejection.
UncertainAsRejection == IF matrix THEN "retryable" ELSE "permanent"

\* An exchange after which nobody knows.
Uncertain == IF matrix THEN "retryable" ELSE "ambiguous"

Taken(k) == took' = took \cup {<<k, IF matrix THEN run.token ELSE rows[k].attempts>>}

Outcome(k, o) ==
    IF o = "retryable" /\ rows[k].attempts >= MaxAttempts
    THEN IF matrix THEN "ambiguous" ELSE "permanent"
    ELSE o

Finish(o) ==
    /\ rows' = [rows EXCEPT ![run.row].state = Outcome(run.row, o)]
    /\ run' = [run EXCEPT !.mode = "ready", !.sent = @ + 1, !.row = NoKey]
    /\ UNCHANGED <<environment, cursor>>

SendTaken ==
    /\ run.mode = "request"
    /\ Taken(run.row)
    /\ \E o \in {"accepted", Uncertain} : Finish(o)

\* Not transmitted, too many requests, rejected, or uncertain.
SendNotTaken ==
    /\ run.mode = "request"
    /\ \E o \in {"retryable", "permanent", Uncertain} : Finish(o)
    /\ UNCHANGED took

\* The process dies after the provider took the text.
SendInterrupted ==
    /\ run.mode = "request"
    /\ Taken(run.row)
    /\ run' = Idle
    /\ UNCHANGED <<environment, rows, cursor>>

\* Nothing is due, the batch is full, the budget is over; a text is too long or
\* Core cannot be read, and nothing is sent; or the process dies.
End ==
    /\ run.mode # "off"
    /\ run' = Idle
    /\ UNCHANGED <<environment, took, rows, cursor>>

Next ==
    \/ \E n \in 1..2 : Record(n)
    \/ \E n \in 0..MaxEvents : Restore(n) \/ Retain(n)
    \/ Rotate
    \/ \E t \in 1..token : Begin(t)
    \/ Read
    \/ \E e \in run.batch, n \in 1..MaxParts : Prepare(e, n)
    \/ \E k \in DOMAIN rows : Claim(k) \/ GiveUp(k)
    \/ SendTaken
    \/ SendNotTaken
    \/ SendInterrupted
    \/ End

\* The scheduler starts runs, and however many of them end early, now and then
\* one gets to its next step: Core can be read and texts fit into max_parts.
Fairness ==
    /\ WF_vars(\E t \in 1..token : Begin(t))
    /\ SF_vars(Read)
    /\ SF_vars(\E e \in run.batch, n \in 1..MaxParts : Prepare(e, n))
    /\ SF_vars(\E k \in DOMAIN rows : Claim(k) \/ GiveUp(k))
    /\ WF_vars(End)

Spec == Init /\ [][Next]_vars /\ Fairness
-----------------------------------------------------------------------------
(* Properties. *)

\* Every variable has its type; attempts stay below the cap.
TypeOK ==
    /\ matrix \in BOOLEAN /\ core \subseteq Events /\ token \in 1..(MaxChanges + 1)
    /\ DOMAIN rows \subseteq Keys
    /\ \A k \in DOMAIN rows :
           rows[k] \in [state : {"pending", "sending", "accepted", "retryable", "permanent",
                                 "ambiguous"},
                        attempts : 0..MaxAttempts, scope : 1..(MaxChanges + 1), of : 1..MaxParts]
    /\ cursor \in Events \cup {NoCursor}
    /\ run.mode \in {"off", "read", "ready", "request"}
    /\ run.batch \subseteq Events
    /\ run.row \in DOMAIN rows \cup {NoKey}

\* What people see of a part: Matrix shows a transaction of a device once.
Copies(k) == Cardinality({x \in took : x[1] = k})

\* No part is seen twice, whatever process dies and whenever the credential
\* changes (docs/NOTIFICATION_EXTENSIONS.md, Delivery state and retries).
AtMostOnce == \A k \in DOMAIN rows : Copies(k) <= 1

\* A part is only sent after the provider accepted every earlier part.
PartsInOrder ==
    \A k, o \in DOMAIN rows :
        Copies(k) > 0 /\ o.event = k.event /\ o.part < k.part => rows[o].state = "accepted"

\* An event of Core is prepared or will be read, also when Core was restored
\* from a backup and gave the numbers of lost events again.
NothingSkipped ==
    \A e \in core : [event |-> e, part |-> 1] \in DOMAIN rows \/ e \in Unread

\* The ledger does not lie about what is certain.  (For Matrix, "permanent" says
\* nothing about earlier attempts, whose answers may have been lost.)
LedgerIsTrue ==
    \A k \in DOMAIN rows :
        /\ rows[k].state = "accepted" => Copies(k) = 1
        /\ rows[k].state = "pending" => Copies(k) = 0
        /\ ~matrix /\ rows[k].state \in {"retryable", "permanent"} => Copies(k) = 0

\* The types, the order of parts, events that are not skipped and a ledger that is true.
LedgerInv == TypeOK /\ PartsInOrder /\ NothingSkipped /\ LedgerIsTrue

Settled(e) ==
    LET parts == {k \in DOMAIN rows : k.event = e}
    IN  /\ parts # {}
        /\ \/ \A k \in parts : rows[k].state = "accepted"
           \/ \E k \in parts : rows[k].state \in {"permanent", "ambiguous"}

\* Every event that Core keeps is settled, given that its text fits into
\* max_parts and Core can be read, now and then.
EventuallySettled ==
    <>[](\A e \in core : Settled(e))

\* The parts of an event belong to one text: it is frozen when it is prepared
\* (docs/NOTIFICATION_EXTENSIONS.md, "Prepared text is frozen before transmission").
OneText ==
    \A k, o \in DOMAIN rows : k.event = o.event => rows[k].of = rows[o].of
=============================================================================
