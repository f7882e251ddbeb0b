------------------------------ MODULE Delivery ------------------------------
(***************************************************************************)
(* The alert outbox of watch mode: the rows of table watch_delivery for    *)
(* one channel, the transactions of WatchStore that move them, and the     *)
(* delivery runs (deliver_pending) that claim rows, send messages and      *)
(* settle the outcome.  Several runs may be active, stall between any two  *)
(* transactions, and die at any point.                                     *)
(*                                                                         *)
(* Granularity: one action per database transaction and one per attempt    *)
(* to send one message part, because those are the points at which another *)
(* run, a crash or the provider can intervene.                             *)
(***************************************************************************)
EXTENDS Integers, FiniteSets

CONSTANTS
    Runs,          \* identities of delivery runs
    NoRun,         \* the absence of a claim stamp
    NumEvents,     \* number of events ever queued
    Initial,       \* events of the first evaluation (watch_event.initial = 1)
    Notices,       \* report and withdrawal notices (NOTICE_KINDS)
    Cve,           \* the CVE of each event
    Webhook,       \* the channel is a JSON webhook: initial rows go in chunks
    ChunkLimit,    \* INITIAL_WEBHOOK_CHUNK
    MaxAttempts,   \* DELIVERY_MAX_ATTEMPTS
    AuthAttempts,  \* AUTH_MAX_ATTEMPTS
    MaxMessages,   \* MAX_MESSAGES_PER_CHANNEL
    MaxParts,      \* largest number of parts of one message
    Serialised,    \* the callers hold the operation lock around a run
    MaxRetries,    \* bound: runs started with an operator's retry flag
    MaxFaults      \* bound: crashes and budget expiries

Events == 1..NumEvents

ASSUME RunsAssumption == NoRun \notin Runs
ASSUME EventsAssumption ==
    /\ NumEvents \in Nat
    /\ Initial \subseteq Events
    /\ Notices \subseteq Events \ Initial
    /\ DOMAIN Cve = Events
ASSUME LimitsAssumption ==
    /\ MaxAttempts \in Nat \ {0}
    /\ AuthAttempts \in 1..MaxAttempts
    /\ MaxMessages \in Nat \ {0}
    /\ MaxParts \in 1..MaxMessages
    /\ ChunkLimit \in Nat \ {0}
    /\ MaxRetries \in Nat
    /\ MaxFaults \in Nat
    /\ Webhook \in BOOLEAN
    /\ Serialised \in BOOLEAN

VARIABLES
    row,       \* row[e]: the delivery row of event e
    run,       \* run[r]: the local state of run r
    auto,      \* auto[e]: copies the provider took from automatic attempts
    redone,    \* redone[e]: copies it took from operator retries of ambiguous rows
    doubted,   \* events whose row was ambiguous at some time
    gaveUp,    \* events whose row reached the attempt cap at some time
    retries,   \* runs started with a retry flag
    faults     \* crashes and expiries so far

vars == <<row, run, auto, redone, doubted, gaveUp, retries, faults>>
copies == <<auto, redone>>
history == <<doubted, gaveUp>>
budget == <<retries, faults>>

Statuses == {"absent", "pending", "sending", "sent", "failed", "ambiguous"}
Phases == {"idle", "reset", "initial", "select", "build", "next", "send", "mark"}
Verdicts == {"none", "sent", "failed", "ambiguous", "expired"}

\* updated_at is kept as "aged" (old enough for the backoff of a failed row,
\* or for the recovery of a sending one) and "stamp" (the run whose start time
\* it equals, which is how the initial rows of a claim are found again).
\* doubt is last_error = _INITIAL_AMBIGUOUS.
Row == [status : Statuses, attempts : Nat, aged : BOOLEAN,
        stamp : Runs \cup {NoRun}, doubt : BOOLEAN]

NewRow == [status |-> "absent", attempts |-> 0, aged |-> FALSE,
           stamp |-> NoRun, doubt |-> FALSE]

\* only = {} stands for a run without selected events.
Run == [pc : Phases, retry : BOOLEAN, only : SUBSET Events, late : BOOLEAN,
        msgs : Nat, todo : SUBSET Events, batch : SUBSET Events,
        group : SUBSET Events, amb : SUBSET Events, initial : BOOLEAN,
        parts : Nat, delivered : Nat, verdict : Verdicts, auth : BOOLEAN]

IdleRun == [pc |-> "idle", retry |-> FALSE, only |-> {}, late |-> FALSE,
            msgs |-> 0, todo |-> {}, batch |-> {}, group |-> {}, amb |-> {},
            initial |-> FALSE, parts |-> 0, delivered |-> 0,
            verdict |-> "none", auth |-> FALSE]

Init ==
    /\ row = [e \in Events |-> NewRow]
    /\ run = [r \in Runs |-> IdleRun]
    /\ auto = [e \in Events |-> 0]
    /\ redone = [e \in Events |-> 0]
    /\ doubted = {}
    /\ gaveUp = {}
    /\ retries = 0
    /\ faults = 0
-----------------------------------------------------------------------------
(* The store: each operator is the effect of one statement on all the rows. *)

GivenUp(x) == x.status = "failed" /\ x.attempts >= MaxAttempts

\* Commit a transaction; the history variables follow from the new rows.
Commit(rows) ==
    /\ row' = rows
    /\ doubted' = doubted \cup {e \in Events : rows[e].status = "ambiguous"}
    /\ gaveUp' = gaveUp \cup {e \in Events : GivenUp(rows[e])}

\* Slip: a late failure may overwrite any status.
PredecessorsAny(status) == {"pending", "sending", "sent", "failed", "ambiguous"}

\* DELIVERY_PREDECESSORS: the statuses mark_delivery may leave for each one.
Predecessors(status) ==
    CASE status = "sent" -> {"pending", "sending", "failed", "ambiguous"}
      [] status = "failed" -> {"pending", "sending", "failed"}
      [] status = "ambiguous" -> {"pending", "sending", "failed", "ambiguous"}

\* Slip: the cap is only looked at when the attempt is settled.
RetryableForEver(x, retry) ==
    \/ x.status = "pending"
    \/ x.status = "failed" /\ x.aged
    \/ x.status = "ambiguous" /\ retry

\* A row a run may select: with its backoff elapsed when it failed, and only
\* on the operator's demand when it is ambiguous.
Retryable(x, retry) ==
    \/ x.status = "pending"
    \/ x.status = "failed" /\ x.attempts < MaxAttempts /\ x.aged
    \/ x.status = "ambiguous" /\ retry

\* Slip: a row left sending by a dead run is queued again.
RecoverSendingToPending ==
    [e \in Events |->
        IF row[e].status = "sending" /\ row[e].aged
        THEN [row[e] EXCEPT !.status = "pending", !.aged = FALSE,
                            !.stamp = NoRun, !.doubt = FALSE]
        ELSE row[e]]

RecoverSending ==
    [e \in Events |->
        IF row[e].status = "sending" /\ row[e].aged
        THEN [row[e] EXCEPT !.status = "ambiguous", !.aged = FALSE,
                            !.stamp = NoRun, !.doubt = FALSE]
        ELSE row[e]]

\* Slip: the UPDATE of the claim does not look at the status it replaces.
ClaimStatusesAny(doubtful) ==
    IF doubtful THEN {"ambiguous", "sending"} ELSE {"pending", "failed", "sending"}

ClaimStatuses(doubtful) ==
    IF doubtful THEN {"ambiguous"} ELSE {"pending", "failed"}

\* All rows of the group or none: a partial claim is rolled back.
CanClaim(group, doubtful) ==
    \A e \in group : row[e].status \in ClaimStatuses(doubtful)

\* Slip: a notice that another run is sending counts as resolved.
NoticeBlockedUnlessSending(e) ==
    \E p \in Notices :
        /\ p < e
        /\ Cve[p] = Cve[e]
        /\ \/ row[p].status \in {"pending", "ambiguous"}
           \/ row[p].status = "failed" /\ row[p].attempts < MaxAttempts

\* Slip: a notice that was given up blocks the later ones for ever.
NoticeBlockedForEver(e) ==
    \E p \in Notices :
        /\ p < e
        /\ Cve[p] = Cve[e]
        /\ row[p].status \in {"pending", "sending", "ambiguous", "failed"}

\* An earlier notice for the same CVE is still unresolved on this channel.
NoticeBlocked(e) ==
    \E p \in Notices :
        /\ p < e
        /\ Cve[p] = Cve[e]
        /\ \/ row[p].status \in {"pending", "sending", "ambiguous"}
           \/ row[p].status = "failed" /\ row[p].attempts < MaxAttempts

Claimed(group) ==
    [e \in Events |->
        IF e \in group
        THEN [row[e] EXCEPT !.status = "sending", !.aged = FALSE]
        ELSE row[e]]

\* Initial rows carry the claiming run's stamp and remember prior ambiguity.
ClaimedInitial(group, r) ==
    [e \in Events |->
        IF e \in group
        THEN [row[e] EXCEPT !.status = "sending", !.aged = FALSE, !.stamp = r,
                            !.doubt = (row[e].status = "ambiguous")]
        ELSE row[e]]

Attempted(n, auth) ==
    IF auth /\ n + 1 >= AuthAttempts THEN MaxAttempts ELSE n + 1

Settled(x, status, auth) ==
    [x EXCEPT !.status = status, !.aged = FALSE, !.stamp = NoRun, !.doubt = FALSE,
              !.attempts = IF status = "sent" THEN @ ELSE Attempted(@, auth)]

\* mark_delivery looks at the status of the row, not at who claimed it.
Marked(group, status, auth) ==
    [e \in Events |->
        IF e \in group /\ row[e].status \in Predecessors(status)
        THEN Settled(row[e], status, auth)
        ELSE row[e]]

\* release_delivery undoes a claim without counting an attempt.
Released(group, status) ==
    [e \in Events |->
        IF e \in group /\ row[e].status = "sending"
        THEN [row[e] EXCEPT !.status = status, !.aged = FALSE]
        ELSE row[e]]

\* The initial rows run r claimed and still owns.
Stamped(r) ==
    {e \in Initial : row[e].status = "sending" /\ row[e].stamp = r}

\* mark_initial_sent, mark_initial_failed and release_initial.
MarkedInitial(r, verdict, auth) ==
    [e \in Events |->
        IF e \notin Stamped(r) THEN row[e]
        ELSE IF verdict = "sent" THEN Settled(row[e], "sent", auth)
        ELSE IF verdict = "expired"
             THEN [row[e] EXCEPT !.status = IF row[e].doubt THEN "ambiguous" ELSE "pending",
                                 !.aged = FALSE, !.stamp = NoRun, !.doubt = FALSE]
        ELSE Settled(row[e], IF verdict = "ambiguous" \/ row[e].doubt
                             THEN "ambiguous" ELSE "failed", auth)]
-----------------------------------------------------------------------------
(* Work arriving and runs starting. *)

\* The local state of run r becomes x; the other runs do not move.
Becomes(r, x) == run' = [run EXCEPT ![r] = x]

Finish(r) == Becomes(r, IdleRun)

\* The callers that queue events and start runs hold the operation lock.
LockFree == Serialised => \A r \in Runs : run[r].pc = "idle"

\* An evaluation or a report inserts a later event with a pending row; an event
\* that does not go to this channel has none.
Enqueue(e) ==
    /\ LockFree
    /\ row[e].status = "absent"
    /\ \A d \in Events : d > e => row[d].status = "absent"
    /\ Commit([row EXCEPT ![e].status = "pending"])
    /\ UNCHANGED <<run, copies, budget>>

\* deliver_pending up to recover_sending, its first transaction.
Begin(r, only, retryAmbiguous, retryFailed) ==
    /\ run[r].pc = "idle"
    /\ LockFree
    /\ Commit(RecoverSending)
    /\ Becomes(r, [IdleRun EXCEPT !.pc = IF retryFailed THEN "reset" ELSE "initial",
                                  !.retry = retryAmbiguous, !.only = only])
    /\ UNCHANGED <<copies, faults>>

\* The scheduled run, and the run of watch report for its own notice.
Start(r) ==
    /\ UNCHANGED retries
    /\ \E only \in {{}} \cup {{e} : e \in Notices} : Begin(r, only, FALSE, FALSE)

ScheduledStart(r) == UNCHANGED retries /\ Begin(r, {}, FALSE, FALSE)

\* watch notify --retry-ambiguous, --retry-failed, or both.
OperatorStart(r) ==
    /\ retries < MaxRetries
    /\ retries' = retries + 1
    /\ \E ambiguous, failed \in BOOLEAN :
            (ambiguous \/ failed) /\ Begin(r, {}, ambiguous, failed)

ResetFailed(r) ==
    /\ run[r].pc = "reset"
    /\ Commit([e \in Events |->
                 IF row[e].status = "failed"
                 THEN [row[e] EXCEPT !.attempts = 0, !.aged = TRUE]
                 ELSE row[e]])
    /\ Becomes(r, [run[r] EXCEPT !.pc = "initial"])
    /\ UNCHANGED <<copies, budget>>

-----------------------------------------------------------------------------
(* The initial backlog: one digest over every row, or webhook chunks. *)

DueInitial(r) == {e \in Initial : Retryable(row[e], run[r].retry)}

InitialDone(r) ==
    \/ run[r].only # {}
    \/ run[r].late
    \/ DueInitial(r) = {}
    \/ Webhook /\ run[r].msgs >= MaxMessages

SkipInitial(r) ==
    /\ run[r].pc = "initial"
    /\ InitialDone(r)
    /\ Becomes(r, [run[r] EXCEPT !.pc = "select"])
    /\ UNCHANGED <<row, copies, history, budget>>

\* The rows one claim covers: all of them, or the oldest ChunkLimit of them.
InitialGroup(r) ==
    LET due == DueInitial(r)
    IN IF Webhook
       THEN {e \in due : Cardinality({d \in due : d < e}) < ChunkLimit}
       ELSE due

ClaimInitial(r) ==
    /\ run[r].pc = "initial"
    /\ ~InitialDone(r)
    /\ LET group == InitialGroup(r) IN
         /\ Commit(ClaimedInitial(group, r))
         /\ \E parts \in IF Webhook THEN {1} ELSE 1..MaxParts :
              Becomes(r, [run[r] EXCEPT
                             !.pc = "send", !.initial = TRUE, !.group = group,
                             !.amb = {e \in group : row[e].status = "ambiguous"},
                             !.parts = parts, !.delivered = 0])
    /\ UNCHANGED <<copies, budget>>

\* The digest cannot be rendered within the limits of the channel.
InitialTooLarge(r) ==
    /\ run[r].pc = "send"
    /\ run[r].initial
    /\ ~Webhook
    /\ run[r].delivered = 0
    /\ Becomes(r, [run[r] EXCEPT !.pc = "mark", !.verdict = "failed"])
    /\ UNCHANGED <<row, copies, history, budget>>
-----------------------------------------------------------------------------
(* The normal phase: a snapshot, batches, groups of parts. *)

SelectEvents(r) ==
    /\ run[r].pc = "select"
    /\ ~run[r].late
    /\ LET due == {e \in Events \ Initial :
                      /\ Retryable(row[e], run[r].retry)
                      /\ run[r].only = {} \/ e \in run[r].only}
       IN Becomes(r, [run[r] EXCEPT
                         !.pc = "build", !.initial = FALSE, !.todo = due,
                         !.amb = {e \in due : row[e].status = "ambiguous"}])
    /\ UNCHANGED <<row, copies, history, budget>>

\* Notices first, then the alerts under an ambiguous retry, then the others.
NextBatch(r) ==
    LET notices == run[r].todo \cap Notices
        doubtful == (run[r].todo \cap run[r].amb) \ Notices
    IN IF notices # {} THEN notices
       ELSE IF doubtful # {} THEN doubtful
       ELSE run[r].todo

BuildMessages(r) ==
    /\ run[r].pc = "build"
    /\ run[r].todo # {}
    /\ Becomes(r, [run[r] EXCEPT !.pc = "next", !.batch = NextBatch(r),
                                 !.todo = @ \ NextBatch(r)])
    /\ UNCHANGED <<row, copies, history, budget>>

\* The batch does not fit the channel: claim it, fail it without sending.
BuildTooLarge(r) ==
    /\ run[r].pc = "build"
    /\ run[r].todo # {}
    /\ LET batch == NextBatch(r)
           doubtful == batch \subseteq run[r].amb
       IN IF CanClaim(batch, doubtful)
          THEN /\ Commit(Claimed(batch))
               /\ Becomes(r, [run[r] EXCEPT !.pc = "mark", !.verdict = "failed",
                                            !.group = batch, !.delivered = 0])
          ELSE Finish(r) /\ UNCHANGED <<row, history>>
    /\ UNCHANGED <<copies, budget>>

\* One notice is one message; alerts are grouped as the formatting needs.
Groups(batch) ==
    IF batch \subseteq Notices
    THEN {{e} : e \in {e \in batch : \A d \in batch : e <= d}}
    ELSE SUBSET batch \ {{}}

ClaimGroup(r) ==
    /\ run[r].pc = "next"
    /\ run[r].batch # {}
    /\ ~run[r].late
    /\ run[r].msgs < MaxMessages
    /\ \E group \in Groups(run[r].batch), parts \in 1..(MaxMessages - run[r].msgs) :
         /\ parts <= MaxParts
         /\ LET free == /\ CanClaim(group, group \subseteq run[r].amb)
                        /\ \A e \in group \cap Notices : ~NoticeBlocked(e)
            IN IF free
               THEN /\ Commit(Claimed(group))
                    /\ Becomes(r, [run[r] EXCEPT !.pc = "send", !.group = group,
                                                 !.parts = parts, !.delivered = 0,
                                                 !.batch = @ \ group])
               ELSE /\ Becomes(r, [run[r] EXCEPT !.batch = @ \ group])
                    /\ UNCHANGED <<row, history>>
    /\ UNCHANGED <<copies, budget>>

\* No group is left, the time is over, or the next group has more parts than
\* the run may still send: go on with the next batch.
LeaveBatch(r) ==
    /\ run[r].pc = "next"
    /\ \/ run[r].batch = {}
       \/ /\ run[r].msgs < MaxMessages
          /\ run[r].late \/ run[r].msgs + MaxParts > MaxMessages
    /\ Becomes(r, [run[r] EXCEPT !.pc = "build", !.batch = {}])
    /\ UNCHANGED <<row, copies, history, budget>>

\* The run ends: nothing left, out of time, out of messages, or the pause the
\* channel asks for between messages does not fit any more.
EndRun(r) ==
    /\ \/ run[r].pc = "select" /\ run[r].late
       \/ run[r].pc = "build" /\ run[r].todo = {}
       \/ run[r].pc = "next" /\ run[r].batch # {} /\ run[r].msgs > 0
       \/ run[r].pc = "initial" /\ Webhook /\ run[r].msgs > 0
    /\ Finish(r)
    /\ UNCHANGED <<row, copies, history, budget>>
-----------------------------------------------------------------------------
(* One attempt to send one part, and what the provider did with it. *)

\* The provider has a copy of the group once it takes the first part.
Reaches(r) ==
    IF run[r].delivered > 0
    THEN UNCHANGED copies
    ELSE /\ auto' = [e \in Events |->
                        IF e \in run[r].group \ run[r].amb THEN auto[e] + 1 ELSE auto[e]]
         /\ redone' = [e \in Events |->
                        IF e \in run[r].group \cap run[r].amb THEN redone[e] + 1 ELSE redone[e]]

\* Slip: a connection that broke after the request counts as delivered.
OutcomeHopeful(r, verdict, auth) ==
    Becomes(r, [run[r] EXCEPT !.pc = "mark", !.auth = auth,
                              !.verdict = IF verdict = "ambiguous" THEN "sent" ELSE verdict])

Outcome(r, verdict, auth) ==
    Becomes(r, [run[r] EXCEPT !.pc = "mark", !.verdict = verdict, !.auth = auth])

SendConfirmed(r) ==
    /\ run[r].pc = "send"
    /\ ~run[r].late
    /\ Reaches(r)
    /\ LET last == run[r].delivered + 1 = run[r].parts
       IN Becomes(r, [run[r] EXCEPT
                         !.delivered = @ + 1, !.msgs = @ + 1,
                         !.pc = IF last THEN "mark" ELSE "send",
                         !.verdict = IF last THEN "sent" ELSE "none",
                         !.auth = FALSE])
    /\ UNCHANGED <<row, history, budget>>

\* Slip: an answer that cannot be read is a definite failure.
SendUnconfirmedAsFailed(r) ==
    /\ run[r].pc = "send"
    /\ ~run[r].late
    /\ Reaches(r)
    /\ Outcome(r, "failed", FALSE)
    /\ UNCHANGED <<row, history, budget>>

\* The provider took the part but the answer was lost or unreadable.
SendUnconfirmed(r) ==
    /\ run[r].pc = "send"
    /\ ~run[r].late
    /\ Reaches(r)
    /\ Outcome(r, "ambiguous", FALSE)
    /\ UNCHANGED <<row, history, budget>>

\* The connection broke after the request left: the part did not arrive.
SendInterrupted(r) ==
    /\ run[r].pc = "send"
    /\ ~run[r].late
    /\ Outcome(r, "ambiguous", FALSE)
    /\ UNCHANGED <<row, copies, history, budget>>

\* A definite refusal, before any part arrived or after some did.
SendRefused(r, auth) ==
    /\ run[r].pc = "send"
    /\ ~run[r].late
    /\ Outcome(r, IF run[r].delivered > 0 THEN "ambiguous" ELSE "failed", auth)
    /\ UNCHANGED <<row, copies, history, budget>>

\* Slip: the whole message is handed back, the parts that went out included.
SendTooLateReleased(r) ==
    /\ run[r].pc = "send"
    /\ run[r].late \/ run[r].delivered > 0
    /\ Outcome(r, "expired", FALSE)
    /\ UNCHANGED <<row, copies, history, budget>>

\* The time ran out between the claim and the send, or between two parts.
SendTooLate(r) ==
    /\ run[r].pc = "send"
    /\ run[r].late \/ run[r].delivered > 0
    /\ Outcome(r, IF run[r].delivered > 0 THEN "ambiguous" ELSE "expired", FALSE)
    /\ UNCHANGED <<row, copies, history, budget>>
-----------------------------------------------------------------------------
(* Settling the rows of the group. *)

AfterMark(r) ==
    IF run[r].verdict = "sent"
    THEN Becomes(r, [run[r] EXCEPT
                        !.pc = IF ~run[r].initial THEN "next"
                               ELSE IF Webhook THEN "initial" ELSE "select",
                        !.group = {}, !.verdict = "none", !.parts = 0, !.delivered = 0])
    ELSE Finish(r)

MarkInitial(r) ==
    /\ run[r].pc = "mark"
    /\ run[r].initial
    /\ Commit(MarkedInitial(r, run[r].verdict, run[r].auth))
    /\ AfterMark(r)
    /\ UNCHANGED <<copies, budget>>

\* Slip: the status follows the verdict alone.
MarkDeliveryForgetful(r) ==
    /\ run[r].pc = "mark"
    /\ ~run[r].initial
    /\ Commit(IF run[r].verdict = "expired"
              THEN Released(run[r].group, "pending")
              ELSE Marked(run[r].group, run[r].verdict, run[r].auth))
    /\ AfterMark(r)
    /\ UNCHANGED <<copies, budget>>

\* A row that was ambiguous before the attempt stays so after a refusal.
MarkDelivery(r) ==
    /\ run[r].pc = "mark"
    /\ ~run[r].initial
    /\ LET group == run[r].group
           verdict == run[r].verdict
           doubtful == verdict = "ambiguous" \/ group \cap run[r].amb # {}
           status == IF verdict = "sent" THEN "sent"
                     ELSE IF doubtful THEN "ambiguous" ELSE "failed"
       IN Commit(IF verdict = "expired"
                 THEN Released(group, IF group \subseteq run[r].amb
                                      THEN "ambiguous" ELSE "pending")
                 ELSE Marked(group, status, run[r].auth))
    /\ AfterMark(r)
    /\ UNCHANGED <<copies, budget>>
-----------------------------------------------------------------------------
(* The environment. *)

\* The process dies: its local state is gone and its stamp is never reused.
Crash(r) ==
    /\ run[r].pc # "idle"
    /\ faults < MaxFaults
    /\ faults' = faults + 1
    /\ Finish(r)
    /\ row' = [e \in Events |->
                 IF row[e].stamp = r THEN [row[e] EXCEPT !.stamp = NoRun] ELSE row[e]]
    /\ UNCHANGED <<copies, history, retries>>

\* The delivery budget of the run is over.
Expire(r) ==
    /\ run[r].pc # "idle"
    /\ ~run[r].late
    /\ faults < MaxFaults
    /\ faults' = faults + 1
    /\ Becomes(r, [run[r] EXCEPT !.late = TRUE])
    /\ UNCHANGED <<row, copies, history, retries>>

\* A row becomes old: the backoff of a failed one elapses, or a sending one
\* has been left alone for longer than DELIVERY_RECOVERY_SECONDS.
TimePasses(e) ==
    /\ row[e].status \in {"sending", "failed"}
    /\ ~row[e].aged
    /\ row' = [row EXCEPT ![e].aged = TRUE]
    /\ UNCHANGED <<run, copies, history, budget>>

Work(r) ==
    \/ ResetFailed(r)
    \/ SkipInitial(r)
    \/ ClaimInitial(r)
    \/ InitialTooLarge(r)
    \/ SelectEvents(r)
    \/ BuildMessages(r)
    \/ BuildTooLarge(r)
    \/ ClaimGroup(r)
    \/ LeaveBatch(r)
    \/ EndRun(r)
    \/ SendConfirmed(r)
    \/ SendUnconfirmed(r)
    \/ SendInterrupted(r)
    \/ \E auth \in BOOLEAN : SendRefused(r, auth)
    \/ SendTooLate(r)
    \/ MarkInitial(r)
    \/ MarkDelivery(r)

Next ==
    \/ \E e \in Events : Enqueue(e) \/ TimePasses(e)
    \/ \E r \in Runs :
          \/ Start(r)
          \/ OperatorStart(r)
          \/ Work(r)
          \/ Crash(r)
          \/ Expire(r)

Spec == Init /\ [][Next]_vars

\* A started run goes on; time passes; the schedule gets a run through, since
\* it is tried again whenever the lock was taken.  Nothing obliges an operator
\* to act, an event to arrive or a fault to happen.
Fairness ==
    /\ \A r \in Runs : WF_vars(Work(r))
    /\ \A e \in Events : WF_vars(TimePasses(e))
    /\ SF_vars(\E r \in Runs : ScheduledStart(r))

FairSpec == Spec /\ Fairness
-----------------------------------------------------------------------------
(* Properties. *)

\* Every variable has its type (watch_delivery's CHECK constraint, and the
\* local variables of deliver_pending).
TypeOK ==
    /\ row \in [Events -> Row]
    /\ run \in [Runs -> Run]
    /\ auto \in [Events -> Nat]
    /\ redone \in [Events -> Nat]
    /\ doubted \subseteq Events
    /\ gaveUp \subseteq Events
    /\ retries \in Nat
    /\ faults \in Nat

\* However runs overlap, stall or die, the provider never takes two copies of
\* an event from automatic attempts: the conditional claims of claim_delivery,
\* claim_notice and claim_initial_* leave at most one run that may still send,
\* and recover_sending never hands a row back for an automatic retry.
AtMostOnce == \A e \in Events : auto[e] <= 1

\* A row is only recorded as sent when the provider took every part of it, and
\* a copy can only exist in excess of the automatic one when an operator asked
\* for it (watch notify --retry-ambiguous).
SentWasAccepted ==
    \A e \in Events : row[e].status = "sent" => auto[e] + redone[e] > 0

\* A row that is offered for an automatic (re)try was never accepted by the
\* provider: neither a crash, a timeout, a partial message nor a failed retry
\* of an ambiguous row may put it back among the rows sent without asking.
OwedWasNotAccepted ==
    \A e \in Events :
        row[e].status \in {"pending", "failed"} => auto[e] + redone[e] = 0

\* Notices for one CVE reach the channel in audit order: a notice is only out
\* when each earlier one for the same CVE is out as well or was given up.
NoticeOrder ==
    \A e \in Notices : auto[e] + redone[e] > 0 =>
        \A p \in Notices : p < e /\ Cve[p] = Cve[e] /\ row[p].status # "absent" =>
            auto[p] + redone[p] > 0 \/ p \in gaveUp

\* Automatic attempts stop at the cap: no row that can be retried without an
\* operator carries more attempts than DELIVERY_MAX_ATTEMPTS.
AttemptsCapped ==
    \A e \in Events :
        row[e].status \in {"pending", "failed"} => row[e].attempts <= MaxAttempts

\* What the rows say of the provider is true, and automatic attempts end: the types,
\* SentWasAccepted, OwedWasNotAccepted and AttemptsCapped together.
OutboxIsTrue == TypeOK /\ SentWasAccepted /\ OwedWasNotAccepted /\ AttemptsCapped

\* "sent" is final (mark_delivery's docstring), whatever a late run writes.
SentIsFinal ==
    [][\A e \in Events : row[e].status = "sent" => row'[e].status = "sent"]_vars

\* A row that was ambiguous once is never downgraded to a status from which it
\* is resent automatically; only an operator's retry may send it again.
DoubtIsKept ==
    [][\A e \in doubted : row'[e].status \notin {"pending", "failed"}]_vars

\* Nothing is lost or retried for ever: in the end every queued event is sent,
\* given up, ambiguous, or a notice that waits behind an ambiguous one.
Resolved(e) ==
    \/ row[e].status \in {"sent", "ambiguous"}
    \/ GivenUp(row[e])
    \/ e \in Notices /\ \E p \in Notices :
          p < e /\ Cve[p] = Cve[e] /\ row[p].status = "ambiguous"

EventuallyResolved ==
    \A e \in Events : <>[](row[e].status = "absent" \/ Resolved(e))
-----------------------------------------------------------------------------
(* The outbox implements its promise when the operation lock is held.      *)

\* A run with local state x holds event e of an automatic attempt that has not
\* gone out: only it can put the row back among those retried by themselves.
Fresh(x, e) ==
    /\ e \in x.group \ x.amb
    /\ \/ x.pc = "send" /\ x.delivered = 0
       \/ x.pc = "mark" /\ x.verdict \in {"failed", "expired"}

Promised(e) ==
    CASE row[e].status = "absent" -> "absent"
      [] row[e].status \in {"pending", "failed"} -> "owed"
      [] row[e].status = "sent" -> "done"
      [] row[e].status = "ambiguous" -> "unsure"
      [] row[e].status = "sending" ->
            IF \E r \in Runs : Fresh(run[r], e) THEN "owed" ELSE "unsure"

Promise == INSTANCE Outbox WITH
    state <- [e \in Events |-> Promised(e)],
    copies <- [e \in Events |-> auto[e] + redone[e]],
    asked <- retries

KeepsPromise == Promise!Spec
-----------------------------------------------------------------------------
(* Why AtMostOnce holds: the licence to send an event automatically is     *)
(* either with the row or with exactly one run, and is used up by a copy.  *)

Owed == {"absent", "pending", "failed"}

\* A claimed row is not offered, and its event has not gone out.
LicenceIsOut ==
    \A r \in Runs, e \in Events :
        Fresh(run[r], e) => auto[e] = 0 /\ row[e].status \notin Owed

LicenceIsUnique ==
    \A r, s \in Runs, e \in Events : Fresh(run[r], e) /\ Fresh(run[s], e) => r = s

OwedHasNoCopy == \A e \in Events : row[e].status \in Owed => auto[e] = 0

\* The stamp of an initial row names the live run that claimed it, and its
\* doubt is what that run knew of it.
Claiming(x) == x.pc \in {"send", "mark"}

Names(y, x, e) ==
    /\ e \in Initial
    /\ y.status = "sending"
    /\ Claiming(x)
    /\ x.initial
    /\ e \in x.group
    /\ y.doubt = (e \in x.amb)

StampNamesHolder ==
    \A e \in Events : row[e].stamp # NoRun => Names(row[e], run[row[e].stamp], e)

\* The local state of a run: the normal phase never touches initial rows, a
\* group that is sent does not mix ambiguous rows with others, and a run that
\* settles has an outcome.
Uniform(x, group) == group \subseteq x.amb \/ group \cap x.amb = {}

Consistent(x) ==
    /\ x.pc \in {"idle", "reset", "initial", "select"} \/ x.initial =>
          x.todo = {} /\ x.batch = {}
    /\ x.pc \in {"build", "next"} => ~x.initial
    /\ (x.todo \cup x.batch) \cap Initial = {}
    /\ x.batch \subseteq Notices \/ Uniform(x, x.batch)
    /\ Claiming(x) /\ ~x.initial => x.group \cap Initial = {}
    /\ Claiming(x) /\ ~x.initial /\ (x.pc = "send" \/ x.verdict = "expired") =>
          Uniform(x, x.group)
    /\ x.pc = "mark" => x.verdict # "none"

RunsAreConsistent == \A r \in Runs : Consistent(run[r])

\* The inductive invariant behind AtMostOnce.
LicenceInv ==
    /\ TypeOK
    /\ AtMostOnce
    /\ LicenceIsOut
    /\ LicenceIsUnique
    /\ OwedHasNoCopy
    /\ StampNamesHolder
    /\ RunsAreConsistent
=============================================================================
