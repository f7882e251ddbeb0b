--------------------------- MODULE DashboardJobs ---------------------------
(***************************************************************************)
(* Background jobs of the dashboard: the rows of dashboard_job, the queue  *)
(* and the worker thread of JobManager, the child command it supervises,   *)
(* the requests that submit and cancel jobs, an orderly shutdown, crashes  *)
(* and restarts, and the audit entry of each outcome, which lives in the   *)
(* account database and is retried while that is unavailable.              *)
(*                                                                         *)
(* Granularity: one action per critical section of _condition or, outside  *)
(* it, per transaction.  A cancellation holds _condition for all of its    *)
(* transactions while the worker goes on with those that do not need it.   *)
(***************************************************************************)
EXTENDS Integers, Sequences, FiniteSets, SequencesExt

CONSTANTS
    NumJobs,       \* number of jobs ever submitted
    MaxPending,    \* MAX_PENDING_JOBS
    MaxFaults      \* bound: crashes, storage failures and account outages

Jobs == 1..NumJobs

ASSUME BoundsAssumption ==
    /\ NumJobs \in Nat
    /\ MaxPending \in Nat \ {0}
    /\ MaxFaults \in Nat

VARIABLES
    row,        \* row[j]: the row of job j in dashboard_job
    queue,      \* _queue
    worker,     \* the worker thread: where it is, its job, what it has read
    child,      \* the command under supervision, or how it ended
    told,       \* _cancel_deadline is set: the child has been interrupted
    cancel,     \* the cancellation that holds _condition
    stop,       \* an orderly shutdown: its phase and the rows it still cancels
    up,         \* the dashboard process is alive
    auditor,    \* the holder of _audit_lock and the job it records
    trail,      \* trail[j][a]: entries of outcome a of job j in the audit log
    accounts,   \* the account database can be written
    faults

vars == <<row, queue, worker, child, told, cancel, stop, up, auditor, trail,
          accounts, faults>>
process == <<child, told>>
requests == <<cancel, stop, up>>
log == <<auditor, trail>>
environment == <<accounts, faults>>

Active == {"queued", "running"}
Terminal == {"succeeded", "failed", "cancelled"}
Outcomes == {"job_succeeded", "job_failed", "job_cancelled", "job_interrupted"}
Exits == {"ok", "error", "interrupt"}

Row == [status : {"none"} \cup Active \cup Terminal, cancel : BOOLEAN,
        pend : {"none"} \cup Outcomes]
NewRow == [status |-> "none", cancel |-> FALSE, pend |-> "none"]

Phases == {"off", "top", "audits", "pick", "claim", "spawn", "watch",
           "settle", "tell"}
Worker == [pc : Phases, job : {0} \cup Jobs, seen : BOOLEAN]
At(pc, j) == [pc |-> pc, job |-> j, seen |-> FALSE]
Top == At("top", 0)
Off == At("off", 0)

NoCancel == [pc |-> "idle", job |-> 0]
NoStop == [pc |-> "no", rows |-> {}]
NoAuditor == [by |-> "nobody", job |-> 0]

Init ==
    /\ row = [j \in Jobs |-> NewRow]
    /\ queue = <<>>
    /\ worker = Off
    /\ child = "none"
    /\ told = FALSE
    /\ cancel = NoCancel
    /\ stop = NoStop
    /\ up = TRUE
    /\ auditor = NoAuditor
    /\ trail = [j \in Jobs |-> [a \in Outcomes |-> 0]]
    /\ accounts = TRUE
    /\ faults = 0
-----------------------------------------------------------------------------
(* The store, one operator per UPDATE. *)

\* Nobody is inside a critical section of _condition.
LockFree == cancel.pc = "idle"

Stopping == stop.pc # "no"

Pending == {j \in Jobs : row[j].pend # "none"}

\* Slip: the outcome is stored, its audit entry is left to the caller.
FinishedUnmarked(j, status, action) ==
    [row EXCEPT ![j].status = status, ![j].pend = "none"]

\* finish: the outcome is stored whatever the row says by then.
Finished(j, status, action) ==
    [row EXCEPT ![j].status = status, ![j].pend = action]

Running(j) == [row EXCEPT ![j].status = "running"]

CancelledQueued(j) ==
    [row EXCEPT ![j].cancel = TRUE, ![j].status = "cancelled",
                ![j].pend = "job_cancelled"]

FailInterrupted ==
    [j \in Jobs |->
        IF row[j].status \in Active
        THEN [row[j] EXCEPT !.status = "failed", !.pend = "job_failed"]
        ELSE row[j]]
-----------------------------------------------------------------------------
(* Recording outcomes: _audit_finished, under _audit_lock. *)

\* Slip: outcomes are recorded without _audit_lock.
AuditRecordUnlocked(by, j, action) ==
    /\ accounts
    /\ row[j].pend = action
    /\ trail' = [trail EXCEPT ![j][action] = @ + 1]
    /\ auditor' = [by |-> by, job |-> j]
    /\ UNCHANGED row

\* The entry is appended to the account database first ...
AuditRecord(by, j, action) ==
    /\ auditor = NoAuditor
    /\ accounts
    /\ row[j].pend = action
    /\ trail' = [trail EXCEPT ![j][action] = @ + 1]
    /\ auditor' = [by |-> by, job |-> j]
    /\ UNCHANGED row

\* ... and the mark on the row is cleared afterwards, in another database.
AuditClear(by) ==
    /\ auditor.by = by
    /\ row' = [row EXCEPT ![auditor.job].pend = "none"]
    /\ auditor' = NoAuditor
    /\ UNCHANGED trail

\* The row asks for another entry or for none, or nothing can be recorded now.
AuditSkips(j, action) ==
    /\ auditor = NoAuditor
    /\ row[j].pend # action \/ ~accounts

\* retry_audits, for one of the rows it finds.
RetryAudit(by) ==
    \E j \in Pending : AuditRecord(by, j, row[j].pend)
-----------------------------------------------------------------------------
(* Requests. *)

NewJob(j) ==
    /\ up
    /\ LockFree
    /\ ~Stopping
    /\ row[j].status = "none"
    /\ \A i \in Jobs : i < j => row[i].status # "none"
    /\ Cardinality({i \in Jobs : row[i].status \in Active}) < MaxPending

\* submit: the job is stored, its start is audited, and the worker wakes up.
Submit(j) ==
    /\ NewJob(j)
    /\ accounts
    /\ row' = [row EXCEPT ![j].status = "queued"]
    /\ queue' = Append(queue, j)
    /\ worker' = IF worker = Off THEN Top ELSE worker
    /\ UNCHANGED <<process, requests, log, environment>>

\* The start cannot be audited: the row fails and the request is refused.
SubmitUnaudited(j) ==
    /\ NewJob(j)
    /\ ~accounts
    /\ row' = [row EXCEPT ![j].status = "failed", ![j].pend = "job_failed"]
    /\ UNCHANGED <<queue, worker, process, requests, log, environment>>

\* cancel, with _condition held from here on.
CancelBegin(j) ==
    /\ up
    /\ LockFree
    /\ row[j].status \in Active
    /\ accounts
    /\ cancel' = [pc |-> "try", job |-> j]
    /\ UNCHANGED <<row, queue, worker, process, stop, up, log, environment>>

\* The request cannot be audited: it is refused, but the child is stopped.
CancelUnaudited(j) ==
    /\ up
    /\ LockFree
    /\ row[j].status \in Active
    /\ ~accounts
    /\ worker.job = j
    /\ child = "alive"
    /\ child' \in Exits
    /\ UNCHANGED <<row, queue, worker, told, requests, log, environment>>

CancelQueued ==
    /\ cancel.pc = "try"
    /\ LET j == cancel.job
           queued == row[j].status = "queued"
       IN /\ row' = IF queued THEN CancelledQueued(j) ELSE row
          /\ queue' = IF queued THEN RemoveFirst(queue, j) ELSE queue
          /\ cancel' = [cancel EXCEPT !.pc = IF queued THEN "audit" ELSE "request"]
    /\ UNCHANGED <<worker, process, stop, up, log, environment>>

CancelAudit ==
    /\ cancel.pc = "audit"
    /\ \/ AuditRecord("cancel", cancel.job, "job_cancelled") /\ UNCHANGED cancel
       \/ AuditClear("cancel") /\ cancel' = NoCancel
       \/ /\ AuditSkips(cancel.job, "job_cancelled")
          /\ cancel' = NoCancel
          /\ UNCHANGED <<row, log>>
    /\ UNCHANGED <<queue, worker, process, stop, up, environment>>

\* request_cancel, and the interrupt for the child of this job.
CancelRequest ==
    /\ cancel.pc = "request"
    /\ row' = [row EXCEPT ![cancel.job].cancel = TRUE]
    /\ told' = (told \/ (worker.job = cancel.job /\ child = "alive"))
    /\ cancel' = NoCancel
    /\ UNCHANGED <<queue, worker, child, stop, up, log, environment>>
-----------------------------------------------------------------------------
(* The worker thread. *)

\* The head of the loop; a stopping manager ends it.
WorkerWakes ==
    /\ worker.pc = "top"
    /\ LockFree
    /\ worker' = IF Stopping THEN Off ELSE At("audits", 0)
    /\ UNCHANGED <<row, queue, process, requests, log, environment>>

\* retry_audits: the outcomes that could not be recorded before.
WorkerAudits ==
    /\ worker.pc = "audits"
    /\ \/ RetryAudit("worker") /\ UNCHANGED worker
       \/ AuditClear("worker") /\ UNCHANGED worker
       \/ /\ auditor = NoAuditor
          /\ Pending = {} \/ ~accounts
          /\ worker' = At("pick", 0)
          /\ UNCHANGED <<row, log>>
    /\ UNCHANGED <<queue, process, requests, environment>>

\* Slip: the thread ends as soon as the queue is empty.
WorkerPicksOrEnds ==
    /\ worker.pc = "pick"
    /\ LockFree
    /\ \/ queue = <<>> /\ worker' = Off /\ UNCHANGED queue
       \/ /\ queue # <<>>
          /\ queue' = Tail(queue)
          /\ worker' = IF row[Head(queue)].status = "queued"
                       THEN At("claim", Head(queue)) ELSE Top
    /\ UNCHANGED <<row, process, requests, log, environment>>

\* The oldest identifier leaves the queue; without one the thread ends, unless
\* outcomes are still to be recorded.
WorkerPicks ==
    /\ worker.pc = "pick"
    /\ LockFree
    /\ \/ /\ queue = <<>>
          /\ worker' = IF Pending = {} THEN Off ELSE Top
          /\ UNCHANGED queue
       \/ /\ queue # <<>>
          /\ queue' = Tail(queue)
          /\ worker' = IF row[Head(queue)].status = "queued"
                       THEN At("claim", Head(queue)) ELSE Top
    /\ UNCHANGED <<row, process, requests, log, environment>>

\* Another process holds the operation lock: the job fails without a child.
WorkerFindsBusy ==
    /\ worker.pc = "claim"
    /\ row' = Finished(worker.job, "failed", "job_failed")
    /\ worker' = At("tell", worker.job)
    /\ UNCHANGED <<queue, process, requests, log, environment>>

\* Slip: the UPDATE of mark_running does not ask for a queued row.
WorkerMarksAlways ==
    /\ worker.pc = "claim"
    /\ row' = Running(worker.job)
    /\ worker' = At("spawn", worker.job)
    /\ UNCHANGED <<queue, process, requests, log, environment>>

\* mark_running, which a cancellation of the queued row may have forestalled.
WorkerMarks ==
    /\ worker.pc = "claim"
    /\ LET queued == row[worker.job].status = "queued"
       IN /\ row' = IF queued THEN Running(worker.job) ELSE row
          /\ worker' = IF queued THEN At("spawn", worker.job) ELSE Top
    /\ UNCHANGED <<queue, process, requests, log, environment>>

WorkerSpawns ==
    /\ worker.pc = "spawn"
    /\ LockFree
    /\ worker' = IF Stopping THEN Top ELSE At("watch", worker.job)
    /\ child' = IF Stopping THEN child ELSE "alive"
    /\ UNCHANGED <<row, queue, told, requests, log, environment>>

\* The child cannot be started: the handler stores the failure.
WorkerCannotSpawn ==
    /\ worker.pc = "spawn"
    /\ LockFree
    /\ ~Stopping
    /\ row' = Finished(worker.job, "failed", "job_failed")
    /\ worker' = At("tell", worker.job)
    /\ UNCHANGED <<queue, process, requests, log, environment>>

\* Slip: the interrupt of a cancelled child is left to cancel.
WorkerInterruptsStopping ==
    /\ worker.pc = "watch"
    /\ LockFree
    /\ child = "alive"
    /\ ~told
    /\ Stopping
    /\ told' = TRUE
    /\ UNCHANGED <<row, queue, worker, child, requests, log, environment>>

\* The supervision loop passes a cancellation or a shutdown on to the child.
WorkerInterrupts ==
    /\ worker.pc = "watch"
    /\ LockFree
    /\ child = "alive"
    /\ ~told
    /\ Stopping \/ row[worker.job].cancel
    /\ told' = TRUE
    /\ UNCHANGED <<row, queue, worker, child, requests, log, environment>>

\* Slip: the child is left to end by itself after its interrupt.
WorkerForcesNothing ==
    /\ worker.pc = "watch"
    /\ child = "alive"
    /\ told
    /\ UNCHANGED vars

\* The grace period is over.
WorkerForces ==
    /\ worker.pc = "watch"
    /\ child = "alive"
    /\ told
    /\ child' = "error"
    /\ UNCHANGED <<row, queue, worker, told, requests, log, environment>>

\* Slip: the error leaves the supervision loop without stopping the child.
WorkerLosesStoreAndChild ==
    /\ worker.pc = "watch"
    /\ faults < MaxFaults
    /\ faults' = faults + 1
    /\ \/ /\ row' = Finished(worker.job, "failed", "job_failed")
          /\ worker' = At("tell", worker.job)
       \/ UNCHANGED row /\ worker' = Top
    /\ UNCHANGED <<queue, process, requests, log, accounts>>

\* The row cannot be read or the output not captured: the child is stopped and
\* reaped before the worker goes on, and the outcome is stored if it can be.
WorkerLosesStore ==
    /\ worker.pc = "watch"
    /\ faults < MaxFaults
    /\ faults' = faults + 1
    /\ child' = "none"
    /\ told' = FALSE
    /\ \/ /\ row' = Finished(worker.job, "failed", "job_failed")
          /\ worker' = At("tell", worker.job)
       \/ UNCHANGED row /\ worker' = Top
    /\ UNCHANGED <<queue, requests, log, accounts>>

\* The child has ended; was it cancelled?
WorkerReads ==
    /\ worker.pc = "watch"
    /\ child \in Exits
    /\ worker' = [worker EXCEPT !.pc = "settle", !.seen = row[worker.job].cancel]
    /\ UNCHANGED <<row, queue, process, requests, log, environment>>

WorkerSettles ==
    /\ worker.pc = "settle"
    /\ row' = CASE worker.seen -> Finished(worker.job, "cancelled", "job_cancelled")
                [] ~worker.seen /\ child = "interrupt" ->
                      Finished(worker.job, "failed", "job_interrupted")
                [] ~worker.seen /\ child = "ok" ->
                      Finished(worker.job, "succeeded", "job_succeeded")
                [] ~worker.seen /\ child = "error" ->
                      Finished(worker.job, "failed", "job_failed")
    /\ worker' = At("tell", worker.job)
    /\ child' = "none"
    /\ told' = FALSE
    /\ UNCHANGED <<queue, requests, log, environment>>

\* The worker records the outcome it has stored, and forgets the job.
WorkerTells ==
    /\ worker.pc = "tell"
    /\ \/ /\ row[worker.job].pend # "none"
          /\ AuditRecord("worker", worker.job, row[worker.job].pend)
          /\ UNCHANGED worker
       \/ AuditClear("worker") /\ worker' = Top
       \/ /\ auditor = NoAuditor
          /\ row[worker.job].pend = "none" \/ ~accounts
          /\ worker' = Top
          /\ UNCHANGED <<row, log>>
    /\ UNCHANGED <<queue, process, requests, environment>>

\* The command ends by itself, or after an interrupt.
ChildExits ==
    /\ child = "alive"
    /\ child' \in Exits
    /\ UNCHANGED <<row, queue, worker, told, requests, log, environment>>
-----------------------------------------------------------------------------
(* The end of the process, and the next one. *)

\* Slip: the queue is cleared although its rows are not cancelled.
ShutdownBeginsUncounted ==
    /\ up
    /\ LockFree
    /\ ~Stopping
    /\ stop' = [pc |-> "rows", rows |-> {}]
    /\ queue' = <<>>
    /\ UNCHANGED <<row, worker, process, cancel, up, log, environment>>

ShutdownBegins ==
    /\ up
    /\ LockFree
    /\ ~Stopping
    /\ stop' = [pc |-> "rows", rows |-> {queue[i] : i \in DOMAIN queue}]
    /\ queue' = <<>>
    /\ UNCHANGED <<row, worker, process, cancel, up, log, environment>>

\* cancel_queued for the identifiers taken from the queue.
ShutdownCancels(j) ==
    /\ stop.pc = "rows"
    /\ j \in stop.rows
    /\ row' = IF row[j].status = "queued" THEN CancelledQueued(j) ELSE row
    /\ stop' = [stop EXCEPT !.rows = @ \ {j}]
    /\ UNCHANGED <<queue, worker, process, cancel, up, log, environment>>

\* The child is interrupted.
ShutdownInterrupts ==
    /\ stop.pc = "rows"
    /\ stop.rows = {}
    /\ LockFree
    /\ told' = (told \/ child = "alive")
    /\ stop' = [stop EXCEPT !.pc = "join"]
    /\ UNCHANGED <<row, queue, worker, child, cancel, up, log, environment>>

\* The worker has ended, or is given up after a while; a child that is still
\* there is stopped.
ShutdownJoins ==
    /\ stop.pc = "join"
    /\ \/ worker = Off /\ UNCHANGED faults
       \/ faults < MaxFaults /\ faults' = faults + 1
    /\ child' = IF child = "alive" THEN "error" ELSE child
    /\ stop' = [stop EXCEPT !.pc = "audits"]
    /\ UNCHANGED <<row, queue, worker, told, cancel, up, log, accounts>>

ShutdownAudits ==
    /\ stop.pc = "audits"
    /\ \/ RetryAudit("stop")
       \/ AuditClear("stop")
    /\ UNCHANGED <<queue, worker, process, requests, environment>>

\* What the process kept in memory is gone.
Gone ==
    /\ up' = FALSE
    /\ queue' = <<>>
    /\ worker' = Off
    /\ child' = "none"
    /\ told' = FALSE
    /\ cancel' = NoCancel
    /\ stop' = NoStop
    /\ auditor' = NoAuditor

ShutdownEnds ==
    /\ stop.pc = "audits"
    /\ Pending = {} \/ ~accounts \/ worker # Off
    /\ auditor.by # "stop"
    /\ Gone
    /\ UNCHANGED <<row, trail, environment>>

Crash ==
    /\ up
    /\ faults < MaxFaults
    /\ faults' = faults + 1
    /\ Gone
    /\ UNCHANGED <<row, trail, accounts>>

\* A new manager fails the jobs nobody tracks, and retries what is unrecorded.
Restart ==
    /\ ~up
    /\ up' = TRUE
    /\ row' = FailInterrupted
    /\ worker' = IF \E j \in Jobs : FailInterrupted[j].pend # "none" THEN Top ELSE Off
    /\ UNCHANGED <<queue, process, cancel, stop, log, environment>>

AccountsFail ==
    /\ accounts
    /\ faults < MaxFaults
    /\ faults' = faults + 1
    /\ accounts' = FALSE
    /\ UNCHANGED <<row, queue, worker, process, requests, log>>

AccountsRecover ==
    /\ ~accounts
    /\ accounts' = TRUE
    /\ UNCHANGED <<row, queue, worker, process, requests, log, faults>>

WorkerStep ==
    \/ WorkerWakes \/ WorkerAudits \/ WorkerPicks \/ WorkerFindsBusy
    \/ WorkerMarks \/ WorkerSpawns \/ WorkerCannotSpawn \/ WorkerInterrupts
    \/ WorkerForces \/ WorkerReads \/ WorkerSettles \/ WorkerTells

CancelStep == CancelQueued \/ CancelAudit \/ CancelRequest

ShutdownStep ==
    \/ \E j \in Jobs : ShutdownCancels(j)
    \/ ShutdownInterrupts \/ ShutdownJoins \/ ShutdownAudits \/ ShutdownEnds

Next ==
    \/ \E j \in Jobs :
          Submit(j) \/ SubmitUnaudited(j) \/ CancelBegin(j) \/ CancelUnaudited(j)
    \/ CancelStep
    \/ WorkerStep
    \/ WorkerLosesStore
    \/ ChildExits
    \/ ShutdownBegins
    \/ ShutdownStep
    \/ Crash
    \/ Restart
    \/ AccountsFail
    \/ AccountsRecover

Spec == Init /\ [][Next]_vars

\* Threads that can run do run, and one that waits for _condition gets it in the
\* end, however often requests take it (strong fairness).  The service manager
\* restarts the dashboard, and an outage of the account database ends.  A child
\* need not end by itself and nobody has to submit, cancel or stop anything.
Fairness ==
    /\ SF_vars(WorkerStep)
    /\ SF_vars(ShutdownStep)
    /\ WF_vars(CancelStep)
    /\ WF_vars(Restart)
    /\ WF_vars(AccountsRecover)

FairSpec == Spec /\ Fairness

-----------------------------------------------------------------------------
(* Properties. *)

\* Every variable has its type (the columns of dashboard_job, the fields of
\* JobManager).
TypeOK ==
    /\ row \in [Jobs -> Row]
    /\ queue \in Seq(Jobs)
    /\ worker \in Worker
    /\ child \in {"none", "alive"} \cup Exits
    /\ told \in BOOLEAN
    /\ cancel \in [pc : {"idle", "try", "audit", "request"}, job : {0} \cup Jobs]
    /\ stop \in [pc : {"no", "rows", "join", "audits"}, rows : SUBSET Jobs]
    /\ up \in BOOLEAN
    /\ auditor \in [by : {"nobody", "worker", "cancel", "stop"}, job : {0} \cup Jobs]
    /\ trail \in [Jobs -> [Outcomes -> Nat]]
    /\ accounts \in BOOLEAN
    /\ faults \in Nat

\* A child has an owner: while the dashboard lives, a command under way belongs
\* to the job the worker supervises, whose row says it is running.
ChildIsSupervised ==
    child # "none" =>
        /\ worker.pc \in {"watch", "settle"}
        /\ row[worker.job].status = "running"

\* A queued row is never forgotten by a live dashboard: it waits in the queue,
\* is being started or is being cancelled by a shutdown, and in one place only.
QueuedIsTracked ==
    up => \A j \in Jobs : row[j].status = "queued" =>
        LET places == {i \in DOMAIN queue : queue[i] = j}
            started == worker.pc = "claim" /\ worker.job = j
            stopped == j \in stop.rows
        IN \/ Cardinality(places) = 1 /\ ~started /\ ~stopped
           \/ places = {} /\ (started \/ stopped)

\* Whatever fails, the outcome a row shows is in the audit log or is still
\* marked to be recorded (docs/DASHBOARD.md, History).
OutcomeIsKept ==
    \A j \in Jobs : row[j].pend = "none" =>
        /\ row[j].status = "succeeded" => trail[j]["job_succeeded"] > 0
        /\ row[j].status = "cancelled" => trail[j]["job_cancelled"] > 0
        /\ row[j].status = "failed" => \E a \in Outcomes : trail[j][a] > 0

\* The worker, cancellations and a shutdown may all try to record the same
\* outcome: it is recorded once, and again only after a crash in between.
RecordedOnce == \A j \in Jobs, a \in Outcomes : trail[j][a] <= 1 + faults

\* The types, and what holds of children, queued rows and outcomes whatever fails.
JobsInv == TypeOK /\ ChildIsSupervised /\ QueuedIsTracked /\ OutcomeIsKept /\ RecordedOnce

\* A stored success or failure is never rewritten, by nobody's late step, and a
\* cancelled job does not come back to run or succeed.
FinishedIsFinal ==
    [][\A j \in Jobs :
          /\ row[j].status \in {"succeeded", "failed"} => row'[j].status = row[j].status
          /\ row[j].status = "cancelled" => row'[j].status \in {"cancelled", "failed"}]_vars

\* A queued job that was cancelled stays cancelled (docs/DASHBOARD.md, Cancel).
CancelledIsFinal ==
    [][\A j \in Jobs : row[j].status = "cancelled" => row'[j].status = "cancelled"]_vars

\* A running row nobody tracks, because its outcome could not be stored.
Lost(j) == row[j].status = "running" /\ worker.job # j

\* A cancellation takes effect, even if the command ignores its interrupt.
CancelEnds == \A j \in Jobs : row[j].cancel ~> (row[j].status \in Terminal \/ Lost(j))

\* An orderly shutdown comes to an end, whatever the child does.
ShutdownTerminates == Stopping ~> ~Stopping

\* As long as the worker lives and commands end by themselves, no outcome stays
\* unrecorded.
WorkerRecords ==
    WF_vars(ChildExits) =>
        \A j \in Jobs : (row[j].pend # "none" /\ worker.pc # "off") ~> row[j].pend = "none"

\* Cancellations, shutdowns and outcomes all come to their end.
JobsEnd == CancelEnds /\ ShutdownTerminates /\ WorkerRecords
=============================================================================
