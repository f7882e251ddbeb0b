------------------------- MODULE DashboardJobsProofs -------------------------
(***************************************************************************)
(* Jobs of the dashboard, for any number of jobs and faults: a child has   *)
(* an owner, no queued row is forgotten, an outcome is never lost and is   *)
(* recorded once unless something fails, and a finished job is final.      *)
(***************************************************************************)
EXTENDS DashboardJobs, TLAPS, FiniteSetTheorems, SequenceTheorems

HasJob == {"claim", "spawn", "watch", "settle", "tell"}

\* What the places of worker, cancel, auditor and the child say of each other.
PlacesMatch ==
    /\ worker.pc \in HasJob => worker.job \in Jobs
    /\ worker.pc = "settle" => child \in Exits
    /\ cancel.pc # "idle" => cancel.job \in Jobs
    /\ stop.pc # "rows" => stop.rows = {}
    /\ stop.pc = "no" => stop = NoStop
    /\ auditor.by = "nobody" <=> auditor = NoAuditor
    /\ auditor # NoAuditor => auditor.job \in Jobs

DownIsEmpty ==
    ~up => /\ queue = <<>> /\ worker = Off /\ child = "none" /\ cancel = NoCancel
           /\ stop = NoStop /\ auditor = NoAuditor

\* Between claim and settlement nobody else ends the job, except that a claimed row
\* may be cancelled before it is marked as running.
WorkerOwns ==
    /\ worker.pc = "claim" => row[worker.job].status \in {"queued", "cancelled"}
    /\ worker.pc \in {"spawn", "watch", "settle"} => row[worker.job].status = "running"

QueueHolds ==
    /\ \A i, k \in DOMAIN queue : queue[i] = queue[k] => i = k
    /\ \A i \in DOMAIN queue :
         /\ row[queue[i]].status = "queued"
         /\ queue[i] \notin stop.rows
         /\ worker.pc = "claim" => worker.job # queue[i]

Tracked(j) ==
    \/ \E i \in DOMAIN queue : queue[i] = j
    \/ worker.pc = "claim" /\ worker.job = j
    \/ j \in stop.rows

QueuedIsSomewhere == up => \A j \in Jobs : row[j].status = "queued" => Tracked(j)

\* The outcome that is to be recorded is the one of the row.
Matches(status, action) ==
    /\ status \in Terminal
    /\ status = "succeeded" => action = "job_succeeded"
    /\ status = "cancelled" => action = "job_cancelled"

MarksMatch == \A j \in Jobs : row[j].pend # "none" => Matches(row[j].status, row[j].pend)

\* An outcome of the row is in the audit log.
Recorded(j) ==
    /\ row[j].status = "succeeded" => trail[j]["job_succeeded"] > 0
    /\ row[j].status = "cancelled" => trail[j]["job_cancelled"] > 0
    /\ row[j].status = "failed" => \E a \in Outcomes : trail[j][a] > 0

ClearedIsRecorded ==
    /\ OutcomeIsKept
    /\ auditor # NoAuditor => Recorded(auditor.job) /\ row[auditor.job].status \in Terminal

\* Nothing is recorded of a job before it has ended, and only its cancellation of one
\* that was cancelled.
NothingEarly ==
    \A j \in Jobs, a \in Outcomes : trail[j][a] > 0 =>
        /\ row[j].status \in Terminal
        /\ row[j].status = "cancelled" => a = "job_cancelled"

\* One of the faults is spent when a shutdown does not wait for its worker.
Spent == IF stop.pc = "audits" /\ worker # Off THEN 1 ELSE 0
Budget == faults - Spent

\* Each repetition of an entry is paid for by a fault.
EntriesArePaid ==
    /\ faults \in Nat /\ Budget \in Nat
    /\ \A j \in Jobs, a \in Outcomes :
         /\ trail[j][a] <= 1 + Budget
         /\ (row[j].pend = a /\ ~(auditor # NoAuditor /\ auditor.job = j)) => trail[j][a] <= Budget
         /\ (auditor # NoAuditor /\ auditor.job = j /\ ~accounts) => trail[j][a] <= Budget

\* The inductive invariant.
ManagerInv ==
    /\ TypeOK
    /\ PlacesMatch
    /\ DownIsEmpty
    /\ ChildIsSupervised
    /\ WorkerOwns
    /\ QueueHolds
    /\ QueuedIsSomewhere
    /\ MarksMatch
    /\ ClearedIsRecorded
    /\ NothingEarly
    /\ EntriesArePaid
-----------------------------------------------------------------------------
(* The queue. *)

\* list.remove, for a queue without repetitions.
LEMMA RemoveFirstFacts ==
    ASSUME NEW S, NEW s \in Seq(S), NEW e,
           \A i, k \in DOMAIN s : s[i] = s[k] => i = k
    PROVE  /\ RemoveFirst(s, e) \in Seq(S)
           /\ \A i, k \in DOMAIN RemoveFirst(s, e) :
                RemoveFirst(s, e)[i] = RemoveFirst(s, e)[k] => i = k
           /\ \A i \in DOMAIN RemoveFirst(s, e) :
                RemoveFirst(s, e)[i] # e /\ \E k \in DOMAIN s : s[k] = RemoveFirst(s, e)[i]
           /\ \A k \in DOMAIN s :
                s[k] # e => \E i \in DOMAIN RemoveFirst(s, e) : RemoveFirst(s, e)[i] = s[k]
<1>1. CASE \A i \in 1..Len(s) : s[i] # e
  <2>1. ~\E i \in 1..Len(s) : s[i] = e
    BY <1>1
  <2>2. RemoveFirst(s, e) = s
    BY <2>1, Zenon DEF RemoveFirst
  <2> QED BY <1>1, <2>2
<1>2. CASE \E i \in 1..Len(s) : s[i] = e
  <2>1. PICK n \in 1..Len(s) : s[n] = e
    BY <1>2
  <2>2. {i \in 1..Len(s) : s[i] = e} = {n}
    BY <2>1
  <2>3. Min({n}) = n
    BY DEF Min
  <2>4. SelectInSeq(s, LAMBDA v : v = e) = n
    BY <2>2, <2>3 DEF SelectInSeq
  <2> DEFINE t == SubSeq(s, 1, n - 1) \o SubSeq(s, n + 1, Len(s))
  <2>5. RemoveFirst(s, e) = t
    BY <1>2, <2>4 DEF RemoveFirst, RemoveAt
  <2>6. /\ t \in Seq(S) /\ Len(t) = Len(s) - 1 /\ DOMAIN t = 1..(Len(s) - 1)
        /\ \A i \in 1..(Len(s) - 1) : t[i] = IF i < n THEN s[i] ELSE s[i + 1]
    <3> DEFINE left == SubSeq(s, 1, n - 1)
               right == SubSeq(s, n + 1, Len(s))
    <3>1. left \in Seq(S) /\ Len(left) = n - 1 /\ \A i \in 1..(n - 1) : left[i] = s[i]
      <4>1. n - 1 \in Int /\ \A i \in 1..(n - 1) : s[i] \in S
        BY <2>1
      <4> QED BY <2>1, <4>1, SubSeqProperties
    <3>2. /\ right \in Seq(S) /\ Len(right) = Len(s) - n
          /\ \A i \in 1..(Len(s) - n) : right[i] = s[i + n]
      <4>1. n + 1 \in Int /\ Len(s) \in Int /\ \A i \in (n + 1)..Len(s) : s[i] \in S
        BY <2>1
      <4> QED BY <2>1, <4>1, SubSeqProperties
    <3> HIDE DEF t, left, right
    <3>3. /\ t \in Seq(S) /\ Len(t) = Len(left) + Len(right)
          /\ \A i \in 1..(Len(left) + Len(right)) :
               t[i] = IF i <= Len(left) THEN left[i] ELSE right[i - Len(left)]
      <4>1. t = left \o right
        BY DEF t, left, right
      <4> QED BY <3>1, <3>2, <4>1, ConcatProperties, ZenonT(40)
    <3>4. Len(s) \in Nat /\ Len(left) + Len(right) = Len(s) - 1
      BY <2>1, <3>1, <3>2
    <3>5. \A i \in 1..(Len(s) - 1) : t[i] = IF i <= n - 1 THEN left[i] ELSE right[i - (n - 1)]
      BY <3>1, <3>3, <3>4
    <3>6. ASSUME NEW i \in 1..(Len(s) - 1)
          PROVE  t[i] = IF i < n THEN s[i] ELSE s[i + 1]
      <4>1. CASE i < n
        <5>1. i <= n - 1 /\ i \in 1..(n - 1)
          BY <2>1, <4>1
        <5> QED BY <3>1, <3>5, <4>1, <5>1
      <4>2. CASE ~(i < n)
        <5>1. ~(i <= n - 1) /\ i - (n - 1) \in 1..(Len(s) - n) /\ i - (n - 1) + n = i + 1
          BY <2>1, <3>4, <4>2
        <5> QED BY <3>2, <3>5, <4>2, <5>1
      <4> QED BY <4>1, <4>2
    <3>7. Len(t) = Len(s) - 1 /\ DOMAIN t = 1..(Len(s) - 1)
      BY <3>3, <3>4
    <3> QED BY <3>3, <3>6, <3>7
  <2> HIDE DEF t
  <2>7. \A k \in DOMAIN s : s[k] # e =>
            IF k < n THEN k \in DOMAIN t /\ t[k] = s[k] ELSE k - 1 \in DOMAIN t /\ t[k - 1] = s[k]
    BY <2>1, <2>6
  <2>8. \A i \in DOMAIN t : t[i] # e /\ \E k \in DOMAIN s : s[k] = t[i]
    <3> SUFFICES ASSUME NEW i \in DOMAIN t
                 PROVE  t[i] # e /\ \E k \in DOMAIN s : s[k] = t[i]
      OBVIOUS
    <3>1. CASE i < n
      BY <2>1, <2>6, <3>1
    <3>2. CASE ~(i < n)
      <4>1. i + 1 \in DOMAIN s /\ t[i] = s[i + 1] /\ i + 1 # n
        BY <2>1, <2>6, <3>2
      <4> QED BY <2>1, <4>1
    <3> QED BY <3>1, <3>2
  <2>9. \A i, k \in DOMAIN t : t[i] = t[k] => i = k
    <3> DEFINE from(i) == IF i < n THEN i ELSE i + 1
    <3>1. \A i \in DOMAIN t : from(i) \in DOMAIN s /\ t[i] = s[from(i)]
      BY <2>1, <2>6
    <3>2. \A i, k \in DOMAIN t : from(i) = from(k) => i = k
      BY <2>1, <2>6
    <3> HIDE DEF from
    <3> QED BY <3>1, <3>2
  <2> QED BY <2>5, <2>6, <2>7, <2>8, <2>9
<1> QED BY <1>1, <1>2
-----------------------------------------------------------------------------
(* What a step does to a row. *)

\* A row keeps its outcome, loses the mark that was recorded, becomes active, or ends;
\* one that was cancelled before it ran may only be recorded as failed.
Moves(j, now) ==
    \/ now.status = row[j].status /\ now.pend = row[j].pend
    \/ /\ now.status = row[j].status /\ now.pend = "none"
       /\ auditor # NoAuditor /\ auditor.job = j
    \/ /\ row[j].status \in {"none", "queued"} /\ now.status \in Active
       /\ now.pend = row[j].pend
    \/ /\ row[j].status \notin {"succeeded", "failed"}
       /\ now.pend \in Outcomes /\ Matches(now.status, now.pend)
       /\ row[j].status = "cancelled" => now.status = "failed" /\ now.pend = "job_failed"

RowsKept == row' \in [Jobs -> Row] /\ \A j \in Jobs : Moves(j, row'[j])

\* One row changes.
LEMMA OneRowMoves ==
    ASSUME TypeOK, NEW j \in Jobs, NEW now \in Row, Moves(j, now), row' = [row EXCEPT ![j] = now]
    PROVE  RowsKept
BY DEF TypeOK, RowsKept, Moves

LEMMA RequestRows ==
    ASSUME ManagerInv, NEW j \in Jobs,
           \/ Submit(j) \/ SubmitUnaudited(j) \/ CancelBegin(j) \/ CancelUnaudited(j)
    PROVE  RowsKept
<1>0. TypeOK /\ row[j] \in Row
  BY DEF ManagerInv, TypeOK
<1>1. CASE Submit(j)
  <2> DEFINE now == [row[j] EXCEPT !.status = "queued"]
  <2>1. row' = [row EXCEPT ![j] = now]
    BY <1>0, <1>1 DEF Submit, TypeOK
  <2>2. now \in Row /\ Moves(j, now)
    BY <1>0, <1>1 DEF Submit, NewJob, Row, Moves, Active
  <2> QED BY <1>0, <2>1, <2>2, OneRowMoves
<1>2. CASE SubmitUnaudited(j)
  <2> DEFINE now == [row[j] EXCEPT !.status = "failed", !.pend = "job_failed"]
  <2>1. row' = [row EXCEPT ![j] = now]
    BY <1>0, <1>2 DEF SubmitUnaudited, TypeOK
  <2>2. now \in Row /\ Moves(j, now)
    BY <1>0, <1>2 DEF SubmitUnaudited, NewJob, Row, Moves, Matches, Terminal, Outcomes
  <2> QED BY <1>0, <2>1, <2>2, OneRowMoves
<1>3. CASE CancelBegin(j) \/ CancelUnaudited(j)
  BY <1>0, <1>3 DEF CancelBegin, CancelUnaudited, RowsKept, Moves, TypeOK
<1> QED BY <1>1, <1>2, <1>3

\* The mark of the row an auditor holds is cleared.
LEMMA ClearRows ==
    ASSUME ManagerInv, NEW by \in {"worker", "cancel", "stop"}, AuditClear(by)
    PROVE  RowsKept
<1>0. TypeOK /\ auditor # NoAuditor /\ auditor.job \in Jobs
  BY DEF ManagerInv, AuditClear, NoAuditor, PlacesMatch
<1> DEFINE j == auditor.job
           now == [row[j] EXCEPT !.pend = "none"]
<1>1. row' = [row EXCEPT ![j] = now]
  BY <1>0 DEF AuditClear, TypeOK
<1>2. now \in Row /\ Moves(j, now)
  BY <1>0 DEF Row, Moves, TypeOK
<1> QED BY <1>0, <1>1, <1>2, OneRowMoves

\* A queued row is cancelled.
LEMMA CancelledRows ==
    ASSUME TypeOK, NEW j \in Jobs,
           row' = IF row[j].status = "queued" THEN CancelledQueued(j) ELSE row
    PROVE  RowsKept
<1>0. row[j] \in Row
  BY DEF TypeOK
<1>1. CASE row[j].status = "queued"
  <2> DEFINE now == [row[j] EXCEPT !.cancel = TRUE, !.status = "cancelled",
                                   !.pend = "job_cancelled"]
  <2>1. row' = [row EXCEPT ![j] = now]
    BY <1>0, <1>1 DEF CancelledQueued, TypeOK
  <2>2. now \in Row /\ Moves(j, now)
    BY <1>0, <1>1 DEF Row, Moves, Matches, Terminal, Outcomes
  <2> QED BY <2>1, <2>2, OneRowMoves
<1>2. CASE row[j].status # "queued"
  BY <1>2 DEF RowsKept, Moves, TypeOK
<1> QED BY <1>1, <1>2

LEMMA CancelRows ==
    ASSUME ManagerInv, CancelStep
    PROVE  RowsKept
<1>0. TypeOK /\ (cancel.pc # "idle" => cancel.job \in Jobs)
  BY DEF ManagerInv, PlacesMatch
<1>1. CASE CancelQueued
  <2>1. /\ cancel.job \in Jobs
        /\ row' = IF row[cancel.job].status = "queued" THEN CancelledQueued(cancel.job) ELSE row
    BY <1>0, <1>1 DEF CancelQueued
  <2> QED BY <1>0, <2>1, CancelledRows
<1>2. CASE CancelAudit
  BY <1>0, <1>2, ClearRows DEF CancelAudit, AuditRecord, RowsKept, Moves, TypeOK
<1>3. CASE CancelRequest
  <2> DEFINE j == cancel.job
             now == [row[j] EXCEPT !.cancel = TRUE]
  <2>0. j \in Jobs /\ row[j] \in Row
    BY <1>0, <1>3 DEF CancelRequest, TypeOK
  <2>1. row' = [row EXCEPT ![j] = now]
    BY <1>0, <1>3, <2>0 DEF CancelRequest, TypeOK
  <2>2. now \in Row /\ Moves(j, now)
    BY <2>0 DEF Row, Moves
  <2> QED BY <1>0, <2>0, <2>1, <2>2, OneRowMoves
<1> QED BY <1>1, <1>2, <1>3 DEF CancelStep

\* The worker stores the outcome of its job.
LEMMA FinishedRows ==
    ASSUME ManagerInv, worker.pc \in {"claim", "spawn", "watch", "settle"},
           NEW status, NEW action \in Outcomes, Matches(status, action),
           worker.pc = "claim" => status = "failed" /\ action = "job_failed",
           row' = Finished(worker.job, status, action)
    PROVE  RowsKept
<1> DEFINE j == worker.job
           now == [row[j] EXCEPT !.status = status, !.pend = action]
<1>0. TypeOK /\ j \in Jobs /\ row[j] \in Row
  BY DEF ManagerInv, PlacesMatch, HasJob, TypeOK
<1>1. row' = [row EXCEPT ![j] = now]
  BY <1>0 DEF Finished, TypeOK
<1>2. now \in Row /\ Moves(j, now)
  BY <1>0 DEF Row, Moves, Matches, ManagerInv, WorkerOwns
<1> QED BY <1>0, <1>1, <1>2, OneRowMoves
LEMMA WorkerRows ==
    ASSUME ManagerInv, WorkerStep \/ WorkerLosesStore
    PROVE  RowsKept
<1>0. TypeOK
  BY DEF ManagerInv
<1>1. ASSUME row' = row PROVE RowsKept
  BY <1>0, <1>1 DEF RowsKept, Moves, TypeOK
<1>2. CASE WorkerWakes \/ WorkerPicks \/ WorkerSpawns \/ WorkerInterrupts \/ WorkerForces \/ WorkerReads
  BY <1>1, <1>2 DEF WorkerWakes, WorkerPicks, WorkerSpawns, WorkerInterrupts, WorkerForces, WorkerReads
<1>3. CASE WorkerAudits \/ WorkerTells
  BY <1>1, <1>3, ClearRows DEF WorkerAudits, WorkerTells, RetryAudit, AuditRecord
<1>4. ASSUME worker.pc \in {"claim", "spawn", "watch"},
             row' = Finished(worker.job, "failed", "job_failed")
      PROVE  RowsKept
  <2>1. Matches("failed", "job_failed") /\ "job_failed" \in Outcomes
    BY DEF Matches, Terminal, Outcomes
  <2> QED BY <1>4, <2>1, FinishedRows
<1>5. CASE WorkerFindsBusy \/ WorkerCannotSpawn \/ WorkerLosesStore
  BY <1>1, <1>4, <1>5 DEF WorkerFindsBusy, WorkerCannotSpawn, WorkerLosesStore
<1>6. CASE WorkerMarks
  <2> DEFINE j == worker.job
             now == [row[j] EXCEPT !.status = "running"]
  <2>0. worker.pc = "claim" /\ j \in Jobs /\ row[j] \in Row
    BY <1>0, <1>6 DEF WorkerMarks, ManagerInv, PlacesMatch, HasJob, TypeOK
  <2>1. CASE row[j].status = "queued"
    <3>1. row' = [row EXCEPT ![j] = now]
      BY <1>0, <1>6, <2>0, <2>1 DEF WorkerMarks, Running, TypeOK
    <3>2. now \in Row /\ Moves(j, now)
      BY <2>0, <2>1 DEF Row, Moves, Active
    <3> QED BY <1>0, <2>0, <3>1, <3>2, OneRowMoves
  <2>2. CASE row[j].status # "queued"
    BY <1>1, <1>6, <2>2 DEF WorkerMarks
  <2> QED BY <2>1, <2>2
<1>7. CASE WorkerSettles
  <2>1. worker.pc = "settle" /\ worker.seen \in BOOLEAN /\ child \in {"ok", "error", "interrupt"}
    BY <1>0, <1>7 DEF WorkerSettles, ManagerInv, PlacesMatch, TypeOK, Worker, Exits
  <2>2. /\ Matches("cancelled", "job_cancelled") /\ "job_cancelled" \in Outcomes
        /\ Matches("failed", "job_interrupted") /\ "job_interrupted" \in Outcomes
        /\ Matches("succeeded", "job_succeeded") /\ "job_succeeded" \in Outcomes
        /\ Matches("failed", "job_failed") /\ "job_failed" \in Outcomes
    BY DEF Matches, Terminal, Outcomes
  <2>3. CASE worker.seen
    <3>1. row' = Finished(worker.job, "cancelled", "job_cancelled")
      BY <1>7, <2>3 DEF WorkerSettles
    <3> QED BY <2>1, <2>2, <3>1, FinishedRows
  <2>4. CASE ~worker.seen /\ child = "interrupt"
    <3>1. row' = Finished(worker.job, "failed", "job_interrupted")
      BY <1>7, <2>4 DEF WorkerSettles
    <3> QED BY <2>1, <2>2, <3>1, FinishedRows
  <2>5. CASE ~worker.seen /\ child = "ok"
    <3>1. row' = Finished(worker.job, "succeeded", "job_succeeded")
      BY <1>7, <2>5 DEF WorkerSettles
    <3> QED BY <2>1, <2>2, <3>1, FinishedRows
  <2>6. CASE ~worker.seen /\ child = "error"
    <3>1. row' = Finished(worker.job, "failed", "job_failed")
      BY <1>7, <2>6 DEF WorkerSettles
    <3> QED BY <2>1, <2>2, <3>1, FinishedRows
  <2> QED BY <2>1, <2>3, <2>4, <2>5, <2>6
<1> QED BY <1>2, <1>3, <1>5, <1>6, <1>7 DEF WorkerStep

LEMMA OtherRows ==
    ASSUME ManagerInv,
           \/ ChildExits \/ ShutdownBegins \/ ShutdownStep \/ Crash \/ Restart
           \/ AccountsFail \/ AccountsRecover \/ UNCHANGED vars
    PROVE  RowsKept
<1>0. TypeOK
  BY DEF ManagerInv
<1>1. ASSUME row' = row PROVE RowsKept
  BY <1>0, <1>1 DEF RowsKept, Moves, TypeOK
<1>2. CASE \/ ChildExits \/ ShutdownBegins \/ Crash \/ AccountsFail \/ AccountsRecover
           \/ UNCHANGED vars
  BY <1>1, <1>2 DEF ChildExits, ShutdownBegins, Crash, AccountsFail, AccountsRecover, vars
<1>3. CASE ShutdownInterrupts \/ ShutdownJoins \/ ShutdownEnds
  BY <1>1, <1>3 DEF ShutdownInterrupts, ShutdownJoins, ShutdownEnds
<1>4. CASE ShutdownAudits
  BY <1>1, <1>4, ClearRows DEF ShutdownAudits, RetryAudit, AuditRecord
<1>5. ASSUME NEW j \in Jobs, ShutdownCancels(j) PROVE RowsKept
  BY <1>0, <1>5, CancelledRows DEF ShutdownCancels
<1>6. CASE Restart
  <2>1. row' = FailInterrupted
    BY <1>6 DEF Restart
  <2>2. ASSUME NEW j \in Jobs PROVE row'[j] \in Row /\ Moves(j, row'[j])
    <3>0. row[j] \in Row
      BY <1>0 DEF TypeOK
    <3>1. CASE row[j].status \in Active
      <4> DEFINE now == [row[j] EXCEPT !.status = "failed", !.pend = "job_failed"]
      <4>1. row'[j] = now
        BY <2>1, <3>1 DEF FailInterrupted
      <4>2. now \in Row /\ Moves(j, now)
        BY <3>0, <3>1 DEF Row, Moves, Matches, Terminal, Outcomes, Active
      <4> QED BY <4>1, <4>2
    <3>2. CASE row[j].status \notin Active
      BY <2>1, <3>0, <3>2 DEF FailInterrupted, Moves
    <3> QED BY <3>1, <3>2
  <2>3. row' \in [Jobs -> Row]
    BY <2>1, <2>2 DEF FailInterrupted
  <2> QED BY <2>2, <2>3 DEF RowsKept
<1> QED BY <1>2, <1>3, <1>4, <1>5, <1>6 DEF ShutdownStep

\* What any step does to the rows.
LEMMA RowsMove == ManagerInv /\ [Next]_vars => RowsKept
BY RequestRows, CancelRows, WorkerRows, OtherRows DEF Next
-----------------------------------------------------------------------------
(* What a step costs. *)

BudgetKept ==
    /\ faults' \in Nat /\ Budget' \in Nat /\ Budget' >= Budget
    /\ accounts /\ ~accounts' => Budget' >= Budget + 1

LEMMA BudgetGrows ==
    ASSUME faults \in Nat, Budget \in Nat, Spent \in {0, 1}, Spent' \in {0, 1},
           \/ faults' = faults /\ (Spent' = Spent \/ Spent' = 0)
           \/ faults' = faults + 1
    PROVE  /\ faults' \in Nat /\ Budget' \in Nat /\ Budget' >= Budget
           /\ faults' = faults + 1 /\ Spent' = Spent => Budget' >= Budget + 1
BY DEF Budget

\* No step spends more than it pays, and an outage is paid for.
LEMMA BudgetMoves == ManagerInv /\ [Next]_vars => BudgetKept
<1> SUFFICES ASSUME ManagerInv, [Next]_vars PROVE BudgetKept
  OBVIOUS
<1>0. faults \in Nat /\ Budget \in Nat /\ Spent \in {0, 1} /\ Spent' \in {0, 1}
  BY DEF ManagerInv, EntriesArePaid, Spent
<1>1. ASSUME faults' = faults, accounts' = accounts \/ accounts', Spent' = Spent \/ Spent' = 0
      PROVE  BudgetKept
  <2>1. faults' \in Nat /\ Budget' \in Nat /\ Budget' >= Budget
    BY <1>0, <1>1, BudgetGrows, Zenon
  <2>2. accounts => accounts'
    BY <1>1
  <2> QED BY <2>1, <2>2, Zenon DEF BudgetKept
<1>2. ASSUME faults' = faults + 1, accounts' = accounts \/ accounts' \/ Spent' = Spent
      PROVE  BudgetKept
  <2>1. /\ faults' \in Nat /\ Budget' \in Nat /\ Budget' >= Budget
        /\ Spent' = Spent => Budget' >= Budget + 1
    BY <1>0, <1>2, BudgetGrows, Zenon
  <2>2. (accounts => accounts') \/ Spent' = Spent
    BY <1>2
  <2> QED BY <1>2, <2>1, <2>2, Zenon DEF BudgetKept
<1>3. CASE UNCHANGED vars
  BY <1>1, <1>3 DEF vars, environment, requests, Spent
<1>4. ASSUME NEW j \in Jobs, Submit(j) \/ SubmitUnaudited(j) \/ CancelBegin(j) \/ CancelUnaudited(j)
      PROVE  BudgetKept
  BY <1>1, <1>4 DEF Submit, SubmitUnaudited, CancelBegin, CancelUnaudited, NewJob, Stopping,
                    environment, requests, Spent
<1>5. CASE CancelStep
  BY <1>1, <1>5 DEF CancelStep, CancelQueued, CancelAudit, CancelRequest, environment, Spent
<1>6. CASE WorkerStep
  <2>1. worker # Off
    BY <1>6 DEF WorkerStep, WorkerWakes, WorkerAudits, WorkerPicks, WorkerFindsBusy, WorkerMarks,
       WorkerSpawns, WorkerCannotSpawn, WorkerInterrupts, WorkerForces, WorkerReads,
       WorkerSettles, WorkerTells, Off, At
  <2>2. stop' = stop /\ UNCHANGED environment
    BY <1>6 DEF WorkerStep, WorkerWakes, WorkerAudits, WorkerPicks, WorkerFindsBusy, WorkerMarks,
       WorkerSpawns, WorkerCannotSpawn, WorkerInterrupts, WorkerForces, WorkerReads,
       WorkerSettles, WorkerTells, requests
  <2> QED BY <1>1, <2>1, <2>2 DEF environment, Spent
<1>7. CASE WorkerLosesStore
  BY <1>2, <1>7 DEF WorkerLosesStore
<1>8. CASE ChildExits
  BY <1>1, <1>8 DEF ChildExits, requests, environment, Spent
<1>9. CASE ShutdownBegins
  BY <1>1, <1>9 DEF ShutdownBegins, environment, Spent
<1>10. ASSUME NEW j \in Jobs, ShutdownCancels(j) PROVE BudgetKept
  BY <1>1, <1>10 DEF ShutdownCancels, environment, Spent
<1>11. CASE ShutdownInterrupts
  BY <1>1, <1>11 DEF ShutdownInterrupts, environment, Spent
<1>12. CASE ShutdownJoins
  BY <1>1, <1>2, <1>12 DEF ShutdownJoins, Spent
<1>13. CASE ShutdownAudits
  BY <1>1, <1>13 DEF ShutdownAudits, requests, environment, Spent
<1>14. CASE ShutdownEnds
  BY <1>1, <1>14 DEF ShutdownEnds, Gone, environment, Spent, NoStop
<1>15. CASE Crash
  BY <1>2, <1>15 DEF Crash
<1>16. CASE Restart
  BY <1>1, <1>16 DEF Restart, ManagerInv, DownIsEmpty, NoStop, environment, Spent
<1>17. CASE AccountsFail
  BY <1>2, <1>17 DEF AccountsFail, requests, Spent
<1>18. CASE AccountsRecover
  BY <1>1, <1>18 DEF AccountsRecover, requests, Spent
<1> QED BY <1>3, <1>4, <1>5, <1>6, <1>7, <1>8, <1>9, <1>10, <1>11, <1>12, <1>13, <1>14, <1>15,
           <1>16, <1>17, <1>18 DEF Next, ShutdownStep
-----------------------------------------------------------------------------
(* What a step does to the audit log. *)

Untouched == UNCHANGED log

\* An entry for the outcome that is marked; its row is as it was.
Records ==
    /\ auditor = NoAuditor /\ auditor' # NoAuditor /\ accounts /\ accounts'
    /\ auditor' \in [by : {"worker", "cancel", "stop"}, job : Jobs]
    /\ row' = row
    /\ \E j \in Jobs, a \in Outcomes :
         /\ row[j].pend = a /\ auditor'.job = j
         /\ trail' = [trail EXCEPT ![j][a] = trail[j][a] + 1]

\* The mark goes after the entry, or the auditor goes before it could clear it.
LetsGo ==
    /\ trail' = trail /\ auditor # NoAuditor /\ auditor' = NoAuditor
    /\ \/ row'[auditor.job].pend = "none"
       \/ Budget' >= Budget + 1
       \/ ~accounts
       \/ \A j \in Jobs : row'[j].pend = "none"

LogKept == Untouched \/ Records \/ LetsGo

LEMMA RecordLog ==
    ASSUME ManagerInv, NEW by \in {"worker", "cancel", "stop"}, NEW j \in Jobs, NEW a,
           a # "none", AuditRecord(by, j, a), accounts' = accounts
    PROVE  LogKept
<1>1. a \in Outcomes
  BY DEF AuditRecord, ManagerInv, TypeOK, Row
<1>2. auditor' = [by |-> by, job |-> j] /\ auditor' # NoAuditor
  BY DEF AuditRecord, NoAuditor
<1>3. trail' = [trail EXCEPT ![j][a] = trail[j][a] + 1]
  BY DEF AuditRecord, ManagerInv, TypeOK
<1>4. accounts /\ accounts' /\ auditor = NoAuditor /\ row' = row /\ row[j].pend = a
  BY DEF AuditRecord
<1>5. auditor' \in [by : {"worker", "cancel", "stop"}, job : Jobs] /\ auditor'.job = j
  BY <1>2
<1>6. \E k \in Jobs, o \in Outcomes :
        /\ row[k].pend = o /\ auditor'.job = k
        /\ trail' = [trail EXCEPT ![k][o] = trail[k][o] + 1]
  BY <1>1, <1>3, <1>4, <1>5
<1> QED BY <1>2, <1>4, <1>5, <1>6, Zenon DEF LogKept, Records

LEMMA ClearLog ==
    ASSUME ManagerInv, NEW by \in {"worker", "cancel", "stop"}, AuditClear(by)
    PROVE  LogKept
<1>1. auditor # NoAuditor /\ auditor.job \in Jobs
  BY DEF AuditClear, NoAuditor, ManagerInv, PlacesMatch
<1>2. row'[auditor.job].pend = "none"
  BY <1>1 DEF AuditClear, ManagerInv, TypeOK, Row
<1> QED BY <1>1, <1>2 DEF AuditClear, LogKept, LetsGo

LEMMA LogMoves == ManagerInv /\ [Next]_vars => LogKept
<1> SUFFICES ASSUME ManagerInv, [Next]_vars PROVE LogKept
  OBVIOUS
<1>0. TypeOK /\ PlacesMatch /\ faults \in Nat /\ Budget \in Nat /\ Spent \in {0, 1}
  BY DEF ManagerInv, EntriesArePaid, Spent
<1>1. ASSUME UNCHANGED log PROVE LogKept
  BY <1>1 DEF LogKept, Untouched
<1>2. CASE UNCHANGED vars
  BY <1>1, <1>2 DEF vars, log
<1>3. ASSUME NEW j \in Jobs, Submit(j) \/ SubmitUnaudited(j) \/ CancelBegin(j) \/ CancelUnaudited(j)
      PROVE  LogKept
  BY <1>1, <1>3 DEF Submit, SubmitUnaudited, CancelBegin, CancelUnaudited
<1>4. CASE CancelQueued \/ CancelRequest
  BY <1>1, <1>4 DEF CancelQueued, CancelRequest
<1>5. CASE CancelAudit
  <2>1. cancel.job \in Jobs /\ accounts' = accounts
    BY <1>0, <1>5 DEF CancelAudit, PlacesMatch, environment
  <2>2. CASE AuditRecord("cancel", cancel.job, "job_cancelled")
    BY <2>1, <2>2, RecordLog
  <2>3. CASE AuditClear("cancel")
    BY <2>3, ClearLog
  <2> QED BY <1>1, <1>5, <2>2, <2>3 DEF CancelAudit
<1>6. ASSUME NEW by \in {"worker", "cancel", "stop"}, NEW j \in Jobs, row[j].pend # "none",
             AuditRecord(by, j, row[j].pend), accounts' = accounts
      PROVE  LogKept
  BY <1>6, RecordLog
<1>7. CASE WorkerAudits \/ WorkerTells
  <2>1. CASE AuditClear("worker")
    BY <2>1, ClearLog
  <2>2. CASE RetryAudit("worker") /\ accounts' = accounts
    BY <1>6, <2>2 DEF RetryAudit, Pending
  <2>3. CASE WorkerTells /\ row[worker.job].pend # "none"
             /\ AuditRecord("worker", worker.job, row[worker.job].pend)
    <3>1. worker.job \in Jobs /\ accounts' = accounts
      BY <1>0, <2>3 DEF WorkerTells, PlacesMatch, HasJob, environment
    <3> QED BY <1>6, <2>3, <3>1
  <2> QED BY <1>1, <1>7, <2>1, <2>2, <2>3 DEF WorkerAudits, WorkerTells, environment
<1>8. CASE \/ WorkerWakes \/ WorkerPicks \/ WorkerFindsBusy \/ WorkerMarks \/ WorkerSpawns
           \/ WorkerCannotSpawn \/ WorkerInterrupts \/ WorkerForces \/ WorkerReads
           \/ WorkerSettles \/ WorkerLosesStore
  BY <1>1, <1>8 DEF WorkerWakes, WorkerPicks, WorkerFindsBusy, WorkerMarks,
       WorkerSpawns, WorkerCannotSpawn, WorkerInterrupts, WorkerForces, WorkerReads,
       WorkerSettles, WorkerLosesStore
<1>9. CASE ShutdownBegins \/ ShutdownInterrupts \/ ShutdownJoins \/ ChildExits \/ Restart
           \/ AccountsFail \/ AccountsRecover
  BY <1>1, <1>9 DEF ShutdownBegins, ShutdownInterrupts, ShutdownJoins, ChildExits, Restart,
                    AccountsFail, AccountsRecover
<1>10. ASSUME NEW j \in Jobs, ShutdownCancels(j) PROVE LogKept
  BY <1>1, <1>10 DEF ShutdownCancels
<1>11. CASE ShutdownAudits
  <2>1. accounts' = accounts
    BY <1>11 DEF ShutdownAudits, environment
  <2> QED BY <1>6, <1>11, <2>1, ClearLog DEF ShutdownAudits, RetryAudit, Pending
<1>12. ASSUME trail' = trail, auditor' = NoAuditor, row' = row,
              Budget' >= Budget + 1 \/ ~accounts \/ Pending = {}
       PROVE  LogKept
  BY <1>12 DEF LogKept, Untouched, LetsGo, log, Pending
<1>13. CASE Crash
  <2>1. faults' = faults + 1 /\ Spent' = 0 /\ trail' = trail /\ auditor' = NoAuditor /\ row' = row
    BY <1>13 DEF Crash, Gone, Spent, NoStop
  <2> QED BY <1>0, <1>12, <2>1 DEF Budget
<1>14. CASE ShutdownEnds
  <2>1. faults' = faults /\ Spent' = 0 /\ trail' = trail /\ auditor' = NoAuditor /\ row' = row
    BY <1>14 DEF ShutdownEnds, Gone, Spent, NoStop, environment
  <2>2. worker # Off => Spent = 1
    BY <1>14 DEF ShutdownEnds, Spent
  <2>3. Pending = {} \/ ~accounts \/ worker # Off
    BY <1>14 DEF ShutdownEnds
  <2> QED BY <1>0, <1>12, <2>1, <2>2, <2>3 DEF Budget
<1> QED BY <1>2, <1>3, <1>4, <1>5, <1>7, <1>8, <1>9, <1>10, <1>11, <1>13, <1>14
        DEF Next, CancelStep, WorkerStep, ShutdownStep
-----------------------------------------------------------------------------
(* Marks, entries and their price. *)

LEMMA TrailMoves ==
    ASSUME ManagerInv, LogKept
    PROVE  /\ trail' \in [Jobs -> [Outcomes -> Nat]]
           /\ \A j \in Jobs, a \in Outcomes :
                /\ trail[j][a] \in Nat /\ trail'[j][a] \in Nat
                /\ trail'[j][a] = trail[j][a] \/ trail'[j][a] = trail[j][a] + 1
                /\ trail'[j][a] # trail[j][a] => Records /\ row[j].pend = a /\ auditor'.job = j
<1>0. trail \in [Jobs -> [Outcomes -> Nat]]
  BY DEF ManagerInv, TypeOK
<1>1. CASE Untouched \/ LetsGo
  BY <1>0, <1>1 DEF Untouched, LetsGo, log
<1>2. CASE Records
  <2>1. PICK j \in Jobs, a \in Outcomes :
             /\ row[j].pend = a /\ auditor'.job = j
             /\ trail' = [trail EXCEPT ![j][a] = trail[j][a] + 1]
    BY <1>2 DEF Records
  <2> DEFINE n == trail[j][a] + 1
             t == [trail[j] EXCEPT ![a] = n]
  <2>2. n \in Nat
    BY <1>0
  <2>3. trail' = [trail EXCEPT ![j] = t]
    BY <1>0, <2>1
  <2>4. t \in [Outcomes -> Nat] /\ t[a] = trail[j][a] + 1 /\ \A b \in Outcomes \ {a} : t[b] = trail[j][b]
    BY <1>0, <2>2
  <2> HIDE DEF n, t
  <2>5. trail' \in [Jobs -> [Outcomes -> Nat]]
    BY <1>0, <2>3, <2>4
  <2>6. ASSUME NEW k \in Jobs, NEW b \in Outcomes
        PROVE  /\ trail'[k][b] = trail[k][b] \/ trail'[k][b] = trail[k][b] + 1
               /\ trail'[k][b] # trail[k][b] => k = j /\ b = a
    BY <1>0, <2>3, <2>4
  <2> QED BY <1>0, <1>2, <2>1, <2>5, <2>6
<1> QED BY <1>1, <1>2 DEF LogKept

\* The marks stay true to their rows.
LEMMA MarksStep == ManagerInv /\ RowsKept => MarksMatch'
BY DEF ManagerInv, RowsKept, Moves, MarksMatch, Matches, Terminal, Active

\* What is recorded early stays out.
LEMMA EarlyStep ==
    ASSUME ManagerInv, RowsKept, LogKept
    PROVE  NothingEarly'
<1> SUFFICES ASSUME NEW j \in Jobs, NEW a \in Outcomes, trail'[j][a] > 0
             PROVE  /\ row'[j].status \in Terminal
                    /\ row'[j].status = "cancelled" => a = "job_cancelled"
  BY DEF NothingEarly
<1>1. CASE trail'[j][a] = trail[j][a]
  <2>1. row[j].status \in Terminal /\ (row[j].status = "cancelled" => a = "job_cancelled")
    BY <1>1 DEF ManagerInv, NothingEarly
  <2> QED BY <2>1 DEF RowsKept, Moves, Matches, Terminal, Active
<1>2. CASE trail'[j][a] # trail[j][a]
  <2>1. row' = row /\ row[j].pend = a
    BY <1>2, TrailMoves DEF Records
  <2> QED BY <2>1 DEF ManagerInv, MarksMatch, Matches, Outcomes
<1> QED BY <1>1, <1>2

\* An outcome that is no longer marked is in the log.
LEMMA RecordedStep ==
    ASSUME ManagerInv, RowsKept, LogKept
    PROVE  ClearedIsRecorded'
<1>0. \A j \in Jobs, a \in Outcomes : trail[j][a] > 0 => trail'[j][a] > 0
  BY TrailMoves
<1>1. /\ "job_cancelled" \in Outcomes /\ "job_succeeded" \in Outcomes
      /\ "none" \notin Outcomes
  BY DEF Outcomes
<1>2. ASSUME NEW j \in Jobs, Recorded(j), row'[j].status = row[j].status
      PROVE  Recorded(j)'
  BY <1>0, <1>1, <1>2 DEF Recorded
<1>3. ASSUME NEW j \in Jobs, row'[j].pend = "none"
      PROVE  Recorded(j)'
  <2>1. CASE row'[j].status = row[j].status
    <3>1. row[j].pend = "none" \/ (auditor # NoAuditor /\ auditor.job = j)
      BY <1>1, <1>3, <2>1 DEF RowsKept, Moves, Active, Matches
    <3>2. Recorded(j)
      BY <3>1 DEF ManagerInv, ClearedIsRecorded, OutcomeIsKept, Recorded
    <3> QED BY <1>2, <2>1, <3>2
  <2>2. CASE row'[j].status # row[j].status
    BY <1>1, <1>3, <2>2 DEF RowsKept, Moves, Active, Recorded
  <2> QED BY <2>1, <2>2
<1>4. ASSUME auditor' # NoAuditor, NEW j \in Jobs, auditor'.job = j
      PROVE  Recorded(j)' /\ row'[j].status \in Terminal
  <2>1. CASE Untouched
    <3>1. auditor' = auditor /\ Recorded(j) /\ row[j].status \in Terminal
      BY <1>4, <2>1 DEF Untouched, log, ManagerInv, ClearedIsRecorded
    <3>2. row'[j].status = row[j].status \/ (row[j].status = "cancelled" /\ row'[j].status = "failed")
      BY <3>1 DEF RowsKept, Moves, Terminal
    <3>3. CASE row'[j].status = row[j].status
      BY <1>2, <3>1, <3>3
    <3>4. CASE row[j].status = "cancelled" /\ row'[j].status = "failed"
      <4>1. trail'[j]["job_cancelled"] > 0
        BY <1>0, <1>1, <3>1, <3>4 DEF Recorded
      <4> QED BY <1>1, <3>4, <4>1 DEF Recorded, Terminal
    <3> QED BY <3>2, <3>3, <3>4
  <2>2. CASE Records
    <3>1. PICK a \in Outcomes :
               row[j].pend = a /\ trail' = [trail EXCEPT ![j][a] = trail[j][a] + 1]
      BY <1>4, <2>2 DEF Records
    <3>2. trail'[j][a] > 0
      <4>1. trail[j][a] \in Nat /\ trail'[j][a] = trail[j][a] + 1
        BY <3>1 DEF ManagerInv, TypeOK
      <4> QED BY <4>1
    <3>3. Matches(row[j].status, a) /\ row' = row
      BY <1>1, <2>2, <3>1 DEF ManagerInv, MarksMatch, Records
    <3> QED BY <1>4, <3>1, <3>2, <3>3 DEF Recorded, Matches
  <2>3. CASE LetsGo
    BY <1>4, <2>3 DEF LetsGo
  <2> QED BY <2>1, <2>2, <2>3 DEF LogKept
<1>5. OutcomeIsKept'
  BY <1>3 DEF OutcomeIsKept, Recorded
<1>6. ASSUME auditor' # NoAuditor PROVE auditor'.job \in Jobs
  BY <1>6 DEF LogKept, Untouched, log, Records, LetsGo, ManagerInv, PlacesMatch
<1>7. \A j \in Jobs : auditor' # NoAuditor /\ auditor'.job = j =>
        Recorded(j)' /\ row'[j].status \in Terminal
  BY <1>4
<1> QED BY <1>5, <1>6, <1>7 DEF ClearedIsRecorded, Recorded

\* An entry that may still be repeated leaves room for it in the budget.
LEMMA PaidStep ==
    ASSUME ManagerInv, RowsKept, LogKept, BudgetKept
    PROVE  EntriesArePaid'
<1>0. /\ Budget \in Nat /\ Budget' \in Nat /\ faults' \in Nat /\ Budget' >= Budget
      /\ "none" \notin Outcomes
  BY DEF ManagerInv, EntriesArePaid, BudgetKept, Outcomes
<1>1. ASSUME NEW j \in Jobs, NEW a \in Outcomes
      PROVE  /\ trail'[j][a] <= 1 + Budget'
             /\ row'[j].pend = a /\ ~(auditor' # NoAuditor /\ auditor'.job = j) => trail'[j][a] <= Budget'
             /\ auditor' # NoAuditor /\ auditor'.job = j /\ ~accounts' => trail'[j][a] <= Budget'
  <2> DEFINE n == trail[j][a]
             On == auditor # NoAuditor /\ auditor.job = j
  <2>0. /\ n \in Nat /\ n <= 1 + Budget
        /\ row[j].pend = a /\ ~On => n <= Budget
        /\ On /\ ~accounts => n <= Budget
        /\ n > 0 => row[j].status \in Terminal /\ (row[j].status = "cancelled" => a = "job_cancelled")
    BY TrailMoves DEF ManagerInv, EntriesArePaid, NothingEarly
  <2>1. CASE trail'[j][a] = n
    <3>1. ASSUME row'[j].pend = a, ~(auditor' # NoAuditor /\ auditor'.job = j)
          PROVE  n <= Budget'
      <4>1. CASE row[j].pend = a /\ ~On
        BY <1>0, <2>0, <4>1
      <4>2. CASE row[j].pend = a /\ On
        <5>1. LetsGo
          BY <3>1, <4>2 DEF LogKept, Untouched, log, Records
        <5>2. Budget' >= Budget + 1 \/ ~accounts
          BY <1>0, <3>1, <4>2, <5>1 DEF LetsGo
        <5>3. CASE Budget' >= Budget + 1
          BY <1>0, <2>0, <5>3
        <5>4. CASE ~accounts
          <6>1. n <= Budget
            BY <2>0, <4>2, <5>4
          <6> QED BY <1>0, <2>0, <6>1
        <5> QED BY <5>2, <5>3, <5>4
      <4>3. CASE row[j].pend # a
        <5>1. n = 0
          <6>1. /\ row[j].status \notin {"succeeded", "failed"}
                /\ row[j].status = "cancelled" => a = "job_failed"
            BY <1>0, <3>1, <4>3 DEF RowsKept, Moves
          <6> QED BY <2>0, <6>1 DEF Terminal
        <5> QED BY <1>0, <5>1
      <4> QED BY <4>1, <4>2, <4>3
    <3>2. ASSUME auditor' # NoAuditor, auditor'.job = j, ~accounts'
          PROVE  n <= Budget'
      <4>1. On
        BY <3>2 DEF LogKept, Untouched, log, Records, LetsGo
      <4>2. CASE accounts
        <5>1. Budget' >= Budget + 1
          BY <3>2, <4>2 DEF BudgetKept
        <5> QED BY <1>0, <2>0, <5>1
      <4>3. CASE ~accounts
        <5>1. n <= Budget
          BY <2>0, <4>1, <4>3
        <5> QED BY <1>0, <2>0, <5>1
      <4> QED BY <4>2, <4>3
    <3>3. n <= 1 + Budget'
      BY <1>0, <2>0
    <3> HIDE DEF n
    <3> QED BY <2>1, <3>1, <3>2, <3>3, Zenon
  <2>2. CASE trail'[j][a] # n
    <3>1. /\ trail'[j][a] = n + 1 /\ Records /\ row[j].pend = a
      BY <2>2, TrailMoves
    <3>2. auditor' # NoAuditor /\ auditor'.job = j /\ ~On /\ accounts'
      BY <2>2, <3>1, TrailMoves DEF Records
    <3>3. n <= Budget
      BY <2>0, <3>1, <3>2
    <3>4. trail'[j][a] <= 1 + Budget'
      BY <1>0, <2>0, <3>1, <3>3
    <3> QED BY <3>2, <3>4, Zenon
  <2> QED BY <2>1, <2>2
<1> QED BY <1>0, <1>1, Zenon DEF EntriesArePaid
-----------------------------------------------------------------------------
(* Threads, requests and the child. *)

\* The auditor is one of the threads, with a job.
LEMMA AuditorStep ==
    ASSUME ManagerInv, LogKept
    PROVE  /\ auditor' \in [by : {"nobody", "worker", "cancel", "stop"}, job : {0} \cup Jobs]
           /\ auditor'.by = "nobody" <=> auditor' = NoAuditor
           /\ auditor' # NoAuditor => auditor'.job \in Jobs
<1>1. CASE Untouched
  BY <1>1 DEF Untouched, log, ManagerInv, TypeOK, PlacesMatch
<1>2. CASE Records
  BY <1>2 DEF Records, NoAuditor
<1>3. CASE LetsGo
  BY <1>3 DEF LetsGo, NoAuditor
<1> QED BY <1>1, <1>2, <1>3 DEF LogKept

ThreadsType ==
    /\ queue \in Seq(Jobs)
    /\ worker \in Worker
    /\ child \in {"none", "alive"} \cup Exits
    /\ told \in BOOLEAN
    /\ cancel \in [pc : {"idle", "try", "audit", "request"}, job : {0} \cup Jobs]
    /\ stop \in [pc : {"no", "rows", "join", "audits"}, rows : SUBSET Jobs]
    /\ up \in BOOLEAN
    /\ accounts \in BOOLEAN

ThreadsMatch ==
    /\ worker.pc \in HasJob => worker.job \in Jobs
    /\ worker.pc = "settle" => child \in Exits
    /\ cancel.pc # "idle" => cancel.job \in Jobs
    /\ stop.pc # "rows" => stop.rows = {}
    /\ stop.pc = "no" => stop = NoStop

\* What holds of the threads, the child and the queue.
ThreadsInv ==
    /\ ThreadsType /\ ThreadsMatch /\ DownIsEmpty /\ ChildIsSupervised /\ WorkerOwns
    /\ QueueHolds /\ QueuedIsSomewhere

LEMMA ThreadFacts == ManagerInv => ThreadsInv /\ row \in [Jobs -> Row]
BY DEF ManagerInv, TypeOK, PlacesMatch, ThreadsInv, ThreadsType, ThreadsMatch

\* Where the worker is without a job.
LEMMA TopFacts ==
    /\ Top \in Worker /\ Top.pc = "top" /\ Top.pc \notin HasJob
    /\ Off \in Worker /\ Off.pc = "off" /\ Off.pc \notin HasJob
    /\ Top # Off
BY DEF Top, Off, At, Worker, Phases, HasJob

\* A job that comes into being.
LEMMA SubmitThreads ==
    ASSUME ManagerInv, NEW j \in Jobs, Submit(j) \/ SubmitUnaudited(j)
    PROVE  ThreadsInv'
<1>0. /\ ThreadsInv /\ row \in [Jobs -> Row] /\ up /\ stop.pc = "no" /\ stop.rows = {}
      /\ row[j].status = "none" /\ up' = up /\ UNCHANGED <<child, told, cancel, stop, accounts>>
  BY ThreadFacts DEF Submit, SubmitUnaudited, NewJob, Stopping, ThreadsInv, ThreadsMatch, NoStop,
                     process, requests, environment
<1>1. CASE Submit(j)
  <2>1. queue' = Append(queue, j) /\ (worker' = worker \/ (worker = Off /\ worker' = Top))
    BY <1>1 DEF Submit
  <2>2. row' = [row EXCEPT ![j].status = "queued"]
    BY <1>1 DEF Submit
  <2>3. /\ queue' \in Seq(Jobs) /\ Len(queue') = Len(queue) + 1 /\ queue'[Len(queue) + 1] = j
        /\ \A i \in 1..Len(queue) : queue'[i] = queue[i]
        /\ DOMAIN queue' = 1..(Len(queue) + 1) /\ DOMAIN queue = 1..Len(queue) /\ Len(queue) \in Nat
    BY <1>0, <2>1, AppendProperties DEF ThreadsInv, ThreadsType
  <2>4. row'[j].status = "queued" /\ \A i \in Jobs : i # j => row'[i] = row[i]
    BY <1>0, <2>2 DEF Row
  <2>5. worker' \in Worker /\ (worker'.pc \in HasJob => worker' = worker)
    BY <1>0, <2>1, TopFacts DEF ThreadsInv, ThreadsType
  <2>10. ThreadsType' /\ DownIsEmpty'
    BY <1>0, <2>3, <2>5 DEF ThreadsInv, ThreadsType, DownIsEmpty
  <2>11. ThreadsMatch'
    BY <1>0, <2>5 DEF ThreadsInv, ThreadsMatch, HasJob
  <2>6. ChildIsSupervised' /\ WorkerOwns'
    BY <1>0, <2>1, <2>4 DEF ThreadsInv, ThreadsMatch, ChildIsSupervised, WorkerOwns, Top, At, Off, HasJob
  <2>7. \A i \in DOMAIN queue : queue[i] \in Jobs /\ queue[i] # j
    BY <1>0, <2>3 DEF ThreadsInv, ThreadsType, QueueHolds
  <2>8. QueueHolds'
    <3>1. \A i, k \in DOMAIN queue' : queue'[i] = queue'[k] => i = k
      BY <1>0, <2>3, <2>7 DEF ThreadsInv, QueueHolds
    <3>2. worker'.pc = "claim" => worker' = worker /\ worker.job # j
      BY <1>0, <2>1 DEF ThreadsInv, WorkerOwns, Top, At
    <3>3. ASSUME NEW i \in DOMAIN queue'
          PROVE  /\ row'[queue'[i]].status = "queued" /\ queue'[i] \notin stop'.rows
                 /\ worker'.pc = "claim" => worker'.job # queue'[i]
      <4>1. CASE i = Len(queue) + 1
        BY <1>0, <2>3, <2>4, <3>2, <4>1
      <4>2. CASE i # Len(queue) + 1
        <5>1. i \in DOMAIN queue /\ queue'[i] = queue[i]
          BY <2>3, <4>2
        <5> QED BY <1>0, <2>4, <2>7, <3>2, <5>1 DEF ThreadsInv, QueueHolds
      <4> QED BY <4>1, <4>2
    <3> QED BY <3>1, <3>3 DEF QueueHolds
  <2>9. QueuedIsSomewhere'
    <3> SUFFICES ASSUME NEW k \in Jobs, row'[k].status = "queued" PROVE Tracked(k)'
      BY DEF QueuedIsSomewhere
    <3>1. CASE k = j
      <4>1. Len(queue) + 1 \in DOMAIN queue' /\ queue'[Len(queue) + 1] = j
        BY <2>3
      <4> QED BY <3>1, <4>1 DEF Tracked
    <3>2. CASE k # j
      <4>1. Tracked(k)
        BY <1>0, <2>4, <3>2 DEF ThreadsInv, QueuedIsSomewhere
      <4>2. ASSUME NEW i \in DOMAIN queue, queue[i] = k PROVE i \in DOMAIN queue' /\ queue'[i] = k
        BY <2>3, <4>2
      <4> QED BY <1>0, <2>1, <4>1, <4>2 DEF Tracked, Off, At
    <3> QED BY <3>1, <3>2
  <2> QED BY <2>6, <2>8, <2>9, <2>10, <2>11 DEF ThreadsInv
<1>2. CASE SubmitUnaudited(j)
  <2>1. UNCHANGED <<queue, worker>> /\ row' = [row EXCEPT ![j].status = "failed", ![j].pend = "job_failed"]
    BY <1>2 DEF SubmitUnaudited
  <2>2. row'[j].status = "failed" /\ \A i \in Jobs : i # j => row'[i] = row[i]
    BY <1>0, <2>1 DEF Row
  <2>3. \A i \in DOMAIN queue : queue[i] \in Jobs /\ queue[i] # j
    BY <1>0 DEF ThreadsInv, ThreadsType, QueueHolds
  <2>4. ThreadsType' /\ ThreadsMatch' /\ DownIsEmpty'
    BY <1>0, <2>1 DEF ThreadsInv, ThreadsType, ThreadsMatch, DownIsEmpty
  <2>5. ChildIsSupervised' /\ WorkerOwns'
    BY <1>0, <2>1, <2>2 DEF ThreadsInv, ThreadsMatch, ChildIsSupervised, WorkerOwns, HasJob
  <2>6. QueueHolds' /\ QueuedIsSomewhere'
    BY <1>0, <2>1, <2>2, <2>3 DEF ThreadsInv, QueueHolds, QueuedIsSomewhere, Tracked
  <2> QED BY <2>4, <2>5, <2>6 DEF ThreadsInv
<1> QED BY <1>1, <1>2

\* The queue and its rows are left alone.
LEMMA QueueFrame ==
    ASSUME ManagerInv, queue' = queue, stop'.rows = stop.rows, up' = up,
           \A j \in Jobs : (row'[j].status = "queued") <=> (row[j].status = "queued"),
           (worker'.pc = "claim") <=> (worker.pc = "claim"),
           worker.pc = "claim" => worker'.job = worker.job
    PROVE  QueueHolds' /\ QueuedIsSomewhere'
<1>1. \A i \in DOMAIN queue : queue[i] \in Jobs
  BY ThreadFacts DEF ThreadsInv, ThreadsType
<1>2. QueueHolds'
  BY <1>1 DEF ManagerInv, QueueHolds
<1>3. QueuedIsSomewhere'
  BY DEF ManagerInv, QueuedIsSomewhere, Tracked
<1> QED BY <1>2, <1>3

\* The worker, the child and the rows are left alone.
LEMMA ThreadFrame ==
    ASSUME ManagerInv, up, up' = up, UNCHANGED <<queue, worker, stop>>, accounts' \in BOOLEAN,
           told' \in BOOLEAN,
           cancel' \in [pc : {"idle", "try", "audit", "request"}, job : {0} \cup Jobs],
           cancel'.pc # "idle" => cancel'.job \in Jobs,
           child' = child \/ (child = "alive" /\ child' \in Exits),
           \A j \in Jobs : row'[j].status = row[j].status
    PROVE  ThreadsInv'
<1>0. ThreadsInv
  BY ThreadFacts
<1>1. ThreadsType' /\ ThreadsMatch' /\ DownIsEmpty'
  BY <1>0 DEF ThreadsInv, ThreadsType, ThreadsMatch, DownIsEmpty
<1>2. ChildIsSupervised' /\ WorkerOwns'
  BY <1>0 DEF ThreadsInv, ThreadsMatch, ChildIsSupervised, WorkerOwns, HasJob, Exits
<1>3. QueueHolds' /\ QueuedIsSomewhere'
  BY QueueFrame
<1> QED BY <1>1, <1>2, <1>3 DEF ThreadsInv

\* A cleared mark and a new entry leave the status of every row.
LEMMA AuditFrame ==
    ASSUME ManagerInv, NEW by \in {"worker", "cancel", "stop"},
           AuditClear(by) \/ row' = row
    PROVE  \A j \in Jobs : row'[j].status = row[j].status
<1>1. row \in [Jobs -> Row]
  BY ThreadFacts
<1> QED BY <1>1 DEF AuditClear, Row

\* Cancellations that change no row yet, and the end of the child.
LEMMA CancelThreads ==
    ASSUME ManagerInv,
           \/ \E j \in Jobs : CancelBegin(j) \/ CancelUnaudited(j)
           \/ CancelAudit \/ CancelRequest \/ ChildExits
    PROVE  ThreadsInv'
<1>0. ThreadsInv /\ row \in [Jobs -> Row]
  BY ThreadFacts
<1>1. ASSUME NEW j \in Jobs, CancelBegin(j) PROVE ThreadsInv'
  <2>1. cancel' \in [pc : {"idle", "try", "audit", "request"}, job : {0} \cup Jobs]
        /\ cancel'.job \in Jobs
    BY <1>1 DEF CancelBegin
  <2> QED BY <1>0, <1>1, <2>1, ThreadFrame
          DEF CancelBegin, process, environment, ThreadsInv, ThreadsType
<1>2. ASSUME NEW j \in Jobs, CancelUnaudited(j) PROVE ThreadsInv'
  BY <1>0, <1>2, ThreadFrame
     DEF CancelUnaudited, requests, environment, ThreadsInv, ThreadsType, ThreadsMatch
<1>3. CASE CancelAudit
  <2>1. up /\ up' = up /\ UNCHANGED <<queue, worker, stop, child, told, accounts>>
    BY <1>0, <1>3 DEF CancelAudit, process, environment, ThreadsInv, DownIsEmpty, NoCancel
  <2>2. cancel' = cancel \/ cancel' = NoCancel
    BY <1>3 DEF CancelAudit
  <2>3. \A j \in Jobs : row'[j].status = row[j].status
    BY <1>3, AuditFrame DEF CancelAudit, AuditRecord
  <2>4. /\ cancel' \in [pc : {"idle", "try", "audit", "request"}, job : {0} \cup Jobs]
        /\ cancel'.pc # "idle" => cancel'.job \in Jobs
    BY <1>0, <2>2 DEF NoCancel, ThreadsInv, ThreadsType, ThreadsMatch
  <2> QED BY <1>0, <2>1, <2>3, <2>4, ThreadFrame DEF ThreadsInv, ThreadsType
<1>4. CASE CancelRequest
  <2>1. up /\ up' = up /\ UNCHANGED <<queue, worker, stop, child, accounts>> /\ cancel' = NoCancel
    BY <1>0, <1>4 DEF CancelRequest, environment, ThreadsInv, DownIsEmpty, NoCancel
  <2>2. told' \in BOOLEAN
    BY <1>0, <1>4 DEF CancelRequest, ThreadsInv, ThreadsType
  <2>3. \A j \in Jobs : row'[j].status = row[j].status
    BY <1>0, <1>4 DEF CancelRequest, Row
  <2>4. NoCancel \in [pc : {"idle", "try", "audit", "request"}, job : {0} \cup Jobs]
        /\ NoCancel.pc = "idle"
    BY DEF NoCancel
  <2> QED BY <1>0, <2>1, <2>2, <2>3, <2>4, ThreadFrame DEF ThreadsInv, ThreadsType
<1>5. CASE ChildExits
  <2>1. up
    BY <1>0, <1>5 DEF ChildExits, ThreadsInv, DownIsEmpty
  <2> QED BY <1>0, <1>5, <2>1, ThreadFrame
          DEF ChildExits, requests, environment, ThreadsInv, ThreadsType, ThreadsMatch
<1> QED BY <1>1, <1>2, <1>3, <1>4, <1>5

\* A queued row is cancelled, and leaves the queue.
LEMMA CancelQueuedThreads ==
    ASSUME ManagerInv, CancelQueued
    PROVE  ThreadsInv'
<1> DEFINE j == cancel.job
<1>0. /\ ThreadsInv /\ row \in [Jobs -> Row] /\ j \in Jobs /\ up /\ up' = up
      /\ UNCHANGED <<worker, child, told, stop, accounts>>
  BY ThreadFacts DEF ThreadsInv, ThreadsMatch, DownIsEmpty, NoCancel, CancelQueued, process, environment
<1>1. /\ cancel' \in [pc : {"idle", "try", "audit", "request"}, job : {0} \cup Jobs]
      /\ cancel'.pc # "idle" => cancel'.job \in Jobs
  BY <1>0 DEF CancelQueued, ThreadsInv, ThreadsType
<1>2. CASE row[j].status # "queued"
  BY <1>0, <1>1, <1>2, ThreadFrame DEF CancelQueued, ThreadsInv, ThreadsType
<1>3. CASE row[j].status = "queued"
  <2>1. queue' = RemoveFirst(queue, j) /\ row' = CancelledQueued(j)
    BY <1>3 DEF CancelQueued
  <2>2. row'[j].status = "cancelled" /\ \A i \in Jobs : i # j => row'[i] = row[i]
    BY <1>0, <2>1 DEF CancelledQueued, Row
  <2>3. /\ queue' \in Seq(Jobs)
        /\ \A i, k \in DOMAIN queue' : queue'[i] = queue'[k] => i = k
        /\ \A i \in DOMAIN queue' : queue'[i] # j /\ \E k \in DOMAIN queue : queue[k] = queue'[i]
        /\ \A k \in DOMAIN queue : queue[k] # j => \E i \in DOMAIN queue' : queue'[i] = queue[k]
    BY <1>0, <2>1, RemoveFirstFacts DEF ThreadsInv, ThreadsType, QueueHolds
  <2>4. ThreadsType' /\ ThreadsMatch' /\ DownIsEmpty'
    BY <1>0, <1>1, <2>3 DEF ThreadsInv, ThreadsType, ThreadsMatch, DownIsEmpty
  <2>5. ChildIsSupervised' /\ WorkerOwns'
    BY <1>0, <1>3, <2>2 DEF ThreadsInv, ThreadsMatch, ChildIsSupervised, WorkerOwns, HasJob
  <2>6. QueueHolds'
    <3>1. ASSUME NEW i \in DOMAIN queue'
          PROVE  /\ row'[queue'[i]].status = "queued" /\ queue'[i] \notin stop'.rows
                 /\ worker'.pc = "claim" => worker'.job # queue'[i]
      <4>1. PICK k \in DOMAIN queue : queue[k] = queue'[i] /\ queue'[i] # j
        BY <2>3
      <4>2. queue'[i] \in Jobs
        BY <2>3
      <4> QED BY <1>0, <2>2, <4>1, <4>2 DEF ThreadsInv, QueueHolds
    <3> QED BY <2>3, <3>1 DEF QueueHolds
  <2>7. QueuedIsSomewhere'
    <3> SUFFICES ASSUME NEW k \in Jobs, row'[k].status = "queued" PROVE Tracked(k)'
      BY DEF QueuedIsSomewhere
    <3>1. k # j /\ Tracked(k)
      BY <1>0, <2>2 DEF ThreadsInv, QueuedIsSomewhere
    <3> QED BY <1>0, <2>3, <3>1 DEF Tracked
  <2> QED BY <2>4, <2>5, <2>6, <2>7 DEF ThreadsInv
<1> QED BY <1>2, <1>3

\* The worker moves on while the queue is left alone; what it owns is still its own.
LEMMA WorkerFrame ==
    ASSUME ManagerInv, UNCHANGED <<queue, cancel, stop, up, accounts>>, worker.pc # "off",
           worker' \in Worker, worker'.pc \in HasJob => worker'.job \in Jobs,
           (worker'.pc = "claim") <=> (worker.pc = "claim"),
           worker.pc = "claim" => worker' = worker,
           \A j \in Jobs : (row'[j].status = "queued") <=> (row[j].status = "queued"),
           \A j \in Jobs : row[j].status = "cancelled" => row'[j].status = "cancelled",
           worker'.pc \in {"spawn", "watch", "settle"} => row'[worker'.job].status = "running",
           child' \in {"none", "alive"} \cup Exits, told' \in BOOLEAN,
           worker'.pc = "settle" => child' \in Exits,
           child' # "none" => worker'.pc \in {"watch", "settle"}
    PROVE  ThreadsInv'
<1>0. ThreadsInv /\ up
  BY ThreadFacts DEF ThreadsInv, DownIsEmpty, Off, At
<1>1. ThreadsType' /\ ThreadsMatch' /\ DownIsEmpty'
  BY <1>0 DEF ThreadsInv, ThreadsType, ThreadsMatch, DownIsEmpty
<1>2. ChildIsSupervised' /\ WorkerOwns'
  BY <1>0 DEF ThreadsInv, ThreadsMatch, ChildIsSupervised, WorkerOwns, HasJob
<1>3. QueueHolds' /\ QueuedIsSomewhere'
  BY QueueFrame
<1> QED BY <1>1, <1>2, <1>3 DEF ThreadsInv

\* Steps of the worker that change no row.
LEMMA WorkerThreads ==
    ASSUME ManagerInv,
           \/ WorkerWakes \/ WorkerSpawns \/ WorkerInterrupts \/ WorkerForces \/ WorkerReads
           \/ WorkerAudits \/ WorkerTells
    PROVE  ThreadsInv'
<1>0. ThreadsInv /\ row \in [Jobs -> Row] /\ worker \in Worker
  BY ThreadFacts DEF ThreadsInv, ThreadsType
<1>1. ASSUME worker' = Top \/ worker' = Off \/ worker' = worker \/ (worker' \in Worker /\ worker'.pc \in {"audits", "pick"}),
             worker.pc \in {"top", "audits", "spawn", "tell"},
             UNCHANGED <<queue, cancel, stop, up, accounts, child, told>>,
             \A j \in Jobs : row'[j].status = row[j].status
      PROVE  ThreadsInv'
  <2>1. /\ worker' \in Worker /\ (worker'.pc \in HasJob => worker' = worker)
        /\ worker'.pc # "claim" /\ worker'.pc # "watch" /\ worker'.pc # "settle"
    BY <1>0, <1>1, TopFacts DEF HasJob
  <2>2. child = "none"
    BY <1>0, <1>1 DEF ThreadsInv, ChildIsSupervised
  <2> QED BY <1>0, <1>1, <2>1, <2>2, WorkerFrame
          DEF ThreadsInv, ThreadsType, ThreadsMatch, WorkerOwns, HasJob
<1>2. CASE WorkerWakes
  <2>1. At("audits", 0) \in Worker /\ At("audits", 0).pc = "audits"
    BY DEF At, Worker, Phases
  <2> QED BY <1>1, <1>2, <2>1 DEF WorkerWakes, process, requests, environment
<1>3. CASE WorkerSpawns
  <2>1. UNCHANGED <<queue, cancel, stop, up, accounts, told, row>> /\ worker.pc = "spawn"
    BY <1>3 DEF WorkerSpawns, requests, environment
  <2>2. CASE Stopping
    BY <1>1, <1>3, <2>1, <2>2 DEF WorkerSpawns
  <2>3. CASE ~Stopping
    <3>1. worker' = At("watch", worker.job) /\ child' = "alive"
      BY <1>3, <2>3 DEF WorkerSpawns
    <3>2. worker.job \in Jobs /\ row[worker.job].status = "running"
      BY <1>0, <2>1 DEF ThreadsInv, ThreadsMatch, WorkerOwns, HasJob
    <3>3. worker' \in Worker /\ worker'.pc = "watch" /\ worker'.job = worker.job
      BY <3>1, <3>2 DEF At, Worker, Phases
    <3> QED BY <1>0, <2>1, <3>1, <3>2, <3>3, WorkerFrame DEF ThreadsInv, ThreadsType
  <2> QED BY <2>2, <2>3
<1>4. CASE WorkerInterrupts \/ WorkerForces
  <2>1. up
    BY <1>0, <1>4 DEF WorkerInterrupts, WorkerForces, ThreadsInv, DownIsEmpty
  <2>2. /\ UNCHANGED <<row, queue, worker, stop, up, cancel, accounts>> /\ told' \in BOOLEAN
        /\ child' = child \/ (child = "alive" /\ child' \in Exits)
    BY <1>0, <1>4 DEF WorkerInterrupts, WorkerForces, requests, environment, Exits, ThreadsInv, ThreadsType
  <2> QED BY <1>0, <2>1, <2>2, ThreadFrame DEF ThreadsInv, ThreadsType, ThreadsMatch
<1>5. CASE WorkerReads
  <2>1. /\ UNCHANGED <<row, queue, cancel, stop, up, accounts, child, told>> /\ worker.pc = "watch"
        /\ child \in Exits /\ worker' = [worker EXCEPT !.pc = "settle", !.seen = row[worker.job].cancel]
    BY <1>5 DEF WorkerReads, process, requests, environment
  <2>2. worker.job \in Jobs /\ row[worker.job].status = "running" /\ row[worker.job].cancel \in BOOLEAN
    BY <1>0, <2>1 DEF ThreadsInv, ThreadsMatch, WorkerOwns, HasJob, Row
  <2>3. worker' \in Worker /\ worker'.pc = "settle" /\ worker'.job = worker.job
    BY <1>0, <2>1, <2>2 DEF Worker, Phases
  <2> QED BY <1>0, <2>1, <2>2, <2>3, WorkerFrame DEF ThreadsInv, ThreadsType
<1>6. CASE WorkerAudits \/ WorkerTells
  <2>1. At("pick", 0) \in Worker /\ At("pick", 0).pc = "pick"
    BY DEF At, Worker, Phases
  <2>2. \A j \in Jobs : row'[j].status = row[j].status
    BY <1>6, AuditFrame DEF WorkerAudits, WorkerTells, RetryAudit, AuditRecord
  <2>3. UNCHANGED <<queue, cancel, stop, up, accounts, child, told>>
    BY <1>6 DEF WorkerAudits, WorkerTells, process, requests, environment
  <2>4. /\ worker' = Top \/ worker' = worker \/ worker' = At("pick", 0)
        /\ worker.pc \in {"audits", "tell"}
    BY <1>6 DEF WorkerAudits, WorkerTells
  <2> QED BY <1>1, <2>1, <2>2, <2>3, <2>4
<1> QED BY <1>2, <1>3, <1>4, <1>5, <1>6

\* The head of the queue becomes the job of the worker.
LEMMA PickThreads ==
    ASSUME ManagerInv, WorkerPicks
    PROVE  ThreadsInv'
<1>0. /\ ThreadsInv /\ worker.pc = "pick" /\ up /\ queue \in Seq(Jobs)
      /\ UNCHANGED <<row, child, told, cancel, stop, up, accounts>> /\ child = "none"
  BY ThreadFacts DEF ThreadsInv, ThreadsType, DownIsEmpty, ChildIsSupervised, Off, At, WorkerPicks,
                     process, requests, environment
<1>1. CASE queue = <<>>
  <2>1. queue' = queue /\ (worker' = Off \/ worker' = Top)
    BY <1>1 DEF WorkerPicks
  <2>2. worker' \in Worker /\ worker'.pc \notin HasJob
    BY <2>1, TopFacts
  <2> QED BY <1>0, <2>1, <2>2, WorkerFrame DEF ThreadsInv, ThreadsType, HasJob
<1>2. CASE queue # <<>>
  <2> DEFINE j == Head(queue)
  <2>1. /\ queue' = Tail(queue)
        /\ worker' = IF row[j].status = "queued" THEN At("claim", j) ELSE Top
    BY <1>2 DEF WorkerPicks
  <2>2. /\ Len(queue) \in Nat /\ Len(queue) >= 1 /\ DOMAIN queue = 1..Len(queue) /\ j = queue[1]
        /\ j \in Jobs /\ queue' \in Seq(Jobs) /\ DOMAIN queue' = 1..(Len(queue) - 1)
        /\ \A i \in 1..(Len(queue) - 1) : queue'[i] = queue[i + 1]
    BY <1>0, <1>2, <2>1, HeadTailProperties
  <2>3. row[j].status = "queued" /\ j \notin stop.rows
    BY <1>0, <2>2 DEF ThreadsInv, QueueHolds
  <2>4. worker' \in Worker /\ worker'.pc = "claim" /\ worker'.job = j
    BY <2>1, <2>2, <2>3 DEF At, Worker, Phases
  <2>5. ThreadsType' /\ ThreadsMatch' /\ DownIsEmpty'
    BY <1>0, <2>2, <2>4 DEF ThreadsInv, ThreadsType, ThreadsMatch, DownIsEmpty
  <2>6. ChildIsSupervised' /\ WorkerOwns'
    BY <1>0, <2>3, <2>4 DEF ChildIsSupervised, WorkerOwns
  <2> HIDE DEF j
  <2>7. \A i \in DOMAIN queue' : i + 1 \in DOMAIN queue /\ queue'[i] = queue[i + 1] /\ i + 1 # 1
    BY <2>2
  <2>8. \A i, k \in DOMAIN queue' : queue'[i] = queue'[k] => i = k
    <3> SUFFICES ASSUME NEW i \in DOMAIN queue', NEW k \in DOMAIN queue', queue'[i] = queue'[k]
                 PROVE  i = k
      OBVIOUS
    <3>1. i + 1 = k + 1 /\ i \in Int /\ k \in Int
      BY <1>0, <2>2, <2>7 DEF ThreadsInv, QueueHolds
    <3> QED BY <3>1
  <2>9. QueueHolds'
    <3>1. \A i \in DOMAIN queue' : queue'[i] # j
      BY <1>0, <2>2, <2>7 DEF ThreadsInv, QueueHolds
    <3> QED BY <1>0, <2>4, <2>7, <2>8, <3>1 DEF ThreadsInv, QueueHolds
  <2>10. QueuedIsSomewhere'
    <3> SUFFICES ASSUME NEW k \in Jobs, row[k].status = "queued" PROVE Tracked(k)'
      BY <1>0 DEF QueuedIsSomewhere
    <3>1. Tracked(k)
      BY <1>0 DEF ThreadsInv, QueuedIsSomewhere
    <3>2. ASSUME NEW i \in DOMAIN queue, queue[i] = k
          PROVE  Tracked(k)'
      <4>1. CASE i = 1
        BY <2>2, <2>4, <3>2, <4>1 DEF Tracked
      <4>2. CASE i # 1
        <5>1. i - 1 \in DOMAIN queue' /\ queue'[i - 1] = k
          BY <2>2, <3>2, <4>2
        <5> QED BY <5>1 DEF Tracked
      <4> QED BY <4>1, <4>2
    <3> QED BY <1>0, <3>1, <3>2 DEF Tracked
  <2> QED BY <2>5, <2>6, <2>9, <2>10 DEF ThreadsInv
<1> QED BY <1>1, <1>2

\* The claimed row starts to run, fails, or turns out to be cancelled.
LEMMA ClaimThreads ==
    ASSUME ManagerInv, WorkerFindsBusy \/ WorkerMarks
    PROVE  ThreadsInv'
<1> DEFINE j == worker.job
<1>0. /\ ThreadsInv /\ worker.pc = "claim" /\ up /\ j \in Jobs /\ row \in [Jobs -> Row]
      /\ UNCHANGED <<queue, child, told, cancel, stop, up, accounts>> /\ child = "none"
      /\ row[j].status \in {"queued", "cancelled"} /\ \A i \in DOMAIN queue : queue[i] \in Jobs \ {j}
  BY ThreadFacts DEF ThreadsInv, ThreadsType, ThreadsMatch, HasJob, DownIsEmpty, ChildIsSupervised,
                     WorkerOwns, QueueHolds, Off, At, WorkerFindsBusy, WorkerMarks, process,
                     requests, environment
<1>1. \A i \in Jobs : i # j => row'[i] = row[i]
  BY <1>0 DEF WorkerFindsBusy, WorkerMarks, Finished, Running
<1>2. /\ row'[j].status # "queued"
      /\ worker'.pc = "spawn" => row'[j].status = "running"
      /\ worker' \in Worker /\ worker'.pc \in {"top", "spawn", "tell"}
      /\ worker'.pc \in HasJob => worker'.job = j
  <2>1. CASE WorkerFindsBusy
    <3>1. row'[j].status = "failed" /\ worker' = At("tell", j)
      BY <1>0, <2>1 DEF WorkerFindsBusy, Finished, Row
    <3> QED BY <1>0, <3>1 DEF At, Worker, Phases
  <2>2. CASE WorkerMarks /\ row[j].status = "queued"
    <3>1. row'[j].status = "running" /\ worker' = At("spawn", j)
      BY <1>0, <2>2 DEF WorkerMarks, Running, Row
    <3> QED BY <1>0, <3>1 DEF At, Worker, Phases
  <2>3. CASE WorkerMarks /\ row[j].status # "queued"
    <3>1. row' = row /\ worker' = Top
      BY <1>0, <2>3 DEF WorkerMarks
    <3> QED BY <1>0, <2>3, <3>1, TopFacts
  <2> QED BY <2>1, <2>2, <2>3
<1>3. ThreadsType' /\ ThreadsMatch' /\ DownIsEmpty'
  BY <1>0, <1>2 DEF ThreadsInv, ThreadsType, ThreadsMatch, DownIsEmpty
<1>4. ChildIsSupervised' /\ WorkerOwns'
  BY <1>0, <1>2 DEF ChildIsSupervised, WorkerOwns, HasJob
<1>5. QueueHolds' /\ QueuedIsSomewhere'
  BY <1>0, <1>1, <1>2 DEF ThreadsInv, QueueHolds, QueuedIsSomewhere, Tracked
<1> QED BY <1>3, <1>4, <1>5 DEF ThreadsInv

\* The running row gets its outcome, or its supervision breaks off.
LEMMA EndThreads ==
    ASSUME ManagerInv, WorkerCannotSpawn \/ WorkerSettles \/ WorkerLosesStore
    PROVE  ThreadsInv'
<1> DEFINE j == worker.job
<1>0. /\ ThreadsInv /\ worker.pc \in {"spawn", "watch", "settle"} /\ j \in Jobs
      /\ row \in [Jobs -> Row] /\ row[j].status = "running"
      /\ UNCHANGED <<queue, cancel, stop, up, accounts>>
  BY ThreadFacts DEF ThreadsInv, ThreadsMatch, HasJob, WorkerOwns, WorkerCannotSpawn, WorkerSettles,
                     WorkerLosesStore, requests, environment
<1>1. worker' = At("tell", j) \/ worker' = Top
  BY <1>0 DEF WorkerCannotSpawn, WorkerSettles, WorkerLosesStore
<1>2. worker' \in Worker /\ worker'.pc \in {"tell", "top"} /\ (worker'.pc \in HasJob => worker'.job \in Jobs)
  <2>1. CASE worker' = At("tell", j)
    BY <1>0, <2>1 DEF At, Worker, Phases
  <2>2. CASE worker' = Top
    BY <2>2, TopFacts
  <2> QED BY <1>1, <2>1, <2>2
<1>3. child' = "none" /\ told' \in BOOLEAN
  <2>1. CASE WorkerCannotSpawn
    <3>1. worker.pc = "spawn" /\ UNCHANGED <<child, told>>
      BY <2>1 DEF WorkerCannotSpawn, process
    <3> QED BY <1>0, <3>1 DEF ThreadsInv, ThreadsType, ChildIsSupervised
  <2>2. CASE WorkerSettles \/ WorkerLosesStore
    BY <2>2 DEF WorkerSettles, WorkerLosesStore
  <2> QED BY <2>1, <2>2
<1>4. \A i \in Jobs : i # j => row'[i] = row[i]
  <2>1. CASE WorkerCannotSpawn \/ WorkerLosesStore
    BY <1>0, <2>1 DEF WorkerCannotSpawn, WorkerLosesStore, Finished
  <2>2. CASE WorkerSettles
    <3>1. child \in {"ok", "error", "interrupt"} /\ worker.seen \in BOOLEAN
      BY <1>0, <2>2 DEF WorkerSettles, ThreadsInv, ThreadsType, ThreadsMatch, Worker, Exits
    <3> QED BY <1>0, <2>2, <3>1 DEF WorkerSettles, Finished
  <2> QED BY <2>1, <2>2
<1>5. row'[j].status # "queued"
  <2>1. CASE WorkerCannotSpawn \/ WorkerLosesStore
    BY <1>0, <2>1 DEF WorkerCannotSpawn, WorkerLosesStore, Finished, Row
  <2>2. CASE WorkerSettles
    <3>1. child \in {"ok", "error", "interrupt"} /\ worker.seen \in BOOLEAN
      BY <1>0, <2>2 DEF WorkerSettles, ThreadsInv, ThreadsType, ThreadsMatch, Worker, Exits
    <3> QED BY <1>0, <2>2, <3>1 DEF WorkerSettles, Finished, Row
  <2> QED BY <2>1, <2>2
<1> QED BY <1>0, <1>2, <1>3, <1>4, <1>5, WorkerFrame

\* Nothing is left in memory.
LEMMA GoneThreads ==
    ASSUME ManagerInv, Gone, row' = row, accounts' = accounts
    PROVE  ThreadsInv'
<1>0. /\ ThreadsInv /\ queue' = <<>> /\ worker' = Off /\ child' = "none" /\ told' = FALSE
      /\ cancel' = NoCancel /\ stop' = NoStop /\ auditor' = NoAuditor /\ up' = FALSE
  BY ThreadFacts DEF Gone
<1>1. ThreadsType' /\ ThreadsMatch'
  <2>1. queue' \in Seq(Jobs) /\ worker' \in Worker /\ worker'.pc \notin HasJob /\ worker'.pc # "settle"
    BY <1>0, TopFacts DEF HasJob
  <2>2. cancel'.pc = "idle" /\ cancel' \in [pc : {"idle", "try", "audit", "request"}, job : {0} \cup Jobs]
    BY <1>0 DEF NoCancel
  <2>3. /\ stop'.pc = "no" /\ stop'.rows = {}
        /\ stop' \in [pc : {"no", "rows", "join", "audits"}, rows : SUBSET Jobs]
    BY <1>0 DEF NoStop
  <2>4. accounts' \in BOOLEAN
    BY <1>0 DEF ThreadsInv, ThreadsType
  <2>5. ThreadsType'
    BY <1>0, <2>1, <2>2, <2>3, <2>4 DEF ThreadsType
  <2>6. ThreadsMatch'
    BY <1>0, <2>1, <2>2, <2>3 DEF ThreadsMatch
  <2> QED BY <2>5, <2>6
<1>2. DownIsEmpty' /\ ChildIsSupervised' /\ QueueHolds' /\ QueuedIsSomewhere'
  BY <1>0 DEF DownIsEmpty, ChildIsSupervised, QueueHolds, QueuedIsSomewhere
<1>3. WorkerOwns'
  BY <1>0, TopFacts DEF WorkerOwns
<1> QED BY <1>1, <1>2, <1>3 DEF ThreadsInv

\* The orderly end of the process, and what comes after it.
LEMMA ShutdownThreads ==
    ASSUME ManagerInv, ShutdownBegins \/ ShutdownStep
    PROVE  ThreadsInv'
<1>0. ThreadsInv /\ row \in [Jobs -> Row] /\ queue \in Seq(Jobs)
  BY ThreadFacts DEF ThreadsInv, ThreadsType
<1>1. CASE ShutdownBegins
  <2>1. /\ UNCHANGED <<row, worker, child, told, cancel, up, accounts>> /\ queue' = <<>> /\ up
        /\ stop' = [pc |-> "rows", rows |-> {queue[i] : i \in DOMAIN queue}] /\ stop.rows = {}
    BY <1>0, <1>1 DEF ShutdownBegins, process, environment, Stopping, NoStop, ThreadsInv, ThreadsMatch
  <2>2. {queue[i] : i \in DOMAIN queue} \subseteq Jobs
    BY <1>0
  <2>3. ThreadsType' /\ ThreadsMatch' /\ DownIsEmpty'
    BY <1>0, <2>1, <2>2 DEF ThreadsInv, ThreadsType, ThreadsMatch, DownIsEmpty
  <2>4. ChildIsSupervised' /\ WorkerOwns'
    BY <1>0, <2>1 DEF ThreadsInv, ChildIsSupervised, WorkerOwns
  <2>5. QueueHolds' /\ QueuedIsSomewhere'
    BY <1>0, <2>1 DEF ThreadsInv, QueueHolds, QueuedIsSomewhere, Tracked
  <2> QED BY <2>3, <2>4, <2>5 DEF ThreadsInv
<1>2. ASSUME NEW j \in Jobs, ShutdownCancels(j) PROVE ThreadsInv'
  <2>1. /\ UNCHANGED <<queue, worker, child, told, cancel, up, accounts>> /\ up
        /\ stop.pc = "rows" /\ j \in stop.rows /\ stop' = [stop EXCEPT !.rows = stop.rows \ {j}]
        /\ row' = IF row[j].status = "queued" THEN CancelledQueued(j) ELSE row
    BY <1>0, <1>2 DEF ShutdownCancels, process, environment, ThreadsInv, DownIsEmpty, NoStop
  <2>2. stop'.pc = "rows" /\ stop'.rows = stop.rows \ {j} /\ stop' \in [pc : {"no", "rows", "join", "audits"}, rows : SUBSET Jobs]
    BY <1>0, <2>1 DEF ThreadsInv, ThreadsType
  <2>3. /\ row'[j].status # "queued" /\ \A i \in Jobs : i # j => row'[i] = row[i]
        /\ row[j].status = "queued" => row'[j].status = "cancelled"
        /\ row[j].status # "queued" => row'[j] = row[j]
    BY <1>0, <2>1 DEF CancelledQueued, Row
  <2>4. ThreadsType' /\ ThreadsMatch' /\ DownIsEmpty'
    BY <1>0, <2>1, <2>2 DEF ThreadsInv, ThreadsType, ThreadsMatch, DownIsEmpty
  <2>5. ChildIsSupervised' /\ WorkerOwns'
    BY <1>0, <2>1, <2>3 DEF ThreadsInv, ThreadsMatch, ChildIsSupervised, WorkerOwns, HasJob
  <2>6. \A i \in DOMAIN queue : queue[i] \in Jobs \ {j}
    BY <1>0, <2>1 DEF ThreadsInv, QueueHolds
  <2>7. QueueHolds'
    BY <1>0, <2>1, <2>2, <2>3, <2>6 DEF ThreadsInv, QueueHolds
  <2>8. QueuedIsSomewhere'
    BY <1>0, <2>1, <2>2, <2>3 DEF ThreadsInv, QueuedIsSomewhere, Tracked
  <2> QED BY <2>4, <2>5, <2>7, <2>8 DEF ThreadsInv
<1>3. CASE ShutdownInterrupts \/ ShutdownJoins
  <2>0. /\ UNCHANGED <<row, queue, worker, cancel, up, accounts>>
        /\ stop.pc \in {"rows", "join"} /\ stop.rows = {}
        /\ stop' = [stop EXCEPT !.pc = "join"] \/ stop' = [stop EXCEPT !.pc = "audits"]
    <3>1. CASE ShutdownInterrupts
      BY <1>0, <3>1 DEF ShutdownInterrupts, environment
    <3>2. CASE ShutdownJoins
      BY <1>0, <3>2 DEF ShutdownJoins, ThreadsInv, ThreadsMatch
    <3> QED BY <1>3, <3>1, <3>2
  <2>1. up /\ told' \in BOOLEAN
    <3>1. up
      BY <1>0, <2>0 DEF ThreadsInv, DownIsEmpty, NoStop
    <3>2. told' = (told \/ child = "alive") \/ told' = told
      BY <1>3 DEF ShutdownInterrupts, ShutdownJoins
    <3> QED BY <1>0, <3>1, <3>2, Zenon DEF ThreadsInv, ThreadsType
  <2>2. child' = child \/ (child = "alive" /\ child' \in Exits)
    BY <1>3 DEF ShutdownInterrupts, ShutdownJoins, Exits
  <2>3. /\ stop'.pc \in {"join", "audits"} /\ stop'.rows = {}
        /\ stop' \in [pc : {"no", "rows", "join", "audits"}, rows : SUBSET Jobs]
    BY <1>0, <2>0 DEF ThreadsInv, ThreadsType
  <2>4. ThreadsType' /\ ThreadsMatch' /\ DownIsEmpty'
    BY <1>0, <2>0, <2>1, <2>2, <2>3 DEF ThreadsInv, ThreadsType, ThreadsMatch, DownIsEmpty
  <2>5. ChildIsSupervised' /\ WorkerOwns'
    BY <1>0, <2>0, <2>1, <2>2 DEF ThreadsInv, ChildIsSupervised, WorkerOwns, Exits
  <2>6. QueueHolds' /\ QueuedIsSomewhere'
    BY <2>0, <2>1, <2>3, QueueFrame
  <2> QED BY <2>4, <2>5, <2>6 DEF ThreadsInv
<1>4. CASE ShutdownAudits
  <2>1. UNCHANGED <<queue, worker, child, told, cancel, stop, up, accounts>> /\ up
    BY <1>0, <1>4 DEF ShutdownAudits, process, requests, environment, ThreadsInv, DownIsEmpty, NoStop
  <2>2. \A j \in Jobs : row'[j].status = row[j].status
    BY <1>4, AuditFrame DEF ShutdownAudits, RetryAudit, AuditRecord
  <2> QED BY <1>0, <2>1, <2>2, ThreadFrame DEF ThreadsInv, ThreadsType, ThreadsMatch
<1>5. CASE ShutdownEnds
  BY <1>5, GoneThreads DEF ShutdownEnds, environment
<1> QED BY <1>1, <1>2, <1>3, <1>4, <1>5 DEF ShutdownStep

\* The next process, and the account database.
LEMMA OtherThreads ==
    ASSUME ManagerInv, Crash \/ Restart \/ AccountsFail \/ AccountsRecover \/ UNCHANGED vars
    PROVE  ThreadsInv'
<1>0. ThreadsInv /\ row \in [Jobs -> Row]
  BY ThreadFacts
<1>1. CASE Crash
  BY <1>1, GoneThreads DEF Crash
<1>2. CASE Restart
  <2>1. /\ up' /\ up' \in BOOLEAN /\ row' = FailInterrupted
        /\ UNCHANGED <<queue, child, told, cancel, stop, accounts>>
        /\ worker' = Top \/ worker' = Off
        /\ queue = <<>> /\ child = "none" /\ cancel = NoCancel /\ stop = NoStop
    BY <1>0, <1>2 DEF Restart, process, environment, ThreadsInv, DownIsEmpty
  <2>2. worker' \in Worker /\ worker'.pc \notin HasJob
    BY <2>1, TopFacts
  <2>3. \A j \in Jobs : row'[j].status \notin Active
    BY <1>0, <2>1 DEF FailInterrupted, Row, Active
  <2>4. ThreadsType' /\ ThreadsMatch' /\ DownIsEmpty'
    BY <1>0, <2>1, <2>2 DEF ThreadsInv, ThreadsType, ThreadsMatch, DownIsEmpty, HasJob
  <2>5. ChildIsSupervised' /\ WorkerOwns'
    BY <2>1, <2>2 DEF ChildIsSupervised, WorkerOwns, HasJob
  <2>6. QueueHolds' /\ QueuedIsSomewhere'
    BY <2>1, <2>2, <2>3 DEF QueueHolds, QueuedIsSomewhere, HasJob, Active
  <2> QED BY <2>4, <2>5, <2>6 DEF ThreadsInv
<1>3. CASE AccountsFail \/ AccountsRecover \/ UNCHANGED vars
  <2>1. /\ UNCHANGED <<row, queue, worker, child, told, cancel, stop, up, auditor>>
        /\ accounts' \in BOOLEAN
    BY <1>0, <1>3 DEF AccountsFail, AccountsRecover, vars, process, requests, log, ThreadsInv, ThreadsType
  <2>2. ThreadsType' /\ ThreadsMatch' /\ DownIsEmpty'
    BY <1>0, <2>1 DEF ThreadsInv, ThreadsType, ThreadsMatch, DownIsEmpty
  <2>3. ChildIsSupervised' /\ WorkerOwns'
    BY <1>0, <2>1 DEF ThreadsInv, ChildIsSupervised, WorkerOwns
  <2>4. QueueHolds' /\ QueuedIsSomewhere'
    BY <2>1, QueueFrame
  <2> QED BY <2>2, <2>3, <2>4 DEF ThreadsInv
<1> QED BY <1>1, <1>2, <1>3
-----------------------------------------------------------------------------
(* The theorems. *)

LEMMA ManagerInit == Init => ManagerInv
<1> SUFFICES ASSUME Init PROVE ManagerInv
  OBVIOUS
<1>1. TypeOK
  <2>1. row \in [Jobs -> Row] /\ trail \in [Jobs -> [Outcomes -> Nat]]
    BY DEF Init, NewRow, Row
  <2>2. queue \in Seq(Jobs) /\ worker \in Worker
    BY TopFacts DEF Init
  <2>3. cancel \in [pc : {"idle", "try", "audit", "request"}, job : {0} \cup Jobs]
    BY DEF Init, NoCancel
  <2>4. stop \in [pc : {"no", "rows", "join", "audits"}, rows : SUBSET Jobs]
    BY DEF Init, NoStop
  <2>5. auditor \in [by : {"nobody", "worker", "cancel", "stop"}, job : {0} \cup Jobs]
    BY DEF Init, NoAuditor
  <2> QED BY <2>1, <2>2, <2>3, <2>4, <2>5 DEF Init, TypeOK
<1>2. PlacesMatch /\ DownIsEmpty /\ ChildIsSupervised /\ WorkerOwns
  BY TopFacts DEF Init, PlacesMatch, DownIsEmpty, ChildIsSupervised, WorkerOwns, HasJob, Off, At,
                  NoCancel, NoStop, NoAuditor
<1>3. QueueHolds /\ QueuedIsSomewhere /\ MarksMatch
  BY DEF Init, QueueHolds, QueuedIsSomewhere, MarksMatch, NewRow
<1>4. ClearedIsRecorded /\ NothingEarly
  BY DEF Init, ClearedIsRecorded, OutcomeIsKept, NothingEarly, NewRow
<1>5. EntriesArePaid
  <2>1. Budget = 0 /\ faults = 0 /\ auditor = NoAuditor /\ trail = [j \in Jobs |-> [a \in Outcomes |-> 0]]
    BY DEF Init, Budget, Spent, NoStop
  <2> QED BY <2>1 DEF EntriesArePaid
<1> QED BY <1>1, <1>2, <1>3, <1>4, <1>5 DEF ManagerInv

\* Every step keeps the invariant.
LEMMA ManagerStep == ManagerInv /\ [Next]_vars => ManagerInv'
<1> SUFFICES ASSUME ManagerInv, [Next]_vars PROVE ManagerInv'
  OBVIOUS
<1>1. RowsKept /\ LogKept /\ BudgetKept
  BY RowsMove, LogMoves, BudgetMoves
<1>2. ThreadsInv'
  BY SubmitThreads, CancelThreads, CancelQueuedThreads, WorkerThreads, PickThreads, ClaimThreads,
     EndThreads, ShutdownThreads, OtherThreads DEF Next, CancelStep, WorkerStep
<1>3. TypeOK'
  BY <1>1, <1>2, AuditorStep, TrailMoves DEF ThreadsInv, ThreadsType, TypeOK, RowsKept, BudgetKept
<1>4. PlacesMatch'
  BY <1>1, <1>2, AuditorStep DEF ThreadsInv, ThreadsMatch, PlacesMatch
<1> QED BY <1>1, <1>2, <1>3, <1>4, MarksStep, EarlyStep, RecordedStep, PaidStep
        DEF ManagerInv, ThreadsInv

\* Rows, queue, threads, child and audit log agree, whatever fails.
THEOREM ManagerCorrect == Spec => []ManagerInv
BY ManagerInit, ManagerStep, PTL DEF Spec

\* A child has an owner, a queued row is in one place, an outcome is in the log or marked,
\* and an entry is repeated only after a fault.
THEOREM JobsInvCorrect == Spec => []JobsInv
<1>1. ManagerInv => JobsInv
  <2> SUFFICES ASSUME ManagerInv PROVE JobsInv
    OBVIOUS
  <2>1. QueuedIsTracked
    <3> SUFFICES ASSUME up, NEW j \in Jobs, row[j].status = "queued"
                 PROVE  LET places == {i \in DOMAIN queue : queue[i] = j}
                            started == worker.pc = "claim" /\ worker.job = j
                            stopped == j \in stop.rows
                        IN \/ Cardinality(places) = 1 /\ ~started /\ ~stopped
                           \/ places = {} /\ (started \/ stopped)
      BY DEF QueuedIsTracked
    <3>1. Tracked(j)
      BY DEF ManagerInv, QueuedIsSomewhere
    <3>2. CASE \E i \in DOMAIN queue : queue[i] = j
      <4>1. PICK n \in DOMAIN queue : queue[n] = j
        BY <3>2
      <4>2. {i \in DOMAIN queue : queue[i] = j} = {n}
        BY <4>1 DEF ManagerInv, QueueHolds
      <4>3. Cardinality({n}) = 1
        BY FS_Singleton
      <4> QED BY <4>1, <4>2, <4>3 DEF ManagerInv, QueueHolds
    <3>3. CASE ~\E i \in DOMAIN queue : queue[i] = j
      <4>1. {i \in DOMAIN queue : queue[i] = j} = {}
        BY <3>3
      <4> QED BY <3>1, <3>3, <4>1 DEF Tracked
    <3> QED BY <3>2, <3>3
  <2>2. RecordedOnce
    <3> SUFFICES ASSUME NEW j \in Jobs, NEW a \in Outcomes PROVE trail[j][a] <= 1 + faults
      BY DEF RecordedOnce
    <3>1. /\ trail[j][a] <= 1 + Budget /\ trail[j][a] \in Nat
          /\ faults \in Nat /\ Budget \in Nat /\ Spent \in {0, 1}
      BY DEF ManagerInv, TypeOK, EntriesArePaid, Spent
    <3> QED BY <3>1 DEF Budget
  <2> QED BY <2>1, <2>2 DEF ManagerInv, ClearedIsRecorded, JobsInv
<1> QED BY <1>1, ManagerCorrect, PTL

\* A success or failure is never rewritten, and what was cancelled neither runs nor succeeds.
THEOREM FinishedIsFinalCorrect == Spec => FinishedIsFinal
<1>1. ManagerInv /\ [Next]_vars =>
        [\A j \in Jobs :
          /\ row[j].status \in {"succeeded", "failed"} => row'[j].status = row[j].status
          /\ row[j].status = "cancelled" => row'[j].status \in {"cancelled", "failed"}]_vars
  BY RowsMove DEF RowsKept, Moves
<1> QED BY <1>1, ManagerCorrect, PTL DEF Spec, FinishedIsFinal
=============================================================================
