--------------------------- MODULE DeliveryProofs ---------------------------
(***************************************************************************)
(* Theorems about Delivery, for every number of runs and events, with the  *)
(* operation lock or without it.                                           *)
(***************************************************************************)
EXTENDS Delivery, TLAPS

-----------------------------------------------------------------------------
(* The store operators keep the type of the table. *)

\* The rows and the runs of a well-typed state are records of their types.
LEMMA Typed ==
    ASSUME TypeOK
    PROVE  /\ \A e \in Events : row[e] \in Row
           /\ \A r \in Runs : run[r] \in Run
BY DEF TypeOK

\* A commit of well-typed rows leaves the table and its history well-typed.
LEMMA CommitType ==
    ASSUME TypeOK, NEW rows \in [Events -> Row], Commit(rows)
    PROVE  /\ row' \in [Events -> Row]
           /\ doubted' \subseteq Events
           /\ gaveUp' \subseteq Events
BY DEF Commit, TypeOK

\* The attempt counter stays a natural number.
LEMMA AttemptedType ==
    ASSUME NEW n \in Nat, NEW auth
    PROVE  Attempted(n, auth) \in Nat
BY LimitsAssumption DEF Attempted

\* Settling a row keeps its type.
LEMMA SettledType ==
    ASSUME NEW x \in Row, NEW status \in Statuses, NEW auth
    PROVE  Settled(x, status, auth) \in Row
BY AttemptedType DEF Settled, Row

\* The transactions that claim, recover, mark and release rows keep the type.
LEMMA StoreTypes ==
    ASSUME TypeOK
    PROVE  /\ RecoverSending \in [Events -> Row]
           /\ \A g : Claimed(g) \in [Events -> Row]
           /\ \A g : \A r \in Runs : ClaimedInitial(g, r) \in [Events -> Row]
           /\ \A g, auth : \A status \in Statuses :
                 Marked(g, status, auth) \in [Events -> Row]
           /\ \A g : \A status \in Statuses : Released(g, status) \in [Events -> Row]
           /\ \A r, verdict, auth : MarkedInitial(r, verdict, auth) \in [Events -> Row]
<1>1. RecoverSending \in [Events -> Row]
  BY DEF RecoverSending, TypeOK, Row, Statuses
<1>2. \A g : Claimed(g) \in [Events -> Row]
  BY DEF Claimed, TypeOK, Row, Statuses
<1>3. \A g : \A r \in Runs : ClaimedInitial(g, r) \in [Events -> Row]
  BY DEF ClaimedInitial, TypeOK, Row, Statuses
<1>4. \A g, auth : \A status \in Statuses : Marked(g, status, auth) \in [Events -> Row]
  BY SettledType DEF Marked, TypeOK
<1>5. \A g : \A status \in Statuses : Released(g, status) \in [Events -> Row]
  BY DEF Released, TypeOK, Row
<1>6. \A r, verdict, auth : MarkedInitial(r, verdict, auth) \in [Events -> Row]
  <2> TAKE r, verdict, auth
  <2> SUFFICES ASSUME NEW e \in Events PROVE MarkedInitial(r, verdict, auth)[e] \in Row
    BY DEF MarkedInitial
  <2> DEFINE x == row[e]
  <2>1. x \in Row
    BY DEF TypeOK
  <2>2. \A b \in {"pending", "ambiguous"} :
           [x EXCEPT !.status = b, !.aged = FALSE, !.stamp = NoRun, !.doubt = FALSE] \in Row
    BY <2>1 DEF Row, Statuses
  <2>3. \A b \in {"sent", "failed", "ambiguous"} : Settled(x, b, auth) \in Row
    BY <2>1, SettledType DEF Statuses
  <2> QED BY <2>1, <2>2, <2>3 DEF MarkedInitial
<1> QED BY <1>1, <1>2, <1>3, <1>4, <1>5, <1>6
-----------------------------------------------------------------------------
(* Type correctness. *)

\* An idle run is well-typed.
LEMMA IdleRunType == IdleRun \in Run
BY DEF IdleRun, Run, Phases, Verdicts

\* The next batch is taken from what the run has selected.
LEMMA NextBatchSubset ==
    ASSUME NEW r PROVE NextBatch(r) \subseteq run[r].todo
BY DEF NextBatch

\* A group is taken from its batch.
LEMMA GroupsSubset ==
    ASSUME NEW batch, NEW g \in Groups(batch)
    PROVE  g \subseteq batch
BY DEF Groups

\* The initial rows one claim covers are initial rows that are due.
LEMMA InitialGroupSubset ==
    ASSUME NEW r
    PROVE  /\ InitialGroup(r) \subseteq DueInitial(r)
           /\ InitialGroup(r) \subseteq Events
BY EventsAssumption DEF InitialGroup, DueInitial

\* A run that moves to a well-typed local state leaves all runs well-typed.
LEMMA BecomesType ==
    ASSUME TypeOK, NEW r \in Runs, NEW x \in Run, Becomes(r, x)
    PROVE  run' \in [Runs -> Run]
BY DEF TypeOK, Becomes

\* So does a run that ends, and one that goes on after it settled its rows.
LEMMA FinishType ==
    ASSUME TypeOK, NEW r \in Runs, Finish(r)
    PROVE  run' \in [Runs -> Run]
BY IdleRunType, BecomesType DEF Finish

LEMMA AfterMarkType ==
    ASSUME TypeOK, NEW r \in Runs, AfterMark(r)
    PROVE  run' \in [Runs -> Run]
<1> DEFINE p == IF ~run[r].initial THEN "next"
                ELSE IF Webhook THEN "initial" ELSE "select"
           x == [run[r] EXCEPT !.pc = p, !.group = {}, !.verdict = "none",
                               !.parts = 0, !.delivered = 0]
<1>1. x \in Run
  <2>1. p \in Phases
    BY DEF Phases
  <2> HIDE DEF p
  <2> QED BY <2>1, Typed DEF Run, Verdicts
<1>2. CASE run[r].verdict = "sent"
  <2>1. Becomes(r, x)
    BY <1>2 DEF AfterMark
  <2> QED BY <1>1, <2>1, BecomesType
<1>3. CASE run[r].verdict # "sent"
  BY <1>3, FinishType DEF AfterMark
<1> QED BY <1>2, <1>3

\* An outcome leaves the run with rows to settle.
LEMMA OutcomeType ==
    ASSUME TypeOK, NEW r \in Runs, NEW v \in Verdicts, NEW a \in BOOLEAN,
           Outcome(r, v, a)
    PROVE  run' \in [Runs -> Run]
<1>1. [run[r] EXCEPT !.pc = "mark", !.verdict = v, !.auth = a] \in Run
  BY Typed DEF Run, Phases
<1> QED BY <1>1, BecomesType DEF Outcome

\* The counters of copies stay natural numbers.
LEMMA ReachesType ==
    ASSUME TypeOK, NEW r \in Runs, Reaches(r)
    PROVE  auto' \in [Events -> Nat] /\ redone' \in [Events -> Nat]
BY DEF TypeOK, Reaches, copies

\* A step that keeps the table, its history and the counters of copies as they
\* are keeps their types.
LEMMA RowsKept ==
    ASSUME TypeOK, UNCHANGED <<row, history>>
    PROVE  row' \in [Events -> Row] /\ doubted' \subseteq Events /\ gaveUp' \subseteq Events
BY DEF TypeOK, history

LEMMA CopiesKept ==
    ASSUME TypeOK, UNCHANGED copies
    PROVE  auto' \in [Events -> Nat] /\ redone' \in [Events -> Nat]
BY DEF TypeOK, copies

LEMMA BudgetKept ==
    ASSUME TypeOK, UNCHANGED budget
    PROVE  retries' \in Nat /\ faults' \in Nat
BY DEF TypeOK, budget

\* Every way to start a run keeps the type.
LEMMA BeginType ==
    ASSUME TypeOK, NEW r \in Runs, NEW only \in SUBSET Events,
           NEW a \in BOOLEAN, NEW f \in BOOLEAN, Begin(r, only, a, f),
           retries' \in Nat
    PROVE  TypeOK'
<1>1. [IdleRun EXCEPT !.pc = IF f THEN "reset" ELSE "initial",
                      !.retry = a, !.only = only] \in Run
  BY DEF IdleRun, Run, Phases, Verdicts
<1>2. run' \in [Runs -> Run]
  BY <1>1, BecomesType DEF Begin
<1>3. row' \in [Events -> Row] /\ doubted' \subseteq Events /\ gaveUp' \subseteq Events
  BY StoreTypes, CommitType DEF Begin
<1>4. UNCHANGED copies /\ faults' = faults
  BY DEF Begin
<1> QED BY <1>2, <1>3, <1>4, CopiesKept DEF TypeOK

\* Every step of a run that is under way keeps the type.
LEMMA WorkType ==
    ASSUME TypeOK, NEW r \in Runs, Work(r)
    PROVE  TypeOK'
<1>1. CASE ResetFailed(r)
  <2> DEFINE rows == [e \in Events |->
                        IF row[e].status = "failed"
                        THEN [row[e] EXCEPT !.attempts = 0, !.aged = TRUE]
                        ELSE row[e]]
  <2>1. rows \in [Events -> Row]
    BY Typed DEF Row
  <2>2. Commit(rows)
    BY <1>1 DEF ResetFailed
  <2>3. row' \in [Events -> Row] /\ doubted' \subseteq Events /\ gaveUp' \subseteq Events
    <3> HIDE DEF rows
    <3> QED BY <2>1, <2>2, CommitType
  <2>4. [run[r] EXCEPT !.pc = "initial"] \in Run
    BY Typed DEF Run, Phases
  <2>5. run' \in [Runs -> Run]
    BY <1>1, <2>4, BecomesType DEF ResetFailed
  <2> QED BY <1>1, <2>3, <2>5, CopiesKept, BudgetKept DEF TypeOK, ResetFailed
<1>2. CASE SkipInitial(r)
  <2>1. [run[r] EXCEPT !.pc = "select"] \in Run
    BY Typed DEF Run, Phases
  <2>2. run' \in [Runs -> Run]
    BY <1>2, <2>1, BecomesType DEF SkipInitial
  <2> QED BY <1>2, <2>2, RowsKept, CopiesKept, BudgetKept DEF TypeOK, SkipInitial
<1>3. CASE ClaimInitial(r)
  <2> DEFINE group == InitialGroup(r)
             amb == {e \in group : row[e].status = "ambiguous"}
  <2>1. Commit(ClaimedInitial(group, r))
    BY <1>3 DEF ClaimInitial
  <2>2. row' \in [Events -> Row] /\ doubted' \subseteq Events /\ gaveUp' \subseteq Events
    BY <2>1, StoreTypes, CommitType
  <2>3. PICK parts \in IF Webhook THEN {1} ELSE 1..MaxParts :
          Becomes(r, [run[r] EXCEPT !.pc = "send", !.initial = TRUE, !.group = group,
                                    !.amb = amb, !.parts = parts, !.delivered = 0])
    BY <1>3 DEF ClaimInitial
  <2>4. parts \in Nat
    BY <2>3, LimitsAssumption
  <2>5. group \in SUBSET Events /\ amb \in SUBSET Events
    BY InitialGroupSubset
  <2>6. [run[r] EXCEPT !.pc = "send", !.initial = TRUE, !.group = group,
                       !.amb = amb, !.parts = parts, !.delivered = 0] \in Run
    <3> HIDE DEF group, amb
    <3> QED BY <2>4, <2>5, Typed, ZenonT(40) DEF Run, Phases
  <2>7. run' \in [Runs -> Run]
    BY <2>3, <2>6, BecomesType
  <2> QED BY <1>3, <2>2, <2>7, CopiesKept, BudgetKept DEF TypeOK, ClaimInitial
<1>4. CASE InitialTooLarge(r)
  <2>1. [run[r] EXCEPT !.pc = "mark", !.verdict = "failed"] \in Run
    BY Typed DEF Run, Phases, Verdicts
  <2>2. run' \in [Runs -> Run]
    BY <1>4, <2>1, BecomesType DEF InitialTooLarge
  <2> QED BY <1>4, <2>2, RowsKept, CopiesKept, BudgetKept DEF TypeOK, InitialTooLarge
<1>5. CASE SelectEvents(r)
  <2> DEFINE due == {e \in Events \ Initial :
                       /\ Retryable(row[e], run[r].retry)
                       /\ run[r].only = {} \/ e \in run[r].only}
             amb == {e \in due : row[e].status = "ambiguous"}
  <2>1. due \in SUBSET Events /\ amb \in SUBSET Events
    OBVIOUS
  <2>2. [run[r] EXCEPT !.pc = "build", !.initial = FALSE, !.todo = due, !.amb = amb] \in Run
    <3> HIDE DEF due, amb
    <3> QED BY <2>1, Typed DEF Run, Phases
  <2>3. Becomes(r, [run[r] EXCEPT !.pc = "build", !.initial = FALSE,
                                  !.todo = due, !.amb = amb])
    BY <1>5 DEF SelectEvents
  <2>4. run' \in [Runs -> Run]
    BY <2>2, <2>3, BecomesType
  <2> QED BY <1>5, <2>4, RowsKept, CopiesKept, BudgetKept DEF TypeOK, SelectEvents
<1>6. CASE BuildMessages(r)
  <2>1. NextBatch(r) \in SUBSET Events
    BY NextBatchSubset, Typed DEF Run
  <2>2. [run[r] EXCEPT !.pc = "next", !.batch = NextBatch(r),
                       !.todo = @ \ NextBatch(r)] \in Run
    BY <2>1, Typed DEF Run, Phases
  <2>3. run' \in [Runs -> Run]
    BY <1>6, <2>2, BecomesType DEF BuildMessages
  <2> QED BY <1>6, <2>3, RowsKept, CopiesKept, BudgetKept DEF TypeOK, BuildMessages
<1>7. CASE BuildTooLarge(r)
  <2> DEFINE batch == NextBatch(r)
  <2>1. batch \in SUBSET Events
    BY NextBatchSubset, Typed DEF Run
  <2>2. [run[r] EXCEPT !.pc = "mark", !.verdict = "failed",
                       !.group = batch, !.delivered = 0] \in Run
    <3> HIDE DEF batch
    <3> QED BY <2>1, Typed, ZenonT(40) DEF Run, Phases, Verdicts
  <2>3. CASE CanClaim(batch, batch \subseteq run[r].amb)
    <3>1. /\ Commit(Claimed(batch))
          /\ Becomes(r, [run[r] EXCEPT !.pc = "mark", !.verdict = "failed",
                                       !.group = batch, !.delivered = 0])
      BY <1>7, <2>3 DEF BuildTooLarge
    <3>2. row' \in [Events -> Row] /\ doubted' \subseteq Events /\ gaveUp' \subseteq Events
      BY <3>1, StoreTypes, CommitType
    <3>3. run' \in [Runs -> Run]
      BY <2>2, <3>1, BecomesType
    <3> QED BY <1>7, <3>2, <3>3, CopiesKept, BudgetKept DEF TypeOK, BuildTooLarge
  <2>4. CASE ~CanClaim(batch, batch \subseteq run[r].amb)
    <3>1. Finish(r) /\ UNCHANGED <<row, history>>
      BY <1>7, <2>4 DEF BuildTooLarge
    <3> QED BY <1>7, <3>1, FinishType, RowsKept, CopiesKept, BudgetKept
            DEF TypeOK, BuildTooLarge
  <2> QED BY <2>3, <2>4
<1>8. CASE ClaimGroup(r)
  <2>1. PICK group \in Groups(run[r].batch), parts \in 1..(MaxMessages - run[r].msgs) :
          \/ /\ Commit(Claimed(group))
             /\ Becomes(r, [run[r] EXCEPT !.pc = "send", !.group = group,
                                          !.parts = parts, !.delivered = 0,
                                          !.batch = @ \ group])
          \/ /\ Becomes(r, [run[r] EXCEPT !.batch = @ \ group])
             /\ UNCHANGED <<row, history>>
    BY <1>8 DEF ClaimGroup
  <2>2. group \in SUBSET Events /\ parts \in Nat
    BY GroupsSubset, Typed DEF Run
  <2>3. [run[r] EXCEPT !.pc = "send", !.group = group, !.parts = parts,
                       !.delivered = 0, !.batch = @ \ group] \in Run
    BY <2>2, Typed, ZenonT(40) DEF Run, Phases
  <2>4. [run[r] EXCEPT !.batch = @ \ group] \in Run
    BY <2>2, Typed DEF Run
  <2>5. run' \in [Runs -> Run]
    BY <2>1, <2>3, <2>4, BecomesType
  <2>6. row' \in [Events -> Row] /\ doubted' \subseteq Events /\ gaveUp' \subseteq Events
    BY <2>1, StoreTypes, CommitType, RowsKept
  <2> QED BY <1>8, <2>5, <2>6, CopiesKept, BudgetKept DEF TypeOK, ClaimGroup
<1>9. CASE LeaveBatch(r)
  <2>1. [run[r] EXCEPT !.pc = "build", !.batch = {}] \in Run
    BY Typed DEF Run, Phases
  <2>2. run' \in [Runs -> Run]
    BY <1>9, <2>1, BecomesType DEF LeaveBatch
  <2> QED BY <1>9, <2>2, RowsKept, CopiesKept, BudgetKept DEF TypeOK, LeaveBatch
<1>10. CASE EndRun(r)
  BY <1>10, FinishType, RowsKept, CopiesKept, BudgetKept DEF TypeOK, EndRun
<1>11. CASE SendConfirmed(r)
  <2> DEFINE last == run[r].delivered + 1 = run[r].parts
             p == IF last THEN "mark" ELSE "send"
             v == IF last THEN "sent" ELSE "none"
  <2>1. p \in Phases /\ v \in Verdicts
    BY DEF Phases, Verdicts
  <2>2. Becomes(r, [run[r] EXCEPT !.delivered = @ + 1, !.msgs = @ + 1, !.pc = p,
                                  !.verdict = v, !.auth = FALSE])
    BY <1>11 DEF SendConfirmed
  <2> DEFINE d == run[r].delivered + 1
             m == run[r].msgs + 1
  <2>3. d \in Nat /\ m \in Nat
    BY Typed DEF Run
  <2>5. [run[r] EXCEPT !.delivered = d, !.msgs = m, !.pc = p,
                       !.verdict = v, !.auth = FALSE] \in Run
    <3> HIDE DEF p, v, d, m
    <3> QED BY <2>1, <2>3, Typed DEF Run
  <2>4. run' \in [Runs -> Run]
    BY <2>2, <2>5, BecomesType
  <2> QED BY <1>11, <2>4, RowsKept, ReachesType, BudgetKept DEF TypeOK, SendConfirmed
<1>12. CASE SendUnconfirmed(r)
  BY <1>12, OutcomeType, RowsKept, ReachesType, BudgetKept
     DEF TypeOK, SendUnconfirmed, Verdicts
<1>13. CASE SendInterrupted(r)
  BY <1>13, OutcomeType, RowsKept, CopiesKept, BudgetKept
     DEF TypeOK, SendInterrupted, Verdicts
<1>14. ASSUME NEW auth \in BOOLEAN, SendRefused(r, auth) PROVE TypeOK'
  BY <1>14, OutcomeType, RowsKept, CopiesKept, BudgetKept
     DEF TypeOK, SendRefused, Verdicts
<1>15. CASE SendTooLate(r)
  BY <1>15, OutcomeType, RowsKept, CopiesKept, BudgetKept
     DEF TypeOK, SendTooLate, Verdicts
<1>16. CASE MarkInitial(r)
  <2>1. row' \in [Events -> Row] /\ doubted' \subseteq Events /\ gaveUp' \subseteq Events
    BY <1>16, StoreTypes, CommitType DEF MarkInitial
  <2> QED BY <1>16, <2>1, AfterMarkType, CopiesKept, BudgetKept DEF TypeOK, MarkInitial
<1>17. CASE MarkDelivery(r)
  <2>1. \E rows \in [Events -> Row] : Commit(rows)
    BY <1>17, StoreTypes DEF MarkDelivery, Statuses
  <2>2. row' \in [Events -> Row] /\ doubted' \subseteq Events /\ gaveUp' \subseteq Events
    BY <2>1, CommitType
  <2> QED BY <1>17, <2>2, AfterMarkType, CopiesKept, BudgetKept DEF TypeOK, MarkDelivery
<1> QED BY <1>1, <1>2, <1>3, <1>4, <1>5, <1>6, <1>7, <1>8, <1>9, <1>10, <1>11, <1>12,
           <1>13, <1>14, <1>15, <1>16, <1>17 DEF Work

\* Every step of the specification keeps the type.
LEMMA TypeStep ==
    ASSUME TypeOK, [Next]_vars
    PROVE  TypeOK'
<1>1. ASSUME NEW e \in Events, Enqueue(e) PROVE TypeOK'
  <2>1. [row[e] EXCEPT !.status = "pending"] \in Row
    BY Typed DEF Row, Statuses
  <2>2. [row EXCEPT ![e].status = "pending"] \in [Events -> Row]
    BY <2>1 DEF TypeOK
  <2>3. row' \in [Events -> Row] /\ doubted' \subseteq Events /\ gaveUp' \subseteq Events
    BY <1>1, <2>2, CommitType DEF Enqueue
  <2> QED BY <1>1, <2>3, CopiesKept, BudgetKept DEF TypeOK, Enqueue
<1>2. ASSUME NEW e \in Events, TimePasses(e) PROVE TypeOK'
  <2>1. [row[e] EXCEPT !.aged = TRUE] \in Row
    BY Typed DEF Row
  <2>2. row' \in [Events -> Row]
    BY <1>2, <2>1 DEF TypeOK, TimePasses
  <2> QED BY <1>2, <2>2, CopiesKept, BudgetKept DEF TypeOK, TimePasses, history
<1>3. ASSUME NEW r \in Runs, Start(r) PROVE TypeOK'
  <2>1. \E only \in SUBSET Events : Begin(r, only, FALSE, FALSE)
    BY <1>3, EventsAssumption DEF Start
  <2> QED BY <1>3, <2>1, BeginType DEF Start, TypeOK
<1>4. ASSUME NEW r \in Runs, OperatorStart(r) PROVE TypeOK'
  <2>1. retries' \in Nat
    BY <1>4 DEF OperatorStart, TypeOK
  <2> QED BY <1>4, <2>1, BeginType DEF OperatorStart
<1>5. ASSUME NEW r \in Runs, Crash(r) PROVE TypeOK'
  <2>1. row' \in [Events -> Row]
    BY <1>5, Typed DEF Crash, Row
  <2>2. faults' \in Nat
    BY <1>5 DEF Crash, TypeOK
  <2> QED BY <1>5, <2>1, <2>2, FinishType, CopiesKept DEF TypeOK, Crash, history
<1>6. ASSUME NEW r \in Runs, Expire(r) PROVE TypeOK'
  <2>1. [run[r] EXCEPT !.late = TRUE] \in Run
    BY Typed DEF Run
  <2>2. run' \in [Runs -> Run]
    BY <1>6, <2>1, BecomesType DEF Expire
  <2>3. faults' \in Nat
    BY <1>6 DEF Expire, TypeOK
  <2> QED BY <1>6, <2>2, <2>3, RowsKept, CopiesKept DEF TypeOK, Expire
<1>7. CASE UNCHANGED vars
  BY <1>7 DEF TypeOK, vars
<1> QED BY <1>1, <1>2, <1>3, <1>4, <1>5, <1>6, <1>7, WorkType DEF Next

\* Every reachable state of the outbox is well-typed.
THEOREM TypeCorrect == Spec => []TypeOK
<1>1. Init => TypeOK
  BY IdleRunType DEF Init, TypeOK, NewRow, Row, Statuses
<1> QED BY <1>1, TypeStep, PTL DEF Spec
-----------------------------------------------------------------------------
(* No event is sent twice by automatic attempts, however many runs overlap, *)
(* stall or die: LicenceInv is inductive.                                   *)

\* The part of the invariant that speaks of one event, as a fact to cite.
LEMMA LicenceFacts ==
    ASSUME LicenceInv
    PROVE  /\ \A e \in Events : auto[e] \in Nat /\ auto[e] <= 1
           /\ \A e \in Events : row[e].status \in Owed => auto[e] = 0
           /\ \A r \in Runs, e \in Events :
                 Fresh(run[r], e) => auto[e] = 0 /\ row[e].status \notin Owed
           /\ \A r, s \in Runs, e \in Events :
                 Fresh(run[r], e) /\ Fresh(run[s], e) => r = s
           /\ \A e \in Events : row[e].stamp # NoRun =>
                 row[e].stamp \in Runs /\ Names(row[e], run[row[e].stamp], e)
           /\ \A r \in Runs : Consistent(run[r])
<1>1. \A e \in Events : row[e].stamp \in Runs \cup {NoRun}
  BY Typed DEF LicenceInv, Row
<1>2. \A e \in Events : auto[e] \in Nat
  BY DEF LicenceInv, TypeOK
<1> QED BY <1>1, <1>2 DEF LicenceInv, AtMostOnce, OwedHasNoCopy, LicenceIsOut,
           LicenceIsUnique, StampNamesHolder, RunsAreConsistent

\* A step of run r to local state x keeps the invariant when the events it and
\* the other runs hold stay unsent and claimed, and no other run holds its own.
LEMMA StepOfRun ==
    ASSUME LicenceInv, TypeOK', NEW r \in Runs, NEW x, Becomes(r, x), Consistent(x),
           \A e \in Events : auto'[e] <= 1,
           \A e \in Events : row'[e].status \in Owed => auto'[e] = 0,
           \A e \in Events : Fresh(x, e) => auto'[e] = 0 /\ row'[e].status \notin Owed,
           \A s \in Runs, e \in Events : s # r /\ Fresh(run[s], e) =>
              ~Fresh(x, e) /\ auto'[e] = 0 /\ row'[e].status \notin Owed,
           \A e \in Events : row'[e].stamp # NoRun =>
              Names(row'[e], IF row'[e].stamp = r THEN x ELSE run[row'[e].stamp], e)
    PROVE  LicenceInv'
<1>1. run'[r] = x /\ \A s \in Runs : s # r => run'[s] = run[s]
  BY DEF Becomes, LicenceInv, TypeOK
<1>2. \A e \in Events : row'[e].stamp \in Runs \cup {NoRun}
  BY DEF TypeOK, Row
<1>3. AtMostOnce'
  BY DEF AtMostOnce
<1>4. OwedHasNoCopy'
  BY DEF OwedHasNoCopy
<1>5. LicenceIsOut'
  BY <1>1 DEF LicenceIsOut
<1>6. LicenceIsUnique'
  <2> SUFFICES ASSUME NEW p \in Runs, NEW s \in Runs, NEW e \in Events,
                      Fresh(run'[p], e), Fresh(run'[s], e)
               PROVE  p = s
    BY DEF LicenceIsUnique
  <2> QED BY <1>1, LicenceFacts
<1>7. StampNamesHolder'
  BY <1>1, <1>2 DEF StampNamesHolder
<1>8. RunsAreConsistent'
  BY <1>1, LicenceFacts DEF RunsAreConsistent
<1> QED BY <1>3, <1>4, <1>5, <1>6, <1>7, <1>8 DEF LicenceInv

\* A step that only moves run r keeps it when r holds nothing new and the rows
\* that bear its stamp are still of its group.
LEMMA LocalStep ==
    ASSUME LicenceInv, TypeOK', NEW r \in Runs, NEW x, Becomes(r, x), Consistent(x),
           row' = row, auto' = auto,
           \A e \in Events : Fresh(x, e) => Fresh(run[r], e),
           \A e \in Events : Names(row[e], run[r], e) => Names(row[e], x, e)
    PROVE  LicenceInv'
<1>1. \A e \in Events : row'[e].stamp # NoRun =>
         Names(row'[e], IF row'[e].stamp = r THEN x ELSE run[row'[e].stamp], e)
  BY LicenceFacts
<1>2. \A s \in Runs, e \in Events : s # r /\ Fresh(run[s], e) =>
         ~Fresh(x, e) /\ auto'[e] = 0 /\ row'[e].status \notin Owed
  BY LicenceFacts
<1>3. \A e \in Events : auto'[e] <= 1 /\ (row'[e].status \in Owed => auto'[e] = 0)
  BY LicenceFacts
<1>4. \A e \in Events : Fresh(x, e) => auto'[e] = 0 /\ row'[e].status \notin Owed
  BY LicenceFacts
<1> QED BY <1>1, <1>2, <1>3, <1>4, StepOfRun

\* A run that holds no rows names none and is fresh for none.
LEMMA Unclaimed ==
    ASSUME NEW x, ~Claiming(x)
    PROVE  \A e : ~Fresh(x, e) /\ \A y : ~Names(y, x, e)
BY DEF Claiming, Fresh, Names

\* An idle run is consistent and holds nothing.
LEMMA IdleRunConsistent == Consistent(IdleRun) /\ ~Claiming(IdleRun)
BY DEF Consistent, Claiming, IdleRun, Uniform
-----------------------------------------------------------------------------
(* Steps that leave the table alone. *)

\* A run that lets its rows go keeps the invariant when only rows it held for an
\* event that is not out become due again, and no row bears its stamp any more.
LEMMA ReleaseLicence ==
    ASSUME LicenceInv, TypeOK', NEW r \in Runs, NEW x, Becomes(r, x),
           Consistent(x), ~Claiming(x), auto' = auto,
           \A e \in Events : \/ row'[e].status = row[e].status
                            \/ row'[e].status \notin Owed
                            \/ Fresh(run[r], e),
           \A e \in Events : row'[e].stamp # NoRun =>
              row'[e] = row[e] /\ row[e].stamp # r
    PROVE  LicenceInv'
<1>1. \A e \in Events : auto'[e] <= 1 /\ (row'[e].status \in Owed => auto'[e] = 0)
  BY LicenceFacts
<1>2. \A e \in Events : ~Fresh(x, e)
  BY Unclaimed
<1>3. \A s \in Runs, e \in Events : s # r /\ Fresh(run[s], e) =>
         ~Fresh(x, e) /\ auto'[e] = 0 /\ row'[e].status \notin Owed
  BY <1>2, LicenceFacts
<1>4. \A e \in Events : row'[e].stamp # NoRun =>
         Names(row'[e], IF row'[e].stamp = r THEN x ELSE run[row'[e].stamp], e)
  BY LicenceFacts
<1> QED BY <1>1, <1>2, <1>3, <1>4, StepOfRun

\* The stamp of a row is cleared unless a claiming run owns it.
LEMMA StampFacts ==
    ASSUME LicenceInv
    PROVE  \A e \in Events : row[e].stamp # NoRun =>
              /\ e \in Initial /\ row[e].status = "sending"
              /\ \A r \in Runs : ~Claiming(run[r]) \/ ~run[r].initial => row[e].stamp # r
BY LicenceFacts DEF Names

\* Moving between phases without rows.
LEMMA QuietLicence ==
    ASSUME LicenceInv, TypeOK', NEW r \in Runs,
           \/ SkipInitial(r) \/ SelectEvents(r) \/ BuildMessages(r) \/ LeaveBatch(r)
    PROVE  LicenceInv'
<1>1. Consistent(run[r]) /\ run[r] \in Run
  BY LicenceFacts, Typed DEF LicenceInv
<1>2. row' = row /\ auto' = auto
  BY DEF SkipInitial, SelectEvents, BuildMessages, LeaveBatch, copies
<1>3. CASE SkipInitial(r)
  <2> DEFINE x == [run[r] EXCEPT !.pc = "select"]
  <2>1. Becomes(r, x) /\ run[r].pc = "initial"
    BY <1>3 DEF SkipInitial
  <2>2. Consistent(x) /\ ~Claiming(x) /\ ~Claiming(run[r])
    BY <1>1, <2>1 DEF Consistent, Claiming, Run, Uniform
  <2> QED BY <1>2, <2>1, <2>2, LocalStep, Unclaimed
<1>4. CASE SelectEvents(r)
  <2> DEFINE due == {e \in Events \ Initial :
                       /\ Retryable(row[e], run[r].retry)
                       /\ run[r].only = {} \/ e \in run[r].only}
             amb == {e \in due : row[e].status = "ambiguous"}
             x == [run[r] EXCEPT !.pc = "build", !.initial = FALSE,
                                 !.todo = due, !.amb = amb]
  <2>1. Becomes(r, x) /\ run[r].pc = "select"
    BY <1>4 DEF SelectEvents
  <2>2. Consistent(x) /\ ~Claiming(x) /\ ~Claiming(run[r])
    <3>1. due \cap Initial = {}
      OBVIOUS
    <3>2. run[r].batch = {}
      BY <1>1, <2>1 DEF Consistent
    <3> HIDE DEF due, amb
    <3> QED BY <1>1, <2>1, <3>1, <3>2 DEF Consistent, Claiming, Run, Uniform
  <2> QED BY <1>2, <2>1, <2>2, LocalStep, Unclaimed
<1>5. CASE BuildMessages(r)
  <2> DEFINE x == [run[r] EXCEPT !.pc = "next", !.batch = NextBatch(r),
                                 !.todo = @ \ NextBatch(r)]
  <2>1. Becomes(r, x) /\ run[r].pc = "build"
    BY <1>5 DEF BuildMessages
  <2>2. Consistent(x) /\ ~Claiming(x) /\ ~Claiming(run[r])
    <3>1. NextBatch(r) \subseteq run[r].todo
      BY NextBatchSubset
    <3>2. NextBatch(r) \subseteq Notices \/ Uniform(run[r], NextBatch(r))
      BY DEF NextBatch, Uniform
    <3> QED BY <1>1, <2>1, <3>1, <3>2 DEF Consistent, Claiming, Run, Uniform
  <2> QED BY <1>2, <2>1, <2>2, LocalStep, Unclaimed
<1>6. CASE LeaveBatch(r)
  <2> DEFINE x == [run[r] EXCEPT !.pc = "build", !.batch = {}]
  <2>1. Becomes(r, x) /\ run[r].pc = "next"
    BY <1>6 DEF LeaveBatch
  <2>2. Consistent(x) /\ ~Claiming(x) /\ ~Claiming(run[r])
    BY <1>1, <2>1 DEF Consistent, Claiming, Run, Uniform
  <2> QED BY <1>2, <2>1, <2>2, LocalStep, Unclaimed
<1> QED BY <1>3, <1>4, <1>5, <1>6

\* An attempt that ends without a copy, and a deadline that passes.
LEMMA UnsentLicence ==
    ASSUME LicenceInv, TypeOK', NEW r \in Runs,
           \/ InitialTooLarge(r) \/ SendInterrupted(r) \/ SendTooLate(r) \/ Expire(r)
           \/ \E auth \in BOOLEAN : SendRefused(r, auth)
    PROVE  LicenceInv'
<1>1. Consistent(run[r]) /\ run[r] \in Run
  BY LicenceFacts, Typed DEF LicenceInv
<1>2. row' = row /\ auto' = auto
  BY DEF InitialTooLarge, SendInterrupted, SendTooLate, SendRefused, Expire, copies
<1>3. ASSUME NEW v \in Verdicts \ {"none"}, NEW auth \in BOOLEAN,
             run[r].pc = "send", Outcome(r, v, auth),
             v \in {"failed", "expired"} => run[r].delivered = 0
      PROVE  LicenceInv'
  <2> DEFINE x == [run[r] EXCEPT !.pc = "mark", !.verdict = v, !.auth = auth]
  <2>1. Becomes(r, x)
    BY <1>3 DEF Outcome
  <2>2. Consistent(x)
    BY <1>1, <1>3 DEF Consistent, Claiming, Run, Uniform
  <2>3. \A e \in Events : Fresh(x, e) => Fresh(run[r], e)
    BY <1>1, <1>3 DEF Fresh, Run
  <2>4. \A e \in Events : Names(row[e], run[r], e) => Names(row[e], x, e)
    BY <1>1 DEF Names, Claiming, Run
  <2> QED BY <1>2, <2>1, <2>2, <2>3, <2>4, LocalStep
<1>4. CASE InitialTooLarge(r)
  <2> DEFINE x == [run[r] EXCEPT !.pc = "mark", !.verdict = "failed"]
  <2>1. Becomes(r, x) /\ run[r].pc = "send" /\ run[r].delivered = 0 /\ run[r].initial
    BY <1>4 DEF InitialTooLarge
  <2>2. Consistent(x)
    BY <1>1, <2>1 DEF Consistent, Claiming, Run, Uniform
  <2>3. \A e \in Events : Fresh(x, e) => Fresh(run[r], e)
    BY <1>1, <2>1 DEF Fresh, Run
  <2>4. \A e \in Events : Names(row[e], run[r], e) => Names(row[e], x, e)
    BY <1>1 DEF Names, Claiming, Run
  <2> QED BY <1>2, <2>1, <2>2, <2>3, <2>4, LocalStep
<1>5. CASE SendInterrupted(r)
  BY <1>3, <1>5 DEF SendInterrupted, Verdicts
<1>6. CASE SendTooLate(r)
  <2>1. run[r].delivered \in Nat
    BY <1>1 DEF Run
  <2>2. CASE run[r].delivered > 0
    BY <1>3, <1>6, <2>2 DEF SendTooLate, Verdicts
  <2>3. CASE run[r].delivered = 0
    BY <1>3, <1>6, <2>3 DEF SendTooLate, Verdicts
  <2> QED BY <2>1, <2>2, <2>3
<1>7. ASSUME NEW auth \in BOOLEAN, SendRefused(r, auth) PROVE LicenceInv'
  <2>1. run[r].delivered \in Nat
    BY <1>1 DEF Run
  <2>2. CASE run[r].delivered > 0
    BY <1>3, <1>7, <2>2 DEF SendRefused, Verdicts
  <2>3. CASE run[r].delivered = 0
    BY <1>3, <1>7, <2>3 DEF SendRefused, Verdicts
  <2> QED BY <2>1, <2>2, <2>3
<1>8. CASE Expire(r)
  <2> DEFINE x == [run[r] EXCEPT !.late = TRUE]
  <2>1. Becomes(r, x)
    BY <1>8 DEF Expire
  <2>2. Consistent(x)
    BY <1>1 DEF Consistent, Claiming, Run, Uniform
  <2>3. \A e \in Events : Fresh(x, e) => Fresh(run[r], e)
    BY <1>1 DEF Fresh, Run
  <2>4. \A e \in Events : Names(row[e], run[r], e) => Names(row[e], x, e)
    BY <1>1 DEF Names, Claiming, Run
  <2> QED BY <1>2, <2>1, <2>2, <2>3, <2>4, LocalStep
<1> QED BY <1>4, <1>5, <1>6, <1>7, <1>8
-----------------------------------------------------------------------------
(* Copies. *)

\* The provider takes the first part only from a run that holds the event, and
\* the run holds it no more.
LEMMA SentLicence ==
    ASSUME LicenceInv, TypeOK', NEW r \in Runs, SendConfirmed(r) \/ SendUnconfirmed(r)
    PROVE  LicenceInv'
<1>1. Consistent(run[r]) /\ run[r] \in Run /\ run[r].delivered \in Nat
  BY LicenceFacts, Typed DEF LicenceInv, Run
<1>2. row' = row /\ Reaches(r) /\ run[r].pc = "send"
  BY DEF SendConfirmed, SendUnconfirmed
<1>3. \A e \in Events :
         \/ auto'[e] = auto[e]
         \/ Fresh(run[r], e) /\ auto'[e] = auto[e] + 1
  BY <1>1, <1>2 DEF Reaches, Fresh, copies
<1>4. PICK x \in Run :
         /\ Becomes(r, x)
         /\ Consistent(x)
         /\ \A e \in Events : ~Fresh(x, e)
         /\ \A e \in Events : Names(row[e], run[r], e) => Names(row[e], x, e)
  <2>1. CASE SendConfirmed(r)
    <3> DEFINE last == run[r].delivered + 1 = run[r].parts
               p == IF last THEN "mark" ELSE "send"
               v == IF last THEN "sent" ELSE "none"
               d == run[r].delivered + 1
               m == run[r].msgs + 1
               x == [run[r] EXCEPT !.delivered = d, !.msgs = m, !.pc = p,
                                   !.verdict = v, !.auth = FALSE]
    <3>1. Becomes(r, x)
      BY <2>1 DEF SendConfirmed
    <3>2. /\ d \in Nat \ {0} /\ m \in Nat
          /\ \/ p = "mark" /\ v = "sent"
             \/ p = "send" /\ v = "none"
      BY <1>1 DEF Run
    <3> HIDE DEF p, v, d, m
    <3>3. x \in Run
      BY <1>1, <3>2 DEF Run, Phases, Verdicts
    <3>4. Consistent(x)
      BY <1>1, <1>2, <3>2 DEF Consistent, Claiming, Run, Uniform
    <3>5. \A e \in Events : ~Fresh(x, e)
      BY <1>1, <3>2 DEF Fresh, Run
    <3>6. \A e \in Events : Names(row[e], run[r], e) => Names(row[e], x, e)
      BY <1>1, <3>2 DEF Names, Claiming, Run
    <3> QED BY <3>1, <3>3, <3>4, <3>5, <3>6
  <2>2. CASE SendUnconfirmed(r)
    <3> DEFINE x == [run[r] EXCEPT !.pc = "mark", !.verdict = "ambiguous", !.auth = FALSE]
    <3>1. Becomes(r, x)
      BY <2>2 DEF SendUnconfirmed, Outcome
    <3>2. x \in Run
      BY <1>1 DEF Run, Phases, Verdicts
    <3>3. Consistent(x)
      BY <1>1, <1>2 DEF Consistent, Claiming, Run, Uniform
    <3>4. \A e \in Events : ~Fresh(x, e)
      BY <1>1 DEF Fresh, Run
    <3>5. \A e \in Events : Names(row[e], run[r], e) => Names(row[e], x, e)
      BY <1>1 DEF Names, Claiming, Run
    <3> QED BY <3>1, <3>2, <3>3, <3>4, <3>5
  <2> QED BY <2>1, <2>2
<1>5. \A e \in Events : auto'[e] <= 1 /\ (row'[e].status \in Owed => auto'[e] = 0)
  BY <1>2, <1>3, LicenceFacts
<1>6. \A s \in Runs, e \in Events : s # r /\ Fresh(run[s], e) =>
         ~Fresh(x, e) /\ auto'[e] = 0 /\ row'[e].status \notin Owed
  BY <1>2, <1>3, <1>4, LicenceFacts
<1>7. \A e \in Events : row'[e].stamp # NoRun =>
         Names(row'[e], IF row'[e].stamp = r THEN x ELSE run[row'[e].stamp], e)
  BY <1>2, <1>4, LicenceFacts
<1> QED BY <1>4, <1>5, <1>6, <1>7, StepOfRun
-----------------------------------------------------------------------------
(* Runs that start, end or die, new events, and the passing of time. *)

\* Recovering, resetting and ending hand no row to an automatic retry.
LEMMA StartStopLicence ==
    ASSUME LicenceInv, TypeOK', NEW r \in Runs,
           \/ \E only \in SUBSET Events, a, f \in BOOLEAN : Begin(r, only, a, f)
           \/ ResetFailed(r) \/ EndRun(r) \/ Crash(r)
    PROVE  LicenceInv'
<1>1. Consistent(run[r]) /\ run[r] \in Run /\ \A e \in Events : row[e] \in Row
  BY LicenceFacts, Typed DEF LicenceInv
<1>2. auto' = auto
  BY DEF Begin, ResetFailed, EndRun, Crash, copies
<1>3. ASSUME NEW only \in SUBSET Events, NEW a \in BOOLEAN, NEW f \in BOOLEAN,
             Begin(r, only, a, f)
      PROVE  LicenceInv'
  <2> DEFINE p == IF f THEN "reset" ELSE "initial"
             x == [IdleRun EXCEPT !.pc = p, !.retry = a, !.only = only]
  <2>1. Becomes(r, x) /\ row' = RecoverSending /\ run[r].pc = "idle"
    BY <1>3 DEF Begin, Commit
  <2>2. p \in {"reset", "initial"}
    OBVIOUS
  <2>3. Consistent(x) /\ ~Claiming(x)
    <3> HIDE DEF p
    <3> QED BY <2>2 DEF Consistent, Claiming, IdleRun, Uniform
  <2>4. \A e \in Events : row'[e].status = row[e].status \/ row'[e].status \notin Owed
    BY <1>1, <2>1 DEF RecoverSending, Owed, Row
  <2>5. \A e \in Events : row'[e].stamp # NoRun => row'[e] = row[e] /\ row[e].stamp # r
    <3>1. \A e \in Events : row'[e].stamp # NoRun => row'[e] = row[e]
      BY <1>1, <2>1 DEF RecoverSending, Row
    <3> QED BY <2>1, <3>1, StampFacts DEF Claiming
  <2> QED BY <1>2, <2>1, <2>3, <2>4, <2>5, ReleaseLicence
<1>4. CASE ResetFailed(r)
  <2> DEFINE x == [run[r] EXCEPT !.pc = "initial"]
  <2>1. /\ Becomes(r, x) /\ run[r].pc = "reset"
        /\ row' = [e \in Events |-> IF row[e].status = "failed"
                                    THEN [row[e] EXCEPT !.attempts = 0, !.aged = TRUE]
                                    ELSE row[e]]
    BY <1>4 DEF ResetFailed, Commit
  <2>2. Consistent(x) /\ ~Claiming(x)
    BY <1>1, <2>1 DEF Consistent, Claiming, Run, Uniform
  <2>3. \A e \in Events : row'[e].status = row[e].status /\ row'[e].stamp = row[e].stamp
    BY <1>1, <2>1 DEF Row
  <2>4. \A e \in Events : row'[e].stamp # NoRun => row'[e] = row[e] /\ row[e].stamp # r
    BY <2>1, <2>3, StampFacts DEF Claiming
  <2> QED BY <1>2, <2>1, <2>2, <2>3, <2>4, ReleaseLicence
<1>5. CASE EndRun(r)
  <2>1. Becomes(r, IdleRun) /\ row' = row /\ ~Claiming(run[r])
    BY <1>5 DEF EndRun, Finish, Claiming
  <2> QED BY <1>2, <2>1, StampFacts, IdleRunConsistent, ReleaseLicence
<1>6. CASE Crash(r)
  <2>1. /\ Becomes(r, IdleRun)
        /\ row' = [e \in Events |-> IF row[e].stamp = r
                                    THEN [row[e] EXCEPT !.stamp = NoRun] ELSE row[e]]
    BY <1>6 DEF Crash, Finish
  <2>2. \A e \in Events : row'[e].status = row[e].status
    BY <1>1, <2>1 DEF Row
  <2>3. \A e \in Events : row'[e].stamp # NoRun => row'[e] = row[e] /\ row[e].stamp # r
    BY <1>1, <2>1 DEF Row
  <2> QED BY <1>2, <2>1, <2>2, <2>3, IdleRunConsistent, ReleaseLicence
<1> QED BY <1>3, <1>4, <1>5, <1>6

\* An event that arrives, and a row that becomes old.
LEMMA RowLicence ==
    ASSUME LicenceInv, NEW e \in Events, Enqueue(e) \/ TimePasses(e)
    PROVE  LicenceInv'
<1>1. TypeOK'
  BY TypeStep DEF LicenceInv, Next
<1>2. run' = run /\ auto' = auto
  BY DEF Enqueue, TimePasses, copies
<1>3. row[e] \in Row
  BY Typed DEF LicenceInv
<1>4. \A d \in Events :
         \/ row'[d] = row[d]
         \/ /\ row'[d].stamp = row[d].stamp /\ row'[d].doubt = row[d].doubt
            /\ \/ row'[d].status = row[d].status
               \/ row[d].status = "absent" /\ row'[d].status = "pending"
  <2>1. CASE Enqueue(e)
    <3>1. row' = [row EXCEPT ![e].status = "pending"] /\ row[e].status = "absent"
      BY <2>1 DEF Enqueue, Commit
    <3>2. row' = [row EXCEPT ![e] = [row[e] EXCEPT !.status = "pending"]]
      BY <3>1
    <3> QED BY <1>3, <3>1, <3>2 DEF LicenceInv, TypeOK, Row
  <2>2. CASE TimePasses(e)
    <3>1. row' = [row EXCEPT ![e] = [row[e] EXCEPT !.aged = TRUE]]
      BY <2>2 DEF TimePasses
    <3> QED BY <1>3, <3>1 DEF LicenceInv, TypeOK, Row
  <2> QED BY <2>1, <2>2
<1>5. AtMostOnce'
  BY <1>2 DEF LicenceInv, AtMostOnce
<1>6. OwedHasNoCopy'
  BY <1>2, <1>4, LicenceFacts DEF OwedHasNoCopy, Owed
<1>7. LicenceIsOut'
  <2>1. \A d \in Events : row[d].status \notin Owed => row'[d].status \notin Owed
    BY <1>4 DEF Owed
  <2> QED BY <1>2, <2>1, LicenceFacts DEF LicenceIsOut
<1>8. LicenceIsUnique' /\ RunsAreConsistent'
  BY <1>2, LicenceFacts DEF LicenceIsUnique, RunsAreConsistent
<1>9. StampNamesHolder'
  <2>1. \A d \in Events : row'[d].stamp # NoRun =>
           /\ row[d].stamp = row'[d].stamp /\ row'[d].doubt = row[d].doubt
           /\ row'[d].status = row[d].status
    BY <1>4, StampFacts
  <2> QED BY <1>2, <2>1, LicenceFacts DEF StampNamesHolder, Names
<1> QED BY <1>1, <1>5, <1>6, <1>7, <1>8, <1>9 DEF LicenceInv
-----------------------------------------------------------------------------
(* Claims. *)

\* A run that claims rows, each of them due or ambiguous before, becomes the
\* only holder of those that were due.
LEMMA ClaimLicence ==
    ASSUME LicenceInv, TypeOK', NEW r \in Runs, NEW x, Becomes(r, x), Consistent(x),
           ~Claiming(run[r]), auto' = auto,
           \A e \in Events : row'[e] # row[e] => row'[e].status = "sending",
           \A e \in Events : Fresh(x, e) =>
              row[e].status \in Owed /\ row'[e].status = "sending",
           \A e \in Events : row'[e].stamp # NoRun =>
              \/ row'[e] = row[e]
              \/ row'[e].stamp = r /\ Names(row'[e], x, e)
    PROVE  LicenceInv'
<1>1. \A e \in Events : row'[e].status \in Owed => row'[e] = row[e]
  BY DEF Owed
<1>2. \A e \in Events : auto'[e] <= 1 /\ (row'[e].status \in Owed => auto'[e] = 0)
  BY <1>1, LicenceFacts
<1>3. \A e \in Events : Fresh(x, e) => auto'[e] = 0 /\ row'[e].status \notin Owed
  BY LicenceFacts DEF Owed
<1>4. \A s \in Runs, e \in Events : s # r /\ Fresh(run[s], e) =>
         ~Fresh(x, e) /\ auto'[e] = 0 /\ row'[e].status \notin Owed
  BY <1>1, LicenceFacts
<1>5. \A e \in Events : row'[e].stamp # NoRun =>
         Names(row'[e], IF row'[e].stamp = r THEN x ELSE run[row'[e].stamp], e)
  BY LicenceFacts, StampFacts
<1> QED BY <1>2, <1>3, <1>4, <1>5, StepOfRun

\* claim_initial_digest and claim_initial_chunk.
LEMMA ClaimInitialLicence ==
    ASSUME LicenceInv, TypeOK', NEW r \in Runs, ClaimInitial(r)
    PROVE  LicenceInv'
<1> DEFINE group == InitialGroup(r)
           amb == {e \in group : row[e].status = "ambiguous"}
<1>1. Consistent(run[r]) /\ run[r] \in Run /\ \A e \in Events : row[e] \in Row
  BY LicenceFacts, Typed DEF LicenceInv
<1>2. auto' = auto /\ row' = ClaimedInitial(group, r) /\ run[r].pc = "initial"
  BY DEF ClaimInitial, Commit, copies
<1>3. PICK parts \in IF Webhook THEN {1} ELSE 1..MaxParts :
        Becomes(r, [run[r] EXCEPT !.pc = "send", !.initial = TRUE, !.group = group,
                                  !.amb = amb, !.parts = parts, !.delivered = 0])
  BY DEF ClaimInitial
<1>4. \A e \in group : /\ e \in Initial /\ e \in Events
                       /\ row[e].status \in {"pending", "failed", "ambiguous"}
  BY InitialGroupSubset DEF DueInitial, Retryable
<1> DEFINE x == [run[r] EXCEPT !.pc = "send", !.initial = TRUE, !.group = group,
                               !.amb = amb, !.parts = parts, !.delivered = 0]
<1>5. /\ x.pc = "send" /\ x.initial /\ x.group = group /\ x.amb = amb
      /\ x.todo = run[r].todo /\ x.batch = run[r].batch
  BY <1>1 DEF Run
<1>6. Becomes(r, x)
  BY <1>3
<1> HIDE DEF x
<1>7. Consistent(x)
  BY <1>1, <1>2, <1>5 DEF Consistent, Claiming, Uniform
<1>8. \A e \in Events : row'[e] # row[e] => row'[e].status = "sending"
  BY <1>1, <1>2 DEF ClaimedInitial, Row
<1>9. \A e \in group : /\ row'[e].status = "sending" /\ row'[e].stamp = r
                       /\ row'[e].doubt = (row[e].status = "ambiguous")
  BY <1>1, <1>2, <1>4 DEF ClaimedInitial, Row
<1>10. \A e \in Events : Fresh(x, e) => row[e].status \in Owed /\ row'[e].status = "sending"
  BY <1>4, <1>5, <1>9 DEF Fresh, Owed
<1>11. \A e \in group : row'[e].doubt = (e \in amb)
  BY <1>9
<1>12. \A e \in group : Names(row'[e], x, e)
  BY <1>4, <1>5, <1>9, <1>11 DEF Names, Claiming
<1>13. \A e \in Events : e \notin group => row'[e] = row[e]
  BY <1>2 DEF ClaimedInitial
<1>14. ~Claiming(run[r])
  BY <1>2 DEF Claiming
<1> QED BY <1>2, <1>6, <1>7, <1>8, <1>9, <1>10, <1>12, <1>13, <1>14, ClaimLicence

\* claim_delivery and claim_notice: the group is of one kind and not initial.
LEMMA ClaimGroupLicence ==
    ASSUME LicenceInv, TypeOK', NEW r \in Runs, NEW x, Becomes(r, x), Consistent(x),
           NEW group \in SUBSET Events, ~Claiming(run[r]), auto' = auto,
           x.group = group, x.amb = run[r].amb, group \cap Initial = {},
           CanClaim(group, group \subseteq run[r].amb), row' = Claimed(group)
    PROVE  LicenceInv'
<1>1. \A e \in Events : row[e] \in Row
  BY Typed DEF LicenceInv
<1>2. \A e \in Events : row'[e] # row[e] => e \in group /\ row'[e].status = "sending"
  BY <1>1 DEF Claimed, Row
<1>3. \A e \in Events : Fresh(x, e) => row[e].status \in Owed /\ row'[e].status = "sending"
  BY <1>1 DEF Fresh, CanClaim, ClaimStatuses, Claimed, Owed, Row
<1>4. \A e \in Events : row'[e].stamp = row[e].stamp
  BY <1>1 DEF Claimed, Row
<1>5. \A e \in Events : row'[e].stamp # NoRun => row'[e] = row[e]
  BY <1>2, <1>4, StampFacts
<1> QED BY <1>2, <1>3, <1>5, ClaimLicence

\* A batch that is too large is claimed only to be failed.
LEMMA TooLargeLicence ==
    ASSUME LicenceInv, TypeOK', NEW r \in Runs, BuildTooLarge(r)
    PROVE  LicenceInv'
<1> DEFINE batch == NextBatch(r)
           x == [run[r] EXCEPT !.pc = "mark", !.verdict = "failed",
                               !.group = batch, !.delivered = 0]
<1>1. Consistent(run[r]) /\ run[r] \in Run
  BY LicenceFacts, Typed DEF LicenceInv
<1>2. auto' = auto /\ run[r].pc = "build" /\ ~Claiming(run[r])
  BY DEF BuildTooLarge, copies, Claiming
<1>3. CASE CanClaim(batch, batch \subseteq run[r].amb)
  <2>1. Becomes(r, x) /\ row' = Claimed(batch)
    BY <1>3 DEF BuildTooLarge, Commit
  <2>2. batch \in SUBSET Events /\ batch \cap Initial = {}
    BY <1>1, NextBatchSubset DEF Run, Consistent
  <2> HIDE DEF batch
  <2>3. x.group = batch /\ x.amb = run[r].amb
    BY <1>1 DEF Run
  <2>4. Consistent(x)
    BY <1>1, <1>2, <2>2 DEF Consistent, Claiming, Run, Uniform
  <2> HIDE DEF x
  <2> QED BY <1>2, <1>3, <2>1, <2>2, <2>3, <2>4, ClaimGroupLicence
<1>4. CASE ~CanClaim(batch, batch \subseteq run[r].amb)
  <2>1. Becomes(r, IdleRun) /\ row' = row
    BY <1>4 DEF BuildTooLarge, Finish
  <2> QED BY <1>2, <2>1, StampFacts, IdleRunConsistent, ReleaseLicence
<1> QED BY <1>3, <1>4

\* A group of the batch is claimed whole or left to the other run.
LEMMA GroupLicence ==
    ASSUME LicenceInv, TypeOK', NEW r \in Runs, ClaimGroup(r)
    PROVE  LicenceInv'
<1>1. Consistent(run[r]) /\ run[r] \in Run
  BY LicenceFacts, Typed DEF LicenceInv
<1>2. auto' = auto /\ run[r].pc = "next" /\ ~Claiming(run[r])
  BY DEF ClaimGroup, copies, Claiming
<1>3. PICK group \in Groups(run[r].batch), parts \in 1..(MaxMessages - run[r].msgs) :
        \/ /\ CanClaim(group, group \subseteq run[r].amb)
           /\ row' = Claimed(group)
           /\ Becomes(r, [run[r] EXCEPT !.pc = "send", !.group = group,
                                        !.parts = parts, !.delivered = 0,
                                        !.batch = @ \ group])
        \/ Becomes(r, [run[r] EXCEPT !.batch = @ \ group]) /\ row' = row
  BY DEF ClaimGroup, Commit
<1>4. group \subseteq run[r].batch /\ group \in SUBSET Events
  BY <1>1, GroupsSubset DEF Run
<1>5. Uniform(run[r], group)
  <2>1. CASE run[r].batch \subseteq Notices
    <3>1. \E e : group = {e}
      BY <1>3, <2>1 DEF Groups
    <3> QED BY <3>1 DEF Uniform
  <2>2. CASE Uniform(run[r], run[r].batch)
    BY <1>4, <2>2 DEF Uniform
  <2> QED BY <1>1, <2>1, <2>2 DEF Consistent
<1>6. ASSUME CanClaim(group, group \subseteq run[r].amb), row' = Claimed(group),
             Becomes(r, [run[r] EXCEPT !.pc = "send", !.group = group, !.parts = parts,
                                       !.delivered = 0, !.batch = @ \ group])
      PROVE  LicenceInv'
  <2> DEFINE x == [run[r] EXCEPT !.pc = "send", !.group = group, !.parts = parts,
                                 !.delivered = 0, !.batch = @ \ group]
  <2>1. group \cap Initial = {}
    BY <1>1, <1>4 DEF Consistent
  <2>2. x.group = group /\ x.amb = run[r].amb
    BY <1>1 DEF Run
  <2>3. Consistent(x)
    BY <1>1, <1>2, <1>4, <1>5, <2>1 DEF Consistent, Claiming, Run, Uniform
  <2>4. Becomes(r, x)
    BY <1>6
  <2> HIDE DEF x
  <2> QED BY <1>2, <1>4, <1>6, <2>1, <2>2, <2>3, <2>4, ClaimGroupLicence
<1>7. ASSUME Becomes(r, [run[r] EXCEPT !.batch = @ \ group]), row' = row
      PROVE  LicenceInv'
  <2> DEFINE x == [run[r] EXCEPT !.batch = @ \ group]
  <2>1. Consistent(x) /\ ~Claiming(x)
    BY <1>1, <1>2 DEF Consistent, Claiming, Run, Uniform
  <2> QED BY <1>2, <1>7, <2>1, LocalStep, Unclaimed
<1> QED BY <1>3, <1>6, <1>7
-----------------------------------------------------------------------------
(* Settling. *)

\* What a run goes on with after it settled its rows holds nothing.
LEMMA AfterMarkLicence ==
    ASSUME LicenceInv, NEW r \in Runs, run[r].pc = "mark", AfterMark(r)
    PROVE  \E x : Becomes(r, x) /\ Consistent(x) /\ ~Claiming(x)
<1>1. Consistent(run[r]) /\ run[r] \in Run
  BY LicenceFacts, Typed DEF LicenceInv
<1>2. CASE run[r].verdict = "sent"
  <2> DEFINE p == IF ~run[r].initial THEN "next"
                  ELSE IF Webhook THEN "initial" ELSE "select"
             x == [run[r] EXCEPT !.pc = p, !.group = {}, !.verdict = "none",
                                 !.parts = 0, !.delivered = 0]
  <2>1. Becomes(r, x)
    BY <1>2 DEF AfterMark
  <2>2. \/ ~run[r].initial /\ p = "next"
        \/ run[r].initial /\ p \in {"initial", "select"}
    OBVIOUS
  <2> HIDE DEF p
  <2>3. Consistent(x) /\ ~Claiming(x)
    BY <1>1, <2>2 DEF Consistent, Claiming, Run, Uniform
  <2> QED BY <2>1, <2>3
<1>3. CASE run[r].verdict # "sent"
  BY <1>3, IdleRunConsistent DEF AfterMark, Finish
<1> QED BY <1>2, <1>3

\* mark_initial_sent, mark_initial_failed and release_initial: the stamp finds
\* the rows of this run only, and a row becomes due only after a definite end.
LEMMA MarkInitialLicence ==
    ASSUME LicenceInv, TypeOK', NEW r \in Runs, MarkInitial(r)
    PROVE  LicenceInv'
<1>1. Consistent(run[r]) /\ run[r] \in Run /\ \A e \in Events : row[e] \in Row
  BY LicenceFacts, Typed DEF LicenceInv
<1>2. /\ auto' = auto /\ run[r].pc = "mark" /\ AfterMark(r)
      /\ row' = MarkedInitial(r, run[r].verdict, run[r].auth)
  BY DEF MarkInitial, Commit, copies
<1>3. PICK x : Becomes(r, x) /\ Consistent(x) /\ ~Claiming(x)
  BY <1>2, AfterMarkLicence
<1>4. \A e \in Events : row[e].stamp = r =>
         /\ e \in Stamped(r) /\ e \in run[r].group
         /\ row[e].doubt = (e \in run[r].amb)
  BY LicenceFacts, RunsAssumption DEF Stamped, Names
<1>5. run[r].verdict \in {"sent", "failed", "ambiguous", "expired"}
  BY <1>1, <1>2 DEF Run, Verdicts, Consistent
<1>6. \A e \in Events : e \notin Stamped(r) => row'[e] = row[e] /\ row[e].stamp # r
  BY <1>2, <1>4 DEF MarkedInitial
<1>7. \A e \in Events : e \in Stamped(r) =>
         /\ row'[e].stamp = NoRun
         /\ \/ row'[e].status \in {"sent", "ambiguous"}
            \/ ~row[e].doubt /\ run[r].verdict \in {"failed", "expired"}
  BY <1>1, <1>2, <1>5 DEF MarkedInitial, Settled, Row
<1>8. \A e \in Events : e \in Stamped(r) => row'[e].status \notin Owed \/ Fresh(run[r], e)
  <2>1. \A e \in Stamped(r) : row[e].stamp = r
    BY DEF Stamped
  <2> QED BY <1>2, <1>4, <1>7, <2>1 DEF Fresh, Owed
<1>9. \A e \in Events : \/ row'[e].status = row[e].status
                        \/ row'[e].status \notin Owed
                        \/ Fresh(run[r], e)
  BY <1>6, <1>8
<1>10. \A e \in Events : row'[e].stamp # NoRun => row'[e] = row[e] /\ row[e].stamp # r
  BY <1>6, <1>7
<1> QED BY <1>2, <1>3, <1>9, <1>10, ReleaseLicence

\* mark_delivery and release_delivery look at the status of the row only, yet a
\* row becomes due only from a run that held it fresh.
LEMMA MarkDeliveryLicence ==
    ASSUME LicenceInv, TypeOK', NEW r \in Runs, MarkDelivery(r)
    PROVE  LicenceInv'
<1> DEFINE group == run[r].group
           verdict == run[r].verdict
           doubtful == verdict = "ambiguous" \/ group \cap run[r].amb # {}
           status == IF verdict = "sent" THEN "sent"
                     ELSE IF doubtful THEN "ambiguous" ELSE "failed"
           back == IF group \subseteq run[r].amb THEN "ambiguous" ELSE "pending"
<1>1. Consistent(run[r]) /\ run[r] \in Run /\ \A e \in Events : row[e] \in Row
  BY LicenceFacts, Typed DEF LicenceInv
<1>2. /\ auto' = auto /\ run[r].pc = "mark" /\ ~run[r].initial /\ AfterMark(r)
      /\ row' = IF verdict = "expired" THEN Released(group, back)
                ELSE Marked(group, status, run[r].auth)
  BY DEF MarkDelivery, Commit, copies
<1>3. PICK x : Becomes(r, x) /\ Consistent(x) /\ ~Claiming(x)
  BY <1>2, AfterMarkLicence
<1>4. verdict \in {"sent", "failed", "ambiguous", "expired"} /\ group \cap Initial = {}
  BY <1>1, <1>2 DEF Run, Verdicts, Consistent, Claiming
<1>5. \A e \in Events : e \in group => row[e].stamp = NoRun
  BY <1>4, StampFacts
<1>6. CASE verdict = "expired"
  <2>1. Uniform(run[r], group)
    BY <1>1, <1>2, <1>6 DEF Consistent, Claiming
  <2>2. back = "ambiguous" \/ (back = "pending" /\ group \cap run[r].amb = {})
    BY <2>1 DEF Uniform
  <2>3. row' = Released(group, back)
    BY <1>2, <1>6
  <2> HIDE DEF back
  <2>4. \A e \in Events :
           \/ row'[e] = row[e]
           \/ e \in group /\ row'[e].status = back /\ row'[e].stamp = row[e].stamp
    BY <1>1, <2>3 DEF Released, Row
  <2>5. \A e \in Events : \/ row'[e].status = row[e].status
                          \/ row'[e].status \notin Owed
                          \/ Fresh(run[r], e)
    BY <1>2, <1>6, <2>2, <2>4 DEF Fresh, Owed
  <2>6. \A e \in Events : row'[e].stamp # NoRun => row'[e] = row[e] /\ row[e].stamp # r
    BY <1>2, <1>5, <2>4, StampFacts
  <2> QED BY <1>2, <1>3, <2>5, <2>6, ReleaseLicence
<1>7. CASE verdict # "expired"
  <2>1. \/ status \in {"sent", "ambiguous"}
        \/ status = "failed" /\ verdict = "failed" /\ group \cap run[r].amb = {}
    BY <1>4, <1>7
  <2>2. row' = Marked(group, status, run[r].auth)
    BY <1>2, <1>7
  <2> HIDE DEF status
  <2>3. \A e \in Events :
           \/ row'[e] = row[e]
           \/ e \in group /\ row'[e].status = status /\ row'[e].stamp = NoRun
    BY <1>1, <2>2 DEF Marked, Settled, Row
  <2>4. \A e \in Events : \/ row'[e].status = row[e].status
                          \/ row'[e].status \notin Owed
                          \/ Fresh(run[r], e)
    BY <1>2, <2>1, <2>3 DEF Fresh, Owed
  <2>5. \A e \in Events : row'[e].stamp # NoRun => row'[e] = row[e] /\ row[e].stamp # r
    BY <1>2, <2>3, StampFacts
  <2> QED BY <1>2, <1>3, <2>4, <2>5, ReleaseLicence
<1> QED BY <1>6, <1>7
-----------------------------------------------------------------------------
(* The invariant. *)

\* The empty outbox satisfies the invariant.
LEMMA LicenceInit == Init => LicenceInv
<1> SUFFICES ASSUME Init PROVE LicenceInv
  OBVIOUS
<1>1. TypeOK
  BY IdleRunType DEF Init, TypeOK, NewRow, Row, Statuses
<1>2. /\ \A r \in Runs : run[r] = IdleRun
      /\ \A e \in Events : auto[e] = 0 /\ row[e].stamp = NoRun
  BY DEF Init, NewRow
<1>3. \A r \in Runs, e \in Events : ~Fresh(run[r], e)
  BY <1>2, IdleRunConsistent, Unclaimed
<1> QED BY <1>1, <1>2, <1>3, IdleRunConsistent
        DEF LicenceInv, AtMostOnce, LicenceIsOut, LicenceIsUnique, OwedHasNoCopy,
            StampNamesHolder, RunsAreConsistent

\* Every step keeps the invariant.
LEMMA LicenceStep ==
    ASSUME LicenceInv, [Next]_vars
    PROVE  LicenceInv'
<1>1. TypeOK'
  BY TypeStep DEF LicenceInv
<1>2. ASSUME NEW r \in Runs, Start(r) \/ OperatorStart(r) PROVE LicenceInv'
  <2>1. CASE Start(r)
    <3>1. \E only \in SUBSET Events : Begin(r, only, FALSE, FALSE)
      BY <2>1, EventsAssumption DEF Start
    <3> QED BY <1>1, <3>1, StartStopLicence
  <2>2. CASE OperatorStart(r)
    BY <1>1, <2>2, StartStopLicence DEF OperatorStart
  <2> QED BY <1>2, <2>1, <2>2
<1>3. ASSUME NEW r \in Runs, Work(r) PROVE LicenceInv'
  BY <1>1, <1>3, StartStopLicence, QuietLicence, UnsentLicence, SentLicence,
     ClaimInitialLicence, TooLargeLicence, GroupLicence, MarkInitialLicence,
     MarkDeliveryLicence DEF Work
<1>4. ASSUME NEW r \in Runs, Crash(r) \/ Expire(r) PROVE LicenceInv'
  BY <1>1, <1>4, StartStopLicence, UnsentLicence
<1>5. CASE UNCHANGED vars
  BY <1>5 DEF LicenceInv, TypeOK, AtMostOnce, LicenceIsOut, LicenceIsUnique,
     OwedHasNoCopy, StampNamesHolder, RunsAreConsistent, vars
<1> QED BY <1>2, <1>3, <1>4, <1>5, RowLicence DEF Next

\* The licence to send an event by itself is with its row or with one run.
THEOREM LicenceCorrect == Spec => []LicenceInv
BY LicenceInit, LicenceStep, PTL DEF Spec

\* The provider never takes two copies of an event from automatic attempts.
THEOREM AtMostOnceCorrect == Spec => []AtMostOnce
<1>1. LicenceInv => AtMostOnce
  BY DEF LicenceInv
<1> QED BY <1>1, LicenceCorrect, PTL
-----------------------------------------------------------------------------
(***************************************************************************)
(* What the outbox says of the provider is true: "sent" is final, notices  *)
(* go out in audit order (for any runs), and, when the operation lock      *)
(* keeps runs apart, no row hides a copy, a doubt is never downgraded and  *)
(* the outbox implements its promise.  For every number of events.         *)
(***************************************************************************)

Copied(e) == auto[e] + redone[e] > 0

\* The provider has taken the whole group of the run, or its first part.
Accepted(x) ==
    \/ x.pc = "send" /\ x.delivered > 0
    \/ x.pc = "mark" /\ x.verdict = "sent"

\* An earlier notice that need not be waited for any more.
Passed(p) == Copied(p) \/ p \in gaveUp

EarlierPassed(e) ==
    \A p \in Notices :
        p < e /\ Cve[p] = Cve[e] /\ row[p].status # "absent" => Passed(p)

AcceptedIsCopied == \A r \in Runs : Accepted(run[r]) => \A e \in run[r].group : Copied(e)

\* Only events with a row are claimed, and only claimed events go out.
ClaimedIsPresent ==
    /\ \A e \in Events : Copied(e) => row[e].status # "absent"
    /\ \A r \in Runs : Claiming(run[r]) => \A e \in run[r].group : row[e].status # "absent"

GivenUpIsKept == \A e \in Events : GivenUp(row[e]) => e \in gaveUp

\* claim_notice looked behind the notice, and what it saw does not go back.
SendingInOrder ==
    \A r \in Runs : run[r].pc = "send" => \A e \in run[r].group \cap Notices : EarlierPassed(e)

\* The inductive invariant behind NoticeOrder and SentWasAccepted.
OrderInv ==
    /\ LicenceInv
    /\ SentWasAccepted
    /\ AcceptedIsCopied
    /\ ClaimedIsPresent
    /\ GivenUpIsKept
    /\ SendingInOrder
    /\ NoticeOrder
-----------------------------------------------------------------------------
(* With the operation lock. *)

OneRun == \A r, s \in Runs : run[r].pc # "idle" /\ run[s].pc # "idle" => r = s

HeldIsClaimed ==
    \A r \in Runs : Claiming(run[r]) => \A e \in run[r].group : row[e].status = "sending"

\* The rows a run has still to send are as select_events read them, unless the
\* run is about to end.
Ending(x) == x.pc = "mark" /\ x.verdict # "sent"

Snapshot(x, y, e) ==
    IF e \in x.amb THEN y.status = "ambiguous"
    ELSE y.status \in {"pending", "failed"} /\ y.attempts < MaxAttempts

SnapshotsHold ==
    \A r \in Runs : ~Ending(run[r]) =>
        /\ run[r].todo \cap run[r].batch = {}
        /\ \A e \in run[r].todo \cup run[r].batch : Snapshot(run[r], row[e], e)

\* No copy, no doubt: what may be sent without asking.
Clean(e) == auto[e] = 0 /\ redone[e] = 0 /\ e \notin doubted

Unspent(y) ==
    /\ y.attempts <= MaxAttempts
    /\ y.status # "failed" => y.attempts < MaxAttempts

OwedIsClean ==
    \A e \in Events : row[e].status \in Owed => Clean(e) /\ Unspent(row[e])

FreshIsClean ==
    \A r \in Runs, e \in Events : Fresh(run[r], e) =>
        Clean(e) /\ row[e].attempts < MaxAttempts

\* Ambiguous rows are only sent for an operator.
DoubtIsAsked ==
    \A r \in Runs : run[r].retry \/ run[r].amb # {} => retries > 0

\* The inductive invariant behind the promise.
PromiseInv ==
    /\ OrderInv
    /\ OneRun
    /\ HeldIsClaimed
    /\ SnapshotsHold
    /\ OwedIsClean
    /\ FreshIsClean
    /\ DoubtIsAsked
-----------------------------------------------------------------------------
(* How the rows move, for any runs. *)

\* A row comes into being when nothing is queued behind it, is never dropped,
\* stays sent, and is recorded as sent by a run whose message was accepted.
Moves(e, now) ==
    /\ row[e].status # "absent" => now # "absent"
    /\ row[e].status = "absent" /\ now # "absent" =>
          \A d \in Events : d > e => row[d].status = "absent"
    /\ row[e].status = "sent" => now = "sent"
    /\ now = "sent" =>
          row[e].status = "sent" \/ \E r \in Runs : Accepted(run[r]) /\ e \in run[r].group

\* What a run does to the rows.
LEMMA WorkMoves ==
    ASSUME LicenceInv, NEW r \in Runs, Work(r), NEW e \in Events
    PROVE  Moves(e, row'[e].status)
<1>1. row[e] \in Row /\ run[r] \in Run /\ Consistent(run[r])
  BY Typed, LicenceFacts DEF LicenceInv
<1>2. CASE ResetFailed(r)
  BY <1>1, <1>2 DEF Moves, ResetFailed, Commit, Row
<1>3. CASE ClaimInitial(r)
  <2>1. row' = ClaimedInitial(InitialGroup(r), r)
    BY <1>3 DEF ClaimInitial, Commit
  <2>2. e \in InitialGroup(r) => row[e].status \in {"pending", "failed", "ambiguous"}
    BY InitialGroupSubset DEF DueInitial, Retryable
  <2>3. row'[e].status = IF e \in InitialGroup(r) THEN "sending" ELSE row[e].status
    BY <1>1, <2>1 DEF ClaimedInitial, Row
  <2> QED BY <2>2, <2>3 DEF Moves
<1>4. ASSUME NEW g, NEW d \in BOOLEAN, CanClaim(g, d), row' = Claimed(g)
      PROVE  Moves(e, row'[e].status)
  <2>1. e \in g => row[e].status \in {"pending", "failed", "ambiguous"}
    BY <1>4 DEF CanClaim, ClaimStatuses
  <2>2. row'[e].status = IF e \in g THEN "sending" ELSE row[e].status
    BY <1>1, <1>4 DEF Claimed, Row
  <2> QED BY <2>1, <2>2 DEF Moves
<1>5. CASE BuildTooLarge(r)
  <2>1. CASE CanClaim(NextBatch(r), NextBatch(r) \subseteq run[r].amb)
    BY <1>4, <1>5, <2>1 DEF BuildTooLarge, Commit
  <2>2. CASE ~CanClaim(NextBatch(r), NextBatch(r) \subseteq run[r].amb)
    BY <1>5, <2>2 DEF Moves, BuildTooLarge
  <2> QED BY <2>1, <2>2
<1>6. CASE ClaimGroup(r)
  <2>1. \/ \E g : CanClaim(g, g \subseteq run[r].amb) /\ row' = Claimed(g)
        \/ row' = row
    BY <1>6 DEF ClaimGroup, Commit
  <2> QED BY <1>4, <2>1 DEF Moves
<1>7. CASE MarkInitial(r)
  <2>1. /\ row' = MarkedInitial(r, run[r].verdict, run[r].auth) /\ run[r].pc = "mark"
        /\ run[r].verdict \in {"sent", "failed", "ambiguous", "expired"}
    BY <1>1, <1>7 DEF MarkInitial, Commit, Consistent, Run, Verdicts
  <2>2. e \notin Stamped(r) => row'[e] = row[e]
    BY <2>1 DEF MarkedInitial
  <2>3. e \in Stamped(r) => row[e].status = "sending" /\ e \in run[r].group
    BY LicenceFacts, RunsAssumption DEF Stamped, Names
  <2>4. e \in Stamped(r) => \/ row'[e].status = "sent" /\ run[r].verdict = "sent"
                            \/ row'[e].status \in {"pending", "failed", "ambiguous"}
    BY <1>1, <2>1 DEF MarkedInitial, Settled, Row
  <2> QED BY <2>1, <2>2, <2>3, <2>4 DEF Moves, Accepted
<1>8. CASE MarkDelivery(r)
  <2> DEFINE group == run[r].group
             verdict == run[r].verdict
             doubtful == verdict = "ambiguous" \/ group \cap run[r].amb # {}
             status == IF verdict = "sent" THEN "sent"
                       ELSE IF doubtful THEN "ambiguous" ELSE "failed"
             back == IF group \subseteq run[r].amb THEN "ambiguous" ELSE "pending"
  <2>1. /\ run[r].pc = "mark"
        /\ row' = IF verdict = "expired" THEN Released(group, back)
                  ELSE Marked(group, status, run[r].auth)
    BY <1>8 DEF MarkDelivery, Commit
  <2>2. CASE verdict = "expired"
    <3>1. row' = Released(group, back) /\ back \in {"pending", "ambiguous"}
      BY <2>1, <2>2
    <3> HIDE DEF back
    <3> QED BY <1>1, <3>1 DEF Moves, Released, Row
  <2>3. CASE verdict # "expired"
    <3>0. row' = Marked(group, status, run[r].auth)
      BY <2>1, <2>3
    <3>1. status \in {"failed", "ambiguous"} \/ (status = "sent" /\ verdict = "sent")
      OBVIOUS
    <3> HIDE DEF status
    <3>2. e \notin group \/ row[e].status \notin Predecessors(status) => row'[e] = row[e]
      BY <3>0 DEF Marked
    <3>3. e \in group /\ row[e].status \in Predecessors(status) => row'[e].status = status
      BY <1>1, <3>0 DEF Marked, Settled, Row
    <3>4. row[e].status \in Predecessors(status) =>
             row[e].status # "absent" /\ (status # "sent" => row[e].status # "sent")
      BY <3>1 DEF Predecessors
    <3> QED BY <2>1, <3>1, <3>2, <3>3, <3>4 DEF Moves, Accepted
  <2> QED BY <2>2, <2>3
<1>9. CASE UNCHANGED row
  BY <1>9 DEF Moves
<1> QED BY <1>2, <1>3, <1>5, <1>6, <1>7, <1>8, <1>9
        DEF Work, SkipInitial, InitialTooLarge, SelectEvents, BuildMessages, LeaveBatch,
            EndRun, SendConfirmed, SendUnconfirmed, SendInterrupted, SendRefused, SendTooLate

\* What any step does to the rows.
LEMMA RowsMove ==
    ASSUME LicenceInv, [Next]_vars, NEW e \in Events
    PROVE  Moves(e, row'[e].status)
<1>1. row \in [Events -> Row] /\ row[e] \in Row
  BY Typed DEF LicenceInv, TypeOK
<1>2. ASSUME NEW d \in Events, Enqueue(d) PROVE Moves(e, row'[e].status)
  <2>1. CASE d = e
    BY <1>1, <1>2, <2>1 DEF Enqueue, Commit, Moves, Row
  <2>2. CASE d # e
    BY <1>1, <1>2, <2>2 DEF Moves, Enqueue, Commit
  <2> QED BY <2>1, <2>2
<1>3. ASSUME NEW d \in Events, TimePasses(d) PROVE Moves(e, row'[e].status)
  <2>1. row'[e].status = row[e].status
    BY <1>1, <1>3 DEF TimePasses, Row
  <2> QED BY <2>1 DEF Moves
<1>4. ASSUME NEW r \in Runs, Start(r) \/ OperatorStart(r) PROVE Moves(e, row'[e].status)
  <2>1. row' = RecoverSending
    BY <1>4 DEF Start, OperatorStart, Begin, Commit
  <2> QED BY <1>1, <2>1 DEF Moves, RecoverSending, Row
<1>5. ASSUME NEW r \in Runs, Crash(r) PROVE Moves(e, row'[e].status)
  <2>1. row'[e].status = row[e].status
    BY <1>1, <1>5 DEF Crash, Row
  <2> QED BY <2>1 DEF Moves
<1>6. ASSUME NEW r \in Runs, Expire(r) PROVE Moves(e, row'[e].status)
  BY <1>6 DEF Moves, Expire
<1>7. CASE UNCHANGED vars
  BY <1>7 DEF Moves, vars
<1> QED BY <1>2, <1>3, <1>4, <1>5, <1>6, <1>7, WorkMoves DEF Next

\* "sent" is final (mark_delivery): whatever a late or revived run writes, a row
\* recorded as sent is never put back.
THEOREM SentIsFinalCorrect == Spec => SentIsFinal
<1>1. LicenceInv /\ [Next]_vars =>
         [\A e \in Events : row[e].status = "sent" => row'[e].status = "sent"]_vars
  BY RowsMove DEF Moves
<1> QED BY <1>1, LicenceCorrect, PTL DEF Spec, SentIsFinal
-----------------------------------------------------------------------------
(* How copies and claims move, for any runs. *)

\* The history of given-up rows only grows, and records each new one.
LEMMA GivenUpMoves ==
    ASSUME LicenceInv, [Next]_vars
    PROVE  /\ gaveUp \subseteq gaveUp'
           /\ doubted \subseteq doubted'
           /\ \A e \in Events : GivenUp(row'[e]) => GivenUp(row[e]) \/ e \in gaveUp'
           /\ \A e \in Events : row'[e].status = "ambiguous" =>
                 row[e].status = "ambiguous" \/ e \in doubted'
           /\ \A e \in Events : e \in doubted' =>
                 e \in doubted \/ row'[e].status = "ambiguous"
<1>1. row \in [Events -> Row] /\ \A e \in Events : row[e] \in Row
  BY Typed DEF LicenceInv, TypeOK
<1>2. ASSUME NEW rows, Commit(rows)
      PROVE  /\ gaveUp \subseteq gaveUp'
             /\ doubted \subseteq doubted'
             /\ \A e \in Events : GivenUp(row'[e]) => GivenUp(row[e]) \/ e \in gaveUp'
             /\ \A e \in Events : row'[e].status = "ambiguous" =>
                   row[e].status = "ambiguous" \/ e \in doubted'
             /\ \A e \in Events : e \in doubted' =>
                   e \in doubted \/ row'[e].status = "ambiguous"
  BY <1>2 DEF Commit
<1>3. ASSUME history' = history,
             \A e \in Events : /\ row'[e].status = row[e].status
                               /\ row'[e].attempts = row[e].attempts
      PROVE  /\ gaveUp \subseteq gaveUp'
             /\ doubted \subseteq doubted'
             /\ \A e \in Events : GivenUp(row'[e]) => GivenUp(row[e]) \/ e \in gaveUp'
             /\ \A e \in Events : row'[e].status = "ambiguous" =>
                   row[e].status = "ambiguous" \/ e \in doubted'
             /\ \A e \in Events : e \in doubted' =>
                   e \in doubted \/ row'[e].status = "ambiguous"
  BY <1>3 DEF history, GivenUp
<1>4. ASSUME NEW e \in Events, Enqueue(e) \/ TimePasses(e)
      PROVE  (\E rows : Commit(rows)) \/ (history' = history /\ \A d \in Events :
                 row'[d].status = row[d].status /\ row'[d].attempts = row[d].attempts)
  BY <1>1, <1>4 DEF Enqueue, TimePasses, Row
<1>5. ASSUME NEW r \in Runs, Start(r) \/ OperatorStart(r)
      PROVE  \E rows : Commit(rows)
  BY <1>5 DEF Start, OperatorStart, Begin
<1>6. ASSUME NEW r \in Runs, Work(r)
      PROVE  (\E rows : Commit(rows)) \/ UNCHANGED <<row, history>>
  BY <1>6 DEF Work, ResetFailed, SkipInitial, ClaimInitial, InitialTooLarge, SelectEvents,
              BuildMessages, BuildTooLarge, ClaimGroup, LeaveBatch, EndRun, SendConfirmed,
              SendUnconfirmed, SendInterrupted, SendRefused, SendTooLate, MarkInitial,
              MarkDelivery
<1>7. ASSUME NEW r \in Runs, Crash(r) \/ Expire(r)
      PROVE  history' = history /\ \A d \in Events :
                 row'[d].status = row[d].status /\ row'[d].attempts = row[d].attempts
  BY <1>1, <1>7 DEF Crash, Expire, Row
<1>8. CASE UNCHANGED vars
  BY <1>3, <1>8 DEF vars, history
<1> QED BY <1>2, <1>3, <1>4, <1>5, <1>6, <1>7, <1>8 DEF Next

\* Copies are never taken back, and only a run that sends the event adds one.
LEMMA CopiesMove ==
    ASSUME LicenceInv, [Next]_vars
    PROVE  \A e \in Events :
             /\ auto'[e] >= auto[e] /\ redone'[e] >= redone[e]
             /\ \/ auto'[e] = auto[e] /\ redone'[e] = redone[e]
                \/ \E r \in Runs : run[r].pc = "send" /\ e \in run[r].group
<1>1. \A e \in Events : auto[e] \in Nat /\ redone[e] \in Nat
  BY DEF LicenceInv, TypeOK
<1>2. CASE copies' = copies
  BY <1>1, <1>2 DEF copies
<1>3. ASSUME NEW r \in Runs, run[r].pc = "send", Reaches(r), copies' # copies
      PROVE  \A e \in Events :
               /\ auto'[e] >= auto[e] /\ redone'[e] >= redone[e]
               /\ \/ auto'[e] = auto[e] /\ redone'[e] = redone[e]
                  \/ e \in run[r].group
  BY <1>1, <1>3 DEF Reaches
<1>4. copies' = copies \/ \E r \in Runs : run[r].pc = "send" /\ Reaches(r)
  <2>1. ASSUME NEW r \in Runs, Work(r)
        PROVE  copies' = copies \/ (run[r].pc = "send" /\ Reaches(r))
    BY <2>1 DEF Work, ResetFailed, SkipInitial, ClaimInitial, InitialTooLarge, SelectEvents,
              BuildMessages, BuildTooLarge, ClaimGroup, LeaveBatch, EndRun, SendConfirmed,
              SendUnconfirmed, SendInterrupted, SendRefused, SendTooLate, MarkInitial,
              MarkDelivery
  <2> QED BY <2>1 DEF Next, Enqueue, TimePasses, Start, OperatorStart, Begin, Crash, Expire,
                      vars, copies
<1> QED BY <1>2, <1>3, <1>4

\* A claiming run goes on with its group, or has just claimed rows whose earlier
\* notices are resolved if it is to send them.
Held(x, y) ==
    \/ Claiming(x) /\ y.group = x.group /\ (y.pc = "send" => x.pc = "send")
    \/ /\ \A e \in y.group : row[e].status # "absent"
       /\ y.pc = "send" => \A e \in y.group \cap Notices : ~NoticeBlocked(e)

\* A message is accepted part by part, by the run that sends its group.
Took(x, y) ==
    Accepted(y) => /\ y.group = x.group
                   /\ \/ Accepted(x)
                      \/ \A e \in y.group : auto'[e] + redone'[e] > 0

\* A step of run r to local state y that claims nothing new.
LEMMA LetsGo ==
    ASSUME LicenceInv, NEW r \in Runs, NEW y, Becomes(r, y), ~Claiming(y)
    PROVE  ~Claiming(run'[r])
BY DEF Becomes, LicenceInv, TypeOK

\* What the step of a run does to its own claims.
LEMMA OwnMove ==
    ASSUME LicenceInv, NEW r \in Runs, Work(r), Claiming(run'[r])
    PROVE  Held(run[r], run'[r]) /\ Took(run[r], run'[r])
<1>1. /\ run \in [Runs -> Run] /\ run[r] \in Run /\ Consistent(run[r])
      /\ run[r].delivered \in Nat
      /\ \A e \in Events : row[e] \in Row /\ auto[e] \in Nat /\ redone[e] \in Nat
  BY Typed, LicenceFacts DEF LicenceInv, TypeOK, Run
<1>2. ASSUME NEW y, Becomes(r, y) PROVE run'[r] = y
  BY <1>1, <1>2 DEF Becomes
<1>3. CASE ClaimInitial(r)
  <2>1. PICK parts :
          Becomes(r, [run[r] EXCEPT !.pc = "send", !.initial = TRUE,
                         !.group = InitialGroup(r),
                         !.amb = {e \in InitialGroup(r) : row[e].status = "ambiguous"},
                         !.parts = parts, !.delivered = 0])
    BY <1>3 DEF ClaimInitial
  <2>2. /\ run'[r].group = InitialGroup(r) /\ run'[r].pc = "send"
        /\ run'[r].delivered = 0
    BY <1>1, <1>2, <2>1 DEF Run
  <2>3. \A e \in InitialGroup(r) : row[e].status # "absent" /\ e \in Initial
    BY InitialGroupSubset DEF DueInitial, Retryable
  <2>4. Initial \cap Notices = {}
    BY EventsAssumption
  <2>5. Held(run[r], run'[r])
    BY <2>2, <2>3, <2>4 DEF Held
  <2>6. Took(run[r], run'[r])
    BY <2>2 DEF Took, Accepted
  <2> QED BY <2>5, <2>6
<1>4. CASE InitialTooLarge(r)
  <2>1. run'[r] = [run[r] EXCEPT !.pc = "mark", !.verdict = "failed"]
    BY <1>2, <1>4 DEF InitialTooLarge
  <2> QED BY <1>1, <1>4, <2>1 DEF InitialTooLarge, Held, Took, Accepted, Claiming, Run
<1>5. CASE BuildTooLarge(r)
  <2>1. CASE CanClaim(NextBatch(r), NextBatch(r) \subseteq run[r].amb)
    <3>1. run'[r] = [run[r] EXCEPT !.pc = "mark", !.verdict = "failed",
                                   !.group = NextBatch(r), !.delivered = 0]
      BY <1>2, <1>5, <2>1 DEF BuildTooLarge
    <3>2. \A e \in NextBatch(r) : row[e].status # "absent"
      BY <2>1 DEF CanClaim, ClaimStatuses
    <3> QED BY <1>1, <3>1, <3>2 DEF Held, Took, Accepted, Claiming, Run
  <2>2. CASE ~CanClaim(NextBatch(r), NextBatch(r) \subseteq run[r].amb)
    BY <1>5, <2>2, IdleRunConsistent, LetsGo DEF BuildTooLarge, Finish
  <2> QED BY <2>1, <2>2
<1>6. CASE ClaimGroup(r)
  <2>1. PICK g, parts :
          \/ /\ CanClaim(g, g \subseteq run[r].amb)
             /\ \A e \in g \cap Notices : ~NoticeBlocked(e)
             /\ Becomes(r, [run[r] EXCEPT !.pc = "send", !.group = g, !.parts = parts,
                                          !.delivered = 0, !.batch = @ \ g])
          \/ Becomes(r, [run[r] EXCEPT !.batch = @ \ g])
    BY <1>6 DEF ClaimGroup
  <2>2. CASE Becomes(r, [run[r] EXCEPT !.batch = @ \ g])
    <3>1. ~Claiming([run[r] EXCEPT !.batch = @ \ g])
      BY <1>1, <1>6 DEF ClaimGroup, Claiming, Run
    <3> QED BY <2>2, <3>1, LetsGo
  <2>3. ASSUME CanClaim(g, g \subseteq run[r].amb),
               \A e \in g \cap Notices : ~NoticeBlocked(e),
               Becomes(r, [run[r] EXCEPT !.pc = "send", !.group = g, !.parts = parts,
                                         !.delivered = 0, !.batch = @ \ g])
        PROVE  Held(run[r], run'[r]) /\ Took(run[r], run'[r])
    <3>1. run'[r].group = g /\ run'[r].pc = "send" /\ run'[r].delivered = 0
      BY <1>1, <1>2, <2>3 DEF Run
    <3>2. \A e \in g : row[e].status # "absent"
      BY <2>3 DEF CanClaim, ClaimStatuses
    <3> QED BY <2>3, <3>1, <3>2 DEF Held, Took, Accepted
  <2> QED BY <2>1, <2>2, <2>3
<1>7. CASE SendConfirmed(r)
  <2>1. /\ run'[r].group = run[r].group /\ run[r].pc = "send"
    BY <1>1, <1>2, <1>7 DEF SendConfirmed, Run
  <2>2. \A e \in run[r].group : e \in Events /\ (run[r].delivered = 0 => auto'[e] + redone'[e] > 0)
    BY <1>1, <1>7 DEF SendConfirmed, Reaches, Run
  <2> QED BY <1>1, <2>1, <2>2 DEF Held, Took, Accepted, Claiming
<1>8. ASSUME run[r].pc = "send", NEW v, NEW a, Outcome(r, v, a), v # "sent"
      PROVE  Held(run[r], run'[r]) /\ Took(run[r], run'[r])
  BY <1>1, <1>2, <1>8 DEF Outcome, Held, Took, Accepted, Claiming, Run
<1>9. CASE SendUnconfirmed(r)
  BY <1>8, <1>9 DEF SendUnconfirmed
<1>10. CASE SendInterrupted(r)
  BY <1>8, <1>10 DEF SendInterrupted
<1>11. ASSUME NEW auth \in BOOLEAN, SendRefused(r, auth)
       PROVE  Held(run[r], run'[r]) /\ Took(run[r], run'[r])
  BY <1>8, <1>11 DEF SendRefused
<1>12. CASE SendTooLate(r)
  BY <1>8, <1>12 DEF SendTooLate
<1>13. CASE MarkInitial(r) \/ MarkDelivery(r)
  BY <1>13, AfterMarkLicence, LetsGo DEF MarkInitial, MarkDelivery
<1>14. CASE EndRun(r)
  BY <1>14, IdleRunConsistent, LetsGo DEF EndRun, Finish
<1>15. CASE ResetFailed(r) \/ SkipInitial(r) \/ SelectEvents(r) \/ BuildMessages(r)
            \/ LeaveBatch(r)
  <2>1. run'[r].pc \notin {"send", "mark"}
    BY <1>1, <1>2, <1>15
       DEF ResetFailed, SkipInitial, SelectEvents, BuildMessages, LeaveBatch, Run
  <2> QED BY <2>1 DEF Claiming
<1> QED BY <1>3, <1>4, <1>5, <1>6, <1>7, <1>9, <1>10, <1>11, <1>12, <1>13, <1>14, <1>15
        DEF Work

\* What any step does to the claims of a run.
LEMMA RunsMove ==
    ASSUME LicenceInv, [Next]_vars, NEW r \in Runs, Claiming(run'[r])
    PROVE  Held(run[r], run'[r]) /\ Took(run[r], run'[r])
<1>1. run \in [Runs -> Run] /\ run[r] \in Run
  BY Typed DEF LicenceInv, TypeOK
<1>2. ASSUME NEW s \in Runs, s # r, NEW y, Becomes(s, y) PROVE run'[r] = run[r]
  BY <1>1, <1>2 DEF Becomes
<1>3. ASSUME run'[r] = run[r] PROVE Held(run[r], run'[r]) /\ Took(run[r], run'[r])
  BY <1>3 DEF Held, Took
<1>4. ASSUME NEW s \in Runs, Work(s) PROVE Held(run[r], run'[r]) /\ Took(run[r], run'[r])
  <2>1. CASE s = r
    BY <1>4, <2>1, OwnMove
  <2>2. CASE s # r
    <3>1. \E y : Becomes(s, y)
      BY <1>4 DEF Work, ResetFailed, SkipInitial, ClaimInitial, InitialTooLarge,
              SelectEvents, BuildMessages, BuildTooLarge, ClaimGroup, LeaveBatch, EndRun,
              SendConfirmed, SendUnconfirmed, SendInterrupted, SendRefused, SendTooLate,
              MarkInitial, MarkDelivery, AfterMark, Finish, Outcome
    <3> QED BY <1>2, <1>3, <2>2, <3>1
  <2> QED BY <2>1, <2>2
<1>5. ASSUME NEW s \in Runs, Start(s) \/ OperatorStart(s)
      PROVE  Held(run[r], run'[r]) /\ Took(run[r], run'[r])
  <2>1. PICK a, f, only :
          Becomes(s, [IdleRun EXCEPT !.pc = IF f THEN "reset" ELSE "initial",
                                     !.retry = a, !.only = only])
    BY <1>5 DEF Start, OperatorStart, Begin
  <2>2. ~Claiming([IdleRun EXCEPT !.pc = IF f THEN "reset" ELSE "initial",
                                  !.retry = a, !.only = only])
    BY DEF IdleRun, Claiming
  <2>3. s # r
    BY <2>1, <2>2, LetsGo
  <2> QED BY <1>2, <1>3, <2>1, <2>3
<1>6. ASSUME NEW s \in Runs, Crash(s) PROVE Held(run[r], run'[r]) /\ Took(run[r], run'[r])
  <2>1. Becomes(s, IdleRun)
    BY <1>6 DEF Crash, Finish
  <2>2. s # r
    BY <2>1, IdleRunConsistent, LetsGo
  <2> QED BY <1>2, <1>3, <2>1, <2>2
<1>7. ASSUME NEW s \in Runs, Expire(s) PROVE Held(run[r], run'[r]) /\ Took(run[r], run'[r])
  <2>1. CASE s = r
    <3>1. run'[r] = [run[r] EXCEPT !.late = TRUE]
      BY <1>1, <1>7, <2>1 DEF Expire, Becomes
    <3> QED BY <1>1, <3>1 DEF Held, Took, Accepted, Claiming, Run
  <2>2. CASE s # r
    BY <1>2, <1>3, <1>7, <2>2 DEF Expire
  <2> QED BY <2>1, <2>2
<1>8. CASE UNCHANGED run
  BY <1>3, <1>8
<1> QED BY <1>4, <1>5, <1>6, <1>7, <1>8 DEF Next, Enqueue, TimePasses, vars
-----------------------------------------------------------------------------
(* Notices in order. *)

\* The empty outbox satisfies the invariant.
LEMMA OrderInit == Init => OrderInv
<1> SUFFICES ASSUME Init PROVE OrderInv
  OBVIOUS
<1>1. /\ \A r \in Runs : run[r] = IdleRun
      /\ \A e \in Events : auto[e] = 0 /\ redone[e] = 0 /\ row[e].status = "absent"
  BY DEF Init, NewRow
<1>2. \A r \in Runs : ~Claiming(run[r]) /\ ~Accepted(run[r]) /\ run[r].pc # "send"
  BY <1>1 DEF IdleRun, Claiming, Accepted
<1>3. Notices \subseteq Events
  BY EventsAssumption
<1> QED BY <1>1, <1>2, <1>3, LicenceInit DEF OrderInv, SentWasAccepted, AcceptedIsCopied,
           ClaimedIsPresent, GivenUpIsKept, SendingInOrder, NoticeOrder, Copied, GivenUp

\* What has passed stays passed, and what has a copy keeps it.
LEMMA PassedStays ==
    ASSUME OrderInv, [Next]_vars
    PROVE  \A e \in Events : (Copied(e) => Copied(e)') /\ (Passed(e) => Passed(e)')
<1>1. \A e \in Events : auto[e] \in Nat /\ redone[e] \in Nat
  BY DEF OrderInv, LicenceInv, TypeOK
<1>2. TypeOK'
  BY TypeStep DEF OrderInv, LicenceInv
<1>3. \A e \in Events : Copied(e) => Copied(e)'
  BY <1>1, <1>2, CopiesMove DEF OrderInv, Copied, TypeOK
<1> QED BY <1>3, GivenUpMoves DEF OrderInv, Passed

\* No notice is queued behind one that has a row already.
LEMMA EarlierStays ==
    ASSUME OrderInv, [Next]_vars, NEW e \in Notices, row[e].status # "absent", EarlierPassed(e)
    PROVE  EarlierPassed(e)'
<1>1. Notices \subseteq Events /\ \A d \in Events : d \in Int
  BY EventsAssumption DEF Events
<1> SUFFICES ASSUME NEW p \in Notices, p < e, Cve[p] = Cve[e], row'[p].status # "absent"
             PROVE  Passed(p)'
  BY DEF EarlierPassed
<1>2. Moves(p, row'[p].status)
  BY <1>1, RowsMove DEF OrderInv
<1>3. row[p].status # "absent"
  BY <1>1, <1>2 DEF Moves
<1> QED BY <1>1, <1>3, PassedStays DEF EarlierPassed

\* An earlier notice that does not block a claim was sent or given up.
LEMMA ClaimLooksBehind ==
    ASSUME OrderInv, NEW e \in Notices, ~NoticeBlocked(e)
    PROVE  EarlierPassed(e)
<1>1. Notices \subseteq Events
  BY EventsAssumption
<1> SUFFICES ASSUME NEW p \in Notices, p < e, Cve[p] = Cve[e], row[p].status # "absent"
             PROVE  Passed(p)
  BY DEF EarlierPassed
<1>2. row[p] \in Row
  BY <1>1, Typed DEF OrderInv, LicenceInv
<1>3. row[p].status = "sent" \/ GivenUp(row[p])
  BY <1>2, LimitsAssumption DEF NoticeBlocked, GivenUp, Row, Statuses
<1> QED BY <1>1, <1>3 DEF OrderInv, SentWasAccepted, GivenUpIsKept, Passed, Copied

\* Every step keeps the invariant.
LEMMA OrderStep ==
    ASSUME OrderInv, [Next]_vars
    PROVE  OrderInv'
<1>1. LicenceInv /\ LicenceInv' /\ TypeOK'
  BY LicenceStep DEF OrderInv, LicenceInv
<1>2. \A e \in Events : /\ auto[e] \in Nat /\ redone[e] \in Nat
                        /\ auto'[e] \in Nat /\ redone'[e] \in Nat
  BY <1>1 DEF LicenceInv, TypeOK
<1>3. Notices \subseteq Events
  BY EventsAssumption
<1>4. \A r \in Runs : run[r].group \subseteq Events /\ run'[r].group \subseteq Events
  BY <1>1 DEF LicenceInv, TypeOK, Run
<1>5. AcceptedIsCopied'
  <2> SUFFICES ASSUME NEW r \in Runs, Accepted(run'[r]), NEW e \in run'[r].group
               PROVE  Copied(e)'
    BY DEF AcceptedIsCopied
  <2>1. Took(run[r], run'[r])
    BY <1>1, RunsMove DEF Accepted, Claiming
  <2>2. CASE Accepted(run[r]) /\ e \in run[r].group
    BY <1>4, <2>2, PassedStays DEF OrderInv, AcceptedIsCopied
  <2> QED BY <2>1, <2>2 DEF Took, Copied
<1>6. SentWasAccepted'
  <2> SUFFICES ASSUME NEW e \in Events, row'[e].status = "sent" PROVE Copied(e)'
    BY DEF SentWasAccepted, Copied
  <2>1. Moves(e, row'[e].status)
    BY <1>1, RowsMove
  <2>2. Copied(e)
    BY <2>1 DEF Moves, OrderInv, SentWasAccepted, AcceptedIsCopied, Copied
  <2> QED BY <2>2, PassedStays
<1>7. \A e \in Events : row[e].status # "absent" => row'[e].status # "absent"
  BY <1>1, RowsMove DEF Moves
<1>8. ClaimedIsPresent'
  <2>1. ASSUME NEW e \in Events, Copied(e)' PROVE row'[e].status # "absent"
    <3>1. Copied(e) \/ \E r \in Runs : run[r].pc = "send" /\ e \in run[r].group
      BY <1>1, <1>2, <2>1, CopiesMove DEF Copied
    <3>2. row[e].status # "absent"
      BY <3>1 DEF OrderInv, ClaimedIsPresent, Claiming
    <3> QED BY <1>7, <3>2
  <2>2. ASSUME NEW r \in Runs, Claiming(run'[r]), NEW e \in run'[r].group
        PROVE  row'[e].status # "absent"
    <3>1. Held(run[r], run'[r])
      BY <1>1, <2>2, RunsMove
    <3>2. row[e].status # "absent"
      BY <2>2, <3>1 DEF Held, OrderInv, ClaimedIsPresent
    <3> QED BY <1>4, <1>7, <2>2, <3>2
  <2> QED BY <2>1, <2>2 DEF ClaimedIsPresent
<1>9. GivenUpIsKept'
  BY <1>1, GivenUpMoves DEF OrderInv, GivenUpIsKept
<1>10. SendingInOrder'
  <2> SUFFICES ASSUME NEW r \in Runs, run'[r].pc = "send",
                      NEW e \in run'[r].group \cap Notices
               PROVE  EarlierPassed(e)'
    BY DEF SendingInOrder
  <2>1. Held(run[r], run'[r])
    BY <1>1, RunsMove DEF Claiming
  <2>2. EarlierPassed(e) /\ row[e].status # "absent"
    <3>1. CASE run[r].pc = "send" /\ run'[r].group = run[r].group
      BY <3>1 DEF OrderInv, SendingInOrder, ClaimedIsPresent, Claiming
    <3>2. CASE row[e].status # "absent" /\ ~NoticeBlocked(e)
      BY <3>2, ClaimLooksBehind
    <3> QED BY <2>1, <3>1, <3>2 DEF Held
  <2> QED BY <2>2, EarlierStays
<1>11. NoticeOrder'
  <2> SUFFICES ASSUME NEW e \in Notices, Copied(e)' PROVE EarlierPassed(e)'
    BY DEF NoticeOrder, EarlierPassed, Passed, Copied
  <2>1. Copied(e) \/ \E r \in Runs : run[r].pc = "send" /\ e \in run[r].group
    BY <1>1, <1>2, <1>3, CopiesMove DEF Copied
  <2>2. EarlierPassed(e)
    BY <2>1 DEF OrderInv, NoticeOrder, SendingInOrder, EarlierPassed, Passed, Copied
  <2>3. row[e].status # "absent"
    BY <1>3, <2>1 DEF OrderInv, ClaimedIsPresent, Claiming
  <2> QED BY <2>2, <2>3, EarlierStays
<1> QED BY <1>1, <1>5, <1>6, <1>8, <1>9, <1>10, <1>11 DEF OrderInv

\* What the rows and the runs say of the order of notices holds always.
THEOREM OrderCorrect == Spec => []OrderInv
BY OrderInit, OrderStep, PTL DEF Spec

\* However runs overlap, stall or die, notices for one CVE reach the channel in
\* audit order: one is out only when each earlier one is out or was given up.
THEOREM NoticeOrderCorrect == Spec => []NoticeOrder
<1>1. OrderInv => NoticeOrder
  BY DEF OrderInv
<1> QED BY <1>1, OrderCorrect, PTL
-----------------------------------------------------------------------------
(* One run at a time. *)

\* The parts of the invariant as facts to cite.
LEMMA PromiseFacts ==
    ASSUME PromiseInv
    PROVE  /\ LicenceInv /\ TypeOK
           /\ \A e \in Events : row[e] \in Row /\ auto[e] \in Nat /\ redone[e] \in Nat
           /\ \A r \in Runs : run[r] \in Run /\ Consistent(run[r])
           /\ \A r, s \in Runs : run[r].pc # "idle" /\ run[s].pc # "idle" => r = s
           /\ \A r \in Runs : Claiming(run[r]) =>
                 \A e \in run[r].group : row[e].status = "sending"
           /\ \A r \in Runs : ~Ending(run[r]) =>
                 /\ run[r].todo \cap run[r].batch = {}
                 /\ \A e \in run[r].todo \cup run[r].batch : Snapshot(run[r], row[e], e)
           /\ \A e \in Events : row[e].status \in Owed => Clean(e) /\ Unspent(row[e])
           /\ \A r \in Runs, e \in Events : Fresh(run[r], e) =>
                 Clean(e) /\ row[e].attempts < MaxAttempts
           /\ \A r \in Runs : run[r].retry \/ run[r].amb # {} => retries > 0
<1>1. LicenceInv /\ TypeOK
  BY DEF PromiseInv, OrderInv, LicenceInv
<1> QED BY <1>1, Typed, LicenceFacts DEF PromiseInv, OneRun, HeldIsClaimed, SnapshotsHold,
           OwedIsClean, FreshIsClean, DoubtIsAsked, TypeOK

\* The only run moves to local state x: what the invariant asks of it and of the
\* rows it leaves behind.
LEMMA PromiseOfRun ==
    ASSUME PromiseInv, OrderInv', NEW r \in Runs, NEW x, Becomes(r, x),
           \A s \in Runs : s # r => run[s].pc = "idle",
           Claiming(x) => \A e \in x.group : row'[e].status = "sending",
           ~Ending(x) => /\ x.todo \cap x.batch = {}
                         /\ \A e \in x.todo \cup x.batch : Snapshot(x, row'[e], e),
           \A e \in Events : row'[e].status \in Owed => Clean(e)' /\ Unspent(row'[e]),
           \A e \in Events : Fresh(x, e) => Clean(e)' /\ row'[e].attempts < MaxAttempts,
           x.retry \/ x.amb # {} => retries' > 0,
           retries' >= retries
    PROVE  PromiseInv'
<1>1. run'[r] = x /\ \A s \in Runs : s # r => run'[s] = run[s]
  BY PromiseFacts DEF Becomes, TypeOK
<1>2. \A s \in Runs : s # r => /\ ~Claiming(run[s]) /\ ~Ending(run[s])
                               /\ run[s].todo = {} /\ run[s].batch = {}
  BY PromiseFacts DEF Consistent, Claiming, Ending
<1>3. OneRun'
  BY <1>1 DEF OneRun
<1>4. HeldIsClaimed'
  BY <1>1, <1>2 DEF HeldIsClaimed
<1>5. SnapshotsHold'
  BY <1>1, <1>2 DEF SnapshotsHold
<1>6. OwedIsClean'
  BY DEF OwedIsClean
<1>7. FreshIsClean'
  <2>1. \A s \in Runs, e \in Events : s # r => ~Fresh(run[s], e)
    BY <1>2, Unclaimed
  <2> QED BY <1>1, <2>1 DEF FreshIsClean
<1>8. DoubtIsAsked'
  <2>1. retries \in Nat /\ retries' \in Nat
    BY PromiseFacts DEF OrderInv, LicenceInv, TypeOK
  <2> QED BY <1>1, <2>1, PromiseFacts DEF DoubtIsAsked
<1> QED BY <1>3, <1>4, <1>5, <1>6, <1>7, <1>8 DEF PromiseInv

\* A run that is under way is alone.
LEMMA Alone ==
    ASSUME PromiseInv, NEW r \in Runs, run[r].pc # "idle"
    PROVE  \A s \in Runs : s # r => run[s].pc = "idle"
BY PromiseFacts

\* A doubt only arises with an ambiguous row.
LEMMA CleanStays ==
    ASSUME PromiseInv, [Next]_vars, NEW e \in Events, Clean(e),
           auto'[e] = auto[e], redone'[e] = redone[e], row'[e].status # "ambiguous"
    PROVE  Clean(e)'
BY PromiseFacts, GivenUpMoves DEF Clean
-----------------------------------------------------------------------------
(* The promise: how each step of the outbox shows in the abstract one. *)

\* What the promise says of a row is p, given whether a run holds it unsent.
Says(p, status, fresh) ==
    /\ status = "absent" => p = "absent"
    /\ status \in {"pending", "failed"} => p = "owed"
    /\ status = "sent" => p = "done"
    /\ status = "ambiguous" => p = "unsure"
    /\ status = "sending" /\ fresh => p = "owed"
    /\ status = "sending" /\ ~fresh => p = "unsure"

\* The promise of an event is read off its row and the runs that hold it.
LEMMA PromisedSays ==
    \A e \in Events :
       /\ Says(Promised(e), row[e].status, \E s \in Runs : Fresh(run[s], e))
       /\ Says(Promised(e)', row'[e].status, \E s \in Runs : Fresh(run'[s], e))
BY DEF Promised, Says

\* Events whose message was cut off, if any, become unsure; the others stay.
LEMMA MapsToDoubt ==
    ASSUME UNCHANGED <<copies, retries>>,
           \A e \in Events : \/ Promised(e)' = Promised(e)
                             \/ Promised(e) = "owed" /\ Promised(e)' = "unsure"
    PROVE  Promise!Next
<1> DEFINE group == {e \in Events : Promised(e) = "owed" /\ Promised(e)' = "unsure"}
<1>1. Promise!Doubt(group)
  BY DEF Promise!Doubt, Promise!In, Promise!Move, copies
<1>2. group \in SUBSET Events
  OBVIOUS
<1> HIDE DEF group
<1> QED BY <1>1, <1>2 DEF Promise!Next

\* Events of a settled message are done, and the provider has each of them.
LEMMA MapsToConfirm ==
    ASSUME UNCHANGED <<copies, retries>>,
           \A e \in Events : \/ Promised(e)' = Promised(e)
                             \/ /\ Promised(e) = "unsure" /\ Promised(e)' = "done"
                                /\ Copied(e)
    PROVE  Promise!Next
<1> DEFINE group == {e \in Events : Promised(e) = "unsure" /\ Promised(e)' = "done"}
<1>1. Promise!Confirm(group)
  BY DEF Promise!Confirm, Promise!In, Promise!Move, copies, Copied
<1>2. group \in SUBSET Events
  OBVIOUS
<1> HIDE DEF group
<1> QED BY <1>1, <1>2 DEF Promise!Next

\* A message goes out for events that are owed, or unsure once someone asked.
LEMMA MapsToTransmit ==
    ASSUME NEW group \in SUBSET Events, retries' = retries,
           \A e \in Events : auto'[e] + redone'[e] =
              IF e \in group THEN auto[e] + redone[e] + 1 ELSE auto[e] + redone[e],
           \A e \in group : /\ Promised(e) \in {"owed", "unsure"}
                            /\ retries = 0 => Promised(e) = "owed"
                            /\ Promised(e)' = "unsure",
           \A e \in Events \ group : Promised(e)' = Promised(e)
    PROVE  Promise!Next
<1>1. Promise!Transmit(group)
  BY DEF Promise!Transmit, Promise!In, Promise!Move
<1> QED BY <1>1 DEF Promise!Next

\* Someone may ask for an event whose outcome is unsure to be sent again.
LEMMA MapsToAsk ==
    ASSUME UNCHANGED copies, retries' = retries + 1,
           \A e \in Events : Promised(e)' = Promised(e)
    PROVE  Promise!Next
BY DEF Promise!Next, Promise!Ask, copies

\* A new event is owed once its row is there.
LEMMA MapsToQueue ==
    ASSUME UNCHANGED <<copies, retries>>, NEW e \in Events,
           Promised(e) = "absent", Promised(e)' = "owed",
           \A d \in Events \ {e} : Promised(d)' = Promised(d)
    PROVE  Promise!Next
<1>1. Promise!Queue(e)
  BY DEF Promise!Queue, Promise!Move, copies
<1> QED BY <1>1 DEF Promise!Next

\* While run r is alone, what the promise says of a row is a matter of r.
LEMMA MapOfRun ==
    ASSUME PromiseInv, NEW r \in Runs, NEW x, Becomes(r, x),
           \A s \in Runs : s # r => run[s].pc = "idle"
    PROVE  \A e \in Events : /\ row[e].status \in Statuses
                             /\ Says(Promised(e), row[e].status, Fresh(run[r], e))
                             /\ Says(Promised(e)', row'[e].status, Fresh(x, e))
<1>1. run'[r] = x /\ \A s \in Runs : s # r => run'[s] = run[s]
  BY PromiseFacts DEF Becomes, TypeOK
<1>2. \A s \in Runs, e \in Events : s # r => ~Fresh(run[s], e) /\ ~Fresh(run'[s], e)
  BY <1>1 DEF Fresh
<1>3. \A e \in Events : /\ (\E s \in Runs : Fresh(run[s], e)) <=> Fresh(run[r], e)
                        /\ (\E s \in Runs : Fresh(run'[s], e)) <=> Fresh(x, e)
  BY <1>1, <1>2
<1>4. \A e \in Events : row[e].status \in Statuses
  BY PromiseFacts DEF Row
<1> QED BY <1>3, <1>4, PromisedSays DEF Says

-----------------------------------------------------------------------------
(* Every step keeps the invariant and is a step of the promise. *)

\* A step that leaves the table and the provider alone keeps the invariant when
\* the run claims nothing new and its snapshot is still true.
LEMMA QuietStep ==
    ASSUME PromiseInv, OrderInv', [Next]_vars, NEW r \in Runs, NEW x, Becomes(r, x),
           run[r].pc # "idle",
           UNCHANGED <<row, copies, retries>>,
           Claiming(x) => Claiming(run[r]) /\ x.group = run[r].group,
           \A e \in Events : Fresh(x, e) => Fresh(run[r], e),
           ~Ending(x) => /\ x.todo \cap x.batch = {}
                         /\ \A e \in x.todo \cup x.batch : Snapshot(x, row[e], e),
           x.retry \/ x.amb # {} => retries > 0
    PROVE  PromiseInv' /\ Promise!Next
<1>1. row' = row /\ auto' = auto /\ redone' = redone /\ retries' = retries
  BY DEF copies
<1>2. \A s \in Runs : s # r => run[s].pc = "idle"
  BY Alone
<1>3. Claiming(x) => \A e \in x.group : row'[e].status = "sending"
  BY <1>1, PromiseFacts
<1>4. \A e \in Events : row'[e].status \in Owed => Clean(e)' /\ Unspent(row'[e])
  <2> SUFFICES ASSUME NEW e \in Events, row[e].status \in Owed
               PROVE  Clean(e)' /\ Unspent(row[e])
    BY <1>1
  <2>1. row[e].status # "ambiguous"
    BY DEF Owed
  <2> QED BY <1>1, <2>1, PromiseFacts, CleanStays
<1>5. \A e \in Events : Fresh(x, e) => Clean(e)' /\ row'[e].attempts < MaxAttempts
  <2> SUFFICES ASSUME NEW e \in Events, Fresh(run[r], e)
               PROVE  Clean(e)' /\ row[e].attempts < MaxAttempts
    BY <1>1
  <2>1. Claiming(run[r]) /\ e \in run[r].group
    BY DEF Fresh, Claiming
  <2>2. row[e].status = "sending"
    BY <2>1, PromiseFacts
  <2> QED BY <1>1, <2>2, PromiseFacts, CleanStays
<1>6. retries' >= retries
  BY <1>1, PromiseFacts DEF TypeOK
<1>7. Promise!Next
  <2>1. \A e \in Events : \/ Promised(e)' = Promised(e)
                          \/ Promised(e) = "owed" /\ Promised(e)' = "unsure"
    BY <1>1, <1>2, MapOfRun DEF Says, Statuses
  <2> QED BY <2>1, MapsToDoubt
<1> HIDE DEF copies
<1> QED BY <1>1, <1>2, <1>3, <1>4, <1>5, <1>6, <1>7, PromiseOfRun

\* A run that ends claims and selects nothing.
LEMMA IdleRunPromise ==
    /\ ~Claiming(IdleRun) /\ ~Ending(IdleRun)
    /\ IdleRun.todo = {} /\ IdleRun.batch = {} /\ IdleRun.amb = {} /\ ~IdleRun.retry
    /\ \A e : ~Fresh(IdleRun, e)
BY DEF IdleRun, Claiming, Ending, Fresh

\* Phases without rows, and the end of a run.
LEMMA PhasePromise ==
    ASSUME PromiseInv, OrderInv', [Next]_vars, NEW r \in Runs,
           SkipInitial(r) \/ SelectEvents(r) \/ BuildMessages(r) \/ LeaveBatch(r) \/ EndRun(r)
    PROVE  PromiseInv' /\ Promise!Next
<1>1. /\ run[r] \in Run /\ Consistent(run[r])
      /\ run[r].retry \/ run[r].amb # {} => retries > 0
      /\ ~Ending(run[r]) => /\ run[r].todo \cap run[r].batch = {}
                            /\ \A e \in run[r].todo \cup run[r].batch : Snapshot(run[r], row[e], e)
  BY PromiseFacts
<1>2. UNCHANGED <<row, copies, retries>>
  BY DEF SkipInitial, SelectEvents, BuildMessages, LeaveBatch, EndRun, budget
<1>3. CASE SkipInitial(r)
  <2> DEFINE x == [run[r] EXCEPT !.pc = "select"]
  <2>1. Becomes(r, x) /\ run[r].pc = "initial"
    BY <1>3 DEF SkipInitial
  <2>2. /\ ~Claiming(x) /\ x.todo = {} /\ x.batch = {} /\ x.amb = run[r].amb
        /\ x.retry = run[r].retry
    BY <1>1, <2>1 DEF Consistent, Claiming, Run
  <2> HIDE DEF x
  <2> QED BY <1>1, <1>2, <2>1, <2>2, Unclaimed, QuietStep
<1>4. CASE SelectEvents(r)
  <2> DEFINE due == {e \in Events \ Initial :
                       /\ Retryable(row[e], run[r].retry)
                       /\ run[r].only = {} \/ e \in run[r].only}
             amb == {e \in due : row[e].status = "ambiguous"}
             x == [run[r] EXCEPT !.pc = "build", !.initial = FALSE,
                                 !.todo = due, !.amb = amb]
  <2>1. Becomes(r, x) /\ run[r].pc = "select"
    BY <1>4 DEF SelectEvents
  <2>2. run[r].batch = {}
    BY <1>1, <2>1 DEF Consistent
  <2>3. /\ ~Claiming(x) /\ x.todo = due /\ x.batch = {} /\ x.amb = amb
        /\ x.retry = run[r].retry
    BY <1>1, <2>2 DEF Claiming, Run
  <2>4. amb # {} => run[r].retry
    BY DEF Retryable
  <2>5. \A e \in due : IF e \in amb THEN row[e].status = "ambiguous"
                       ELSE row[e].status \in {"pending", "failed"}
                            /\ row[e].attempts < MaxAttempts
    <3> SUFFICES ASSUME NEW e \in due, row[e].status # "ambiguous"
                 PROVE  row[e].status \in {"pending", "failed"}
                        /\ row[e].attempts < MaxAttempts
      OBVIOUS
    <3>1. row[e].status = "pending" => row[e].attempts < MaxAttempts
      BY PromiseFacts DEF Owed, Unspent
    <3> QED BY <3>1 DEF Retryable
  <2> HIDE DEF x, due, amb
  <2>6. \A e \in x.todo \cup x.batch : Snapshot(x, row[e], e)
    BY <2>3, <2>5 DEF Snapshot
  <2> QED BY <1>1, <1>2, <2>1, <2>3, <2>4, <2>6, Unclaimed, QuietStep
<1>5. CASE BuildMessages(r)
  <2> DEFINE x == [run[r] EXCEPT !.pc = "next", !.batch = NextBatch(r),
                                 !.todo = @ \ NextBatch(r)]
  <2>1. Becomes(r, x) /\ run[r].pc = "build"
    BY <1>5 DEF BuildMessages
  <2>2. /\ ~Claiming(x) /\ x.todo \cap x.batch = {}
        /\ x.todo \cup x.batch \subseteq run[r].todo
        /\ x.amb = run[r].amb /\ x.retry = run[r].retry
    BY <1>1, NextBatchSubset DEF Claiming, Run
  <2>3. ~Ending(run[r])
    BY <2>1 DEF Ending
  <2> HIDE DEF x
  <2>4. \A e \in x.todo \cup x.batch : Snapshot(x, row[e], e)
    BY <1>1, <2>2, <2>3 DEF Snapshot
  <2> QED BY <1>1, <1>2, <2>1, <2>2, <2>4, Unclaimed, QuietStep
<1>6. CASE LeaveBatch(r)
  <2> DEFINE x == [run[r] EXCEPT !.pc = "build", !.batch = {}]
  <2>1. Becomes(r, x) /\ run[r].pc = "next"
    BY <1>6 DEF LeaveBatch
  <2>2. /\ ~Claiming(x) /\ x.todo = run[r].todo /\ x.batch = {}
        /\ x.amb = run[r].amb /\ x.retry = run[r].retry
    BY <1>1 DEF Claiming, Run
  <2>3. ~Ending(run[r])
    BY <2>1 DEF Ending
  <2> HIDE DEF x
  <2>4. \A e \in x.todo \cup x.batch : Snapshot(x, row[e], e)
    BY <1>1, <2>2, <2>3 DEF Snapshot
  <2> QED BY <1>1, <1>2, <2>1, <2>2, <2>4, Unclaimed, QuietStep
<1>7. CASE EndRun(r)
  <2>1. Becomes(r, IdleRun) /\ run[r].pc # "idle"
    BY <1>7 DEF EndRun, Finish
  <2> QED BY <1>2, <2>1, IdleRunPromise, QuietStep
<1> QED BY <1>3, <1>4, <1>5, <1>6, <1>7

\* An attempt that ends without a copy, and a deadline that passes.
LEMMA UnsentPromise ==
    ASSUME PromiseInv, OrderInv', [Next]_vars, NEW r \in Runs,
           \/ InitialTooLarge(r) \/ SendInterrupted(r) \/ SendTooLate(r) \/ Expire(r)
           \/ \E auth \in BOOLEAN : SendRefused(r, auth)
    PROVE  PromiseInv' /\ Promise!Next
<1>1. /\ run[r] \in Run /\ run[r].delivered \in Nat
      /\ run[r].retry \/ run[r].amb # {} => retries > 0
      /\ ~Ending(run[r]) => /\ run[r].todo \cap run[r].batch = {}
                            /\ \A e \in run[r].todo \cup run[r].batch : Snapshot(run[r], row[e], e)
  BY PromiseFacts DEF Run
<1>2. UNCHANGED <<row, copies, retries>>
  BY DEF InitialTooLarge, SendInterrupted, SendTooLate, SendRefused, Expire, budget
<1>3. ASSUME NEW v, NEW a, run[r].pc = "send", Outcome(r, v, a), v # "sent",
             v \in {"failed", "expired"} => run[r].delivered = 0
      PROVE  PromiseInv' /\ Promise!Next
  <2> DEFINE x == [run[r] EXCEPT !.pc = "mark", !.verdict = v, !.auth = a]
  <2>1. Becomes(r, x)
    BY <1>3 DEF Outcome
  <2>2. /\ x.group = run[r].group /\ x.amb = run[r].amb /\ x.retry = run[r].retry
        /\ Ending(x) /\ Claiming(run[r])
    BY <1>1, <1>3 DEF Claiming, Ending, Run
  <2>3. \A e \in Events : Fresh(x, e) => Fresh(run[r], e)
    BY <1>1, <1>3 DEF Fresh, Run
  <2> HIDE DEF x
  <2> QED BY <1>1, <1>2, <1>3, <2>1, <2>2, <2>3, QuietStep
<1>4. CASE InitialTooLarge(r)
  <2> DEFINE x == [run[r] EXCEPT !.pc = "mark", !.verdict = "failed"]
  <2>1. Becomes(r, x) /\ run[r].pc = "send" /\ run[r].delivered = 0
    BY <1>4 DEF InitialTooLarge
  <2>2. /\ x.group = run[r].group /\ x.amb = run[r].amb /\ x.retry = run[r].retry
        /\ Ending(x) /\ Claiming(run[r])
    BY <1>1, <2>1 DEF Claiming, Ending, Run
  <2>3. \A e \in Events : Fresh(x, e) => Fresh(run[r], e)
    BY <1>1, <2>1 DEF Fresh, Run
  <2> HIDE DEF x
  <2> QED BY <1>1, <1>2, <2>1, <2>2, <2>3, QuietStep
<1>5. CASE SendInterrupted(r)
  BY <1>3, <1>5 DEF SendInterrupted
<1>6. CASE SendTooLate(r)
  <2>1. CASE run[r].delivered > 0
    BY <1>3, <1>6, <2>1 DEF SendTooLate
  <2>2. CASE run[r].delivered = 0
    BY <1>3, <1>6, <2>2 DEF SendTooLate
  <2> QED BY <1>1, <2>1, <2>2
<1>7. ASSUME NEW auth \in BOOLEAN, SendRefused(r, auth) PROVE PromiseInv' /\ Promise!Next
  <2>1. CASE run[r].delivered > 0
    BY <1>3, <1>7, <2>1 DEF SendRefused
  <2>2. CASE run[r].delivered = 0
    BY <1>3, <1>7, <2>2 DEF SendRefused
  <2> QED BY <1>1, <2>1, <2>2
<1>8. CASE Expire(r)
  <2> DEFINE x == [run[r] EXCEPT !.late = TRUE]
  <2>1. Becomes(r, x) /\ run[r].pc # "idle"
    BY <1>8 DEF Expire
  <2>2. /\ x.group = run[r].group /\ x.amb = run[r].amb /\ x.retry = run[r].retry
        /\ x.todo = run[r].todo /\ x.batch = run[r].batch
        /\ Ending(x) = Ending(run[r]) /\ Claiming(x) = Claiming(run[r])
        /\ \A e : Fresh(x, e) = Fresh(run[r], e)
    BY <1>1 DEF Claiming, Ending, Fresh, Run
  <2> HIDE DEF x
  <2>3. \A e \in Events : Snapshot(x, row[e], e) = Snapshot(run[r], row[e], e)
    BY <2>2 DEF Snapshot
  <2>4. run[r].todo \subseteq Events /\ run[r].batch \subseteq Events
    BY <1>1 DEF Run
  <2> QED BY <1>1, <1>2, <2>1, <2>2, <2>3, <2>4, QuietStep
<1> QED BY <1>4, <1>5, <1>6, <1>7, <1>8
-----------------------------------------------------------------------------
(* Copies, claims and their ends, one run at a time. *)

\* The provider takes the first part of a claimed group: no row that is owed and
\* no row that has still to be sent is among them.
LEMMA SentPromise ==
    ASSUME PromiseInv, OrderInv', [Next]_vars, NEW r \in Runs,
           SendConfirmed(r) \/ SendUnconfirmed(r)
    PROVE  PromiseInv' /\ Promise!Next
<1>1. /\ run[r] \in Run /\ run[r].delivered \in Nat
      /\ run[r].retry \/ run[r].amb # {} => retries > 0
      /\ run[r].todo \subseteq Events /\ run[r].batch \subseteq Events
  BY PromiseFacts DEF Run
<1>2. row' = row /\ retries' = retries /\ Reaches(r) /\ run[r].pc = "send"
  BY DEF SendConfirmed, SendUnconfirmed, budget
<1>3. /\ \A e \in run[r].group : row[e].status = "sending"
      /\ run[r].todo \cap run[r].batch = {}
      /\ \A e \in run[r].todo \cup run[r].batch : Snapshot(run[r], row[e], e)
  BY <1>2, PromiseFacts DEF Claiming, Ending
<1>4. PICK x : /\ Becomes(r, x)
               /\ x.group = run[r].group /\ x.amb = run[r].amb /\ x.retry = run[r].retry
               /\ x.todo = run[r].todo /\ x.batch = run[r].batch
               /\ \A e : ~Fresh(x, e)
  <2>1. CASE SendConfirmed(r)
    <3> DEFINE last == run[r].delivered + 1 = run[r].parts
               p == IF last THEN "mark" ELSE "send"
               v == IF last THEN "sent" ELSE "none"
               d == run[r].delivered + 1
               m == run[r].msgs + 1
               x == [run[r] EXCEPT !.delivered = d, !.msgs = m, !.pc = p,
                                   !.verdict = v, !.auth = FALSE]
    <3>1. Becomes(r, x)
      BY <2>1 DEF SendConfirmed
    <3>2. d \in Nat \ {0} /\ ((p = "mark" /\ v = "sent") \/ (p = "send" /\ v = "none"))
      BY <1>1
    <3> HIDE DEF p, v, d, m
    <3>3. /\ x.group = run[r].group /\ x.amb = run[r].amb /\ x.retry = run[r].retry
          /\ x.todo = run[r].todo /\ x.batch = run[r].batch
          /\ x.pc = p /\ x.verdict = v /\ x.delivered = d
      BY <1>1 DEF Run
    <3> HIDE DEF x
    <3>4. \A e : ~Fresh(x, e)
      BY <3>2, <3>3 DEF Fresh
    <3> QED BY <3>1, <3>3, <3>4
  <2>2. CASE SendUnconfirmed(r)
    <3> DEFINE x == [run[r] EXCEPT !.pc = "mark", !.verdict = "ambiguous", !.auth = FALSE]
    <3>1. Becomes(r, x)
      BY <2>2 DEF SendUnconfirmed, Outcome
    <3>2. /\ x.group = run[r].group /\ x.amb = run[r].amb /\ x.retry = run[r].retry
          /\ x.todo = run[r].todo /\ x.batch = run[r].batch
          /\ x.pc = "mark" /\ x.verdict = "ambiguous"
      BY <1>1 DEF Run
    <3> HIDE DEF x
    <3>3. \A e : ~Fresh(x, e)
      BY <3>2 DEF Fresh
    <3> QED BY <3>1, <3>2, <3>3
  <2> QED BY <2>1, <2>2
<1>5. \A e \in Events : e \notin run[r].group => auto'[e] = auto[e] /\ redone'[e] = redone[e]
  BY <1>1, <1>2 DEF Reaches, copies
<1>6. \A e \in Events : row'[e].status \in Owed => Clean(e)' /\ Unspent(row'[e])
  <2> SUFFICES ASSUME NEW e \in Events, row[e].status \in Owed
               PROVE  Clean(e)' /\ Unspent(row[e])
    BY <1>2
  <2>1. row[e].status # "ambiguous" /\ row[e].status # "sending"
    BY DEF Owed
  <2> QED BY <1>2, <1>3, <1>5, <2>1, PromiseFacts, CleanStays
<1>7. \A e \in x.todo \cup x.batch : Snapshot(x, row'[e], e)
  BY <1>2, <1>3, <1>4 DEF Snapshot
<1>8. \A s \in Runs : s # r => run[s].pc = "idle"
  BY <1>2, Alone
<1>9. retries' >= retries
  BY <1>2, PromiseFacts DEF TypeOK
<1>10. \A e \in Events : /\ row[e].status \in Statuses
                         /\ Says(Promised(e), row[e].status, Fresh(run[r], e))
                         /\ Says(Promised(e)', row[e].status, FALSE)
  BY <1>2, <1>4, <1>8, MapOfRun DEF Says
<1>11. Promise!Next
  <2>1. CASE run[r].delivered = 0
    <3>1. \A e \in Events : Fresh(run[r], e) <=> e \in run[r].group \ run[r].amb
      BY <1>2, <2>1 DEF Fresh
    <3>2. run[r].group \in SUBSET Events
      BY <1>1 DEF Run
    <3>3. \A e \in run[r].group : /\ Promised(e) \in {"owed", "unsure"}
                                  /\ retries = 0 => Promised(e) = "owed"
                                  /\ Promised(e)' = "unsure"
      BY <1>1, <1>3, <1>10, <3>1, <3>2 DEF Says
    <3>4. \A e \in Events \ run[r].group : Promised(e)' = Promised(e)
      BY <1>10, <3>1 DEF Says, Statuses
    <3>5. \A e \in Events : auto'[e] + redone'[e] =
             IF e \in run[r].group THEN auto[e] + redone[e] + 1 ELSE auto[e] + redone[e]
      BY <1>2, <2>1, PromiseFacts DEF Reaches
    <3> QED BY <1>2, <3>2, <3>3, <3>4, <3>5, MapsToTransmit
  <2>2. CASE run[r].delivered # 0
    <3>1. \A e \in Events : ~Fresh(run[r], e)
      BY <1>2, <2>2 DEF Fresh
    <3>2. UNCHANGED <<copies, retries>>
      BY <1>1, <1>2, <2>2 DEF Reaches
    <3>3. \A e \in Events : Promised(e)' = Promised(e)
      BY <1>10, <3>1 DEF Says, Statuses
    <3> QED BY <3>2, <3>3, MapsToDoubt
  <2> QED BY <2>1, <2>2
<1> QED BY <1>1, <1>2, <1>3, <1>4, <1>6, <1>7, <1>8, <1>9, <1>11, PromiseOfRun

\* A claim: the rows of the group are sending, and those that are not ambiguous
\* were owed, with an attempt left.
LEMMA ClaimStep ==
    ASSUME PromiseInv, OrderInv', [Next]_vars, NEW r \in Runs, NEW x, Becomes(r, x),
           run[r].pc # "idle", ~Claiming(run[r]), UNCHANGED <<copies, retries>>,
           \A e \in Events : \/ row'[e] = row[e] /\ e \notin x.group
                             \/ e \in x.group /\ row'[e].status = "sending"
                                /\ row'[e].attempts = row[e].attempts,
           x.group \subseteq Events,
           \A e \in x.group \ x.amb : row[e].status \in {"pending", "failed"}
                                      /\ row[e].attempts < MaxAttempts,
           \A e \in x.group \cap x.amb : row[e].status = "ambiguous",
           ~Ending(x) => /\ x.todo \cap x.batch = {}
                         /\ \A e \in x.todo \cup x.batch :
                               e \in Events \ x.group /\ Snapshot(x, row[e], e),
           x.retry \/ x.amb # {} => retries > 0
    PROVE  PromiseInv' /\ Promise!Next
<1>1. auto' = auto /\ redone' = redone /\ retries' = retries
  BY DEF copies
<1>2. \A s \in Runs : s # r => run[s].pc = "idle"
  BY Alone
<1>3. Claiming(x) => \A e \in x.group : row'[e].status = "sending"
  OBVIOUS
<1>4. \A e \in Events : row'[e].status \in Owed => Clean(e)' /\ Unspent(row'[e])
  <2> SUFFICES ASSUME NEW e \in Events, row'[e].status \in Owed
               PROVE  Clean(e)' /\ Unspent(row'[e])
    OBVIOUS
  <2>1. row'[e].status # "ambiguous" /\ row'[e] = row[e]
    BY DEF Owed
  <2> QED BY <1>1, <2>1, PromiseFacts, CleanStays
<1>5. \A e \in Events : Fresh(x, e) => Clean(e)' /\ row'[e].attempts < MaxAttempts
  <2> SUFFICES ASSUME NEW e \in x.group \ x.amb
               PROVE  Clean(e)' /\ row'[e].attempts < MaxAttempts
    BY DEF Fresh
  <2>1. row'[e].status = "sending" /\ row'[e].attempts = row[e].attempts
    OBVIOUS
  <2>2. Clean(e)
    BY PromiseFacts DEF Owed
  <2> QED BY <1>1, <2>1, <2>2, CleanStays
<1>6. ~Ending(x) => /\ x.todo \cap x.batch = {}
                    /\ \A e \in x.todo \cup x.batch : Snapshot(x, row'[e], e)
  OBVIOUS
<1>7. retries' >= retries
  BY <1>1, PromiseFacts DEF TypeOK
<1> HIDE DEF copies
<1>8. Promise!Next
  <2>1. \A e \in Events : ~Fresh(run[r], e)
    BY Unclaimed
  <2>2. \A e \in Events : e \notin x.group \/ e \in x.amb => ~Fresh(x, e)
    BY DEF Fresh
  <2>3. \A e \in Events : \/ Promised(e)' = Promised(e)
                          \/ Promised(e) = "owed" /\ Promised(e)' = "unsure"
    BY <1>2, <2>1, <2>2, MapOfRun DEF Says, Statuses
  <2> QED BY <2>3, MapsToDoubt
<1> QED BY <1>1, <1>2, <1>3, <1>4, <1>5, <1>6, <1>7, <1>8, PromiseOfRun

\* claim_initial_digest and claim_initial_chunk.
LEMMA ClaimInitialPromise ==
    ASSUME PromiseInv, OrderInv', [Next]_vars, NEW r \in Runs, ClaimInitial(r)
    PROVE  PromiseInv' /\ Promise!Next
<1> DEFINE group == InitialGroup(r)
           amb == {e \in group : row[e].status = "ambiguous"}
<1>1. /\ run[r] \in Run /\ Consistent(run[r]) /\ run[r].pc = "initial"
      /\ run[r].retry => retries > 0
      /\ \A e \in Events : row[e] \in Row
  BY PromiseFacts DEF ClaimInitial
<1>2. UNCHANGED <<copies, retries>> /\ row' = ClaimedInitial(group, r)
  BY DEF ClaimInitial, Commit, budget
<1>3. PICK parts : Becomes(r, [run[r] EXCEPT !.pc = "send", !.initial = TRUE,
                                 !.group = group, !.amb = amb, !.parts = parts,
                                 !.delivered = 0])
  BY DEF ClaimInitial
<1> DEFINE x == [run[r] EXCEPT !.pc = "send", !.initial = TRUE, !.group = group,
                               !.amb = amb, !.parts = parts, !.delivered = 0]
<1>4. group \subseteq Events /\ \A e \in group : Retryable(row[e], run[r].retry)
  BY InitialGroupSubset DEF DueInitial
<1>5. amb # {} => run[r].retry
  BY <1>4 DEF Retryable
<1>6. \A e \in group \ amb : row[e].status \in {"pending", "failed"}
                             /\ row[e].attempts < MaxAttempts
  <2> SUFFICES ASSUME NEW e \in group, row[e].status # "ambiguous"
               PROVE  row[e].status \in {"pending", "failed"} /\ row[e].attempts < MaxAttempts
    OBVIOUS
  <2>1. row[e].status = "pending" => row[e].attempts < MaxAttempts
    BY <1>4, PromiseFacts DEF Owed, Unspent
  <2> QED BY <1>4, <2>1 DEF Retryable
<1> HIDE DEF group, amb
<1>7. \A e \in Events : \/ row'[e] = row[e] /\ e \notin group
                        \/ e \in group /\ row'[e].status = "sending"
                           /\ row'[e].attempts = row[e].attempts
  BY <1>1, <1>2 DEF ClaimedInitial, Row
<1>8. /\ x.group = group /\ x.amb = amb /\ x.retry = run[r].retry
      /\ x.todo = {} /\ x.batch = {}
  BY <1>1 DEF Run, Consistent
<1>9. Becomes(r, x)
  BY <1>3
<1>10. \A e \in group \cap amb : row[e].status = "ambiguous"
  BY DEF amb
<1>11. ~Claiming(run[r])
  BY <1>1 DEF Claiming
<1> HIDE DEF x
<1> QED BY <1>1, <1>2, <1>4, <1>5, <1>6, <1>7, <1>8, <1>9, <1>10, <1>11, ClaimStep

\* claim_delivery and claim_notice, of a group that is sent or fails at once.
LEMMA ClaimGroupPromise ==
    ASSUME PromiseInv, OrderInv', [Next]_vars, NEW r \in Runs, BuildTooLarge(r) \/ ClaimGroup(r)
    PROVE  PromiseInv' /\ Promise!Next
<1>1. /\ run[r] \in Run /\ run[r].pc \in {"build", "next"} /\ ~Ending(run[r])
      /\ run[r].retry \/ run[r].amb # {} => retries > 0
      /\ run[r].todo \subseteq Events /\ run[r].batch \subseteq Events
      /\ \A e \in Events : row[e] \in Row
  BY PromiseFacts DEF BuildTooLarge, ClaimGroup, Ending, Run
<1>2. /\ run[r].todo \cap run[r].batch = {}
      /\ \A e \in run[r].todo \cup run[r].batch : Snapshot(run[r], row[e], e)
  BY <1>1, PromiseFacts
<1>3. UNCHANGED <<copies, retries>>
  BY DEF BuildTooLarge, ClaimGroup, budget
<1>4. ASSUME NEW group, NEW x, Becomes(r, x), row' = Claimed(group), x.group = group,
             group \subseteq run[r].todo \/ group \subseteq run[r].batch,
             x.amb = run[r].amb, x.retry = run[r].retry,
             ~Ending(x) => /\ x.todo \cap x.batch = {}
                           /\ x.todo \cup x.batch \subseteq
                                 (run[r].todo \cup run[r].batch) \ group
      PROVE  PromiseInv' /\ Promise!Next
  <2>1. \A e \in Events : \/ row'[e] = row[e] /\ e \notin group
                          \/ e \in group /\ row'[e].status = "sending"
                             /\ row'[e].attempts = row[e].attempts
    BY <1>1, <1>4 DEF Claimed, Row
  <2>2. group \subseteq Events /\ \A e \in group : Snapshot(run[r], row[e], e)
    BY <1>1, <1>2, <1>4
  <2>3. \A e \in group \ x.amb : row[e].status \in {"pending", "failed"}
                                 /\ row[e].attempts < MaxAttempts
    BY <1>4, <2>2 DEF Snapshot
  <2>4. ~Ending(x) => \A e \in x.todo \cup x.batch :
                          e \in Events \ group /\ Snapshot(x, row[e], e)
    BY <1>1, <1>2, <1>4 DEF Snapshot
  <2>5. \A e \in group \cap x.amb : row[e].status = "ambiguous"
    BY <1>4, <2>2 DEF Snapshot
  <2>6. ~Claiming(run[r])
    BY <1>1 DEF Claiming
  <2> QED BY <1>1, <1>3, <1>4, <2>1, <2>2, <2>3, <2>4, <2>5, <2>6, ClaimStep
<1>5. CASE BuildTooLarge(r)
  <2> DEFINE batch == NextBatch(r)
             x == [run[r] EXCEPT !.pc = "mark", !.verdict = "failed",
                                 !.group = batch, !.delivered = 0]
  <2>1. CASE CanClaim(batch, batch \subseteq run[r].amb)
    <3>1. Becomes(r, x) /\ row' = Claimed(batch)
      BY <1>5, <2>1 DEF BuildTooLarge, Commit
    <3>2. batch \subseteq run[r].todo
      BY NextBatchSubset
    <3> HIDE DEF batch
    <3>3. /\ x.group = batch /\ x.amb = run[r].amb /\ x.retry = run[r].retry /\ Ending(x)
      BY <1>1 DEF Run, Ending
    <3> HIDE DEF x
    <3> QED BY <1>4, <3>1, <3>2, <3>3
  <2>2. CASE ~CanClaim(batch, batch \subseteq run[r].amb)
    <3>1. Becomes(r, IdleRun) /\ row' = row
      BY <1>5, <2>2 DEF BuildTooLarge, Finish
    <3>2. UNCHANGED <<row, copies, retries>>
      BY <1>3, <3>1
    <3>3. run[r].pc # "idle"
      BY <1>1
    <3> QED BY <3>1, <3>2, <3>3, IdleRunPromise, QuietStep
  <2> QED BY <2>1, <2>2
<1>6. CASE ClaimGroup(r)
  <2>1. run[r].pc = "next"
    BY <1>6 DEF ClaimGroup
  <2>2. PICK g \in Groups(run[r].batch), parts \in 1..(MaxMessages - run[r].msgs) :
          \/ /\ row' = Claimed(g)
             /\ Becomes(r, [run[r] EXCEPT !.pc = "send", !.group = g, !.parts = parts,
                                          !.delivered = 0, !.batch = @ \ g])
          \/ Becomes(r, [run[r] EXCEPT !.batch = @ \ g]) /\ row' = row
    BY <1>6 DEF ClaimGroup, Commit
  <2>3. g \subseteq run[r].batch
    BY GroupsSubset
  <2>4. ASSUME row' = Claimed(g),
               Becomes(r, [run[r] EXCEPT !.pc = "send", !.group = g, !.parts = parts,
                                         !.delivered = 0, !.batch = @ \ g])
        PROVE  PromiseInv' /\ Promise!Next
    <3> DEFINE x == [run[r] EXCEPT !.pc = "send", !.group = g, !.parts = parts,
                                   !.delivered = 0, !.batch = @ \ g]
    <3>1. /\ x.group = g /\ x.amb = run[r].amb /\ x.retry = run[r].retry
          /\ x.todo = run[r].todo /\ x.batch = run[r].batch \ g
      BY <1>1 DEF Run
    <3>2. Becomes(r, x)
      BY <2>4
    <3> HIDE DEF x
    <3>3. /\ x.todo \cap x.batch = {}
          /\ x.todo \cup x.batch \subseteq (run[r].todo \cup run[r].batch) \ g
      BY <1>2, <2>3, <3>1
    <3> QED BY <1>4, <2>3, <2>4, <3>1, <3>2, <3>3
  <2>5. ASSUME Becomes(r, [run[r] EXCEPT !.batch = @ \ g]), row' = row
        PROVE  PromiseInv' /\ Promise!Next
    <3> DEFINE x == [run[r] EXCEPT !.batch = @ \ g]
    <3>1. /\ x.amb = run[r].amb /\ x.retry = run[r].retry /\ ~Claiming(x)
          /\ x.todo = run[r].todo /\ x.batch = run[r].batch \ g
      BY <1>1, <2>1 DEF Run, Claiming
    <3>2. Becomes(r, x)
      BY <2>5
    <3> HIDE DEF x
    <3>3. /\ x.todo \cap x.batch = {}
          /\ \A e \in x.todo \cup x.batch : Snapshot(x, row[e], e)
      BY <1>2, <3>1 DEF Snapshot
    <3>4. UNCHANGED <<row, copies, retries>>
      BY <1>3, <2>5
    <3> QED BY <1>1, <2>1, <3>1, <3>2, <3>3, <3>4, Unclaimed, QuietStep
  <2> QED BY <2>2, <2>4, <2>5
<1> QED BY <1>5, <1>6

\* How run r may settle row e as y: sent when its message was accepted, ambiguous
\* otherwise, and due again only when it held the event unsent.
Settles(r, e, y) ==
    \/ y = row[e]
    \/ /\ e \in run[r].group /\ row[e].status = "sending"
       /\ \/ y.status = "sent" /\ run[r].verdict = "sent"
          \/ y.status = "ambiguous" /\ run[r].verdict # "sent"
          \/ Fresh(run[r], e) /\ y.status \in {"pending", "failed"} /\ Unspent(y)

\* A run settles its rows, and what it has still to send is as it was.
LEMMA SettleStep ==
    ASSUME PromiseInv, OrderInv', [Next]_vars, NEW r \in Runs, NEW x, Becomes(r, x),
           run[r].pc = "mark", ~Claiming(x), UNCHANGED <<copies, retries>>,
           \A e \in Events : Settles(r, e, row'[e]),
           /\ x.todo \cap x.batch = {}
           /\ \A e \in x.todo \cup x.batch : row'[e] = row[e] /\ Snapshot(x, row[e], e),
           x.retry \/ x.amb # {} => retries > 0
    PROVE  PromiseInv' /\ Promise!Next
<1>1. auto' = auto /\ redone' = redone /\ retries' = retries
  BY DEF copies
<1>2. \A s \in Runs : s # r => run[s].pc = "idle"
  BY Alone
<1>3. \A e \in Events : row'[e].status \in Owed => Clean(e)' /\ Unspent(row'[e])
  <2> SUFFICES ASSUME NEW e \in Events, row'[e].status \in Owed
               PROVE  Clean(e)' /\ Unspent(row'[e])
    OBVIOUS
  <2>1. row'[e].status # "ambiguous" /\ row'[e].status # "sent"
    BY DEF Owed
  <2>2. Clean(e) /\ Unspent(row'[e])
    BY <2>1, PromiseFacts DEF Settles
  <2> QED BY <1>1, <2>1, <2>2, CleanStays
<1>4. \A e \in Events : ~Fresh(x, e)
  BY Unclaimed
<1>5. retries' >= retries
  BY <1>1, PromiseFacts DEF TypeOK
<1>6. \A e \in x.todo \cup x.batch : Snapshot(x, row'[e], e)
  OBVIOUS
<1>7. Promise!Next
  <2>1. \A e \in Events : /\ row[e].status \in Statuses
                          /\ Says(Promised(e), row[e].status, Fresh(run[r], e))
                          /\ Says(Promised(e)', row'[e].status, FALSE)
    BY <1>2, <1>4, MapOfRun DEF Says
  <2>2. CASE run[r].verdict = "sent"
    <3>1. \A e \in Events : ~Fresh(run[r], e)
      BY <2>2 DEF Fresh
    <3>2. \A e \in run[r].group : Copied(e)
      BY <2>2 DEF PromiseInv, OrderInv, AcceptedIsCopied, Accepted
    <3>3. \A e \in Events : \/ Promised(e)' = Promised(e)
                            \/ /\ Promised(e) = "unsure" /\ Promised(e)' = "done"
                               /\ Copied(e)
      <4> SUFFICES ASSUME NEW e \in Events, row'[e] # row[e]
                   PROVE  /\ Promised(e) = "unsure" /\ Promised(e)' = "done"
                          /\ Copied(e)
        BY <2>1, <3>1 DEF Says, Statuses
      <4>1. /\ e \in run[r].group /\ row[e].status = "sending"
            /\ row'[e].status = "sent"
        BY <2>2, <3>1 DEF Settles
      <4> QED BY <2>1, <3>1, <3>2, <4>1 DEF Says
    <3> QED BY <3>3, MapsToConfirm
  <2>3. CASE run[r].verdict # "sent"
    <3>1. \A e \in Events : \/ Promised(e)' = Promised(e)
                            \/ Promised(e) = "owed" /\ Promised(e)' = "unsure"
      <4> SUFFICES ASSUME NEW e \in Events
                   PROVE  \/ Promised(e)' = Promised(e)
                          \/ Promised(e) = "owed" /\ Promised(e)' = "unsure"
        OBVIOUS
      <4>1. CASE row'[e] = row[e]
        BY <2>1, <4>1 DEF Says, Statuses
      <4>2. CASE row[e].status = "sending" /\ row'[e].status = "ambiguous"
        BY <2>1, <4>2 DEF Says
      <4>3. CASE /\ row[e].status = "sending" /\ Fresh(run[r], e)
                 /\ row'[e].status \in {"pending", "failed"}
        BY <2>1, <4>3 DEF Says
      <4> QED BY <2>3, <4>1, <4>2, <4>3 DEF Settles
    <3> QED BY <3>1, MapsToDoubt
  <2> QED BY <2>2, <2>3
<1> HIDE DEF copies
<1> QED BY <1>1, <1>2, <1>3, <1>4, <1>5, <1>6, <1>7, PromiseOfRun

\* An attempt that failed does not lead beyond the cap.
LEMMA AttemptedBound ==
    ASSUME NEW n \in Nat, n < MaxAttempts, NEW auth
    PROVE  Attempted(n, auth) <= MaxAttempts
BY LimitsAssumption DEF Attempted

\* The local state a run goes on with after settling, when its snapshot holds.
LEMMA AfterMarkPromise ==
    ASSUME PromiseInv, NEW r \in Runs, run[r].pc = "mark", AfterMark(r)
    PROVE  \E x : /\ Becomes(r, x) /\ ~Claiming(x)
                  /\ x.todo \cap x.batch = {}
                  /\ \A e \in x.todo \cup x.batch :
                        e \in Events /\ Snapshot(x, row[e], e) /\ ~run[r].initial
                  /\ x.retry \/ x.amb # {} => retries > 0
<1>1. /\ run[r] \in Run /\ Consistent(run[r])
      /\ run[r].retry \/ run[r].amb # {} => retries > 0
      /\ ~Ending(run[r]) => /\ run[r].todo \cap run[r].batch = {}
                            /\ \A e \in run[r].todo \cup run[r].batch : Snapshot(run[r], row[e], e)
  BY PromiseFacts
<1>2. CASE run[r].verdict = "sent"
  <2> DEFINE p == IF ~run[r].initial THEN "next"
                  ELSE IF Webhook THEN "initial" ELSE "select"
             x == [run[r] EXCEPT !.pc = p, !.group = {}, !.verdict = "none",
                                 !.parts = 0, !.delivered = 0]
  <2>1. Becomes(r, x)
    BY <1>2 DEF AfterMark
  <2>2. p \notin {"send", "mark"}
    OBVIOUS
  <2> HIDE DEF p
  <2>3. /\ ~Claiming(x) /\ x.todo = run[r].todo /\ x.batch = run[r].batch
        /\ x.amb = run[r].amb /\ x.retry = run[r].retry
    BY <1>1, <2>2 DEF Claiming, Run
  <2> HIDE DEF x
  <2>4. ~Ending(run[r])
    BY <1>2 DEF Ending
  <2>5. \A e \in x.todo \cup x.batch : e \in Events /\ Snapshot(x, row[e], e) /\ ~run[r].initial
    BY <1>1, <2>3, <2>4 DEF Snapshot, Run, Consistent
  <2> QED BY <1>1, <2>1, <2>3, <2>4, <2>5
<1>3. CASE run[r].verdict # "sent"
  BY <1>3, IdleRunPromise DEF AfterMark, Finish
<1> QED BY <1>2, <1>3

\* mark_initial_sent, mark_initial_failed and release_initial.
LEMMA MarkInitialPromise ==
    ASSUME PromiseInv, OrderInv', [Next]_vars, NEW r \in Runs, MarkInitial(r)
    PROVE  PromiseInv' /\ Promise!Next
<1>1. /\ run[r] \in Run /\ Consistent(run[r]) /\ LicenceInv
      /\ \A e \in Events : row[e] \in Row
  BY PromiseFacts
<1>2. /\ UNCHANGED <<copies, retries>> /\ run[r].pc = "mark" /\ run[r].initial
      /\ AfterMark(r) /\ row' = MarkedInitial(r, run[r].verdict, run[r].auth)
  BY DEF MarkInitial, Commit, budget
<1>3. PICK x : /\ Becomes(r, x) /\ ~Claiming(x)
               /\ x.todo \cap x.batch = {}
               /\ \A e \in x.todo \cup x.batch :
                     e \in Events /\ Snapshot(x, row[e], e) /\ ~run[r].initial
               /\ x.retry \/ x.amb # {} => retries > 0
  BY <1>2, AfterMarkPromise
<1>4. \A e \in Events : row[e].stamp = r =>
         e \in run[r].group /\ row[e].doubt = (e \in run[r].amb)
  BY <1>1, LicenceFacts, RunsAssumption DEF Names
<1>5. run[r].verdict \in {"sent", "failed", "ambiguous", "expired"}
  BY <1>1, <1>2 DEF Run, Verdicts, Consistent
<1>6. ASSUME NEW e \in Events PROVE Settles(r, e, row'[e])
  <2>1. CASE e \notin Stamped(r)
    BY <1>2, <2>1 DEF MarkedInitial, Settles
  <2>0. e \in Stamped(r) => e \in run[r].group /\ row[e].status = "sending"
    BY <1>4 DEF Stamped
  <2>2. CASE e \in Stamped(r) /\ run[r].verdict \in {"failed", "expired"} /\ ~row[e].doubt
    <3>1. Fresh(run[r], e)
      BY <1>2, <1>4, <2>2 DEF Fresh, Stamped
    <3>2. row[e].attempts < MaxAttempts /\ row[e].attempts \in Nat
      BY <1>1, <3>1, PromiseFacts DEF Row
    <3>3. CASE run[r].verdict = "failed"
      <4>1. row'[e].status = "failed" /\ row'[e].attempts = Attempted(row[e].attempts, run[r].auth)
        BY <1>1, <1>2, <2>2, <3>3 DEF MarkedInitial, Settled, Row
      <4> QED BY <2>0, <2>2, <3>1, <3>2, <4>1, AttemptedBound DEF Settles, Unspent
    <3>4. CASE run[r].verdict = "expired"
      <4>1. row'[e].status = "pending" /\ row'[e].attempts = row[e].attempts
        BY <1>1, <1>2, <2>2, <3>4 DEF MarkedInitial, Row
      <4> QED BY <2>0, <2>2, <3>1, <3>2, <4>1, LimitsAssumption DEF Settles, Unspent
    <3> QED BY <2>2, <3>3, <3>4
  <2>3. CASE e \in Stamped(r) /\ (run[r].verdict \in {"sent", "ambiguous"} \/ row[e].doubt)
    <3>1. IF run[r].verdict = "sent" THEN row'[e].status = "sent"
          ELSE row'[e].status = "ambiguous"
      BY <1>1, <1>2, <1>5, <2>3 DEF MarkedInitial, Settled, Row
    <3> QED BY <2>0, <2>3, <3>1 DEF Settles
  <2> QED BY <1>5, <2>1, <2>2, <2>3
<1>7. x.todo = {} /\ x.batch = {}
  BY <1>2, <1>3
<1> QED BY <1>2, <1>3, <1>6, <1>7, SettleStep

\* mark_delivery and release_delivery.
LEMMA MarkDeliveryPromise ==
    ASSUME PromiseInv, OrderInv', [Next]_vars, NEW r \in Runs, MarkDelivery(r)
    PROVE  PromiseInv' /\ Promise!Next
<1> DEFINE group == run[r].group
           verdict == run[r].verdict
           doubtful == verdict = "ambiguous" \/ group \cap run[r].amb # {}
           status == IF verdict = "sent" THEN "sent"
                     ELSE IF doubtful THEN "ambiguous" ELSE "failed"
           back == IF group \subseteq run[r].amb THEN "ambiguous" ELSE "pending"
<1>1. /\ run[r] \in Run /\ Consistent(run[r])
      /\ \A e \in Events : row[e] \in Row
  BY PromiseFacts
<1>2. /\ UNCHANGED <<copies, retries>> /\ run[r].pc = "mark" /\ ~run[r].initial
      /\ AfterMark(r)
      /\ row' = IF verdict = "expired" THEN Released(group, back)
                ELSE Marked(group, status, run[r].auth)
  BY DEF MarkDelivery, Commit, budget
<1>3. PICK x : /\ Becomes(r, x) /\ ~Claiming(x)
               /\ x.todo \cap x.batch = {}
               /\ \A e \in x.todo \cup x.batch :
                     e \in Events /\ Snapshot(x, row[e], e) /\ ~run[r].initial
               /\ x.retry \/ x.amb # {} => retries > 0
  BY <1>2, AfterMarkPromise
<1>4. verdict \in {"sent", "failed", "ambiguous", "expired"}
      /\ \A e \in group : row[e].status = "sending"
  BY <1>1, <1>2, PromiseFacts DEF Run, Verdicts, Consistent, Claiming
<1>5. \A e \in Events : e \in group \/ row'[e] = row[e]
  <2> HIDE DEF group, verdict, status, back
  <2> QED BY <1>2 DEF Released, Marked
<1>6. ASSUME NEW e \in Events, e \in group PROVE Settles(r, e, row'[e])
  <2>1. row[e].status = "sending" /\ row[e].attempts \in Nat
    BY <1>1, <1>4, <1>6 DEF Row
  <2>2. CASE verdict = "expired"
    <3>1. Uniform(run[r], group)
      BY <1>1, <1>2, <2>2 DEF Consistent, Claiming
    <3>2. row'[e].status = back /\ row'[e].attempts = row[e].attempts
      <4>1. row' = Released(group, back)
        BY <1>2, <2>2
      <4> HIDE DEF back, group
      <4> QED BY <1>1, <1>6, <2>1, <4>1 DEF Released, Row
    <3>3. CASE group \subseteq run[r].amb
      BY <1>6, <2>1, <2>2, <3>2, <3>3 DEF Settles
    <3>4. CASE ~(group \subseteq run[r].amb)
      <4>1. Fresh(run[r], e)
        BY <1>2, <1>6, <2>2, <3>1, <3>4 DEF Fresh, Uniform
      <4>2. row[e].attempts < MaxAttempts
        BY <4>1, PromiseFacts
      <4> QED BY <1>6, <2>1, <3>2, <3>4, <4>1, <4>2, LimitsAssumption DEF Settles, Unspent
    <3> QED BY <3>3, <3>4
  <2>3. CASE verdict # "expired"
    <3>1. row' = Marked(group, status, run[r].auth)
      BY <1>2, <2>3
    <3>2. \/ status = "sent" /\ verdict = "sent"
          \/ status = "ambiguous" /\ verdict # "sent"
          \/ status = "failed" /\ verdict = "failed" /\ group \cap run[r].amb = {}
      BY <1>4, <2>3
    <3>3. row[e].status \in Predecessors(status)
      BY <2>1, <3>2 DEF Predecessors
    <3>4. row'[e] = Settled(row[e], status, run[r].auth)
      <4> HIDE DEF status, group
      <4> QED BY <1>6, <3>1, <3>3 DEF Marked
    <3>5. row'[e].status = status
      <4> HIDE DEF status
      <4> QED BY <1>1, <3>4 DEF Settled, Row
    <3>6. CASE status = "failed"
      <4>1. verdict = "failed" /\ group \cap run[r].amb = {}
        BY <3>2, <3>6
      <4>2. Fresh(run[r], e)
        BY <1>2, <1>6, <4>1 DEF Fresh
      <4>3. row[e].attempts < MaxAttempts
        BY <4>2, PromiseFacts
      <4>4. row'[e].attempts = Attempted(row[e].attempts, run[r].auth)
        <5> HIDE DEF status
        <5> QED BY <1>1, <3>4, <3>6 DEF Settled, Row
      <4>5. row'[e].status = "failed"
        BY <3>5, <3>6
      <4> HIDE DEF status
      <4> QED BY <1>6, <2>1, <4>2, <4>3, <4>4, <4>5, AttemptedBound DEF Settles, Unspent
    <3> HIDE DEF status
    <3> QED BY <1>6, <2>1, <3>2, <3>5, <3>6 DEF Settles
  <2> QED BY <2>2, <2>3
<1>7. \A e \in x.todo \cup x.batch : row'[e] = row[e] /\ Snapshot(x, row[e], e)
  BY <1>3, <1>4, <1>5 DEF Snapshot
<1>8. \A e \in Events : Settles(r, e, row'[e])
  BY <1>5, <1>6 DEF Settles
<1> HIDE DEF group, verdict, doubtful, status, back
<1> QED BY <1>2, <1>3, <1>7, <1>8, SettleStep
-----------------------------------------------------------------------------
(* Runs that start or die, new events, and the passing of time. *)

\* A row that is due after these transactions was due before, and no less clean.
LEMMA DueBefore ==
    ASSUME PromiseInv, [Next]_vars, UNCHANGED copies,
           \A e \in Events : row'[e].status \in Owed =>
              /\ row[e].status = row'[e].status
              /\ row'[e].attempts = row[e].attempts \/ row'[e].attempts = 0
    PROVE  \A e \in Events : row'[e].status \in Owed => Clean(e)' /\ Unspent(row'[e])
<1> SUFFICES ASSUME NEW e \in Events, row'[e].status \in Owed
             PROVE  Clean(e)' /\ Unspent(row'[e])
  OBVIOUS
<1>1. auto' = auto /\ redone' = redone
  BY DEF copies
<1>2. row'[e].status # "ambiguous"
  BY DEF Owed
<1>3. Clean(e) /\ Unspent(row[e])
  BY PromiseFacts
<1>4. Clean(e)'
  BY <1>1, <1>2, <1>3, CleanStays
<1>5. Unspent(row'[e])
  BY <1>3, LimitsAssumption DEF Unspent
<1> QED BY <1>4, <1>5

\* A run starts when no other is under way, and offers nothing that was claimed.
LEMMA BeginPromise ==
    ASSUME PromiseInv, OrderInv', [Next]_vars, Serialised, NEW r \in Runs,
           NEW only, NEW a \in BOOLEAN, NEW f \in BOOLEAN,
           Begin(r, only, a, f), a => retries' > 0, retries' \in {retries, retries + 1}
    PROVE  PromiseInv' /\ Promise!Next
<1> DEFINE x == [IdleRun EXCEPT !.pc = IF f THEN "reset" ELSE "initial",
                                !.retry = a, !.only = only]
<1>1. /\ Becomes(r, x) /\ UNCHANGED copies /\ row' = RecoverSending
      /\ \A s \in Runs : run[s].pc = "idle"
  BY DEF Begin, Commit, LockFree
<1>2. /\ ~Claiming(x) /\ x.todo = {} /\ x.batch = {} /\ x.amb = {} /\ x.retry = a
  BY DEF IdleRun, Claiming
<1>3. \A e \in Events : row[e] \in Row
  BY PromiseFacts
<1>4. \A e \in Events : row'[e].status \in Owed =>
         /\ row[e].status = row'[e].status
         /\ row'[e].attempts = row[e].attempts \/ row'[e].attempts = 0
  BY <1>1, <1>3 DEF RecoverSending, Owed, Row
<1>5. \A e \in Events : row'[e].status \in Owed => Clean(e)' /\ Unspent(row'[e])
  BY <1>1, <1>4, DueBefore
<1> HIDE DEF x
<1>6. Promise!Next
  <2>1. \A e \in Events : ~Fresh(run[r], e) /\ ~Fresh(x, e)
    BY <1>1, <1>2 DEF Fresh, Claiming
  <2>2. \A e \in Events : \/ row'[e].status = row[e].status
                          \/ row[e].status = "sending" /\ row'[e].status = "ambiguous"
    BY <1>1, <1>3 DEF RecoverSending, Row
  <2>3. \A e \in Events : Promised(e)' = Promised(e)
    BY <1>1, <2>1, <2>2, MapOfRun DEF Says, Statuses
  <2>4. CASE retries' = retries
    BY <1>1, <2>3, <2>4, MapsToDoubt
  <2>5. CASE retries' = retries + 1
    BY <1>1, <2>3, <2>5, MapsToAsk
  <2> QED BY <2>4, <2>5
<1>7. retries' >= retries
  BY PromiseFacts DEF TypeOK
<1> QED BY <1>1, <1>2, <1>5, <1>6, <1>7, Unclaimed, PromiseOfRun

\* Starting afresh with failed rows, and dying.
LEMMA ResetOrCrashPromise ==
    ASSUME PromiseInv, OrderInv', [Next]_vars, NEW r \in Runs, ResetFailed(r) \/ Crash(r)
    PROVE  PromiseInv' /\ Promise!Next
<1>1. /\ run[r] \in Run /\ Consistent(run[r]) /\ \A e \in Events : row[e] \in Row
      /\ run[r].retry \/ run[r].amb # {} => retries > 0
  BY PromiseFacts
<1>2. UNCHANGED copies /\ retries' = retries /\ run[r].pc # "idle"
  BY DEF ResetFailed, Crash, budget
<1>3. \A e \in Events : row'[e].status \in Owed =>
         /\ row[e].status = row'[e].status
         /\ row'[e].attempts = row[e].attempts \/ row'[e].attempts = 0
  <2>1. CASE ResetFailed(r)
    BY <1>1, <2>1 DEF ResetFailed, Commit, Row
  <2>2. CASE Crash(r)
    BY <1>1, <2>2 DEF Crash, Row
  <2> QED BY <2>1, <2>2
<1>4. \A e \in Events : row'[e].status \in Owed => Clean(e)' /\ Unspent(row'[e])
  BY <1>2, <1>3, DueBefore
<1>5. PICK x : /\ Becomes(r, x) /\ ~Claiming(x) /\ x.todo = {} /\ x.batch = {}
               /\ x.retry \/ x.amb # {} => retries' > 0
  <2>1. CASE ResetFailed(r)
    <3> DEFINE x == [run[r] EXCEPT !.pc = "initial"]
    <3>1. Becomes(r, x) /\ run[r].pc = "reset"
      BY <2>1 DEF ResetFailed
    <3>2. /\ ~Claiming(x) /\ x.todo = {} /\ x.batch = {} /\ x.retry = run[r].retry
          /\ x.amb = run[r].amb
      BY <1>1, <3>1 DEF Consistent, Claiming, Run
    <3> HIDE DEF x
    <3> QED BY <1>1, <1>2, <3>1, <3>2
  <2>2. CASE Crash(r)
    BY <2>2, IdleRunPromise DEF Crash, Finish
  <2> QED BY <2>1, <2>2
<1>6. \A s \in Runs : s # r => run[s].pc = "idle"
  BY <1>2, Alone
<1>7. retries' >= retries
  BY <1>2, PromiseFacts DEF TypeOK
<1>8. \A e \in Events : row'[e].status = row[e].status
  <2>1. CASE ResetFailed(r)
    BY <1>1, <2>1 DEF ResetFailed, Commit, Row
  <2>2. CASE Crash(r)
    BY <1>1, <2>2 DEF Crash, Row
  <2> QED BY <2>1, <2>2
<1>9. Promise!Next
  <2>1. \A e \in Events : ~Fresh(x, e)
    BY <1>5, Unclaimed
  <2>2. ASSUME NEW e \in Events
        PROVE  \/ Promised(e)' = Promised(e)
               \/ Promised(e) = "owed" /\ Promised(e)' = "unsure"
    BY <1>5, <1>6, <1>8, <2>1, MapOfRun DEF Says, Statuses
  <2> QED BY <1>2, <2>2, MapsToDoubt
<1> QED BY <1>4, <1>5, <1>6, <1>7, <1>9, Unclaimed, PromiseOfRun

\* The environment does not touch the runs; it queues only while none is active.
LEMMA RowPromise ==
    ASSUME PromiseInv, OrderInv', [Next]_vars, Serialised,
           NEW e \in Events, Enqueue(e) \/ TimePasses(e)
    PROVE  PromiseInv' /\ Promise!Next
<1>1. /\ \A d \in Events : row[d] \in Row
      /\ row \in [Events -> Row]
  BY PromiseFacts DEF TypeOK
<1>2. UNCHANGED <<run, copies, retries>>
  BY DEF Enqueue, TimePasses, budget
<1>3. \A d \in Events :
         \/ row'[d].status = row[d].status /\ row'[d].attempts = row[d].attempts
         \/ /\ row[d].status = "absent" /\ row'[d].status = "pending"
            /\ row'[d].attempts = row[d].attempts
            /\ \A r \in Runs : run[r].pc = "idle"
  BY <1>1 DEF Enqueue, TimePasses, Commit, LockFree, Row
<1>4. OneRun'
  BY <1>2 DEF PromiseInv, OneRun
<1>5. HeldIsClaimed'
  <2> SUFFICES ASSUME NEW r \in Runs, Claiming(run[r]), NEW d \in run[r].group
               PROVE  row'[d].status = "sending"
    BY <1>2 DEF HeldIsClaimed
  <2>1. run[r].pc # "idle" /\ d \in Events /\ row[d].status = "sending"
    BY PromiseFacts DEF Claiming, Run
  <2> QED BY <1>3, <2>1
<1>6. SnapshotsHold'
  <2> SUFFICES ASSUME NEW r \in Runs, ~Ending(run[r])
               PROVE  /\ run[r].todo \cap run[r].batch = {}
                      /\ \A d \in run[r].todo \cup run[r].batch : Snapshot(run[r], row'[d], d)
    BY <1>2 DEF SnapshotsHold
  <2> SUFFICES ASSUME NEW d \in run[r].todo \cup run[r].batch
               PROVE  Snapshot(run[r], row'[d], d)
    BY PromiseFacts
  <2>1. d \in Events /\ Snapshot(run[r], row[d], d)
    BY PromiseFacts DEF Run
  <2>2. row[d].status # "absent"
    BY <2>1 DEF Snapshot
  <2> QED BY <1>3, <2>1, <2>2 DEF Snapshot
<1>7. OwedIsClean'
  <2> SUFFICES ASSUME NEW d \in Events, row'[d].status \in Owed
               PROVE  Clean(d)' /\ Unspent(row'[d])
    BY DEF OwedIsClean
  <2>1. row[d].status \in Owed /\ row'[d].status # "ambiguous"
    BY <1>3 DEF Owed
  <2>2. Clean(d) /\ Unspent(row[d])
    BY <2>1, PromiseFacts
  <2>3. Unspent(row'[d])
    BY <1>3, <2>2 DEF Unspent
  <2> QED BY <1>2, <2>1, <2>2, <2>3, CleanStays DEF copies
<1>8. FreshIsClean'
  <2> SUFFICES ASSUME NEW r \in Runs, NEW d \in Events, Fresh(run[r], d)
               PROVE  Clean(d)' /\ row'[d].attempts < MaxAttempts
    BY <1>2 DEF FreshIsClean
  <2>1. Claiming(run[r]) /\ d \in run[r].group
    BY DEF Fresh, Claiming
  <2>2. row[d].status = "sending" /\ Clean(d) /\ row[d].attempts < MaxAttempts
    BY <2>1, PromiseFacts
  <2>3. row'[d].status # "ambiguous" /\ row'[d].attempts = row[d].attempts
    BY <1>3, <2>2
  <2> QED BY <1>2, <2>2, <2>3, CleanStays DEF copies
<1>9. DoubtIsAsked'
  BY <1>2 DEF PromiseInv, DoubtIsAsked
<1>10. Promise!Next
  <2>1. \A d \in Events : (\E s \in Runs : Fresh(run'[s], d)) = (\E s \in Runs : Fresh(run[s], d))
    BY <1>2
  <2>2. \A d \in Events :
           /\ row[d].status \in Statuses
           /\ Says(Promised(d), row[d].status, \E s \in Runs : Fresh(run[s], d))
           /\ Says(Promised(d)', row'[d].status, \E s \in Runs : Fresh(run[s], d))
    BY <1>1, <2>1, PromisedSays DEF Says, Row
  <2>3. CASE Enqueue(e)
    <3>1. /\ row[e].status = "absent" /\ row'[e].status = "pending"
          /\ \A d \in Events \ {e} : row'[d].status = row[d].status
      BY <1>1, <2>3 DEF Enqueue, Commit, Row
    <3>2. Promised(e) = "absent" /\ Promised(e)' = "owed"
      BY <2>2, <3>1 DEF Says
    <3>3. \A d \in Events \ {e} : Promised(d)' = Promised(d)
      BY <2>2, <3>1 DEF Says, Statuses
    <3> QED BY <1>2, <3>2, <3>3, MapsToQueue
  <2>4. CASE TimePasses(e)
    <3>1. \A d \in Events : row'[d].status = row[d].status
      BY <1>1, <2>4 DEF TimePasses, Row
    <3>2. \A d \in Events : Promised(d)' = Promised(d)
      BY <2>2, <3>1 DEF Says, Statuses
    <3> QED BY <1>2, <3>2, MapsToDoubt
  <2> QED BY <2>3, <2>4
<1> QED BY <1>4, <1>5, <1>6, <1>7, <1>8, <1>9, <1>10 DEF PromiseInv

\* The empty outbox satisfies the invariant.
LEMMA PromiseInit == Init => PromiseInv
<1> SUFFICES ASSUME Init PROVE PromiseInv
  OBVIOUS
<1>1. /\ \A r \in Runs : run[r] = IdleRun
      /\ \A e \in Events : auto[e] = 0 /\ redone[e] = 0 /\ row[e] = NewRow
      /\ doubted = {}
  BY DEF Init
<1>2. \A r \in Runs : ~Claiming(run[r]) /\ run[r].pc = "idle"
  BY <1>1, IdleRunPromise DEF IdleRun
<1>3. Unspent(NewRow)
  BY LimitsAssumption DEF Unspent, NewRow
<1>4. OneRun /\ HeldIsClaimed
  BY <1>2 DEF OneRun, HeldIsClaimed
<1>5. SnapshotsHold /\ FreshIsClean /\ DoubtIsAsked
  BY <1>1, IdleRunPromise DEF SnapshotsHold, FreshIsClean, DoubtIsAsked
<1>6. OwedIsClean
  BY <1>1, <1>3 DEF OwedIsClean, Clean
<1> QED BY <1>4, <1>5, <1>6, OrderInit DEF PromiseInv

\* So do all the steps when the callers hold the operation lock.
LEMMA PromiseStep ==
    ASSUME PromiseInv, [Next]_vars, Serialised
    PROVE  PromiseInv' /\ Promise!Next
<1>1. OrderInv'
  BY OrderStep DEF PromiseInv
<1>2. retries \in Nat
  BY PromiseFacts DEF TypeOK
<1>3. ASSUME NEW r \in Runs, Start(r) PROVE PromiseInv' /\ Promise!Next
  <2>1. PICK only : Begin(r, only, FALSE, FALSE)
    BY <1>3 DEF Start
  <2>2. retries' = retries
    BY <1>3 DEF Start
  <2> QED BY <1>1, <2>1, <2>2, BeginPromise
<1>4. ASSUME NEW r \in Runs, OperatorStart(r) PROVE PromiseInv' /\ Promise!Next
  BY <1>1, <1>2, <1>4, BeginPromise DEF OperatorStart
<1>5. ASSUME NEW r \in Runs, Work(r) PROVE PromiseInv' /\ Promise!Next
  BY <1>1, <1>5, PhasePromise, UnsentPromise, SentPromise, ClaimInitialPromise,
     ClaimGroupPromise, MarkInitialPromise, MarkDeliveryPromise, ResetOrCrashPromise DEF Work
<1>6. ASSUME NEW r \in Runs, Crash(r) \/ Expire(r) PROVE PromiseInv' /\ Promise!Next
  BY <1>1, <1>6, ResetOrCrashPromise, UnsentPromise
<1>7. ASSUME NEW e \in Events, Enqueue(e) \/ TimePasses(e) PROVE PromiseInv' /\ Promise!Next
  BY <1>1, <1>7, RowPromise
<1>8. CASE UNCHANGED vars
  <2>1. PromiseInv'
    BY <1>1, <1>8 DEF PromiseInv, OneRun, HeldIsClaimed, SnapshotsHold, OwedIsClean,
                      FreshIsClean, DoubtIsAsked, Clean, vars
  <2>2. \A e \in Events : Promised(e)' = Promised(e)
    BY <1>8 DEF vars, Promised
  <2> QED BY <1>8, <2>1, <2>2, MapsToDoubt DEF vars, copies
<1> QED BY <1>3, <1>4, <1>5, <1>6, <1>7, <1>8 DEF Next

\* With the operation lock held around every run, the rows tell the truth about
\* runs, claims and the provider.
THEOREM PromiseInvCorrect ==
    ASSUME Serialised PROVE Spec => []PromiseInv
<1>1. PromiseInv /\ [Next]_vars => PromiseInv'
  BY PromiseStep
<1> QED BY <1>1, PromiseInit, PTL DEF Spec

\* A row recorded as sent was accepted, a row that is retried by itself never was,
\* and automatic attempts end at the cap.
THEOREM OutboxIsTrueCorrect ==
    ASSUME Serialised PROVE Spec => []OutboxIsTrue
<1>1. PromiseInv => OutboxIsTrue
  <2> SUFFICES ASSUME PromiseInv PROVE OutboxIsTrue
    OBVIOUS
  <2>1. OwedWasNotAccepted
    BY PromiseFacts DEF OwedWasNotAccepted, Owed, Clean
  <2>2. AttemptsCapped
    BY PromiseFacts DEF AttemptsCapped, Owed, Unspent
  <2>3. TypeOK /\ SentWasAccepted
    BY PromiseFacts DEF PromiseInv, OrderInv
  <2> QED BY <2>1, <2>2, <2>3 DEF OutboxIsTrue
<1> QED BY <1>1, PromiseInvCorrect, PTL

\* A row that was ambiguous once is never put back among those that are sent
\* without asking (recover_sending, release_delivery, the settling of a retry).
THEOREM DoubtIsKeptCorrect ==
    ASSUME Serialised PROVE Spec => DoubtIsKept
<1>1. PromiseInv /\ [Next]_vars =>
         [\A e \in doubted : row'[e].status \notin {"pending", "failed"}]_vars
  <2> SUFFICES ASSUME PromiseInv, [Next]_vars, NEW e \in doubted
               PROVE  row'[e].status \notin {"pending", "failed"}
    OBVIOUS
  <2>1. e \in Events /\ e \in doubted'
    BY PromiseFacts, GivenUpMoves DEF TypeOK
  <2>2. OwedIsClean'
    BY PromiseStep DEF PromiseInv
  <2> QED BY <2>1, <2>2 DEF OwedIsClean, Owed, Clean
<1> QED BY <1>1, PromiseInvCorrect, PTL DEF Spec, DoubtIsKept

\* The empty outbox promises nothing.
LEMMA PromisedInit == Init => Promise!Init
BY DEF Init, NewRow, Promised, Promise!Init

\* With the operation lock the rows, runs and claims implement the promise: each
\* step queues an event, is asked for a retry, transmits, doubts or confirms, or
\* shows nothing.
THEOREM KeepsPromiseCorrect ==
    ASSUME Serialised PROVE Spec => KeepsPromise
<1>1. PromiseInv /\ [Next]_vars => Promise!Next
  BY PromiseStep
<1> QED BY <1>1, PromisedInit, PromiseInvCorrect, PTL DEF Spec, KeepsPromise, Promise!Spec
=============================================================================
