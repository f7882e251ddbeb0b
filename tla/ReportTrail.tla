---------------------------- MODULE ReportTrail ----------------------------
(***************************************************************************)
(* Marks of CVEs as reported to clients: the append-only trail of          *)
(* watch/store.py with its hash chain, the identity boundary of            *)
(* watch/reporting.py in front of it, and the upgrade of old trails.       *)
(*                                                                         *)
(* A report holds the write lock of the account database from its check of *)
(* the reporter to the commit of the row in the watch database; the two    *)
(* are locked in this order.  One action per lock, check and commit.  The  *)
(* hash is taken to be free of collisions: it is the pair it is made from. *)
(***************************************************************************)
EXTENDS Integers, Sequences, FiniteSets, SequencesExt

CONSTANTS
    Reports,     \* calls of report_cve and unreport_cve
    People,      \* accounts
    Cves,
    NoReport,
    MaxRows,     \* bound: rows of the trail
    MaxVersion   \* bound: credential versions

ReportTrailAssumption ==
    /\ NoReport \notin Reports
    /\ MaxRows \in Nat \ {0} /\ MaxVersion \in Nat

VARIABLES
    identity,  \* watch.reporting.identity
    trail,     \* watch_report, by id
    schema,    \* watch_meta: schema_version
    boundary,  \* watch_meta: report_legacy_max_id, -1 when it is not there
    account,   \* the accounts, as far as reports look at them
    users,     \* who holds the write lock of the account database
    watch,     \* who holds the write lock of the watch database
    call,      \* the state of every call
    altered    \* history: somebody changed chained rows behind the program

store == <<identity, trail, schema, boundary>>
vars == <<store, account, users, watch, call, altered>>

NoChain == <<>>
Actions == {"report", "unreport"}

\* A row of a version before identities: what came later is NULL.
LegacyRow(id, cve, action) ==
    [id |-> id, cve |-> cve, action |-> action, identity |-> "none", by |-> "legacy",
     version |-> 0, chain |-> NoChain]

\* What the chain covers (REPORT_CHAIN_FIELDS).
Fields(row) == <<row.id, row.cve, row.action, row.identity, row.by>>

\* chain_hash
Hash(previous, row) == <<previous, Fields(row)>>

Legacy == {<<>>} \cup {<<LegacyRow(1, c, "report")>> : c \in Cves}

NoCall == [phase |-> "idle"]

Init ==
    /\ identity \in {"open", "registered", "authenticated"}
    /\ trail \in Legacy
    /\ schema \in {5, 7} /\ (trail # <<>> => schema = 5)
    /\ boundary = IF schema = 5 THEN -1 ELSE 0
    /\ account = [p \in People |-> [enabled |-> TRUE, version |-> 0]]
    /\ users = NoReport /\ watch = NoReport
    /\ call = [r \in Reports |-> NoCall]
    /\ altered = FALSE
-----------------------------------------------------------------------------
(* The trail. *)

OfCve(c) == {i \in DOMAIN trail : trail[i].cve = c}

SomeReport(c) == \E i \in OfCve(c) : trail[i].action = "report"

\* _latest_report: the row with the highest id.
Reported(c) ==
    \E i \in OfCve(c) : trail[i].action = "report" /\ \A j \in OfCve(c) : j <= i

LastId == IF trail = <<>> THEN 0 ELSE Last(trail).id

\* Slip: the chain starts anew with the rows after a restart.
NoPrevious == NoChain

\* The stored chain of the latest chained row, broken or not.
PreviousChain ==
    LET chained == {i \in DOMAIN trail : trail[i].version = 1}
    IN  IF chained = {} THEN NoChain ELSE trail[Max(chained)].chain

\* _insert_report
NewRow(c, action, who) ==
    LET row == [LegacyRow(LastId + 1, c, action) EXCEPT
                   !.identity = who.mode, !.by = who.who, !.version = 1]
    IN  [row EXCEPT !.chain = Hash(PreviousChain, row)]

\* _verify_report_rows for one row: legacy rows come first, none is after the
\* boundary, and none has what only later versions write.
LegacyHolds(i) ==
    /\ \A j \in 1..(i - 1) : trail[j].version = 0
    /\ trail[i].id <= boundary
    /\ trail[i].identity = "none" /\ trail[i].chain = NoChain

\* The chain expected at row i.
Expected(i) ==
    LET chain[j \in 0..i] ==
            IF j = 0 THEN NoChain
            ELSE IF trail[j].version = 0 THEN chain[j - 1]
            ELSE Hash(chain[j - 1], trail[j])
    IN  chain[i]

RowHolds(i) ==
    IF trail[i].version = 0 THEN LegacyHolds(i)
    ELSE trail[i].id > boundary /\ trail[i].chain = Expected(i)

\* verify_reports finds nothing.
Verifies == \A i \in DOMAIN trail : RowHolds(i)

\* _migrate_report_identity within _ensure_schema: what is there is legacy.
Upgrade ==
    /\ schema # 7 /\ watch = NoReport
    /\ schema' = 7
    /\ boundary' = LastId
    /\ UNCHANGED <<identity, trail, account, users, watch, call, altered>>
-----------------------------------------------------------------------------
(* Reports. *)

\* require_current_in: no check in open mode without a session, an enabled account in
\* registered mode, an unchanged one for a login or a session.
Current(who) ==
    \/ who.mode = "open"
    \/ /\ account[who.who].enabled
       /\ who.mode = "authenticated" => account[who.who].version = who.version

Becomes(r, value) == call' = [call EXCEPT ![r] = value]
At(r, phase) == call[r].phase = phase
Moves(r, phase) == Becomes(r, [call[r] EXCEPT !.phase = phase])

\* _resolve: the identity of the configured mode, or of a session; it may be a while until
\* it is used (a form that is filled in).
Resolve(r) ==
    /\ At(r, "idle")
    /\ \E mode \in {identity, "authenticated"}, p \in People, action \in Actions,
          c \in Cves :
        /\ mode # "open" => account[p].enabled
        /\ Becomes(r, [phase |-> "resolved", action |-> action, cve |-> c,
                       identity |-> [mode |-> mode, who |-> p, version |-> account[p].version]])
    /\ UNCHANGED <<store, account, users, watch, altered>>

\* _identity_guard: the account database is locked, then the reporter checked.
Guard(r) ==
    /\ At(r, "resolved")
    /\ IF call[r].identity.mode = "open" THEN Moves(r, "guarded") /\ UNCHANGED users
       ELSE /\ users = NoReport
            /\ IF Current(call[r].identity) THEN Moves(r, "guarded") /\ users' = r
               ELSE Becomes(r, NoCall) /\ UNCHANGED users
    /\ UNCHANGED <<store, account, watch, altered>>

\* Slip: a mark that was withdrawn is withdrawn again.
SomeReportWithdrawn(r, force) ==
    call[r].action = "report" \/ SomeReport(call[r].cve)

\* What the latest row of the CVE allows.
Allowed(r, force) ==
    IF call[r].action = "report" THEN ~Reported(call[r].cve) \/ force
    ELSE Reported(call[r].cve)

\* The watch transaction begins: the latest row decides, then the reporter is checked again.
Begin(r) ==
    /\ At(r, "guarded") /\ watch = NoReport /\ schema = 7
    /\ \E force \in BOOLEAN :
       IF Allowed(r, force) /\ Current(call[r].identity)
       THEN Moves(r, "writing") /\ watch' = r
       ELSE Moves(r, "written") /\ UNCHANGED watch
    /\ UNCHANGED <<store, account, users, altered>>

\* The row is committed, and with it the notice event that Delivery.Enqueue models.
Commit(r) ==
    /\ At(r, "writing") /\ Len(trail) < MaxRows
    /\ trail' = Append(trail, NewRow(call[r].cve, call[r].action, call[r].identity))
    /\ watch' = NoReport
    /\ Moves(r, "written")
    /\ UNCHANGED <<identity, schema, boundary, account, users, altered>>

\* The guard ends: the account database is released.
Release(r) ==
    /\ At(r, "written")
    /\ users' = IF users = r THEN NoReport ELSE users
    /\ Becomes(r, NoCall)
    /\ UNCHANGED <<store, account, watch, altered>>

\* The process dies; its transactions are rolled back.
Crash(r) ==
    /\ ~At(r, "idle")
    /\ users' = IF users = r THEN NoReport ELSE users
    /\ watch' = IF watch = r THEN NoReport ELSE watch
    /\ Becomes(r, NoCall)
    /\ UNCHANGED <<store, account, altered>>

\* Slip: accounts change while a report is being written.
AccountsAlwaysFree == TRUE

AccountsFree == users = NoReport

\* An account is disabled or enabled (UserStore._set_disabled).
ChangeAccount(p) ==
    /\ AccountsFree /\ account[p].version < MaxVersion
    /\ account' = [account EXCEPT ![p].enabled = ~@, ![p].version = @ + 1]
    /\ UNCHANGED <<store, users, watch, call, altered>>

\* Somebody edits the watch database: a field of a chained row, a row that is followed
\* by another chained one, or a chained row that is passed off as legacy.
Alter ==
    /\ \E i \in DOMAIN trail :
        /\ trail[i].version = 1
        /\ \/ \E p \in People \cup {"somebody"} :
                p # trail[i].by /\ trail' = [trail EXCEPT ![i].by = p]
           \/ i < Len(trail) /\ trail' = RemoveAt(trail, i)
           \/ trail' = [trail EXCEPT ![i] = LegacyRow(@.id, @.cve, @.action)]
    /\ watch = NoReport /\ altered = FALSE /\ altered' = TRUE
    /\ UNCHANGED <<identity, schema, boundary, account, users, watch, call>>

Next ==
    \/ Upgrade
    \/ \E r \in Reports : Resolve(r)
    \/ \E r \in Reports : Guard(r)
    \/ \E r \in Reports : Begin(r)
    \/ \E r \in Reports : Commit(r)
    \/ \E r \in Reports : Release(r)
    \/ \E r \in Reports : Crash(r)
    \/ \E p \in People : ChangeAccount(p)
    \/ Alter

Spec == Init /\ [][Next]_vars
-----------------------------------------------------------------------------
TypeOK ==
    /\ Len(trail) <= MaxRows /\ schema \in {5, 7} /\ boundary \in -1..MaxRows
    /\ users \in Reports \cup {NoReport} /\ watch \in Reports \cup {NoReport}
    /\ account \in [People -> [enabled : BOOLEAN, version : 0..MaxVersion]]

\* verify_reports accepts the trail of an upgraded database exactly if nobody edited it:
\* crashes, upgrades and concurrent reports never look like an edit, and no edit, nor what
\* is appended after it, hides an edit.
AlterationIsFound == schema = 7 => (Verifies <=> ~altered)

\* A mark is withdrawn only if it is there, whoever reports and withdraws at the same time.
OnlyReportsAreWithdrawn ==
    ~altered => \A i \in DOMAIN trail : trail[i].action = "unreport" =>
        \E j \in 1..(i - 1) :
            /\ trail[j].cve = trail[i].cve /\ trail[j].action = "report"
            /\ \A k \in (j + 1)..(i - 1) : trail[k].cve # trail[i].cve

\* The types and what holds of the trail.
TrailInv == TypeOK /\ AlterationIsFound /\ OnlyReportsAreWithdrawn

\* A row is committed only while its reporter is current: nobody is disabled, or gets
\* new credentials, between the check and the commit.
ReporterIsCurrent ==
    \A r \in Reports : Len(trail') > Len(trail) /\ watch = r => Current(call[r].identity)
=============================================================================
