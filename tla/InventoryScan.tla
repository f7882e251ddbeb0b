--------------------------- MODULE InventoryScan ---------------------------
(***************************************************************************)
(* Scans of the inventory, for one asset: the query of its sources         *)
(* (engine.py, package_query.py, reconcile.py), the transaction that       *)
(* records findings and material events (state.py), the notification of    *)
(* the channels (cli.py), and the snapshot that clients are looked up in.  *)
(*                                                                         *)
(* Advisories are numbers, in the order of their names: a CVE comes before *)
(* the advisories of a package database.  The operation lock admits one    *)
(* scan at a time; a scan may die at any step.                             *)
(***************************************************************************)
EXTENDS Integers, Sequences, FiniteSetsExt

CONSTANTS
    Cves, Advisories,   \* names, as numbers
    Enabled,            \* sources that are configured
    Outages,            \* sources that may fail
    Paths,              \* identity paths of the asset: "package", "product"
    Channels,
    None,
    Says,               \* what the sources may say of an advisory or a CVE
    MaxChanges,         \* bound: changes of what the sources publish
    MaxScans            \* bound: scans

InventoryScanAssumption ==
    /\ Cves \cup Advisories \subseteq Nat /\ Cves \cap Advisories = {}
    /\ Outages \subseteq Enabled /\ Paths \subseteq {"package", "product"}
    /\ "package" \in Paths => "osv" \in Enabled   \* otherwise a package is not asked for
    /\ Says \subseteq {"affected", "not_affected", "needs_review", "unknown"}
    /\ MaxChanges \in Nat

VARIABLES
    path,      \* Asset.identity_path
    target,    \* Asset.target_key: it changes with the version of the asset
    world,     \* what the sources publish
    changes,   \* history: the number of changes of it
    rows,      \* current_findings
    ledger,    \* advisory_aliases: alias -> primary
    events,    \* events
    channel,   \* deliveries, per event
    run,       \* the latest completed run: scan_findings, for affected_clients
    attempt,   \* scan_attempts: the status of the latest
    scan,      \* the scan that runs
    tx,        \* its transaction: the tables as it sees them, and what is left to record
    took,      \* history: events a channel took
    since      \* history: per row, what had changed at its last complete refresh

store == <<rows, ledger, events, channel, run>>
vars == <<path, target, world, changes, store, attempt, scan, tx, took, since>>

Labels == Cves \cup Advisories
Core == IF path = "package" THEN {"osv"} ELSE {"nvd", "cve_list", "euvd"} \cap Enabled
NoScan == [phase |-> "idle"]
NoTx == [left |-> {}]

\* Nothing is recorded yet; the records of the package database may be linked by a CVE.
Init ==
    /\ path \in Paths /\ target = 1
    /\ \E there, linked \in SUBSET Advisories :
        /\ Min(Advisories) \in there /\ linked \subseteq there
        /\ world = [osv |-> [a \in Advisories |->
                               [there |-> a \in there, says |-> "affected",
                                alias |-> IF a \in linked THEN Cves ELSE {}]],
                    listed |-> TRUE, says |-> "affected", rejected |-> FALSE, cvss |-> 1,
                    kev |-> FALSE]
    /\ changes = 0
    /\ rows = <<>> /\ ledger = <<>> /\ events = <<>> /\ channel = <<>> /\ run = <<>>
    /\ attempt = "none" /\ scan = NoScan /\ tx = NoTx
    /\ took = [c \in Channels |-> {}] /\ since = <<>>

\* The sources publish something else.  A query reads them in one step: what they publish
\* during the rest of a scan is as if they did it after.
Publish ==
    /\ scan.phase = "idle" /\ changes < MaxChanges /\ changes' = changes + 1
    /\ \/ /\ path = "package"
          /\ \E a \in Advisories : \E there \in BOOLEAN, alias \in {{}, Cves},
                says \in Says :
               world' = [world EXCEPT !.osv[a] = [there |-> there, alias |-> alias, says |-> says]]
       \/ path = "product" /\ world' = [world EXCEPT !.listed = ~@]
       \/ path = "product" /\ \E s \in Says : world' = [world EXCEPT !.says = s]
       \/ world' = [world EXCEPT !.rejected = ~@]
       \/ world' = [world EXCEPT !.cvss = 3 - @]
       \/ world' = [world EXCEPT !.kev = ~@]
    /\ world' # world
    /\ UNCHANGED <<path, target, store, attempt, scan, tx, took, since>>

\* The inventory has another version of the asset.
Upgrade ==
    /\ target = 1 /\ target' = 2 /\ scan.phase = "idle"
    /\ UNCHANGED <<path, world, changes, store, attempt, scan, tx, took, since>>
-----------------------------------------------------------------------------
(* The query. *)

\* reconcile: disagreement is never erased, whatever the order of the claims.
Reconcile(decisions, rejected, evidence) ==
    LET states == decisions \ {"unknown"}
    IN  CASE rejected -> "needs_review"
          [] {"affected", "not_affected"} \subseteq states -> "needs_review"
          [] "affected" \in states -> "affected"
          [] states = {"not_affected"} -> "not_affected"
          [] "not_affected" \in states -> "needs_review"
          [] decisions = {"unknown"} -> "unknown"
          [] "needs_review" \in states \/ evidence # {} -> "needs_review"
          [] OTHER -> "unknown"

Conflicts(decisions, rejected) ==
    IF ~rejected /\ "not_affected" \in decisions
          /\ decisions \cap {"affected", "needs_review"} # {}
    THEN decisions ELSE {}

\* Rows that the alias index does not hide, as latest_findings returns them.
Visible == {p \in DOMAIN rows : p \in DOMAIN ledger => ledger[p] = p}

\* QueryEngine.scan: what is known of this target is asked for again.
Known == {p \in Visible : rows[p].target = target}
KnownNames == {rows[p].names : p \in Known}
KnownIds == UNION {rows[p].ids : p \in Known}

\* The names that the links connect with a name.
Connected(name, links) ==
    {n \in Labels : \A s \in SUBSET Labels :
        (name \in s /\ \A l \in links : l \cap s # {} => l \subseteq s) => n \in s}

\* alias_groups: records are united by authoritative aliases, known ones included.
AliasGroups(records) ==
    LET links == KnownNames \cup {{r} \cup world.osv[r].alias : r \in records}
    IN  {Connected(r, links) : r \in records}

\* The metadata of a CVE: it is rejected, its score, and whether it is in the catalogue.
Rejected(up) == up \cap {"nvd", "cve_list"} # {} /\ world.rejected
Score(up) == IF up \cap {"nvd", "cve_list"} # {} THEN world.cvss ELSE None
Exploited(up) == IF "cisa_kev" \in up THEN world.kev ELSE None

\* query_package for one group of records.
PackageFinding(group, records, up) ==
    LET ids == group \cap records
        decisions == {world.osv[r].says : r \in ids}
                        \cup (IF "osv" \in up THEN {} ELSE {"needs_review"})
        state == Reconcile(decisions, FALSE, ids)
        cves == IF state = "not_affected" THEN {} ELSE group \cap Cves
        rejected == cves # {} /\ Rejected(up)
    IN  [names |-> group, ids |-> ids,
         primary |-> IF group \cap Cves # {} THEN Min(group \cap Cves) ELSE Min(ids),
         state |-> IF rejected THEN "needs_review" ELSE state,
         rejected |-> rejected,
         cvss |-> IF cves = {} THEN None ELSE Score(up),
         kev |-> IF cves = {} THEN None ELSE Exploited(up),
         evidence |-> {<<r, world.osv[r].says>> : r \in ids},
         conflicts |-> Conflicts(decisions, FALSE)]

\* query_asset of a package: what discovery returns and what is known; when it is
\* incomplete, any of them may be missing.
PackageFindings(up, lost) ==
    LET there == {a \in Advisories : world.osv[a].there \/ a \in KnownIds}
        records == IF "osv" \in up THEN there ELSE there \ lost
    IN  {PackageFinding(g, records, up) : g \in AliasGroups(records)}

\* Sources of a product that failed, or found nothing (EUVD).
Incomplete(up) ==
    (Enabled \ up) \cup (IF path = "product" /\ ~world.listed THEN {"euvd"} \cap Enabled ELSE {})

CoreIncomplete(up) == Incomplete(up) \cap Core # {}

\* query_asset of a product.
ProductFindings(up) ==
    LET found == IF up \cap {"nvd", "euvd"} # {} /\ world.listed THEN Cves ELSE {}
        matched == "nvd" \in up /\ world.listed
        decisions ==
            (IF matched THEN {"affected"} ELSE {})
            \cup (IF "cve_list" \in up THEN {world.says} ELSE {"needs_review"})
            \cup (IF CoreIncomplete(up) THEN {"needs_review"} ELSE {})
        rejected == "cve_list" \in up /\ world.rejected
        evidence == (IF matched THEN {<<"nvd">>} ELSE {})
            \cup (IF "cve_list" \in up THEN {<<"cve_list", world.says, world.rejected>>} ELSE {})
    IN  {[names |-> {c}, ids |-> {}, primary |-> c,
          state |-> Reconcile(decisions, rejected, evidence), rejected |-> rejected,
          cvss |-> IF matched \/ "cve_list" \in up THEN world.cvss ELSE None,
          kev |-> Exploited(up), evidence |-> evidence,
          conflicts |-> Conflicts(decisions, rejected)] : c \in found \cup UNION KnownNames}

\* start_scan, and the query of the asset while some sources may be out.
Start ==
    /\ scan.phase = "idle" /\ Len(run) < MaxScans
    /\ attempt' = "running"
    /\ \E down \in SUBSET Outages, lost \in SUBSET Advisories :
        LET up == Enabled \ down
            findings == IF path = "package" THEN PackageFindings(up, lost) ELSE ProductFindings(up)
        IN  /\ "osv" \in up \/ path = "product" => lost = {}
            /\ scan' = [phase |-> "queried", findings |-> findings, up |-> up, at |-> changes,
                        complete |-> /\ Incomplete(up) = {} /\ findings # {}
                                     /\ path = "package" =>
                                          \A f \in findings : f.state \notin {"unknown", "needs_review"}]
    /\ UNCHANGED <<path, target, world, changes, store, tx, took, since>>
-----------------------------------------------------------------------------
(* The record of a scan: one transaction, which takes the findings one by one.  Nobody *)
(* sees its tables before it is committed.                                             *)

\* _payload_fingerprint
Material(p, f) ==
    <<p, f.state, f.rejected, f.cvss, f.kev, f.evidence, f.conflicts>>

\* The oldest of some rows, by the time it was first seen and its name.
Oldest(found) ==
    CHOOSE p \in found : \A q \in found :
        \/ tx.rows[p].first < tx.rows[q].first
        \/ tx.rows[p].first = tx.rows[q].first /\ p <= q

\* The names of a finding and what they lead to, and the rows with these names.
Candidates(f) == f.names \cup {tx.ledger[n] : n \in f.names \cap DOMAIN tx.ledger}
Found(f) == Candidates(f) \cap DOMAIN tx.rows

\* A finding that is known keeps the name it was first recorded under.
Primary(f) == IF Found(f) = {} THEN f.primary ELSE Oldest(Found(f))

\* All names that the links of the transaction connect with a finding.
AllNames(f) ==
    UNION {Connected(n, {{m, tx.ledger[m]} : m \in DOMAIN tx.ledger}) :
             n \in Candidates(f) \cup {Primary(f)}}

\* It has a name that was recorded in this scan already.
Collides(f) == (Candidates(f) \cup {Primary(f)}) \cap tx.observed # {}

\* An incomplete refresh keeps the last observation, unless the record is rejected.
Retains(f) == Found(f) # {} /\ CoreIncomplete(scan.up) /\ ~f.rejected

Rank(state) == IF state = "affected" THEN 2 ELSE IF state = "needs_review" THEN 1 ELSE 0

\* Of two findings with the same name clients see the worse one.
Worse(snapshot, names, state) ==
    [n \in DOMAIN snapshot \cup names |->
        IF n \notin DOMAIN snapshot THEN state
        ELSE IF n \in names /\ Rank(state) > Rank(snapshot[n]) THEN state ELSE snapshot[n]]

\* Slip: what a failed refresh did not say is taken for an answer.
ForgetsExploited(f, old, up) == f.kev

\* A failed refresh of the catalogue keeps what it said before.
KeepsExploited(f, old, up) == IF "cisa_kev" \notin up THEN old.kev ELSE f.kev

\* The row of a finding.
Row(f) ==
    LET old == tx.rows[Primary(f)]
        new == Found(f) = {}
    IN  [names |-> f.names \cup {Primary(f)}, ids |-> f.ids, target |-> target,
         first |-> IF new THEN Len(run) + 1 ELSE old.first,
         state |-> f.state, rejected |-> f.rejected, cvss |-> f.cvss,
         kev |-> IF new THEN f.kev ELSE KeepsExploited(f, old, scan.up),
         evidence |-> f.evidence, conflicts |-> f.conflicts]

\* What is told of it, if anything.
News(f) ==
    LET p == Primary(f)
        is == Material(p, Row(f))
    IN  IF Found(f) = {} THEN <<[type |-> "new", row |-> p, names |-> AllNames(f), is |-> is]>>
        ELSE IF is # Material(p, tx.rows[p])
        THEN <<[type |-> "changed", row |-> p, names |-> AllNames(f), is |-> is]>>
        ELSE <<>>

\* The names of a finding and all that led to them lead to its row.
Redirect(f) ==
    [n \in DOMAIN tx.ledger \cup Candidates(f) |->
        IF n \in Candidates(f) \/ tx.ledger[n] \in Candidates(f) THEN Primary(f)
        ELSE tx.ledger[n]]

\* The transaction begins.
Begin ==
    /\ scan.phase = "queried" /\ scan' = [scan EXCEPT !.phase = "recording"]
    /\ tx' = [left |-> scan.findings, rows |-> rows, ledger |-> ledger, events |-> events,
              observed |-> {}, snapshot |-> <<>>]
    /\ UNCHANGED <<path, target, world, changes, store, attempt, took, since>>

\* The finding that is next: those of a package come in the order of their names.
IsNext(f) ==
    /\ scan.phase = "recording" /\ f \in tx.left
    /\ path = "package" => \A g \in tx.left : f.primary <= g.primary

\* It is seen, and its row stays as it was.
Retain(f) ==
    /\ IsNext(f) /\ ~Collides(f) /\ Retains(f)
    /\ tx' = [left |-> tx.left \ {f}, rows |-> tx.rows, ledger |-> tx.ledger,
              events |-> tx.events, observed |-> tx.observed \cup {Primary(f)},
              snapshot |-> Worse(tx.snapshot, AllNames(f), f.state)]
    /\ UNCHANGED <<path, target, world, changes, store, attempt, scan, took, since>>

\* It is seen, and its row says so.
Refresh(f) ==
    /\ IsNext(f) /\ ~Collides(f) /\ ~Retains(f)
    /\ tx' = [left |-> tx.left \ {f},
              rows |-> [p \in DOMAIN tx.rows \cup {Primary(f)} |->
                          IF p = Primary(f) THEN Row(f) ELSE tx.rows[p]],
              ledger |-> Redirect(f), events |-> tx.events \o News(f),
              observed |-> tx.observed \cup {Primary(f)},
              snapshot |-> Worse(tx.snapshot, AllNames(f), f.state)]
    /\ UNCHANGED <<path, target, world, changes, store, attempt, scan, took, since>>

\* Two findings of the scan are the same known one: the transaction is rolled back.
Collide ==
    /\ \E f \in tx.left : IsNext(f) /\ Collides(f)
    /\ scan' = NoScan /\ tx' = NoTx /\ attempt' = "failed"
    /\ UNCHANGED <<path, target, world, changes, store, took, since>>

\* The transaction ends.  Only a complete run is looked up for clients.
Commit ==
    /\ scan.phase = "recording" /\ tx.left = {}
    /\ rows' = tx.rows /\ ledger' = tx.ledger /\ events' = tx.events
    /\ channel' = [i \in DOMAIN tx.events |->
                     IF i \in DOMAIN channel THEN channel[i] ELSE [c \in Channels |-> "pending"]]
    /\ run' = Append(run, [complete |-> scan.complete, snapshot |-> tx.snapshot,
                           findings |-> scan.findings])
    /\ scan' = [phase |-> "notify", left |-> Channels, complete |-> scan.complete, failed |-> FALSE]
    /\ tx' = NoTx
    /\ since' = [p \in DOMAIN tx.rows |->
                    IF p \in tx.observed /\ Enabled \subseteq scan.up THEN scan.at
                    ELSE IF p \in DOMAIN since THEN since[p] ELSE -1]
    /\ UNCHANGED <<path, target, world, changes, attempt, took>>

\* affected_clients: the latest complete run, by any name of the advisory.
Complete == {i \in DOMAIN run : run[i].complete}
Impact == IF Complete = {} THEN <<>> ELSE run[Max(Complete)].snapshot
-----------------------------------------------------------------------------
(* The channels. *)

\* pending_events
Pending(c) == {i \in DOMAIN channel : channel[i][c] \in {"pending", "failed"}}

\* _notify_pending: one message for all that is pending; it is taken, or refused, or taken
\* while the answer is lost.
Send(c) ==
    /\ scan.phase = "notify" /\ c \in scan.left /\ Pending(c) # {}
    /\ \E accepted \in BOOLEAN, reaches \in BOOLEAN :
        /\ accepted => reaches
        /\ took' = IF reaches THEN [took EXCEPT ![c] = @ \cup Pending(c)] ELSE took
        /\ scan' = [phase |-> "sent", to |-> c, ids |-> Pending(c), accepted |-> accepted,
                    left |-> scan.left \ {c}, complete |-> scan.complete, failed |-> scan.failed]
    /\ UNCHANGED <<path, target, world, changes, store, attempt, tx, since>>

\* mark_delivery
Mark ==
    /\ scan.phase = "sent"
    /\ channel' = [i \in DOMAIN channel |->
                     IF i \in scan.ids /\ channel[i][scan.to] # "accepted"
                     THEN [channel[i] EXCEPT ![scan.to] = IF scan.accepted THEN "accepted" ELSE "failed"]
                     ELSE channel[i]]
    /\ scan' = [phase |-> "notify", left |-> scan.left, complete |-> scan.complete,
                failed |-> scan.failed \/ ~scan.accepted]
    /\ UNCHANGED <<path, target, world, changes, rows, ledger, events, run, attempt, tx, took, since>>

\* The scan succeeded: nothing was incomplete and every channel took what it had to.
Successful == scan.complete /\ ~scan.failed

\* finish_scan
Finish ==
    /\ scan.phase = "notify" /\ \A c \in scan.left : Pending(c) = {}
    /\ attempt' = IF Successful THEN "completed" ELSE "failed"
    /\ scan' = NoScan
    /\ UNCHANGED <<path, target, world, changes, store, tx, took, since>>

\* The scan dies: its transaction is undone, its attempt stays as it is.
Crash ==
    /\ scan.phase # "idle" /\ scan' = NoScan /\ tx' = NoTx
    /\ UNCHANGED <<path, target, world, changes, store, attempt, took, since>>

Next ==
    \/ Publish \/ Upgrade \/ Start \/ Begin
    \/ \E f \in tx.left : Retain(f) \/ Refresh(f)
    \/ Collide \/ Commit
    \/ \E c \in Channels : Send(c)
    \/ Mark \/ Finish \/ Crash

Spec == Init /\ [][Next]_vars
-----------------------------------------------------------------------------
TypeOK ==
    /\ target \in 1..2 /\ changes \in 0..MaxChanges
    /\ DOMAIN rows \subseteq Labels /\ DOMAIN ledger \subseteq Labels
    /\ \A n \in DOMAIN ledger : ledger[n] \in DOMAIN rows
    /\ Len(channel) = Len(events)
    /\ attempt \in {"none", "running", "completed", "failed"}

\* A vulnerability is told as new once: no later finding that is linked with it by a known
\* alias, nor a new version of the asset, makes it new again, and what is told as changed
\* was told as new under the same name.
NewOnce ==
    \A j \in DOMAIN events :
        LET before == {i \in 1..(j - 1) : events[i].type = "new"}
        IN  IF events[j].type = "new" THEN \A i \in before : events[i].row \notin events[j].names
            ELSE \E i \in before : events[i].row = events[j].row

\* What is shown as the current state of a finding is what was told of it last.
RowsAreTold ==
    \A p \in DOMAIN rows : \E i \in DOMAIN events :
        /\ events[i].row = p /\ events[i].is = Material(p, rows[p])
        /\ \A j \in DOMAIN events : events[j].row = p => j <= i

\* Every vulnerability is shown once, however many names it had before they were linked.
ShownOnce == \A p, q \in Visible : p # q => p \notin rows[q].names

\* A finding of the latest complete run is found for clients by all of its names, at least
\* as bad as it was.
ClientsAreTold ==
    Complete # {} => \A f \in run[Max(Complete)].findings : \A n \in f.names :
        n \in DOMAIN Impact /\ Rank(Impact[n]) >= Rank(f.state)

\* A scan that is recorded as completed left no event behind that a channel has not taken.
CompletedIsDelivered ==
    attempt = "completed" => \A c \in Channels : Pending(c) = {}

\* A collision of aliases, which fails every scan from then on, needs a new version of the
\* asset: what is known of a target unites its records before they can collide.
CollisionNeedsUpgrade == target = 1 => \A f \in tx.left : IsNext(f) => ~Collides(f)

\* The types and what holds of findings, events and deliveries.
InventoryInv ==
    /\ TypeOK /\ NewOnce /\ RowsAreTold /\ ShownOnce /\ ClientsAreTold
    /\ CompletedIsDelivered /\ CollisionNeedsUpgrade

\* What a row tells apart from its score.
Unscored(f) == <<f.state, f.rejected, f.kev, f.evidence, f.conflicts>>

\* An outage is no change: when the sources have not changed since the last complete refresh
\* of a finding, and neither has the version of the asset, it is told as changed only because
\* its score was lost or found again.  The refresh of a record that is rejected is the
\* exception: it counts even if it is incomplete.
OutageIsSilent ==
    \A i \in DOMAIN events' \ DOMAIN events :
        LET p == events'[i].row
        IN  /\ ~world.rejected /\ target = 1 /\ events'[i].type = "changed"
            /\ p \in DOMAIN since /\ since[p] = changes
            => /\ Unscored(rows'[p]) = Unscored(rows[p])
               /\ None \in {rows'[p].cvss, rows[p].cvss}
=============================================================================
