------------------------------- MODULE MCWatch -------------------------------
(***************************************************************************)
(* WatchComponents, for TLC, with one more part: the operation lock, which *)
(* keeps the variables of its module.                                      *)
(***************************************************************************)
EXTENDS OperationLock, WatchComponents, TLC

CONSTANTS
    command, serve, read, probe,   \* commands and a probe
    a, b, c,                       \* names
    s, u                           \* slots for logins

\* The combined commands go through both locations, as does the probe that is
\* made for one of them; read needs the first location only.
TwoLocations == [p \in Actors |-> IF p = read THEN {1} ELSE {1, 2}]

\* An administrator, somebody who manages users, and a viewer.
Team ==
    LET New(admin, r, v) ==
            [admin |-> admin, disabled |-> FALSE, role |-> r, email |-> Nothing,
             password |-> TRUE, version |-> v, failed |-> 0, lock |-> "none"]
    IN  [account |-> a :> New(TRUE, "admin", 0) @@ b :> New(FALSE, "keeper", 0)
                     @@ c :> New(FALSE, "viewer", 1),
         role |-> "viewer" :> {"view"} @@ "keeper" :> {"view", "manage_users"},
         entries |-> 1,
         proofs |-> [name : {a, b, c}, version : {0}]]

OneTeam == {Team}

NoOther ==
    NoAccountFile /\ NoReportTrail /\ NoTransports /\ NoNvdScan /\ NoFeeds /\ NoInventoryScan

WatchInit ==
    /\ Init
    /\ \/ part = "locks" /\ NoAccounts /\ NoOther
       \/ ComponentsInit

LocksNext == part = "locks" /\ Next /\ UNCHANGED <<part, componentVars>>

WatchNext == LocksNext \/ (ComponentsNext /\ UNCHANGED vars)

WatchSpec == WatchInit /\ [][WatchNext]_<<part, vars, componentVars>>
==============================================================================
