------------------------------ MODULE Accounts ------------------------------
(***************************************************************************)
(* The accounts of watch/users.py, their roles, logins and audit trail,    *)
(* and the sessions of dashboard_auth.py.                                  *)
(*                                                                         *)
(* A login is verified outside the transaction that accepts it: it takes a *)
(* snapshot, hashes, and decides in a second step.  What it hands out is a *)
(* proof (AuthenticatedUser): the account and its credential version.      *)
(* Whoever holds a proof, a session or a request that is being answered,   *)
(* may use it at any later time; each transaction validates it again.      *)
(* Granularity: one action per transaction or critical section.            *)
(***************************************************************************)
EXTENDS Integers, Sequences, FiniteSets, SequencesExt

CONSTANTS
    Names,        \* user names; an account is never renamed or deleted
    Addresses,    \* e-mail addresses, names of others among them
    Roles,        \* names of roles, "viewer" among them
    NoAccount,    \* the name is not taken
    NoRole,       \* the role does not exist
    NoOne,        \* no actor: the local operator, or no e-mail address
    Slots,        \* hash_slots: logins that are verified at a time
    FailureLimit, \* LOCKOUT_FAILURES
    MaxPerUser,   \* sessions of an account
    MaxSessions,  \* sessions of the server process
    Established,  \* databases of earlier processes to start with, besides an empty one
    MaxTrail      \* bound: entries of the audit trail

Permissions == {"view", "report", "manage_users"}

AccountTypes ==
    [admin : BOOLEAN, disabled : BOOLEAN, role : Roles \cup {"admin"},
     email : Addresses \cup {NoOne}, password : BOOLEAN, version : Nat, failed : Nat,
     lock : {"none", "locked", "expired"}]

AccountsAssumption ==
    /\ "viewer" \in Roles /\ "admin" \notin Roles
    /\ NoOne \notin Names \cup Addresses
    /\ NoAccount \notin AccountTypes /\ \A granted \in SUBSET Permissions : NoRole # granted
    /\ {FailureLimit, MaxPerUser, MaxSessions} \subseteq Nat \ {0}
    /\ MaxTrail \in Nat
    /\ \A old \in Established :
        /\ old.account \in [Names -> AccountTypes \cup {NoAccount}]
        /\ old.role \in [Roles -> (SUBSET Permissions) \cup {NoRole}]
        /\ old.entries \in 0..MaxTrail
        /\ old.proofs \subseteq [name : Names, version : Nat]

VARIABLES
    account,   \* cb_user and cb_user_role
    role,      \* cb_role: the permissions of a role
    entries,   \* cb_user_audit: the number of its rows
    last,      \* its last row
    verifying, \* logins between the snapshot and their transaction
    sessions,  \* AccountSessions.sessions, the oldest first
    local,     \* watch.reporting.identity # "authenticated": no login for `users` commands
    proofs,    \* history: every proof handed out, whoever holds it
    tried      \* history: wrong passwords answered since the counter was last reset

data == <<account, role>>
audit == <<entries, last>>
vars == <<data, audit, verifying, sessions, local, proofs, tried>>

\* DEFAULT_ROLES: what a new account file contains.
DefaultRoles ==
    [r \in Roles |-> CASE r = "viewer" -> {"view"}
                       [] r = "operator" -> {"view", "report"}
                       [] OTHER -> NoRole]

Taken == {n \in Names : account[n] # NoAccount}
EnabledAdmins == {n \in Taken : account[n].admin /\ ~account[n].disabled}
RolesThere == {r \in Roles : role[r] # NoRole}

RoleOf(n) == IF account[n].admin THEN "admin" ELSE account[n].role

\* permissions_in: a role that is gone grants nothing.
PermissionsOf(n) ==
    IF account[n].admin THEN Permissions
    ELSE IF role[account[n].role] = NoRole THEN {} ELSE role[account[n].role]

\* One account at most answers to a name or an address (resolve).
KeysAreUnambiguous ==
    \A m, n \in Taken : m # n =>
        {m, account[m].email} \cap {n, account[n].email} \subseteq {NoOne}

\* Accounts never keep a role that was deleted.
RolesExist == \A n \in Taken : account[n].admin \/ account[n].role \in RolesThere

\* A new account file.
EmptyInit ==
    /\ account = [n \in Names |-> NoAccount]
    /\ role = DefaultRoles
    /\ entries = 0
    /\ proofs = {}

\* One that earlier processes used: what they left is consistent, and whoever logged in from
\* the command line may still hold a proof.
EstablishedInit ==
    /\ \E old \in Established :
        /\ account = old.account /\ role = old.role
        /\ entries = old.entries /\ proofs = old.proofs
    /\ KeysAreUnambiguous /\ RolesExist
    /\ \A n \in Taken : account[n].failed = 0 /\ account[n].lock = "none"
    /\ \A p \in proofs : p.name \in Taken /\ p.version <= account[p.name].version

Init ==
    /\ EmptyInit \/ EstablishedInit
    /\ last = [action |-> "none", name |-> NoOne, actor |-> NoOne]
    /\ verifying = [s \in Slots |-> NoOne]
    /\ sessions = <<>>
    /\ local \in BOOLEAN
    /\ tried = [n \in Names |-> 0]
-----------------------------------------------------------------------------
(* What a transaction checks. *)

\* Slip: a proof of an older credential version is accepted.
ValidByName(p) == p.name \in Taken /\ ~account[p.name].disabled

\* _validate_proof_in: the login row it also looks for is never removed.
Valid(p) ==
    /\ p.name \in Taken /\ ~account[p.name].disabled
    /\ account[p.name].version = p.version

\* require_admin_in
AdminProof(p) == Valid(p) /\ account[p.name].admin

\* require_permission_in with manage_users
Manages(p) == Valid(p) /\ "manage_users" \in PermissionsOf(p.name)

\* Slip: whoever manages accounts manages those with more permissions as well.
ManagesAny(p, n) == Manages(p)

\* _authorize_target_in
MayChange(p, n) ==
    /\ Manages(p)
    /\ account[n].admin => account[p.name].admin
    /\ account[p.name].admin \/ PermissionsOf(n) \subseteq PermissionsOf(p.name)

\* _authorize_assignment_in
MayAssign(p, r) ==
    \/ account[p.name].admin
    \/ r \in RolesThere /\ role[r] \subseteq PermissionsOf(p.name)

\* _protect_last_admin_in
OtherAdmin(n) == EnabledAdmins \ {n} # {}

\* Slip: only names are compared with a new name.
NameFree(n, email) == n \notin Taken

\* add: neither the name nor the address is the name or the address of another.
KeysFree(n, email) ==
    \A m \in Taken : {n, email} \cap {m, account[m].email} \subseteq {NoOne}

\* edit_user: the same for a new address, which may be the account's own name.
AddressFree(n, email) ==
    email = NoOne \/ \A m \in Taken \ {n} : email \notin {m, account[m].email}

\* _append_audit, with the bound of the model.
Audit(action, name, actor) ==
    /\ entries < MaxTrail
    /\ entries' = entries + 1
    /\ last' = [action |-> action, name |-> name, actor |-> actor]

Becomes(n, value) == account' = [account EXCEPT ![n] = value]
-----------------------------------------------------------------------------
(* Accounts. *)

\* The row add() inserts; accounts without a password are made locally only.
New(isAdmin, r, email, password) ==
    [admin |-> isAdmin, disabled |-> FALSE, role |-> r, email |-> email,
     password |-> password, version |-> 0, failed |-> 0, lock |-> "none"]

Add(n, isAdmin, r, email, password, actor) ==
    /\ isAdmin \/ r \in RolesThere
    /\ n \notin Taken
    /\ KeysFree(n, email)
    /\ Becomes(n, New(isAdmin, r, email, password))
    /\ Audit("add", n, actor)
    /\ UNCHANGED <<role, verifying, sessions, local, proofs, tried>>

\* `users add` without a login.
AddLocal(n) ==
    /\ local
    /\ \E isAdmin \in BOOLEAN, email \in Addresses \cup {NoOne}, password \in BOOLEAN :
        Add(n, isAdmin, "viewer", email, password, NoOne)

\* The first administrator: `users add --admin`, or /bootstrap of an empty store.
Bootstrap(n) ==
    /\ EnabledAdmins = {}
    /\ ~local \/ Taken = {}
    /\ Add(n, TRUE, "viewer", NoOne, TRUE, NoOne)

\* /users, and `users add --admin-user`.
AddBy(p, n) ==
    /\ Manages(p)
    /\ \E r \in Roles \cup {"admin"}, email \in Addresses \cup {NoOne} :
        /\ MayAssign(p, r)
        /\ Add(n, r = "admin", r, email, TRUE, p.name)

\* set_password, locally or by the owner or a manager of the account.
SetPassword(n, actor) ==
    /\ Becomes(n, [account[n] EXCEPT !.password = TRUE, !.failed = 0, !.lock = "none",
                                     !.version = @ + 1])
    /\ tried' = [tried EXCEPT ![n] = 0]
    /\ Audit("passwd", n, actor)
    /\ UNCHANGED <<role, verifying, sessions, local, proofs>>

SetPasswordLocal(n) == local /\ n \in Taken /\ SetPassword(n, NoOne)

SetPasswordBy(p, n) ==
    /\ Valid(p) /\ n \in Taken
    /\ p.name = n \/ MayChange(p, n)
    /\ SetPassword(n, p.name)

\* Slip: only a new password invalidates the proofs of an account.
DisabledOnly(n, value) == [account[n] EXCEPT !.disabled = value]

Disabled(n, value) == [account[n] EXCEPT !.disabled = value, !.version = @ + 1]

\* _set_disabled, locally or with the login of an administrator (admin_login).
SetDisabled(n, value, actor) ==
    /\ n \in Taken
    /\ value /\ n \in EnabledAdmins => OtherAdmin(n)
    /\ Becomes(n, Disabled(n, value))
    /\ Audit(IF value THEN "disable" ELSE "enable", n, actor)
    /\ UNCHANGED <<role, verifying, sessions, local, proofs, tried>>

SetDisabledLocal(n, value) == local /\ SetDisabled(n, value, NoOne)
SetDisabledBy(p, n, value) == AdminProof(p) /\ SetDisabled(n, value, p.name)

Unlock(n, actor) ==
    /\ Becomes(n, [account[n] EXCEPT !.failed = 0, !.lock = "none"])
    /\ tried' = [tried EXCEPT ![n] = 0]
    /\ Audit("unlock", n, actor)
    /\ UNCHANGED <<role, verifying, sessions, local, proofs>>

UnlockLocal(n) == local /\ n \in Taken /\ Unlock(n, NoOne)
UnlockBy(p, n) == n \in Taken /\ MayChange(p, n) /\ Unlock(n, p.name)

\* Slip: an edit may take the last administrator away.
KeepsAnyAdmin(n, r, disabled) == TRUE

KeepsAdmin(n, r, disabled) ==
    n \in EnabledAdmins /\ (r # "admin" \/ disabled) => OtherAdmin(n)

\* edit_user
EditUser(p, n, r, disabled, email) ==
    /\ n \in Taken /\ MayChange(p, n)
    /\ r # RoleOf(n) => (account[p.name].admin \/ p.name # n) /\ MayAssign(p, r)
    /\ r # "admin" => r \in RolesThere
    /\ KeepsAdmin(n, r, disabled)
    /\ AddressFree(n, email)
    /\ Becomes(n, [account[n] EXCEPT !.admin = (r = "admin"), !.role = r,
                       !.disabled = disabled, !.email = email, !.version = @ + 1])
    /\ Audit("user_edit", n, p.name)
    /\ UNCHANGED <<role, verifying, sessions, local, proofs, tried>>

SaveRole(p, r, permissions) ==
    /\ AdminProof(p)
    /\ role' = [role EXCEPT ![r] = permissions]
    /\ Audit("role_save", p.name, p.name)
    /\ UNCHANGED <<account, verifying, sessions, local, proofs, tried>>

\* Slip: roles that accounts have are deleted as well.
Unused(r) == TRUE

Free(r) == \A n \in Taken : account[n].admin \/ account[n].role # r

DeleteRole(p, r) ==
    /\ AdminProof(p)
    /\ r \in RolesThere /\ Free(r)
    /\ role' = [role EXCEPT ![r] = NoRole]
    /\ Audit("role_delete", p.name, p.name)
    /\ UNCHANGED <<account, verifying, sessions, local, proofs, tried>>
-----------------------------------------------------------------------------
(* Logins and sessions. *)

Locked(n) == account[n].lock = "locked"

\* authenticate: the snapshot, and whether the password is the one of the snapshot.
LoginBegins(s, n) ==
    /\ verifying[s] = NoOne
    /\ \E right \in BOOLEAN :
        verifying' = [verifying EXCEPT ![s] =
            [name |-> n, there |-> n \in Taken,
             version |-> IF n \in Taken THEN account[n].version ELSE 0,
             accepted |-> /\ right /\ n \in Taken
                          /\ account[n].password /\ ~account[n].disabled /\ ~Locked(n),
             locked |-> n \in Taken /\ Locked(n)]]
    /\ UNCHANGED <<data, audit, sessions, local, proofs, tried>>

\* Slip: the lock is the one of the snapshot.
LockedThen(login) == login.name \in Taken /\ login.locked

\* The lock is read again in the transaction.
LockedNow(login) == login.name \in Taken /\ Locked(login.name)

StillAccepted(login) ==
    /\ login.accepted
    /\ ~account[login.name].disabled
    /\ account[login.name].version = login.version

\* A lock that is over starts the counter again.
Failed(n) ==
    LET failures == (IF account[n].lock = "expired" THEN 0 ELSE account[n].failed) + 1
    IN  [account[n] EXCEPT
            !.failed = failures,
            !.lock = IF failures >= FailureLimit THEN "locked"
                     ELSE IF @ = "expired" THEN "none" ELSE @]

\* Unknown names and locked accounts change the trail only.
LoginRefused(s) ==
    LET login == verifying[s]
    IN  /\ login # NoOne
        /\ login.name \notin Taken \/ LockedNow(login)
        /\ Audit("login_refused", login.name, NoOne)
        /\ verifying' = [verifying EXCEPT ![s] = NoOne]
        /\ UNCHANGED <<data, sessions, local, proofs, tried>>

LoginFails(s) ==
    LET login == verifying[s]
    IN  /\ login # NoOne
        /\ login.name \in Taken /\ ~LockedNow(login) /\ ~StillAccepted(login)
        /\ Becomes(login.name, Failed(login.name))
        /\ tried' = [tried EXCEPT ![login.name] =
                         IF account[login.name].lock = "expired" THEN 1 ELSE @ + 1]
        /\ Audit("login_failed", login.name, NoOne)
        /\ verifying' = [verifying EXCEPT ![s] = NoOne]
        /\ UNCHANGED <<role, sessions, local, proofs>>

\* The places of an account's sessions.
Own(name) == {i \in DOMAIN sessions : sessions[i].name = name}

\* AccountSessions.issue: the account's oldest session makes room, others do not.
Issue(p) ==
    LET room == IF Cardinality(Own(p.name)) < MaxPerUser THEN sessions
                ELSE RemoveAt(sessions, Min(Own(p.name)))
    IN  IF Len(room) >= MaxSessions THEN room ELSE Append(room, p)

\* A login of the dashboard opens a session, one of the command line does not.
LoginSucceeds(s) ==
    LET login == verifying[s]
        proof == [name |-> login.name, version |-> login.version]
    IN  /\ login # NoOne
        /\ login.name \in Taken /\ ~LockedNow(login) /\ StillAccepted(login)
        /\ Becomes(login.name, [account[login.name] EXCEPT !.failed = 0, !.lock = "none"])
        /\ tried' = [tried EXCEPT ![login.name] = 0]
        /\ proofs' = proofs \cup {proof}
        /\ sessions' \in {sessions, Issue(proof)}
        /\ Audit("login", login.name, login.name)
        /\ verifying' = [verifying EXCEPT ![s] = NoOne]
        /\ UNCHANGED <<role, local>>

LockExpires(n) ==
    /\ n \in Taken /\ Locked(n)
    /\ Becomes(n, [account[n] EXCEPT !.lock = "expired"])
    /\ UNCHANGED <<role, audit, verifying, sessions, local, proofs, tried>>

\* protect_request drops a session whose proof is no longer valid; a session also
\* ends by its age or its idle time.
SessionEnds(i) ==
    /\ sessions' = RemoveAt(sessions, i)
    /\ UNCHANGED <<data, audit, verifying, local, proofs, tried>>

\* AccountSessions.logout_all: the sessions of the others, in their order.
Others(name) ==
    LET rest[i \in 0..Len(sessions)] ==
            IF i = 0 THEN <<>>
            ELSE IF sessions[i].name = name THEN rest[i - 1]
            ELSE Append(rest[i - 1], sessions[i])
    IN  rest[Len(sessions)]

\* /logout ends one session of the proof, if it is still there; logging out everywhere
\* reaches other server processes as well, through the version.
Logout(p, everywhere) ==
    /\ Valid(p)
    /\ IF everywhere
       THEN /\ Becomes(p.name, [account[p.name] EXCEPT !.version = @ + 1])
            /\ sessions' = Others(p.name)
       ELSE /\ UNCHANGED account
            /\ \/ \E i \in DOMAIN sessions : sessions[i] = p /\ sessions' = RemoveAt(sessions, i)
               \/ UNCHANGED sessions
    /\ Audit(IF everywhere THEN "logout_all" ELSE "logout", p.name, p.name)
    /\ UNCHANGED <<role, verifying, local, proofs, tried>>

\* Each of them is audited: the bound of the trail stands first to spare TLC the others.
ByProof(p) ==
    /\ entries < MaxTrail
    /\ \/ \E n \in Names : AddBy(p, n)
       \/ \E n \in Names : SetPasswordBy(p, n)
       \/ \E n \in Names, value \in BOOLEAN : SetDisabledBy(p, n, value)
       \/ \E n \in Names : UnlockBy(p, n)
       \/ \E n \in Names, r \in Roles \cup {"admin"}, disabled \in BOOLEAN,
             email \in Addresses \cup {NoOne} : EditUser(p, n, r, disabled, email)
       \/ \E r \in Roles, permissions \in SUBSET Permissions : SaveRole(p, r, permissions)
       \/ \E r \in Roles : DeleteRole(p, r)
       \/ \E everywhere \in BOOLEAN : Logout(p, everywhere)

Next ==
    \/ \E n \in Names : AddLocal(n)
    \/ \E n \in Names : Bootstrap(n)
    \/ \E n \in Names : SetPasswordLocal(n)
    \/ \E n \in Names, value \in BOOLEAN : SetDisabledLocal(n, value)
    \/ \E n \in Names : UnlockLocal(n)
    \/ \E p \in proofs : ByProof(p)
    \/ \E s \in Slots, n \in Names : LoginBegins(s, n)
    \/ \E s \in Slots : LoginRefused(s)
    \/ \E s \in Slots : LoginFails(s)
    \/ \E s \in Slots : LoginSucceeds(s)
    \/ \E n \in Names : LockExpires(n)
    \/ \E i \in DOMAIN sessions : SessionEnds(i)

Spec == Init /\ [][Next]_vars
-----------------------------------------------------------------------------
(* Properties. *)

TypeOK ==
    /\ account \in [Names -> AccountTypes \cup {NoAccount}]
    /\ role \in [Roles -> (SUBSET Permissions) \cup {NoRole}]
    /\ entries \in 0..MaxTrail
    /\ proofs \subseteq [name : Names, version : Nat]
    /\ Range(sessions) \subseteq proofs

\* An account answers at most FailureLimit wrong passwords before it is unlocked, or
\* its lock is over, however many logins are verified at a time.
GuessesAreBounded == \A n \in Names : tried[n] <= FailureLimit

\* The types, unambiguous names, existing roles and the bound on guesses.
AccountsInv == TypeOK /\ KeysAreUnambiguous /\ RolesExist /\ GuessesAreBounded

\* Once there is an enabled administrator there always is one, whoever edits or
\* disables whom (_protect_last_admin_in).
AdminRemains == EnabledAdmins # {} => EnabledAdmins' # {}

\* A proof that a transaction would refuse is never accepted again: an account that
\* is disabled and enabled does not bring its old sessions back.
RevokedStaysRevoked == \A p \in proofs : ~Valid(p) => ~Valid(p)'

Effective(n) == IF n \in Taken /\ ~account[n].disabled THEN PermissionsOf(n) ELSE {}

\* Nobody but an administrator or the local operator gives an account, by whichever
\* operation, more than the permissions they hold; nor do they take one over that has more.
NoEscalation ==
    entries' # entries /\ last'.actor # NoOne /\ ~account[last'.actor].admin =>
        \A n \in Names :
            /\ Effective(n)' \subseteq Effective(n) \cup Effective(last'.actor)
            /\ last'.action = "passwd" /\ last'.name = n /\ n # last'.actor =>
                  PermissionsOf(n) \subseteq Effective(last'.actor)

\* What no step may do to administrators, proofs and permissions.
AccountsSteps == AdminRemains /\ RevokedStaysRevoked /\ NoEscalation
=============================================================================
