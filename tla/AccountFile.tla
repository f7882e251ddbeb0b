---------------------------- MODULE AccountFile ----------------------------
(***************************************************************************)
(* The file behind UserStore (watch/users.py): first creation under the    *)
(* creation lock, schema and migrations, the identifier of the store, and  *)
(* the check of every connection that the file is still the same store.    *)
(*                                                                         *)
(* Several processes open the store at once, any of them may die, and an   *)
(* operator may put a backup in place or take the file away.  A connection *)
(* keeps the file it opened; the check of its content comes later.         *)
(***************************************************************************)
EXTENDS Integers, Sequences

CONSTANTS
    Handles,      \* UserStore objects, each in a process of its own
    DefaultRoles, \* DEFAULT_ROLES
    NoHandle,
    MaxInodes     \* bound: files that ever existed at the path

AccountFileAssumption == NoHandle \notin Handles /\ MaxInodes \in Nat \ {0}

VARIABLES
    path,    \* the file at the path, 0 when there is none
    files,   \* what is in every file there ever was, a sequence by inode
    lock,    \* who holds the creation lock
    pc,      \* where a handle is in initialize() or in a transaction
    opened,  \* the file its connection is on
    seen,    \* whether its migration found the roles initialized
    id,      \* UserStore._store_id, 0 before one was read
    next,    \* fresh identifiers (secrets.token_hex)
    deleted  \* history: the roles an administrator deleted, by file

vars == <<path, files, lock, pc, opened, seen, id, next, deleted>>
handle == <<pc, opened, seen, id>>

\* What a file holds: its tables, cb_user_meta's store_id and roles_initialized, cb_role.
Empty == [tables |-> {}, id |-> 0, seeded |-> FALSE, roles |-> {}]

\* A first start, an account file of a version before identifiers, of one before roles,
\* or a current one.
Earlier == [Empty EXCEPT !.tables = {"user"}]
Unseeded == [tables |-> {"user", "meta"}, id |-> 1, seeded |-> FALSE, roles |-> {}]
Current == [tables |-> {"user", "meta"}, id |-> 1, seeded |-> TRUE, roles |-> DefaultRoles]

Init ==
    /\ files \in {<<>>, <<Empty>>, <<Earlier>>, <<Unseeded>>, <<Current>>}
    /\ path = IF files = <<>> THEN 0 ELSE 1
    /\ lock = NoHandle
    /\ pc = [h \in Handles |-> "idle"]
    /\ opened = [h \in Handles |-> 0] /\ id = [h \in Handles |-> 0]
    /\ seen = [h \in Handles |-> FALSE]
    /\ next = 2
    /\ deleted = [i \in 1..MaxInodes |-> {}]

Goes(h, place) == pc' = [pc EXCEPT ![h] = place]
Write(h, content) == files' = [files EXCEPT ![opened[h]] = content]
Opened(h) == files[opened[h]]

NewFile(content) ==
    /\ Len(files) < MaxInodes
    /\ files' = Append(files, content)
    /\ path' = Len(files) + 1

\* _path_state: absent, or an empty file.
Fresh == path = 0 \/ files[path] = Empty
-----------------------------------------------------------------------------
\* initialize: the creation lock is taken unless the store is there and known.
Initialize(h) ==
    /\ pc[h] = "idle"
    /\ Goes(h, IF Fresh \/ id[h] = 0 THEN "lock" ELSE "open")
    /\ UNCHANGED <<path, files, lock, opened, seen, id, next, deleted>>

TakeLock(h) ==
    /\ pc[h] = "lock" /\ lock = NoHandle
    /\ lock' = h
    /\ Goes(h, "open")
    /\ UNCHANGED <<path, files, opened, seen, id, next, deleted>>

\* _pin_database, which creates the file if it is not there.  A handle whose file
\* went away since it decided waits for the lock after all.
Open(h) ==
    /\ pc[h] = "open"
    /\ IF Fresh /\ lock # h THEN Goes(h, "lock") /\ UNCHANGED <<path, files, opened>>
       ELSE /\ Goes(h, "connect")
            /\ IF path = 0 THEN NewFile(Empty) ELSE UNCHANGED <<path, files>>
            /\ opened' = [opened EXCEPT ![h] = path']
    /\ UNCHANGED <<lock, seen, id, next, deleted>>

\* initialize ends, or a check refuses; the lock is given back.
Ends(h) ==
    /\ Goes(h, "idle")
    /\ lock' = IF lock = h THEN NoHandle ELSE lock

\* Slip: any store is accepted.
AcceptsAnything(h, content, allowEmpty) == TRUE

\* _verify_store_content: the file SQLite opened is the store of this handle.
Accepts(h, content, allowEmpty) ==
    IF id[h] # 0 THEN {"user", "meta"} \subseteq content.tables /\ content.id = id[h]
    ELSE "user" \in content.tables \/ (allowEmpty /\ content.tables = {})

\* An identifier that is there is kept from then on.
Reads(h, content) == id' = [id EXCEPT ![h] = IF content.id # 0 THEN content.id ELSE @]

\* The path must still be the file that was pinned, and its content the store.
Connect(h) ==
    /\ pc[h] = "connect"
    /\ IF path = opened[h] /\ Accepts(h, Opened(h), TRUE)
       THEN Goes(h, "schema") /\ Reads(h, Opened(h)) /\ UNCHANGED lock
       ELSE Ends(h) /\ UNCHANGED id
    /\ UNCHANGED <<path, files, opened, seen, next, deleted>>

\* _SCHEMA: every CREATE TABLE commits by itself.
Schema(h) ==
    /\ pc[h] = "schema"
    /\ IF "user" \notin Opened(h).tables
       THEN Write(h, [Opened(h) EXCEPT !.tables = @ \cup {"user"}]) /\ UNCHANGED pc
       ELSE /\ Write(h, [Opened(h) EXCEPT !.tables = {"user", "meta"}])
            /\ Goes(h, "migrate")
    /\ UNCHANGED <<path, lock, opened, seen, id, next, deleted>>

\* _migrate_roles looks for its mark before its first INSERT opens a transaction.
MigrateChecks(h) ==
    /\ pc[h] = "migrate"
    /\ seen' = [seen EXCEPT ![h] = Opened(h).seeded]
    /\ Goes(h, "commit")
    /\ UNCHANGED <<path, files, lock, opened, id, next, deleted>>

\* Slip: a mark that was set meanwhile is no conflict.
ConflictsNever(h) == FALSE

\* The mark is a primary key: its second INSERT fails, and the transaction with it.
Conflicts(h) == ~seen[h] /\ Opened(h).seeded

\* Slip: every initialization gives the store a new identifier.
StoreIdAnew(content) == next

\* _ensure_store_id: INSERT OR IGNORE, and what is there is read back.
StoreId(content) == IF content.id # 0 THEN content.id ELSE next

Commit(h) ==
    /\ pc[h] = "commit"
    /\ IF Conflicts(h) THEN UNCHANGED <<files, id, next>>
       ELSE /\ Write(h, [Opened(h) EXCEPT !.seeded = TRUE, !.id = StoreId(Opened(h)),
                             !.roles = IF seen[h] THEN @ ELSE @ \cup DefaultRoles])
            /\ id' = [id EXCEPT ![h] = StoreId(Opened(h))]
            /\ next' = IF StoreId(Opened(h)) = next THEN next + 1 ELSE next
    /\ Ends(h)
    /\ UNCHANGED <<path, opened, seen, deleted>>
-----------------------------------------------------------------------------
\* A connection that does not create: logins, sessions, records of finished jobs.
Read(h) ==
    /\ pc[h] = "idle" /\ path # 0
    /\ Accepts(h, files[path], FALSE)
    /\ Reads(h, files[path])
    /\ UNCHANGED <<path, files, lock, pc, opened, seen, next, deleted>>

\* A transaction of a handle that knows the store; of all of them the one that matters here.
DeleteRole(h, r) ==
    /\ pc[h] = "idle" /\ path # 0
    /\ id[h] # 0 /\ Accepts(h, files[path], TRUE)
    /\ r \in files[path].roles
    /\ files' = [files EXCEPT ![path].roles = @ \ {r}]
    /\ deleted' = [deleted EXCEPT ![path] = @ \cup {r}]
    /\ UNCHANGED <<path, lock, pc, opened, seen, id, next>>

\* The process dies: locks are released and open transactions rolled back.
Crash(h) ==
    /\ pc' = [pc EXCEPT ![h] = "idle"]
    /\ lock' = IF lock = h THEN NoHandle ELSE lock
    /\ id' = [id EXCEPT ![h] = 0]
    /\ UNCHANGED <<path, files, opened, seen, next, deleted>>

\* The operator puts another store in place, or takes the file away.
Replace ==
    /\ NewFile([Current EXCEPT !.id = next])
    /\ next' = next + 1
    /\ UNCHANGED <<lock, handle, deleted>>

TakeAway ==
    /\ path # 0 /\ path' = 0
    /\ UNCHANGED <<files, lock, handle, next, deleted>>

Next ==
    \/ \E h \in Handles : Initialize(h)
    \/ \E h \in Handles : TakeLock(h)
    \/ \E h \in Handles : Open(h)
    \/ \E h \in Handles : Connect(h)
    \/ \E h \in Handles : Schema(h)
    \/ \E h \in Handles : MigrateChecks(h)
    \/ \E h \in Handles : Commit(h)
    \/ \E h \in Handles : Read(h)
    \/ \E h \in Handles, r \in DefaultRoles : DeleteRole(h, r)
    \/ \E h \in Handles : Crash(h)
    \/ Replace
    \/ TakeAway

Spec == Init /\ [][Next]_vars
-----------------------------------------------------------------------------
TypeOK ==
    /\ Len(files) <= MaxInodes /\ path \in 0..Len(files)
    /\ lock \in Handles \cup {NoHandle}
    /\ \A h \in Handles : opened[h] \in 0..Len(files) /\ id[h] < next

\* A default role an administrator deleted does not come back with a later start or
\* migration ("Seed once, so deleting an editable default does not resurrect it").
NoResurrection == \A i \in DOMAIN files : files[i].roles \cap deleted[i] = {}

\* Nobody initializes, migrates or writes a file that is not the store they know.
SameStore ==
    \A h \in Handles :
        pc[h] \in {"schema", "migrate", "commit"} /\ id[h] # 0 => Opened(h).id = id[h]

\* However many first openers there are and wherever they die, no step gives a file that
\* has an identifier another one.
IdentityIsFinal ==
    \A i \in DOMAIN files : files[i].id # 0 => files'[i].id = files[i].id

\* Types, deleted roles, and files that are taken for another.
FileInv == TypeOK /\ NoResurrection /\ SameStore
=============================================================================
