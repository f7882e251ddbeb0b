----------------------------- MODULE ConfigSave -----------------------------
(***************************************************************************)
(* The configuration editor of the dashboard (dashboard_config.py): a      *)
(* preview is confirmed later, and saved in steps that touch the account   *)
(* database, secret files, backups, the configuration file, the job        *)
(* manager and the running application.                                    *)
(*                                                                         *)
(* A document is what the checks tell apart: a plain section, what         *)
(* credentials it names, and its paths and dashboard settings.  The        *)
(* process lock of the editor admits one configuration request at a time;  *)
(* accounts change, jobs start and files are edited meanwhile.             *)
(***************************************************************************)
EXTENDS Integers, Sequences, FiniteSets, SequencesExt

CONSTANTS
    People,        \* sessions that edit
    Nothing,       \* no preview, no document
    Broken,        \* a file that cannot be decoded
    Missing,       \* no file
    KeepBackups,   \* KEEP_BACKUPS
    MaxVersion,    \* bound: times the file is written
    MaxBackups     \* bound: backups that lie there, before old ones are removed

Docs == [plain : 0..1, cred : 0..1, path : 0..1]

ConfigSaveAssumption ==
    /\ KeepBackups \in Nat \ {0} /\ MaxVersion \in Nat /\ MaxBackups > KeepBackups
    /\ Nothing \notin People \cup Docs

VARIABLES
    file,      \* the configuration file: its document and version
    secret,    \* the content of a secret file that documents refer to
    backups,   \* documents in the backup directory, oldest first
    running,   \* Editor.config
    may,       \* the permissions of every account
    accounts,  \* who holds the write lock of the account database
    pending,   \* Editor.pending, by session
    save,      \* the save that runs
    job,       \* a job is queued or runs
    reserved,  \* DashboardJobs._reserved
    replaced   \* history: the document that the last save replaced

disk == <<file, secret, backups>>
vars == <<disk, running, may, accounts, pending, save, job, reserved, replaced>>

Rights == {{}, {"edit"}, {"edit", "secrets"}, {"edit", "secrets", "admin"}}
Idle == [phase |-> "idle"]

Init ==
    /\ running = [plain |-> 0, cred |-> 0, path |-> 0] /\ file = [doc |-> running, ver |-> 0]
    /\ secret = 0 /\ backups = <<>>
    /\ may \in [People -> Rights]
    /\ accounts = Nothing /\ pending = [p \in People |-> Nothing] /\ save = Idle
    /\ job = FALSE /\ reserved = FALSE
    /\ replaced = Nothing
-----------------------------------------------------------------------------
(* What a save needs. *)

\* checks_config: the current file, or what runs if the file is not valid.
Base(current) == IF current \in Docs THEN current ELSE running

\* path_authority_changed, dashboard_authority_changed
PathChanged(doc, current) == doc.path # Base(current).path \/ doc.path # running.path

\* credential_authority_changed, raw_reference_changes
CredentialChanged(doc, current) ==
    doc.cred # Base(current).cred \/ doc.cred # running.cred

\* The checks that preview, and both stages of the save, make of the account.
Authorised(doc, current, rights, rotates, rollback) ==
    /\ "edit" \in rights
    /\ PathChanged(doc, current) => "admin" \in rights
    /\ CredentialChanged(doc, current) \/ rotates => "secrets" \in rights
    /\ rollback /\ current \notin Docs => "secrets" \in rights

Lockout(doc, current) == current \notin Docs \/ PathChanged(doc, current)

\* Slip: the latest backups go.
KeepsOldest(s) == IF Len(s) <= KeepBackups THEN s ELSE SubSeq(s, 1, KeepBackups)

\* The latest backups: those that are listed, and those that the end of a save leaves.
Retained(s) == IF Len(s) <= KeepBackups THEN s ELSE SubSeq(s, Len(s) - KeepBackups + 1, Len(s))

\* parse_form: a form changes a valid file; new content is staged for a secret file whose
\* reference stays.
Form(doc, rotates) == file.doc \in Docs /\ (rotates => doc.cred = file.doc.cred)

\* The page of backups: the file may be missing or broken.
Rollback(doc, rotates) == doc \in ToSet(Retained(backups)) /\ ~rotates

\* The version is the one that the form was made from.
Preview(p, doc, rollback, rotates) ==
    /\ save = Idle /\ running \in Docs /\ pending[p] = Nothing
    /\ IF rollback THEN Rollback(doc, rotates) ELSE Form(doc, rotates)
    /\ Authorised(doc, file.doc, may[p], rotates, rollback)
    /\ pending' = [pending EXCEPT ![p] =
                     [doc |-> doc, ver |-> file.ver, rollback |-> rollback, rotates |-> rotates,
                      lockout |-> Lockout(doc, file.doc)]]
    /\ UNCHANGED <<disk, running, may, accounts, save, job, reserved, replaced>>

\* cleanup and discard: a preview expires and its staged secret is removed.
Expire(p) ==
    /\ save = Idle /\ pending[p] # Nothing
    /\ pending' = [pending EXCEPT ![p] = Nothing]
    /\ UNCHANGED <<disk, running, may, accounts, save, job, reserved, replaced>>
-----------------------------------------------------------------------------
(* The save. *)

\* Moving the state database moves the storage of jobs (reserve_reconfigure).
Moves(doc) == doc.path # running.path

\* _commit_locked until the application is prepared: the version is the previewed one, the
\* account may still do it, and the job manager is reserved.
Begin(p, confirmed) ==
    /\ save = Idle /\ pending[p] # Nothing /\ running \in Docs
    /\ LET new == pending[p]
       IN  /\ file.ver = new.ver
           /\ file.doc \in Docs \/ new.rollback
           /\ accounts = Nothing
           /\ Authorised(new.doc, file.doc, may[p], new.rotates, new.rollback)
           /\ new.lockout => confirmed
           /\ ~(Moves(new.doc) /\ job)
           /\ save' = [phase |-> "prepared", who |-> p, new |-> new, old |-> file,
                       confirmed |-> confirmed, secret |-> secret, backups |-> backups,
                       applied |-> FALSE, published |-> FALSE]
    /\ reserved' = TRUE
    /\ UNCHANGED <<disk, running, may, accounts, pending, job, replaced>>

Phase(name) == save' = [save EXCEPT !.phase = name]

\* Slip: what was checked before the application was prepared still holds.
AlwaysAllowed == TRUE

\* The second check, within the transaction of the account database.
StillAllowed ==
    /\ Authorised(save.new.doc, save.old.doc, may[save.who], save.new.rotates, save.new.rollback)
    /\ save.new.lockout \/ Lockout(save.new.doc, save.old.doc) => save.confirmed

\* The account database is locked; what was checked is checked again.
Lock ==
    /\ save.phase = "prepared" /\ accounts = Nothing
    /\ accounts' = save.who
    /\ IF file.ver = save.old.ver /\ StillAllowed THEN Phase("locked") ELSE Phase("refused")
    /\ UNCHANGED <<disk, running, may, pending, job, reserved, replaced>>

\* The secret file is replaced while it is in use.
Rotate ==
    /\ save.phase = "locked" /\ save.new.rotates
    /\ secret' = 1 - secret
    /\ save' = [save EXCEPT !.phase = "rotated", !.applied = TRUE]
    /\ UNCHANGED <<file, backups, running, may, accounts, pending, job, reserved, replaced>>

\* The original is kept.  There is none if the file is missing.
Backup ==
    /\ save.phase \in {"locked", "rotated"}
    /\ save.new.rotates => save.phase = "rotated"
    /\ Len(backups) < MaxBackups
    /\ backups' = IF save.old.doc = Missing THEN backups ELSE Append(backups, save.old.doc)
    /\ Phase("kept")
    /\ UNCHANGED <<file, secret, running, may, accounts, pending, job, reserved, replaced>>

\* Slip: the version is not compared again.
AnyVersion == TRUE

SameVersion == file.ver = save.old.ver

\* The last comparison of the version, and os.replace.
Publish ==
    /\ save.phase = "kept" /\ file.ver < MaxVersion
    /\ IF SameVersion
       THEN /\ file' = [doc |-> save.new.doc, ver |-> file.ver + 1]
            /\ save' = [save EXCEPT !.phase = "published", !.published = TRUE]
            /\ replaced' = IF file.doc = Missing THEN Nothing ELSE file.doc
       ELSE Phase("refused") /\ UNCHANGED <<file, replaced>>
    /\ UNCHANGED <<secret, backups, running, may, accounts, pending, job, reserved>>

\* A write fails, or a check does; the transaction of the account database is rolled back.
Fail ==
    /\ save.phase \in {"prepared", "locked", "rotated", "kept", "published", "refused"}
    /\ Phase("failing")
    /\ accounts' = IF accounts = save.who THEN Nothing ELSE accounts
    /\ UNCHANGED <<disk, running, may, pending, job, reserved, replaced>>

\* The transaction ends, which also writes the row config_save of the audit trail.
EndTransaction ==
    /\ save.phase = "published"
    /\ accounts' = Nothing
    /\ Phase("committed")
    /\ UNCHANGED <<disk, running, may, pending, job, reserved, replaced>>

\* The job manager and the application are replaced, and only the latest backups are kept.
\* The new application knows no session of the old one, so no preview can be confirmed.
Swap ==
    /\ save.phase = "committed"
    /\ running' = save.new.doc /\ reserved' = FALSE
    /\ pending' = [p \in People |-> Nothing]
    /\ backups' = Retained(backups)
    /\ save' = Idle
    /\ UNCHANGED <<file, secret, may, accounts, job, replaced>>

\* What was replaced is restored; restoring the secret or the file may fail.
Compensate(restored, recovered) ==
    /\ save.phase = "failing"
    /\ (save.applied \/ restored) /\ (save.published \/ recovered)
    /\ secret' = IF save.applied /\ restored THEN save.secret ELSE secret
    /\ file' = IF save.published /\ recovered THEN [save.old EXCEPT !.ver = file.ver + 1] ELSE file
    /\ backups' = IF recovered THEN save.backups ELSE backups
    /\ replaced' = IF save.published /\ recovered THEN Nothing ELSE replaced
    /\ reserved' = FALSE /\ save' = Idle
    /\ UNCHANGED <<running, may, accounts, pending, job>>
-----------------------------------------------------------------------------
(* What happens meanwhile. *)

\* The dashboard dies: transactions are rolled back, previews and jobs are lost.
Crash ==
    /\ running \in Docs
    /\ running' = Nothing /\ pending' = [p \in People |-> Nothing] /\ save' = Idle
    /\ accounts' = Nothing /\ reserved' = FALSE /\ job' = FALSE
    /\ UNCHANGED <<disk, may, replaced>>

\* serve starts with a valid file only.
Restart ==
    /\ running = Nothing /\ file.doc \in Docs
    /\ running' = file.doc
    /\ UNCHANGED <<disk, may, accounts, pending, save, job, reserved, replaced>>

\* Somebody edits, breaks or removes the file.  This is left out from the moment a save has
\* published until it is settled: external editors take no part in the lock.
Edit ==
    /\ save.phase \notin {"published", "failing", "committed"} /\ file.ver < MaxVersion
    /\ \E d \in {d \in Docs : d.plain = 0} \cup {Broken, Missing} :
        d # file.doc /\ file' = [doc |-> d, ver |-> file.ver + 1]
    /\ replaced' = Nothing
    /\ UNCHANGED <<secret, backups, running, may, accounts, pending, save, job, reserved>>

\* The permissions of an account change.
ChangeAccount(p) ==
    /\ accounts = Nothing
    /\ \E r \in Rights : r # may[p] /\ may' = [may EXCEPT ![p] = r]
    /\ UNCHANGED <<disk, running, accounts, pending, save, job, reserved, replaced>>

\* A job is submitted, not while the manager is reserved; it ends.
Job ==
    /\ running \in Docs /\ (reserved => job)
    /\ job' = ~job
    /\ UNCHANGED <<disk, running, may, accounts, pending, save, reserved, replaced>>

Next ==
    \/ \E p \in People, d \in Docs, rollback, rotates \in BOOLEAN : Preview(p, d, rollback, rotates)
    \/ \E p \in People : Expire(p)
    \/ \E p \in People, confirmed \in BOOLEAN : Begin(p, confirmed)
    \/ Lock \/ Rotate \/ Backup \/ Publish \/ Fail \/ EndTransaction \/ Swap
    \/ \E restored, recovered \in BOOLEAN : Compensate(restored, recovered)
    \/ Crash \/ Restart \/ Edit
    \/ \E p \in People : ChangeAccount(p)
    \/ Job

Spec == Init /\ [][Next]_vars
-----------------------------------------------------------------------------
TypeOK ==
    /\ file.doc \in Docs \cup {Broken, Missing} /\ file.ver \in 0..(MaxVersion + 1)
    /\ ToSet(backups) \subseteq Docs \cup {Broken} /\ secret \in 0..1
    /\ running \in Docs \cup {Nothing} /\ may \in [People -> Rights]
    /\ accounts \in People \cup {Nothing}

\* What a save replaced is kept, whatever fails, wherever the dashboard dies, and however
\* many backups are removed later.
OriginalIsKept == replaced # Nothing => replaced \in ToSet(backups)

\* The job manager is given free when the save ends, and no job runs while its storage moves.
JobsStay ==
    /\ reserved => save # Idle
    /\ save.phase # "idle" /\ Moves(save.new.doc) => ~job

\* The types, and what holds of files and jobs.
ConfigInv == TypeOK /\ OriginalIsKept /\ JobsStay

\* The file is only replaced by a save that its author may make at that moment, whatever
\* the file is now and whatever the running configuration is.
SaveIsAuthorised ==
    save.phase = "kept" /\ file' # file /\ save' # save =>
        /\ "edit" \in may[save.who]
        /\ \A d \in {file.doc, running} \cap Docs :
            /\ save.new.doc.path # d.path => "admin" \in may[save.who] /\ save.confirmed
            /\ save.new.doc.cred # d.cred => "secrets" \in may[save.who]

\* A save never replaces a file that its author has not seen.
NoLostEdit ==
    save.phase = "kept" /\ file' # file /\ save' # save => file.ver = save.new.ver

\* A secret is only replaced, and put back, by a save of somebody who may manage secrets.
SecretIsAuthorised ==
    secret' # secret => save.applied \/ "secrets" \in may[save.who]

\* What no step may do: a save is authorised in what it writes, and overwrites no edit.
SaveIsSafe == SaveIsAuthorised /\ SecretIsAuthorised /\ NoLostEdit
=============================================================================
