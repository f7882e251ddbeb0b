------------------------------ MODULE Schedule ------------------------------
(***************************************************************************)
(* The recurring schedule (scheduling.py): one marked block in the crontab *)
(* of the user, or one named Windows task, managed from the dashboard      *)
(* (dashboard_ops.py) and from the command line, while the user edits the  *)
(* same crontab.                                                           *)
(*                                                                         *)
(* A crontab is the sequence of its lines as text.split("\n") gives them:  *)
(* the last one is Blank if the text ends with a newline, and the empty    *)
(* text is <<Blank>>.  Reading and writing it are two commands with no     *)
(* lock between them.                                                      *)
(***************************************************************************)
EXTENDS Integers, Sequences, FiniteSets, SequencesExt

CONSTANTS
    Pages,      \* requests of the dashboard
    Shells,     \* command lines
    Plans,      \* what is asked for: fixed times, or an interval in hours
    Systems,    \* the systems of the host
    Begin, End, Separator, Blank, Entry,   \* the marked lines, an empty line, a user's line
    None,       \* no task, no text
    MaxOps,     \* bound: installations and removals
    MaxEdits    \* bound: edits of the crontab by its user

\* A line of the block that starts the command: at a minute, every so many hours or in these.
Starts == [minute : 0..59, step : 0..23, hours : SUBSET (0..23)]

ScheduleAssumption ==
    /\ Systems \subseteq {"linux", "windows"} /\ MaxOps \in Nat /\ MaxEdits \in Nat
    /\ \A plan \in Plans : plan.times \subseteq (0..23) \X (0..59) /\ plan.every \in Nat
    /\ Begin \notin {End, Separator, Blank, Entry} /\ End \notin {Separator, Blank, Entry}
    /\ Separator # Blank
    /\ {Begin, End, Separator} \cap Starts = {}

VARIABLES
    system,     \* the system of the host
    tab,        \* the crontab
    task,       \* the Windows task
    op,         \* what each actor does
    queue,      \* dashboard_action: rows not yet in the audit trail
    trail,      \* rows of the audit trail
    ops, edits, \* bounds
    original,   \* history: the crontab before the block, None after an edit of the user
    current     \* history: the plan that was installed last, None after an edit or a removal

jobs == <<queue, trail>>
past == <<ops, edits, original, current>>
vars == <<system, tab, task, op, jobs, past>>

Actors == Pages \cup Shells
Idle == [at |-> "idle"]

Init ==
    /\ system \in Systems
    /\ tab \in {<<Blank>>, <<Entry>>, <<Entry, Blank>>}
    /\ task = None
    /\ op = [a \in Actors |-> Idle]
    /\ queue = {} /\ trail = {}
    /\ ops = 0 /\ edits = 0 /\ original = tab /\ current = None
-----------------------------------------------------------------------------
(* Plans and what they become. *)

\* Slip: any whole number of hours becomes a cron step.
AnyInterval(plan) == plan.every \in 2..24

\* parse_times: twelve times at most, each once.
TimesAllowed(plan) == Cardinality(plan.times) <= 12

\* make_plan
Valid(plan) ==
    IF plan.times # {} THEN plan.every = 0 /\ TimesAllowed(plan)
    ELSE plan.every \in 2..24 /\ (system = "linux" => 24 % plan.every = 0)

\* _cron_lines: times that share a minute share a line.
CronLines(plan) ==
    IF plan.times = {}
    THEN <<[minute |-> 0, step |-> IF plan.every = 24 THEN 0 ELSE plan.every, hours |-> {0}]>>
    ELSE LET lines == {[minute |-> t[2], step |-> 0,
                        hours |-> {u[1] : u \in {u \in plan.times : u[2] = t[2]}}] : t \in plan.times}
         IN  CHOOSE s \in [1..Cardinality(lines) -> lines] :
                 ToSet(s) = lines /\ \A i, j \in DOMAIN s : i < j => s[i].minute < s[j].minute

\* When cron runs a line: "*/n" stands for the hours that n divides.
Runs(line) ==
    {<<h, line.minute>> : h \in IF line.step = 0 THEN line.hours ELSE {h \in 0..23 : h % line.step = 0}}

\* _windows_xml and _windows_args: an interval of a day without a stored password is a
\* daily task that starts when it is created.
WindowsTask(plan, xml) ==
    IF plan.times = {} /\ plan.every = 24 /\ ~xml THEN [times |-> {<<0, 0>>}, every |-> 0]
    ELSE [times |-> plan.times, every |-> plan.every]
-----------------------------------------------------------------------------
(* The text of the crontab. *)

At(text, line) == {i \in DOMAIN text : text[i] = line}

\* The errors of _without_managed_block: one block at most, and it is closed.
WellFormed(text) ==
    \/ At(text, Begin) = {} /\ At(text, End) = {}
    \/ \E b, e \in DOMAIN text : b < e /\ At(text, Begin) = {b} /\ At(text, End) = {e}

HasBlock(text) == At(text, Begin) # {}

Ended(text) == Len(text) > 1 /\ Last(text) = Blank

Text(lines) == IF lines = <<>> THEN <<Blank>> ELSE lines

Block(text) ==
    LET b == CHOOSE i \in At(text, Begin) : TRUE
        e == CHOOSE i \in At(text, End) : TRUE
    IN  [inside |-> SubSeq(text, b + 1, e - 1), before |-> SubSeq(text, 1, b - 1),
         after |-> SubSeq(text, e + 1, Len(text))]

\* Slip: the newline that was added before the block stays.
KeepsNewline(text) ==
    IF HasBlock(text) THEN Text(Block(text).before \o Block(text).after) ELSE text

\* _without_managed_block
Without(text) ==
    IF ~HasBlock(text) THEN text
    ELSE LET block == Block(text)
             rest == Text(block.before \o block.after)
         IN  IF Separator \in ToSet(block.inside) /\ ToSet(block.after) \subseteq {Blank} /\ Ended(rest)
             THEN Front(rest) ELSE rest

\* install, of a crontab that was read
Installed(text, plan) ==
    LET clean == Without(text)
        separate == clean # <<Blank>> /\ ~Ended(clean)
    IN  (IF separate THEN clean ELSE Front(clean))
            \o <<Begin>> \o (IF separate THEN <<Separator>> ELSE <<>>)
            \o CronLines(plan) \o <<End, Blank>>

\* _describe_cron_block and _describe_windows_xml
Described ==
    IF system = "windows" THEN task
    ELSE LET lines == ToSet(Block(tab).inside) \ {Separator}
             steps == {line.step : line \in {line \in lines : line.step # 0}}
         IN  IF steps # {} THEN [times |-> {}, every |-> CHOOSE n \in steps : TRUE]
             ELSE [times |-> UNION {Runs(line) : line \in lines}, every |-> 0]
-----------------------------------------------------------------------------
(* The dashboard and the command line. *)

Row(a, name) == [name |-> name, of |-> op[a].id]

\* Slip: the audit entry follows the change.
ChangesFirst(a) == "ready"

\* A page asks for the audit entry first; a command line has none.
First(a) == IF a \in Pages THEN "requested" ELSE "ready"

\* schedule_install, schedule_remove, and the commands "schedule install" and "schedule remove"
Ask(a, plan, stored) ==
    /\ op[a] = Idle /\ ops < MaxOps
    /\ plan # None => Valid(plan)
    /\ stored => system = "windows" /\ plan # None
    /\ ops' = ops + 1
    /\ op' = [op EXCEPT ![a] = [at |-> First(a), id |-> ops, plan |-> plan, stored |-> stored,
                                read |-> None, changed |-> FALSE]]
    /\ UNCHANGED <<system, tab, task, jobs, edits, original, current>>

\* audit_action queues a row, records it, and takes it from the queue.  The name of the
\* second one says what was done.
AuditName(a) == IF op[a].at = "requested" THEN "requested" ELSE IF op[a].changed THEN "done" ELSE "skipped"

Recorded(a) == IF op[a].at = "requested" THEN "ready" ELSE "told"

\* Everything succeeds, or the row is recorded and stays, or it is not recorded.
Audit(a, recorded, cleared) ==
    /\ a \in Pages /\ op[a].at \in {"requested", "finished"}
    /\ cleared => recorded
    /\ trail' = IF recorded THEN trail \cup {Row(a, AuditName(a))} ELSE trail
    /\ queue' = IF cleared THEN queue ELSE queue \cup {Row(a, AuditName(a))}
    /\ op' = [op EXCEPT ![a] = IF cleared /\ Recorded(a) = "ready" THEN [@ EXCEPT !.at = "ready"] ELSE Idle]
    /\ UNCHANGED <<system, tab, task, past>>

\* retry_audits: the worker thread records a row that was left.
Retry(row, cleared) ==
    /\ row \in queue
    /\ trail' = trail \cup {row}
    /\ queue' = IF cleared THEN queue \ {row} ELSE queue
    /\ UNCHANGED <<system, tab, task, op, past>>

\* _read_crontab; a malformed block ends the operation, and so does a missing one if it is
\* to be removed.
Read(a) ==
    /\ system = "linux" /\ op[a].at = "ready"
    /\ op' = [op EXCEPT ![a] =
                IF op[a].plan = None /\ ~HasBlock(tab)
                THEN IF a \in Pages THEN [@ EXCEPT !.at = "finished"] ELSE Idle
                ELSE IF ~WellFormed(tab) THEN Idle
                ELSE [@ EXCEPT !.at = "read", !.read = tab]]
    /\ UNCHANGED <<system, tab, task, jobs, past>>

After(a) == IF a \in Pages THEN [op[a] EXCEPT !.at = "finished", !.changed = TRUE] ELSE Idle

\* "crontab -" replaces the whole text; it may fail and leave it.
Write(a, ok) ==
    /\ op[a].at = "read"
    /\ IF ok
       THEN /\ tab' = IF op[a].plan = None THEN Without(op[a].read) ELSE Installed(op[a].read, op[a].plan)
            /\ op' = [op EXCEPT ![a] = After(a)]
            /\ current' = op[a].plan
       ELSE /\ op' = [op EXCEPT ![a] = Idle]
            /\ UNCHANGED <<tab, current>>
    /\ UNCHANGED <<system, task, jobs, ops, edits, original>>

\* schtasks and RegisterTask replace the task of that name in one step; /Delete removes it.
Register(a, ok) ==
    /\ system = "windows" /\ op[a].at = "ready"
    /\ LET plan == op[a].plan
       IN  IF ok
           THEN /\ task' = IF plan = None THEN None
                           ELSE WindowsTask(plan, op[a].stored \/ plan.times # {})
                /\ current' = plan
                /\ op' = [op EXCEPT ![a] = IF plan = None /\ task = None /\ a \in Pages
                                           THEN [@ EXCEPT !.at = "finished"] ELSE After(a)]
           ELSE op' = [op EXCEPT ![a] = Idle] /\ UNCHANGED <<task, current>>
    /\ UNCHANGED <<system, tab, jobs, ops, edits, original>>

\* The dashboard dies; its requests end, the queue stays.
Crash ==
    /\ \E a \in Pages : op[a] # Idle
    /\ op' = [a \in Actors |-> IF a \in Pages THEN Idle ELSE op[a]]
    /\ UNCHANGED <<system, tab, task, jobs, past>>

\* The user appends a line, with a newline or without, or removes one, a marker too.
Edit ==
    /\ system = "linux" /\ edits < MaxEdits
    /\ \/ tab' = (IF tab = <<Blank>> \/ Ended(tab) THEN Front(tab) ELSE tab) \o <<Entry>>
       \/ tab' = (IF tab = <<Blank>> \/ Ended(tab) THEN Front(tab) ELSE tab) \o <<Entry, Blank>>
       \/ \E i \in DOMAIN tab : tab' = Text(RemoveAt(tab, i))
    /\ tab' # tab
    /\ edits' = edits + 1 /\ original' = None /\ current' = None
    /\ UNCHANGED <<system, task, op, jobs, ops>>

Next ==
    \/ \E a \in Actors, plan \in Plans \cup {None}, stored \in BOOLEAN : Ask(a, plan, stored)
    \/ \E a \in Pages, recorded, cleared \in BOOLEAN : Audit(a, recorded, cleared)
    \/ \E row \in queue, cleared \in BOOLEAN : Retry(row, cleared)
    \/ \E a \in Actors : Read(a)
    \/ \E a \in Actors, ok \in BOOLEAN : Write(a, ok) \/ Register(a, ok)
    \/ Crash \/ Edit

Spec == Init /\ [][Next]_vars
-----------------------------------------------------------------------------
TypeOK ==
    /\ system \in Systems /\ tab # <<>>
    /\ \A i \in DOMAIN tab : tab[i] \in {Begin, End, Separator, Blank, Entry} \/ tab[i].minute \in 0..59
    /\ ops \in 0..MaxOps /\ edits \in 0..MaxEdits

\* The times at which a plan is to run: the given ones, or every so many hours of the day.
Due(plan) == IF plan.times # {} THEN plan.times ELSE {<<h, 0>> : h \in {h \in 0..23 : h % plan.every = 0}}

\* The block runs the command at the times of the plan and no other, with equal distances
\* over midnight, and the status page shows what was installed.
RunsAsPlanned ==
    current # None /\ system = "linux" =>
        /\ HasBlock(tab) /\ WellFormed(tab)
        /\ UNION {Runs(line) : line \in ToSet(Block(tab).inside) \ {Separator}} = Due(current)
        /\ Described.every \in 1..23 => 24 % Described.every = 0
        /\ Described.every = 0 => Described.times = Due(current)

\* What was registered on Windows is what the status page shows.
ShowsTask == current # None /\ system = "windows" =>
        Described.every = current.every \/ Described.times = {<<0, 0>>}

\* Every change of the dashboard was asked for in the audit trail before it was made, and
\* no row tells of a change or of a removal that was not asked for.
AuditIsTrue ==
    /\ \A a \in Pages : op[a] # Idle /\ op[a].changed => [name |-> "requested", of |-> op[a].id] \in trail
    /\ \A row \in queue \cup trail :
        row.name # "requested" => [name |-> "requested", of |-> row.of] \in trail

\* What holds of blocks, tasks and the audit trail.
ScheduleInv == TypeOK /\ RunsAsPlanned /\ ShowsTask /\ AuditIsTrue

\* As long as the user does not edit the crontab, no installation or removal, in whatever
\* order they read and write, changes anything but the block: without it the text is the
\* original one, up to its last newline.
OriginalIsRestored == original' # None /\ original # None => Without(tab') = original
=============================================================================
