------------------------------ MODULE EuvdScan -------------------------------
(***************************************************************************)
(* The resumable EUVD scan of a watch sync (sync_watch, the block "euvd"). *)
(* The source is read by date window and page while it changes; it offers  *)
(* no snapshot.  Each page is committed with a page cursor and a ledger of *)
(* the identifiers accepted, so that a run that is throttled or dies loses *)
(* nothing; pages of earlier runs are read again before a window counts.   *)
(*                                                                         *)
(* Granularity: one action per page, fetched and committed: a run that     *)
(* ends between the two leaves what one that did not fetch leaves.         *)
(***************************************************************************)
EXTENDS Integers, Sequences, FiniteSets

CONSTANTS
    Ids,         \* EUVD items
    PageSize,    \* EUVD_PAGE_SIZE
    SplitTotal,  \* EUVD_SPLIT_TOTAL
    ChunkDays,   \* EUVD_CHUNK_DAYS
    Attempts,    \* EUVD_ATTEMPTS
    MaxDay,      \* bound: days
    MaxUpdates   \* bound: items published or updated

ASSUME ScanAssumption ==
    /\ PageSize \in Nat \ {0}
    /\ SplitTotal \in Nat
    /\ ChunkDays \in Nat \ {0}
    /\ Attempts \in Nat \ {0}
    /\ MaxDay \in Nat \ {0, 1}
    /\ MaxUpdates \in Nat

VARIABLES
    \* the source
    today,       \* its date
    listing,     \* its items, the days of their last updates and how these follow each other
    newestFirst, \* how it orders a listing
    updates,     \* how often items were published or updated
    \* watch_meta, watch_euvd_scan and watch_euvd_item
    cursor,      \* euvd_cursor: the last complete day
    resume,      \* euvd_page_cursor
    next,        \* euvd_next_window
    ledger,      \* accepted identifiers of the active scan with their page
    fresh,       \* items stored as they are in the source
    \* the run
    run,
    \* history: no action reads them
    late,        \* the active window changed behind a page read for the last time
    unseen       \* a window was completed after such a change

source == <<today, listing, newestFirst, updates>>
meta == <<cursor, resume, next>>
history == <<late, unseen>>
vars == <<source, meta, ledger, fresh, run, history>>

Days == 1..MaxDay
NoWindow == <<>>
Windows == {w \in Days \X Days : w[1] <= w[2]}

Position(w, page, total, phase, verify) ==
    [window |-> w, page |-> page, total |-> total, phase |-> phase, verify |-> verify]

NoPosition == Position(NoWindow, 0, 0, "scan", 0)

\* A page cursor of an earlier version, without page size and phase.
OldPosition == Position(<<1, 1>>, 0, 0, "old", 0)

\* The first window is still to be opened after "start"; a window that is open
\* is scanned or verified.
Idle == [mode |-> "off", windows |-> <<>>, page |-> 0, total |-> 0,
         verify |-> 0, restarts |-> 0, saved |-> NoPosition]

Init ==
    /\ today \in {1, 2} /\ listing = {} /\ newestFirst \in BOOLEAN /\ updates = 0
    /\ cursor = today /\ resume \in {NoPosition, OldPosition} /\ next = NoWindow
    /\ ledger = {} /\ fresh = {}
    /\ run = Idle
    /\ late = FALSE /\ unseen = FALSE
-----------------------------------------------------------------------------
(* The source. *)

\* The answer to a request for a window: its end is widened by one day.
Found(w) == {x \in listing : x.day \in w[1]..(w[2] + 1)}

Before(x, y) == IF newestFirst THEN x.at > y.at ELSE x.at < y.at

\* The place of an item in the answer, from 0.
Rank(w, x) == Cardinality({y \in Found(w) : Before(y, x)})

PageIds(w, page) ==
    {x.id : x \in {y \in Found(w) :
        Rank(w, y) >= page * PageSize /\ Rank(w, y) < (page + 1) * PageSize}}

\* A page of the active window was read for the last time: pages of earlier runs
\* are, when they are verified; those of this run, when they are scanned.
Window == Head(run.windows)

ReadForGood ==
    \/ run.mode = "scan" /\ run.page > run.verify
    \/ run.mode = "verify"
    \/ run.mode \in {"off", "open"} /\ resume.phase = "verify"

Active == IF run.mode \in {"scan", "verify"} THEN Window ELSE resume.window

\* The update of an item concerns a window that had or will have it.
Concerns(i, w) ==
    \/ today \in w[1]..(w[2] + 1)
    \/ \E x \in Found(w) : x.id = i

\* An item is published or updated: it is now the last one.
Update(i) ==
    /\ updates < MaxUpdates
    /\ updates' = updates + 1
    /\ listing' = {x \in listing : x.id # i} \cup {[id |-> i, day |-> today, at |-> updates + 1]}
    /\ fresh' = fresh \ {i}
    /\ late' = (late \/ (ReadForGood /\ Concerns(i, Active)))
    /\ UNCHANGED <<today, newestFirst, meta, ledger, run, unseen>>

Midnight ==
    /\ today < MaxDay
    /\ today' = today + 1
    /\ UNCHANGED <<listing, newestFirst, updates, meta, ledger, fresh, run, history>>

-----------------------------------------------------------------------------
(* The run. *)

Lower(a, b) == IF a < b THEN a ELSE b

\* euvd_chunks: an inclusive range of days in windows of at most ChunkDays.
Chunks(first, last) ==
    IF last < first THEN <<>>
    ELSE [k \in 1..((last - first) \div ChunkDays + 1) |->
             <<first + (k - 1) * ChunkDays, Lower(first + k * ChunkDays - 1, last)>>]

\* What a run finds: a position or a successor behind the cursor is dropped, and
\* so is the successor of a window that is unfinished.
Kept ==
    IF resume # NoPosition /\ resume.window[2] < cursor THEN NoPosition ELSE resume

KeptNext ==
    IF resume # NoPosition \/ (next # NoWindow /\ next[2] < cursor) THEN NoWindow ELSE next

\* The unfinished window comes first, then the saved successor, then the cursor's
\* own day again.
Catchup(day) ==
    IF Kept # NoPosition
    THEN <<Kept.window>> \o Chunks(Kept.window[2] + 1, day)
    ELSE IF KeptNext # NoWindow
    THEN <<KeptNext>> \o Chunks(KeptNext[2] + 1, day)
    ELSE Chunks(cursor, day)

Begin ==
    /\ run.mode = "off"
    /\ run' = [Idle EXCEPT !.mode = "open", !.windows = Catchup(today),
                           !.saved = Kept]
    /\ resume' = Kept
    /\ ledger' = IF Kept = NoPosition THEN {} ELSE ledger
    /\ late' = (late /\ Kept.phase = "verify")
    /\ UNCHANGED <<source, cursor, fresh, unseen>>

\* Slip: the saved successor is dropped when a run begins with it.
StartForgetting == Begin /\ next' = NoWindow

Start == Begin /\ next' = KeptNext

End ==
    /\ run.mode = "open"
    /\ run.windows = <<>>
    /\ run' = Idle
    /\ UNCHANGED <<source, meta, ledger, fresh, history>>

\* Slip: the ledger of the scan that is given up stays.
ScanAgainInLedger(w) ==
    /\ resume' = Position(w, 0, 0, "scan", 0)
    /\ next' = NoWindow
    /\ UNCHANGED <<cursor, ledger, fresh>>

\* A new scan of the window: page cursor and ledger begin again.
ScanAgain(w) ==
    /\ resume' = Position(w, 0, 0, "scan", 0)
    /\ next' = NoWindow
    /\ ledger' = {}
    /\ UNCHANGED <<cursor, fresh>>

Open(mode, page, total, verify) ==
    run' = [run EXCEPT !.mode = mode, !.page = page, !.total = total, !.verify = verify,
                       !.restarts = 0, !.saved = NoPosition]

\* The saved position is only used with the ledger that belongs to it.
Usable(position) ==
    \/ position.phase = "verify" /\ Cardinality(ledger) = position.total
    \/ position.phase = "scan" /\ Cardinality(ledger) = position.page * PageSize

\* Slip: what earlier runs read is taken for granted.
ToVerifyLater(position) == IF position.phase = "verify" THEN position.verify ELSE 0

\* The pages of earlier runs are to be read once more.
ToVerify(position) == IF position.phase = "verify" THEN position.verify ELSE position.page

OpenWindow ==
    /\ run.mode = "open"
    /\ run.windows # <<>>
    /\ UNCHANGED <<source, history>>
    /\ \/ /\ run.saved = NoPosition
          /\ Open("scan", 0, 0, 0)
          /\ UNCHANGED <<meta, ledger, fresh>>
       \/ /\ run.saved # NoPosition
          /\ Usable(run.saved)
          /\ Open(run.saved.phase, run.saved.page, run.saved.total, ToVerify(run.saved))
          /\ UNCHANGED <<meta, ledger, fresh>>
       \/ /\ run.saved # NoPosition
          /\ ~Usable(run.saved)
          /\ Open("scan", 0, 0, 0)
          /\ ScanAgain(Window)

\* restart_scan: from page 0 again, or give the window up for this run.
Restart ==
    IF run.restarts + 1 < Attempts
    THEN /\ ScanAgain(Window)
         /\ run' = [run EXCEPT !.mode = "scan", !.page = 0, !.total = 0, !.verify = 0,
                               !.restarts = @ + 1]
         /\ late' = FALSE
         /\ UNCHANGED unseen
    ELSE /\ run' = Idle
         /\ UNCHANGED <<meta, ledger, fresh, history>>

\* The window is complete: the cursor, the successor and the ledger in one
\* transaction with the items of the last page.
Complete(ids) ==
    /\ cursor' = IF cursor < Window[2] THEN Window[2] ELSE cursor
    /\ resume' = NoPosition
    /\ next' = IF Len(run.windows) > 1 THEN run.windows[2] ELSE NoWindow
    /\ ledger' = {}
    /\ fresh' = fresh \cup ids
    /\ run' = [run EXCEPT !.mode = "open", !.windows = Tail(@), !.page = 0, !.total = 0,
                          !.verify = 0, !.restarts = 0]
    /\ late' = FALSE
    /\ unseen' = (unseen \/ late)

Accept(ids, page, position) ==
    /\ resume' = position
    /\ next' = NoWindow
    /\ ledger' = ledger \cup (ids \X {page})
    /\ fresh' = fresh \cup ids
    /\ UNCHANGED <<cursor, history>>

Verified(ids, position) ==
    /\ resume' = position
    /\ next' = NoWindow
    /\ fresh' = fresh \cup ids
    /\ UNCHANGED <<cursor, ledger, history>>

TooLarge(total) == run.page = 0 /\ total > SplitTotal /\ Window[1] < Window[2]

\* Slip: only the run knows of the split.
SplitUnsaved ==
    LET middle == Window[1] + (Window[2] - Window[1]) \div 2
    IN  /\ run.mode = "scan"
        /\ TooLarge(Cardinality(Found(Window)))
        /\ run' = [run EXCEPT !.mode = "open", !.restarts = 0,
                     !.windows = <<<<Window[1], middle>>, <<middle + 1, Window[2]>>>> \o Tail(@)]
        /\ UNCHANGED <<source, meta, ledger, fresh, history>>

\* The first page announces too many items: two halves, the first one saved.
Split ==
    LET middle == Window[1] + (Window[2] - Window[1]) \div 2
        first == <<Window[1], middle>>
        second == <<middle + 1, Window[2]>>
    IN  /\ run.mode = "scan"
        /\ TooLarge(Cardinality(Found(Window)))
        /\ next' = first
        /\ resume' = NoPosition
        /\ ledger' = {}
        /\ run' = [run EXCEPT !.mode = "open", !.windows = <<first, second>> \o Tail(@),
                              !.restarts = 0]
        /\ UNCHANGED <<source, cursor, fresh, history>>

\* The total changed, or an identifier of an earlier page came again, or the
\* last page does not complete the total.
ScanUnstable(ids, total) ==
    \/ run.page > 0 /\ total # run.total
    \/ \E entry \in ledger : entry[1] \in ids
    \/ (run.page + 1) * PageSize >= total /\ Cardinality(ledger) + Cardinality(ids) # total

ScanPage ==
    LET ids == PageIds(Window, run.page)
        total == Cardinality(Found(Window))
        last == (run.page + 1) * PageSize >= total
    IN  /\ run.mode = "scan"
        /\ ~TooLarge(total)
        /\ UNCHANGED source
        /\ \/ /\ ScanUnstable(ids, total)
              /\ Restart
           \/ /\ ~ScanUnstable(ids, total)
              /\ ~last
              /\ Accept(ids, run.page, Position(Window, run.page + 1, total, "scan", 0))
              /\ run' = [run EXCEPT !.page = @ + 1, !.total = total]
           \/ /\ ~ScanUnstable(ids, total)
              /\ last
              /\ run.verify > 0
              /\ Accept(ids, run.page, Position(Window, 0, total, "verify", run.verify))
              /\ run' = [run EXCEPT !.mode = "verify", !.page = 0, !.total = total]
           \/ /\ ~ScanUnstable(ids, total)
              /\ last
              /\ run.verify = 0
              /\ Complete(ids)

VerifyUnstable(ids, total) ==
    \/ total # run.total
    \/ ids # {entry[1] : entry \in {e \in ledger : e[2] = run.page}}

VerifyPage ==
    LET ids == PageIds(Window, run.page)
        total == Cardinality(Found(Window))
    IN  /\ run.mode = "verify"
        /\ UNCHANGED source
        /\ \/ /\ VerifyUnstable(ids, total)
              /\ Restart
           \/ /\ ~VerifyUnstable(ids, total)
              /\ run.page + 1 < run.verify
              /\ Verified(ids, Position(Window, run.page + 1, total, "verify", run.verify))
              /\ run' = [run EXCEPT !.page = @ + 1]
           \/ /\ ~VerifyUnstable(ids, total)
              /\ run.page + 1 >= run.verify
              /\ Complete(ids)

\* A request fails for good, the run is cancelled, or the process dies.
Fail ==
    /\ run.mode # "off"
    /\ run' = Idle
    /\ UNCHANGED <<source, meta, ledger, fresh, history>>

Next ==
    \/ \E i \in Ids : Update(i)
    \/ Midnight
    \/ Start
    \/ End
    \/ OpenWindow
    \/ Split
    \/ ScanPage
    \/ VerifyPage
    \/ Fail

\* The schedule starts runs, and however many of them fail, now and then one
\* gets a page.
Fairness ==
    /\ WF_vars(Start)
    /\ SF_vars(OpenWindow)
    /\ WF_vars(End)
    /\ SF_vars(Split \/ ScanPage \/ VerifyPage)

Spec == Init /\ [][Next]_vars /\ Fairness
-----------------------------------------------------------------------------
(* Properties. *)

\* Every variable has its type.
Positions ==
    [window : Windows \cup {NoWindow}, page : Nat, total : Nat,
     phase : {"scan", "verify", "old"}, verify : Nat]

TypeOK ==
    /\ today \in Days /\ newestFirst \in BOOLEAN /\ updates \in 0..MaxUpdates
    /\ listing \subseteq [id : Ids, day : Days, at : 1..MaxUpdates]
    /\ cursor \in Days /\ resume \in Positions /\ next \in Windows \cup {NoWindow}
    /\ ledger \subseteq Ids \X Nat /\ fresh \subseteq Ids
    /\ run.mode \in {"off", "open", "scan", "verify"}
    /\ \A k \in DOMAIN run.windows : run.windows[k] \in Windows
    /\ run.saved \in Positions
    /\ late \in BOOLEAN /\ unseen \in BOOLEAN

\* The first day that will be read again.
Frontier ==
    IF resume # NoPosition THEN resume.window[1]
    ELSE IF next # NoWindow THEN next[1]
    ELSE cursor

\* What lies behind the frontier is complete: every item last updated before it
\* is stored as it is in the source, except after the one kind of change that
\* docs/WATCH.md says can go unseen.
NothingMissed ==
    unseen \/ \A x \in listing : x.day < Frontier => x.id \in fresh

\* A day that lies behind is not read again, whenever a run ends (docs/WATCH.md:
\* the cursor only moves forward, the next run continues with the saved window).
FrontierAdvances == [][Frontier' >= Frontier]_vars

\* A run can go on where the last one stopped: the stored position is one that
\* _euvd_resume accepts, and the ledger is the one that belongs to it.
Resumable ==
    LET pages == (resume.total + PageSize - 1) \div PageSize
    IN  resume \notin {NoPosition, OldPosition} =>
            /\ Usable(resume)
            /\ resume.page = 0 \/ resume.page < pages
            /\ resume.phase = "verify" => resume.page < resume.verify /\ resume.verify <= pages
            /\ next = NoWindow

\* The types, and positions a run can go on from.
ScanInv == TypeOK /\ Resumable

\* Catch-up ends once the source is quiet, although every run may get no more
\* than one page (docs/WATCH.md, EUVD sync).
CatchesUp == <>[](cursor = today /\ (unseen \/ \A x \in listing : x.id \in fresh))
=============================================================================
