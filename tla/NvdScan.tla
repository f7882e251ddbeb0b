------------------------------ MODULE NvdScan ------------------------------
(***************************************************************************)
(* The NVD part of a watch sync (sync_watch, feeds.fetch_nvd_window): the  *)
(* records modified since the cursor are read by time windows, a window    *)
(* with too many of them is split, and each window is committed with the   *)
(* cursor it justifies.  The source changes while it is read and may serve *)
(* a state that is a little old.                                           *)
(*                                                                         *)
(* The source is external: it lists the records of a window in a fixed     *)
(* order, and says of which moment its answer is.  Between two pages       *)
(* records may leave the window; a source where as many enter as leave is  *)
(* not modelled (one that is late by more than a page can do that).        *)
(***************************************************************************)
EXTENDS Integers, Sequences, FiniteSets

CONSTANTS
    Records,     \* CVE identifiers, in the order of the source: 1..n
    Modes,       \* what watch.initial may be set to: "baseline", "backfill"
    Backfill,    \* backfill_days
    PageSize,    \* NVD_PAGE_SIZE
    WindowDays,  \* NVD_WINDOW_DAYS
    MinSplit,    \* NVD_MIN_SPLIT
    Attempts,    \* NVD_WINDOW_ATTEMPTS
    Overlap,     \* overlap_minutes
    Lag,         \* how old an answer of the source may be
    MaxTime      \* bound

\* The first moment: a run may start an overlap before a cursor that is itself as much
\* older than the oldest answer, and that lies after 0.
Start == Backfill + 2 * Overlap + Lag

NvdAssumption ==
    /\ Records \subseteq Nat \ {0} /\ IsFiniteSet(Records) /\ Modes \subseteq {"baseline", "backfill"}
    /\ PageSize \in Nat \ {0} /\ WindowDays \in Nat \ {0} /\ MinSplit \in Nat \ {0}
    /\ Attempts \in Nat \ {0} /\ Backfill \in Nat
    /\ Lag \in Nat /\ Overlap \in Nat /\ Lag <= Overlap /\ Overlap <= WindowDays
    /\ MaxTime \in Nat /\ Start <= MaxTime

\* An initial run that was interrupted goes on at its cursor, without an overlap: it misses
\* nothing only when no window but its last is narrower than an answer may be old.  Half of
\* NVD_MIN_SPLIT is half an hour, twice the default overlap.
Prompt == 2 * Lag <= MinSplit /\ Lag <= WindowDays

VARIABLES
    now,      \* the clock: no two records change at once
    history,  \* when each record was modified
    stored,   \* watch_cve: the modification each row is of, 0 if there is none
    cursor,   \* nvd_cursor, None before the first run
    meta,     \* initial_mode and initialized_at are set
    from,     \* initial_window_start
    run       \* the sync

vars == <<now, history, stored, cursor, meta, from, run>>

None == -1
Idle == [at |-> "idle"]
Times == 0..MaxTime

Init ==
    /\ now = Start
    /\ history \in [Records -> {{}} \cup {{Start - i} : i \in 0..Lag}]
    /\ stored = [r \in Records |-> 0] /\ cursor = None
    /\ meta = [mode |-> FALSE, initialized |-> FALSE] /\ from = None
    /\ run = Idle
-----------------------------------------------------------------------------
(* The source. *)

Latest(S) == IF S = {} THEN None ELSE CHOOSE t \in S : \A u \in S : u <= t

\* The modification of a record an answer of moment t shows.
Seen(r, t) == Latest({u \in history[r] : u <= t})

\* The records of a window in an answer of moment t.
Listed(w, t) == {r \in Records : Seen(r, t) \in w[1]..w[2]}

Modify(r) ==
    /\ now < MaxTime
    /\ now' = now + 1
    /\ history' = [history EXCEPT ![r] = @ \cup {now + 1}]
    /\ UNCHANGED <<stored, cursor, meta, from, run>>

Tick ==
    /\ now < MaxTime /\ now' = now + 1
    /\ UNCHANGED <<history, stored, cursor, meta, from, run>>
-----------------------------------------------------------------------------
(* The sync. *)

AtMost(a, b) == IF a < b THEN a ELSE b

\* nvd_windows.
Windows(start, end) ==
    LET n == (end - start + WindowDays - 1) \div WindowDays IN
    [i \in 1..n |-> <<start + (i - 1) * WindowDays, AtMost(start + i * WindowDays, end)>>]

\* Nothing of the current window has been read.
Unread == [offset |-> 0, total |-> 0, stamp |-> None, got |-> {}]

\* Slip: a run starts where the last one ended.
StartAtCursor(c) == c

\* A later run reads the last minutes again.
RunStart(c) == c - Overlap

Begins(start, initial, mark) ==
    run' = [at |-> "reading", end |-> now, windows |-> Windows(start, now), first |-> TRUE,
            initial |-> initial, mark |-> mark, attempt |-> 1, page |-> Unread]

\* The first run of a baseline records where it stands and reads nothing.
Baseline ==
    /\ run = Idle /\ ~meta.mode /\ "baseline" \in Modes
    /\ cursor' = now /\ from' = now
    /\ meta' = [mode |-> TRUE, initialized |-> TRUE]
    /\ UNCHANGED <<now, history, stored, run>>

\* The first run of a backfill, which an earlier one may have begun.
Backfilling ==
    /\ run = Idle /\ ~meta.initialized /\ (meta.mode \/ "backfill" \in Modes)
    /\ LET mark == IF from = None THEN now - Backfill ELSE from IN
       Begins(IF cursor = None THEN now - Backfill ELSE cursor, TRUE, mark)
    /\ UNCHANGED <<now, history, stored, cursor, meta, from>>

CatchUp ==
    /\ run = Idle /\ meta.initialized
    /\ Begins(RunStart(cursor), FALSE, from)
    /\ UNCHANGED <<now, history, stored, cursor, meta, from>>

Window == run.windows[1]
Width(w) == w[2] - w[1]

\* A later page must still count what the first one counted.
SameTotal(total) == total = run.page.total

\* The records of one page: those after the first offset ones.
OnPage(S, offset) ==
    {r \in S : LET rank == Cardinality({s \in S : s < r}) IN
               rank >= offset /\ rank < offset + PageSize}

\* The first page pins the moment and the count; one that has too many is split.
FirstPage ==
    /\ run.at = "reading" /\ run.windows # <<>> /\ run.page.stamp = None
    /\ \E t \in (now - Lag)..now :
         /\ LET S == Listed(Window, t) IN
            IF Cardinality(S) > PageSize /\ Width(Window) > MinSplit
            THEN LET middle == (Window[1] + Window[2]) \div 2 IN
                 run' = [run EXCEPT !.windows =
                    <<<<Window[1], middle>>, <<middle, Window[2]>>>> \o Tail(@)]
            ELSE run' = [run EXCEPT !.page =
                    [offset |-> Cardinality(OnPage(S, 0)), total |-> Cardinality(S), stamp |-> t,
                     got |-> {<<r, Seen(r, t)>> : r \in OnPage(S, 0)}]]
    /\ UNCHANGED <<now, history, stored, cursor, meta, from>>

Unfinished == run.page.stamp # None /\ run.page.offset < run.page.total

\* An attempt that saw the window change is repeated; the last one ends the sync.
Unstable ==
    run' = IF run.attempt < Attempts THEN [run EXCEPT !.attempt = @ + 1, !.page = Unread] ELSE Idle

\* A later page, of a later moment: records may have left the window since the first.  A
\* count that changed or a record that came twice make the attempt unstable; a page with
\* nothing on it is an error.
NextPage ==
    /\ run.at = "reading" /\ run.windows # <<>> /\ Unfinished
    /\ \E t \in run.page.stamp..now :
         LET S == Listed(Window, t)
             P == OnPage(S, run.page.offset)
             twice == P \cap {x[1] : x \in run.page.got} # {} IN
         /\ S \subseteq Listed(Window, run.page.stamp)
         /\ IF ~SameTotal(Cardinality(S)) \/ twice THEN Unstable
            ELSE IF P = {} THEN run' = Idle
            ELSE run' = [run EXCEPT !.page.offset = @ + Cardinality(P),
                                    !.page.got = @ \cup {<<r, Seen(r, t)>> : r \in P}]
    /\ UNCHANGED <<now, history, stored, cursor, meta, from>>

\* Slip: the window is done up to its end, however old the answer was.
EndOfWindow(stamp, end) == end

\* How far the window moves the cursor.
WindowCursor(stamp, end) == AtMost(end, stamp)

\* Slip: the first window completes the initial run.
InitialAfterFirst == TRUE

\* The initial run is complete with its last window.
InitialComplete == Len(run.windows) = 1

\* upsert_nvd: the records, the cursor and what the first and the last window record.
Commit ==
    /\ run.at = "reading" /\ run.windows # <<>> /\ run.page.stamp # None /\ ~Unfinished
    /\ stored' = [r \in Records |-> IF \E x \in run.page.got : x[1] = r
                     THEN Latest({x[2] : x \in {y \in run.page.got : y[1] = r}}) ELSE stored[r]]
    /\ cursor' = WindowCursor(run.page.stamp, Window[2])
    /\ meta' = [mode |-> meta.mode \/ (run.first /\ run.initial),
                initialized |-> meta.initialized \/ (run.initial /\ InitialComplete)]
    /\ from' = IF run.first /\ run.initial THEN run.mark ELSE from
    /\ run' = [run EXCEPT !.windows = Tail(@), !.first = FALSE, !.attempt = 1, !.page = Unread]
    /\ UNCHANGED <<now, history>>

\* The end; an initial run without a window records only that it is done.
Done ==
    /\ run.at = "reading" /\ run.windows = <<>>
    /\ run' = Idle
    /\ IF run.first /\ run.initial
       THEN /\ cursor' = run.end /\ from' = run.mark
            /\ meta' = [mode |-> TRUE, initialized |-> TRUE]
       ELSE UNCHANGED <<cursor, meta, from>>
    /\ UNCHANGED <<now, history, stored>>

\* The source fails for good, or the process dies.
Abort ==
    /\ run.at = "reading"
    /\ run' = Idle
    /\ UNCHANGED <<now, history, stored, cursor, meta, from>>

Next ==
    \/ \E r \in Records : Modify(r)
    \/ Tick \/ Baseline \/ Backfilling \/ CatchUp \/ FirstPage \/ NextPage \/ Commit
    \/ Done \/ Abort

Spec == Init /\ [][Next]_vars
-----------------------------------------------------------------------------
(* Properties. *)

TypeOK ==
    /\ now \in Times /\ cursor \in Times \cup {None} /\ from \in Times \cup {None}
    /\ \A r \in Records : stored[r] \in Times

\* Every record whose last change is older than the overlap of a completed initial run, or
\* of any later one, is stored as it was changed: splits, unstable pages, late answers and
\* runs that died between two windows lose nothing.
NothingMissed ==
    meta.initialized =>
        \A r \in Records : LET t == Latest(history[r]) IN
            t > from /\ t <= cursor - Overlap => stored[r] = t

NvdInv == TypeOK /\ NothingMissed

\* A window that is committed is whole up to the cursor it sets: no record that was last
\* changed in it is stored otherwise, or missing, because another one left the listing
\* between two pages, or because the answer was old.
WindowIsWhole ==
    run # Idle /\ cursor' # cursor /\ run.windows # <<>> =>
         \A r \in Records : LET t == Latest(history[r]) IN
             t \in Window[1]..cursor' => stored'[r] = t

\* The initial run is called complete when everything it set out for is there, over all the
\* runs it took.
InitialIsWhole ==
    run # Idle /\ ~meta.initialized /\ meta'.initialized =>
         \A r \in Records : LET t == Latest(history[r]) IN
             t > from' /\ t <= run.end - Lag => stored'[r] = t

\* What no step may do to the cursor and the initial run.
NvdSteps == WindowIsWhole /\ InitialIsWhole
=============================================================================
