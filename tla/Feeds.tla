------------------------------- MODULE Feeds --------------------------------
(***************************************************************************)
(* The requests of a watch sync after the NVD part: the bounded retries    *)
(* of http.py, the throttle the two EU sources share, and the dated EPSS   *)
(* file that is streamed into the database in one transaction.             *)
(*                                                                         *)
(* The network may fail, throttle or cut any answer.  The EPSS file of a   *)
(* day appears that day or later, with the scores of that day or of the    *)
(* day before (external).                                                  *)
(***************************************************************************)
EXTENDS Integers, FiniteSets

CONSTANTS
    Retries,       \* http.retries
    ThrottleMax,   \* Throttle.maximum_retries
    Budget,        \* Throttle.budget_seconds
    Delays,        \* what one wait may take: the seconds asked for, or the default
    MaxDelay,      \* Throttle.maximum_delay
    Pages,         \* EUVD pages of one sync
    Sizes,         \* rows an EPSS file may have
    MaxDay, MaxSyncs   \* bounds

FeedsAssumption ==
    /\ Retries \in Nat /\ ThrottleMax \in Nat /\ Budget \in Nat /\ MaxDelay \in Nat
    /\ Delays \subseteq Nat /\ Pages \in Nat \ {0} /\ Sizes \subseteq Nat \ {0} /\ MaxDay \in Nat \ {0}
    /\ MaxSyncs \in Nat

VARIABLES
    today,
    published,  \* the EPSS file of each day: the day of its scores and its rows
    scores,     \* watch_epss and epss_file_day: of which day, rows loaded, rows of the file
    run,        \* the sync
    throttle,   \* the Throttle of the run
    syncs,      \* syncs so far
    early       \* history: a source was waited for that had not answered in this run

vars == <<today, published, scores, run, throttle, syncs, early>>

Days == 1..MaxDay
NoFile == [day |-> 0, rows |-> 0]
Idle == [at |-> "idle"]
NoThrottle == [succeeded |-> FALSE, count |-> 0, waited |-> 0]

Init ==
    /\ today = 1 /\ published = [d \in Days |-> NoFile]
    /\ scores = [day |-> 0, rows |-> 0, whole |-> 0]
    /\ run = Idle /\ throttle = NoThrottle /\ syncs = 0 /\ early = FALSE
-----------------------------------------------------------------------------
(* The world. *)

NextDay ==
    /\ today < MaxDay /\ today' = today + 1
    /\ UNCHANGED <<published, scores, run, throttle, syncs, early>>

Publish(d, day, rows) ==
    /\ d <= today /\ published[d] = NoFile /\ day \in {d, d - 1}
    /\ published' = [published EXCEPT ![d] = [day |-> day, rows |-> rows]]
    /\ UNCHANGED <<today, scores, run, throttle, syncs, early>>
-----------------------------------------------------------------------------
(* The EU sources: one request at a time, HttpClient.request_json.  The    *)
(* list of exploited vulnerabilities is one request, the EUVD scan several.*)

Request(source, pages, day) ==
    [at |-> source, attempt |-> 0, left |-> pages, answered |-> FALSE, today |-> day]

Asking == run.at \in {"kev", "euvd"}

\* Slip: the scan inherits the answer of the list.
SameSlate(answered) == [throttle EXCEPT !.succeeded = answered]

\* The waits stay shared, the answer of the first source is not the second one's.
FreshSlate(answered) == [throttle EXCEPT !.succeeded = FALSE]

Least(a, b) == IF a < b THEN a ELSE b

\* Slip: what is left of the budget does not limit a wait.
UpToMaximum(delay) == Least(delay, MaxDelay)

\* How long to wait when the source does not say.
Wait(delay) == Least(Least(delay, MaxDelay), Budget - throttle.waited)

\* Throttle.wait: refused when the retries or the budget are used up, or when the source
\* asks for more than is left.
MayWait(asked, delay) ==
    /\ throttle.count < ThrottleMax /\ throttle.waited < Budget
    /\ asked => Least(delay, MaxDelay) <= Budget - throttle.waited

\* The scores are asked for when those of today are not stored.
Epss ==
    IF scores.day >= run.today THEN Idle
    ELSE [at |-> "epss", attempt |-> 0, today |-> run.today, day |-> run.today,
          fallback |-> scores.day < run.today - 1, read |-> 0, got |-> -1]

\* The source is through, with or without an answer.
Through(answered) ==
    IF run.at = "kev"
    THEN run' = Request("euvd", Pages, run.today) /\ throttle' = FreshSlate(answered)
    ELSE run' = Epss /\ UNCHANGED throttle

Starts ==
    /\ run = Idle /\ syncs < MaxSyncs
    /\ syncs' = syncs + 1 /\ run' = Request("kev", 1, today)
    /\ throttle' = NoThrottle /\ early' = FALSE
    /\ UNCHANGED <<today, published, scores>>

Answer ==
    /\ Asking
    /\ IF run.left = 1 THEN Through(TRUE)
       ELSE /\ run' = [run EXCEPT !.left = @ - 1, !.attempt = 0, !.answered = TRUE]
            /\ throttle' = [throttle EXCEPT !.succeeded = TRUE]
    /\ UNCHANGED <<today, published, scores, syncs, early>>

\* A connection that fails, 5xx, or 429 of a source that has not answered yet.
Fails ==
    /\ Asking
    /\ IF run.attempt < Retries
       THEN run' = [run EXCEPT !.attempt = @ + 1] /\ UNCHANGED throttle
       ELSE Through(FALSE)
    /\ UNCHANGED <<today, published, scores, syncs, early>>

\* An answer that is no JSON, or 403 of a source that has not answered yet.
Rejects ==
    /\ Asking /\ Through(FALSE)
    /\ UNCHANGED <<today, published, scores, syncs, early>>

\* 403 and 429 are throttling once the source has answered.
Throttles(asked, delay) ==
    /\ Asking /\ throttle.succeeded
    /\ IF MayWait(asked, delay)
       THEN /\ throttle' = [throttle EXCEPT !.count = @ + 1,
                   !.waited = @ + (IF asked THEN Least(delay, MaxDelay) ELSE Wait(delay))]
            /\ early' = (early \/ ~run.answered)
            /\ UNCHANGED run
       ELSE Through(FALSE) /\ UNCHANGED early
    /\ UNCHANGED <<today, published, scores, syncs>>
-----------------------------------------------------------------------------
(* The scores: fetch_epss_daily over stream_bytes, inside replace_epss.    *)
(* `got' counts the rows of this body, `read' those in the transaction.    *)

Reading == run.at = "epss" /\ run.got >= 0
File == published[run.day]
Ends == run' = Idle

\* Slip: the file of the day before is always good enough.
Whenever == run.day = run.today

\* The file of the day before only when not even its scores are stored.
MayFallBack == run.day = run.today /\ run.fallback

\* 403 and 404: the file is not published, or not served now.
Missing ==
    /\ run.at = "epss" /\ ~Reading
    /\ IF run.day > 1 /\ MayFallBack
       THEN run' = [run EXCEPT !.day = @ - 1, !.attempt = 0] ELSE Ends
    /\ UNCHANGED <<today, published, scores, throttle, syncs, early>>

Opens ==
    /\ run.at = "epss" /\ ~Reading /\ File # NoFile
    /\ run' = [run EXCEPT !.got = 0]
    /\ UNCHANGED <<today, published, scores, throttle, syncs, early>>

\* A row of the file goes into the table of the transaction.
Row ==
    /\ Reading /\ run.got < File.rows
    /\ run' = [run EXCEPT !.got = @ + 1, !.read = @ + 1]
    /\ UNCHANGED <<today, published, scores, throttle, syncs, early>>

\* Slip: a body that breaks off is asked for once more.
AnyBody == run.attempt < Retries

\* A request is repeated only while nothing of its body was passed on.
MayRepeat == run.attempt < Retries /\ run.got <= 0

Breaks ==
    /\ run.at = "epss"
    /\ IF MayRepeat THEN run' = [run EXCEPT !.attempt = @ + 1, !.got = -1] ELSE Ends
    /\ UNCHANGED <<today, published, scores, throttle, syncs, early>>

\* The end of the file: less than half of what is stored is an error.
Load ==
    /\ Reading /\ run.got = File.rows
    /\ scores' = IF 2 * run.read < scores.rows THEN scores
                 ELSE [day |-> File.day, rows |-> run.read, whole |-> File.rows]
    /\ Ends
    /\ UNCHANGED <<today, published, throttle, syncs, early>>

Crash ==
    /\ run # Idle /\ Ends
    /\ UNCHANGED <<today, published, scores, throttle, syncs, early>>

Next ==
    \/ NextDay
    \/ \E d \in Days, day \in 0..MaxDay, rows \in Sizes : Publish(d, day, rows)
    \/ Starts \/ Answer \/ Fails \/ Rejects
    \/ \E asked \in BOOLEAN, delay \in Delays : Throttles(asked, delay)
    \/ Missing \/ Opens \/ Row \/ Breaks \/ Load \/ Crash

Spec == Init /\ [][Next]_vars
-----------------------------------------------------------------------------
(* Properties. *)

TypeOK ==
    /\ today \in Days /\ syncs \in 0..MaxSyncs /\ early \in BOOLEAN
    /\ published \in [Days -> [day : 0..MaxDay, rows : Sizes \cup {0}]]
    /\ scores.day \in 0..today
    /\ throttle.succeeded \in BOOLEAN /\ throttle.count \in 0..ThrottleMax
    /\ run.at \in {"idle", "kev", "euvd", "epss"}

\* http.py:24, "Waits are bounded per retry and in total": the list and the scan together
\* never keep a sync waiting longer than the budget of their host.
BudgetHolds == throttle.waited <= Budget

\* sync.py:489: a source that answered nothing in this run is never waited for, although
\* the list before it, on the same host and the same throttle, may have answered.
RefusedIsNotThrottled == ~early

\* The stored scores are one whole file: a body that broke off and was asked for again, a
\* crash or a refused file leaves the scores as they were, with their day.
WholeFile == scores.rows = scores.whole

FeedsInv == TypeOK /\ BudgetHolds /\ RefusedIsNotThrottled /\ WholeFile

\* Scores are never replaced by older ones, whatever day the file published late for a day
\* carries, and when midnight passes during a sync (sync.py:876, feeds.py:848).
NeverOlder == scores'.day >= scores.day
=============================================================================
