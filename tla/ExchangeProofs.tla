--------------------------- MODULE ExchangeProofs ---------------------------
(***************************************************************************)
(* What the watcher exchanges with others, for every value of the          *)
(* constants: the feeds of a sync, for any budgets, days and sizes, the    *)
(* transports, for any parts and attempts, the NVD scan, for any records   *)
(* and windows, and scans of the inventory, for any advisories, sources    *)
(* and outages.                                                            *)
(*                                                                         *)
(* For each component there is a theorem about its own specification and   *)
(* one that says the same of the sum of the components.                    *)
(***************************************************************************)
EXTENDS WatchComponents, FiniteSetTheorems, SequenceTheorems, WellFoundedInduction, TLAPS
-----------------------------------------------------------------------------
(* Feeds: retries, waits and the file of scores. *)

Requests == [at : {"kev", "euvd"}, attempt : Nat, left : Nat \ {0}, answered : BOOLEAN, today : Feeds!Days]
Readings ==
    [at : {"epss"}, attempt : Nat, today : Feeds!Days, day : Feeds!Days, fallback : BOOLEAN,
     read : Nat, got : Nat \cup {-1}]

FeedsShapes ==
    /\ today \in Feeds!Days /\ syncs \in 0..MaxSyncs /\ early = FALSE
    /\ published \in [Feeds!Days -> [day : 0..MaxDay, rows : Sizes \cup {0}]]
    /\ scores \in [day : 0..today, rows : Nat, whole : Nat] /\ scores.rows = scores.whole
    /\ throttle \in [succeeded : BOOLEAN, count : 0..ThrottleMax, waited : 0..Budget]
    /\ sync \in {Feeds!Idle} \cup Requests \cup Readings

\* A file is published for its day, with the scores of that day or the one before.
FilesAreDated ==
    \A d \in Feeds!Days : published[d] # Feeds!NoFile => d <= today /\ published[d].day \in {d, d - 1}

\* What the requests of a run know: an answer of the throttle is one of this source.
RequestKnows == sync.at \in {"kev", "euvd"} => sync.today <= today /\ (throttle.succeeded => sync.answered)

\* What the reading of scores knows: which days may be older than the stored one, and how
\* much of the body is in the transaction.
ReadingKnows ==
    sync.at = "epss" =>
        /\ sync.today <= today /\ scores.day < sync.today
        /\ sync.fallback <=> scores.day < sync.today - 1
        /\ sync.day = sync.today \/ (sync.day = sync.today - 1 /\ sync.fallback)
        /\ sync.read = IF sync.got = -1 THEN 0 ELSE sync.got
        /\ sync.got # -1 => published[sync.day] # Feeds!NoFile

FeedsKnow == FeedsShapes /\ FilesAreDated /\ RequestKnows /\ ReadingKnows

\* Waiting stays within the budget, whoever says how long.
LEMMA WaitsFit ==
    ASSUME Feeds!FeedsAssumption, FeedsShapes, NEW asked \in BOOLEAN, NEW delay \in Delays,
           Feeds!MayWait(asked, delay)
    PROVE  LET wait == IF asked THEN Feeds!Least(delay, MaxDelay) ELSE Feeds!Wait(delay)
           IN  throttle.waited + wait \in 0..Budget /\ throttle.count + 1 \in 0..ThrottleMax
<1>1. /\ throttle.waited \in 0..Budget /\ throttle.count \in 0..ThrottleMax
      /\ delay \in Nat /\ MaxDelay \in Nat /\ Budget \in Nat /\ ThrottleMax \in Nat
  BY DEF FeedsShapes, Feeds!FeedsAssumption
<1>2. throttle.count < ThrottleMax /\ throttle.waited < Budget
  BY DEF Feeds!MayWait
<1>3. CASE asked
  BY <1>1, <1>2, <1>3 DEF Feeds!MayWait, Feeds!Least
<1>4. CASE ~asked
  BY <1>1, <1>2, <1>4 DEF Feeds!Wait, Feeds!Least
<1> QED BY <1>3, <1>4

\* What a run is, by its place.
LEMMA PlaceOfRun ==
    ASSUME FeedsShapes
    PROVE  /\ sync.at \in {"idle", "kev", "euvd", "epss"}
           /\ sync.at \in {"kev", "euvd"} => sync \in Requests
           /\ sync.at = "epss" => sync \in Readings
           /\ Feeds!Idle.at = "idle"
BY DEF FeedsShapes, Requests, Readings, Feeds!Idle

\* The run may end at any time.
LEMMA RunEnds ==
    ASSUME FeedsKnow, sync' = Feeds!Idle,
           UNCHANGED <<today, published, scores, throttle, syncs, early>>
    PROVE  FeedsKnow'
<1>1. Feeds!Idle.at = "idle"
  BY DEF Feeds!Idle
<1> QED BY <1>1 DEF FeedsKnow, FeedsShapes, FilesAreDated, RequestKnows, ReadingKnows

\* A request of a source that has not answered follows, or the reading of the scores.
LEMMA SourceIsThrough ==
    ASSUME Feeds!FeedsAssumption, FeedsKnow, Feeds!Asking, NEW answered, Feeds!Through(answered),
           UNCHANGED <<today, published, scores, syncs, early>>
    PROVE  FeedsKnow' /\ scores' = scores
<1>1. /\ sync \in Requests /\ sync.today \in Feeds!Days /\ sync.today <= today
      /\ throttle \in [succeeded : BOOLEAN, count : 0..ThrottleMax, waited : 0..Budget]
      /\ FeedsShapes /\ today \in Nat /\ Pages \in Nat \ {0} /\ scores.day \in 0..today
  <2>1. FeedsShapes /\ sync \in Requests /\ sync.today <= today
    BY PlaceOfRun DEF FeedsKnow, RequestKnows, Feeds!Asking
  <2>2. sync.today \in Feeds!Days
    BY <2>1 DEF Requests
  <2>3. today \in Nat /\ Pages \in Nat \ {0}
    BY <2>1 DEF FeedsShapes, Feeds!Days, Feeds!FeedsAssumption
  <2> QED BY <2>1, <2>2, <2>3 DEF FeedsShapes
<1>2. CASE sync.at = "kev"
  <2> DEFINE new == [at |-> "euvd", attempt |-> 0, left |-> Pages, answered |-> FALSE,
                     today |-> sync.today]
             slate == [throttle EXCEPT !.succeeded = FALSE]
  <2>1. sync' = new /\ throttle' = slate
    BY <1>2 DEF Feeds!Through, Feeds!Request, Feeds!FreshSlate
  <2>2. new \in Requests /\ new.at = "euvd" /\ new.today = sync.today
    BY <1>1 DEF Requests
  <2>3. /\ slate \in [succeeded : BOOLEAN, count : 0..ThrottleMax, waited : 0..Budget]
        /\ slate.succeeded = FALSE
    BY <1>1
  <2> HIDE DEF new, slate
  <2>4. FeedsShapes'
    BY <2>1, <2>2, <2>3 DEF FeedsKnow, FeedsShapes
  <2>5. RequestKnows' /\ ReadingKnows'
    BY <1>1, <2>1, <2>2, <2>3 DEF RequestKnows, ReadingKnows
  <2> QED BY <2>4, <2>5 DEF FeedsKnow, FilesAreDated
<1>3. CASE sync.at # "kev"
  <2>1. sync' = Feeds!Epss /\ throttle' = throttle
    BY <1>3 DEF Feeds!Through
  <2>2. CASE scores.day >= sync.today
    BY <2>1, <2>2, RunEnds DEF Feeds!Epss
  <2>3. CASE ~(scores.day >= sync.today)
    <3> DEFINE fallback == scores.day < sync.today - 1
               new == [at |-> "epss", attempt |-> 0, today |-> sync.today, day |-> sync.today,
                       fallback |-> fallback, read |-> 0, got |-> -1]
    <3>1. sync' = new
      BY <2>1, <2>3 DEF Feeds!Epss
    <3>2. /\ new \in Readings /\ new.at = "epss" /\ new.today = sync.today /\ new.day = sync.today
          /\ new.read = 0 /\ new.got = -1 /\ (new.fallback <=> fallback)
      <4>1. fallback \in BOOLEAN
        OBVIOUS
      <4> HIDE DEF fallback
      <4> QED BY <1>1, <4>1 DEF Readings
    <3> HIDE DEF new
    <3>3. FeedsShapes'
      BY <2>1, <3>1, <3>2 DEF FeedsKnow, FeedsShapes
    <3>4. scores.day < sync.today
      BY <1>1, <2>3 DEF Feeds!Days
    <3>5. RequestKnows' /\ ReadingKnows'
      BY <1>1, <3>1, <3>2, <3>4 DEF RequestKnows, ReadingKnows
    <3> QED BY <3>3, <3>5 DEF FeedsKnow, FilesAreDated
  <2> QED BY <2>2, <2>3
<1> QED BY <1>2, <1>3

LEMMA DayPasses ==
    ASSUME Feeds!FeedsAssumption, FeedsKnow, Feeds!NextDay
    PROVE  FeedsKnow' /\ scores' = scores
<1>1. /\ today \in Feeds!Days /\ MaxDay \in Nat /\ today < MaxDay /\ today' = today + 1
      /\ UNCHANGED <<published, scores, sync, throttle, syncs, early>>
  BY DEF Feeds!NextDay, FeedsKnow, FeedsShapes, Feeds!FeedsAssumption
<1>2. today' \in Feeds!Days /\ today <= today' /\ today \in Nat
  BY <1>1 DEF Feeds!Days
<1>3. scores' \in [day : 0..today', rows : Nat, whole : Nat]
  <2>1. scores \in [day : 0..today, rows : Nat, whole : Nat] /\ 0..today \subseteq 0..today'
    BY <1>2 DEF FeedsKnow, FeedsShapes
  <2> QED BY <1>1, <2>1
<1>4. FeedsShapes'
  BY <1>1, <1>2, <1>3 DEF FeedsKnow, FeedsShapes
<1>5. FilesAreDated'
  BY <1>1, <1>2 DEF FeedsKnow, FilesAreDated, Feeds!Days
<1>6. RequestKnows' /\ ReadingKnows'
  <2>1. sync.at \in {"kev", "euvd", "epss"} => sync.today \in Nat
    BY PlaceOfRun DEF FeedsKnow, Requests, Readings, Feeds!Days
  <2> QED BY <1>1, <1>2, <2>1 DEF FeedsKnow, RequestKnows, ReadingKnows
<1> QED BY <1>1, <1>4, <1>5, <1>6 DEF FeedsKnow

LEMMA FilePublished ==
    ASSUME Feeds!FeedsAssumption, FeedsKnow, NEW d \in Feeds!Days, NEW day \in 0..MaxDay,
           NEW size \in Sizes, Feeds!Publish(d, day, size)
    PROVE  FeedsKnow' /\ scores' = scores
<1> DEFINE file == [day |-> day, rows |-> size]
<1>1. /\ d <= today /\ published[d] = Feeds!NoFile /\ day \in {d, d - 1}
      /\ published' = [published EXCEPT ![d] = file]
      /\ UNCHANGED <<today, scores, sync, throttle, syncs, early>>
  BY DEF Feeds!Publish
<1>2. file \in [day : 0..MaxDay, rows : Sizes \cup {0}] /\ file.day = day /\ file # Feeds!NoFile
  BY DEF Feeds!NoFile, Feeds!FeedsAssumption
<1> HIDE DEF file
<1>3. /\ published \in [Feeds!Days -> [day : 0..MaxDay, rows : Sizes \cup {0}]]
      /\ published'[d] = file /\ \A e \in Feeds!Days \ {d} : published'[e] = published[e]
  BY <1>1 DEF FeedsKnow, FeedsShapes
<1>4. FeedsShapes'
  BY <1>1, <1>2, <1>3 DEF FeedsKnow, FeedsShapes
<1>5. FilesAreDated'
  BY <1>1, <1>2, <1>3 DEF FeedsKnow, FilesAreDated
<1>6. RequestKnows' /\ ReadingKnows'
  <2>1. sync.at = "epss" => sync.day \in Feeds!Days
    BY PlaceOfRun DEF FeedsKnow, Readings
  <2> QED BY <1>1, <1>2, <1>3, <2>1 DEF FeedsKnow, RequestKnows, ReadingKnows
<1> QED BY <1>1, <1>4, <1>5, <1>6 DEF FeedsKnow

LEMMA SyncStarts ==
    ASSUME Feeds!FeedsAssumption, FeedsKnow, Feeds!Starts
    PROVE  FeedsKnow' /\ scores' = scores
<1> DEFINE new == [at |-> "kev", attempt |-> 0, left |-> 1, answered |-> FALSE, today |-> today]
           slate == [succeeded |-> FALSE, count |-> 0, waited |-> 0]
<1>1. /\ syncs' = syncs + 1 /\ syncs < MaxSyncs /\ sync' = new /\ throttle' = slate /\ early' = FALSE
      /\ UNCHANGED <<today, published, scores>>
  BY DEF Feeds!Starts, Feeds!Request, Feeds!NoThrottle
<1>2. /\ today \in Feeds!Days /\ syncs \in 0..MaxSyncs /\ ThrottleMax \in Nat /\ Budget \in Nat
  BY DEF FeedsKnow, FeedsShapes, Feeds!FeedsAssumption
<1>3. new \in Requests /\ new.at = "kev" /\ new.today = today
  BY <1>2 DEF Requests
<1>4. slate \in [succeeded : BOOLEAN, count : 0..ThrottleMax, waited : 0..Budget] /\ ~slate.succeeded
  BY <1>2
<1>5. syncs' \in 0..MaxSyncs
  BY <1>1, <1>2 DEF Feeds!FeedsAssumption
<1> HIDE DEF new, slate
<1>6. FeedsShapes'
  BY <1>1, <1>3, <1>4, <1>5 DEF FeedsKnow, FeedsShapes
<1>7. RequestKnows' /\ ReadingKnows'
  BY <1>1, <1>2, <1>3, <1>4 DEF RequestKnows, ReadingKnows, Feeds!Days
<1> QED BY <1>1, <1>6, <1>7 DEF FeedsKnow, FilesAreDated

LEMMA SourceAnswers ==
    ASSUME Feeds!FeedsAssumption, FeedsKnow, Feeds!Answer
    PROVE  FeedsKnow' /\ scores' = scores
<1>1. Feeds!Asking /\ UNCHANGED <<today, published, scores, syncs, early>>
  BY DEF Feeds!Answer
<1>2. CASE sync.left = 1
  BY <1>1, <1>2, SourceIsThrough DEF Feeds!Answer
<1>3. CASE sync.left # 1
  <2>1. sync \in Requests /\ sync.at \in {"kev", "euvd"} /\ sync.today <= today
    BY <1>1, PlaceOfRun DEF Feeds!Asking, FeedsKnow, RequestKnows
  <2> DEFINE fewer == sync.left - 1
             new == [sync EXCEPT !.left = fewer, !.attempt = 0, !.answered = TRUE]
             slate == [throttle EXCEPT !.succeeded = TRUE]
  <2>2. sync' = new /\ throttle' = slate
    BY <1>3 DEF Feeds!Answer
  <2>3. fewer \in Nat \ {0}
    BY <1>3, <2>1 DEF Requests
  <2> HIDE DEF fewer
  <2>4. new \in Requests /\ new.at = sync.at /\ new.today = sync.today /\ new.answered = TRUE
    BY <2>1, <2>3 DEF Requests
  <2>5. slate \in [succeeded : BOOLEAN, count : 0..ThrottleMax, waited : 0..Budget]
    BY DEF FeedsKnow, FeedsShapes
  <2> HIDE DEF new, slate
  <2>6. FeedsShapes'
    BY <1>1, <2>2, <2>4, <2>5 DEF FeedsKnow, FeedsShapes
  <2>7. RequestKnows' /\ ReadingKnows'
    BY <1>1, <2>1, <2>2, <2>4 DEF RequestKnows, ReadingKnows
  <2> QED BY <1>1, <2>6, <2>7 DEF FeedsKnow, FilesAreDated
<1> QED BY <1>2, <1>3

LEMMA SourceFailsOnce ==
    ASSUME Feeds!FeedsAssumption, FeedsKnow, Feeds!Fails \/ Feeds!Rejects
    PROVE  FeedsKnow' /\ scores' = scores
<1>1. Feeds!Asking /\ UNCHANGED <<today, published, scores, syncs, early>>
  BY DEF Feeds!Fails, Feeds!Rejects
<1>2. CASE Feeds!Through(FALSE)
  BY <1>1, <1>2, SourceIsThrough
<1>3. CASE sync' = [sync EXCEPT !.attempt = @ + 1] /\ throttle' = throttle
  <2>1. sync \in Requests /\ sync.at \in {"kev", "euvd"} /\ FeedsShapes /\ RequestKnows
    BY <1>1, PlaceOfRun DEF Feeds!Asking, FeedsKnow
  <2>2. /\ sync' \in Requests /\ sync'.at = sync.at /\ sync'.today = sync.today
        /\ sync'.answered = sync.answered
    BY <1>3, <2>1 DEF Requests
  <2>3. FeedsShapes'
    BY <1>1, <1>3, <2>1, <2>2 DEF FeedsShapes
  <2>4. RequestKnows' /\ ReadingKnows'
    BY <1>1, <1>3, <2>1, <2>2 DEF RequestKnows, ReadingKnows
  <2> QED BY <1>1, <2>3, <2>4 DEF FeedsKnow, FilesAreDated
<1> QED BY <1>2, <1>3 DEF Feeds!Fails, Feeds!Rejects

LEMMA SourceThrottles ==
    ASSUME Feeds!FeedsAssumption, FeedsKnow, NEW asked \in BOOLEAN, NEW delay \in Delays,
           Feeds!Throttles(asked, delay)
    PROVE  FeedsKnow' /\ scores' = scores
<1>1. Feeds!Asking /\ throttle.succeeded /\ UNCHANGED <<today, published, scores, syncs>>
  BY DEF Feeds!Throttles
<1>2. CASE ~Feeds!MayWait(asked, delay)
  BY <1>1, <1>2, SourceIsThrough DEF Feeds!Throttles
<1>3. CASE Feeds!MayWait(asked, delay)
  <2> DEFINE waited == throttle.waited + (IF asked THEN Feeds!Least(delay, MaxDelay) ELSE Feeds!Wait(delay))
             count == throttle.count + 1
             slate == [throttle EXCEPT !.count = count, !.waited = waited]
  <2>1. throttle' = slate /\ early' = (early \/ ~sync.answered) /\ sync' = sync
    BY <1>3 DEF Feeds!Throttles
  <2>2. waited \in 0..Budget /\ count \in 0..ThrottleMax
    BY <1>3, WaitsFit DEF FeedsKnow
  <2> HIDE DEF waited, count
  <2>3. /\ slate \in [succeeded : BOOLEAN, count : 0..ThrottleMax, waited : 0..Budget]
        /\ slate.succeeded = throttle.succeeded
    BY <2>2 DEF FeedsKnow, FeedsShapes
  <2> HIDE DEF slate
  <2>4. early' = FALSE
    BY <1>1, <2>1 DEF FeedsKnow, FeedsShapes, RequestKnows, Feeds!Asking
  <2>5. FeedsShapes'
    BY <1>1, <2>1, <2>3, <2>4 DEF FeedsKnow, FeedsShapes
  <2> QED BY <1>1, <2>1, <2>3, <2>5 DEF FeedsKnow, FilesAreDated, RequestKnows, ReadingKnows
<1> QED BY <1>2, <1>3

\* A step of the reading of scores that stores nothing.
LEMMA ReadingGoesOn ==
    ASSUME FeedsKnow, sync.at = "epss", sync' \in Readings,
           UNCHANGED <<today, published, scores, throttle, syncs, early>>,
           sync'.today = sync.today, sync'.fallback = sync.fallback,
           sync'.day = sync.day \/ (sync.day = sync.today /\ sync.fallback /\ sync'.day = sync.day - 1),
           sync'.read = IF sync'.got = -1 THEN 0 ELSE sync'.got,
           sync'.got # -1 => published[sync'.day] # Feeds!NoFile
    PROVE  FeedsKnow' /\ scores' = scores
<1>1. sync \in Readings /\ sync'.at = "epss"
  BY PlaceOfRun DEF FeedsKnow, Readings
<1>2. FeedsShapes'
  BY DEF FeedsKnow, FeedsShapes
<1>3. ReadingKnows' /\ RequestKnows'
  BY <1>1 DEF FeedsKnow, ReadingKnows, RequestKnows
<1> QED BY <1>2, <1>3 DEF FeedsKnow, FilesAreDated

LEMMA FileMissing ==
    ASSUME Feeds!FeedsAssumption, FeedsKnow, Feeds!Missing
    PROVE  FeedsKnow' /\ scores' = scores
<1>1. /\ sync.at = "epss" /\ ~(sync.got >= 0)
      /\ UNCHANGED <<today, published, scores, throttle, syncs, early>>
  BY DEF Feeds!Missing, Feeds!Reading
<1>2. sync \in Readings /\ sync.got = -1 /\ sync.read = 0
  <2>1. sync \in Readings
    BY <1>1, PlaceOfRun DEF FeedsKnow
  <2>2. sync.got = -1
    BY <1>1, <2>1 DEF Readings
  <2> QED BY <1>1, <2>1, <2>2 DEF FeedsKnow, ReadingKnows
<1>3. CASE sync' = Feeds!Idle
  BY <1>1, <1>3, RunEnds
<1>4. CASE sync.day > 1 /\ sync.day = sync.today /\ sync.fallback /\ sync' = [sync EXCEPT !.day = @ - 1, !.attempt = 0]
  <2> DEFINE day == sync.day - 1
  <2>1. day \in Feeds!Days
    BY <1>2, <1>4 DEF Readings, Feeds!Days, Feeds!FeedsAssumption
  <2>2. sync' = [sync EXCEPT !.day = day, !.attempt = 0]
    BY <1>4
  <2> HIDE DEF day
  <2>3. /\ sync' \in Readings /\ sync'.today = sync.today /\ sync'.fallback = sync.fallback
        /\ sync'.day = day /\ sync'.read = sync.read /\ sync'.got = sync.got
    BY <1>2, <2>1, <2>2 DEF Readings
  <2> QED BY <1>1, <1>2, <1>4, <2>3, ReadingGoesOn DEF day
<1> QED BY <1>3, <1>4 DEF Feeds!Missing, Feeds!MayFallBack, Feeds!Ends

LEMMA FileOpened ==
    ASSUME FeedsKnow, Feeds!Opens
    PROVE  FeedsKnow' /\ scores' = scores
<1>1. /\ sync.at = "epss" /\ ~(sync.got >= 0) /\ published[sync.day] # Feeds!NoFile
      /\ sync' = [sync EXCEPT !.got = 0]
      /\ UNCHANGED <<today, published, scores, throttle, syncs, early>>
  BY DEF Feeds!Opens, Feeds!Reading, Feeds!File
<1>2. sync \in Readings /\ sync.read = 0
  <2>1. sync \in Readings
    BY <1>1, PlaceOfRun DEF FeedsKnow
  <2>2. sync.got = -1
    BY <1>1, <2>1 DEF Readings
  <2> QED BY <1>1, <2>1, <2>2 DEF FeedsKnow, ReadingKnows
<1>3. /\ sync' \in Readings /\ sync'.today = sync.today /\ sync'.fallback = sync.fallback
      /\ sync'.day = sync.day /\ sync'.read = sync.read /\ sync'.got = 0
  BY <1>1, <1>2 DEF Readings
<1> QED BY <1>1, <1>2, <1>3, ReadingGoesOn

LEMMA RowRead ==
    ASSUME FeedsKnow, Feeds!Row
    PROVE  FeedsKnow' /\ scores' = scores
<1>1. /\ sync.at = "epss" /\ sync.got >= 0
      /\ sync' = [sync EXCEPT !.got = @ + 1, !.read = @ + 1]
      /\ UNCHANGED <<today, published, scores, throttle, syncs, early>>
  BY DEF Feeds!Row, Feeds!Reading
<1>2. sync \in Readings /\ sync.got \in Nat /\ sync.read = sync.got /\ published[sync.day] # Feeds!NoFile
  <2>1. sync \in Readings
    BY <1>1, PlaceOfRun DEF FeedsKnow
  <2>2. sync.got \in Nat
    BY <1>1, <2>1 DEF Readings
  <2> QED BY <1>1, <2>1, <2>2 DEF FeedsKnow, ReadingKnows
<1> DEFINE more == sync.got + 1
<1>3. sync' = [sync EXCEPT !.got = more, !.read = more] /\ more \in Nat
  BY <1>1, <1>2
<1> HIDE DEF more
<1>4. /\ sync' \in Readings /\ sync'.today = sync.today /\ sync'.fallback = sync.fallback
      /\ sync'.day = sync.day /\ sync'.read = more /\ sync'.got = more
  BY <1>2, <1>3 DEF Readings
<1> QED BY <1>1, <1>2, <1>3, <1>4, ReadingGoesOn

\* A body is asked for again only while nothing of it is in the transaction.
LEMMA BodyBreaks ==
    ASSUME Feeds!FeedsAssumption, FeedsKnow, Feeds!Breaks
    PROVE  FeedsKnow' /\ scores' = scores
<1>1. sync.at = "epss" /\ UNCHANGED <<today, published, scores, throttle, syncs, early>>
  BY DEF Feeds!Breaks
<1>2. CASE sync' = Feeds!Idle
  BY <1>1, <1>2, RunEnds
<1>3. CASE sync.got <= 0 /\ sync' = [sync EXCEPT !.attempt = @ + 1, !.got = -1]
  <2>1. sync \in Readings
    BY <1>1, PlaceOfRun DEF FeedsKnow
  <2>2. sync.got = -1 \/ sync.got = 0
    BY <1>3, <2>1 DEF Readings
  <2>3. sync.read = 0
    BY <1>1, <2>2 DEF FeedsKnow, ReadingKnows
  <2> DEFINE again == sync.attempt + 1
  <2>4. sync' = [sync EXCEPT !.attempt = again, !.got = -1] /\ again \in Nat
    BY <1>3, <2>1 DEF Readings
  <2> HIDE DEF again
  <2>5. /\ sync' \in Readings /\ sync'.today = sync.today /\ sync'.fallback = sync.fallback
        /\ sync'.day = sync.day /\ sync'.read = sync.read /\ sync'.got = -1
    BY <2>1, <2>4 DEF Readings
  <2> QED BY <1>1, <2>3, <2>5, ReadingGoesOn
<1> QED BY <1>2, <1>3 DEF Feeds!Breaks, Feeds!MayRepeat, Feeds!Ends

\* What is loaded is the whole file, and its scores are not older than the stored ones.
LEMMA FileLoaded ==
    ASSUME Feeds!FeedsAssumption, FeedsKnow, Feeds!Load
    PROVE  FeedsKnow' /\ scores'.day >= scores.day
<1>1. /\ sync.at = "epss" /\ sync.got >= 0 /\ sync.got = published[sync.day].rows
      /\ sync' = Feeds!Idle /\ UNCHANGED <<today, published, throttle, syncs, early>>
  BY DEF Feeds!Load, Feeds!Reading, Feeds!File, Feeds!Ends
<1>2. sync \in Readings /\ sync.got \in Nat /\ sync.read = sync.got /\ published[sync.day] # Feeds!NoFile
  <2>1. sync \in Readings
    BY <1>1, PlaceOfRun DEF FeedsKnow
  <2>2. sync.got \in Nat
    BY <1>1, <2>1 DEF Readings
  <2> QED BY <1>1, <2>1, <2>2 DEF FeedsKnow, ReadingKnows
<1> DEFINE file == published[sync.day]
           loaded == [day |-> file.day, rows |-> sync.read, whole |-> file.rows]
<1>3. /\ sync.day \in Feeds!Days /\ sync.today \in Feeds!Days /\ today \in Feeds!Days
      /\ file \in [day : 0..MaxDay, rows : Sizes \cup {0}]
      /\ file.day \in {sync.day, sync.day - 1} /\ sync.day <= today
      /\ scores.day \in 0..today
  BY <1>2 DEF FeedsKnow, FeedsShapes, FilesAreDated, Readings
<1>4. /\ scores.day < sync.today /\ (sync.fallback <=> scores.day < sync.today - 1)
      /\ sync.day = sync.today \/ (sync.day = sync.today - 1 /\ sync.fallback)
  BY <1>1 DEF FeedsKnow, ReadingKnows
<1>5. file.day \in 0..today /\ file.day >= scores.day
  <2>1. file.day \in Nat /\ sync.day \in Nat /\ sync.today \in Nat /\ today \in Nat /\ scores.day \in Nat
    BY <1>3 DEF Feeds!Days
  <2>2. file.day <= today
    BY <1>3, <2>1
  <2>3. CASE sync.day = sync.today
    BY <1>3, <1>4, <2>1, <2>2, <2>3
  <2>4. CASE sync.day = sync.today - 1 /\ sync.fallback
    BY <1>3, <1>4, <2>1, <2>2, <2>4
  <2> QED BY <1>4, <2>3, <2>4
<1>6. scores' = scores \/ scores' = loaded
  BY DEF Feeds!Load, Feeds!File
<1>7. scores' \in [day : 0..today, rows : Nat, whole : Nat] /\ scores'.rows = scores'.whole
      /\ scores'.day >= scores.day
  <2>1. CASE scores' = scores
    <3>1. scores.day >= scores.day
      BY <1>3 DEF Feeds!Days
    <3> QED BY <2>1, <3>1 DEF FeedsKnow, FeedsShapes
  <2>2. CASE scores' = loaded
    <3>1. file.rows = sync.read /\ sync.read \in Nat
      BY <1>1, <1>2
    <3> HIDE DEF file
    <3> QED BY <1>5, <2>2, <3>1
  <2> QED BY <1>6, <2>1, <2>2
<1>8. FeedsShapes'
  BY <1>1, <1>7 DEF FeedsKnow, FeedsShapes
<1>9. Feeds!Idle.at = "idle"
  BY DEF Feeds!Idle
<1> QED BY <1>1, <1>7, <1>8, <1>9 DEF FeedsKnow, FilesAreDated, RequestKnows, ReadingKnows

LEMMA FeedsInit == Feeds!FeedsAssumption /\ Feeds!Init => FeedsKnow
<1> SUFFICES ASSUME Feeds!FeedsAssumption, Feeds!Init PROVE FeedsKnow
  OBVIOUS
<1>1. today = 1 /\ 1 \in Feeds!Days /\ syncs \in 0..MaxSyncs /\ early = FALSE
  BY DEF Feeds!Init, Feeds!FeedsAssumption, Feeds!Days
<1>2. FeedsShapes
  BY <1>1 DEF Feeds!Init, Feeds!FeedsAssumption, FeedsShapes, Feeds!NoFile, Feeds!NoThrottle
<1>3. FilesAreDated
  BY DEF Feeds!Init, FilesAreDated
<1>4. RequestKnows /\ ReadingKnows
  BY DEF Feeds!Init, Feeds!Idle, RequestKnows, ReadingKnows
<1> QED BY <1>2, <1>3, <1>4 DEF FeedsKnow

LEMMA FeedsStep ==
    ASSUME Feeds!FeedsAssumption, FeedsKnow, [Feeds!Next]_(Feeds!vars)
    PROVE  FeedsKnow' /\ Feeds!NeverOlder
<1>1. scores.day >= scores.day
  BY DEF FeedsKnow, FeedsShapes, Feeds!Days
<1>2. CASE FeedsKnow' /\ scores' = scores
  BY <1>1, <1>2 DEF Feeds!NeverOlder
<1>3. CASE UNCHANGED Feeds!vars
  BY <1>2, <1>3 DEF Feeds!vars, FeedsKnow, FeedsShapes, FilesAreDated, RequestKnows, ReadingKnows
<1>4. CASE Feeds!Crash
  BY <1>2, <1>4, RunEnds DEF Feeds!Crash, Feeds!Ends
<1>5. CASE Feeds!Load
  BY <1>5, FileLoaded DEF Feeds!NeverOlder
<1> QED BY <1>2, <1>3, <1>4, <1>5, DayPasses, FilePublished, SyncStarts, SourceAnswers,
           SourceFailsOnce, SourceThrottles, FileMissing, FileOpened, RowRead, BodyBreaks
        DEF Feeds!Next

\* However sources fail, throttle and cut their answers: a sync never waits longer than its
\* budget, nor for a source that has not answered, and the stored scores are one whole file and
\* never become older, for any budget, limits, days and sizes.
THEOREM FeedsCorrect ==
    Feeds!FeedsAssumption =>
        (Feeds!Spec => []Feeds!FeedsInv /\ [][Feeds!NeverOlder]_(Feeds!vars))
<1> SUFFICES ASSUME Feeds!FeedsAssumption
             PROVE  Feeds!Spec => []Feeds!FeedsInv /\ [][Feeds!NeverOlder]_(Feeds!vars)
  OBVIOUS
<1>1. Feeds!Init => FeedsKnow
  BY FeedsInit
<1>2. FeedsKnow /\ [Feeds!Next]_(Feeds!vars) => FeedsKnow'
  BY FeedsStep
<1>3. FeedsKnow /\ [Feeds!Next]_(Feeds!vars) => [Feeds!NeverOlder]_(Feeds!vars)
  BY FeedsStep
<1>4. FeedsKnow => Feeds!FeedsInv
  <2> SUFFICES ASSUME FeedsKnow PROVE Feeds!FeedsInv
    OBVIOUS
  <2>1. Feeds!TypeOK
    BY PlaceOfRun DEF FeedsKnow, FeedsShapes, Feeds!TypeOK
  <2> QED BY <2>1 DEF FeedsKnow, FeedsShapes, Feeds!FeedsInv, Feeds!BudgetHolds,
                      Feeds!RefusedIsNotThrottled, Feeds!WholeFile
<1> QED BY <1>1, <1>2, <1>3, <1>4, PTL DEF Feeds!Spec

-----------------------------------------------------------------------------
(* Transports. *)

Places == {"secret", "room", "token", "session", "login", "envelope", "submit", "waiting"}
Sends == [at : Places, what : {"message", "test"}, part : 1..Parts, some : BOOLEAN]
SentRequests ==
    [id : Nat, txn : {"message", "test"} \X Nat, what : {"message", "test"}, part : 1..Parts,
     some : BOOLEAN]

Message == ~Transports!At("idle") /\ send.what = "message"
Testing == ~Transports!At("idle") /\ send.what = "test"
Unsent == item.status \in {"pending", "failed"}
Again == Message /\ item.status = "ambiguous"

TransportShapes ==
    /\ kind \in Kinds
    /\ item \in [status : {"pending", "failed", "ambiguous", "sent"}, attempts : Nat]
    /\ send \in {[at |-> "idle"]} \cup Sends
    /\ wire \subseteq SentRequests /\ IsFiniteSet(wire)
    /\ answer \in {"none", "ok", "no", "no-but-200", "auth", "unreadable"}
    /\ copies \in [1..Parts -> Nat] /\ whole \subseteq 1..Parts
    /\ logins \in Nat /\ resends \in 0..MaxResends /\ tests \in Nat /\ ids \in Nat
    /\ cause \in BOOLEAN

\* SentRequests have numbers of their own, and the last one is that of the part that waits.
RequestsKnown ==
    /\ \A r \in wire : r.id \in 1..ids /\ r.txn[1] = r.what
    /\ \A r \in wire : r.what = "message" => r.txn = <<"message", r.part>>
    /\ \A r, q \in wire : r.id = q.id => r = q
    /\ Transports!At("waiting") => \A r \in wire : r.id = ids =>
           r.what = send.what /\ r.part = send.part /\ r.some = send.some
    /\ answer # "none" => Transports!At("waiting") /\ \A r \in wire : r.id # ids
    /\ Testing => send.part = 1

\* The copies of a part there are or may still be.
OnTheWay(p) == {r \in wire : r.what = "message" /\ r.part = p}
Possible(p) == copies[p] + Cardinality(OnTheWay(p))
Ahead(p) == p > send.part \/ (p = send.part /\ ~Transports!At("waiting"))

CopiesAsked ==
    /\ \A p \in 1..Parts : Possible(p) <= 1 + resends
    /\ Message => \A p \in 1..Parts : Ahead(p) => Possible(p) <= resends
    /\ Unsent /\ ~Message => \A p \in 1..Parts : Possible(p) = 0
    /\ Unsent /\ Message => \A p \in 1..Parts : Ahead(p) => Possible(p) = 0
    /\ Unsent /\ Message /\ Transports!At("waiting") /\ send.part = 1 =>
           /\ answer = "none" => copies[1] = 0 /\ \A r \in OnTheWay(1) : r.id = ids
           /\ answer \in {"no", "no-but-200", "auth"} => Possible(1) = 0

TransactionsKnown ==
    kind = "matrix" =>
        \A p \in 1..Parts : copies[p] <= 1 /\ (copies[p] = 1 => <<"message", p>> \in seen)

PartsDelivered ==
    /\ Message => item.status # "sent" /\ \A p \in 1..Parts : p < send.part => p \in whole
    /\ Message /\ answer = "ok" /\ ~send.some => send.part \in whole
    /\ item.status = "sent" => whole = 1..Parts

\* What was tried for an operator: the attempts that have ended.
Tried == resends + tests - (IF Again \/ Testing THEN 1 ELSE 0)

AttemptsCounted ==
    /\ logins <= AuthLimit + Tried
    /\ item.attempts < MaxAttempts =>
           logins < AuthLimit + Tried /\ logins <= item.attempts + Tried
    /\ Message /\ Unsent => item.attempts < MaxAttempts
    /\ item.attempts <= MaxAttempts + resends - (IF Again THEN 1 ELSE 0)
    /\ (Again => resends > 0) /\ (Testing => tests > 0)

CauseKnown ==
    /\ item.status = "ambiguous" => cause
    /\ Message /\ (send.part > 1 \/ Transports!At("waiting")) => cause

TransportsKnow ==
    /\ TransportShapes /\ RequestsKnown /\ CopiesAsked /\ TransactionsKnown
    /\ PartsDelivered /\ AttemptsCounted /\ CauseKnown

\* How the copies that are possible change with what is on the wire.
LEMMA PossibleIs ==
    ASSUME TransportShapes, NEW p \in 1..Parts
    PROVE  /\ IsFiniteSet(OnTheWay(p)) /\ Cardinality(OnTheWay(p)) \in Nat
           /\ copies[p] \in Nat /\ Possible(p) \in Nat
           /\ Possible(p) = 0 => copies[p] = 0 /\ OnTheWay(p) = {}
           /\ copies[p] = 0 /\ OnTheWay(p) = {} => Possible(p) = 0
<1>1. IsFiniteSet(OnTheWay(p)) /\ Cardinality(OnTheWay(p)) \in Nat
  BY FS_Subset, FS_CardinalityType DEF TransportShapes, OnTheWay
<1>2. copies[p] \in Nat
  BY DEF TransportShapes
<1>3. Cardinality(OnTheWay(p)) = 0 <=> OnTheWay(p) = {}
  BY <1>1, FS_EmptySet
<1> QED BY <1>1, <1>2, <1>3 DEF Possible

LEMMA PossibleMore ==
    ASSUME TransportShapes, NEW r, r \notin wire, wire' = wire \cup {r}, copies' = copies,
           NEW p \in 1..Parts
    PROVE  Possible(p)' = Possible(p) + (IF r.what = "message" /\ r.part = p THEN 1 ELSE 0)
<1>1. IsFiniteSet(OnTheWay(p)) /\ Cardinality(OnTheWay(p)) \in Nat /\ copies[p] \in Nat
  BY PossibleIs
<1>2. CASE r.what = "message" /\ r.part = p
  <2>1. OnTheWay(p)' = OnTheWay(p) \cup {r} /\ r \notin OnTheWay(p)
    BY <1>2 DEF OnTheWay
  <2>2. Cardinality(OnTheWay(p)') = Cardinality(OnTheWay(p)) + 1
    BY <1>1, <2>1, FS_AddElement
  <2> QED BY <1>1, <1>2, <2>2 DEF Possible
<1>3. CASE ~(r.what = "message" /\ r.part = p)
  <2>1. OnTheWay(p)' = OnTheWay(p)
    BY <1>3 DEF OnTheWay
  <2> QED BY <1>1, <1>3, <2>1 DEF Possible
<1> QED BY <1>2, <1>3

LEMMA PossibleLess ==
    ASSUME TransportShapes, NEW r \in wire, wire' = wire \ {r},
           \/ copies' = copies
           \/ r.what = "message" /\ copies' = [copies EXCEPT ![r.part] = @ + 1],
           NEW p \in 1..Parts
    PROVE  Possible(p)' <= Possible(p) /\ Possible(p)' \in Nat
<1>1. IsFiniteSet(OnTheWay(p)) /\ Cardinality(OnTheWay(p)) \in Nat /\ copies[p] \in Nat
  BY PossibleIs
<1>2. copies'[p] = copies[p] \/ (r.what = "message" /\ r.part = p /\ copies'[p] = copies[p] + 1)
  BY DEF TransportShapes
<1>3. CASE r.what = "message" /\ r.part = p
  <2>1. OnTheWay(p)' = OnTheWay(p) \ {r} /\ r \in OnTheWay(p)
    BY <1>3 DEF OnTheWay
  <2>2. Cardinality(OnTheWay(p)') = Cardinality(OnTheWay(p)) - 1
        /\ IsFiniteSet(OnTheWay(p)')
    BY <1>1, <2>1, FS_RemoveElement
  <2>3. Cardinality(OnTheWay(p)') \in Nat
    BY <2>2, FS_CardinalityType
  <2> QED BY <1>1, <1>2, <2>2, <2>3 DEF Possible
<1>4. CASE ~(r.what = "message" /\ r.part = p)
  <2>1. OnTheWay(p)' = OnTheWay(p)
    BY <1>4 DEF OnTheWay
  <2> QED BY <1>1, <1>2, <1>4, <2>1 DEF Possible
<1> QED BY <1>3, <1>4

LEMMA PossibleSame ==
    ASSUME wire' = wire, copies' = copies
    PROVE  \A p \in 1..Parts : Possible(p)' = Possible(p) /\ OnTheWay(p)' = OnTheWay(p)
BY DEF Possible, OnTheWay

LEMMA TransportsStart == Transports!TransportsAssumption /\ Transports!Init => TransportsKnow
<1> SUFFICES ASSUME Transports!TransportsAssumption, Transports!Init PROVE TransportsKnow
  OBVIOUS
<1> USE DEF Transports!Init, Transports!Idle, Transports!At
<1>1. TransportShapes
  <2>1. IsFiniteSet(wire)
    BY FS_EmptySet
  <2>2. item \in [status : {"pending", "failed", "ambiguous", "sent"}, attempts : Nat]
    OBVIOUS
  <2>3. copies \in [1..Parts -> Nat] /\ resends \in 0..MaxResends
    BY DEF Transports!TransportsAssumption
  <2> QED BY <2>1, <2>2, <2>3 DEF TransportShapes
<1>2. RequestsKnown
  BY DEF RequestsKnown, Testing
<1>3. \A p \in 1..Parts : Possible(p) = 0
  <2>1. \A p \in 1..Parts : copies[p] = 0 /\ OnTheWay(p) = {}
    BY DEF OnTheWay
  <2> QED BY <1>1, <2>1, PossibleIs
<1>4. CopiesAsked
  BY <1>3 DEF CopiesAsked, Message
<1>5. TransactionsKnown
  BY DEF TransactionsKnown
<1>6. PartsDelivered
  BY DEF PartsDelivered, Message
<1>7. AttemptsCounted
  BY DEF AttemptsCounted, Message, Testing, Again, Unsent, Tried, Transports!TransportsAssumption
<1>8. CauseKnown
  BY DEF CauseKnown, Message
<1> QED BY <1>1, <1>2, <1>4, <1>5, <1>6, <1>7, <1>8 DEF TransportsKnow

\* The sender alone: what the provider has and what is on its way stay as they are.
Alone ==
    /\ wire' = wire /\ copies' = copies /\ whole' = whole /\ seen' = seen /\ ids' = ids
    /\ kind' = kind

\* A step before the request leaves the host.
LEMMA SenderMoves ==
    ASSUME TransportsKnow, Alone, send \in Sends, send.at # "waiting",
           send' \in Sends, send'.at # "waiting", send'.what = send.what, send'.part = send.part,
           item' = item, answer' = answer, logins' = logins, resends' = resends, tests' = tests,
           cause' = cause
    PROVE  TransportsKnow'
<1> USE DEF Alone
<1>1. /\ TransportShapes /\ RequestsKnown /\ CopiesAsked /\ TransactionsKnown
      /\ PartsDelivered /\ AttemptsCounted /\ CauseKnown
  BY DEF TransportsKnow
<1>2. /\ send.at # "idle" /\ send'.at # "idle" /\ Message' = Message /\ Testing' = Testing
      /\ Unsent' = Unsent /\ Again' = Again /\ Tried' = Tried
  BY DEF Sends, Places, Message, Testing, Unsent, Again, Tried, Transports!At
<1>3. TransportShapes'
  BY <1>1 DEF TransportShapes
<1>4. RequestsKnown'
  BY <1>1, <1>2 DEF RequestsKnown, Transports!At
<1>5. CopiesAsked'
  BY <1>1, <1>2, PossibleSame DEF CopiesAsked, Transports!At, Ahead
<1>6. TransactionsKnown'
  BY <1>1 DEF TransactionsKnown
<1>7. PartsDelivered'
  BY <1>1, <1>2 DEF PartsDelivered, RequestsKnown, Transports!At
<1>8. AttemptsCounted'
  BY <1>1, <1>2 DEF AttemptsCounted
<1>9. CauseKnown'
  BY <1>1, <1>2 DEF CauseKnown, Transports!At
<1> QED BY <1>3, <1>4, <1>5, <1>6, <1>7, <1>8, <1>9 DEF TransportsKnow

\* An attempt begins.
LEMMA AttemptBegins ==
    ASSUME TransportsKnow, Transports!TransportsAssumption,
           Transports!Start \/ Transports!Resend \/ Transports!SendTest
    PROVE  TransportsKnow'
<1> USE DEF Transports!Start, Transports!Resend, Transports!SendTest, Transports!Attempt,
            Transports!provider, Transports!asked, Transports!At, Transports!Due
<1>1. /\ TransportShapes /\ RequestsKnown /\ CopiesAsked /\ TransactionsKnown
      /\ PartsDelivered /\ AttemptsCounted /\ CauseKnown
  BY DEF TransportsKnow
<1>2. /\ Alone /\ item' = item /\ answer' = answer /\ logins' = logins /\ cause' = cause
      /\ ~Message /\ ~Testing /\ ~Again /\ send.at = "idle" /\ send'.at = "secret"
      /\ send'.part = 1 /\ send' \in Sends /\ 1 \in 1..Parts
      /\ \/ Message' /\ ~Testing' /\ Unsent /\ ~Again' /\ resends' = resends /\ tests' = tests
            /\ item.attempts < MaxAttempts
         \/ Message' /\ ~Testing' /\ Again' /\ ~Unsent /\ item.status = "ambiguous"
            /\ resends' = resends + 1 /\ resends < MaxResends /\ tests' = tests
         \/ ~Message' /\ Testing' /\ ~Again' /\ resends' = resends /\ tests' = tests + 1
  <2>1. 1 \in 1..Parts
    BY DEF Transports!TransportsAssumption
  <2>2. \E what \in {"message", "test"} :
            send' = [at |-> "secret", what |-> what, part |-> 1, some |-> FALSE]
    OBVIOUS
  <2>3. send' \in Sends
    BY <2>1, <2>2 DEF Sends, Places
  <2> QED BY <2>1, <2>3 DEF Alone, Message, Testing, Again, Unsent
<1> USE DEF Alone
<1>3. resends \in Nat /\ resends' \in Nat /\ tests \in Nat /\ tests' \in Nat /\ logins \in Nat
      /\ MaxResends \in Nat /\ item.attempts \in Nat /\ MaxAttempts \in Nat /\ AuthLimit \in Nat
      /\ resends' \in 0..MaxResends
  BY <1>1, <1>2 DEF TransportShapes, Transports!TransportsAssumption
<1>4. TransportShapes'
  BY <1>1, <1>2, <1>3 DEF TransportShapes
<1>5. RequestsKnown'
  BY <1>1, <1>2 DEF RequestsKnown
<1>6. CopiesAsked'
  <2>1. \A p \in 1..Parts : Possible(p) \in Nat /\ Possible(p)' = Possible(p)
    BY <1>1, <1>2, PossibleIs, PossibleSame
  <2>2. \A p \in 1..Parts : Possible(p) <= 1 + resends /\ (Unsent => Possible(p) = 0)
    BY <1>1, <1>2 DEF CopiesAsked
  <2>3. Unsent' = Unsent
    BY <1>2 DEF Unsent
  <2>4. \A p \in 1..Parts : Possible(p)' <= 1 + resends' /\ (Unsent' => Possible(p)' = 0)
    BY <1>2, <1>3, <2>1, <2>2, <2>3
  <2>5. Message' => \A p \in 1..Parts : Possible(p)' <= resends'
    BY <1>2, <1>3, <2>1, <2>2
  <2> QED BY <1>2, <2>4, <2>5 DEF CopiesAsked, Ahead
<1>7. TransactionsKnown'
  BY <1>1, <1>2 DEF TransactionsKnown
<1>8. PartsDelivered'
  BY <1>1, <1>2 DEF PartsDelivered, RequestsKnown, Unsent
<1>9. AttemptsCounted'
  <2>1. Tried' = Tried /\ Tried \in Int
    <3>1. Tried = resends + tests
      BY <1>2, <1>3 DEF Tried
    <3>2. CASE ~Again' /\ ~Testing' /\ resends' = resends /\ tests' = tests
      <4>1. Tried' = resends' + tests'
        BY <1>3, <3>2 DEF Tried
      <4> QED BY <1>3, <3>1, <3>2, <4>1
    <3>3. CASE Again' /\ ~Testing' /\ resends' = resends + 1 /\ tests' = tests
      <4>1. Tried' = resends' + tests' - 1
        BY <3>3 DEF Tried
      <4> QED BY <1>3, <3>1, <3>3, <4>1
    <3>4. CASE ~Again' /\ Testing' /\ resends' = resends /\ tests' = tests + 1
      <4>1. Tried' = resends' + tests' - 1
        BY <3>4 DEF Tried
      <4> QED BY <1>3, <3>1, <3>4, <4>1
    <3> QED BY <1>2, <3>2, <3>3, <3>4
  <2>2. Unsent' = Unsent
    BY <1>2 DEF Unsent
  <2> QED BY <1>1, <1>2, <1>3, <2>1, <2>2 DEF AttemptsCounted
<1>10. CauseKnown'
  BY <1>1, <1>2 DEF CauseKnown
<1> QED BY <1>4, <1>5, <1>6, <1>7, <1>8, <1>9, <1>10 DEF TransportsKnow

\* The attempt that runs is not counted yet.
LEMMA TriedIs ==
    ASSUME TransportShapes
    PROVE  /\ Again \/ Testing => Tried = resends + tests - 1
           /\ ~Again /\ ~Testing => Tried = resends + tests
           /\ Tried \in Int /\ resends \in Nat /\ tests \in Nat
<1>1. resends \in Nat /\ tests \in Nat
  BY DEF TransportShapes
<1>2. CASE Again \/ Testing
  BY <1>1, <1>2 DEF Tried
<1>3. CASE ~Again /\ ~Testing
  BY <1>1, <1>3 DEF Tried
<1> QED BY <1>1, <1>2, <1>3

\* An attempt ends: what it leaves of the row, given that a part that may be somewhere
\* leaves the row in doubt.
LEMMA AttemptEnds ==
    ASSUME TransportsKnow, Transports!TransportsAssumption, Alone, send.at # "idle",
           send' = [at |-> "idle"], answer' = "none", resends' = resends, tests' = tests,
           item' \in [status : {"pending", "failed", "ambiguous", "sent"}, attempts : Nat],
           logins' \in Nat, cause' \in BOOLEAN, cause => cause',
           Testing => item' = item /\ logins' <= logins + 1,
           Message /\ item'.status \in {"pending", "failed"} => \A p \in 1..Parts : Possible(p) = 0,
           Message /\ item'.status = "ambiguous" => cause',
           Message /\ item'.status = "sent" => whole = 1..Parts,
           Message /\ Unsent =>
               /\ logins' <= AuthLimit + Tried /\ item'.attempts <= MaxAttempts
               /\ item'.attempts < MaxAttempts =>
                      logins' < AuthLimit + Tried /\ logins' <= item'.attempts + Tried,
           Again =>
               /\ logins' <= logins + 1
               /\ item'.attempts <= MaxAttempts + resends
               /\ item'.attempts < MaxAttempts =>
                      item.attempts < MaxAttempts /\ item.attempts <= item'.attempts
    PROVE  TransportsKnow'
<1> USE DEF Alone
<1>1. /\ TransportShapes /\ RequestsKnown /\ CopiesAsked /\ TransactionsKnown
      /\ PartsDelivered /\ AttemptsCounted /\ CauseKnown
  BY DEF TransportsKnow
<1>2. ~Message' /\ ~Testing' /\ ~Again'
  BY DEF Message, Testing, Again, Transports!At
<1>3. \/ Testing /\ ~Message /\ ~Again
      \/ Message /\ Unsent /\ ~Testing /\ ~Again
      \/ Message /\ Again /\ ~Unsent /\ ~Testing
  <2>1. send.what \in {"message", "test"}
    BY <1>1 DEF TransportShapes, Sends
  <2>2. Testing \/ Message
    BY <2>1 DEF Testing, Message, Transports!At
  <2>3. ~(Testing /\ Message)
    BY DEF Testing, Message
  <2>4. item.status \in {"pending", "failed", "ambiguous", "sent"}
    BY <1>1 DEF TransportShapes
  <2>5. Message => item.status # "sent"
    BY <1>1 DEF PartsDelivered
  <2> QED BY <2>2, <2>3, <2>4, <2>5 DEF Again, Unsent
<1>4. TransportShapes'
  BY <1>1 DEF TransportShapes
<1>5. RequestsKnown'
  BY <1>1, <1>2 DEF RequestsKnown, Transports!At
<1>6. CopiesAsked'
  <2>1. \A p \in 1..Parts : Possible(p)' = Possible(p)
    BY PossibleSame
  <2>2. \A p \in 1..Parts : Possible(p)' <= 1 + resends'
    BY <1>1, <2>1 DEF CopiesAsked
  <2>3. Unsent' => \A p \in 1..Parts : Possible(p)' = 0
    BY <1>1, <1>3, <2>1 DEF CopiesAsked, Unsent
  <2> QED BY <1>2, <2>2, <2>3 DEF CopiesAsked
<1>7. TransactionsKnown'
  BY <1>1 DEF TransactionsKnown
<1>8. PartsDelivered'
  BY <1>1, <1>2, <1>3 DEF PartsDelivered
<1>9. AttemptsCounted'
  <2>1. /\ Tried' = resends + tests /\ Tried \in Int /\ resends \in Nat /\ tests \in Nat
        /\ Again \/ Testing => Tried' = Tried + 1
        /\ ~Again /\ ~Testing => Tried' = Tried
    <3>1. /\ Again \/ Testing => Tried = resends + tests - 1
          /\ ~Again /\ ~Testing => Tried = resends + tests
          /\ Tried \in Int /\ resends \in Nat /\ tests \in Nat
      BY <1>1, TriedIs
    <3>2. Tried' = resends' + tests' - 0
      BY <1>2 DEF Tried
    <3>3. Tried' = resends + tests
      BY <3>1, <3>2
    <3>4. Tried = resends + tests - 1 => Tried' = Tried + 1
      BY <3>1, <3>3
    <3> QED BY <3>1, <3>3, <3>4
  <2>2. logins \in Nat /\ item.attempts \in Nat /\ item'.attempts \in Nat
        /\ AuthLimit \in Nat /\ MaxAttempts \in Nat
    BY <1>1 DEF TransportShapes, Transports!TransportsAssumption
  <2>3. /\ logins <= AuthLimit + Tried
        /\ item.attempts < MaxAttempts =>
               logins < AuthLimit + Tried /\ logins <= item.attempts + Tried
        /\ item.attempts <= MaxAttempts + resends
    <3>1. item.attempts <= MaxAttempts + resends - (IF Again THEN 1 ELSE 0)
      BY <1>1 DEF AttemptsCounted
    <3>2. item.attempts <= MaxAttempts + resends
      BY <2>1, <2>2, <3>1
    <3> QED BY <1>1, <3>2 DEF AttemptsCounted
  <2>4. /\ logins' <= AuthLimit + Tried'
        /\ item'.attempts < MaxAttempts =>
               logins' < AuthLimit + Tried' /\ logins' <= item'.attempts + Tried'
        /\ item'.attempts <= MaxAttempts + resends'
    <3>1. CASE Testing /\ ~Message /\ ~Again
      <4>1. Tried' = Tried + 1 /\ item' = item /\ logins' <= logins + 1
        BY <2>1, <3>1
      <4> QED BY <2>1, <2>2, <2>3, <4>1
    <3>2. CASE Message /\ Unsent /\ ~Testing /\ ~Again
      <4>1. /\ Tried' = Tried /\ logins' <= AuthLimit + Tried /\ item'.attempts <= MaxAttempts
            /\ item'.attempts < MaxAttempts =>
                   logins' < AuthLimit + Tried /\ logins' <= item'.attempts + Tried
        BY <2>1, <3>2
      <4> QED BY <2>1, <2>2, <4>1
    <3>3. CASE Message /\ Again /\ ~Unsent /\ ~Testing
      <4>1. /\ Tried' = Tried + 1 /\ logins' <= logins + 1 /\ Tried \in Int /\ resends' = resends
            /\ item'.attempts <= MaxAttempts + resends
        BY <2>1, <3>3
      <4>2. logins' \in Nat /\ logins <= AuthLimit + Tried
        BY <2>3
      <4>3. logins' <= AuthLimit + Tried'
        BY <2>2, <4>1, <4>2
      <4>4. ASSUME item'.attempts < MaxAttempts
            PROVE  logins' < AuthLimit + Tried' /\ logins' <= item'.attempts + Tried'
        <5>1. item.attempts < MaxAttempts /\ item.attempts <= item'.attempts
          BY <3>3, <4>4
        <5>2. logins < AuthLimit + Tried /\ logins <= item.attempts + Tried
          BY <2>3, <5>1
        <5> QED BY <2>2, <4>1, <4>2, <5>1, <5>2
      <4> QED BY <4>1, <4>3, <4>4
    <3> QED BY <1>3, <3>1, <3>2, <3>3
  <2>5. item'.attempts <= MaxAttempts' + resends' - 0
    BY <2>1, <2>2, <2>4
  <2> QED BY <1>2, <2>4, <2>5 DEF AttemptsCounted
<1>10. CauseKnown'
  BY <1>1, <1>2, <1>3 DEF CauseKnown
<1> QED BY <1>4, <1>5, <1>6, <1>7, <1>8, <1>9, <1>10 DEF TransportsKnow

\* A failure of an attempt.
LEMMA AttemptFails ==
    ASSUME TransportsKnow, Transports!TransportsAssumption, Alone, send.at # "idle",
           NEW ambiguous \in BOOLEAN, NEW auth \in BOOLEAN, Transports!Fail(ambiguous, auth),
           resends' = resends, tests' = tests, cause' = cause,
           Message /\ ambiguous => cause,
           Message /\ ~ambiguous /\ Unsent /\ send.part = 1 => \A p \in 1..Parts : Possible(p) = 0
    PROVE  TransportsKnow'
<1>1. TransportShapes /\ PartsDelivered /\ AttemptsCounted /\ CauseKnown
  BY DEF TransportsKnow
<1>2. send \in Sends /\ send.part \in 1..Parts /\ Parts \in Nat
  BY <1>1 DEF TransportShapes, Sends, Transports!TransportsAssumption
<1>3. /\ send' = [at |-> "idle"] /\ answer' = "none"
      /\ logins' = logins + (IF auth THEN 1 ELSE 0)
  BY DEF Transports!Fail, Transports!Idle
<1>4. /\ logins \in Nat /\ item.attempts \in Nat /\ AuthLimit \in 1..MaxAttempts /\ MaxAttempts \in Nat
      /\ Tried \in Int /\ resends \in Nat
  BY <1>1, TriedIs DEF TransportShapes, Transports!TransportsAssumption
<1>5. logins' \in Nat /\ logins' <= logins + 1
  BY <1>3, <1>4
<1>6. ASSUME Testing PROVE item' = item
  BY <1>6 DEF Testing, Transports!Fail
<1>7. ASSUME Message
      PROVE  item' = [status |-> IF Transports!StaysUnknown(ambiguous) THEN "ambiguous" ELSE "failed",
                      attempts |-> Transports!CountsAs(auth)]
  BY <1>7 DEF Message, Transports!Fail
<1>8. Transports!CountsAs(auth) \in Nat /\ Transports!CountsAs(auth) <= item.attempts + 1 + MaxAttempts
  BY <1>4 DEF Transports!CountsAs
<1>9. Message \/ Testing
  BY <1>2 DEF Message, Testing, Transports!At, Sends
<1>10. item' \in [status : {"pending", "failed", "ambiguous", "sent"}, attempts : Nat]
  <2>1. CASE Message
    BY <1>7, <1>8, <2>1
  <2>2. CASE Testing
    BY <1>1, <1>6, <2>2 DEF TransportShapes
  <2> QED BY <1>9, <2>1, <2>2
<1>11. Message /\ item'.status \in {"pending", "failed"} => \A p \in 1..Parts : Possible(p) = 0
  <2> SUFFICES ASSUME Message, item'.status \in {"pending", "failed"}
               PROVE  \A p \in 1..Parts : Possible(p) = 0
    OBVIOUS
  <2>1. ~Transports!StaysUnknown(ambiguous)
    BY <1>7
  <2>2. ~ambiguous /\ ~(send.part > 1) /\ item.status # "ambiguous"
    BY <2>1 DEF Transports!StaysUnknown
  <2>3. send.part = 1
    BY <1>2, <2>2
  <2>4. Unsent
    BY <1>1, <2>2 DEF PartsDelivered, TransportShapes, Unsent
  <2> QED BY <2>2, <2>3, <2>4
<1>12. Message /\ item'.status = "ambiguous" => cause'
  <2> SUFFICES ASSUME Message, item'.status = "ambiguous" PROVE cause
    OBVIOUS
  <2>1. Transports!StaysUnknown(ambiguous)
    BY <1>7
  <2> QED BY <1>1, <2>1 DEF Transports!StaysUnknown, CauseKnown
<1>13. Message => item'.status # "sent"
  BY <1>7
<1>14. ASSUME Message, Unsent
       PROVE  /\ logins' <= AuthLimit + Tried /\ item'.attempts <= MaxAttempts
              /\ item'.attempts < MaxAttempts =>
                     logins' < AuthLimit + Tried /\ logins' <= item'.attempts + Tried
  <2>1. /\ item.attempts < MaxAttempts /\ logins < AuthLimit + Tried
        /\ logins <= item.attempts + Tried
    BY <1>1, <1>14 DEF AttemptsCounted
  <2>2. item'.attempts = Transports!CountsAs(auth)
    BY <1>7, <1>14
  <2>3. CASE auth /\ item.attempts + 1 >= AuthLimit
    <3>1. item'.attempts = MaxAttempts
      BY <2>2, <2>3 DEF Transports!CountsAs
    <3> QED BY <1>4, <1>5, <2>1, <3>1
  <2>4. CASE auth /\ ~(item.attempts + 1 >= AuthLimit)
    <3>1. item'.attempts = item.attempts + 1
      BY <2>2, <2>4 DEF Transports!CountsAs
    <3> QED BY <1>4, <1>5, <2>1, <2>4, <3>1
  <2>5. CASE ~auth
    <3>1. item'.attempts = item.attempts + 1 /\ logins' = logins
      BY <1>3, <1>4, <2>2, <2>5 DEF Transports!CountsAs
    <3> QED BY <1>4, <2>1, <3>1
  <2> QED BY <2>3, <2>4, <2>5
<1>15. ASSUME Again
       PROVE  /\ item'.attempts <= MaxAttempts + resends
              /\ item'.attempts < MaxAttempts =>
                     item.attempts < MaxAttempts /\ item.attempts <= item'.attempts
  <2>1. item.attempts <= MaxAttempts + resends - 1
    BY <1>1, <1>15 DEF AttemptsCounted
  <2>2. item'.attempts = Transports!CountsAs(auth)
    BY <1>7, <1>15 DEF Again
  <2>3. item'.attempts = MaxAttempts \/ item'.attempts = item.attempts + 1
    BY <2>2 DEF Transports!CountsAs
  <2> QED BY <1>4, <2>1, <2>3
<1>16. cause \in BOOLEAN
  BY <1>1 DEF TransportShapes
<1> QED BY <1>3, <1>5, <1>6, <1>10, <1>11, <1>12, <1>13, <1>14, <1>15, <1>16, AttemptEnds

\* A part is nowhere before its request leaves the host.
LEMMA NothingAhead ==
    ASSUME TransportsKnow, Transports!TransportsAssumption, Message, Unsent,
           send.part = 1, send.at # "waiting"
    PROVE  \A p \in 1..Parts : Possible(p) = 0
<1>1. \A p \in 1..Parts : Ahead(p)
  <2> SUFFICES ASSUME NEW p \in 1..Parts PROVE Ahead(p)
    OBVIOUS
  <2>1. p > 1 \/ p = 1
    BY DEF Transports!TransportsAssumption
  <2> QED BY <2>1 DEF Ahead, Transports!At
<1> QED BY <1>1 DEF TransportsKnow, CopiesAsked

\* Before the request leaves the host a failure is one that sent nothing.
LEMMA EarlyFailure ==
    ASSUME TransportsKnow, Transports!TransportsAssumption, Alone,
           send.at \notin {"idle", "waiting"},
           Transports!NotSent \/ Transports!BadCredentials,
           resends' = resends, tests' = tests, cause' = cause
    PROVE  TransportsKnow'
<1>1. PICK auth \in BOOLEAN : Transports!Fail(FALSE, auth)
  BY DEF Transports!NotSent, Transports!BadCredentials
<1>2. Message /\ Unsent /\ send.part = 1 => \A p \in 1..Parts : Possible(p) = 0
  BY NothingAhead
<1> QED BY <1>1, <1>2, AttemptFails

\* A step of the sender up to the request: it goes on, or sent nothing.
LEMMA EarlySteps ==
    ASSUME TransportsKnow, Transports!TransportsAssumption,
           \/ Transports!Secret \/ Transports!Room \/ Transports!Token \/ Transports!Session
           \/ Transports!Login \/ Transports!Envelope
    PROVE  TransportsKnow'
<1>1. /\ Alone /\ resends' = resends /\ tests' = tests /\ cause' = cause
      /\ send.at \in Places \ {"waiting"}
  BY DEF Transports!Secret, Transports!Room, Transports!Token, Transports!Session,
         Transports!Login, Transports!Envelope, Transports!provider, Transports!asked,
         Transports!At, Alone, Places
<1>2. send \in Sends
  BY <1>1 DEF TransportsKnow, TransportShapes, Places
<1>3. \/ Transports!NotSent \/ Transports!BadCredentials
      \/ /\ item' = item /\ answer' = answer /\ logins' = logins
         /\ \E place \in Places \ {"waiting"}, some \in BOOLEAN :
               send' = [send EXCEPT !.at = place, !.some = some]
  <2>1. \A place : Transports!Goes(place) => send' = [send EXCEPT !.at = place, !.some = send.some]
    BY <1>2 DEF Transports!Goes, Sends
  <2>2. send.some \in BOOLEAN
    BY <1>2 DEF Sends
  <2>3. Transports!Opening \in Places \ {"waiting"}
    BY DEF Transports!Opening, Places
  <2>4. CASE Transports!Secret
    BY <2>1, <2>2, <2>3, <2>4 DEF Transports!Secret
  <2>5. CASE Transports!Room \/ Transports!Token
    BY <2>1, <2>2, <2>5 DEF Transports!Room, Transports!Token, Places
  <2>6. CASE Transports!Session \/ Transports!Login
    BY <2>1, <2>2, <2>6 DEF Transports!Session, Transports!Login, Places
  <2>7. CASE Transports!Envelope
    BY <2>7 DEF Transports!Envelope, Places
  <2> QED BY <2>4, <2>5, <2>6, <2>7
<1>4. CASE Transports!NotSent \/ Transports!BadCredentials
  BY <1>1, <1>4, EarlyFailure DEF Places
<1>5. CASE /\ item' = item /\ answer' = answer /\ logins' = logins
           /\ \E place \in Places \ {"waiting"}, some \in BOOLEAN :
                 send' = [send EXCEPT !.at = place, !.some = some]
  <2>1. PICK place \in Places \ {"waiting"}, some \in BOOLEAN :
            send' = [send EXCEPT !.at = place, !.some = some]
    BY <1>5
  <2>2. send' \in Sends /\ send'.at # "waiting" /\ send'.what = send.what /\ send'.part = send.part
    BY <1>2, <2>1 DEF Sends
  <2> QED BY <1>1, <1>2, <1>5, <2>2, SenderMoves
<1> QED BY <1>3, <1>4, <1>5

\* The run dies, or its time is up before the first part.
LEMMA AttemptIsCutOff ==
    ASSUME TransportsKnow, Transports!TransportsAssumption,
           Transports!Crash \/ (Transports!OutOfTime /\ send.part = 1)
    PROVE  TransportsKnow'
<1>1. TransportShapes /\ PartsDelivered /\ AttemptsCounted /\ CauseKnown /\ RequestsKnown
  BY DEF TransportsKnow
<1>2. /\ Alone /\ resends' = resends /\ tests' = tests /\ logins' = logins /\ send.at # "idle"
      /\ send' = [at |-> "idle"] /\ answer' = "none"
  BY <1>1 DEF Transports!Crash, Transports!OutOfTime, Transports!provider, Transports!asked,
         Transports!At, Transports!Idle, Alone, RequestsKnown
<1>3. \/ item' = item /\ cause' = cause /\ (Message => send.part = 1 /\ send.at # "waiting")
      \/ Testing /\ item' = item /\ cause' = cause
      \/ Message /\ item' = [item EXCEPT !.status = "ambiguous"] /\ cause' = TRUE
  <2>1. send.what \in {"message", "test"}
    BY <1>1, <1>2 DEF TransportShapes, Sends
  <2>2. cause \in BOOLEAN
    BY <1>1 DEF TransportShapes
  <2>3. CASE Transports!Crash /\ send.what = "test"
    <3>1. item' = item /\ (cause' <=> cause) /\ cause' \in BOOLEAN
      BY <2>2, <2>3 DEF Transports!Crash
    <3> QED BY <1>2, <2>2, <2>3, <3>1 DEF Testing, Transports!At
  <2>4. CASE Transports!Crash /\ send.what = "message"
    BY <1>2, <2>4 DEF Transports!Crash, Transports!At, Message
  <2>5. CASE Transports!OutOfTime /\ send.part = 1
    BY <2>5 DEF Transports!OutOfTime, Transports!At
  <2> QED BY <2>1, <2>3, <2>4, <2>5
<1>4. /\ logins \in Nat /\ item \in [status : {"pending", "failed", "ambiguous", "sent"}, attempts : Nat]
      /\ cause \in BOOLEAN /\ Tried \in Int /\ resends \in Nat
      /\ item.attempts \in Nat /\ MaxAttempts \in Nat /\ AuthLimit \in Nat
  BY <1>1, TriedIs DEF TransportShapes, Transports!TransportsAssumption
<1>5. /\ item'.attempts = item.attempts
      /\ item' \in [status : {"pending", "failed", "ambiguous", "sent"}, attempts : Nat]
  BY <1>3, <1>4
<1>6. cause' \in BOOLEAN /\ (cause => cause')
  BY <1>3, <1>4
<1>7. Testing => item' = item /\ logins' <= logins + 1
  <2>1. Testing => item' = item
    BY <1>3 DEF Testing, Message
  <2> QED BY <1>2, <1>4, <2>1
<1>8. Message /\ item'.status \in {"pending", "failed"} => \A p \in 1..Parts : Possible(p) = 0
  <2> SUFFICES ASSUME Message, item'.status \in {"pending", "failed"}
               PROVE  \A p \in 1..Parts : Possible(p) = 0
    OBVIOUS
  <2>1. item' = item /\ send.part = 1 /\ send.at # "waiting"
    BY <1>3, <1>4 DEF Message, Testing
  <2> QED BY <2>1, NothingAhead DEF Unsent
<1>9. Message /\ item'.status = "ambiguous" => cause'
  BY <1>1, <1>3 DEF CauseKnown
<1>10. Message => item'.status # "sent"
  BY <1>1, <1>3, <1>4 DEF PartsDelivered
<1>11. Message /\ Unsent =>
           /\ logins' <= AuthLimit + Tried /\ item'.attempts <= MaxAttempts
           /\ item'.attempts < MaxAttempts =>
                  logins' < AuthLimit + Tried /\ logins' <= item'.attempts + Tried
  <2> SUFFICES ASSUME Message, Unsent
               PROVE  /\ logins <= AuthLimit + Tried /\ item.attempts <= MaxAttempts
                      /\ item.attempts < MaxAttempts =>
                             logins < AuthLimit + Tried /\ logins <= item.attempts + Tried
    BY <1>2, <1>5
  <2>1. item.attempts < MaxAttempts
    BY <1>1 DEF AttemptsCounted
  <2>2. item.attempts <= MaxAttempts
    BY <1>4, <2>1
  <2> QED BY <1>1, <2>2 DEF AttemptsCounted
<1>12. Again =>
           /\ logins' <= logins + 1
           /\ item'.attempts <= MaxAttempts + resends
           /\ item'.attempts < MaxAttempts =>
                  item.attempts < MaxAttempts /\ item.attempts <= item'.attempts
  <2> SUFFICES ASSUME Again
               PROVE  logins <= logins + 1 /\ item.attempts <= MaxAttempts + resends
                      /\ item.attempts <= item.attempts
    BY <1>2, <1>5
  <2>1. item.attempts <= MaxAttempts + resends - 1
    BY <1>1 DEF AttemptsCounted
  <2>2. logins <= logins + 1 /\ item.attempts <= MaxAttempts + resends /\ item.attempts <= item.attempts
    BY <1>4, <2>1
  <2> QED BY <2>2
<1>13. logins' \in Nat
  BY <1>2, <1>4
<1> QED BY <1>2, <1>5, <1>6, <1>7, <1>8, <1>9, <1>10, <1>11, <1>12, <1>13, AttemptEnds

\* The request leaves the host.
LEMMA RequestLeaves ==
    ASSUME TransportsKnow, Transports!TransportsAssumption, Transports!Submit, ids' = ids + 1
    PROVE  TransportsKnow'
<1>1. /\ TransportShapes /\ RequestsKnown /\ CopiesAsked /\ TransactionsKnown
      /\ PartsDelivered /\ AttemptsCounted /\ CauseKnown
  BY DEF TransportsKnow
<1>2. ids \in Nat /\ tests \in Nat /\ cause \in BOOLEAN /\ resends \in Nat /\ ids # ids + 1
  BY <1>1 DEF TransportShapes
<1> DEFINE r == [id |-> ids + 1, txn |-> Transports!Transaction, what |-> send.what,
                 part |-> send.part, some |-> send.some]
<1>3. /\ send.at = "submit" /\ answer' = "none" /\ wire' = wire \cup {r}
      /\ send' = [send EXCEPT !.at = "waiting"] /\ cause' = (cause \/ send.what = "message")
      /\ item' = item /\ logins' = logins /\ kind' = kind /\ seen' = seen /\ copies' = copies
      /\ whole' = whole /\ resends' = resends /\ tests' = tests
  BY <1>2 DEF Transports!Submit, Transports!At, Transports!provider, Transports!asked
<1>4. send \in Sends /\ send' \in Sends /\ send'.at = "waiting"
      /\ send'.what = send.what /\ send'.part = send.part /\ send'.some = send.some
  BY <1>1, <1>3 DEF TransportShapes, Sends, Places
<1>5. /\ Message' = Message /\ Testing' = Testing /\ Unsent' = Unsent /\ Again' = Again
      /\ Tried' = Tried
  BY <1>3, <1>4 DEF Message, Testing, Unsent, Again, Tried, Transports!At
<1>6. /\ r \in SentRequests /\ r.id = ids + 1 /\ r.txn[1] = r.what /\ r.what = send.what
      /\ r.part = send.part /\ r.some = send.some
      /\ r.what = "message" => r.txn = <<"message", r.part>>
  <2>1. send.part \in 1..Parts /\ send.part \in Nat /\ send.what \in {"message", "test"}
        /\ send.some \in BOOLEAN
    BY <1>4 DEF Sends, Transports!TransportsAssumption
  <2>2. /\ Transports!Transaction \in {"message", "test"} \X Nat
        /\ Transports!Transaction[1] = send.what
        /\ send.what = "message" => Transports!Transaction = <<"message", send.part>>
    BY <1>2, <2>1 DEF Transports!Transaction
  <2> QED BY <1>2, <2>1, <2>2 DEF SentRequests
<1> HIDE DEF r
<1>7. r \notin wire
  BY <1>1, <1>2, <1>6 DEF RequestsKnown
<1>8. TransportShapes'
  <2>1. wire' \subseteq SentRequests /\ IsFiniteSet(wire')
    BY <1>1, <1>3, <1>6, FS_AddElement DEF TransportShapes
  <2>2. cause' \in BOOLEAN /\ ids' \in Nat
    BY <1>2, <1>3
  <2> QED BY <1>1, <1>3, <1>4, <2>1, <2>2 DEF TransportShapes
<1>9. RequestsKnown'
  <2>1. \A q \in wire : q.id \in 1..ids /\ q.id \in 1..ids' /\ q.id # r.id /\ q.id # ids'
    BY <1>1, <1>2, <1>6 DEF RequestsKnown
  <2>2. r.id \in 1..ids' /\ r.id = ids'
    BY <1>2, <1>6
  <2> QED BY <1>1, <1>3, <1>4, <1>5, <1>6, <2>1, <2>2 DEF RequestsKnown, Transports!At
<1>10. CopiesAsked'
  <2>1. \A p \in 1..Parts : /\ Possible(p) \in Nat /\ copies[p] \in Nat
                            /\ Possible(p) = 0 => copies[p] = 0 /\ OnTheWay(p) = {}
    BY <1>1, PossibleIs
  <2>2. \A p \in 1..Parts :
            /\ Message /\ p = send.part => Possible(p)' = Possible(p) + 1
            /\ ~Message \/ p # send.part => Possible(p)' = Possible(p)
    <3> SUFFICES ASSUME NEW p \in 1..Parts
                 PROVE  /\ Message /\ p = send.part => Possible(p)' = Possible(p) + 1
                        /\ ~Message \/ p # send.part => Possible(p)' = Possible(p)
      OBVIOUS
    <3>1. Possible(p)' = Possible(p) + (IF r.what = "message" /\ r.part = p THEN 1 ELSE 0)
      BY <1>1, <1>3, <1>7, PossibleMore
    <3>2. (r.what = "message" /\ r.part = p) <=> (Message /\ p = send.part)
      BY <1>3, <1>6 DEF Message, Transports!At
    <3> QED BY <2>1, <3>1, <3>2
  <2>3. Message => Ahead(send.part)
    BY <1>3 DEF Ahead, Transports!At
  <2>4. \A p \in 1..Parts : Ahead(p)' => Ahead(p) /\ p # send.part
    <3> SUFFICES ASSUME NEW p \in 1..Parts, Ahead(p)' PROVE Ahead(p) /\ p # send.part
      OBVIOUS
    <3>1. p > send.part
      BY <1>4 DEF Ahead, Transports!At
    <3>2. send.part \in Nat /\ p \in Nat
      BY <1>4 DEF Sends
    <3> QED BY <3>1, <3>2 DEF Ahead
  <2>5. send.part \in 1..Parts
    BY <1>4 DEF Sends
  <2>6. \A p \in 1..Parts : Possible(p)' <= 1 + resends'
    <3> SUFFICES ASSUME NEW p \in 1..Parts PROVE Possible(p)' <= 1 + resends
      BY <1>3
    <3>1. CASE Message /\ p = send.part
      <4>1. Possible(p) <= resends
        BY <1>1, <2>3, <3>1 DEF CopiesAsked
      <4> QED BY <1>2, <2>1, <2>2, <3>1, <4>1
    <3>2. CASE ~Message \/ p # send.part
      BY <1>1, <2>2, <3>2 DEF CopiesAsked
    <3> QED BY <3>1, <3>2
  <2>7. Message' => \A p \in 1..Parts : Ahead(p)' => Possible(p)' <= resends'
    BY <1>1, <1>3, <1>5, <2>2, <2>4 DEF CopiesAsked
  <2>8. Unsent' /\ ~Message' => \A p \in 1..Parts : Possible(p)' = 0
    BY <1>1, <1>5, <2>2 DEF CopiesAsked
  <2>9. Unsent' /\ Message' => \A p \in 1..Parts : Ahead(p)' => Possible(p)' = 0
    BY <1>1, <1>5, <2>2, <2>4 DEF CopiesAsked
  <2>10. Unsent' /\ Message' /\ send'.part = 1 =>
             copies'[1] = 0 /\ \A q \in OnTheWay(1)' : q.id = ids'
    <3> SUFFICES ASSUME Unsent, Message, send.part = 1
                 PROVE  copies'[1] = 0 /\ \A q \in OnTheWay(1)' : q.id = ids'
      BY <1>4, <1>5
    <3>1. Possible(1) = 0 /\ 1 \in 1..Parts
      BY <1>1, <2>3, <2>5 DEF CopiesAsked
    <3>2. copies[1] = 0 /\ OnTheWay(1) = {}
      BY <2>1, <3>1
    <3>3. OnTheWay(1)' \subseteq OnTheWay(1) \cup {r}
      BY <1>3 DEF OnTheWay
    <3> QED BY <1>3, <1>6, <3>2, <3>3
  <2> QED BY <1>3, <2>6, <2>7, <2>8, <2>9, <2>10 DEF CopiesAsked
<1>11. TransactionsKnown'
  BY <1>1, <1>3 DEF TransactionsKnown
<1>12. PartsDelivered'
  BY <1>1, <1>3, <1>4, <1>5 DEF PartsDelivered
<1>13. AttemptsCounted'
  BY <1>1, <1>3, <1>5 DEF AttemptsCounted
<1>14. CauseKnown'
  <2>1. Message => cause'
    BY <1>3 DEF Message
  <2>2. cause => cause'
    BY <1>3
  <2> QED BY <1>1, <1>3, <1>5, <2>1, <2>2 DEF CauseKnown
<1> QED BY <1>8, <1>9, <1>10, <1>11, <1>12, <1>13, <1>14 DEF TransportsKnow

\* A part was accepted for every recipient, and another one follows.
LEMMA NextPart ==
    ASSUME TransportsKnow, Transports!TransportsAssumption, Alone, send.at = "waiting",
           answer = "ok", ~send.some, send.what = "message", send.part < Parts,
           send' = [send EXCEPT !.at = "secret", !.part = @ + 1, !.some = FALSE],
           item' = item, answer' = "none", logins' = logins, resends' = resends, tests' = tests,
           cause' = cause
    PROVE  TransportsKnow'
<1> USE DEF Alone
<1>1. /\ TransportShapes /\ RequestsKnown /\ CopiesAsked /\ TransactionsKnown
      /\ PartsDelivered /\ AttemptsCounted /\ CauseKnown
  BY DEF TransportsKnow
<1>2. send \in Sends /\ send.part \in Nat /\ send.part \in 1..Parts /\ Parts \in Nat
  BY <1>1 DEF TransportShapes, Sends, Transports!TransportsAssumption
<1>3. /\ send' \in Sends /\ send'.at = "secret" /\ send'.what = "message"
      /\ send'.part = send.part + 1 /\ send'.part > 1
  <2>1. send.part + 1 \in 1..Parts /\ send.part + 1 > 1
    BY <1>2
  <2> QED BY <1>2, <2>1 DEF Sends, Places
<1>4. /\ Message /\ Message' /\ ~Testing /\ ~Testing' /\ Unsent' = Unsent /\ Again' = Again
      /\ Tried' = Tried
  BY <1>3 DEF Message, Testing, Unsent, Again, Tried, Transports!At
<1>5. TransportShapes'
  BY <1>1, <1>3 DEF TransportShapes
<1>6. RequestsKnown'
  BY <1>1, <1>3, <1>4 DEF RequestsKnown, Transports!At
<1>7. CopiesAsked'
  <2>1. \A p \in 1..Parts : Possible(p)' = Possible(p)
    BY PossibleSame
  <2>2. \A p \in 1..Parts : Ahead(p)' => Ahead(p)
    <3> SUFFICES ASSUME NEW p \in 1..Parts, Ahead(p)' PROVE p > send.part
      BY DEF Ahead
    <3>1. p > send.part + 1 \/ p = send.part + 1
      BY <1>3 DEF Ahead, Transports!At
    <3> QED BY <1>2, <3>1
  <2> QED BY <1>1, <1>3, <1>4, <2>1, <2>2 DEF CopiesAsked, Transports!At
<1>8. TransactionsKnown'
  BY <1>1 DEF TransactionsKnown
<1>9. PartsDelivered'
  <2>1. item.status # "sent" /\ send.part \in whole
        /\ \A p \in 1..Parts : p < send.part => p \in whole
    BY <1>1, <1>4 DEF PartsDelivered
  <2>2. \A p \in 1..Parts : p < send.part + 1 => p < send.part \/ p = send.part
    BY <1>2
  <2> QED BY <1>3, <2>1, <2>2 DEF PartsDelivered
<1>10. AttemptsCounted'
  BY <1>1, <1>4 DEF AttemptsCounted
<1>11. CauseKnown'
  BY <1>1, <1>4 DEF CauseKnown, Transports!At
<1> QED BY <1>5, <1>6, <1>7, <1>8, <1>9, <1>10, <1>11 DEF TransportsKnow

\* The last part was accepted, or the test message.
LEMMA LastPart ==
    ASSUME TransportsKnow, Transports!TransportsAssumption, Alone, send.at = "waiting",
           answer = "ok", ~send.some, send' = [at |-> "idle"], answer' = "none",
           \/ send.what = "test" /\ item' = item
           \/ send.what = "message" /\ send.part = Parts /\ item' = [item EXCEPT !.status = "sent"],
           logins' = logins, resends' = resends, tests' = tests, cause' = cause
    PROVE  TransportsKnow'
<1>1. TransportShapes /\ PartsDelivered /\ AttemptsCounted
  BY DEF TransportsKnow
<1>2. /\ logins \in Nat /\ item \in [status : {"pending", "failed", "ambiguous", "sent"}, attempts : Nat]
      /\ cause \in BOOLEAN /\ Tried \in Int /\ resends \in Nat
      /\ item.attempts \in Nat /\ MaxAttempts \in Nat /\ AuthLimit \in Nat
  BY <1>1, TriedIs DEF TransportShapes, Transports!TransportsAssumption
<1>3. /\ item'.attempts = item.attempts /\ logins' \in Nat
      /\ item' \in [status : {"pending", "failed", "ambiguous", "sent"}, attempts : Nat]
  BY <1>2
<1>4. Testing => item' = item /\ logins' <= logins + 1
  <2>1. logins' <= logins + 1
    BY <1>2
  <2> QED BY <2>1 DEF Testing
<1>5. Message => item'.status = "sent"
  BY <1>2 DEF Message
<1>6. Message => whole = 1..Parts
  <2> SUFFICES ASSUME Message PROVE 1..Parts \subseteq whole
    BY <1>1 DEF TransportShapes
  <2>1. send.part = Parts /\ Parts \in Nat \ {0}
    BY DEF Message, Transports!TransportsAssumption
  <2>2. Parts \in whole /\ \A p \in 1..Parts : p < Parts => p \in whole
    BY <1>1, <2>1 DEF PartsDelivered
  <2>3. \A p \in 1..Parts : p < Parts \/ p = Parts
    BY <2>1
  <2> QED BY <2>2, <2>3
<1>7. Message /\ Unsent =>
           /\ logins' <= AuthLimit + Tried /\ item'.attempts <= MaxAttempts
           /\ item'.attempts < MaxAttempts =>
                  logins' < AuthLimit + Tried /\ logins' <= item'.attempts + Tried
  <2> SUFFICES ASSUME Message, Unsent
               PROVE  /\ logins <= AuthLimit + Tried /\ item.attempts <= MaxAttempts
                      /\ item.attempts < MaxAttempts =>
                             logins < AuthLimit + Tried /\ logins <= item.attempts + Tried
    BY <1>3
  <2>1. item.attempts < MaxAttempts
    BY <1>1 DEF AttemptsCounted
  <2>2. item.attempts <= MaxAttempts
    BY <1>2, <2>1
  <2> QED BY <1>1, <2>2 DEF AttemptsCounted
<1>8. Again =>
           /\ logins' <= logins + 1
           /\ item'.attempts <= MaxAttempts + resends
           /\ item'.attempts < MaxAttempts =>
                  item.attempts < MaxAttempts /\ item.attempts <= item'.attempts
  <2> SUFFICES ASSUME Again
               PROVE  logins <= logins + 1 /\ item.attempts <= MaxAttempts + resends
                      /\ item.attempts <= item.attempts
    BY <1>3
  <2>1. item.attempts <= MaxAttempts + resends - 1
    BY <1>1 DEF AttemptsCounted
  <2>2. logins <= logins + 1 /\ item.attempts <= MaxAttempts + resends /\ item.attempts <= item.attempts
    BY <1>2, <2>1
  <2> QED BY <2>2
<1> QED BY <1>2, <1>3, <1>4, <1>5, <1>6, <1>7, <1>8, AttemptEnds

\* What the sender makes of an answer, or of none.
LEMMA AnswerSteps ==
    ASSUME TransportsKnow, Transports!TransportsAssumption,
           Transports!Answered \/ Transports!Interrupted
    PROVE  TransportsKnow'
<1>1. TransportShapes /\ RequestsKnown /\ CopiesAsked /\ CauseKnown
  BY DEF TransportsKnow
<1>2. /\ Alone /\ resends' = resends /\ tests' = tests /\ cause' = cause /\ send.at = "waiting"
  BY DEF Transports!Answered, Transports!Interrupted, Transports!provider, Transports!asked,
         Transports!At, Alone
<1>3. Message => cause
  BY <1>1, <1>2 DEF CauseKnown, Transports!At
<1>4. send \in Sends /\ send.what \in {"message", "test"}
  BY <1>1, <1>2 DEF TransportShapes, Sends
<1>5. \/ Transports!Unknown
      \/ answer \in {"no", "no-but-200", "auth"} /\ (Transports!NotSent \/ Transports!BadCredentials)
      \/ answer = "ok" /\ ~send.some /\ Transports!PartAccepted
  BY DEF Transports!Answered, Transports!Interrupted, Transports!EveryRecipient
<1>6. CASE Transports!Unknown
  <2>1. Transports!Fail(TRUE, FALSE)
    BY <1>6 DEF Transports!Unknown
  <2> QED BY <1>2, <1>3, <2>1, AttemptFails
<1>7. CASE answer \in {"no", "no-but-200", "auth"} /\ (Transports!NotSent \/ Transports!BadCredentials)
  <2>1. PICK auth \in BOOLEAN : Transports!Fail(FALSE, auth)
    BY <1>7 DEF Transports!NotSent, Transports!BadCredentials
  <2>2. Message /\ Unsent /\ send.part = 1 => \A p \in 1..Parts : Possible(p) = 0
    <3> SUFFICES ASSUME Message, Unsent, send.part = 1, NEW p \in 1..Parts
                 PROVE  Possible(p) = 0
      OBVIOUS
    <3>1. p = 1 \/ p > 1
      BY DEF Transports!TransportsAssumption
    <3>2. CASE p = 1
      BY <1>1, <1>2, <1>7, <3>2 DEF CopiesAsked, Transports!At
    <3>3. CASE p > 1
      BY <1>1, <3>3 DEF CopiesAsked, Ahead
    <3> QED BY <3>1, <3>2, <3>3
  <2> QED BY <1>2, <2>1, <2>2, AttemptFails
<1>8. CASE answer = "ok" /\ ~send.some /\ Transports!PartAccepted
  <2>1. CASE send.what = "message" /\ send.part < Parts
    <3>1. send.part # Parts
      BY <1>4, <2>1 DEF Sends, Transports!TransportsAssumption
    <3> QED BY <1>2, <1>8, <2>1, <3>1, NextPart DEF Transports!PartAccepted
  <2>2. CASE ~(send.what = "message" /\ send.part < Parts)
    BY <1>2, <1>8, <2>2, LastPart DEF Transports!PartAccepted, Transports!Idle
  <2> QED BY <2>1, <2>2
<1> QED BY <1>5, <1>6, <1>7, <1>8

\* A request that never left the host, and a time that is up after the first part.
LEMMA OtherFailures ==
    ASSUME TransportsKnow, Transports!TransportsAssumption,
           \/ Transports!Submit /\ ids' = ids
           \/ Transports!OutOfTime /\ send.part # 1
    PROVE  TransportsKnow'
<1>1. TransportShapes /\ CauseKnown
  BY DEF TransportsKnow
<1>2. CASE Transports!Submit /\ ids' = ids
  <2>1. ids # ids + 1
    BY <1>1 DEF TransportShapes
  <2>2. /\ Transports!NotSent /\ Alone /\ resends' = resends /\ tests' = tests /\ cause' = cause
        /\ send.at = "submit"
    BY <1>2, <2>1 DEF Transports!Submit, Transports!At, Alone, Transports!provider, Transports!asked
  <2> QED BY <2>2, EarlyFailure
<1>3. CASE Transports!OutOfTime /\ send.part # 1
  <2>1. /\ Transports!Fail(TRUE, FALSE) /\ Alone /\ resends' = resends /\ tests' = tests
        /\ cause' = cause /\ send.at = "secret"
    BY <1>3 DEF Transports!OutOfTime, Transports!Unknown, Transports!At, Alone,
                Transports!provider, Transports!asked
  <2>2. send.part > 1
    <3>1. send.part \in 1..Parts
      BY <1>1, <2>1 DEF TransportShapes, Sends
    <3> QED BY <1>3, <3>1 DEF Transports!TransportsAssumption
  <2>3. Message => cause
    BY <1>1, <2>2 DEF CauseKnown
  <2> QED BY <2>1, <2>3, AttemptFails
<1> QED BY <1>2, <1>3

\* A request reaches the provider or is lost; only the sender that waits for it hears of it.
LEMMA ProviderSteps ==
    ASSUME TransportsKnow, Transports!TransportsAssumption, NEW r \in wire,
           Transports!Accept(r) \/ Transports!Refuse(r) \/ Transports!Lose(r)
    PROVE  TransportsKnow'
<1>1. /\ TransportShapes /\ RequestsKnown /\ CopiesAsked /\ TransactionsKnown
      /\ PartsDelivered /\ AttemptsCounted /\ CauseKnown
  BY DEF TransportsKnow
<1> DEFINE Mine == send.at = "waiting" /\ r.id = ids
<1>2. /\ wire' = wire \ {r} /\ kind' = kind /\ item' = item /\ send' = send /\ logins' = logins
      /\ resends' = resends /\ tests' = tests /\ cause' = cause /\ ids' = ids
  BY DEF Transports!Accept, Transports!Refuse, Transports!Lose, Transports!provider, Transports!asked
<1>3. \/ Mine /\ Transports!Accept(r) /\ answer' \in {"ok", "unreadable"}
      \/ Mine /\ ~Transports!Accept(r) /\ copies' = copies /\ whole' = whole /\ seen' = seen
         /\ answer' \in {"no", "no-but-200", "auth", "unreadable", "none"}
      \/ ~Mine /\ answer' = answer
         /\ (Transports!Accept(r) \/ (copies' = copies /\ whole' = whole /\ seen' = seen))
  <2>1. Mine => answer = "none"
    BY <1>1 DEF RequestsKnown
  <2>2. \A word : Transports!Answers(r, word) <=> answer' = IF Mine THEN word ELSE answer
    BY DEF Transports!Answers, Transports!At
  <2>3. CASE Transports!Accept(r)
    <3>1. Transports!Answers(r, "ok") \/ Transports!Answers(r, "unreadable")
      BY <2>3 DEF Transports!Accept
    <3> QED BY <2>2, <2>3, <3>1
  <2>4. CASE Transports!Refuse(r) /\ ~Transports!Accept(r)
    <3>1. \E word \in {"no", "no-but-200", "auth", "unreadable"} : Transports!Answers(r, word)
      BY <2>4 DEF Transports!Refuse
    <3>2. copies' = copies /\ whole' = whole /\ seen' = seen
      BY <2>4 DEF Transports!Refuse, Transports!provider
    <3> QED BY <2>2, <2>4, <3>1, <3>2
  <2>5. CASE Transports!Lose(r) /\ ~Transports!Accept(r)
    BY <2>1, <2>5 DEF Transports!Lose, Transports!provider
  <2> QED BY <2>3, <2>4, <2>5
<1>4. ASSUME Transports!Accept(r)
      PROVE  /\ copies' = IF (kind = "matrix" /\ r.txn \in seen) \/ r.what = "test" THEN copies
                          ELSE [copies EXCEPT ![r.part] = @ + 1]
             /\ whole' = IF r.what = "test" \/ r.some THEN whole ELSE whole \cup {r.part}
             /\ seen' = IF kind = "matrix" THEN seen \cup {r.txn} ELSE seen
  BY <1>4 DEF Transports!Accept
<1>5. /\ r.what \in {"message", "test"} /\ r.part \in 1..Parts /\ r.some \in BOOLEAN
      /\ r.what = "message" => r.txn = <<"message", r.part>>
      /\ r.id \in Nat
  BY <1>1 DEF TransportShapes, SentRequests, RequestsKnown
<1>6. copies' = copies \/ (r.what = "message" /\ copies' = [copies EXCEPT ![r.part] = @ + 1])
  BY <1>3, <1>4, <1>5
<1>7. /\ Message' = Message /\ Testing' = Testing /\ Unsent' = Unsent /\ Again' = Again
      /\ Tried' = Tried /\ \A p \in 1..Parts : Ahead(p)' = Ahead(p)
  BY <1>2 DEF Message, Testing, Unsent, Again, Tried, Ahead, Transports!At
<1>8. whole \subseteq whole' /\ whole' \subseteq 1..Parts
  BY <1>1, <1>3, <1>4, <1>5 DEF TransportShapes
<1> HIDE DEF Mine
<1>9. TransportShapes'
  <2>1. wire' \subseteq SentRequests /\ IsFiniteSet(wire')
    BY <1>1, <1>2, FS_RemoveElement DEF TransportShapes
  <2>2. copies' \in [1..Parts -> Nat]
    BY <1>1, <1>5, <1>6 DEF TransportShapes
  <2>3. answer' \in {"none", "ok", "no", "no-but-200", "auth", "unreadable"}
    BY <1>1, <1>3 DEF TransportShapes
  <2> QED BY <1>1, <1>2, <1>8, <2>1, <2>2, <2>3 DEF TransportShapes
<1>10. RequestsKnown'
  <2>1. answer' # "none" => Transports!At("waiting")' /\ \A q \in wire' : q.id # ids'
    <3>1. CASE Mine
      BY <1>1, <1>2, <3>1 DEF RequestsKnown, Mine, Transports!At
    <3>2. CASE ~Mine
      BY <1>1, <1>2, <1>3, <3>2 DEF RequestsKnown, Transports!At
    <3> QED BY <3>1, <3>2
  <2> QED BY <1>1, <1>2, <1>7, <2>1 DEF RequestsKnown, Transports!At
<1>11. CopiesAsked'
  <2>1. \A p \in 1..Parts : Possible(p)' <= Possible(p) /\ Possible(p)' \in Nat /\ Possible(p) \in Nat
    BY <1>1, <1>2, <1>6, PossibleIs, PossibleLess
  <2>2. \A p \in 1..Parts : /\ Possible(p) = 0 => Possible(p)' = 0
                            /\ Possible(p) <= resends => Possible(p)' <= resends
                            /\ Possible(p) <= 1 + resends => Possible(p)' <= 1 + resends
    <3>1. resends \in Nat
      BY <1>1 DEF TransportShapes
    <3> QED BY <2>1, <3>1
  <2>3. ASSUME Unsent, Message, send.at = "waiting", send.part = 1
        PROVE  /\ answer' = "none" => copies'[1] = 0 /\ \A q \in OnTheWay(1)' : q.id = ids
               /\ answer' \in {"no", "no-but-200", "auth"} => Possible(1)' = 0
    <3>1. 1 \in 1..Parts
      BY DEF Transports!TransportsAssumption
    <3>2. OnTheWay(1)' = OnTheWay(1) \ {r}
      BY <1>2 DEF OnTheWay
    <3>3. /\ answer = "none" => copies[1] = 0 /\ \A q \in OnTheWay(1) : q.id = ids
          /\ answer \in {"no", "no-but-200", "auth"} => Possible(1) = 0
      BY <1>1, <2>3 DEF CopiesAsked, Transports!At
    <3>4. CASE Mine
      <4>1. answer = "none"
        BY <1>1, <3>4 DEF RequestsKnown, Mine
      <4>2. ASSUME answer' \in {"none", "no", "no-but-200", "auth"}
            PROVE  copies'[1] = 0 /\ OnTheWay(1)' = {} /\ Possible(1)' = 0
        <5>1. copies' = copies
          BY <1>3, <3>4, <4>2
        <5>2. \A q \in OnTheWay(1) : q = r
          BY <1>1, <3>3, <3>4, <4>1 DEF RequestsKnown, Mine, OnTheWay
        <5>3. copies'[1] = 0 /\ OnTheWay(1)' = {}
          BY <3>2, <3>3, <4>1, <5>1, <5>2
        <5>4. Cardinality(OnTheWay(1)') = 0
          BY <5>3, FS_EmptySet
        <5> QED BY <5>3, <5>4 DEF Possible
      <4> QED BY <4>2
    <3>5. CASE ~Mine
      <4>1. answer' = answer /\ r.id # ids
        BY <1>3, <2>3, <3>5 DEF Mine
      <4>2. ASSUME answer = "none"
            PROVE  copies'[1] = 0 /\ \A q \in OnTheWay(1)' : q.id = ids
        <5>1. copies[1] = 0 /\ \A q \in OnTheWay(1) : q.id = ids
          BY <3>3, <4>2
        <5>2. ~(r.what = "message" /\ r.part = 1)
          BY <4>1, <5>1 DEF OnTheWay
        <5>3. copies'[1] = copies[1]
          BY <1>1, <1>5, <1>6, <3>1, <5>2 DEF TransportShapes
        <5> QED BY <3>2, <5>1, <5>3
      <4> QED BY <2>2, <3>1, <3>3, <4>1, <4>2
    <3> QED BY <3>4, <3>5
  <2> QED BY <1>1, <1>2, <1>7, <2>2, <2>3 DEF CopiesAsked, Transports!At
<1>12. TransactionsKnown'
  <2> SUFFICES ASSUME kind = "matrix", NEW p \in 1..Parts
               PROVE  copies'[p] <= 1 /\ (copies'[p] = 1 => <<"message", p>> \in seen')
    BY <1>2 DEF TransactionsKnown
  <2>1. copies[p] <= 1 /\ (copies[p] = 1 => <<"message", p>> \in seen) /\ copies[p] \in Nat
    BY <1>1 DEF TransactionsKnown, TransportShapes
  <2>2. CASE copies'[p] = copies[p] /\ seen \subseteq seen'
    BY <2>1, <2>2
  <2>3. CASE /\ Transports!Accept(r) /\ r.part = p /\ copies'[p] = copies[p] + 1
             /\ <<"message", p>> \notin seen /\ <<"message", p>> \in seen'
    <3>1. copies[p] = 0
      BY <2>1, <2>3
    <3> QED BY <2>3, <3>1
  <2>4. CASE Transports!Accept(r)
    <3>1. seen' = seen \cup {r.txn}
      BY <1>4, <2>4
    <3>2. CASE r.txn \in seen \/ r.what = "test" \/ r.part # p
      <4>1. copies'[p] = copies[p]
        BY <1>1, <1>4, <1>5, <2>4, <3>2 DEF TransportShapes
      <4> QED BY <2>2, <3>1, <4>1
    <3>3. CASE r.txn \notin seen /\ r.what = "message" /\ r.part = p
      <4>1. copies'[p] = copies[p] + 1
        BY <1>1, <1>4, <1>5, <2>4, <3>3 DEF TransportShapes
      <4>2. r.txn = <<"message", p>>
        BY <1>5, <3>3
      <4> QED BY <2>3, <2>4, <3>1, <3>3, <4>1, <4>2
    <3> QED BY <1>5, <3>2, <3>3
  <2>5. CASE ~Transports!Accept(r)
    BY <1>3, <2>2, <2>5
  <2> QED BY <2>4, <2>5
<1>13. PartsDelivered'
  <2>1. ASSUME Message, answer' = "ok", ~send.some PROVE send.part \in whole'
    <3>1. CASE Mine
      <4>1. Transports!Accept(r)
        BY <1>3, <2>1, <3>1
      <4>2. r.what = "message" /\ r.part = send.part /\ ~r.some
        BY <1>1, <2>1, <3>1 DEF RequestsKnown, Mine, Message, Transports!At
      <4> QED BY <1>4, <4>1, <4>2
    <3>2. CASE ~Mine
      BY <1>1, <1>3, <1>8, <2>1, <3>2 DEF PartsDelivered
    <3> QED BY <3>1, <3>2
  <2> QED BY <1>1, <1>2, <1>7, <1>8, <2>1 DEF PartsDelivered
<1>14. AttemptsCounted'
  BY <1>1, <1>2, <1>7 DEF AttemptsCounted
<1>15. CauseKnown'
  BY <1>1, <1>2, <1>7 DEF CauseKnown, Transports!At
<1> QED BY <1>9, <1>10, <1>11, <1>12, <1>13, <1>14, <1>15 DEF TransportsKnow

LEMMA TransportsStep ==
    Transports!TransportsAssumption /\ TransportsKnow /\ [Transports!Next]_(Transports!vars)
        => TransportsKnow'
<1> SUFFICES ASSUME Transports!TransportsAssumption, TransportsKnow,
                    [Transports!Next]_(Transports!vars)
             PROVE  TransportsKnow'
  OBVIOUS
<1>1. CASE UNCHANGED Transports!vars
  <2> USE <1>1 DEF Transports!vars, Transports!provider, Transports!asked
  <2>1. /\ Message' = Message /\ Testing' = Testing /\ Unsent' = Unsent /\ Again' = Again
        /\ Tried' = Tried /\ \A p \in 1..Parts : Ahead(p)' = Ahead(p)
    BY DEF Message, Testing, Unsent, Again, Tried, Ahead, Transports!At
  <2>2. \A p \in 1..Parts : Possible(p)' = Possible(p) /\ OnTheWay(p)' = OnTheWay(p)
    BY PossibleSame
  <2>3. /\ TransportShapes /\ RequestsKnown /\ CopiesAsked /\ TransactionsKnown
        /\ PartsDelivered /\ AttemptsCounted /\ CauseKnown
    BY DEF TransportsKnow
  <2>4. TransportShapes' /\ RequestsKnown' /\ TransactionsKnown' /\ CauseKnown' /\ PartsDelivered'
    BY <2>1, <2>3 DEF TransportShapes, RequestsKnown, TransactionsKnown, CauseKnown,
                      PartsDelivered, Transports!At
  <2>5. CopiesAsked'
    <3>1. \A p : OnTheWay(p)' = OnTheWay(p)
      BY DEF OnTheWay
    <3>2. 1 \in 1..Parts
      BY DEF Transports!TransportsAssumption
    <3>3. resends' = resends /\ send' = send /\ answer' = answer /\ copies' = copies /\ ids' = ids
      OBVIOUS
    <3> QED BY <2>1, <2>2, <2>3, <3>1, <3>2, <3>3 DEF CopiesAsked, Transports!At
  <2>6. AttemptsCounted'
    BY <2>1, <2>3 DEF AttemptsCounted
  <2> QED BY <2>4, <2>5, <2>6 DEF TransportsKnow
<1>2. CASE Transports!Start \/ Transports!Resend \/ Transports!SendTest
  BY <1>2, AttemptBegins
<1>3. CASE \/ Transports!Secret \/ Transports!Room \/ Transports!Token \/ Transports!Session
           \/ Transports!Login \/ Transports!Envelope
  BY <1>3, EarlySteps
<1>4. CASE Transports!Crash \/ Transports!OutOfTime
  BY <1>4, AttemptIsCutOff, OtherFailures
<1>5. CASE Transports!Submit
  <2>1. ids' = ids + 1 \/ ids' = ids
    BY <1>5 DEF Transports!Submit
  <2> QED BY <1>5, <2>1, RequestLeaves, OtherFailures
<1>6. CASE Transports!Interrupted \/ Transports!Answered
  BY <1>6, AnswerSteps
<1>7. CASE \E r \in wire : Transports!Accept(r) \/ Transports!Refuse(r) \/ Transports!Lose(r)
  BY <1>7, ProviderSteps
<1> QED BY <1>1, <1>2, <1>3, <1>4, <1>5, <1>6, <1>7 DEF Transports!Next

LEMMA TransportsImply ==
    Transports!TransportsAssumption /\ TransportsKnow => Transports!TransportInv
<1> SUFFICES ASSUME Transports!TransportsAssumption, TransportsKnow PROVE Transports!TransportInv
  OBVIOUS
<1>1. /\ TransportShapes /\ RequestsKnown /\ CopiesAsked /\ TransactionsKnown
      /\ PartsDelivered /\ AttemptsCounted /\ CauseKnown
  BY DEF TransportsKnow
<1>2. /\ MaxAttempts \in Nat /\ AuthLimit \in Nat /\ MaxResends \in Nat /\ resends \in Nat
      /\ resends <= MaxResends /\ tests \in Nat /\ logins \in Nat /\ item.attempts \in Nat
  BY <1>1 DEF TransportShapes, Transports!TransportsAssumption
<1>3. \A p \in 1..Parts :
          /\ copies[p] \in Nat /\ copies[p] <= Possible(p) /\ Possible(p) \in Nat
          /\ Possible(p) = 0 => copies[p] = 0 /\ OnTheWay(p) = {}
  <2> SUFFICES ASSUME NEW p \in 1..Parts PROVE copies[p] <= Possible(p)
    BY <1>1, PossibleIs
  <2> QED BY <1>1, PossibleIs DEF Possible
<1>4. Transports!TypeOK
  <2>1. item.attempts \in 0..(MaxAttempts + MaxResends + 1)
    <3>1. item.attempts <= MaxAttempts + resends - (IF Again THEN 1 ELSE 0)
      BY <1>1 DEF AttemptsCounted
    <3>2. item.attempts <= MaxAttempts + resends
      BY <1>2, <3>1
    <3> QED BY <1>2, <3>2
  <2> QED BY <1>1, <2>1 DEF Transports!TypeOK, TransportShapes, RequestsKnown, SentRequests
<1>5. Transports!NoUnaskedCopy
  <2> SUFFICES ASSUME NEW p \in 1..Parts
               PROVE  copies[p] <= IF kind = "matrix" THEN 1 ELSE 1 + resends
    BY DEF Transports!NoUnaskedCopy
  <2>1. kind = "matrix" => copies[p] <= 1
    BY <1>1 DEF TransactionsKnown
  <2>2. Possible(p) <= 1 + resends
    BY <1>1 DEF CopiesAsked
  <2>3. copies[p] <= 1 + resends
    BY <1>2, <1>3, <2>2
  <2> QED BY <2>1, <2>3
<1>6. Transports!RetriedIsNowhere
  <2> SUFFICES ASSUME Unsent, send.at = "idle"
               PROVE  (\A p \in 1..Parts : copies[p] = 0) /\ \A r \in wire : r.what = "test"
    BY DEF Transports!RetriedIsNowhere, Transports!At, Unsent
  <2>1. \A p \in 1..Parts : Possible(p) = 0
    BY <1>1 DEF CopiesAsked, Message, Transports!At
  <2>2. \A p \in 1..Parts : copies[p] = 0 /\ OnTheWay(p) = {}
    BY <1>3, <2>1
  <2>3. \A r \in wire : r.part \in 1..Parts /\ r.what \in {"message", "test"}
    BY <1>1 DEF TransportShapes, SentRequests
  <2> QED BY <2>2, <2>3 DEF OnTheWay
<1>7. Transports!SentIsDelivered
  BY <1>1 DEF PartsDelivered, Transports!SentIsDelivered
<1>8. Transports!LoginsCapped
  <2>1. logins <= AuthLimit + Tried
    BY <1>1 DEF AttemptsCounted
  <2>2. Tried \in Int /\ (Tried = resends + tests - 1 \/ Tried = resends + tests)
    BY <1>1, TriedIs
  <2> QED BY <1>2, <2>1, <2>2 DEF Transports!LoginsCapped
<1>9. Transports!DoubtHasCause
  BY <1>1 DEF CauseKnown, Transports!DoubtHasCause
<1> QED BY <1>4, <1>5, <1>6, <1>7, <1>8, <1>9 DEF Transports!TransportInv

\* No part reaches its readers more often than an operator asked for, what is tried again
\* is nowhere, what says sent was delivered whole, and refused credentials are not tried
\* until an account is locked: for channels of every kind, any number of parts, attempts,
\* resends and tests.
THEOREM TransportsCorrect ==
    Transports!TransportsAssumption => (Transports!Spec => []Transports!TransportInv)
<1> SUFFICES ASSUME Transports!TransportsAssumption
             PROVE  Transports!Spec => []Transports!TransportInv
  OBVIOUS
<1>1. Transports!Init => TransportsKnow
  BY TransportsStart
<1>2. TransportsKnow /\ [Transports!Next]_(Transports!vars) => TransportsKnow'
  BY TransportsStep
<1>3. TransportsKnow => Transports!TransportInv
  BY TransportsImply
<1> QED BY <1>1, <1>2, <1>3, PTL DEF Transports!Spec
-----------------------------------------------------------------------------
(* The NVD scan. *)

\* The oldest modification and answer, the least cursor, and the least start of a window.
Oldest == NvdScan!Start - Lag
LeastCursor == Overlap
LeastStart == 0

NvdPages == [offset : Nat, total : Nat, stamp : Int, got : SUBSET (Records \X Int)]
NvdRuns ==
    [at : {"reading"}, end : Int, windows : Seq(Int \X Int), first : BOOLEAN, initial : BOOLEAN,
     mark : Int, attempt : Nat, page : NvdPages]

NvdShapes ==
    /\ now \in NvdScan!Start..MaxTime
    /\ cursor = NvdScan!None \/ cursor \in LeastCursor..now
    /\ from = NvdScan!None \/ from \in 0..now
    /\ history \in [Records -> SUBSET (Oldest..now)]
    /\ stored \in [Records -> 0..MaxTime]
    /\ marks \in [mode : BOOLEAN, initialized : BOOLEAN]
    /\ run = NvdScan!Idle \/ run \in NvdRuns

\* Latest chooses something.
HasLatest(S) == S = {} \/ \E m \in S : \A u \in S : u <= m
HistoryIsKnown == \A r \in Records, n \in Int : HasLatest({u \in history[r] : u <= n})

\* The windows that are left follow each other up to the end of the run, and only the last
\* one may be narrower than an answer is old.
Follow(spans, end) ==
    /\ \A i \in 1..Len(spans) :
           /\ spans[i][1] >= LeastStart /\ spans[i][1] < spans[i][2]
           /\ spans[i][2] >= LeastCursor /\ spans[i][2] <= end
    /\ \A i \in 1..Len(spans) : i < Len(spans) =>
           /\ spans[i][2] = spans[i + 1][1]
           /\ NvdScan!Prompt => spans[i][2] - spans[i][1] >= Lag
    /\ spans # <<>> => spans[Len(spans)][2] = end

\* How far the windows that were read reach.
Reached == IF run.windows = <<>> THEN run.end ELSE NvdScan!Window[1]

MetaIsTrue ==
    /\ cursor = NvdScan!None <=> from = NvdScan!None
    /\ marks.mode <=> from # NvdScan!None
    /\ marks.initialized => marks.mode

RunIsSound ==
    run # NvdScan!Idle =>
        /\ run.end >= NvdScan!Start /\ run.end <= now /\ run.mark \in 0..now
        /\ Follow(run.windows, run.end)
        /\ from # NvdScan!None => run.mark = from
        /\ ~run.first => from # NvdScan!None
        /\ ~run.initial => marks.initialized
        /\ run.initial /\ (run.first \/ run.windows # <<>>) => ~marks.initialized
        /\ Reached >= LeastStart

\* How many records of a listing come before one.
Rank(S, r) == Cardinality({s \in S : s < r})

\* The pages of a window read so far are the first ones of the listing of one moment, as
\* it was then or later, and name no record twice.
PagesRead(window, stamp, offset, got) ==
    LET S == NvdScan!Listed(window, stamp) IN
    /\ \A x \in got :
           /\ x[1] \in S
           /\ x[2] >= window[1] /\ x[2] <= window[2]
           /\ \E t \in stamp..now : x[2] = NvdScan!Seen(x[1], t)
    /\ \A x, y \in got : x[1] = y[1] => x = y
    /\ \A r \in S : Rank(S, r) < offset => \E x \in got : x[1] = r

PageIsTrue ==
    run # NvdScan!Idle /\ run.page.stamp # NvdScan!None =>
        /\ run.windows # <<>>
        /\ run.page.stamp \in (run.end - Lag)..now
        /\ run.page.total = Cardinality(NvdScan!Listed(NvdScan!Window, run.page.stamp))
        /\ PagesRead(NvdScan!Window, run.page.stamp, run.page.offset, run.page.got)

NvdKnows == NvdShapes /\ HistoryIsKnown /\ MetaIsTrue /\ RunIsSound /\ PageIsTrue

LEMMA NvdNumber == \A S : NvdScan!Cardinality(S) = Cardinality(S)
BY DEF NvdScan!Cardinality, Cardinality

LEMMA NvdFinite == \A S : NvdScan!IsFiniteSet(S) <=> IsFiniteSet(S)
BY DEF NvdScan!IsFiniteSet, IsFiniteSet

\* What the constants are.
LEMMA NvdConstants ==
    ASSUME NvdScan!NvdAssumption
    PROVE  /\ Records \subseteq Nat /\ IsFiniteSet(Records)
           /\ PageSize \in Nat /\ PageSize > 0 /\ WindowDays \in Nat /\ WindowDays > 0
           /\ MinSplit \in Nat /\ MinSplit > 0 /\ Attempts \in Nat /\ Attempts > 0
           /\ Backfill \in Nat /\ Lag \in Nat /\ Overlap \in Nat /\ Lag <= Overlap
           /\ Overlap <= WindowDays /\ MaxTime \in Nat /\ NvdScan!Start <= MaxTime
           /\ NvdScan!Start = Backfill + 2 * Overlap + Lag
           /\ NvdScan!Start \in Nat /\ Oldest = Backfill + 2 * Overlap
           /\ LeastCursor = Overlap /\ LeastStart = 0
           /\ NvdScan!None = -1
<1>1. IsFiniteSet(Records)
  BY NvdFinite, Zenon DEF NvdScan!NvdAssumption
<1>2. NvdScan!Start = Backfill + 2 * Overlap + Lag /\ NvdScan!None = -1
  BY DEF NvdScan!Start, NvdScan!None
<1> QED BY <1>1, <1>2 DEF NvdScan!NvdAssumption, Oldest, LeastCursor, LeastStart

\* What is at least as late as everything is the latest.
LEMMA LatestIs ==
    ASSUME NEW S \in SUBSET Int, NEW m \in S, \A u \in S : u <= m
    PROVE  NvdScan!Latest(S) = m
<1>1. \A t \in S : (\A u \in S : u <= t) => t = m
  OBVIOUS
<1>2. NvdScan!Latest(S) = CHOOSE t \in S : \A u \in S : u <= t
  BY DEF NvdScan!Latest
<1> QED BY <1>1, <1>2

LEMMA LatestOf ==
    ASSUME NEW S \in SUBSET Int, S # {}, HasLatest(S)
    PROVE  NvdScan!Latest(S) \in S /\ \A u \in S : u <= NvdScan!Latest(S)
<1>1. PICK m \in S : \A u \in S : u <= m
  BY DEF HasLatest
<1> QED BY <1>1, LatestIs

LEMMA LatestOfOne == \A v \in Int : NvdScan!Latest({v}) = v
<1> TAKE v \in Int
<1> QED BY LatestIs

LEMMA LatestOfNone == NvdScan!Latest({}) = NvdScan!None
BY DEF NvdScan!Latest

\* The latest modification of a record.
LEMMA Modified ==
    ASSUME NvdScan!NvdAssumption, NvdKnows, NEW r \in Records
    PROVE  LET t == NvdScan!Latest(history[r]) IN
           /\ history[r] \subseteq Int
           /\ t \in Int /\ t <= now /\ \A u \in history[r] : u <= t
           /\ t = NvdScan!None \/ t >= Oldest
           /\ t = NvdScan!None <=> history[r] = {}
<1>1. now \in Int /\ Oldest \in Int /\ Oldest >= 0 /\ now >= 0 /\ history[r] \in SUBSET (Oldest..now)
  BY NvdConstants DEF NvdKnows, NvdShapes
<1>2. {u \in history[r] : u <= now} = history[r]
  BY <1>1
<1>3. HasLatest(history[r])
  BY <1>1, <1>2 DEF NvdKnows, HistoryIsKnown
<1>4. CASE history[r] = {}
  BY <1>1, <1>4, LatestOfNone, NvdConstants
<1>5. CASE history[r] # {}
  <2>1. NvdScan!Latest(history[r]) \in history[r] /\ \A u \in history[r] : u <= NvdScan!Latest(history[r])
    BY <1>1, <1>3, <1>5, LatestOf
  <2> QED BY <1>1, <1>5, <2>1, NvdConstants
<1> QED BY <1>4, <1>5

\* What an answer shows is not later than the answer, nor than the last modification, and
\* it is the last modification unless that is later than the answer.
LEMMA SeenIs ==
    ASSUME NvdScan!NvdAssumption, NvdKnows, NEW r \in Records, NEW n \in Int
    PROVE  LET t == NvdScan!Latest(history[r])  v == NvdScan!Seen(r, n) IN
           /\ v \in Int /\ v <= t
           /\ t <= n => v = t
           /\ v = NvdScan!None \/ (v >= Oldest /\ v <= n)
<1> DEFINE S == {u \in history[r] : u <= n}
<1>1. /\ history[r] \subseteq Int /\ history[r] \in SUBSET (Oldest..now) /\ Oldest \in Int
      /\ Oldest >= 0 /\ NvdScan!None = -1
  BY Modified, NvdConstants DEF NvdKnows, NvdShapes
<1>2. HasLatest(S) /\ S \in SUBSET Int /\ NvdScan!Seen(r, n) = NvdScan!Latest(S)
  BY <1>1 DEF NvdKnows, HistoryIsKnown, NvdScan!Seen
<1>3. NvdScan!Latest(history[r]) <= n => S = history[r]
  <2>1. NvdScan!Latest(history[r]) \in Int /\ \A u \in history[r] : u <= NvdScan!Latest(history[r])
    BY Modified
  <2> QED BY <1>1, <2>1
<1>4. CASE S = {}
  <2>1. NvdScan!Seen(r, n) = NvdScan!None
    BY <1>2, <1>4, LatestOfNone
  <2>2. NvdScan!Latest(history[r]) \in Int /\ NvdScan!Latest(history[r]) >= -1
    BY <1>1, Modified
  <2>3. NvdScan!Latest(history[r]) <= n => NvdScan!Latest(history[r]) = NvdScan!None
    BY <1>3, <1>4, LatestOfNone
  <2> QED BY <1>1, <2>1, <2>2, <2>3
<1>5. CASE S # {}
  <2>1. NvdScan!Latest(S) \in S
    BY <1>2, <1>5, LatestOf
  <2>2. NvdScan!Latest(S) \in history[r] /\ NvdScan!Latest(S) <= n /\ NvdScan!Latest(S) \in Oldest..now
    BY <1>1, <2>1
  <2>3. NvdScan!Latest(S) <= NvdScan!Latest(history[r])
    BY <2>2, Modified
  <2>4. NvdScan!Latest(history[r]) <= n => NvdScan!Latest(S) = NvdScan!Latest(history[r])
    BY <1>3
  <2> QED BY <1>1, <1>2, <2>2, <2>3, <2>4
<1> QED BY <1>4, <1>5

\* Ranks tell the records of a listing apart and are less than their number.
LEMMA Ranks ==
    ASSUME NEW S \in SUBSET Nat, IsFiniteSet(S)
    PROVE  /\ \A r \in S : Rank(S, r) \in Nat /\ Rank(S, r) < Cardinality(S)
           /\ \A r, q \in S : r < q => Rank(S, r) < Rank(S, q)
<1> DEFINE Before(r) == {s \in S : s < r}
<1>1. \A r \in S : IsFiniteSet(Before(r)) /\ Cardinality(Before(r)) \in Nat
  <2> TAKE r \in S
  <2>1. Before(r) \in SUBSET S
    OBVIOUS
  <2> QED BY <2>1, FS_Subset, FS_CardinalityType
<1>2. \A r \in S : Cardinality(Before(r)) < Cardinality(S)
  <2> TAKE r \in S
  <2>1. Before(r) \in SUBSET S /\ r \notin Before(r)
    OBVIOUS
  <2>2. Cardinality(Before(r)) <= Cardinality(S) /\ Cardinality(Before(r)) # Cardinality(S)
    BY <2>1, FS_Subset
  <2>3. Cardinality(S) \in Nat /\ Cardinality(Before(r)) \in Nat
    BY <1>1, FS_CardinalityType
  <2> QED BY <2>2, <2>3
<1>3. \A r, q \in S : r < q => Cardinality(Before(r)) < Cardinality(Before(q))
  <2> SUFFICES ASSUME NEW r \in S, NEW q \in S, r < q
               PROVE  Cardinality(Before(r)) < Cardinality(Before(q))
    OBVIOUS
  <2>1. Before(r) \in SUBSET Before(q) /\ r \in Before(q) /\ r \notin Before(r)
    <3>1. r \in Nat /\ q \in Nat /\ \A s \in S : s \in Nat
      OBVIOUS
    <3>2. \A s \in S : s < r => s < q
      BY <3>1
    <3>3. ~(r < r)
      BY <3>1
    <3> QED BY <3>2, <3>3, Zenon
  <2>2. IsFiniteSet(Before(q)) /\ Cardinality(Before(q)) \in Nat /\ Cardinality(Before(r)) \in Nat
    BY <1>1
  <2>3. Cardinality(Before(r)) <= Cardinality(Before(q)) /\ Cardinality(Before(r)) # Cardinality(Before(q))
    <3> HIDE DEF Before
    <3> QED BY <2>1, <2>2, FS_Subset
  <2> QED BY <2>2, <2>3
<1>4. \A r \in S : Rank(S, r) = Cardinality(Before(r))
  BY DEF Rank
<1> QED BY <1>1, <1>2, <1>3, <1>4

\* A page has the records whose ranks follow the offset, and no more than fit on it.
LEMMA Paged ==
    ASSUME NvdScan!NvdAssumption, NEW S \in SUBSET Records, NEW offset \in Nat
    PROVE  LET P == NvdScan!OnPage(S, offset) IN
           /\ P \in SUBSET S /\ Cardinality(P) \in Nat /\ Cardinality(P) <= PageSize
           /\ \A r \in S : Rank(S, r) >= offset /\ Rank(S, r) < offset + Cardinality(P) => r \in P
           /\ \A r \in P : Rank(S, r) >= offset
<1> DEFINE P == NvdScan!OnPage(S, offset)
<1>1. S \in SUBSET Nat /\ IsFiniteSet(S) /\ PageSize \in Nat
  BY NvdConstants, FS_Subset
<1>2. \A r \in S : Rank(S, r) \in Nat
  BY <1>1, Ranks
<1>3. P = {r \in S : Rank(S, r) >= offset /\ Rank(S, r) < offset + PageSize}
  <2>1. \A r \in S : NvdScan!Cardinality({s \in S : s < r}) = Rank(S, r)
    BY NvdNumber, Zenon DEF Rank
  <2>2. P = {r \in S : LET rank == NvdScan!Cardinality({s \in S : s < r}) IN
                         rank >= offset /\ rank < offset + PageSize}
    BY DEF NvdScan!OnPage
  <2> QED BY <2>1, <2>2
<1> HIDE DEF P
<1>4. P \in SUBSET S /\ IsFiniteSet(P) /\ Cardinality(P) \in Nat
  BY <1>1, <1>3, FS_Subset, FS_CardinalityType
<1>5. Cardinality(P) <= PageSize
  <2> DEFINE I == offset..(offset + PageSize - 1)
             f == [r \in P |-> Rank(S, r)]
  <2>1. f \in Injection(P, I)
    <3>1. f \in [P -> I]
      <4>1. \A r \in P : Rank(S, r) \in Nat /\ Rank(S, r) >= offset /\ Rank(S, r) < offset + PageSize
        BY <1>2, <1>3, Zenon
      <4>2. \A r \in P : Rank(S, r) \in I
        BY <1>1, <4>1
      <4> QED BY <4>2, Zenon
    <3>2. \A r, q \in P : f[r] = f[q] => r = q
      <4> SUFFICES ASSUME NEW r \in P, NEW q \in P, r # q PROVE f[r] # f[q]
        OBVIOUS
      <4>1. r \in S /\ q \in S /\ r \in Nat /\ q \in Nat
        BY <1>1, <1>4
      <4>2. r < q \/ q < r
        BY <4>1
      <4>3. Rank(S, r) \in Nat /\ Rank(S, q) \in Nat
        BY <1>2, <4>1
      <4>4. Rank(S, r) < Rank(S, q) \/ Rank(S, q) < Rank(S, r)
        BY <1>1, <4>1, <4>2, Ranks
      <4> QED BY <4>3, <4>4
    <3> QED BY <3>1, <3>2 DEF Injection, IsInjective
  <2>2. IsFiniteSet(I) /\ Cardinality(I) = PageSize
    <3>1. offset \in Int /\ offset + PageSize - 1 \in Int
      BY <1>1
    <3>2. IsFiniteSet(I) /\ Cardinality(I) = IF offset > offset + PageSize - 1 THEN 0
                                             ELSE (offset + PageSize - 1) - offset + 1
      BY <3>1, FS_Interval
    <3> QED BY <1>1, <3>2
  <2> HIDE DEF f, I
  <2>3. Cardinality(P) <= Cardinality(I)
    BY <2>1, <2>2, FS_Injection
  <2> QED BY <2>2, <2>3
<1>6. \A r \in S : Rank(S, r) >= offset /\ Rank(S, r) < offset + Cardinality(P) => r \in P
  BY <1>1, <1>2, <1>3, <1>4, <1>5
<1> QED BY <1>3, <1>4, <1>5, <1>6 DEF P

\* What a later page lists is what the first one listed when there are as many.
LEMMA SameListing ==
    ASSUME NvdScan!NvdAssumption, NEW S \in SUBSET Records, NEW T \in SUBSET S,
           NvdScan!Cardinality(T) = Cardinality(S)
    PROVE  T = S
BY NvdNumber, NvdConstants, FS_Subset, Zenon

LEMMA Quotient ==
    ASSUME NEW d \in Int, NEW w \in Int, w > 0
    PROVE  (d \div w) \in Int /\ (d \div w) * w <= d /\ d < (d \div w) * w + w
OBVIOUS

LEMMA Multiples ==
    \A i \in Nat, n \in Nat, w \in Nat : i * w \in Nat /\ (i <= n => i * w <= n * w)
OBVIOUS

\* The windows of a run.
LEMMA WindowsFollow ==
    ASSUME NvdScan!NvdAssumption, NEW start \in Int, NEW end \in Int, start <= end,
           start >= LeastStart, end >= LeastCursor
    PROVE  LET ws == NvdScan!Windows(start, end) IN
           /\ ws \in Seq(Int \X Int) /\ Follow(ws, end)
           /\ IF ws = <<>> THEN start = end ELSE ws[1][1] = start
<1> DEFINE W == WindowDays
           n == (end - start + W - 1) \div W
           ws == NvdScan!Windows(start, end)
           E(i) == NvdScan!AtMost(start + i * W, end)
<1>1. /\ W \in Nat /\ W > 0 /\ Overlap <= W /\ Lag <= Overlap /\ Lag \in Nat /\ Overlap \in Nat
      /\ LeastStart \in Int /\ LeastCursor = LeastStart + Overlap
  BY NvdConstants
<1>2. n \in Nat /\ n * W >= end - start /\ n * W - W < end - start
  <2>1. end - start + W - 1 \in Int /\ W \in Int
    BY <1>1
  <2>2. n \in Int /\ n * W <= end - start + W - 1 /\ end - start + W - 1 < n * W + W
    BY <1>1, <2>1, Quotient
  <2>3. n >= 0
    BY <1>1, <2>2
  <2> QED BY <1>1, <2>2, <2>3
<1>3. ws = [i \in 1..n |-> <<start + (i - 1) * W, E(i)>>]
  BY DEF NvdScan!Windows
<1> HIDE DEF n, ws
<1>4. \A i \in 0..n : i * W \in Nat /\ i * W <= n * W
  BY <1>1, <1>2, Multiples
<1>5. \A i \in 1..n : (i - 1) * W \in Nat /\ i * W = (i - 1) * W + W /\ i * W \in Nat
  <2> TAKE i \in 1..n
  <2>1. i - 1 \in Nat /\ i \in Nat
    BY <1>2
  <2>2. (i - 1) * W \in Nat /\ i * W \in Nat
    BY <1>1, <2>1, Multiples
  <2>3. i * W = (i - 1) * W + W
    BY <1>1, <2>1
  <2> QED BY <2>2, <2>3
<1>6. \A i \in 1..n : i < n => start + i * W < end
  <2> SUFFICES ASSUME NEW i \in 1..n, i < n PROVE start + i * W < end
    OBVIOUS
  <2>1. i + 1 \in 0..n /\ i + 1 \in 1..n
    BY <1>2
  <2>2. (i + 1) * W <= n * W
    BY <1>4, <2>1
  <2>3. (i + 1) * W = i * W + W /\ i * W \in Nat
    <3>1. (i + 1 - 1) * W = i * W
      BY <1>2
    <3> QED BY <1>5, <2>1, <3>1
  <2>4. n * W \in Nat
    BY <1>1, <1>2, Multiples
  <2> QED BY <1>1, <1>2, <2>2, <2>3, <2>4
<1>7. \A i \in 1..n : start + (i - 1) * W < end
  <2> TAKE i \in 1..n
  <2>1. CASE i = 1
    <3>1. (i - 1) * W = 0
      BY <1>1, <2>1
    <3>2. start # end
      <4> SUFFICES ASSUME start = end PROVE FALSE
        OBVIOUS
      <4>1. n >= 1
        BY <1>2
      <4>2. n * W >= 1 * W
        BY <1>1, <1>2, <4>1, Multiples
      <4>3. n * W \in Nat
        BY <1>1, <1>2, Multiples
      <4> QED BY <1>1, <1>2, <4>2, <4>3
    <3> QED BY <3>1, <3>2
  <2>2. CASE i # 1
    <3>1. i - 1 \in 1..n /\ i - 1 < n
      BY <1>2, <2>2
    <3> QED BY <1>6, <3>1
  <2> QED BY <2>1, <2>2
<1>8. \A i \in 1..n :
         /\ E(i) \in Int /\ E(i) <= end
         /\ i < n => E(i) = start + i * W
         /\ E(i) > start + (i - 1) * W /\ E(i) >= LeastCursor
         /\ i = n => E(i) = end
  <2> TAKE i \in 1..n
  <2>1. /\ E(i) = IF start + i * W < end THEN start + i * W ELSE end
        /\ (i - 1) * W \in Nat /\ i * W = (i - 1) * W + W /\ start + (i - 1) * W < end
        /\ i < n => start + i * W < end
    BY <1>5, <1>6, <1>7 DEF NvdScan!AtMost
  <2>2. i = n => ~(start + i * W < end)
    BY <1>1, <1>2, <2>1
  <2> HIDE DEF E
  <2> QED BY <1>1, <2>1, <2>2
<1> HIDE DEF E
<1>9. ws \in Seq(Int \X Int) /\ Len(ws) = n
  <2>1. ws \in [1..n -> Int \X Int]
    BY <1>3, <1>5, <1>8
  <2> QED BY <1>2, <1>3, <2>1
<1>10. \A i \in 1..n : ws[i][1] = start + (i - 1) * W /\ ws[i][2] = E(i)
  BY <1>3
<1>11. Follow(ws, end)
  <2>1. \A i \in 1..n :
           /\ ws[i][1] >= LeastStart /\ ws[i][1] < ws[i][2]
           /\ ws[i][2] >= LeastCursor /\ ws[i][2] <= end
    BY <1>1, <1>5, <1>8, <1>10
  <2>2. \A i \in 1..n : i < n => ws[i][2] = ws[i + 1][1] /\ ws[i][2] - ws[i][1] >= Lag
    <3> SUFFICES ASSUME NEW i \in 1..n, i < n
                 PROVE  ws[i][2] = ws[i + 1][1] /\ ws[i][2] - ws[i][1] >= Lag
      OBVIOUS
    <3>1. i + 1 \in 1..n
      BY <1>2
    <3>2. ws[i + 1][1] = start + (i + 1 - 1) * W /\ (i + 1 - 1) * W = i * W
      BY <1>2, <1>10, <3>1
    <3> QED BY <1>1, <1>5, <1>8, <1>10, <3>2
  <2>3. ws # <<>> => ws[n][2] = end
    <3>1. ws # <<>> => n \in 1..n
      BY <1>2, <1>9
    <3> QED BY <1>8, <1>10, <3>1
  <2> QED BY <1>9, <2>1, <2>2, <2>3 DEF Follow
<1>12. IF ws = <<>> THEN start = end ELSE ws[1][1] = start
  <2>1. CASE n = 0
    <3>1. ws = <<>>
      BY <1>9, <2>1
    <3> QED BY <1>1, <1>2, <2>1, <3>1
  <2>2. CASE n # 0
    <3>1. 1 \in 1..n /\ ws # <<>> /\ (1 - 1) * W = 0
      BY <1>1, <1>2, <1>9, <2>2
    <3> QED BY <1>10, <3>1
  <2> QED BY <2>1, <2>2
<1> QED BY <1>9, <1>11, <1>12 DEF ws

\* The windows after the first one.
LEMMA TailFollows ==
    ASSUME NEW ws \in Seq(Int \X Int), ws # <<>>, NEW end \in Int, Follow(ws, end)
    PROVE  /\ Tail(ws) \in Seq(Int \X Int) /\ Follow(Tail(ws), end)
           /\ IF Tail(ws) = <<>> THEN ws[1][2] = end ELSE Tail(ws)[1][1] = ws[1][2]
           /\ Tail(ws) # <<>> /\ NvdScan!Prompt => ws[1][2] - ws[1][1] >= Lag
<1> DEFINE t == Tail(ws)  n == Len(ws)
<1>1. /\ t \in Seq(Int \X Int) /\ n \in Nat /\ n > 0 /\ Len(t) = n - 1
      /\ \A i \in 1..(n - 1) : t[i] = ws[i + 1]
  OBVIOUS
<1> HIDE DEF t, n
<1>2. t = <<>> <=> n = 1
  <2>1. t = <<>> <=> Len(t) = 0
    BY <1>1
  <2> QED BY <1>1, <2>1
<1>3. /\ \A i \in 1..n : /\ ws[i][1] >= LeastStart /\ ws[i][1] < ws[i][2]
                         /\ ws[i][2] >= LeastCursor /\ ws[i][2] <= end
      /\ \A i \in 1..n : i < n => /\ ws[i][2] = ws[i + 1][1]
                                  /\ NvdScan!Prompt => ws[i][2] - ws[i][1] >= Lag
      /\ ws[n][2] = end
  BY DEF Follow, n
<1>4. \A i \in 1..(n - 1) : i + 1 \in 1..n
  BY <1>1
<1>5. Follow(t, end)
  <2>1. \A i \in 1..(n - 1) : /\ t[i][1] >= LeastStart /\ t[i][1] < t[i][2]
                              /\ t[i][2] >= LeastCursor /\ t[i][2] <= end
    BY <1>1, <1>3, <1>4
  <2>2. \A i \in 1..(n - 1) : i < n - 1 => /\ t[i][2] = t[i + 1][1]
                                           /\ NvdScan!Prompt => t[i][2] - t[i][1] >= Lag
    <3> SUFFICES ASSUME NEW i \in 1..(n - 1), i < n - 1
                 PROVE  /\ t[i][2] = t[i + 1][1]
                        /\ NvdScan!Prompt => t[i][2] - t[i][1] >= Lag
      OBVIOUS
    <3>1. i + 1 \in 1..n /\ i + 1 < n /\ i + 1 \in 1..(n - 1)
      BY <1>1
    <3>2. t[i] = ws[i + 1] /\ t[i + 1] = ws[i + 1 + 1]
      BY <1>1, <3>1
    <3>3. /\ ws[i + 1][2] = ws[i + 1 + 1][1]
          /\ NvdScan!Prompt => ws[i + 1][2] - ws[i + 1][1] >= Lag
      BY <1>3, <3>1
    <3> QED BY <3>2, <3>3
  <2>3. t # <<>> => t[n - 1][2] = end
    <3> SUFFICES ASSUME n # 1 PROVE t[n - 1][2] = end
      BY <1>2
    <3>1. n - 1 \in 1..(n - 1) /\ (n - 1) + 1 = n
      BY <1>1
    <3> QED BY <1>1, <1>3, <3>1
  <2> QED BY <1>1, <2>1, <2>2, <2>3 DEF Follow
<1>6. CASE n = 1
  BY <1>1, <1>2, <1>3, <1>5, <1>6 DEF t
<1>7. CASE n # 1
  <2>1. 1 \in 1..n /\ 1 < n /\ 1 \in 1..(n - 1) /\ 1 + 1 = 2
    BY <1>1, <1>7
  <2>2. t[1] = ws[2] /\ ws[1][2] = ws[2][1] /\ (NvdScan!Prompt => ws[1][2] - ws[1][1] >= Lag)
    BY <1>1, <1>3, <2>1
  <2> QED BY <1>1, <1>2, <1>5, <1>7, <2>2 DEF t
<1> QED BY <1>6, <1>7

\* The first window in two, then the others.
Halved(ws, a, b) == <<<<a, (a + b) \div 2>>, <<(a + b) \div 2, b>>>> \o Tail(ws)

\* A split of the first window.
LEMMA SplitFollows ==
    ASSUME NvdScan!NvdAssumption, NEW ws \in Seq(Int \X Int), ws # <<>>, NEW end \in Int,
           Follow(ws, end), NEW a \in Int, NEW b \in Int, ws[1] = <<a, b>>,
           b - a > MinSplit, b >= Oldest
    PROVE  LET split == Halved(ws, a, b) IN
           /\ split \in Seq(Int \X Int) /\ Follow(split, end)
           /\ split # <<>> /\ split[1][1] = a
<1> DEFINE m == (a + b) \div 2
           t == Tail(ws)
           n == Len(ws)
           split == <<<<a, m>>, <<m, b>>>> \o t
<1>1. /\ MinSplit \in Nat /\ MinSplit > 0 /\ Lag \in Nat /\ Overlap \in Nat
      /\ LeastStart \in Nat /\ LeastCursor = LeastStart + Overlap
      /\ Oldest >= LeastStart + 2 * Overlap /\ Oldest \in Nat
      /\ NvdScan!Prompt => 2 * Lag <= MinSplit
  <2>1. /\ MinSplit \in Nat /\ MinSplit > 0 /\ Lag \in Nat /\ Overlap \in Nat /\ Backfill \in Nat
        /\ LeastStart = 0 /\ LeastCursor = Overlap /\ Oldest = Backfill + 2 * Overlap
    BY NvdConstants
  <2>2. NvdScan!Prompt => 2 * Lag <= MinSplit
    BY DEF NvdScan!Prompt
  <2> QED BY <2>1, <2>2
<1>2. n \in Nat /\ n > 0 /\ t \in Seq(Int \X Int) /\ Len(t) = n - 1
      /\ \A i \in 1..(n - 1) : t[i] = ws[i + 1]
  OBVIOUS
<1>3. /\ \A i \in 1..n : /\ ws[i][1] >= LeastStart /\ ws[i][1] < ws[i][2]
                         /\ ws[i][2] >= LeastCursor /\ ws[i][2] <= end
      /\ \A i \in 1..n : i < n => /\ ws[i][2] = ws[i + 1][1]
                                  /\ NvdScan!Prompt => ws[i][2] - ws[i][1] >= Lag
      /\ ws[n][2] = end
  BY DEF Follow
<1>4. 1 \in 1..n /\ ws[1][1] = a /\ ws[1][2] = b
  BY <1>2
<1>5. /\ m \in Int /\ a < m /\ m < b
      /\ a >= LeastStart /\ b >= LeastCursor /\ b <= end
  <2>1. m \in Int /\ a < m /\ m < b
    <3>1. b - a >= 2
      BY <1>1
    <3> QED BY <3>1
  <2>2. a >= LeastStart /\ b >= LeastCursor /\ b <= end
    <3> HIDE DEF m, t, n, split
    <3> QED BY <1>3, <1>4
  <2> QED BY <2>1, <2>2
<1>6. m >= LeastCursor
  <2>1. a + b >= 2 * LeastCursor
    BY <1>1, <1>5
  <2> QED BY <1>1, <2>1
<1>7. NvdScan!Prompt => m - a >= Lag /\ b - m >= Lag
  BY <1>1
<1> HIDE DEF m, t
<1>between. /\ m >= LeastStart /\ m <= end
  BY <1>1, <1>5, <1>6
<1>8. /\ split \in Seq(Int \X Int) /\ Len(split) = n + 1
      /\ split[1] = <<a, m>> /\ split[2] = <<m, b>>
      /\ \A i \in 3..(n + 1) : split[i] = t[i - 2]
  BY <1>2, <1>5
<1> HIDE DEF split, n
<1>9. \A i \in 3..(n + 1) : split[i] = ws[i - 1]
  <2> TAKE i \in 3..(n + 1)
  <2>1. i - 2 \in 1..(n - 1) /\ (i - 2) + 1 = i - 1
    BY <1>2
  <2> QED BY <1>2, <1>8, <2>1
<1>10. \A i \in 1..(n + 1) : /\ split[i][1] >= LeastStart /\ split[i][1] < split[i][2]
                             /\ split[i][2] >= LeastCursor /\ split[i][2] <= end
  <2> TAKE i \in 1..(n + 1)
  <2>1. CASE i = 1
    <3>1. split[i][1] = a /\ split[i][2] = m
      BY <1>8, <2>1
    <3> QED BY <1>5, <1>6, <1>between, <3>1
  <2>2. CASE i = 2
    <3>1. split[i][1] = m /\ split[i][2] = b
      BY <1>8, <2>2
    <3> QED BY <1>5, <1>6, <1>between, <3>1
  <2>3. CASE i > 2
    <3>1. i \in 3..(n + 1) /\ i - 1 \in 1..n
      BY <1>2, <2>3
    <3> QED BY <1>3, <1>9, <3>1
  <2> QED BY <1>2, <2>1, <2>2, <2>3
<1>11. \A i \in 1..(n + 1) : i < n + 1 => /\ split[i][2] = split[i + 1][1]
                                          /\ NvdScan!Prompt => split[i][2] - split[i][1] >= Lag
  <2> SUFFICES ASSUME NEW i \in 1..(n + 1), i < n + 1
               PROVE  /\ split[i][2] = split[i + 1][1]
                      /\ NvdScan!Prompt => split[i][2] - split[i][1] >= Lag
    OBVIOUS
  <2>1. CASE i = 1
    <3>1. split[1][1] = a /\ split[1][2] = m /\ split[2][1] = m
      BY <1>8
    <3>2. split[i][1] = a /\ split[i][2] = m /\ split[i + 1][1] = m
      BY <2>1, <3>1
    <3> QED BY <1>7, <3>2
  <2>2. CASE i = 2
    <3>1. n > 1 /\ 3 \in 3..(n + 1) /\ 3 - 1 = 2 /\ 2 + 1 = 3
      BY <1>2, <2>2
    <3>2. split[3] = ws[2]
      BY <1>9, <3>1
    <3>3. 1 \in 1..n /\ 1 < n /\ 1 + 1 = 2
      BY <1>4, <3>1
    <3>4. ws[1][2] = ws[2][1]
      BY <1>3, <3>3
    <3>5. split[2][1] = m /\ split[2][2] = b /\ ws[1][2] = b
      BY <1>4, <1>8
    <3>6. split[i][1] = m /\ split[i][2] = b /\ split[i + 1][1] = b
      BY <2>2, <3>1, <3>2, <3>4, <3>5
    <3> QED BY <1>7, <3>6
  <2>3. CASE i > 2
    <3>1. i \in 3..(n + 1) /\ i + 1 \in 3..(n + 1) /\ i - 1 \in 1..n /\ i - 1 < n /\ (i - 1) + 1 = (i + 1) - 1
      BY <1>2, <2>3
    <3>2. split[i] = ws[i - 1] /\ split[i + 1] = ws[(i - 1) + 1]
      BY <1>9, <3>1
    <3> QED BY <1>3, <3>1, <3>2
  <2> QED BY <1>2, <2>1, <2>2, <2>3
<1>12. split[n + 1][2] = end
  <2>1. CASE n = 1
    BY <1>3, <1>4, <1>8, <2>1
  <2>2. CASE n # 1
    <3>1. n + 1 \in 3..(n + 1) /\ (n + 1) - 1 = n
      BY <1>2, <2>2
    <3> QED BY <1>3, <1>9, <3>1
  <2> QED BY <2>1, <2>2
<1>13. Follow(split, end)
  BY <1>8, <1>10, <1>11, <1>12 DEF Follow
<1>14. split # <<>> /\ split[1][1] = a
  BY <1>2, <1>8
<1> QED BY <1>8, <1>13, <1>14 DEF Halved, split, m, t

LEMMA NvdStart == NvdScan!NvdAssumption /\ NvdScan!Init => NvdKnows
<1> SUFFICES ASSUME NvdScan!NvdAssumption, NvdScan!Init PROVE NvdKnows
  OBVIOUS
<1>1. /\ now = NvdScan!Start
      /\ history \in [Records -> {{}} \cup {{NvdScan!Start - i} : i \in 0..Lag}]
      /\ stored = [r \in Records |-> 0] /\ cursor = NvdScan!None
      /\ marks = [mode |-> FALSE, initialized |-> FALSE] /\ from = NvdScan!None
      /\ run = NvdScan!Idle
  BY DEF NvdScan!Init
<1>2. NvdScan!Start \in Nat /\ Lag \in Nat /\ NvdScan!Start <= MaxTime /\ MaxTime \in Nat
      /\ Oldest = NvdScan!Start - Lag
  BY NvdConstants DEF Oldest
<1>3. \A r \in Records : history[r] = {} \/ \E h \in Oldest..now : history[r] = {h}
  <2> TAKE r \in Records
  <2>1. history[r] \in {{}} \cup {{NvdScan!Start - i} : i \in 0..Lag}
    BY <1>1
  <2>2. ASSUME NEW i \in 0..Lag PROVE NvdScan!Start - i \in Oldest..now
    BY <1>1, <1>2
  <2> QED BY <2>1, <2>2
<1>4. history \in [Records -> SUBSET (Oldest..now)]
  BY <1>1, <1>3
<1>5. NvdShapes
  <2>1. now \in NvdScan!Start..MaxTime /\ 0 \in 0..MaxTime
    BY <1>1, <1>2
  <2> QED BY <1>1, <1>4, <2>1 DEF NvdShapes
<1>6. HistoryIsKnown
  <2> SUFFICES ASSUME NEW r \in Records, NEW n \in Int PROVE HasLatest({u \in history[r] : u <= n})
    BY DEF HistoryIsKnown
  <2>1. CASE history[r] = {}
    BY <2>1 DEF HasLatest
  <2>2. ASSUME NEW h \in Oldest..now, history[r] = {h} PROVE HasLatest({u \in history[r] : u <= n})
    <3>1. h <= h
      BY <1>1, <1>2
    <3> QED BY <2>2, <3>1 DEF HasLatest
  <2> QED BY <1>3, <2>1, <2>2
<1> QED BY <1>1, <1>5, <1>6 DEF NvdKnows, MetaIsTrue, RunIsSound, PageIsTrue

LEMMA NvdStays == NvdKnows /\ UNCHANGED NvdScan!vars => NvdKnows'
<1> SUFFICES ASSUME NvdKnows, UNCHANGED NvdScan!vars PROVE NvdKnows'
  OBVIOUS
<1>1. /\ now' = now /\ history' = history /\ stored' = stored /\ cursor' = cursor
      /\ marks' = marks /\ from' = from /\ run' = run
  BY DEF NvdScan!vars
<1>2. NvdShapes' /\ HistoryIsKnown' /\ MetaIsTrue'
  BY <1>1 DEF NvdKnows, NvdShapes, HistoryIsKnown, MetaIsTrue
<1>3. RunIsSound'
  BY <1>1 DEF NvdKnows, RunIsSound, Reached, NvdScan!Window
<1>4. PageIsTrue'
  <2>1. \A r, n : NvdScan!Seen(r, n)' = NvdScan!Seen(r, n)
    BY <1>1 DEF NvdScan!Seen
  <2>2. /\ NvdScan!Window' = NvdScan!Window
        /\ NvdScan!Listed(NvdScan!Window, run.page.stamp)' = NvdScan!Listed(NvdScan!Window, run.page.stamp)
    BY <1>1, <2>1 DEF NvdScan!Window, NvdScan!Listed
  <2> QED BY <1>1, <2>1, <2>2 DEF NvdKnows, PageIsTrue, PagesRead
<1> QED BY <1>2, <1>3, <1>4 DEF NvdKnows

\* The clock goes on, and a record may be modified.
LEMMA TimePasses ==
    ASSUME NvdScan!NvdAssumption, NvdKnows,
           NvdScan!Tick \/ \E r \in Records : NvdScan!Modify(r)
    PROVE  /\ now' = now + 1 /\ now < MaxTime /\ stored' = stored /\ cursor' = cursor
           /\ marks' = marks /\ from' = from /\ run' = run
           /\ history' \in [Records -> SUBSET (Oldest..now')]
           /\ \A q \in Records, n \in Int : n <= now => NvdScan!Seen(q, n)' = NvdScan!Seen(q, n)
           /\ \A q \in Records : \/ NvdScan!Latest(history'[q]) = NvdScan!Latest(history[q])
                                 \/ NvdScan!Latest(history'[q]) = now + 1
           /\ HistoryIsKnown'
<1>1. /\ now' = now + 1 /\ now < MaxTime /\ stored' = stored /\ cursor' = cursor
      /\ marks' = marks /\ from' = from /\ run' = run
      /\ history' = history \/ \E r \in Records : history' = [history EXCEPT ![r] = history[r] \cup {now + 1}]
  BY DEF NvdScan!Tick, NvdScan!Modify
<1>2. /\ now \in Int /\ Oldest \in Int /\ Oldest <= now
      /\ history \in [Records -> SUBSET (Oldest..now)]
  BY NvdConstants DEF NvdKnows, NvdShapes
<1>3. \A q \in Records : history[q] \in SUBSET (Oldest..now)
  BY <1>2
<1>4. \A q \in Records : history'[q] = history[q] \/ history'[q] = history[q] \cup {now + 1}
  BY <1>1, <1>2
<1>5. history' \in [Records -> SUBSET (Oldest..now')]
  <2>1. \A q \in Records : history'[q] \in SUBSET (Oldest..now')
    <3> TAKE q \in Records
    <3>1. history[q] \in SUBSET (Oldest..now') /\ now + 1 \in Oldest..now'
      BY <1>1, <1>2, <1>3
    <3> QED BY <1>4, <3>1
  <2>2. history' = [q \in Records |-> history'[q]]
    BY <1>1, <1>2
  <2> QED BY <2>1, <2>2
<1>6. \A q \in Records, n \in Int : n <= now => {u \in history'[q] : u <= n} = {u \in history[q] : u <= n}
  <2> TAKE q \in Records, n \in Int
  <2> HAVE n <= now
  <2>1. ~(now + 1 <= n)
    BY <1>2
  <2> QED BY <1>4, <2>1
<1>7. \A q \in Records, n \in Int : n <= now => NvdScan!Seen(q, n)' = NvdScan!Seen(q, n)
  BY <1>6 DEF NvdScan!Seen
<1>8. \A q \in Records : history'[q] = history[q] \cup {now + 1} =>
          NvdScan!Latest(history'[q]) = now + 1
  <2> TAKE q \in Records
  <2> HAVE history'[q] = history[q] \cup {now + 1}
  <2>1. /\ now + 1 \in history'[q] /\ history'[q] \in SUBSET Int
        /\ \A u \in history'[q] : u <= now + 1
    BY <1>2, <1>3
  <2> QED BY <2>1, LatestIs
<1>9. HistoryIsKnown'
  <2> SUFFICES ASSUME NEW q \in Records, NEW n \in Int
               PROVE  HasLatest({u \in history'[q] : u <= n})
    BY DEF HistoryIsKnown
  <2>1. HasLatest({u \in history[q] : u <= n})
    BY DEF NvdKnows, HistoryIsKnown
  <2>2. CASE history'[q] = history[q]
    BY <2>1, <2>2
  <2>3. CASE history'[q] = history[q] \cup {now + 1} /\ now + 1 <= n
    <3> DEFINE S == {u \in history'[q] : u <= n}
    <3>1. now + 1 \in S /\ \A u \in S : u <= now + 1
      BY <1>2, <1>3, <2>3
    <3> QED BY <3>1 DEF HasLatest
  <2>4. CASE ~(now + 1 <= n)
    <3>1. n <= now
      BY <1>2, <2>4
    <3> QED BY <1>6, <2>1, <3>1
  <2> QED BY <1>4, <2>2, <2>3, <2>4
<1> QED BY <1>1, <1>4, <1>5, <1>7, <1>8, <1>9

LEMMA NvdTime ==
    ASSUME NvdScan!NvdAssumption, NvdKnows,
           NvdScan!Tick \/ \E r \in Records : NvdScan!Modify(r)
    PROVE  NvdKnows'
<1>1. /\ now' = now + 1 /\ now < MaxTime /\ stored' = stored /\ cursor' = cursor
      /\ marks' = marks /\ from' = from /\ run' = run
      /\ history' \in [Records -> SUBSET (Oldest..now')]
      /\ \A q \in Records, n \in Int : n <= now => NvdScan!Seen(q, n)' = NvdScan!Seen(q, n)
      /\ HistoryIsKnown'
  BY TimePasses
<1>2. /\ now \in NvdScan!Start..MaxTime /\ NvdScan!Start \in Nat /\ MaxTime \in Nat /\ Lag \in Nat
      /\ LeastCursor \in Int
  BY NvdConstants DEF NvdKnows, NvdShapes
<1>3. NvdShapes'
  <2>1. now' \in NvdScan!Start..MaxTime
    BY <1>1, <1>2
  <2>2. cursor' = NvdScan!None \/ cursor' \in LeastCursor..now'
    BY <1>1, <1>2 DEF NvdKnows, NvdShapes
  <2>3. from' = NvdScan!None \/ from' \in 0..now'
    BY <1>1, <1>2 DEF NvdKnows, NvdShapes
  <2> QED BY <1>1, <2>1, <2>2, <2>3 DEF NvdKnows, NvdShapes
<1>4. MetaIsTrue'
  BY <1>1 DEF NvdKnows, MetaIsTrue
<1>5. RunIsSound'
  <2> SUFFICES ASSUME run # NvdScan!Idle PROVE RunIsSound'
    BY <1>1 DEF RunIsSound
  <2>1. run.end <= now' /\ run.mark \in 0..now'
    <3>1. run.end \in Int /\ run.end <= now /\ run.mark \in 0..now
      BY DEF NvdKnows, NvdShapes, NvdRuns, RunIsSound
    <3> QED BY <1>1, <1>2, <3>1
  <2> QED BY <1>1, <2>1 DEF NvdKnows, RunIsSound, Reached, NvdScan!Window
<1>6. PageIsTrue'
  <2> SUFFICES ASSUME run # NvdScan!Idle, run.page.stamp # NvdScan!None PROVE PageIsTrue'
    BY <1>1 DEF PageIsTrue
  <2>1. run \in NvdRuns
    BY DEF NvdKnows, NvdShapes
  <2>2. run.page.stamp \in (run.end - Lag)..now /\ run.page.stamp \in Int /\ run.end \in Int
    BY <2>1 DEF NvdKnows, PageIsTrue, NvdRuns, NvdPages
  <2>3. NvdScan!Window' = NvdScan!Window
    BY <1>1 DEF NvdScan!Window
  <2>4. NvdScan!Listed(NvdScan!Window, run.page.stamp)' = NvdScan!Listed(NvdScan!Window, run.page.stamp)
    <3>1. \A r \in Records : NvdScan!Seen(r, run.page.stamp)' = NvdScan!Seen(r, run.page.stamp)
      <4> TAKE r \in Records
      <4>1. run.page.stamp \in Int /\ run.page.stamp <= now
        BY <1>2, <2>2
      <4>2. NvdScan!Seen(r, run.page.stamp) = NvdScan!Latest({u \in history[r] : u <= run.page.stamp})
        BY DEF NvdScan!Seen
      <4>3. NvdScan!Seen(r, run.page.stamp)' = NvdScan!Latest({u \in history'[r] : u <= run.page.stamp})
        BY <1>1 DEF NvdScan!Seen
      <4>4. \A n \in Int : n <= now => NvdScan!Latest({u \in history'[r] : u <= n})
                                         = NvdScan!Latest({u \in history[r] : u <= n})
        BY <1>1 DEF NvdScan!Seen
      <4> QED BY <4>1, <4>2, <4>3, <4>4
    <3> QED BY <1>1, <2>3, <3>1 DEF NvdScan!Listed
  <2>5. \A x \in run.page.got : \E t \in run.page.stamp..now' : x[2] = NvdScan!Seen(x[1], t)'
    <3> SUFFICES ASSUME NEW x \in run.page.got
                 PROVE  \E t \in run.page.stamp..now' : x[2] = NvdScan!Seen(x[1], t)'
      OBVIOUS
    <3>1. PICK t \in run.page.stamp..now : x[2] = NvdScan!Seen(x[1], t)
      BY DEF NvdKnows, PageIsTrue, PagesRead
    <3>2. x[1] \in Records
      BY <2>1 DEF NvdRuns, NvdPages
    <3>3. t \in Int /\ t <= now /\ t \in run.page.stamp..now'
      BY <1>1, <1>2, <2>2, <3>1
    <3>4. x[2] = NvdScan!Seen(x[1], t)'
      BY <1>1, <3>1, <3>2, <3>3
    <3> QED BY <3>3, <3>4
  <2>6. run.page.stamp \in (run.end - Lag)..now'
    BY <1>1, <1>2, <2>2
  <2>7. PagesRead(NvdScan!Window, run.page.stamp, run.page.offset, run.page.got)'
    BY <1>1, <2>3, <2>4, <2>5 DEF NvdKnows, PageIsTrue, PagesRead
  <2> QED BY <1>1, <2>3, <2>4, <2>6, <2>7 DEF NvdKnows, PageIsTrue
<1> QED BY <1>1, <1>3, <1>4, <1>5, <1>6 DEF NvdKnows

\* A run begins.
LEMMA NvdBegins ==
    ASSUME NvdScan!NvdAssumption, NvdKnows, run = NvdScan!Idle, NEW start \in Int, NEW initial \in BOOLEAN,
           NEW mark \in 0..now, start >= LeastStart, start <= now, from # NvdScan!None => mark = from,
           initial <=> ~marks.initialized, NvdScan!Begins(start, initial, mark),
           now' = now, history' = history, stored' = stored, cursor' = cursor, marks' = marks, from' = from
    PROVE  /\ NvdKnows' /\ run'.initial = initial /\ run'.mark = mark /\ run'.end = now
           /\ run' # NvdScan!Idle /\ Reached' = start
<1> DEFINE ws == NvdScan!Windows(start, now)
<1>1. run' = [at |-> "reading", end |-> now, windows |-> ws, first |-> TRUE, initial |-> initial,
              mark |-> mark, attempt |-> 1, page |-> NvdScan!Unread]
  BY DEF NvdScan!Begins
<1>2. /\ now \in Int /\ now >= NvdScan!Start /\ NvdScan!Start \in Nat /\ now >= LeastCursor
      /\ LeastStart \in Nat
  BY NvdConstants DEF NvdKnows, NvdShapes
<1>3. ws \in Seq(Int \X Int) /\ Follow(ws, now) /\ (IF ws = <<>> THEN start = now ELSE ws[1][1] = start)
  BY <1>2, WindowsFollow
<1> HIDE DEF ws
<1>4. NvdScan!Unread \in NvdPages /\ NvdScan!Unread.stamp = NvdScan!None
  BY DEF NvdScan!Unread, NvdPages, NvdScan!None
<1>5. run' \in NvdRuns /\ run' # NvdScan!Idle
  <2>1. mark \in Int /\ 1 \in Nat
    OBVIOUS
  <2>2. run' \in NvdRuns
    BY <1>1, <1>2, <1>3, <1>4, <2>1 DEF NvdRuns
  <2>3. run'.at = "reading" /\ NvdScan!Idle.at = "idle"
    BY <1>1 DEF NvdScan!Idle
  <2> QED BY <2>2, <2>3
<1>6. /\ run'.end = now /\ run'.windows = ws /\ run'.first = TRUE /\ run'.initial = initial
      /\ run'.mark = mark /\ run'.page = NvdScan!Unread
  BY <1>1
<1>7. Reached' = start
  BY <1>3, <1>6 DEF Reached, NvdScan!Window
<1>8. NvdShapes' /\ HistoryIsKnown' /\ MetaIsTrue'
  BY <1>5 DEF NvdKnows, NvdShapes, HistoryIsKnown, MetaIsTrue
<1>9. RunIsSound'
  BY <1>2, <1>3, <1>6, <1>7 DEF RunIsSound
<1>10. PageIsTrue'
  BY <1>4, <1>6 DEF PageIsTrue
<1> QED BY <1>5, <1>6, <1>7, <1>8, <1>9, <1>10 DEF NvdKnows

\* One more page of the same listing.
LEMMA PagesAdd ==
    ASSUME NvdScan!NvdAssumption, NvdKnows, NEW w \in Int \X Int, NEW s \in Int, NEW t \in s..now,
           NvdScan!Listed(w, t) = NvdScan!Listed(w, s), NEW offset \in Nat,
           NEW got \in SUBSET (Records \X Int), PagesRead(w, s, offset, got),
           NEW P, P = NvdScan!OnPage(NvdScan!Listed(w, s), offset), P \cap {x[1] : x \in got} = {},
           NEW more, more = {<<r, NvdScan!Seen(r, t)>> : r \in P}
    PROVE  /\ PagesRead(w, s, offset + Cardinality(P), got \cup more)
           /\ got \cup more \in SUBSET (Records \X Int)
           /\ Cardinality(P) \in Nat
<1> DEFINE S == NvdScan!Listed(w, s)
<1>1. S \in SUBSET Records /\ \A r \in S : NvdScan!Seen(r, t) \in w[1]..w[2]
  BY DEF NvdScan!Listed
<1>2. /\ P \in SUBSET S /\ Cardinality(P) \in Nat
      /\ \A r \in S : Rank(S, r) >= offset /\ Rank(S, r) < offset + Cardinality(P) => r \in P
  BY <1>1, Paged
<1>3. IsFiniteSet(S) /\ S \in SUBSET Nat
  BY <1>1, NvdConstants, FS_Subset
<1>4. \A r \in S : Rank(S, r) \in Nat
  BY <1>3, Ranks
<1>5. w[1] \in Int /\ w[2] \in Int /\ t \in Int
  BY NvdConstants DEF NvdKnows, NvdShapes
<1> HIDE DEF S
<1>6. \A x \in more : /\ x[1] \in P /\ x[2] = NvdScan!Seen(x[1], t)
                      /\ x[2] \in Int /\ x[2] >= w[1] /\ x[2] <= w[2] /\ x = <<x[1], x[2]>>
  <2> SUFFICES ASSUME NEW r \in P
               PROVE  /\ NvdScan!Seen(r, t) \in Int /\ NvdScan!Seen(r, t) >= w[1]
                      /\ NvdScan!Seen(r, t) <= w[2]
    OBVIOUS
  <2>1. NvdScan!Seen(r, t) \in w[1]..w[2]
    BY <1>1, <1>2
  <2> QED BY <1>5, <2>1
<1>7. \A r \in P : \E x \in more : x[1] = r
  <2> TAKE r \in P
  <2>1. <<r, NvdScan!Seen(r, t)>> \in more
    OBVIOUS
  <2> QED BY <2>1
<1>8. /\ \A x \in got : /\ x[1] \in S
                        /\ x[2] >= w[1] /\ x[2] <= w[2]
                        /\ \E n \in s..now : x[2] = NvdScan!Seen(x[1], n)
      /\ \A x, y \in got : x[1] = y[1] => x = y
      /\ \A r \in S : Rank(S, r) < offset => \E x \in got : x[1] = r
  BY DEF PagesRead, S
<1>9. \A x \in got \cup more : /\ x[1] \in S
                               /\ x[2] >= w[1] /\ x[2] <= w[2]
                               /\ \E n \in s..now : x[2] = NvdScan!Seen(x[1], n)
  BY <1>2, <1>6, <1>8
<1>10. \A x, y \in got \cup more : x[1] = y[1] => x = y
  <2> SUFFICES ASSUME NEW x \in got \cup more, NEW y \in got \cup more, x[1] = y[1] PROVE x = y
    OBVIOUS
  <2>1. CASE x \in got /\ y \in got
    BY <1>8, <2>1
  <2>2. CASE x \in more /\ y \in more
    BY <1>6, <2>2
  <2>3. CASE x \in got /\ y \in more
    BY <1>6, <2>3
  <2>4. CASE x \in more /\ y \in got
    BY <1>6, <2>4
  <2> QED BY <2>1, <2>2, <2>3, <2>4
<1>11. \A r \in S : Rank(S, r) < offset + Cardinality(P) => \E x \in got \cup more : x[1] = r
  <2> SUFFICES ASSUME NEW r \in S, Rank(S, r) < offset + Cardinality(P)
               PROVE  \E x \in got \cup more : x[1] = r
    OBVIOUS
  <2>1. CASE Rank(S, r) < offset
    BY <1>8, <2>1
  <2>2. CASE Rank(S, r) >= offset
    BY <1>2, <1>7, <2>2
  <2> QED BY <1>4, <2>1, <2>2
<1>12. got \cup more \in SUBSET (Records \X Int)
  <2>1. \A x \in more : x[1] \in Records
    BY <1>1, <1>2, <1>6
  <2> QED BY <1>6, <2>1
<1>13. PagesRead(w, s, offset + Cardinality(P), got \cup more)
  BY <1>9, <1>10, <1>11 DEF PagesRead, S
<1> QED BY <1>2, <1>12, <1>13

\* A run that reads has a first window.
LEMMA NvdReads ==
    ASSUME NvdScan!NvdAssumption, NvdKnows, run.at = "reading", run.windows # <<>>
    PROVE  /\ run # NvdScan!Idle /\ run \in NvdRuns
           /\ NvdScan!Window \in Int \X Int
           /\ NvdScan!Window[1] >= LeastStart /\ NvdScan!Window[1] < NvdScan!Window[2]
           /\ NvdScan!Window[2] >= LeastCursor /\ NvdScan!Window[2] <= run.end
           /\ run.end \in Int /\ run.end >= NvdScan!Start /\ run.end <= now
           /\ now \in Int /\ LeastStart \in Nat /\ LeastCursor \in Nat
           /\ Reached = NvdScan!Window[1]
<1>1. run # NvdScan!Idle
  BY DEF NvdScan!Idle
<1>2. run \in NvdRuns
  BY <1>1 DEF NvdKnows, NvdShapes
<1>3. run.windows \in Seq(Int \X Int) /\ run.end \in Int
  BY <1>2 DEF NvdRuns
<1>4. 1 \in 1..Len(run.windows) /\ run.windows[1] \in Int \X Int
  BY <1>3
<1>5. Follow(run.windows, run.end) /\ run.end >= NvdScan!Start /\ run.end <= now
  BY <1>1 DEF NvdKnows, RunIsSound
<1>6. now \in Int /\ LeastStart \in Nat /\ LeastCursor \in Nat
  BY NvdConstants DEF NvdKnows, NvdShapes
<1> QED BY <1>1, <1>2, <1>3, <1>4, <1>5, <1>6 DEF Follow, NvdScan!Window, Reached

\* A run ends, whatever it set.
LEMMA NvdEnds ==
    ASSUME NvdKnows, run' = NvdScan!Idle, now' = now, history' = history, stored' = stored,
           \/ cursor' = cursor /\ from' = from /\ marks' = marks
           \/ /\ cursor' \in LeastCursor..now /\ cursor' # NvdScan!None
              /\ from' \in 0..now /\ from' # NvdScan!None
              /\ marks' = [mode |-> TRUE, initialized |-> TRUE]
    PROVE  NvdKnows'
<1>1. marks' \in [mode : BOOLEAN, initialized : BOOLEAN]
  <2>1. marks \in [mode : BOOLEAN, initialized : BOOLEAN]
    BY DEF NvdKnows, NvdShapes
  <2>2. [mode |-> TRUE, initialized |-> TRUE] \in [mode : BOOLEAN, initialized : BOOLEAN]
    OBVIOUS
  <2> QED BY <2>1, <2>2
<1>2. NvdShapes'
  BY <1>1 DEF NvdKnows, NvdShapes
<1>3. HistoryIsKnown'
  BY DEF NvdKnows, HistoryIsKnown
<1>4. MetaIsTrue'
  BY DEF NvdKnows, MetaIsTrue
<1> QED BY <1>2, <1>3, <1>4 DEF NvdKnows, RunIsSound, PageIsTrue

LEMMA NvdBaseline ==
    ASSUME NvdScan!NvdAssumption, NvdKnows, NvdScan!Baseline
    PROVE  NvdKnows'
<1>1. now \in LeastCursor..now /\ now \in 0..now /\ now # NvdScan!None
  BY NvdConstants DEF NvdKnows, NvdShapes
<1> QED BY <1>1, NvdEnds DEF NvdScan!Baseline

\* What a run begins with.
LEMMA NvdRunStarts ==
    ASSUME NvdScan!NvdAssumption, NvdKnows, NvdScan!Backfilling \/ NvdScan!CatchUp
    PROVE  /\ NvdKnows' /\ run = NvdScan!Idle /\ run' # NvdScan!Idle /\ run'.end = now
           /\ now' = now /\ history' = history /\ stored' = stored /\ cursor' = cursor
           /\ marks' = marks /\ from' = from
           /\ NvdScan!Backfilling =>
                  /\ ~marks.initialized /\ run'.initial
                  /\ from # NvdScan!None => run'.mark = from /\ Reached' = cursor
                  /\ from = NvdScan!None => run'.mark = Reached'
           /\ NvdScan!CatchUp =>
                  /\ marks.initialized /\ ~run'.initial /\ run'.mark = from
                  /\ Reached' = cursor - Overlap
<1>1. /\ now \in Int /\ now >= NvdScan!Start /\ NvdScan!Start = Backfill + 2 * Overlap + Lag
      /\ Backfill \in Nat /\ Overlap \in Nat /\ Lag \in Nat
      /\ LeastStart = 0 /\ LeastCursor = Overlap
      /\ cursor = NvdScan!None \/ (cursor \in Int /\ cursor >= LeastCursor /\ cursor <= now)
      /\ from = NvdScan!None \/ from \in 0..now
      /\ cursor = NvdScan!None <=> from = NvdScan!None
      /\ marks.initialized => from # NvdScan!None
      /\ marks \in [mode : BOOLEAN, initialized : BOOLEAN]
  BY NvdConstants DEF NvdKnows, NvdShapes, MetaIsTrue
<1>2. CASE NvdScan!Backfilling
  <2> DEFINE start == IF cursor = NvdScan!None THEN now - Backfill ELSE cursor
             mark == IF from = NvdScan!None THEN now - Backfill ELSE from
  <2>1. /\ run = NvdScan!Idle /\ ~marks.initialized /\ NvdScan!Begins(start, TRUE, mark)
        /\ now' = now /\ history' = history /\ stored' = stored /\ cursor' = cursor
        /\ marks' = marks /\ from' = from
    BY <1>2 DEF NvdScan!Backfilling
  <2>2. start \in Int /\ start >= LeastStart /\ start <= now /\ mark \in 0..now
    <3>1. now - Backfill \in 0..now /\ now - Backfill >= LeastStart
      BY <1>1
    <3>2. cursor # NvdScan!None => cursor \in Int /\ cursor >= LeastStart /\ cursor <= now
      BY <1>1
    <3> QED BY <1>1, <3>1, <3>2
  <2>3. from # NvdScan!None => mark = from /\ start = cursor
    BY <1>1
  <2>4. from = NvdScan!None => mark = start
    BY <1>1
  <2> HIDE DEF start, mark
  <2>5. /\ NvdKnows' /\ run'.initial = TRUE /\ run'.mark = mark /\ run'.end = now
        /\ run' # NvdScan!Idle /\ Reached' = start
    BY <2>1, <2>2, <2>3, NvdBegins
  <2>6. ~NvdScan!CatchUp
    BY <2>1 DEF NvdScan!CatchUp
  <2> QED BY <2>1, <2>3, <2>4, <2>5, <2>6
<1>3. CASE NvdScan!CatchUp
  <2> DEFINE start == NvdScan!RunStart(cursor)
  <2>1. /\ run = NvdScan!Idle /\ marks.initialized /\ NvdScan!Begins(start, FALSE, from)
        /\ now' = now /\ history' = history /\ stored' = stored /\ cursor' = cursor
        /\ marks' = marks /\ from' = from
    BY <1>3 DEF NvdScan!CatchUp
  <2>2. start = cursor - Overlap
    BY DEF NvdScan!RunStart
  <2> HIDE DEF start
  <2>3. start \in Int /\ start >= LeastStart /\ start <= now /\ from \in 0..now
    BY <1>1, <2>1, <2>2
  <2>4. /\ NvdKnows' /\ run'.initial = FALSE /\ run'.mark = from /\ run'.end = now
        /\ run' # NvdScan!Idle /\ Reached' = start
    BY <2>1, <2>3, NvdBegins
  <2>5. ~NvdScan!Backfilling
    BY <2>1 DEF NvdScan!Backfilling
  <2> QED BY <2>1, <2>2, <2>4, <2>5
<1> QED BY <1>2, <1>3

LEMMA NvdFirstPage ==
    ASSUME NvdScan!NvdAssumption, NvdKnows, NvdScan!FirstPage
    PROVE  /\ NvdKnows' /\ run' # NvdScan!Idle /\ run # NvdScan!Idle /\ Reached' = Reached
           /\ run'.initial = run.initial /\ run'.mark = run.mark /\ run'.end = run.end
           /\ now' = now /\ history' = history /\ stored' = stored /\ cursor' = cursor
           /\ marks' = marks /\ from' = from
<1> DEFINE w == NvdScan!Window
           ws == run.windows
           middle == (w[1] + w[2]) \div 2
           S(n) == NvdScan!Listed(w, n)
           P(n) == NvdScan!OnPage(S(n), 0)
           Split(n) == NvdScan!Cardinality(S(n)) > PageSize /\ w[2] - w[1] > MinSplit
           more(n) == {<<r, NvdScan!Seen(r, n)>> : r \in P(n)}
           split == <<<<w[1], middle>>, <<middle, w[2]>>>> \o Tail(ws)
           page(n) == [offset |-> NvdScan!Cardinality(P(n)), total |-> NvdScan!Cardinality(S(n)),
                       stamp |-> n, got |-> more(n)]
<1>1. /\ run.at = "reading" /\ ws # <<>>
      /\ now' = now /\ history' = history /\ stored' = stored /\ cursor' = cursor
      /\ marks' = marks /\ from' = from
      /\ \E n \in (now - Lag)..now :
            \/ Split(n) /\ run' = [run EXCEPT !.windows = split]
            \/ run' = [run EXCEPT !.page = page(n)]
  BY DEF NvdScan!FirstPage, NvdScan!Width
<1>2. /\ run # NvdScan!Idle /\ run \in NvdRuns /\ w \in Int \X Int
      /\ w[1] >= LeastStart /\ w[1] < w[2] /\ w[2] >= LeastCursor /\ w[2] <= run.end
      /\ run.end \in Int /\ run.end >= NvdScan!Start /\ run.end <= now
      /\ now \in Int /\ LeastStart \in Nat /\ LeastCursor \in Nat /\ Reached = w[1]
  BY <1>1, NvdReads
<1>3. Lag \in Nat /\ Oldest \in Int /\ NvdScan!None = -1 /\ LeastStart = 0 /\ PageSize \in Nat
  BY NvdConstants
<1>4. PICK n \in (now - Lag)..now :
            \/ Split(n) /\ run' = [run EXCEPT !.windows = split]
            \/ run' = [run EXCEPT !.page = page(n)]
  BY <1>1
<1>5. S(n) \in SUBSET Records /\ IsFiniteSet(S(n)) /\ Cardinality(S(n)) \in Nat
      /\ NvdScan!Cardinality(S(n)) = Cardinality(S(n))
  <2>1. S(n) \in SUBSET Records
    BY DEF NvdScan!Listed
  <2> QED BY <2>1, NvdConstants, NvdNumber, FS_Subset, FS_CardinalityType
<1>6. n \in Int /\ n <= now /\ n >= now - Lag
  BY <1>2, <1>3, <1>4
<1>7. NvdShapes' <=> (run' = NvdScan!Idle \/ run' \in NvdRuns)
  BY <1>1 DEF NvdKnows, NvdShapes
<1>8. HistoryIsKnown' /\ MetaIsTrue'
  BY <1>1 DEF NvdKnows, HistoryIsKnown, MetaIsTrue
<1>9. CASE Split(n) /\ run' = [run EXCEPT !.windows = split]
  <2>1. w[2] >= Oldest
    <3>1. S(n) # {}
      BY <1>3, <1>5, <1>9, FS_EmptySet
    <3>2. PICK r \in S(n) : TRUE
      BY <3>1
    <3>3. r \in Records /\ NvdScan!Seen(r, n) \in w[1]..w[2]
      BY <3>2 DEF NvdScan!Listed
    <3>4. NvdScan!Seen(r, n) \in Int /\ (NvdScan!Seen(r, n) = NvdScan!None \/ NvdScan!Seen(r, n) >= Oldest)
      BY <1>6, <3>3, SeenIs
    <3> QED BY <1>2, <1>3, <3>3, <3>4
  <2>2. ws \in Seq(Int \X Int) /\ Follow(ws, run.end) /\ ws[1] = <<w[1], w[2]>>
    BY <1>2 DEF NvdRuns, NvdKnows, RunIsSound, NvdScan!Window
  <2>3. w[1] \in Int /\ w[2] \in Int
    BY <1>2
  <2> HIDE DEF w, ws
  <2>4. /\ split \in Seq(Int \X Int) /\ Follow(split, run.end)
        /\ split # <<>> /\ split[1][1] = w[1]
    <3>1. run.end \in Int /\ ws # <<>> /\ w[2] - w[1] > MinSplit
      BY <1>1, <1>2, <1>9
    <3>2. split = Halved(ws, w[1], w[2])
      BY DEF Halved
    <3> HIDE DEF split
    <3> QED BY <2>1, <2>2, <2>3, <3>1, <3>2, SplitFollows
  <2> HIDE DEF split
  <2>5. run' \in NvdRuns
    BY <1>2, <1>9, <2>4 DEF NvdRuns
  <2>6. /\ run'.windows = split /\ run'.end = run.end /\ run'.mark = run.mark
        /\ run'.first = run.first /\ run'.initial = run.initial /\ run'.page = run.page
        /\ run'.at = run.at
    BY <1>2, <1>9 DEF NvdRuns
  <2>7. run' # NvdScan!Idle
    BY <1>1, <2>6 DEF NvdScan!Idle
  <2>8. Reached' = w[1]
    BY <2>4, <2>6 DEF Reached, NvdScan!Window
  <2>9. RunIsSound'
    BY <1>1, <1>2, <2>4, <2>6, <2>8 DEF NvdKnows, RunIsSound, ws
  <2>10. PageIsTrue'
    <3>1. run.page.stamp = NvdScan!None
      BY DEF NvdScan!FirstPage
    <3> QED BY <2>6, <3>1 DEF PageIsTrue
  <2> QED BY <1>1, <1>2, <1>7, <1>8, <2>5, <2>6, <2>7, <2>8, <2>9, <2>10 DEF NvdKnows
<1>10. CASE run' = [run EXCEPT !.page = page(n)]
  <2>1. PagesRead(w, n, 0, {})
    <3>1. \A r \in S(n) : ~(Rank(S(n), r) < 0)
      <4>1. S(n) \in SUBSET Nat
        BY <1>5, NvdConstants
      <4>2. \A r \in S(n) : Rank(S(n), r) \in Nat
        BY <1>5, <4>1, Ranks
      <4> QED BY <4>2
    <3> QED BY <3>1 DEF PagesRead
  <2>2. n \in n..now
    BY <1>2, <1>6
  <2>3. /\ PagesRead(w, n, 0 + Cardinality(P(n)), {} \cup more(n))
        /\ {} \cup more(n) \in SUBSET (Records \X Int)
        /\ Cardinality(P(n)) \in Nat
    <3>1. P(n) \cap {x[1] : x \in {}} = {} /\ {} \in SUBSET (Records \X Int)
      OBVIOUS
    <3> HIDE DEF w
    <3> QED BY <1>2, <1>6, <2>1, <2>2, <3>1, PagesAdd
  <2>4. NvdScan!Cardinality(P(n)) = Cardinality(P(n))
    BY NvdNumber
  <2>5. {} \cup more(n) = more(n)
    OBVIOUS
  <2> HIDE DEF w, P, more, S
  <2>6. PagesRead(w, n, Cardinality(P(n)), more(n)) /\ more(n) \in SUBSET (Records \X Int)
    <3>1. 0 + Cardinality(P(n)) = Cardinality(P(n))
      BY <2>3
    <3> QED BY <2>3, <2>5, <3>1
  <2>7. page(n) \in NvdPages
    BY <1>5, <1>6, <2>3, <2>4, <2>6 DEF NvdPages
  <2>8. page(n).stamp = n /\ page(n).offset = Cardinality(P(n)) /\ page(n).got = more(n)
        /\ page(n).total = Cardinality(S(n))
    BY <1>5, <2>4
  <2> HIDE DEF page
  <2>9. run' \in NvdRuns
    BY <1>2, <1>10, <2>7 DEF NvdRuns
  <2>10. /\ run'.windows = run.windows /\ run'.end = run.end /\ run'.mark = run.mark
         /\ run'.first = run.first /\ run'.initial = run.initial /\ run'.page = page(n)
         /\ run'.at = run.at
    BY <1>2, <1>10 DEF NvdRuns
  <2>11. run' # NvdScan!Idle
    BY <1>1, <2>10 DEF NvdScan!Idle
  <2>12. Reached' = Reached /\ NvdScan!Window' = w
    BY <2>10 DEF Reached, NvdScan!Window, w
  <2>13. RunIsSound'
    BY <1>1, <1>2, <2>10, <2>12 DEF NvdKnows, RunIsSound
  <2>14. PageIsTrue'
    <3>1. n \in (run.end - Lag)..now
      BY <1>2, <1>3, <1>6
    <3>2. /\ run'.page.stamp = n /\ run'.page.offset = Cardinality(P(n)) /\ run'.page.got = more(n)
          /\ run'.page.total = Cardinality(S(n))
      BY <2>8, <2>10
    <3>3. \A r, t : NvdScan!Seen(r, t)' = NvdScan!Seen(r, t)
      BY <1>1 DEF NvdScan!Seen
    <3>4. NvdScan!Listed(NvdScan!Window, run.page.stamp)' = NvdScan!Listed(w, n)
      BY <2>12, <3>2, <3>3 DEF NvdScan!Listed
    <3>5. PagesRead(NvdScan!Window, run.page.stamp, run.page.offset, run.page.got)'
      BY <1>1, <2>6, <2>12, <3>2, <3>3, <3>4 DEF PagesRead
    <3> QED BY <1>1, <2>10, <3>1, <3>2, <3>4, <3>5 DEF PageIsTrue, ws, S
  <2> QED BY <1>1, <1>2, <1>7, <1>8, <2>9, <2>10, <2>11, <2>12, <2>13, <2>14 DEF NvdKnows
<1> QED BY <1>4, <1>9, <1>10

LEMMA NvdNextPage ==
    ASSUME NvdScan!NvdAssumption, NvdKnows, NvdScan!NextPage
    PROVE  /\ NvdKnows' /\ run # NvdScan!Idle
           /\ run' # NvdScan!Idle =>
                  /\ Reached' = Reached /\ run'.initial = run.initial /\ run'.mark = run.mark
                  /\ run'.end = run.end
           /\ now' = now /\ history' = history /\ stored' = stored /\ cursor' = cursor
           /\ marks' = marks /\ from' = from
<1> DEFINE w == NvdScan!Window
           ws == run.windows
           s == run.page.stamp
           S(t) == NvdScan!Listed(w, t)
           P(t) == NvdScan!OnPage(S(t), run.page.offset)
           more(t) == {<<r, NvdScan!Seen(r, t)>> : r \in P(t)}
           TriesAgain == run' = [run EXCEPT !.attempt = run.attempt + 1, !.page = NvdScan!Unread]
           Grows(t) ==
               /\ S(t) \subseteq S(s)
               /\ NvdScan!Cardinality(S(t)) = run.page.total
               /\ P(t) \cap {x[1] : x \in run.page.got} = {}
               /\ run' = [run EXCEPT !.page.offset = run.page.offset + NvdScan!Cardinality(P(t)),
                                     !.page.got = run.page.got \cup more(t)]
<1>1. /\ run.at = "reading" /\ ws # <<>> /\ s # NvdScan!None
      /\ now' = now /\ history' = history /\ stored' = stored /\ cursor' = cursor
      /\ marks' = marks /\ from' = from
      /\ \E t \in s..now : run' = NvdScan!Idle \/ TriesAgain \/ Grows(t)
  BY DEF NvdScan!NextPage, NvdScan!Unstable, NvdScan!Unfinished, NvdScan!SameTotal
<1>2. /\ run # NvdScan!Idle /\ run \in NvdRuns /\ w \in Int \X Int
      /\ run.end \in Int /\ now \in Int /\ Reached = w[1]
  BY <1>1, NvdReads
<1>3. PICK t \in s..now : run' = NvdScan!Idle \/ TriesAgain \/ Grows(t)
  BY <1>1
<1>4. /\ s \in (run.end - Lag)..now /\ run.page.total = Cardinality(S(s))
      /\ PagesRead(w, s, run.page.offset, run.page.got)
  BY <1>1, <1>2 DEF NvdKnows, PageIsTrue
<1>5. /\ run.page \in NvdPages /\ s \in Int /\ run.page.offset \in Nat
      /\ run.page.got \in SUBSET (Records \X Int) /\ run.attempt \in Nat
  BY <1>2 DEF NvdRuns, NvdPages
<1>6. NvdShapes' <=> (run' = NvdScan!Idle \/ run' \in NvdRuns)
  BY <1>1 DEF NvdKnows, NvdShapes
<1>7. HistoryIsKnown' /\ MetaIsTrue'
  BY <1>1 DEF NvdKnows, HistoryIsKnown, MetaIsTrue
<1>8. CASE run' = NvdScan!Idle
  BY <1>1, <1>2, <1>8, NvdEnds
<1>9. CASE TriesAgain
  <2>1. NvdScan!Unread \in NvdPages /\ NvdScan!Unread.stamp = NvdScan!None
    BY DEF NvdScan!Unread, NvdPages, NvdScan!None
  <2>2. run' \in NvdRuns
    <3>1. run.attempt + 1 \in Nat
      BY <1>5
    <3> QED BY <1>2, <1>9, <2>1, <3>1 DEF NvdRuns
  <2>3. /\ run'.windows = run.windows /\ run'.end = run.end /\ run'.mark = run.mark
        /\ run'.first = run.first /\ run'.initial = run.initial /\ run'.page = NvdScan!Unread
        /\ run'.at = run.at
    BY <1>2, <1>9 DEF NvdRuns
  <2>4. run' # NvdScan!Idle
    BY <1>1, <2>3 DEF NvdScan!Idle
  <2>5. Reached' = Reached
    BY <2>3 DEF Reached, NvdScan!Window
  <2>6. RunIsSound'
    BY <1>1, <1>2, <2>3, <2>5 DEF NvdKnows, RunIsSound
  <2>7. PageIsTrue'
    BY <2>1, <2>3 DEF PageIsTrue
  <2> QED BY <1>1, <1>2, <1>6, <1>7, <2>2, <2>3, <2>4, <2>5, <2>6, <2>7 DEF NvdKnows
<1>10. CASE Grows(t)
  <2>1. S(t) = S(s)
    <3>1. S(s) \in SUBSET Records
      BY DEF NvdScan!Listed
    <3>2. S(t) \in SUBSET S(s) /\ NvdScan!Cardinality(S(t)) = Cardinality(S(s))
      BY <1>4, <1>10
    <3> HIDE DEF S
    <3> QED BY <3>1, <3>2, SameListing
  <2>2. /\ PagesRead(w, s, run.page.offset + Cardinality(P(t)), run.page.got \cup more(t))
        /\ run.page.got \cup more(t) \in SUBSET (Records \X Int)
        /\ Cardinality(P(t)) \in Nat
    <3>1. P(t) = NvdScan!OnPage(NvdScan!Listed(w, s), run.page.offset)
      BY <2>1
    <3>2. P(t) \cap {x[1] : x \in run.page.got} = {}
      BY <1>10
    <3>3. NvdScan!Listed(w, t) = NvdScan!Listed(w, s)
      BY <2>1
    <3>4. more(t) = {<<r, NvdScan!Seen(r, t)>> : r \in P(t)} /\ t \in s..now
      OBVIOUS
    <3>5. /\ w \in Int \X Int /\ s \in Int /\ run.page.offset \in Nat
          /\ run.page.got \in SUBSET (Records \X Int)
          /\ PagesRead(w, s, run.page.offset, run.page.got)
      BY <1>2, <1>4, <1>5
    <3> HIDE DEF w, s, P, more, Grows, TriesAgain, S
    <3> QED BY <3>1, <3>2, <3>3, <3>4, <3>5, PagesAdd
  <2>3. NvdScan!Cardinality(P(t)) = Cardinality(P(t))
    BY NvdNumber
  <2> DEFINE more1 == run.page.got \cup more(t)
             further == run.page.offset + Cardinality(P(t))
             page == [run.page EXCEPT !.offset = further, !.got = more1]
  <2>4. run' = [run EXCEPT !.page = page]
    <3>1. run' = [run EXCEPT !.page.offset = further, !.page.got = more1]
      BY <1>10, <2>3
    <3> HIDE DEF further, more1
    <3> QED BY <1>2, <1>5, <3>1 DEF NvdRuns, NvdPages
  <2>5. further \in Nat /\ more1 \in SUBSET (Records \X Int) /\ PagesRead(w, s, further, more1)
    BY <1>5, <2>2
  <2> HIDE DEF further, more1
  <2>6. page \in NvdPages /\ page.stamp = s /\ page.offset = further /\ page.got = more1
        /\ page.total = run.page.total
    BY <1>5, <2>5 DEF NvdPages
  <2> HIDE DEF page, P, more, S
  <2>7. run' \in NvdRuns
    BY <1>2, <2>4, <2>6 DEF NvdRuns
  <2>8. /\ run'.windows = run.windows /\ run'.end = run.end /\ run'.mark = run.mark
        /\ run'.first = run.first /\ run'.initial = run.initial /\ run'.page = page
        /\ run'.at = run.at
    BY <1>2, <2>4 DEF NvdRuns
  <2>9. run' # NvdScan!Idle
    BY <1>1, <2>8 DEF NvdScan!Idle
  <2>10. Reached' = Reached /\ NvdScan!Window' = w
    BY <2>8 DEF Reached, NvdScan!Window
  <2>11. RunIsSound'
    BY <1>1, <1>2, <2>8, <2>10 DEF NvdKnows, RunIsSound
  <2>12. PageIsTrue'
    <3>1. /\ run'.page.stamp = s /\ run'.page.offset = further /\ run'.page.got = more1
          /\ run'.page.total = Cardinality(S(s))
      BY <1>4, <2>6, <2>8
    <3>2. \A r, n : NvdScan!Seen(r, n)' = NvdScan!Seen(r, n)
      BY <1>1 DEF NvdScan!Seen
    <3> HIDE DEF w
    <3>3. NvdScan!Listed(NvdScan!Window, run.page.stamp)' = NvdScan!Listed(w, s)
      BY <2>10, <3>1, <3>2 DEF NvdScan!Listed
    <3> HIDE DEF s
    <3>4. PagesRead(NvdScan!Window, run.page.stamp, run.page.offset, run.page.got)'
      BY <1>1, <2>5, <2>10, <3>1, <3>2, <3>3 DEF PagesRead
    <3> QED BY <1>1, <1>4, <2>8, <3>1, <3>3, <3>4 DEF PageIsTrue, ws, S
  <2> QED BY <1>1, <1>2, <1>6, <1>7, <2>7, <2>8, <2>9, <2>10, <2>11, <2>12 DEF NvdKnows
<1> QED BY <1>3, <1>8, <1>9, <1>10

\* A committed record has the modification that its page showed; the listing of the first
\* page is in it, and nothing else changes.
LEMMA Committed ==
    ASSUME NvdScan!NvdAssumption, NvdKnows, NvdScan!Commit
    PROVE  /\ stored' \in [Records -> 0..MaxTime]
           /\ \A r \in Records :
                  \/ stored'[r] = stored[r] /\ ~(r \in NvdScan!Listed(NvdScan!Window, run.page.stamp))
                  \/ /\ stored'[r] >= NvdScan!Window[1]
                     /\ \E t \in run.page.stamp..now : stored'[r] = NvdScan!Seen(r, t)
<1> DEFINE w == NvdScan!Window
           s == run.page.stamp
           got == run.page.got
           Values(r) == {x[2] : x \in {y \in got : y[1] = r}}
<1>1. /\ run.at = "reading" /\ run.windows # <<>> /\ s # NvdScan!None
      /\ ~NvdScan!Unfinished
      /\ stored' = [r \in Records |-> IF \E x \in got : x[1] = r THEN NvdScan!Latest(Values(r))
                                      ELSE stored[r]]
  BY DEF NvdScan!Commit
<1>2. /\ run # NvdScan!Idle /\ run \in NvdRuns /\ w \in Int \X Int /\ w[1] >= 0 /\ now \in Int
  BY <1>1, NvdReads, NvdConstants
<1>3. /\ run.page.total = Cardinality(NvdScan!Listed(w, s))
      /\ PagesRead(w, s, run.page.offset, got) /\ s \in (run.end - Lag)..now
  BY <1>1, <1>2 DEF NvdKnows, PageIsTrue
<1>4. run.page \in NvdPages /\ run.page.offset \in Nat /\ run.page.total \in Nat
      /\ got \in SUBSET (Records \X Int) /\ s \in Int
  BY <1>2 DEF NvdRuns, NvdPages
<1>5. run.page.offset >= run.page.total
  BY <1>1, <1>4 DEF NvdScan!Unfinished
<1>6. \A r \in NvdScan!Listed(w, s) : \E x \in got : x[1] = r
  <2> TAKE r \in NvdScan!Listed(w, s)
  <2>1. NvdScan!Listed(w, s) \in SUBSET Records
    BY DEF NvdScan!Listed
  <2>2. NvdScan!Listed(w, s) \in SUBSET Nat /\ IsFiniteSet(NvdScan!Listed(w, s))
    BY <2>1, NvdConstants, FS_Subset
  <2>3. Rank(NvdScan!Listed(w, s), r) \in Nat
        /\ Rank(NvdScan!Listed(w, s), r) < Cardinality(NvdScan!Listed(w, s))
    BY <2>2, Ranks
  <2>4. Rank(NvdScan!Listed(w, s), r) < run.page.offset
    BY <1>3, <1>4, <1>5, <2>3
  <2> QED BY <1>3, <2>4 DEF PagesRead
<1>7. ASSUME NEW r \in Records, NEW x \in got, x[1] = r
      PROVE  /\ stored'[r] = x[2] /\ x[2] >= w[1] /\ x[2] \in Int
             /\ \E t \in s..now : x[2] = NvdScan!Seen(r, t)
  <2>1. Values(r) = {x[2]}
    BY <1>3, <1>7 DEF PagesRead
  <2>2. x[2] \in Int /\ x[2] >= w[1] /\ \E t \in s..now : x[2] = NvdScan!Seen(r, t)
    BY <1>3, <1>4, <1>7 DEF PagesRead
  <2>3. NvdScan!Latest(Values(r)) = x[2]
    BY <2>1, <2>2, LatestOfOne
  <2>4. stored'[r] = NvdScan!Latest(Values(r))
    <3> HIDE DEF Values, got
    <3> QED BY <1>1, <1>7
  <2> QED BY <2>2, <2>3, <2>4
<1>8. \A r \in Records : (~ \E x \in got : x[1] = r) => stored'[r] = stored[r]
  <2> HIDE DEF Values, got
  <2> QED BY <1>1
<1>9. \A r \in Records : stored'[r] \in 0..MaxTime
  <2> TAKE r \in Records
  <2>1. now <= MaxTime /\ MaxTime \in Nat /\ stored[r] \in 0..MaxTime
    BY NvdConstants DEF NvdKnows, NvdShapes
  <2>2. CASE \E x \in got : x[1] = r
    <3>1. PICK t \in s..now : stored'[r] = NvdScan!Seen(r, t) /\ stored'[r] >= w[1] /\ stored'[r] \in Int
      BY <1>7, <2>2
    <3>2. t \in Int /\ t <= now
      BY <1>2, <1>4
    <3>3. NvdScan!Seen(r, t) <= NvdScan!Latest(history[r])
      BY <3>2, SeenIs
    <3>4. NvdScan!Latest(history[r]) \in Int /\ NvdScan!Latest(history[r]) <= now
      BY Modified
    <3> HIDE DEF w
    <3>5. w[1] \in Int
      BY <1>2
    <3> QED BY <1>2, <2>1, <3>1, <3>3, <3>4, <3>5
  <2>3. CASE ~ \E x \in got : x[1] = r
    BY <1>8, <2>1, <2>3
  <2> QED BY <2>2, <2>3
<1>10. stored' \in [Records -> 0..MaxTime]
  <2>1. stored' = [r \in Records |-> stored'[r]]
    BY <1>1
  <2> QED BY <1>9, <2>1
<1>11. ASSUME NEW r \in Records
       PROVE  \/ stored'[r] = stored[r] /\ ~(r \in NvdScan!Listed(w, s))
              \/ stored'[r] >= w[1] /\ \E t \in s..now : stored'[r] = NvdScan!Seen(r, t)
  <2>1. CASE \E x \in got : x[1] = r
    <3>1. PICK x \in got : x[1] = r
      BY <2>1
    <3> QED BY <1>7, <3>1
  <2>2. CASE ~ \E x \in got : x[1] = r
    BY <1>6, <1>8, <2>2
  <2> QED BY <2>1, <2>2
<1> QED BY <1>10, <1>11

LEMMA NvdCommit ==
    ASSUME NvdScan!NvdAssumption, NvdKnows, NvdScan!Commit
    PROVE  /\ NvdKnows' /\ run # NvdScan!Idle /\ run' # NvdScan!Idle
           /\ run'.initial = run.initial /\ run'.mark = run.mark /\ run'.end = run.end
           /\ now' = now /\ history' = history
           /\ Reached = NvdScan!Window[1] /\ Reached' = NvdScan!Window[2]
           /\ run'.windows # <<>> /\ NvdScan!Prompt => NvdScan!Window[2] - NvdScan!Window[1] >= Lag
           /\ cursor' = NvdScan!AtMost(NvdScan!Window[2], run.page.stamp)
           /\ from' = run.mark
           /\ marks'.initialized <=> (marks.initialized \/ (run.initial /\ run'.windows = <<>>))
           /\ marks'.mode = TRUE
<1> DEFINE w == NvdScan!Window
           ws == run.windows
           s == run.page.stamp
<1>1. /\ run.at = "reading" /\ ws # <<>> /\ s # NvdScan!None
      /\ now' = now /\ history' = history
      /\ cursor' = NvdScan!AtMost(w[2], s)
      /\ marks' = [mode |-> marks.mode \/ (run.first /\ run.initial),
                  initialized |-> marks.initialized \/ (run.initial /\ Len(ws) = 1)]
      /\ from' = IF run.first /\ run.initial THEN run.mark ELSE from
      /\ run' = [run EXCEPT !.windows = Tail(ws), !.first = FALSE, !.attempt = 1,
                            !.page = NvdScan!Unread]
  BY DEF NvdScan!Commit, NvdScan!WindowCursor, NvdScan!InitialComplete
<1>2. /\ run # NvdScan!Idle /\ run \in NvdRuns /\ w \in Int \X Int
      /\ w[1] >= LeastStart /\ w[1] < w[2] /\ w[2] >= LeastCursor /\ w[2] <= run.end
      /\ run.end \in Int /\ run.end >= NvdScan!Start /\ run.end <= now
      /\ now \in Int /\ Reached = w[1]
  BY <1>1, NvdReads
<1>3. /\ Lag \in Nat /\ NvdScan!None = -1 /\ LeastCursor = Overlap /\ Overlap \in Nat /\ Backfill \in Nat
      /\ NvdScan!Start = Backfill + 2 * Overlap + Lag
  BY NvdConstants
<1>4. s \in (run.end - Lag)..now /\ s \in Int
  BY <1>1, <1>2, <1>3 DEF NvdKnows, PageIsTrue
<1>5. cursor' \in LeastCursor..now /\ cursor' # NvdScan!None
  <2>1. /\ w[2] \in Int /\ w[2] >= LeastCursor /\ w[2] <= now
        /\ s \in Int /\ s >= LeastCursor /\ s <= now /\ LeastCursor \in Nat /\ now \in Int
    BY <1>2, <1>3, <1>4
  <2>2. cursor' = w[2] \/ cursor' = s
    BY <1>1 DEF NvdScan!AtMost
  <2> QED BY <1>3, <2>1, <2>2
<1>6. /\ run.mark \in 0..now /\ ws \in Seq(Int \X Int) /\ Follow(ws, run.end)
      /\ from # NvdScan!None => run.mark = from
      /\ ~run.first => from # NvdScan!None
      /\ ~run.initial => marks.initialized
      /\ run.initial /\ (run.first \/ ws # <<>>) => ~marks.initialized
      /\ marks.mode <=> from # NvdScan!None
      /\ marks.initialized => marks.mode
      /\ run.first \in BOOLEAN /\ run.initial \in BOOLEAN
      /\ marks \in [mode : BOOLEAN, initialized : BOOLEAN]
  BY <1>2 DEF NvdKnows, NvdShapes, RunIsSound, MetaIsTrue, NvdRuns
<1>7. from' = run.mark
  BY <1>1, <1>6
<1>8. /\ Tail(ws) \in Seq(Int \X Int) /\ Follow(Tail(ws), run.end)
      /\ IF Tail(ws) = <<>> THEN ws[1][2] = run.end ELSE Tail(ws)[1][1] = ws[1][2]
      /\ Tail(ws) # <<>> /\ NvdScan!Prompt => ws[1][2] - ws[1][1] >= Lag
  BY <1>1, <1>2, <1>6, TailFollows
<1>9. Tail(ws) = <<>> <=> Len(ws) = 1
  <2>1. Len(ws) \in Nat /\ Len(ws) > 0 /\ Len(Tail(ws)) = Len(ws) - 1
    BY <1>1, <1>6
  <2>2. \A q \in Seq(Int \X Int) : q = <<>> <=> Len(q) = 0
    OBVIOUS
  <2>3. Tail(ws) = <<>> <=> Len(Tail(ws)) = 0
    BY <1>8, <2>2, Zenon
  <2> QED BY <2>1, <2>3
<1>10. NvdScan!Unread \in NvdPages /\ NvdScan!Unread.stamp = NvdScan!None
  BY DEF NvdScan!Unread, NvdPages, NvdScan!None
<1>11. /\ run'.windows = Tail(ws) /\ run'.end = run.end /\ run'.mark = run.mark
       /\ run'.first = FALSE /\ run'.initial = run.initial /\ run'.page = NvdScan!Unread
       /\ run'.at = run.at
  BY <1>1, <1>2 DEF NvdRuns
<1>12. run' \in NvdRuns
  <2>1. 1 \in Nat
    OBVIOUS
  <2> QED BY <1>1, <1>2, <1>8, <1>10, <2>1 DEF NvdRuns
<1>13. run' # NvdScan!Idle
  BY <1>1, <1>11 DEF NvdScan!Idle
<1>14. Reached' = w[2]
  BY <1>8, <1>11 DEF Reached, NvdScan!Window
<1>15. /\ marks' \in [mode : BOOLEAN, initialized : BOOLEAN] /\ marks'.mode = TRUE
       /\ marks'.initialized <=> (marks.initialized \/ (run.initial /\ run'.windows = <<>>))
  BY <1>1, <1>6, <1>9, <1>11
<1>16. from' \in 0..now /\ from' # NvdScan!None
  BY <1>3, <1>6, <1>7
<1>17. NvdShapes'
  <2>1. stored' \in [Records -> 0..MaxTime]
    BY Committed
  <2> QED BY <1>1, <1>5, <1>12, <1>15, <1>16, <2>1 DEF NvdKnows, NvdShapes
<1>18. HistoryIsKnown' /\ MetaIsTrue'
  BY <1>1, <1>5, <1>15, <1>16 DEF NvdKnows, HistoryIsKnown, MetaIsTrue
<1>19. RunIsSound'
  <2>1. Reached' >= LeastStart
    BY <1>2, <1>14, NvdConstants
  <2>2. run'.initial /\ run'.windows # <<>> => ~marks'.initialized
    BY <1>1, <1>6, <1>11, <1>15
  <2>3. ~run'.initial => marks'.initialized
    BY <1>6, <1>11, <1>15
  <2> QED BY <1>1, <1>2, <1>6, <1>7, <1>8, <1>11, <1>16, <2>1, <2>2, <2>3 DEF RunIsSound
<1>20. PageIsTrue'
  BY <1>10, <1>11 DEF PageIsTrue
<1> QED BY <1>1, <1>2, <1>7, <1>8, <1>11, <1>13, <1>14, <1>15, <1>17, <1>18, <1>19, <1>20
        DEF NvdKnows, NvdScan!Window

LEMMA NvdDone ==
    ASSUME NvdScan!NvdAssumption, NvdKnows, NvdScan!Done
    PROVE  /\ NvdKnows' /\ run # NvdScan!Idle /\ run' = NvdScan!Idle /\ run.windows = <<>>
           /\ now' = now /\ history' = history /\ stored' = stored
           /\ \/ cursor' = cursor /\ from' = from /\ marks' = marks
              \/ /\ run.initial /\ cursor' = run.end /\ from' = run.mark /\ run.end \in Int
                 /\ marks' = [mode |-> TRUE, initialized |-> TRUE]
<1>1. run # NvdScan!Idle
  BY DEF NvdScan!Done, NvdScan!Idle
<1>2. run \in NvdRuns /\ run.end \in Int /\ run.mark \in 0..now /\ run.end <= now /\ run.end >= NvdScan!Start
  BY <1>1 DEF NvdKnows, NvdShapes, RunIsSound, NvdRuns
<1>3. run.end \in LeastCursor..now /\ run.end # NvdScan!None /\ run.mark # NvdScan!None
  BY <1>2, NvdConstants DEF NvdKnows, NvdShapes
<1>4. /\ run' = NvdScan!Idle /\ now' = now /\ history' = history /\ stored' = stored
      /\ run.windows = <<>>
      /\ \/ cursor' = cursor /\ from' = from /\ marks' = marks
         \/ /\ run.initial /\ cursor' = run.end /\ from' = run.mark
            /\ marks' = [mode |-> TRUE, initialized |-> TRUE]
  BY DEF NvdScan!Done
<1>5. NvdKnows'
  BY <1>2, <1>3, <1>4, NvdEnds
<1> QED BY <1>1, <1>2, <1>4, <1>5

LEMMA NvdAborts ==
    ASSUME NvdKnows, NvdScan!Abort
    PROVE  NvdKnows'
BY NvdEnds DEF NvdScan!Abort

LEMMA NvdStep ==
    NvdScan!NvdAssumption /\ NvdKnows /\ [NvdScan!Next]_(NvdScan!vars) => NvdKnows'
BY NvdStays, NvdTime, NvdBaseline, NvdRunStarts, NvdFirstPage, NvdNextPage, NvdCommit, NvdDone,
   NvdAborts DEF NvdScan!Next

\* A committed window is whole up to the cursor.
LEMMA CommitIsWhole ==
    ASSUME NvdScan!NvdAssumption, NvdKnows, NvdScan!Commit, NEW r \in Records
    PROVE  LET t == NvdScan!Latest(history[r]) IN
           /\ t >= NvdScan!Window[1] /\ t <= NvdScan!Window[2] /\ t <= run.page.stamp => stored'[r] = t
           /\ t <= NvdScan!Window[1] /\ stored[r] = t => stored'[r] = t
<1> DEFINE t == NvdScan!Latest(history[r])
           w == NvdScan!Window
           s == run.page.stamp
<1>1. run.at = "reading" /\ run.windows # <<>> /\ s # NvdScan!None
  BY DEF NvdScan!Commit
<1>2. run # NvdScan!Idle /\ run \in NvdRuns /\ w \in Int \X Int /\ now \in Int
  BY <1>1, NvdReads
<1>3. s \in Int
  BY <1>2 DEF NvdRuns, NvdPages
<1>4. t \in Int
  BY Modified
<1>5. \/ stored'[r] = stored[r] /\ ~(r \in NvdScan!Listed(w, s))
      \/ stored'[r] >= w[1] /\ \E n \in s..now : stored'[r] = NvdScan!Seen(r, n)
  BY Committed
<1>6. \A n \in s..now : /\ NvdScan!Seen(r, n) \in Int /\ NvdScan!Seen(r, n) <= t
                        /\ t <= n => NvdScan!Seen(r, n) = t
  BY <1>2, <1>3, SeenIs
<1>7. ASSUME t >= w[1], t <= w[2], t <= s PROVE r \in NvdScan!Listed(w, s)
  <2>1. NvdScan!Seen(r, s) = t
    BY <1>3, <1>7, SeenIs
  <2>2. t \in w[1]..w[2]
    BY <1>2, <1>4, <1>7
  <2> QED BY <2>1, <2>2 DEF NvdScan!Listed
<1> HIDE DEF t, w, s
<1>8. ASSUME t >= w[1], t <= w[2], t <= s PROVE stored'[r] = t
  <2>1. PICK n \in s..now : stored'[r] = NvdScan!Seen(r, n)
    BY <1>5, <1>7, <1>8
  <2>2. n \in Int /\ t <= n
    BY <1>2, <1>3, <1>4, <1>8
  <2> QED BY <1>6, <2>1, <2>2
<1>9. ASSUME t <= w[1], stored[r] = t PROVE stored'[r] = t
  <2>1. CASE stored'[r] >= w[1] /\ \E n \in s..now : stored'[r] = NvdScan!Seen(r, n)
    <3>1. PICK n \in s..now : stored'[r] = NvdScan!Seen(r, n)
      BY <2>1
    <3>2. stored'[r] \in Int /\ stored'[r] <= t /\ stored'[r] >= w[1] /\ w[1] \in Int
      BY <1>2, <1>6, <2>1, <3>1
    <3> QED BY <1>4, <1>9, <3>2
  <2> QED BY <1>5, <1>9, <2>1
<1> QED BY <1>8, <1>9 DEF t, w, s

\* Every record whose last modification lies between two moments is stored as it was modified.
Kept(least, end) ==
    \A r \in Records : LET t == NvdScan!Latest(history[r]) IN
        t > least /\ t <= end => stored[r] = t

\* A run keeps what lies before the window it reads; an initial run that was interrupted
\* has kept everything up to its cursor, and a later one everything up to its overlap.
NvdCovers ==
    /\ run # NvdScan!Idle =>
           \A r \in Records : LET t == NvdScan!Latest(history[r]) IN
               t > run.mark /\ t <= Reached /\ t <= run.end - Lag => stored[r] = t
    /\ ~marks.initialized /\ cursor # NvdScan!None => Kept(from, cursor)
    /\ marks.initialized => Kept(from, cursor - Overlap)
    /\ run # NvdScan!Idle /\ run.initial => NvdScan!Prompt
    /\ NvdScan!Prompt \/ (marks.mode => marks.initialized)

\* An interrupted initial run loses nothing, or there is none.
Uninterrupted == NvdScan!Prompt \/ Modes \subseteq {"baseline"}

LEMMA CoversStart == NvdScan!Init => NvdCovers
BY DEF NvdScan!Init, NvdCovers

LEMMA CoversStays == NvdCovers /\ UNCHANGED NvdScan!vars => NvdCovers'
<1> SUFFICES ASSUME NvdCovers, UNCHANGED NvdScan!vars PROVE NvdCovers'
  OBVIOUS
<1>1. /\ history' = history /\ stored' = stored /\ cursor' = cursor
      /\ marks' = marks /\ from' = from /\ run' = run
  BY DEF NvdScan!vars
<1>2. Reached' = Reached
  BY <1>1 DEF Reached, NvdScan!Window
<1> QED BY <1>1, <1>2 DEF NvdCovers, Kept

LEMMA CoversTime ==
    ASSUME NvdScan!NvdAssumption, NvdKnows, NvdCovers,
           NvdScan!Tick \/ \E r \in Records : NvdScan!Modify(r)
    PROVE  NvdCovers'
<1>1. /\ now' = now + 1 /\ stored' = stored /\ cursor' = cursor
      /\ marks' = marks /\ from' = from /\ run' = run
      /\ \A q \in Records : \/ NvdScan!Latest(history'[q]) = NvdScan!Latest(history[q])
                            \/ NvdScan!Latest(history'[q]) = now + 1
  BY TimePasses
<1>2. /\ now \in Int /\ Lag \in Nat /\ Overlap \in Nat
      /\ cursor # NvdScan!None => cursor \in Int /\ cursor <= now
      /\ marks.initialized => cursor # NvdScan!None
      /\ run # NvdScan!Idle => run.end \in Int /\ run.end <= now
  BY NvdConstants DEF NvdKnows, NvdShapes, MetaIsTrue, RunIsSound, NvdRuns
<1>3. Reached' = Reached
  BY <1>1 DEF Reached, NvdScan!Window
<1>4. run # NvdScan!Idle => ~(now + 1 <= run.end - Lag)
  BY <1>2
<1>5. /\ cursor # NvdScan!None => ~(now + 1 <= cursor)
      /\ marks.initialized => ~(now + 1 <= cursor - Overlap)
  BY <1>2
<1>6. run' # NvdScan!Idle =>
         \A r \in Records : LET t == NvdScan!Latest(history'[r]) IN
             t > run'.mark /\ t <= Reached' /\ t <= run'.end - Lag => stored'[r] = t
  BY <1>1, <1>3, <1>4 DEF NvdCovers
<1>7. ~marks.initialized /\ cursor # NvdScan!None => Kept(from, cursor)'
  BY <1>1, <1>5 DEF NvdCovers, Kept
<1>8. marks.initialized => Kept(from, cursor - Overlap)'
  BY <1>1, <1>5 DEF NvdCovers, Kept
<1> QED BY <1>1, <1>6, <1>7, <1>8 DEF NvdCovers

LEMMA CoversBaseline ==
    ASSUME NvdScan!NvdAssumption, NvdKnows, NvdCovers, NvdScan!Baseline
    PROVE  NvdCovers'
<1>1. /\ cursor' = now /\ from' = now /\ run' = NvdScan!Idle
      /\ marks' = [mode |-> TRUE, initialized |-> TRUE] /\ history' = history /\ stored' = stored
  BY DEF NvdScan!Baseline
<1>2. Kept(from, cursor - Overlap)'
  <2> SUFFICES ASSUME NEW r \in Records, NvdScan!Latest(history[r]) > now,
                      NvdScan!Latest(history[r]) <= now - Overlap
               PROVE  FALSE
    BY <1>1 DEF Kept
  <2>1. now \in Int /\ Overlap \in Nat /\ NvdScan!Latest(history[r]) \in Int
    BY Modified, NvdConstants DEF NvdKnows, NvdShapes
  <2> QED BY <2>1
<1> QED BY <1>1, <1>2 DEF NvdCovers

LEMMA CoversRunStarts ==
    ASSUME NvdScan!NvdAssumption, Uninterrupted, NvdKnows, NvdCovers,
           NvdScan!Backfilling \/ NvdScan!CatchUp
    PROVE  NvdCovers'
<1>1. /\ run' # NvdScan!Idle /\ run'.end = now
      /\ now' = now /\ history' = history /\ stored' = stored /\ cursor' = cursor
      /\ marks' = marks /\ from' = from
      /\ NvdScan!Backfilling =>
             /\ ~marks.initialized /\ run'.initial
             /\ from # NvdScan!None => run'.mark = from /\ Reached' = cursor
             /\ from = NvdScan!None => run'.mark = Reached'
      /\ NvdScan!CatchUp =>
             /\ marks.initialized /\ ~run'.initial /\ run'.mark = from
             /\ Reached' = cursor - Overlap
  BY NvdRunStarts
<1>2. run'.initial => NvdScan!Prompt
  <2> SUFFICES ASSUME NvdScan!Backfilling, ~NvdScan!Prompt PROVE FALSE
    BY <1>1
  <2>1. ~marks.initialized /\ (marks.mode \/ "backfill" \in Modes)
    BY DEF NvdScan!Backfilling
  <2>2. ~marks.mode
    BY <2>1 DEF NvdCovers
  <2>3. "backfill" # "baseline"
    OBVIOUS
  <2> QED BY <2>1, <2>2, <2>3 DEF Uninterrupted
<1>3. \A r \in Records : LET t == NvdScan!Latest(history[r]) IN
         t > run'.mark /\ t <= Reached' => stored[r] = t
  <2>1. CASE NvdScan!CatchUp
    BY <1>1, <2>1 DEF NvdCovers, Kept
  <2>2. CASE NvdScan!Backfilling /\ from # NvdScan!None
    <3>1. cursor # NvdScan!None
      BY <2>2 DEF NvdKnows, MetaIsTrue
    <3> QED BY <1>1, <2>2, <3>1 DEF NvdCovers, Kept
  <2>3. CASE NvdScan!Backfilling /\ from = NvdScan!None
    <3>1. NvdKnows' /\ run'.mark = Reached' /\ run' # NvdScan!Idle
      BY <1>1, <2>3, NvdRunStarts
    <3>2. run'.mark \in Int
      BY <3>1 DEF NvdKnows, NvdShapes, NvdRuns
    <3> SUFFICES ASSUME NEW r \in Records, NvdScan!Latest(history[r]) > run'.mark,
                        NvdScan!Latest(history[r]) <= run'.mark
                 PROVE  FALSE
      BY <3>1
    <3>3. NvdScan!Latest(history[r]) \in Int
      BY Modified
    <3> QED BY <3>2, <3>3
  <2> QED BY <2>1, <2>2, <2>3
<1> QED BY <1>1, <1>2, <1>3 DEF NvdCovers, Kept

LEMMA CoversPages ==
    ASSUME NvdScan!NvdAssumption, NvdKnows, NvdCovers, NvdScan!FirstPage \/ NvdScan!NextPage
    PROVE  NvdCovers'
<1>1. /\ run # NvdScan!Idle
      /\ run' # NvdScan!Idle =>
             /\ Reached' = Reached /\ run'.initial = run.initial /\ run'.mark = run.mark
             /\ run'.end = run.end
      /\ now' = now /\ history' = history /\ stored' = stored /\ cursor' = cursor
      /\ marks' = marks /\ from' = from
  BY NvdFirstPage, NvdNextPage
<1> QED BY <1>1 DEF NvdCovers, Kept

LEMMA CoversCommit ==
    ASSUME NvdScan!NvdAssumption, NvdKnows, NvdCovers, NvdScan!Commit
    PROVE  NvdCovers'
<1> DEFINE w == NvdScan!Window
           s == run.page.stamp
<1>1. /\ run # NvdScan!Idle /\ run' # NvdScan!Idle
      /\ run'.initial = run.initial /\ run'.mark = run.mark /\ run'.end = run.end
      /\ history' = history
      /\ Reached = w[1] /\ Reached' = w[2]
      /\ run'.windows # <<>> /\ NvdScan!Prompt => w[2] - w[1] >= Lag
      /\ cursor' = NvdScan!AtMost(w[2], s)
      /\ from' = run.mark
      /\ marks'.initialized <=> (marks.initialized \/ (run.initial /\ run'.windows = <<>>))
      /\ marks'.mode = TRUE
  BY NvdCommit
<1>2. run.at = "reading" /\ run.windows # <<>> /\ s # NvdScan!None
  BY DEF NvdScan!Commit
<1>3. /\ w \in Int \X Int /\ w[2] <= run.end /\ run.end \in Int /\ run \in NvdRuns /\ now \in Int
      /\ w[1] < w[2]
  BY <1>2, NvdReads
<1>4. s \in (run.end - Lag)..now /\ s \in Int /\ run.mark \in Int
  BY <1>1, <1>2, <1>3 DEF NvdKnows, PageIsTrue, NvdRuns, NvdPages
<1>5. Lag \in Nat /\ Overlap \in Nat /\ Lag <= Overlap
  BY NvdConstants
<1>6. run.initial => NvdScan!Prompt
  BY <1>1 DEF NvdCovers
<1>7. ~run.initial => marks.initialized
  BY <1>1 DEF NvdKnows, RunIsSound
<1>8. w[1] \in Int /\ w[2] \in Int /\ s \in Int /\ s >= run.end - Lag
  BY <1>3, <1>4, <1>5
<1>9. /\ cursor' \in Int /\ cursor' <= w[2] /\ cursor' <= s
  BY <1>1, <1>8 DEF NvdScan!AtMost
<1> HIDE DEF w, s
<1>10. \A r \in Records : LET t == NvdScan!Latest(history[r]) IN
          /\ t \in Int
          /\ t > run.mark /\ t <= w[1] /\ t <= run.end - Lag => stored[r] = t
          /\ t >= w[1] /\ t <= w[2] /\ t <= s => stored'[r] = t
          /\ t <= w[1] /\ stored[r] = t => stored'[r] = t
  <2> TAKE r \in Records
  <2>1. NvdScan!Latest(history[r]) \in Int
    BY Modified
  <2>2. LET t == NvdScan!Latest(history[r]) IN
        t > run.mark /\ t <= w[1] /\ t <= run.end - Lag => stored[r] = t
    BY <1>1 DEF NvdCovers
  <2>3. LET t == NvdScan!Latest(history[r]) IN
        /\ t >= w[1] /\ t <= w[2] /\ t <= s => stored'[r] = t
        /\ t <= w[1] /\ stored[r] = t => stored'[r] = t
    BY CommitIsWhole DEF w, s
  <2> QED BY <2>1, <2>2, <2>3
<1>11. ASSUME NEW r \in Records, NEW t, t = NvdScan!Latest(history[r]), t > run.mark, t <= w[2],
              t <= run.end - Lag
       PROVE  stored'[r] = t
  <2>1. t \in Int /\ t <= s
    BY <1>3, <1>5, <1>8, <1>10, <1>11
  <2>2. CASE t <= w[1]
    BY <1>10, <1>11, <2>2
  <2>3. CASE t >= w[1]
    BY <1>10, <1>11, <2>1, <2>3
  <2> QED BY <1>8, <2>1, <2>2, <2>3
<1>12. ~marks'.initialized => Kept(from, cursor)'
  <2> SUFFICES ASSUME ~marks'.initialized, NEW r \in Records,
                      NvdScan!Latest(history[r]) > run.mark, NvdScan!Latest(history[r]) <= cursor'
               PROVE  stored'[r] = NvdScan!Latest(history[r])
    BY <1>1 DEF Kept
  <2> DEFINE t == NvdScan!Latest(history[r])
  <2>1. w[2] - w[1] >= Lag
    BY <1>1, <1>6, <1>7
  <2>2. t \in Int
    BY <1>10
  <2>3. t <= w[2] /\ t <= s
    BY <1>8, <1>9, <2>2
  <2>4. CASE t <= w[1]
    <3>1. t <= run.end - Lag
      BY <1>3, <1>5, <1>8, <2>1, <2>2, <2>4
    <3> QED BY <1>11, <2>3, <3>1
  <2>5. CASE t >= w[1]
    BY <1>10, <2>3, <2>5
  <2> QED BY <1>8, <2>2, <2>4, <2>5
<1>13. Kept(from, cursor - Overlap)'
  <2> SUFFICES ASSUME NEW r \in Records, NvdScan!Latest(history[r]) > run.mark,
                      NvdScan!Latest(history[r]) <= cursor' - Overlap
               PROVE  stored'[r] = NvdScan!Latest(history[r])
    BY <1>1 DEF Kept
  <2> DEFINE t == NvdScan!Latest(history[r])
  <2>1. t \in Int
    BY <1>10
  <2>2. t <= w[2] /\ t <= run.end - Lag
    BY <1>3, <1>5, <1>8, <1>9, <2>1
  <2> QED BY <1>11, <2>2
<1>14. NvdScan!Prompt \/ marks'.initialized
  BY <1>1, <1>6, <1>7
<1> QED BY <1>1, <1>6, <1>11, <1>12, <1>13, <1>14 DEF NvdCovers

LEMMA CoversEnds ==
    ASSUME NvdScan!NvdAssumption, NvdKnows, NvdCovers, NvdScan!Done \/ NvdScan!Abort
    PROVE  NvdCovers'
<1>1. CASE NvdScan!Abort
  BY <1>1 DEF NvdScan!Abort, NvdCovers, Kept
<1>2. CASE NvdScan!Done
  <2>1. /\ run # NvdScan!Idle /\ run' = NvdScan!Idle /\ run.windows = <<>>
        /\ now' = now /\ history' = history /\ stored' = stored
        /\ \/ cursor' = cursor /\ from' = from /\ marks' = marks
           \/ /\ run.initial /\ cursor' = run.end /\ from' = run.mark /\ run.end \in Int
              /\ marks' = [mode |-> TRUE, initialized |-> TRUE]
    BY <1>2, NvdDone
  <2>2. CASE cursor' = cursor /\ from' = from /\ marks' = marks
    BY <2>1, <2>2 DEF NvdCovers, Kept
  <2>3. CASE /\ cursor' = run.end /\ from' = run.mark /\ run.end \in Int
             /\ marks' = [mode |-> TRUE, initialized |-> TRUE]
    <3>1. Kept(from, cursor - Overlap)'
      <4> SUFFICES ASSUME NEW r \in Records, NvdScan!Latest(history[r]) > run.mark,
                          NvdScan!Latest(history[r]) <= run.end - Overlap
                   PROVE  stored[r] = NvdScan!Latest(history[r])
        BY <2>1, <2>3 DEF Kept
      <4>1. NvdScan!Latest(history[r]) \in Int /\ Lag \in Nat /\ Overlap \in Nat /\ Lag <= Overlap
        BY Modified, NvdConstants
      <4>2. NvdScan!Latest(history[r]) <= run.end /\ NvdScan!Latest(history[r]) <= run.end - Lag
        BY <2>3, <4>1
      <4> QED BY <2>1, <4>2 DEF NvdCovers, Reached
    <3> QED BY <2>1, <2>3, <3>1 DEF NvdCovers
  <2> QED BY <2>1, <2>2, <2>3
<1> QED BY <1>1, <1>2

LEMMA CoversStep ==
    NvdScan!NvdAssumption /\ Uninterrupted /\ NvdKnows /\ NvdCovers
        /\ [NvdScan!Next]_(NvdScan!vars) => NvdCovers'
BY CoversStays, CoversTime, CoversBaseline, CoversRunStarts, CoversPages, CoversCommit, CoversEnds
   DEF NvdScan!Next

\* Only a commit moves the cursor of a run that has windows left.
LEMMA WholeStep ==
    NvdScan!NvdAssumption /\ NvdKnows /\ [NvdScan!Next]_(NvdScan!vars)
        => [NvdScan!WindowIsWhole]_(NvdScan!vars)
<1> SUFFICES ASSUME NvdScan!NvdAssumption, NvdKnows, NvdScan!Next, run # NvdScan!Idle,
                    cursor' # cursor, run.windows # <<>>, NEW r \in Records,
                    NvdScan!Latest(history[r]) \in NvdScan!Window[1]..cursor'
             PROVE  stored'[r] = NvdScan!Latest(history[r])
  BY DEF NvdScan!WindowIsWhole
<1>1. NvdScan!Commit
  BY DEF NvdScan!Next, NvdScan!Modify, NvdScan!Tick, NvdScan!Baseline, NvdScan!Backfilling,
         NvdScan!CatchUp, NvdScan!FirstPage, NvdScan!NextPage, NvdScan!Done, NvdScan!Abort
<1>2. run.at = "reading" /\ run.page.stamp # NvdScan!None
  BY <1>1 DEF NvdScan!Commit
<1>3. NvdScan!Window \in Int \X Int /\ run \in NvdRuns
  BY <1>2, NvdReads
<1>4. run.page.stamp \in Int
  BY <1>3 DEF NvdRuns, NvdPages
<1>5. cursor' = NvdScan!AtMost(NvdScan!Window[2], run.page.stamp)
  BY <1>1, NvdCommit
<1>6. NvdScan!Latest(history[r]) \in Int
  BY Modified
<1>7. /\ NvdScan!Latest(history[r]) >= NvdScan!Window[1]
      /\ NvdScan!Latest(history[r]) <= NvdScan!Window[2]
      /\ NvdScan!Latest(history[r]) <= run.page.stamp
  BY <1>3, <1>4, <1>5, <1>6 DEF NvdScan!AtMost
<1> QED BY <1>1, <1>7, CommitIsWhole

LEMMA InitialStep ==
    NvdScan!NvdAssumption /\ NvdKnows /\ NvdCovers /\ NvdCovers' /\ [NvdScan!Next]_(NvdScan!vars)
        => [NvdScan!InitialIsWhole]_(NvdScan!vars)
<1> SUFFICES ASSUME NvdScan!NvdAssumption, NvdKnows, NvdCovers, NvdCovers', NvdScan!Next,
                    run # NvdScan!Idle, ~marks.initialized, marks'.initialized, NEW r \in Records,
                    NvdScan!Latest(history[r]) > from', NvdScan!Latest(history[r]) <= run.end - Lag
             PROVE  stored'[r] = NvdScan!Latest(history[r])
  BY DEF NvdScan!InitialIsWhole
<1>1. NvdScan!Commit \/ NvdScan!Done
  BY DEF NvdScan!Next, NvdScan!Modify, NvdScan!Tick, NvdScan!Baseline, NvdScan!Backfilling,
         NvdScan!CatchUp, NvdScan!FirstPage, NvdScan!NextPage, NvdScan!Abort
<1>2. NvdScan!Latest(history[r]) \in Int /\ Lag \in Nat /\ run.end \in Int
  BY Modified, NvdConstants DEF NvdKnows, NvdShapes, NvdRuns
<1>3. NvdScan!Latest(history[r]) <= run.end
  BY <1>2
<1>4. CASE NvdScan!Commit
  <2>1. /\ run' # NvdScan!Idle /\ run'.windows = <<>> /\ run'.end = run.end /\ run'.mark = run.mark
        /\ from' = run.mark /\ history' = history
    BY <1>4, NvdCommit
  <2>2. Reached' = run.end
    BY <2>1 DEF Reached
  <2> QED BY <1>3, <2>1, <2>2 DEF NvdCovers
<1>5. CASE NvdScan!Done
  <2>1. run.windows = <<>> /\ stored' = stored /\ from' = run.mark
    BY <1>5, NvdDone
  <2> QED BY <1>3, <2>1 DEF NvdCovers, Reached
<1> QED BY <1>1, <1>4, <1>5

\* A window that is committed is whole up to the cursor it sets, whatever the source does
\* between two pages and however old its answers are, and the bounds of the scan hold.
THEOREM NvdWindowsCorrect ==
    NvdScan!NvdAssumption =>
        (NvdScan!Spec => []NvdScan!TypeOK /\ [][NvdScan!WindowIsWhole]_(NvdScan!vars))
<1> SUFFICES ASSUME NvdScan!NvdAssumption
             PROVE  NvdScan!Spec => []NvdScan!TypeOK /\ [][NvdScan!WindowIsWhole]_(NvdScan!vars)
  OBVIOUS
<1>1. NvdScan!Init => NvdKnows
  BY NvdStart
<1>2. NvdKnows /\ [NvdScan!Next]_(NvdScan!vars) => NvdKnows'
  BY NvdStep
<1>3. NvdKnows => NvdScan!TypeOK
  <2> SUFFICES ASSUME NvdKnows PROVE NvdScan!TypeOK
    OBVIOUS
  <2>1. NvdScan!Start \in Nat /\ MaxTime \in Nat /\ LeastCursor \in Nat
    BY NvdConstants
  <2>2. now \in 0..MaxTime
    BY <2>1 DEF NvdKnows, NvdShapes
  <2>3. cursor \in (0..MaxTime) \cup {NvdScan!None} /\ from \in (0..MaxTime) \cup {NvdScan!None}
    BY <2>1, <2>2 DEF NvdKnows, NvdShapes
  <2> QED BY <2>2, <2>3 DEF NvdKnows, NvdShapes, NvdScan!TypeOK, NvdScan!Times
<1>4. NvdKnows /\ [NvdScan!Next]_(NvdScan!vars) => [NvdScan!WindowIsWhole]_(NvdScan!vars)
  BY WholeStep
<1> QED BY <1>1, <1>2, <1>3, <1>4, PTL DEF NvdScan!Spec

\* When initial runs are not interrupted, or no window but the last is narrower than an
\* answer may be old, no modification is lost: not behind the cursor of later runs, and not
\* before the initial run is called complete.
THEOREM NvdScanCorrect ==
    NvdScan!NvdAssumption /\ Uninterrupted =>
        (NvdScan!Spec => []NvdScan!NvdInv /\ [][NvdScan!NvdSteps]_(NvdScan!vars))
<1> SUFFICES ASSUME NvdScan!NvdAssumption, Uninterrupted
             PROVE  NvdScan!Spec => []NvdScan!NvdInv /\ [][NvdScan!NvdSteps]_(NvdScan!vars)
  OBVIOUS
<1> DEFINE Inv == NvdKnows /\ NvdCovers
<1>1. NvdScan!Init => Inv
  BY NvdStart, CoversStart
<1>2. Inv /\ [NvdScan!Next]_(NvdScan!vars) => Inv'
  BY NvdStep, CoversStep
<1>3. Inv => NvdScan!NothingMissed
  BY DEF NvdCovers, Kept, NvdScan!NothingMissed
<1>4. Inv /\ Inv' /\ [NvdScan!Next]_(NvdScan!vars) => [NvdScan!NvdSteps]_(NvdScan!vars)
  BY WholeStep, InitialStep DEF NvdScan!NvdSteps
<1>5. NvdScan!Spec => []NvdScan!TypeOK
  BY NvdWindowsCorrect, PTL
<1> QED BY <1>1, <1>2, <1>3, <1>4, <1>5, PTL DEF NvdScan!Spec, NvdScan!NvdInv
-----------------------------------------------------------------------------
(* Inventory scans: what the tables say, as a scan finds them or as its transaction sees *)
(* them, with rows r, aliases l and events e.                                            *)

Older(r, p, q) == r[p].first < r[q].first \/ (r[p].first = r[q].first /\ p <= q)

\* The rows that stand for a vulnerability.
Roots(l) == {q \in DOMAIN l : l[q] = q}

\* All names of a row lead to one row, directly.
TablesFit(r, l) ==
    /\ DOMAIN l \subseteq InventoryScan!Labels /\ DOMAIN r \subseteq DOMAIN l
    /\ \A n \in DOMAIN l : l[n] \in DOMAIN r /\ l[l[n]] = l[n]
    /\ \A q \in DOMAIN r : r[q].first \in Nat /\ \A n \in r[q].names : n \in DOMAIN l /\ l[n] = l[q]

\* Products have no aliases.
NoAliases(l) == \A n \in DOMAIN l : l[n] = n

\* The rows of a package have records of it.
HaveRecords(r) == \A q \in DOMAIN r : r[q].ids # {} /\ r[q].ids \subseteq r[q].names \cap Advisories

\* Before an upgrade: a row has all the names that lead to it, and is the oldest with them.
FirstVersion(r, l) ==
    /\ \A q \in DOMAIN r : r[q].target = 1 /\ Older(r, l[q], q)
    /\ \A n \in DOMAIN l : n \in r[l[n]].names

IsSequence(s) == \E S : s \in Seq(S)

\* What was told of the rows.
NewsOnce(e) ==
    \A j \in DOMAIN e :
        LET before == {i \in 1..(j - 1) : e[i].type = "new"}
        IN  IF e[j].type = "new" THEN \A i \in before : e[i].row \notin e[j].names
            ELSE \E i \in before : e[i].row = e[j].row

NewsOf(r, e) ==
    /\ \A i \in DOMAIN e : e[i].row \in DOMAIN r
    /\ \A p \in DOMAIN r : \E i \in DOMAIN e : e[i].type = "new" /\ e[i].row = p
    /\ \A p \in DOMAIN r : \E i \in DOMAIN e :
           /\ e[i].row = p /\ e[i].is = InventoryScan!Material(p, r[p])
           /\ \A j \in DOMAIN e : e[j].row = p => j <= i
-----------------------------------------------------------------------------
(* What the findings of a query say. *)

FindingsFit(fs) ==
    /\ \A f \in fs : f.names \subseteq InventoryScan!Labels /\ f.primary \in f.names
    /\ \A f, g \in fs : f.names \cap g.names # {} => f = g

\* The names that lead to each other are all in one finding.
Within(l, fs) == \A f \in fs : \A n \in DOMAIN l : n \in f.names <=> l[n] \in f.names

Covers(snapshot, fs) ==
    \A f \in fs : \A n \in f.names :
        n \in DOMAIN snapshot /\ InventoryScan!Rank(snapshot[n]) >= InventoryScan!Rank(f.state)

Decisions(w, known) == {w.osv[r].says : r \in known}

\* What sources that were all asked say of a package's records, apart from the catalogue.
PackageAgrees(w, f) ==
    /\ f.rejected = FALSE /\ f.state = InventoryScan!Reconcile(Decisions(w, f.ids), FALSE, f.ids)
    /\ f.evidence = {<<r, w.osv[r].says>> : r \in f.ids}
    /\ f.conflicts = InventoryScan!Conflicts(Decisions(w, f.ids), FALSE)
    /\ f.cvss \in {Nothing, w.cvss}

PackageKev(w, f) ==
    f.kev = IF f.state # "not_affected" /\ f.names \cap ScanCves # {} THEN w.kev ELSE Nothing

\* A core source of a product is out, or does not find it.
ProductIsOut(w, up) ==
    LET core == {"nvd", "cve_list", "euvd"} \cap Enabled
    IN  ~(core \subseteq up) \/ (~w.listed /\ "euvd" \in Enabled)

ProductAgrees(w, f) ==
    LET matched == "nvd" \in Enabled /\ w.listed
        decisions == (IF matched THEN {"affected"} ELSE {})
                        \cup (IF "cve_list" \in Enabled THEN {w.says} ELSE {"needs_review"})
        evidence == (IF matched THEN {<<"nvd">>} ELSE {})
                        \cup (IF "cve_list" \in Enabled THEN {<<"cve_list", w.says, FALSE>>} ELSE {})
    IN  /\ f.rejected = FALSE /\ f.state = InventoryScan!Reconcile(decisions, FALSE, evidence)
        /\ f.evidence = evidence /\ f.conflicts = InventoryScan!Conflicts(decisions, FALSE)
        /\ f.cvss = IF matched \/ "cve_list" \in Enabled THEN w.cvss ELSE Nothing

\* A package that was refreshed as a whole since the sources last published something.
PackageSettled(w, r, l) ==
    /\ \A a \in Advisories : w.osv[a].there => \E q \in Roots(l) : a \in r[q].ids
    /\ \A q \in Roots(l) :
           /\ \A a \in r[q].ids : w.osv[a].alias \subseteq r[q].names
           /\ PackageAgrees(w, r[q]) /\ ("cisa_kev" \in Enabled => PackageKev(w, r[q]))

ProductSettled(w, row) ==
    ProductAgrees(w, row) /\ ("cisa_kev" \in Enabled => row.kev = w.kev)

\* What a package's query knows.
PackageQuery(w, r, l, fs, up) ==
    /\ \A f \in fs :
           /\ f.ids # {} /\ f.ids \subseteq f.names \cap Advisories
           /\ ~w.rejected => f.rejected = FALSE
           /\ \A a \in f.ids :
                  /\ w.osv[a].alias \subseteq f.names
                  /\ w.osv[a].there \/ \E q \in Roots(l) : a \in r[q].ids

\* When its database answered and no upgrade came between.
PackageAnswer(w, r, l, fs, up) ==
    /\ \A a \in Advisories : w.osv[a].there => \E f \in fs : a \in f.ids
    /\ \A n \in DOMAIN l : \E f \in fs : n \in f.names
    /\ ~w.rejected => \A f \in fs :
           PackageAgrees(w, f) /\ ("cisa_kev" \in up => PackageKev(w, f))
    /\ PackageSettled(w, r, l) => \A f \in fs : \E q \in Roots(l) :
           f.names = r[q].names /\ f.ids = r[q].ids

ProductQuery(w, fs, up) ==
    \A f \in fs :
        /\ \E c \in f.names : f.names = {c}
        /\ ~w.rejected => f.rejected = FALSE
        /\ ~w.rejected /\ ~ProductIsOut(w, up) =>
               ProductAgrees(w, f) /\ ("cisa_kev" \in up => f.kev = w.kev)
-----------------------------------------------------------------------------
(* What holds of a scan at its places. *)

\* Tables that differ in scores only.
Alike(w, r, l, s, m) ==
    /\ DOMAIN s = DOMAIN r /\ DOMAIN m = DOMAIN l /\ \A n \in DOMAIN l : m[n] = l[n]
    /\ \A q \in DOMAIN r :
           /\ s[q].names = r[q].names /\ s[q].ids = r[q].ids
           /\ InventoryScan!Unscored(s[q]) = InventoryScan!Unscored(r[q])
           /\ s[q].cvss = r[q].cvss \/ {s[q].cvss, r[q].cvss} \subseteq {Nothing, w.cvss}

\* The tables.
StoreFits ==
    /\ changes \in 0..MaxChanges /\ target \in {1, 2} /\ assetPath \in IdentityPaths
    /\ IsSequence(events) /\ IsSequence(completed)
    /\ TablesFit(rows, ledger) /\ NewsOnce(events) /\ NewsOf(rows, events)
    /\ assetPath = "product" => NoAliases(ledger)
    /\ assetPath = "package" => HaveRecords(rows)
    /\ target = 1 => FirstVersion(rows, ledger)

\* What the sources publish, and the record of a scan until it is recorded.
WorldFits ==
    world \in [osv : [Advisories -> [there : BOOLEAN, says : Says \cup {"affected"},
                                    alias : {{}, ScanCves}]],
              listed : BOOLEAN, says : Says \cup {"affected"}, rejected : BOOLEAN,
              cvss : {1, 2}, kev : BOOLEAN]

ScanFits ==
    scan.phase \in {"queried", "recording"} =>
        scan = [phase |-> scan.phase, findings |-> scan.findings, up |-> scan.up,
                at |-> scan.at, complete |-> scan.complete]

\* What is complete since the sources last published something.
SinceFits ==
    /\ DOMAIN since = DOMAIN rows
    /\ \A p \in DOMAIN since : since[p] \in Int /\ since[p] <= changes
    /\ target = 1 /\ ~world.rejected =>
           /\ assetPath = "package" /\ (\E p \in DOMAIN since : since[p] = changes)
                  => PackageSettled(world, rows, ledger)
           /\ assetPath = "product" => \A p \in DOMAIN since :
                  since[p] = changes =>
                      ProductIsOut(world, Enabled) \/ ProductSettled(world, rows[p])

\* The query and the transaction of a scan.
QueryKnows ==
    scan.phase \in {"queried", "recording"} =>
        /\ scan.at = changes /\ scan.up \subseteq Enabled /\ FindingsFit(scan.findings)
        /\ assetPath = "package" =>
               /\ PackageQuery(world, rows, ledger, scan.findings, scan.up)
               /\ target = 1 /\ "osv" \in scan.up =>
                      PackageAnswer(world, rows, ledger, scan.findings, scan.up)
        /\ assetPath = "product" => ProductQuery(world, scan.findings, scan.up)
        /\ target = 1 => Within(ledger, scan.findings)

Taken == scan.findings \ tx.left

TxKnows ==
    scan.phase = "recording" =>
        /\ tx.left \subseteq scan.findings /\ IsSequence(tx.events)
        /\ TablesFit(tx.rows, tx.ledger) /\ NewsOnce(tx.events) /\ NewsOf(tx.rows, tx.events)
        /\ assetPath = "product" => NoAliases(tx.ledger)
        /\ assetPath = "package" => HaveRecords(tx.rows)
        /\ target = 1 => FirstVersion(tx.rows, tx.ledger) /\ Within(tx.ledger, scan.findings)
        /\ Covers(tx.snapshot, Taken)
        /\ target = 1 => tx.observed \subseteq UNION {f.names : f \in Taken}
        /\ DOMAIN rows \subseteq DOMAIN tx.rows /\ DOMAIN tx.rows \subseteq DOMAIN rows \cup tx.observed
        /\ tx.observed \subseteq DOMAIN tx.rows
        /\ \A p \in DOMAIN rows \ tx.observed : tx.rows[p] = rows[p]
        /\ DOMAIN events \subseteq DOMAIN tx.events
        /\ \A i \in DOMAIN tx.events \ DOMAIN events :
               /\ tx.events[i].row \in tx.observed
               /\ tx.events[i].type = "changed" =>
                      LET p == tx.events[i].row
                      IN  /\ p \in DOMAIN rows
                          /\ InventoryScan!Material(p, tx.rows[p]) # InventoryScan!Material(p, rows[p])

\* What was recorded of a package says what the sources say, and nothing is news that was
\* settled before.
PackageTx ==
    scan.phase = "recording" /\ assetPath = "package" /\ target = 1 /\ ~world.rejected =>
        /\ PackageSettled(world, rows, ledger) =>
               Alike(world, rows, ledger, tx.rows, tx.ledger)
        /\ "osv" \in scan.up =>
               /\ \A f \in Taken : \E q \in f.names \cap Roots(tx.ledger) :
                      /\ tx.rows[q].names = f.names /\ tx.rows[q].ids = f.ids
                      /\ PackageAgrees(world, tx.rows[q])
                      /\ "cisa_kev" \in scan.up => PackageKev(world, tx.rows[q])
               /\ \A n \in DOMAIN tx.ledger : \E f \in scan.findings : n \in f.names

ProductTx ==
    scan.phase = "recording" /\ assetPath = "product" /\ ~world.rejected =>
        /\ ProductIsOut(world, scan.up) => \A p \in DOMAIN rows : tx.rows[p] = rows[p]
        /\ ~ProductIsOut(world, scan.up) => \A p \in tx.observed :
               /\ ProductAgrees(world, tx.rows[p])
               /\ "cisa_kev" \in scan.up => tx.rows[p].kev = world.kev
        /\ \A p \in DOMAIN rows : ProductSettled(world, rows[p]) =>
               InventoryScan!Material(p, tx.rows[p]) = InventoryScan!Material(p, rows[p])

\* Runs, and the channels.
ChannelsFit ==
    /\ \A i \in DOMAIN completed : Covers(completed[i].snapshot, completed[i].findings)
    /\ channel \in [DOMAIN events -> [Channels -> {"pending", "failed", "accepted"}]]
    /\ attempt \in {"none", "running", "completed", "failed"}
    /\ scan.phase # "idle" => attempt = "running"
    /\ attempt = "completed" => \A c \in Channels : InventoryScan!Pending(c) = {}
    /\ scan.phase \in {"notify", "sent"} => scan.left \subseteq Channels /\ scan.failed \in BOOLEAN
    /\ scan.phase = "notify" /\ ~scan.failed =>
           \A c \in Channels \ scan.left : InventoryScan!Pending(c) = {}
    /\ scan.phase = "sent" =>
           /\ scan.to \in Channels /\ scan.ids = InventoryScan!Pending(scan.to)
           /\ scan.accepted \in BOOLEAN
           /\ ~scan.failed => \A c \in Channels \ (scan.left \cup {scan.to}) :
                  InventoryScan!Pending(c) = {}
-----------------------------------------------------------------------------
(* Names that are connected by links, and the oldest of some rows. *)

\* A set of natural numbers that is not empty has a least one.
LEMMA Least ==
    ASSUME NEW S \in SUBSET Nat, S # {}
    PROVE  \E n \in S : \A m \in S : n <= m
<1>1. \E n \in S : \A m \in S : ~(<<m, n>> \in OpToRel(<, Nat))
  BY NatLessThanWellFounded, WFMin, Zenon
<1>2. PICK n \in S : \A m \in S : ~(<<m, n>> \in OpToRel(<, Nat))
  BY <1>1
<1>3. \A m \in S : ~(m < n)
  BY <1>2, Zenon DEF OpToRel
<1> QED BY <1>3

LEMMA ConnectedIs ==
    ASSUME NEW links \in SUBSET SUBSET InventoryScan!Labels, NEW x \in InventoryScan!Labels
    PROVE  /\ x \in InventoryScan!Connected(x, links)
           /\ InventoryScan!Connected(x, links) \subseteq InventoryScan!Labels
           /\ \A l \in links : l \cap InventoryScan!Connected(x, links) # {} =>
                  l \subseteq InventoryScan!Connected(x, links)
<1> DEFINE C == InventoryScan!Connected(x, links)
           Closed(s) == x \in s /\ \A l \in links : l \cap s # {} => l \subseteq s
<1>1. C = {n \in InventoryScan!Labels : \A s \in SUBSET InventoryScan!Labels : Closed(s) => n \in s}
  BY DEF InventoryScan!Connected
<1> HIDE DEF C
<1>2. ASSUME NEW l \in links, l \cap C # {}, NEW y \in l PROVE y \in C
  <2>1. PICK z \in l : z \in C
    BY <1>2
  <2>2. ASSUME NEW s \in SUBSET InventoryScan!Labels, Closed(s) PROVE y \in s
    BY <1>1, <2>1, <2>2
  <2>3. y \in InventoryScan!Labels
    OBVIOUS
  <2> QED BY <1>1, <2>2, <2>3
<1> QED BY <1>1, <1>2 DEF C

LEMMA ConnectedLeast ==
    ASSUME NEW links, NEW x, NEW s \in SUBSET InventoryScan!Labels, x \in s,
           \A l \in links : l \cap s # {} => l \subseteq s
    PROVE  InventoryScan!Connected(x, links) \subseteq s
BY DEF InventoryScan!Connected

\* Names are connected in both directions.
LEMMA ConnectedMeet ==
    ASSUME NEW links \in SUBSET SUBSET InventoryScan!Labels,
           NEW x \in InventoryScan!Labels, NEW y \in InventoryScan!Labels,
           InventoryScan!Connected(x, links) \cap InventoryScan!Connected(y, links) # {}
    PROVE  InventoryScan!Connected(x, links) = InventoryScan!Connected(y, links)
<1> DEFINE C(n) == InventoryScan!Connected(n, links)
<1>1. ASSUME NEW n \in InventoryScan!Labels, NEW m \in C(n) PROVE C(m) = C(n)
  <2>1. /\ n \in C(n) /\ C(n) \subseteq InventoryScan!Labels
        /\ \A l \in links : l \cap C(n) # {} => l \subseteq C(n)
    BY ConnectedIs
  <2>2. m \in InventoryScan!Labels
    BY <1>1, <2>1
  <2>3. C(m) \subseteq C(n)
    BY <1>1, <2>1, ConnectedLeast
  <2>4. /\ m \in C(m) /\ \A l \in links : l \cap C(m) # {} => l \subseteq C(m)
    BY <2>2, ConnectedIs
  <2>5. PICK R : R = InventoryScan!Labels \ C(m)
    OBVIOUS
  <2>6. R \in SUBSET InventoryScan!Labels /\ \A l \in links : l \cap R # {} => l \subseteq R
    BY <2>4, <2>5
  <2>7. n \in C(m)
    <3>1. n \in R => C(n) \subseteq R
      BY <2>6, ConnectedLeast
    <3> QED BY <1>1, <2>4, <2>5, <3>1
  <2>8. C(m) \in SUBSET InventoryScan!Labels
    BY <2>1, <2>3
  <2>9. C(n) \subseteq C(m)
    BY <2>4, <2>7, <2>8, ConnectedLeast
  <2> QED BY <2>3, <2>9
<1>2. PICK z \in C(x) : z \in C(y)
  OBVIOUS
<1>3. C(z) = C(x) /\ C(z) = C(y)
  BY <1>1, <1>2
<1> QED BY <1>3

\* Of some rows one is the oldest, and only one.
LEMMA OldestIs ==
    ASSUME NEW r, NEW S \in SUBSET Nat, S # {}, \A q \in S : r[q].first \in Nat
    PROVE  /\ \E p \in S : \A q \in S : Older(r, p, q)
           /\ \A p, q \in S : Older(r, p, q) /\ Older(r, q, p) => p = q
<1>1. PICK t \in {r[q].first : q \in S} : \A u \in {r[q].first : q \in S} : t <= u
  <2>1. {r[q].first : q \in S} \in SUBSET Nat /\ {r[q].first : q \in S} # {}
    OBVIOUS
  <2> QED BY <2>1, Least
<1>2. PICK p \in {q \in S : r[q].first = t} : \A q \in {n \in S : r[n].first = t} : p <= q
  <2>1. {q \in S : r[q].first = t} \in SUBSET Nat /\ {q \in S : r[q].first = t} # {}
    BY <1>1
  <2> QED BY <2>1, Least
<1>3. ASSUME NEW q \in S PROVE Older(r, p, q)
  <2>1. t <= r[q].first /\ t \in Nat /\ r[q].first \in Nat /\ r[p].first = t
    BY <1>1, <1>2
  <2>2. CASE r[q].first = t
    BY <1>2, <2>1, <2>2 DEF Older
  <2>3. CASE r[q].first # t
    BY <2>1, <2>3 DEF Older
  <2> QED BY <2>2, <2>3
<1>4. ASSUME NEW m \in S, NEW q \in S, Older(r, m, q), Older(r, q, m) PROVE m = q
  <2>1. m \in Nat /\ q \in Nat /\ r[m].first \in Nat /\ r[q].first \in Nat
    OBVIOUS
  <2> QED BY <1>4, <2>1 DEF Older
<1> QED BY <1>2, <1>3, <1>4
-----------------------------------------------------------------------------
(* A row is put into the tables, and names are led to it. *)

Put(r, p, row) == [q \in DOMAIN r \cup {p} |-> IF q = p THEN row ELSE r[q]]
Lead(l, names, p) ==
    [n \in DOMAIN l \cup names |-> IF n \in names \/ l[n] \in names THEN p ELSE l[n]]

\* Names that were looked up: those of a row are among them if one of them is.
LookedUp(r, l, names) ==
    /\ names \subseteq InventoryScan!Labels
    /\ \A n \in names \cap DOMAIN l : l[n] \in names

LEMMA TablesPut ==
    ASSUME NEW r, NEW l, NEW names, NEW p \in names, NEW row,
           TablesFit(r, l), LookedUp(r, l, names), row.first \in Nat, row.names \subseteq names
    PROVE  TablesFit(Put(r, p, row), Lead(l, names, p))
<1> DEFINE s == Put(r, p, row)
           m == Lead(l, names, p)
<1>1. DOMAIN s = DOMAIN r \cup {p} /\ s[p] = row /\ \A q \in DOMAIN r : q # p => s[q] = r[q]
  BY DEF Put
<1>2. /\ DOMAIN m = DOMAIN l \cup names /\ \A n \in names : m[n] = p
      /\ \A n \in DOMAIN l : n \notin names =>
             m[n] = IF l[n] \in names THEN p ELSE l[n]
  BY DEF Lead
<1> HIDE DEF s, m
<1>3. /\ DOMAIN l \subseteq InventoryScan!Labels /\ DOMAIN r \subseteq DOMAIN l
      /\ \A n \in DOMAIN l : l[n] \in DOMAIN r /\ l[l[n]] = l[n]
      /\ \A q \in DOMAIN r : r[q].first \in Nat /\ \A n \in r[q].names : n \in DOMAIN l /\ l[n] = l[q]
  BY DEF TablesFit
<1>4. /\ names \subseteq InventoryScan!Labels
      /\ \A n \in names \cap DOMAIN l : l[n] \in names
  BY DEF LookedUp
<1>5. DOMAIN m \subseteq InventoryScan!Labels /\ DOMAIN s \subseteq DOMAIN m
  BY <1>1, <1>2, <1>3, <1>4
<1>6. ASSUME NEW n \in DOMAIN m PROVE m[n] \in DOMAIN s /\ m[m[n]] = m[n]
  BY <1>1, <1>2, <1>3, <1>4
<1>7. ASSUME NEW q \in DOMAIN s
      PROVE  s[q].first \in Nat /\ \A n \in s[q].names : n \in DOMAIN m /\ m[n] = m[q]
  <2>1. CASE q = p
    BY <1>1, <1>2, <2>1
  <2>2. CASE q # p
    BY <1>1, <1>2, <1>3, <1>4, <2>2
  <2> QED BY <2>1, <2>2
<1>8. TablesFit(s, m)
  BY <1>5, <1>6, <1>7 DEF TablesFit
<1> QED BY <1>8 DEF s, m

LEMMA NoAliasesPut ==
    ASSUME NEW l, NEW p, NoAliases(l) PROVE NoAliases(Lead(l, {p}, p))
BY DEF NoAliases, Lead

LEMMA HaveRecordsPut ==
    ASSUME NEW r, NEW p, NEW row, HaveRecords(r),
           row.ids # {} /\ row.ids \subseteq row.names \cap Advisories
    PROVE  HaveRecords(Put(r, p, row))
BY DEF HaveRecords, Put

\* Before an upgrade a finding has all names of the rows it is about.
Whole(l, names) == \A n \in DOMAIN l : n \in names <=> l[n] \in names

LEMMA FirstVersionPut ==
    ASSUME NEW r, NEW l, NEW names, NEW p \in names, NEW row, InventoryScan!Labels \subseteq Nat,
           TablesFit(r, l), FirstVersion(r, l), names \subseteq InventoryScan!Labels,
           Whole(l, names), row.target = 1, row.names = names, row.first \in Nat,
           p \in DOMAIN r => row.first = r[p].first,
           \A q \in names \cap DOMAIN r : p \in DOMAIN r /\ Older(r, p, q)
    PROVE  FirstVersion(Put(r, p, row), Lead(l, names, p))
<1> DEFINE s == Put(r, p, row)
           m == Lead(l, names, p)
<1>1. DOMAIN s = DOMAIN r \cup {p} /\ s[p] = row /\ \A q \in DOMAIN r : q # p => s[q] = r[q]
  BY DEF Put
<1>2. /\ DOMAIN m = DOMAIN l \cup names /\ \A n \in names : m[n] = p
      /\ \A n \in DOMAIN l : n \notin names =>
             m[n] = IF l[n] \in names THEN p ELSE l[n]
  BY DEF Lead
<1> HIDE DEF s, m
<1>3. /\ DOMAIN l \subseteq InventoryScan!Labels /\ DOMAIN r \subseteq DOMAIN l
      /\ \A n \in DOMAIN l : l[n] \in DOMAIN r /\ l[l[n]] = l[n]
      /\ \A q \in DOMAIN r : r[q].first \in Nat /\ \A n \in r[q].names : n \in DOMAIN l /\ l[n] = l[q]
  BY DEF TablesFit
<1>4. /\ \A q \in DOMAIN r : r[q].target = 1 /\ Older(r, l[q], q)
      /\ \A n \in DOMAIN l : n \in r[l[n]].names
  BY DEF FirstVersion
<1>5. \A n \in DOMAIN l : n \in names <=> l[n] \in names
  BY DEF Whole
<1>6. \A n \in DOMAIN l : n \notin names => m[n] = l[n] /\ l[n] # p
  BY <1>2, <1>5
<1>7. ASSUME NEW q \in DOMAIN s PROVE s[q].target = 1 /\ Older(s, m[q], q)
  <2>1. q \in Nat
    BY <1>1, <1>3
  <2>2. CASE q = p
    BY <1>1, <1>2, <2>1, <2>2 DEF Older
  <2>3. CASE q # p /\ q \in names
    <3>1. q \in DOMAIN r /\ s[q] = r[q] /\ m[q] = p /\ p \in DOMAIN r /\ Older(r, p, q)
      BY <1>1, <1>2, <2>3
    <3>2. s[p].first = r[p].first
      BY <1>1, <3>1
    <3> QED BY <1>4, <3>1, <3>2 DEF Older
  <2>4. CASE q # p /\ q \notin names
    <3>1. q \in DOMAIN r /\ s[q] = r[q] /\ m[q] = l[q] /\ l[q] # p /\ l[q] \in DOMAIN r
      BY <1>1, <1>3, <1>6, <2>4
    <3>2. s[l[q]] = r[l[q]] /\ Older(r, l[q], q)
      BY <1>1, <1>4, <3>1
    <3> QED BY <1>4, <3>1, <3>2 DEF Older
  <2> QED BY <2>2, <2>3, <2>4
<1>8. ASSUME NEW n \in DOMAIN m PROVE n \in s[m[n]].names
  <2>1. CASE n \in names
    BY <1>1, <1>2, <2>1
  <2>2. CASE n \notin names
    <3>1. n \in DOMAIN l /\ m[n] = l[n] /\ l[n] # p /\ l[n] \in DOMAIN r
      BY <1>2, <1>3, <1>6, <2>2
    <3> QED BY <1>1, <1>4, <3>1
  <2> QED BY <2>1, <2>2
<1>9. FirstVersion(s, m)
  BY <1>7, <1>8 DEF FirstVersion
<1> QED BY <1>9 DEF s, m

LEMMA WithinPut ==
    ASSUME NEW l, NEW fs, NEW f \in fs, NEW p \in f.names, FindingsFit(fs), Within(l, fs)
    PROVE  Within(Lead(l, f.names, p), fs)
<1>1. SUFFICES ASSUME NEW g \in fs, NEW n \in DOMAIN Lead(l, f.names, p)
               PROVE  n \in g.names <=> Lead(l, f.names, p)[n] \in g.names
  BY DEF Within
<1>2. /\ n \in DOMAIN l \cup f.names
      /\ Lead(l, f.names, p)[n] = IF n \in f.names \/ l[n] \in f.names THEN p ELSE l[n]
  BY DEF Lead
<1>3. f.names \cap g.names # {} => f = g
  BY DEF FindingsFit
<1>4. n \in DOMAIN l => (n \in f.names <=> l[n] \in f.names) /\ (n \in g.names <=> l[n] \in g.names)
  BY DEF Within
<1> QED BY <1>2, <1>3, <1>4
-----------------------------------------------------------------------------
(* Events, and what clients see. *)

\* s is e with x after it.
Longer(s, e, x) ==
    /\ Len(e) \in Nat /\ DOMAIN e = 1..Len(e) /\ DOMAIN s = 1..(Len(e) + 1)
    /\ \A i \in DOMAIN e : s[i] = e[i]
    /\ s[Len(e) + 1] = x

\* What a sequence is, whatever it holds.
LEMMA HasLength ==
    ASSUME NEW e, IsSequence(e)
    PROVE  Len(e) \in Nat /\ DOMAIN e = 1..Len(e)
<1>1. PICK S : e \in Seq(S)
  BY DEF IsSequence
<1> QED BY <1>1, LenProperties

\* One thing more, however it is added.
LEMMA SequenceGrows ==
    ASSUME NEW e, IsSequence(e), NEW x
    PROVE  /\ IsSequence(e \o <<x>>) /\ IsSequence(Append(e, x)) /\ e \o <<>> = e
           /\ Longer(e \o <<x>>, e, x) /\ Longer(Append(e, x), e, x)
<1>1. PICK S : e \in Seq(S)
  BY DEF IsSequence
<1>2. e \in Seq(S \cup {x}) /\ <<x>> \in Seq(S \cup {x}) /\ Len(<<x>>) = 1 /\ <<x>>[1] = x
  <2>1. \A i \in 1..Len(e) : e[i] \in S \cup {x}
    BY <1>1, ElementOfSeq
  <2>2. e \in [1..Len(e) -> S \cup {x}] /\ Len(e) \in Nat
    BY <1>1, <2>1, LenProperties
  <2> QED BY <2>2
<1>3. Len(e) \in Nat /\ DOMAIN e = 1..Len(e)
  BY <1>1, LenProperties
<1>4. Append(e, x) \in Seq(S \cup {x}) /\ e \o <<x>> \in Seq(S \cup {x}) /\ e \o <<>> = e
  BY <1>1, <1>2
<1>5. /\ Len(e \o <<x>>) = Len(e) + 1
      /\ \A i \in 1..Len(e) : (e \o <<x>>)[i] = e[i]
      /\ (e \o <<x>>)[Len(e) + 1] = x
  BY <1>2, <1>3
<1>6. /\ Len(Append(e, x)) = Len(e) + 1
      /\ \A i \in 1..Len(e) : Append(e, x)[i] = e[i]
      /\ Append(e, x)[Len(e) + 1] = x
  BY <1>2, <1>3
<1>7. /\ DOMAIN (e \o <<x>>) = 1..(Len(e) + 1) /\ DOMAIN Append(e, x) = 1..(Len(e) + 1)
  BY <1>4, <1>5, <1>6, LenProperties
<1>8. IsSequence(e \o <<x>>) /\ IsSequence(Append(e, x)) /\ e \o <<>> = e
  BY <1>4 DEF IsSequence
<1>9. Longer(e \o <<x>>, e, x)
  BY <1>3, <1>5, <1>7 DEF Longer
<1>10. Longer(Append(e, x), e, x)
  BY <1>3, <1>6, <1>7 DEF Longer
<1> QED BY <1>8, <1>9, <1>10

\* What is told of a row is the last that was told of it, and it was told as new once.
LEMMA NewsAdded ==
    ASSUME NEW r, NEW e, NEW p, NEW row, NEW x, IsSequence(e), NewsOnce(e), NewsOf(r, e),
           x.row = p, x.is = InventoryScan!Material(p, row),
           \/ x.type = "new" /\ p \notin DOMAIN r /\ x.names \cap DOMAIN r = {}
           \/ x.type = "changed" /\ p \in DOMAIN r
    PROVE  NewsOnce(e \o <<x>>) /\ NewsOf(Put(r, p, row), e \o <<x>>)
<1> DEFINE s == Put(r, p, row)
           m == e \o <<x>>
           n == Len(e) + 1
<1>1. DOMAIN s = DOMAIN r \cup {p} /\ s[p] = row /\ \A q \in DOMAIN r : q # p => s[q] = r[q]
  BY DEF Put
<1>2. /\ n \in Nat \ {0} /\ DOMAIN e = 1..(n - 1) /\ DOMAIN m = 1..n
      /\ \A i \in DOMAIN e : m[i] = e[i]
      /\ m[n] = x
  <2>1. /\ Len(e) \in Nat /\ DOMAIN e = 1..Len(e) /\ DOMAIN m = 1..(Len(e) + 1)
        /\ \A i \in DOMAIN e : m[i] = e[i]
        /\ m[Len(e) + 1] = x
    <3>1. Longer(m, e, x)
      BY SequenceGrows
    <3> QED BY <3>1 DEF Longer
  <2>2. n \in Nat \ {0} /\ n - 1 = Len(e)
    BY <2>1
  <2> QED BY <2>1, <2>2
<1> HIDE DEF s, m, n
<1>3. \A i \in DOMAIN m : i \in DOMAIN e \/ i = n
  BY <1>2
<1>4. n \in DOMAIN m /\ DOMAIN e \subseteq DOMAIN m /\ \A i \in DOMAIN e : i < n /\ i <= n
  BY <1>2
<1>5. /\ \A i \in DOMAIN e : e[i].row \in DOMAIN r
      /\ \A q \in DOMAIN r : \E i \in DOMAIN e : e[i].type = "new" /\ e[i].row = q
      /\ \A q \in DOMAIN r : \E i \in DOMAIN e :
           /\ e[i].row = q /\ e[i].is = InventoryScan!Material(q, r[q])
           /\ \A j \in DOMAIN e : e[j].row = q => j <= i
  BY DEF NewsOf
<1>6. NewsOnce(m)
  <2>1. SUFFICES ASSUME NEW j \in DOMAIN m
                 PROVE  LET before == {i \in 1..(j - 1) : m[i].type = "new"}
                        IN  IF m[j].type = "new" THEN \A i \in before : m[i].row \notin m[j].names
                            ELSE \E i \in before : m[i].row = m[j].row
    BY DEF NewsOnce
  <2>2. CASE j \in DOMAIN e
    <3>1. \A i \in 1..(j - 1) : i \in DOMAIN e /\ m[i] = e[i]
      BY <1>2, <2>2
    <3>2. m[j] = e[j]
      BY <1>2, <2>2
    <3>3. {i \in 1..(j - 1) : m[i].type = "new"} = {i \in 1..(j - 1) : e[i].type = "new"}
      BY <3>1
    <3>4. LET before == {i \in 1..(j - 1) : e[i].type = "new"}
          IN  IF e[j].type = "new" THEN \A i \in before : e[i].row \notin e[j].names
              ELSE \E i \in before : e[i].row = e[j].row
      BY <2>2 DEF NewsOnce
    <3> QED BY <3>1, <3>2, <3>3, <3>4
  <2>3. CASE j = n
    <3>1. 1..(j - 1) = DOMAIN e /\ m[j] = x
      BY <1>2, <2>3
    <3>2. CASE x.type = "new"
      <4>1. x.names \cap DOMAIN r = {}
        BY <3>2
      <4> QED BY <1>2, <1>5, <3>1, <3>2, <4>1
    <3>3. CASE x.type = "changed"
      <4>1. PICK i \in DOMAIN e : e[i].type = "new" /\ e[i].row = p
        BY <1>5, <3>3
      <4>2. i \in {k \in 1..(j - 1) : m[k].type = "new"} /\ m[i].row = m[j].row
        BY <1>2, <3>1, <4>1
      <4> QED BY <3>1, <3>3, <4>2
    <3> QED BY <3>2, <3>3
  <2> QED BY <1>3, <2>2, <2>3
<1>7. \A i \in DOMAIN m : m[i].row \in DOMAIN s
  BY <1>1, <1>2, <1>3, <1>5
<1>8. ASSUME NEW q \in DOMAIN s PROVE \E i \in DOMAIN m : m[i].type = "new" /\ m[i].row = q
  <2>1. CASE q \in DOMAIN r
    <3>1. PICK i \in DOMAIN e : e[i].type = "new" /\ e[i].row = q
      BY <1>5, <2>1
    <3> QED BY <1>2, <1>4, <3>1
  <2>2. CASE q \notin DOMAIN r
    BY <1>1, <1>2, <1>4, <2>2
  <2> QED BY <2>1, <2>2
<1>9. ASSUME NEW q \in DOMAIN s
      PROVE  \E i \in DOMAIN m :
                 /\ m[i].row = q /\ m[i].is = InventoryScan!Material(q, s[q])
                 /\ \A j \in DOMAIN m : m[j].row = q => j <= i
  <2>1. CASE q = p
    <3>1. \A j \in DOMAIN m : j <= n
      BY <1>2, <1>3, <1>4
    <3> QED BY <1>1, <1>2, <1>4, <2>1, <3>1
  <2>2. CASE q # p
    <3>1. q \in DOMAIN r /\ s[q] = r[q]
      BY <1>1, <2>2
    <3>2. PICK i \in DOMAIN e :
              /\ e[i].row = q /\ e[i].is = InventoryScan!Material(q, r[q])
              /\ \A j \in DOMAIN e : e[j].row = q => j <= i
      BY <1>5, <3>1
    <3>3. \A j \in DOMAIN m : m[j].row = q => j <= i
      BY <1>2, <1>3, <2>2, <3>2
    <3> QED BY <1>2, <1>4, <3>1, <3>2, <3>3
  <2> QED BY <2>1, <2>2
<1>10. NewsOf(s, m)
  BY <1>7, <1>8, <1>9 DEF NewsOf
<1> QED BY <1>6, <1>10 DEF s, m

\* A row that says the same again needs no news.
LEMMA NewsSame ==
    ASSUME NEW r, NEW e, NEW p \in DOMAIN r, NEW row, NewsOf(r, e),
           InventoryScan!Material(p, row) = InventoryScan!Material(p, r[p])
    PROVE  NewsOf(Put(r, p, row), e)
<1>1. /\ DOMAIN Put(r, p, row) = DOMAIN r
      /\ \A q \in DOMAIN r : Put(r, p, row)[q] = IF q = p THEN row ELSE r[q]
  BY DEF Put
<1>2. \A q \in DOMAIN r : InventoryScan!Material(q, Put(r, p, row)[q]) = InventoryScan!Material(q, r[q])
  BY <1>1
<1> QED BY <1>1, <1>2 DEF NewsOf

LEMMA RankIs ==
    \A s, t : /\ InventoryScan!Rank(s) \in 0..2
              /\ \/ InventoryScan!Rank(s) >= InventoryScan!Rank(t)
                 \/ InventoryScan!Rank(t) > InventoryScan!Rank(s)
BY DEF InventoryScan!Rank

LEMMA CoversMore ==
    ASSUME NEW snapshot, NEW fs, NEW f, NEW names, Covers(snapshot, fs), f.names \subseteq names
    PROVE  Covers(InventoryScan!Worse(snapshot, names, f.state), fs \cup {f})
<1> DEFINE w == InventoryScan!Worse(snapshot, names, f.state)
<1>1. /\ DOMAIN w = DOMAIN snapshot \cup names
      /\ \A n \in DOMAIN w :
           w[n] = IF n \notin DOMAIN snapshot THEN f.state
                  ELSE IF n \in names /\ InventoryScan!Rank(f.state) > InventoryScan!Rank(snapshot[n])
                       THEN f.state ELSE snapshot[n]
  BY DEF InventoryScan!Worse
<1> HIDE DEF w
<1>2. ASSUME NEW n \in f.names PROVE InventoryScan!Rank(w[n]) >= InventoryScan!Rank(f.state)
  BY <1>1, RankIs
<1>3. ASSUME NEW g \in fs, NEW n \in g.names
      PROVE  n \in DOMAIN w /\ InventoryScan!Rank(w[n]) >= InventoryScan!Rank(g.state)
  <2>1. n \in DOMAIN snapshot /\ InventoryScan!Rank(snapshot[n]) >= InventoryScan!Rank(g.state)
    BY DEF Covers
  <2>2. w[n] = snapshot[n]
            \/ (w[n] = f.state /\ InventoryScan!Rank(f.state) > InventoryScan!Rank(snapshot[n]))
    BY <1>1, <2>1
  <2>3. \A i, j, k \in 0..2 : i > j /\ j >= k => i >= k
    OBVIOUS
  <2> QED BY <1>1, <2>1, <2>2, <2>3, RankIs
<1>4. Covers(w, fs \cup {f})
  BY <1>1, <1>2, <1>3 DEF Covers
<1> QED BY <1>4 DEF w
-----------------------------------------------------------------------------
(* The finding that is recorded next. *)

LEMMA LabelsAre == InventoryScan!InventoryScanAssumption => InventoryScan!Labels \subseteq Nat
BY DEF InventoryScan!InventoryScanAssumption, InventoryScan!Labels

LEMMA NextIs ==
    ASSUME InventoryScan!InventoryScanAssumption, QueryKnows, TxKnows,
           scan.phase = "recording", NEW f \in tx.left
    PROVE  LET C == InventoryScan!Candidates(f)
               p == InventoryScan!Primary(f)
           IN  /\ f \in scan.findings /\ f.primary \in f.names /\ f.names \subseteq C
               /\ LookedUp(tx.rows, tx.ledger, C) /\ p \in C
               /\ InventoryScan!Found(f) = C \cap DOMAIN tx.rows
               /\ InventoryScan!Found(f) = {} =>
                      C = f.names /\ p \notin DOMAIN tx.rows /\ C \cap DOMAIN tx.ledger = {}
               /\ InventoryScan!Found(f) # {} =>
                      /\ p \in DOMAIN tx.rows
                      /\ \A q \in C \cap DOMAIN tx.rows : Older(tx.rows, p, q)
               /\ target = 1 => C = f.names /\ Whole(tx.ledger, f.names)
               /\ assetPath = "product" => C = f.names /\ f.names = {p}
<1> DEFINE L == tx.ledger
           R == tx.rows
           C == InventoryScan!Candidates(f)
           F == InventoryScan!Found(f)
           p == InventoryScan!Primary(f)
<1>1. f \in scan.findings /\ f.names \subseteq InventoryScan!Labels /\ f.primary \in f.names
  BY DEF QueryKnows, TxKnows, FindingsFit
<1>2. /\ DOMAIN L \subseteq InventoryScan!Labels /\ DOMAIN R \subseteq DOMAIN L
      /\ \A n \in DOMAIN L : L[n] \in DOMAIN R /\ L[L[n]] = L[n]
      /\ \A q \in DOMAIN R : R[q].first \in Nat
  BY DEF TxKnows, TablesFit
<1>3. C = f.names \cup {L[n] : n \in f.names \cap DOMAIN L} /\ F = C \cap DOMAIN R
  BY DEF InventoryScan!Candidates, InventoryScan!Found
<1>4. p = IF F = {} THEN f.primary ELSE InventoryScan!Oldest(F)
  BY DEF InventoryScan!Primary
<1>5. InventoryScan!Oldest(F) = CHOOSE n \in F : \A q \in F : Older(R, n, q)
  BY DEF InventoryScan!Oldest, Older
<1> HIDE DEF L, R, C, F, p
<1>6. C \subseteq InventoryScan!Labels /\ \A n \in C \cap DOMAIN L : L[n] \in C
  BY <1>1, <1>2, <1>3
<1>7. ASSUME F = {}
      PROVE  C = f.names /\ p = f.primary /\ p \notin DOMAIN R /\ C \cap DOMAIN L = {}
  <2>1. f.names \cap DOMAIN L = {}
    BY <1>2, <1>3, <1>7
  <2>2. C = f.names
    BY <1>3, <2>1
  <2> QED BY <1>1, <1>2, <1>3, <1>4, <1>7, <2>1, <2>2
<1>8. ASSUME F # {}
      PROVE  p \in F /\ \A q \in F : Older(R, p, q)
  <2>1. F \in SUBSET Nat /\ \A q \in F : R[q].first \in Nat
    BY <1>2, <1>3, <1>6, LabelsAre
  <2>2. \E n \in F : \A q \in F : Older(R, n, q)
    BY <1>8, <2>1, OldestIs
  <2>3. p \in F /\ \A q \in F : Older(R, p, q)
    BY <1>4, <1>5, <1>8, <2>2
  <2> QED BY <2>3
<1>9. p \in C
  BY <1>1, <1>3, <1>7, <1>8
<1>10. target = 1 => C = f.names /\ Whole(L, f.names)
  <2>1. target = 1 => Within(L, scan.findings)
    BY DEF TxKnows, L
  <2>2. target = 1 => Whole(L, f.names)
    BY <1>1, <2>1 DEF Within, Whole
  <2> QED BY <1>3, <2>2 DEF Whole
<1>11. assetPath = "product" => C = f.names /\ f.names = {p}
  <2>1. SUFFICES ASSUME assetPath = "product" PROVE C = f.names /\ f.names = {p}
    OBVIOUS
  <2>2. NoAliases(L) /\ \E c \in f.names : f.names = {c}
    BY <1>1, <2>1 DEF TxKnows, QueryKnows, ProductQuery, L
  <2>3. C = f.names
    BY <1>3, <2>2 DEF NoAliases
  <2> QED BY <1>9, <2>2, <2>3
<1>12. /\ F = {} => C = f.names /\ p \notin DOMAIN R /\ C \cap DOMAIN L = {}
       /\ F # {} => p \in DOMAIN R /\ \A q \in C \cap DOMAIN R : Older(R, p, q)
  BY <1>2, <1>3, <1>7, <1>8
<1> QED BY <1>1, <1>3, <1>6, <1>9, <1>10, <1>11, <1>12 DEF LookedUp, C, F, p, L, R

\* The names a finding is told under.
LEMMA AllNamesAre ==
    ASSUME InventoryScan!InventoryScanAssumption, QueryKnows, TxKnows,
           scan.phase = "recording", NEW f \in tx.left
    PROVE  /\ f.names \subseteq InventoryScan!AllNames(f)
           /\ InventoryScan!Found(f) = {} => InventoryScan!AllNames(f) \cap DOMAIN tx.rows = {}
<1> DEFINE L == tx.ledger
           C == InventoryScan!Candidates(f)
           p == InventoryScan!Primary(f)
           links == {{m, L[m]} : m \in DOMAIN L}
<1>1. InventoryScan!AllNames(f) = UNION {InventoryScan!Connected(n, links) : n \in C \cup {p}}
  BY DEF InventoryScan!AllNames
<1>2. f.names \subseteq C /\ C \subseteq InventoryScan!Labels /\ p \in C
  BY NextIs DEF LookedUp
<1>3. /\ DOMAIN L \subseteq InventoryScan!Labels /\ DOMAIN tx.rows \subseteq DOMAIN L
      /\ \A n \in DOMAIN L : L[n] \in DOMAIN L
  BY DEF TxKnows, TablesFit
<1>4. links \in SUBSET SUBSET InventoryScan!Labels
  BY <1>3
<1>5. \A n \in C : n \in InventoryScan!Connected(n, links)
  BY <1>2, <1>4, ConnectedIs
<1>6. ASSUME InventoryScan!Found(f) = {}, NEW n \in C
      PROVE  InventoryScan!Connected(n, links) \cap DOMAIN tx.rows = {}
  <2>1. n \notin DOMAIN L
    BY <1>6, NextIs
  <2>2. \A l \in links : l \cap {n} = {}
    BY <1>3, <2>1
  <2>3. {n} \in SUBSET InventoryScan!Labels /\ n \in {n}
    BY <1>2
  <2>4. \A l \in links : l \cap {n} # {} => l \subseteq {n}
    BY <2>2
  <2> HIDE DEF links
  <2>5. InventoryScan!Connected(n, links) \subseteq {n}
    BY <2>3, <2>4, ConnectedLeast
  <2> QED BY <1>3, <2>1, <2>5
<1>7. f.names \subseteq InventoryScan!AllNames(f)
  BY <1>1, <1>2, <1>5
<1>8. InventoryScan!Found(f) = {} => InventoryScan!AllNames(f) \cap DOMAIN tx.rows = {}
  <2>1. C \cup {p} = C
    BY <1>2
  <2> HIDE DEF C, links
  <2> QED BY <1>1, <1>6, <2>1
<1> QED BY <1>7, <1>8

\* Before an upgrade no two findings are the same known one.
LEMMA NoCollision ==
    ASSUME InventoryScan!InventoryScanAssumption, QueryKnows, TxKnows,
           scan.phase = "recording", target = 1, NEW f \in tx.left
    PROVE  ~InventoryScan!Collides(f)
<1>1. /\ InventoryScan!Candidates(f) = f.names /\ InventoryScan!Primary(f) \in f.names
      /\ f \in scan.findings
  BY NextIs
<1>2. tx.observed \subseteq UNION {g.names : g \in Taken}
  BY DEF TxKnows
<1>3. ASSUME NEW n \in f.names, n \in tx.observed PROVE FALSE
  <2>1. PICK g \in Taken : n \in g.names
    BY <1>2, <1>3
  <2>2. g \in scan.findings /\ g # f
    BY <2>1 DEF Taken
  <2>3. f.names \cap g.names # {} => f = g
    BY <1>1, <2>2 DEF QueryKnows, FindingsFit
  <2> QED BY <1>3, <2>1, <2>2, <2>3
<1> QED BY <1>1, <1>3 DEF InventoryScan!Collides
-----------------------------------------------------------------------------
(* A finding is recorded. *)

LEMMA RowIs ==
    ASSUME NEW f
    PROVE  LET p == InventoryScan!Primary(f)
               row == InventoryScan!Row(f)
           IN  /\ row.names = f.names \cup {p} /\ row.ids = f.ids /\ row.target = target
               /\ row.state = f.state /\ row.rejected = f.rejected /\ row.cvss = f.cvss
               /\ row.evidence = f.evidence /\ row.conflicts = f.conflicts
               /\ InventoryScan!Found(f) = {} => row.first = Len(completed) + 1 /\ row.kev = f.kev
               /\ InventoryScan!Found(f) # {} =>
                      /\ row.first = tx.rows[p].first
                      /\ row.kev = IF "cisa_kev" \notin scan.up THEN tx.rows[p].kev ELSE f.kev
BY DEF InventoryScan!Row, InventoryScan!KeepsExploited

LEMMA RetainIs ==
    ASSUME NEW f, InventoryScan!Retain(f)
    PROVE  /\ scan.phase = "recording" /\ f \in tx.left /\ InventoryScan!Retains(f)
           /\ ~InventoryScan!Collides(f)
           /\ tx'.left = tx.left \ {f} /\ tx'.rows = tx.rows /\ tx'.ledger = tx.ledger
           /\ tx'.events = tx.events
           /\ tx'.observed = tx.observed \cup {InventoryScan!Primary(f)}
           /\ tx'.snapshot = InventoryScan!Worse(tx.snapshot, InventoryScan!AllNames(f), f.state)
BY DEF InventoryScan!Retain, InventoryScan!IsNext

LEMMA RefreshIs ==
    ASSUME NEW f, InventoryScan!Refresh(f)
    PROVE  /\ scan.phase = "recording" /\ f \in tx.left /\ ~InventoryScan!Retains(f)
           /\ ~InventoryScan!Collides(f)
           /\ tx'.left = tx.left \ {f}
           /\ tx'.rows = Put(tx.rows, InventoryScan!Primary(f), InventoryScan!Row(f))
           /\ tx'.ledger = Lead(tx.ledger, InventoryScan!Candidates(f), InventoryScan!Primary(f))
           /\ tx'.events = tx.events \o InventoryScan!News(f)
           /\ tx'.observed = tx.observed \cup {InventoryScan!Primary(f)}
           /\ tx'.snapshot = InventoryScan!Worse(tx.snapshot, InventoryScan!AllNames(f), f.state)
<1>1. tx'.rows = Put(tx.rows, InventoryScan!Primary(f), InventoryScan!Row(f))
  BY DEF InventoryScan!Refresh, Put
<1>2. tx'.ledger = Lead(tx.ledger, InventoryScan!Candidates(f), InventoryScan!Primary(f))
  BY DEF InventoryScan!Refresh, InventoryScan!Redirect, Lead
<1> QED BY <1>1, <1>2 DEF InventoryScan!Refresh, InventoryScan!IsNext

LEMMA NewsAre ==
    ASSUME InventoryScan!InventoryScanAssumption, QueryKnows, TxKnows,
           scan.phase = "recording", NEW f \in tx.left
    PROVE  LET p == InventoryScan!Primary(f)
               row == InventoryScan!Row(f)
               s == tx.events \o InventoryScan!News(f)
           IN  /\ IsSequence(s) /\ NewsOnce(s) /\ NewsOf(Put(tx.rows, p, row), s)
               /\ DOMAIN tx.events \subseteq DOMAIN s
               /\ \A i \in DOMAIN tx.events : s[i] = tx.events[i]
               /\ \A i \in DOMAIN s \ DOMAIN tx.events :
                      /\ s[i].row = p
                      /\ s[i].type = "changed" =>
                             /\ p \in DOMAIN tx.rows
                             /\ InventoryScan!Material(p, row) # InventoryScan!Material(p, tx.rows[p])
<1> DEFINE p == InventoryScan!Primary(f)
           row == InventoryScan!Row(f)
           e == tx.events
           r == tx.rows
           Fits(s) ==
               /\ IsSequence(s) /\ NewsOnce(s) /\ NewsOf(Put(r, p, row), s)
               /\ DOMAIN e \subseteq DOMAIN s
               /\ \A i \in DOMAIN e : s[i] = e[i]
               /\ \A i \in DOMAIN s \ DOMAIN e :
                      /\ s[i].row = p
                      /\ s[i].type = "changed" =>
                             /\ p \in DOMAIN r
                             /\ InventoryScan!Material(p, row) # InventoryScan!Material(p, r[p])
<1>1. IsSequence(e) /\ NewsOnce(e) /\ NewsOf(r, e)
  BY DEF TxKnows
<1>2. ASSUME NEW x, x.row = p, x.is = InventoryScan!Material(p, row),
             \/ x.type = "new" /\ p \notin DOMAIN r /\ x.names \cap DOMAIN r = {}
             \/ /\ x.type = "changed" /\ p \in DOMAIN r
                /\ InventoryScan!Material(p, row) # InventoryScan!Material(p, r[p])
      PROVE  Fits(e \o <<x>>)
  <2> HIDE DEF p, row, e, r
  <2>1. NewsOnce(e \o <<x>>) /\ NewsOf(Put(r, p, row), e \o <<x>>)
    BY <1>1, <1>2, NewsAdded
  <2>2. /\ IsSequence(e \o <<x>>) /\ Len(e) \in Nat
        /\ DOMAIN e = 1..Len(e) /\ DOMAIN (e \o <<x>>) = 1..(Len(e) + 1)
        /\ \A i \in DOMAIN e : (e \o <<x>>)[i] = e[i]
        /\ (e \o <<x>>)[Len(e) + 1] = x
    <3>1. IsSequence(e \o <<x>>) /\ Longer(e \o <<x>>, e, x)
      BY <1>1, SequenceGrows
    <3> QED BY <3>1 DEF Longer
  <2>3. PICK s : s = e \o <<x>>
    OBVIOUS
  <2>4. DOMAIN e \subseteq DOMAIN s /\ \A i \in DOMAIN s \ DOMAIN e : i = Len(e) + 1
    BY <2>2, <2>3
  <2>5. \A i \in DOMAIN s \ DOMAIN e : s[i] = x
    BY <2>2, <2>3, <2>4
  <2>6. Fits(s)
    BY <1>2, <2>1, <2>2, <2>3, <2>4, <2>5
  <2> QED BY <2>3, <2>6
<1>3. CASE InventoryScan!Found(f) = {}
  <2> DEFINE x == [type |-> "new", row |-> p, names |-> InventoryScan!AllNames(f),
                   is |-> InventoryScan!Material(p, row)]
  <2>1. InventoryScan!News(f) = <<x>>
    BY <1>3 DEF InventoryScan!News
  <2>2. p \notin DOMAIN r /\ x.names \cap DOMAIN r = {}
    BY <1>3, NextIs, AllNamesAre
  <2>3. x.row = p /\ x.is = InventoryScan!Material(p, row) /\ x.type = "new"
    OBVIOUS
  <2> HIDE DEF x, p, row, e, r
  <2>4. Fits(e \o <<x>>)
    BY <1>2, <2>2, <2>3
  <2>5. Fits(e \o InventoryScan!News(f))
    BY <2>1, <2>4
  <2> QED BY <2>5 DEF p, row, e, r
<1>4. CASE InventoryScan!Found(f) # {} /\ InventoryScan!Material(p, row) # InventoryScan!Material(p, r[p])
  <2> DEFINE x == [type |-> "changed", row |-> p, names |-> InventoryScan!AllNames(f),
                   is |-> InventoryScan!Material(p, row)]
  <2>1. InventoryScan!News(f) = <<x>>
    BY <1>4 DEF InventoryScan!News
  <2>2. p \in DOMAIN r
    BY <1>4, NextIs
  <2>3. x.row = p /\ x.is = InventoryScan!Material(p, row) /\ x.type = "changed"
    OBVIOUS
  <2> HIDE DEF x, p, row, e, r
  <2>4. Fits(e \o <<x>>)
    BY <1>2, <1>4, <2>2, <2>3
  <2>5. Fits(e \o InventoryScan!News(f))
    BY <2>1, <2>4
  <2> QED BY <2>5 DEF p, row, e, r
<1>5. CASE InventoryScan!Found(f) # {} /\ InventoryScan!Material(p, row) = InventoryScan!Material(p, r[p])
  <2>1. InventoryScan!News(f) = <<>>
    BY <1>5 DEF InventoryScan!News
  <2>2. p \in DOMAIN r
    BY <1>5, NextIs
  <2> HIDE DEF p, row, e, r
  <2>3. e \o <<>> = e
    BY <1>1, SequenceGrows
  <2>4. NewsOf(Put(r, p, row), e)
    BY <1>1, <1>5, <2>2, NewsSame
  <2>5. Fits(e)
    BY <1>1, <2>4
  <2>6. Fits(e \o InventoryScan!News(f))
    BY <2>1, <2>3, <2>5
  <2> QED BY <2>6 DEF p, row, e, r
<1> QED BY <1>3, <1>4, <1>5
-----------------------------------------------------------------------------
(* The transaction goes on. *)

\* What a finding leaves alone while it is recorded.
RestStays ==
    UNCHANGED <<assetPath, target, world, changes, rows, ledger, events, channel, completed,
                attempt, scan, took, since>>

LEMMA RecordingStays ==
    ASSUME NEW f, InventoryScan!Retain(f) \/ InventoryScan!Refresh(f) PROVE RestStays
BY DEF InventoryScan!Retain, InventoryScan!Refresh, InventoryScan!store, RestStays

LEMMA StoreStays == StoreFits /\ RestStays => StoreFits'
BY DEF StoreFits, RestStays

LEMMA SinceStays == SinceFits /\ RestStays => SinceFits'
BY DEF SinceFits, RestStays

LEMMA QueryStays == QueryKnows /\ RestStays => QueryKnows'
BY DEF QueryKnows, RestStays

LEMMA ChannelsStay == ChannelsFit /\ RestStays => ChannelsFit'
BY DEF ChannelsFit, RestStays, InventoryScan!Pending

\* One more is taken, and what clients see covers it.
LEMMA TakenMore ==
    ASSUME InventoryScan!InventoryScanAssumption, QueryKnows, TxKnows,
           scan.phase = "recording", NEW f \in tx.left, RestStays, tx'.left = tx.left \ {f},
           tx'.observed = tx.observed \cup {InventoryScan!Primary(f)},
           tx'.snapshot = InventoryScan!Worse(tx.snapshot, InventoryScan!AllNames(f), f.state)
    PROVE  /\ Taken' = Taken \cup {f} /\ tx'.left \subseteq scan'.findings
           /\ Covers(tx'.snapshot, Taken')
           /\ target' = 1 => tx'.observed \subseteq UNION {g.names : g \in Taken'}
<1>1. scan' = scan /\ f \in scan.findings /\ tx.left \subseteq scan.findings /\ target' = target
  BY DEF RestStays, TxKnows
<1>2. Taken' = Taken \cup {f}
  BY <1>1 DEF Taken
<1>3. Covers(tx.snapshot, Taken) /\ f.names \subseteq InventoryScan!AllNames(f)
  BY AllNamesAre DEF TxKnows
<1>4. Covers(tx'.snapshot, Taken')
  BY <1>2, <1>3, CoversMore
<1>5. target' = 1 => tx'.observed \subseteq UNION {g.names : g \in Taken'}
  <2>1. target = 1 => tx.observed \subseteq UNION {g.names : g \in Taken}
    BY DEF TxKnows
  <2>2. target = 1 => InventoryScan!Primary(f) \in f.names
    BY NextIs
  <2> QED BY <1>1, <1>2, <2>1, <2>2
<1> QED BY <1>1, <1>2, <1>4, <1>5

LEMMA RetainKnows ==
    ASSUME InventoryScan!InventoryScanAssumption, QueryKnows, TxKnows,
           NEW f, InventoryScan!Retain(f)
    PROVE  TxKnows'
<1>1. /\ scan.phase = "recording" /\ f \in tx.left /\ InventoryScan!Found(f) # {}
      /\ tx'.left = tx.left \ {f} /\ tx'.rows = tx.rows /\ tx'.ledger = tx.ledger
      /\ tx'.events = tx.events
      /\ tx'.observed = tx.observed \cup {InventoryScan!Primary(f)}
      /\ tx'.snapshot = InventoryScan!Worse(tx.snapshot, InventoryScan!AllNames(f), f.state)
  BY RetainIs DEF InventoryScan!Retains
<1>2. RestStays
  BY RecordingStays
<1>3. /\ tx'.left \subseteq scan'.findings /\ Covers(tx'.snapshot, Taken')
      /\ target' = 1 => tx'.observed \subseteq UNION {g.names : g \in Taken'}
  BY <1>1, <1>2, TakenMore
<1>4. InventoryScan!Primary(f) \in DOMAIN tx.rows
  BY <1>1, NextIs
<1>5. /\ DOMAIN rows \subseteq DOMAIN tx.rows /\ DOMAIN tx.rows \subseteq DOMAIN rows \cup tx.observed
      /\ tx.observed \subseteq DOMAIN tx.rows
      /\ \A p \in DOMAIN rows \ tx.observed : tx.rows[p] = rows[p]
      /\ \A i \in DOMAIN tx.events \ DOMAIN events : tx.events[i].row \in tx.observed
  BY <1>1 DEF TxKnows
<1>6. /\ DOMAIN rows' \subseteq DOMAIN tx'.rows /\ DOMAIN tx'.rows \subseteq DOMAIN rows' \cup tx'.observed
      /\ tx'.observed \subseteq DOMAIN tx'.rows
      /\ \A p \in DOMAIN rows' \ tx'.observed : tx'.rows[p] = rows'[p]
      /\ \A i \in DOMAIN tx'.events \ DOMAIN events' : tx'.events[i].row \in tx'.observed
  BY <1>1, <1>2, <1>4, <1>5 DEF RestStays
<1> QED BY <1>1, <1>2, <1>3, <1>6 DEF TxKnows, RestStays

LEMMA RefreshKnows ==
    ASSUME InventoryScan!InventoryScanAssumption, StoreFits, QueryKnows, TxKnows,
           NEW f, InventoryScan!Refresh(f)
    PROVE  TxKnows'
<1> DEFINE C == InventoryScan!Candidates(f)
           p == InventoryScan!Primary(f)
           row == InventoryScan!Row(f)
           r == tx.rows
           l == tx.ledger
           fs == scan.findings
<1>1. /\ scan.phase = "recording" /\ f \in tx.left /\ ~InventoryScan!Retains(f)
      /\ ~InventoryScan!Collides(f)
      /\ tx'.left = tx.left \ {f}
      /\ tx'.rows = Put(r, p, row) /\ tx'.ledger = Lead(l, C, p)
      /\ tx'.events = tx.events \o InventoryScan!News(f)
      /\ tx'.observed = tx.observed \cup {p}
      /\ tx'.snapshot = InventoryScan!Worse(tx.snapshot, InventoryScan!AllNames(f), f.state)
  BY RefreshIs
<1>2. RestStays
  BY RecordingStays
<1>3. /\ tx'.left \subseteq scan'.findings /\ Covers(tx'.snapshot, Taken')
      /\ target' = 1 => tx'.observed \subseteq UNION {g.names : g \in Taken'}
  BY <1>1, <1>2, TakenMore
<1>4. /\ f \in fs /\ f.primary \in f.names /\ f.names \subseteq C
      /\ LookedUp(r, l, C) /\ p \in C
      /\ InventoryScan!Found(f) = C \cap DOMAIN r
      /\ InventoryScan!Found(f) = {} => p \notin DOMAIN r /\ C \cap DOMAIN l = {}
      /\ InventoryScan!Found(f) # {} =>
             p \in DOMAIN r /\ \A q \in C \cap DOMAIN r : Older(r, p, q)
      /\ target = 1 => C = f.names /\ Whole(l, f.names)
      /\ assetPath = "product" => C = f.names /\ f.names = {p}
  BY <1>1, NextIs
<1>5. /\ row.names = f.names \cup {p} /\ row.ids = f.ids /\ row.target = target
      /\ InventoryScan!Found(f) = {} => row.first = Len(completed) + 1
      /\ InventoryScan!Found(f) # {} => row.first = r[p].first
  BY RowIs
<1>6. TablesFit(r, l)
  BY <1>1 DEF TxKnows
<1>7. row.first \in Nat
  <2>1. Len(completed) \in Nat
    BY HasLength DEF StoreFits
  <2>2. \A q \in DOMAIN r : r[q].first \in Nat
    BY <1>6 DEF TablesFit
  <2> QED BY <1>4, <1>5, <2>1, <2>2
<1>8. /\ IsSequence(tx'.events) /\ NewsOnce(tx'.events) /\ NewsOf(tx'.rows, tx'.events)
      /\ DOMAIN tx.events \subseteq DOMAIN tx'.events
      /\ \A i \in DOMAIN tx.events : tx'.events[i] = tx.events[i]
      /\ \A i \in DOMAIN tx'.events \ DOMAIN tx.events :
             /\ tx'.events[i].row = p
             /\ tx'.events[i].type = "changed" =>
                    /\ p \in DOMAIN r
                    /\ InventoryScan!Material(p, row) # InventoryScan!Material(p, r[p])
  BY <1>1, NewsAre
<1> HIDE DEF C, p, row, r, l, fs
<1>9. TablesFit(tx'.rows, tx'.ledger)
  BY <1>1, <1>4, <1>5, <1>6, <1>7, TablesPut
<1>10. assetPath' = "product" => NoAliases(tx'.ledger)
  <2>1. assetPath = "product" => NoAliases(l) /\ C = {p}
    BY <1>1, <1>4 DEF TxKnows, l
  <2> QED BY <1>1, <1>2, <2>1, NoAliasesPut DEF RestStays
<1>11. assetPath' = "package" => HaveRecords(tx'.rows)
  <2>1. assetPath = "package" => HaveRecords(r) /\ f.ids # {} /\ f.ids \subseteq f.names \cap Advisories
    BY <1>1, <1>4 DEF TxKnows, QueryKnows, PackageQuery, r, fs
  <2>2. assetPath = "package" => row.ids # {} /\ row.ids \subseteq row.names \cap Advisories
    BY <1>5, <2>1
  <2> QED BY <1>1, <1>2, <2>1, <2>2, HaveRecordsPut DEF RestStays
<1>12. target' = 1 => FirstVersion(tx'.rows, tx'.ledger) /\ Within(tx'.ledger, scan'.findings)
  <2>1. SUFFICES ASSUME target = 1
                 PROVE  FirstVersion(tx'.rows, tx'.ledger) /\ Within(tx'.ledger, fs)
    BY <1>2 DEF RestStays, fs
  <2>2. FirstVersion(r, l) /\ Within(l, fs) /\ FindingsFit(fs)
    BY <1>1, <2>1 DEF TxKnows, QueryKnows, r, l, fs
  <2>3. /\ C = f.names /\ row.names = C /\ row.target = 1 /\ C \subseteq InventoryScan!Labels
        /\ Whole(l, C)
    BY <1>4, <1>5, <2>1 DEF LookedUp
  <2>4. /\ p \in DOMAIN r => row.first = r[p].first
        /\ \A q \in C \cap DOMAIN r : p \in DOMAIN r /\ Older(r, p, q)
    BY <1>4, <1>5
  <2>5. FirstVersion(tx'.rows, tx'.ledger)
    BY <1>1, <1>4, <1>6, <1>7, <2>2, <2>3, <2>4, LabelsAre, FirstVersionPut
  <2>6. Within(tx'.ledger, fs)
    BY <1>1, <1>4, <2>2, <2>3, WithinPut
  <2> QED BY <2>5, <2>6
<1>13. /\ DOMAIN tx'.rows = DOMAIN r \cup {p} /\ \A q \in DOMAIN r : q # p => tx'.rows[q] = r[q]
       /\ tx'.rows[p] = row
  BY <1>1 DEF Put
<1>14. /\ DOMAIN rows \subseteq DOMAIN r /\ DOMAIN r \subseteq DOMAIN rows \cup tx.observed
       /\ tx.observed \subseteq DOMAIN r
       /\ \A q \in DOMAIN rows \ tx.observed : r[q] = rows[q]
       /\ DOMAIN events \subseteq DOMAIN tx.events
       /\ \A i \in DOMAIN tx.events \ DOMAIN events :
               /\ tx.events[i].row \in tx.observed
               /\ tx.events[i].type = "changed" =>
                      LET q == tx.events[i].row
                      IN  /\ q \in DOMAIN rows
                          /\ InventoryScan!Material(q, r[q]) # InventoryScan!Material(q, rows[q])
  BY <1>1 DEF TxKnows, r
<1>15. p \notin tx.observed
  BY <1>1 DEF InventoryScan!Collides, p
<1>16. /\ DOMAIN rows \subseteq DOMAIN tx'.rows /\ DOMAIN tx'.rows \subseteq DOMAIN rows \cup tx'.observed
       /\ tx'.observed \subseteq DOMAIN tx'.rows
       /\ \A q \in DOMAIN rows \ tx'.observed : tx'.rows[q] = rows[q]
       /\ DOMAIN events \subseteq DOMAIN tx'.events
  BY <1>1, <1>8, <1>13, <1>14
<1>17. ASSUME NEW i \in DOMAIN tx'.events \ DOMAIN events
       PROVE  /\ tx'.events[i].row \in tx'.observed
              /\ tx'.events[i].type = "changed" =>
                      LET q == tx'.events[i].row
                      IN  /\ q \in DOMAIN rows
                          /\ InventoryScan!Material(q, tx'.rows[q]) # InventoryScan!Material(q, rows[q])
  <2>1. CASE i \in DOMAIN tx.events
    <3>1. tx'.events[i] = tx.events[i] /\ tx.events[i].row \in tx.observed
      BY <1>8, <1>14, <2>1
    <3>2. tx.events[i].row # p /\ tx'.rows[tx.events[i].row] = r[tx.events[i].row]
      BY <1>13, <1>14, <1>15, <3>1
    <3> QED BY <1>1, <1>14, <2>1, <3>1, <3>2
  <2>2. CASE i \notin DOMAIN tx.events
    <3>1. tx'.events[i].row = p /\ p \in tx'.observed
      BY <1>1, <1>8, <2>2
    <3>2. tx'.events[i].type = "changed" =>
              /\ p \in DOMAIN rows /\ r[p] = rows[p]
              /\ InventoryScan!Material(p, row) # InventoryScan!Material(p, r[p])
      BY <1>8, <1>14, <1>15, <2>2
    <3> QED BY <1>13, <3>1, <3>2
  <2> QED BY <2>1, <2>2
<1>18. rows' = rows /\ events' = events /\ scan' = scan
  BY <1>2 DEF RestStays
<1> QED BY <1>3, <1>8, <1>9, <1>10, <1>11, <1>12, <1>16, <1>17, <1>18 DEF TxKnows
-----------------------------------------------------------------------------
(* What a transaction knows of the sources. *)

LEMMA PackageCore ==
    ASSUME InventoryScan!InventoryScanAssumption, assetPath = "package", assetPath \in IdentityPaths,
           NEW up \in SUBSET Enabled
    PROVE  InventoryScan!CoreIncomplete(up) <=> "osv" \notin up
BY DEF InventoryScan!CoreIncomplete, InventoryScan!Incomplete, InventoryScan!Core,
       InventoryScan!InventoryScanAssumption

LEMMA ProductCore ==
    ASSUME assetPath = "product", NEW up \in SUBSET Enabled
    PROVE  InventoryScan!CoreIncomplete(up) <=> ProductIsOut(world, up)
<1>1. InventoryScan!Core = {"nvd", "cve_list", "euvd"} \cap Enabled
  BY DEF InventoryScan!Core
<1>2. InventoryScan!Incomplete(up) =
          (Enabled \ up) \cup (IF ~world.listed THEN {"euvd"} \cap Enabled ELSE {})
  BY DEF InventoryScan!Incomplete
<1>3. InventoryScan!CoreIncomplete(up) <=> InventoryScan!Incomplete(up) \cap InventoryScan!Core # {}
  BY DEF InventoryScan!CoreIncomplete
<1> QED BY <1>1, <1>2, <1>3 DEF ProductIsOut

LEMMA UnscoredSame ==
    ASSUME NEW x, NEW y, InventoryScan!Unscored(x) = InventoryScan!Unscored(y)
    PROVE  /\ x.state = y.state /\ x.rejected = y.rejected /\ x.kev = y.kev
           /\ x.evidence = y.evidence /\ x.conflicts = y.conflicts
BY DEF InventoryScan!Unscored

LEMMA AlikeSettled ==
    ASSUME NEW w, NEW r, NEW l, NEW s, NEW m, Alike(w, r, l, s, m), PackageSettled(w, r, l),
           \A n \in DOMAIN l : l[n] \in DOMAIN r
    PROVE  PackageSettled(w, s, m)
<1>1. Roots(m) = Roots(l) /\ \A q \in Roots(l) : q \in DOMAIN r
  BY DEF Alike, Roots
<1>2. \A a \in Advisories : w.osv[a].there => \E q \in Roots(m) : a \in s[q].ids
  BY <1>1 DEF Alike, PackageSettled
<1>3. ASSUME NEW q \in Roots(m)
      PROVE  /\ \A a \in s[q].ids : w.osv[a].alias \subseteq s[q].names
             /\ PackageAgrees(w, s[q]) /\ ("cisa_kev" \in Enabled => PackageKev(w, s[q]))
  <2>1. /\ s[q].names = r[q].names /\ s[q].ids = r[q].ids
        /\ InventoryScan!Unscored(s[q]) = InventoryScan!Unscored(r[q])
        /\ s[q].cvss = r[q].cvss \/ {s[q].cvss, r[q].cvss} \subseteq {Nothing, w.cvss}
    BY <1>1 DEF Alike
  <2>2. /\ \A a \in r[q].ids : w.osv[a].alias \subseteq r[q].names
        /\ PackageAgrees(w, r[q]) /\ ("cisa_kev" \in Enabled => PackageKev(w, r[q]))
    BY <1>1 DEF PackageSettled
  <2>3. /\ s[q].state = r[q].state /\ s[q].rejected = r[q].rejected /\ s[q].kev = r[q].kev
        /\ s[q].evidence = r[q].evidence /\ s[q].conflicts = r[q].conflicts
    BY <2>1, UnscoredSame
  <2>4. PackageAgrees(w, s[q])
    BY <2>1, <2>2, <2>3 DEF PackageAgrees
  <2>5. "cisa_kev" \in Enabled => PackageKev(w, s[q])
    BY <2>1, <2>2, <2>3 DEF PackageKev
  <2> QED BY <2>1, <2>2, <2>4, <2>5
<1> QED BY <1>2, <1>3 DEF PackageSettled

LEMMA RetainSays ==
    ASSUME InventoryScan!InventoryScanAssumption, StoreFits, QueryKnows, TxKnows, PackageTx, ProductTx,
           NEW f, InventoryScan!Retain(f)
    PROVE  PackageTx' /\ ProductTx'
<1>1. /\ scan.phase = "recording" /\ f \in tx.left /\ InventoryScan!CoreIncomplete(scan.up)
      /\ tx'.left = tx.left \ {f} /\ tx'.rows = tx.rows /\ tx'.ledger = tx.ledger
      /\ tx'.observed = tx.observed \cup {InventoryScan!Primary(f)}
  BY RetainIs DEF InventoryScan!Retains
<1>2. RestStays
  BY RecordingStays
<1>3. scan.up \in SUBSET Enabled /\ assetPath \in IdentityPaths
  BY <1>1 DEF QueryKnows, StoreFits
<1>4. assetPath = "package" => "osv" \notin scan.up
  BY <1>1, <1>3, PackageCore
<1>5. assetPath = "product" => ProductIsOut(world, scan.up)
  BY <1>1, <1>3, ProductCore
<1>6. PackageTx'
  BY <1>1, <1>2, <1>4 DEF PackageTx, RestStays
<1>7. ProductTx'
  BY <1>1, <1>2, <1>5 DEF ProductTx, RestStays
<1> QED BY <1>6, <1>7

\* What is recorded of a package that is settled differs in its score only.
LEMMA RefreshAlike ==
    ASSUME InventoryScan!InventoryScanAssumption, StoreFits, QueryKnows, TxKnows, PackageTx,
           NEW f, InventoryScan!Refresh(f), assetPath = "package", target = 1, ~world.rejected,
           PackageSettled(world, rows, ledger)
    PROVE  Alike(world, rows, ledger, tx'.rows, tx'.ledger)
<1> DEFINE C == InventoryScan!Candidates(f)
           p == InventoryScan!Primary(f)
           row == InventoryScan!Row(f)
           r == tx.rows
           l == tx.ledger
           fs == scan.findings
           w == world
<1>1. /\ scan.phase = "recording" /\ f \in tx.left /\ ~InventoryScan!Retains(f)
      /\ tx'.rows = Put(r, p, row) /\ tx'.ledger = Lead(l, C, p)
  BY RefreshIs
<1>2. /\ f \in fs /\ C = f.names /\ p \in C /\ Whole(l, C)
      /\ InventoryScan!Found(f) = {} => C \cap DOMAIN l = {}
      /\ InventoryScan!Found(f) # {} =>
             p \in DOMAIN r /\ \A q \in C \cap DOMAIN r : Older(r, p, q)
  BY <1>1, NextIs
<1>3. /\ row.names = f.names \cup {p} /\ row.ids = f.ids
      /\ row.state = f.state /\ row.rejected = f.rejected /\ row.cvss = f.cvss
      /\ row.evidence = f.evidence /\ row.conflicts = f.conflicts
      /\ InventoryScan!Found(f) # {} =>
             row.kev = IF "cisa_kev" \notin scan.up THEN r[p].kev ELSE f.kev
  BY RowIs
<1>4. Alike(w, rows, ledger, r, l)
  BY <1>1 DEF PackageTx
<1>5. /\ TablesFit(r, l) /\ FirstVersion(r, l) /\ TablesFit(rows, ledger)
      /\ FirstVersion(rows, ledger) /\ HaveRecords(rows)
  BY <1>1 DEF TxKnows, StoreFits
<1>6. /\ f.ids # {} /\ f.ids \subseteq f.names \cap Advisories /\ f.rejected = FALSE
      /\ \A a \in f.ids : w.osv[a].there \/ \E q \in Roots(ledger) : a \in rows[q].ids
  BY <1>1, <1>2 DEF QueryKnows, PackageQuery
<1>7. scan.up \in SUBSET Enabled /\ assetPath \in IdentityPaths
  BY <1>1 DEF QueryKnows, StoreFits
<1>8. /\ \A a \in Advisories : w.osv[a].there => \E q \in Roots(ledger) : a \in rows[q].ids
      /\ \A q \in Roots(ledger) :
             PackageAgrees(w, rows[q]) /\ ("cisa_kev" \in Enabled => PackageKev(w, rows[q]))
  BY DEF PackageSettled
<1>9. InventoryScan!Found(f) # {}
  <2>1. PICK a \in f.ids : a \in Advisories /\ a \in f.names
    BY <1>6
  <2>2. PICK q \in Roots(ledger) : a \in rows[q].ids
    BY <1>6, <1>8, <2>1
  <2>3. q \in DOMAIN rows
    BY <1>5, <2>2 DEF Roots, TablesFit
  <2>4. a \in rows[q].names
    BY <1>5, <2>2, <2>3 DEF HaveRecords
  <2>5. a \in DOMAIN ledger /\ DOMAIN l = DOMAIN ledger
    BY <1>4, <1>5, <2>3, <2>4 DEF TablesFit, Alike
  <2> QED BY <1>2, <2>1, <2>5
<1>10. "osv" \in scan.up
  BY <1>1, <1>6, <1>7, <1>9, PackageCore DEF InventoryScan!Retains
<1>11. PackageAnswer(w, rows, ledger, fs, scan.up)
  BY <1>1, <1>10 DEF QueryKnows
<1>12. PICK q \in Roots(ledger) : f.names = rows[q].names /\ f.ids = rows[q].ids
  BY <1>2, <1>11 DEF PackageAnswer
<1>13. PackageAgrees(w, f) /\ ("cisa_kev" \in scan.up => PackageKev(w, f))
  BY <1>2, <1>11 DEF PackageAnswer
<1> HIDE DEF C, p, row, r, l, fs, w
<1>14. /\ q \in DOMAIN rows /\ q \in DOMAIN ledger /\ ledger[q] = q /\ q \in rows[q].names
       /\ q \in DOMAIN r /\ q \in DOMAIN l /\ l[q] = q /\ r[q].names = rows[q].names
  <2>1. q \in DOMAIN ledger /\ ledger[q] = q
    BY <1>12 DEF Roots
  <2>2. q \in DOMAIN rows /\ q \in rows[q].names
    BY <1>5, <2>1 DEF TablesFit, FirstVersion
  <2> QED BY <1>4, <2>1, <2>2 DEF Alike
<1>15. \A n \in C : n \in DOMAIN l /\ l[n] = q
  BY <1>2, <1>5, <1>12, <1>14 DEF TablesFit
<1>16. p = q
  <2>1. p \in DOMAIN r /\ Older(r, p, q)
    BY <1>2, <1>9, <1>12, <1>14
  <2>2. Older(r, q, p)
    BY <1>2, <1>5, <1>15, <2>1 DEF FirstVersion
  <2>3. {p, q} \in SUBSET Nat /\ \A n \in {p, q} : r[n].first \in Nat
    BY <1>5, <1>14, <2>1, LabelsAre DEF TablesFit
  <2> QED BY <2>1, <2>2, <2>3, OldestIs
<1>17. DOMAIN tx'.rows = DOMAIN rows /\ DOMAIN tx'.ledger = DOMAIN ledger
  <2>1. C \subseteq DOMAIN l
    BY <1>15
  <2> QED BY <1>1, <1>4, <1>14, <1>16, <2>1 DEF Put, Lead, Alike
<1>18. ASSUME NEW n \in DOMAIN ledger PROVE tx'.ledger[n] = ledger[n]
  <2>1. n \in DOMAIN l /\ l[n] = ledger[n]
    BY <1>4 DEF Alike
  <2>2. tx'.ledger[n] = IF n \in C \/ l[n] \in C THEN p ELSE l[n]
    BY <1>1, <2>1 DEF Lead
  <2>3. n \in C <=> l[n] \in C
    BY <1>2, <2>1 DEF Whole
  <2> QED BY <1>15, <1>16, <2>1, <2>2, <2>3
<1>19. ASSUME NEW n \in DOMAIN rows
       PROVE  /\ tx'.rows[n].names = rows[n].names /\ tx'.rows[n].ids = rows[n].ids
              /\ InventoryScan!Unscored(tx'.rows[n]) = InventoryScan!Unscored(rows[n])
              /\ \/ tx'.rows[n].cvss = rows[n].cvss
                 \/ {tx'.rows[n].cvss, rows[n].cvss} \subseteq {Nothing, w.cvss}
  <2>1. /\ n \in DOMAIN r /\ r[n].names = rows[n].names /\ r[n].ids = rows[n].ids
        /\ InventoryScan!Unscored(r[n]) = InventoryScan!Unscored(rows[n])
        /\ r[n].cvss = rows[n].cvss \/ {r[n].cvss, rows[n].cvss} \subseteq {Nothing, w.cvss}
    BY <1>4 DEF Alike
  <2>2. CASE n # p
    <3>1. tx'.rows[n] = r[n]
      BY <1>1, <2>1, <2>2 DEF Put
    <3> QED BY <2>1, <3>1
  <2>3. CASE n = p
    <3>1. tx'.rows[n] = row
      BY <1>1, <2>3 DEF Put
    <3>2. row.names = rows[n].names /\ row.ids = rows[n].ids
      BY <1>2, <1>3, <1>12, <1>16, <2>3
    <3>3. PackageAgrees(w, rows[n]) /\ ("cisa_kev" \in Enabled => PackageKev(w, rows[n]))
      BY <1>8, <1>12, <1>16, <2>3
    <3>4. /\ row.state = rows[n].state /\ row.rejected = rows[n].rejected
          /\ row.evidence = rows[n].evidence /\ row.conflicts = rows[n].conflicts
          /\ {row.cvss, rows[n].cvss} \subseteq {Nothing, w.cvss}
      BY <1>3, <1>12, <1>13, <1>16, <2>3, <3>3 DEF PackageAgrees
    <3>5. row.kev = rows[n].kev
      <4>1. CASE "cisa_kev" \in scan.up
        <5>1. row.kev = f.kev /\ PackageKev(w, f) /\ PackageKev(w, rows[n])
          BY <1>3, <1>7, <1>9, <1>13, <3>3, <4>1
        <5> QED BY <1>3, <1>12, <1>16, <2>3, <3>4, <5>1 DEF PackageKev
      <4>2. CASE "cisa_kev" \notin scan.up
        <5>1. row.kev = r[n].kev
          BY <1>3, <1>9, <2>3, <4>2
        <5>2. r[n].kev = rows[n].kev
          BY <2>1, UnscoredSame
        <5> QED BY <5>1, <5>2
      <4> QED BY <4>1, <4>2
    <3>6. InventoryScan!Unscored(row) = InventoryScan!Unscored(rows[n])
      BY <3>4, <3>5 DEF InventoryScan!Unscored
    <3> QED BY <3>1, <3>2, <3>4, <3>6
  <2> QED BY <2>2, <2>3
<1>20. Alike(w, rows, ledger, tx'.rows, tx'.ledger)
  BY <1>17, <1>18, <1>19 DEF Alike
<1> QED BY <1>20 DEF w

LEMMA RefreshPackage ==
    ASSUME InventoryScan!InventoryScanAssumption, StoreFits, QueryKnows, TxKnows, PackageTx,
           NEW f, InventoryScan!Refresh(f)
    PROVE  PackageTx'
<1> DEFINE C == InventoryScan!Candidates(f)
           p == InventoryScan!Primary(f)
           row == InventoryScan!Row(f)
           r == tx.rows
           l == tx.ledger
           fs == scan.findings
           w == world
<1>1. /\ scan.phase = "recording" /\ f \in tx.left
      /\ tx'.left = tx.left \ {f}
      /\ tx'.rows = Put(r, p, row) /\ tx'.ledger = Lead(l, C, p)
  BY RefreshIs
<1>2. /\ scan' = scan /\ world' = world /\ assetPath' = assetPath /\ target' = target
      /\ rows' = rows /\ ledger' = ledger
  BY RecordingStays DEF RestStays
<1>3. SUFFICES ASSUME assetPath = "package", target = 1, ~world.rejected
      PROVE  /\ PackageSettled(w, rows, ledger) => Alike(w, rows, ledger, tx'.rows, tx'.ledger)
             /\ "osv" \in scan.up =>
                   /\ \A g \in Taken' : \E q \in g.names \cap Roots(tx'.ledger) :
                          /\ tx'.rows[q].names = g.names /\ tx'.rows[q].ids = g.ids
                          /\ PackageAgrees(w, tx'.rows[q])
                          /\ "cisa_kev" \in scan.up => PackageKev(w, tx'.rows[q])
                   /\ \A n \in DOMAIN tx'.ledger : \E g \in fs : n \in g.names
  BY <1>2 DEF PackageTx
<1>4. PackageSettled(w, rows, ledger) => Alike(w, rows, ledger, tx'.rows, tx'.ledger)
  BY <1>3, RefreshAlike
<1>5. SUFFICES ASSUME "osv" \in scan.up
      PROVE  /\ \A g \in Taken' : \E q \in g.names \cap Roots(tx'.ledger) :
                    /\ tx'.rows[q].names = g.names /\ tx'.rows[q].ids = g.ids
                    /\ PackageAgrees(w, tx'.rows[q])
                    /\ "cisa_kev" \in scan.up => PackageKev(w, tx'.rows[q])
             /\ \A n \in DOMAIN tx'.ledger : \E g \in fs : n \in g.names
  BY <1>4
<1>6. f \in fs /\ C = f.names /\ p \in C
  BY <1>1, <1>3, NextIs
<1>7. /\ row.names = f.names \cup {p} /\ row.ids = f.ids
      /\ row.state = f.state /\ row.rejected = f.rejected /\ row.cvss = f.cvss
      /\ row.evidence = f.evidence /\ row.conflicts = f.conflicts
      /\ "cisa_kev" \in scan.up => row.kev = f.kev
  BY RowIs
<1>8. /\ \A g \in Taken : \E q \in g.names \cap Roots(l) :
             /\ r[q].names = g.names /\ r[q].ids = g.ids
             /\ PackageAgrees(w, r[q])
             /\ "cisa_kev" \in scan.up => PackageKev(w, r[q])
      /\ \A n \in DOMAIN l : \E g \in fs : n \in g.names
  BY <1>1, <1>3, <1>5 DEF PackageTx
<1>9. PackageAgrees(w, f) /\ ("cisa_kev" \in scan.up => PackageKev(w, f))
  BY <1>1, <1>3, <1>5, <1>6 DEF QueryKnows, PackageAnswer
<1>10. TablesFit(r, l) /\ FindingsFit(fs) /\ Taken' \subseteq Taken \cup {f}
  BY <1>1, <1>2 DEF TxKnows, QueryKnows, Taken
<1>11. \A g \in Taken : g \in fs /\ g # f
  BY <1>1 DEF Taken
<1> HIDE DEF C, p, row, r, l, fs, w
<1>12. /\ DOMAIN tx'.ledger = DOMAIN l \cup C /\ \A n \in C : tx'.ledger[n] = p
       /\ \A n \in DOMAIN l : n \notin C => tx'.ledger[n] = IF l[n] \in C THEN p ELSE l[n]
       /\ tx'.rows[p] = row /\ \A q \in DOMAIN r : q # p => tx'.rows[q] = r[q]
  BY <1>1 DEF Put, Lead
<1>13. /\ row.names = f.names /\ PackageAgrees(w, row)
       /\ "cisa_kev" \in scan.up => PackageKev(w, row)
  <2>1. row.names = f.names
    BY <1>6, <1>7
  <2>2. PackageAgrees(w, row)
    BY <1>7, <1>9 DEF PackageAgrees
  <2>3. "cisa_kev" \in scan.up => PackageKev(w, row)
    BY <1>7, <1>9, <2>1 DEF PackageKev
  <2> QED BY <2>1, <2>2, <2>3
<1>14. p \in f.names \cap Roots(tx'.ledger)
  BY <1>6, <1>12 DEF Roots
<1>15. ASSUME NEW g \in Taken'
       PROVE  \E q \in g.names \cap Roots(tx'.ledger) :
                  /\ tx'.rows[q].names = g.names /\ tx'.rows[q].ids = g.ids
                  /\ PackageAgrees(w, tx'.rows[q])
                  /\ "cisa_kev" \in scan.up => PackageKev(w, tx'.rows[q])
  <2>1. CASE g = f
    BY <1>7, <1>12, <1>13, <1>14, <2>1
  <2>2. CASE g \in Taken
    <3>1. PICK q \in g.names \cap Roots(l) :
              /\ r[q].names = g.names /\ r[q].ids = g.ids
              /\ PackageAgrees(w, r[q])
              /\ "cisa_kev" \in scan.up => PackageKev(w, r[q])
      BY <1>8, <2>2
    <3>2. q \notin C
      BY <1>6, <1>10, <1>11, <2>2, <3>1 DEF FindingsFit
    <3>3. q \in DOMAIN l /\ l[q] = q /\ q \in DOMAIN r /\ q # p
      BY <1>6, <1>10, <3>1, <3>2 DEF Roots, TablesFit
    <3>4. tx'.rows[q] = r[q] /\ q \in Roots(tx'.ledger)
      BY <1>12, <3>2, <3>3 DEF Roots
    <3> QED BY <3>1, <3>4
  <2> QED BY <1>10, <2>1, <2>2
<1>16. \A n \in DOMAIN tx'.ledger : \E g \in fs : n \in g.names
  BY <1>6, <1>8, <1>12
<1> QED BY <1>15, <1>16

LEMMA RefreshProduct ==
    ASSUME InventoryScan!InventoryScanAssumption, StoreFits, QueryKnows, TxKnows, ProductTx,
           NEW f, InventoryScan!Refresh(f)
    PROVE  ProductTx'
<1> DEFINE C == InventoryScan!Candidates(f)
           p == InventoryScan!Primary(f)
           row == InventoryScan!Row(f)
           r == tx.rows
           fs == scan.findings
           w == world
<1>1. /\ scan.phase = "recording" /\ f \in tx.left /\ ~InventoryScan!Retains(f)
      /\ ~InventoryScan!Collides(f)
      /\ tx'.rows = Put(r, p, row) /\ tx'.observed = tx.observed \cup {p}
  BY RefreshIs
<1>2. scan' = scan /\ world' = world /\ assetPath' = assetPath /\ rows' = rows
  BY RecordingStays DEF RestStays
<1>3. SUFFICES ASSUME assetPath = "product", ~world.rejected
      PROVE  /\ ProductIsOut(w, scan.up) => \A q \in DOMAIN rows : tx'.rows[q] = rows[q]
             /\ ~ProductIsOut(w, scan.up) => \A q \in tx'.observed :
                    /\ ProductAgrees(w, tx'.rows[q])
                    /\ "cisa_kev" \in scan.up => tx'.rows[q].kev = w.kev
             /\ \A q \in DOMAIN rows : ProductSettled(w, rows[q]) =>
                    InventoryScan!Material(q, tx'.rows[q]) = InventoryScan!Material(q, rows[q])
  BY <1>2 DEF ProductTx
<1>4. /\ f \in fs /\ p \in C /\ InventoryScan!Found(f) = C \cap DOMAIN r
      /\ InventoryScan!Found(f) = {} => p \notin DOMAIN r
  BY <1>1, NextIs
<1>5. /\ row.state = f.state /\ row.rejected = f.rejected /\ row.cvss = f.cvss
      /\ row.evidence = f.evidence /\ row.conflicts = f.conflicts
      /\ InventoryScan!Found(f) = {} => row.kev = f.kev
      /\ InventoryScan!Found(f) # {} =>
             row.kev = IF "cisa_kev" \notin scan.up THEN r[p].kev ELSE f.kev
  BY RowIs
<1>6. /\ ProductIsOut(w, scan.up) => \A q \in DOMAIN rows : r[q] = rows[q]
      /\ ~ProductIsOut(w, scan.up) => \A q \in tx.observed :
             /\ ProductAgrees(w, r[q])
             /\ "cisa_kev" \in scan.up => r[q].kev = w.kev
      /\ \A q \in DOMAIN rows : ProductSettled(w, rows[q]) =>
             InventoryScan!Material(q, r[q]) = InventoryScan!Material(q, rows[q])
  BY <1>1, <1>3 DEF ProductTx
<1>7. /\ f.rejected = FALSE
      /\ ~ProductIsOut(w, scan.up) =>
             ProductAgrees(w, f) /\ ("cisa_kev" \in scan.up => f.kev = w.kev)
  BY <1>1, <1>3, <1>4 DEF QueryKnows, ProductQuery
<1>8. scan.up \in SUBSET Enabled
  BY <1>1 DEF QueryKnows
<1>9. InventoryScan!Found(f) # {} => ~ProductIsOut(w, scan.up)
  BY <1>1, <1>3, <1>7, <1>8, ProductCore DEF InventoryScan!Retains
<1>10. /\ p \notin tx.observed /\ DOMAIN rows \subseteq DOMAIN r /\ tx.observed \subseteq DOMAIN r
       /\ \A q \in DOMAIN rows \ tx.observed : r[q] = rows[q]
  BY <1>1 DEF TxKnows, InventoryScan!Collides
<1> HIDE DEF C, p, row, r, fs, w
<1>11. tx'.rows[p] = row /\ \A q \in DOMAIN r : q # p => tx'.rows[q] = r[q]
  BY <1>1 DEF Put
<1>12. p \in DOMAIN r => ~ProductIsOut(w, scan.up)
  BY <1>4, <1>9
<1>13. ProductIsOut(w, scan.up) => \A q \in DOMAIN rows : tx'.rows[q] = rows[q]
  BY <1>6, <1>10, <1>11, <1>12
<1>14. ~ProductIsOut(w, scan.up) =>
           ProductAgrees(w, row) /\ ("cisa_kev" \in scan.up => row.kev = w.kev)
  <2>1. ~ProductIsOut(w, scan.up) => ProductAgrees(w, row)
    BY <1>5, <1>7 DEF ProductAgrees
  <2>2. "cisa_kev" \in scan.up => row.kev = f.kev
    BY <1>5
  <2> QED BY <1>7, <2>1, <2>2
<1>15. ~ProductIsOut(w, scan.up) => \A q \in tx'.observed :
           /\ ProductAgrees(w, tx'.rows[q])
           /\ "cisa_kev" \in scan.up => tx'.rows[q].kev = w.kev
  BY <1>1, <1>6, <1>10, <1>11, <1>14
<1>16. ASSUME NEW q \in DOMAIN rows, ProductSettled(w, rows[q])
       PROVE  InventoryScan!Material(q, tx'.rows[q]) = InventoryScan!Material(q, rows[q])
  <2>1. CASE q # p
    BY <1>6, <1>10, <1>11, <1>16, <2>1
  <2>2. CASE q = p
    <3>1. p \in DOMAIN r /\ r[p] = rows[p] /\ tx'.rows[q] = row
      BY <1>10, <1>11, <2>2
    <3>2. InventoryScan!Found(f) # {} /\ ~ProductIsOut(w, scan.up)
      BY <1>4, <1>12, <3>1
    <3>3. ProductAgrees(w, row) /\ ProductAgrees(w, rows[p])
      BY <1>14, <1>16, <2>2, <3>2 DEF ProductSettled
    <3>4. /\ row.state = rows[p].state /\ row.rejected = rows[p].rejected
          /\ row.evidence = rows[p].evidence /\ row.conflicts = rows[p].conflicts
          /\ row.cvss = rows[p].cvss
      BY <3>3 DEF ProductAgrees
    <3>5. row.kev = rows[p].kev
      <4>1. CASE "cisa_kev" \in scan.up
        BY <1>8, <1>14, <1>16, <2>2, <3>2, <4>1 DEF ProductSettled
      <4>2. CASE "cisa_kev" \notin scan.up
        BY <1>5, <3>1, <3>2, <4>2
      <4> QED BY <4>1, <4>2
    <3> QED BY <2>2, <3>1, <3>4, <3>5 DEF InventoryScan!Material
  <2> QED BY <2>1, <2>2
<1> QED BY <1>13, <1>15, <1>16

\* The transaction begins with the tables as they are.
LEMMA BeginKnows ==
    ASSUME InventoryScan!InventoryScanAssumption, StoreFits, QueryKnows, InventoryScan!Begin,
           scan = [phase |-> scan.phase, findings |-> scan.findings, up |-> scan.up,
                   at |-> scan.at, complete |-> scan.complete]
    PROVE  QueryKnows' /\ TxKnows' /\ PackageTx' /\ ProductTx'
<1>1. /\ scan.phase = "queried" /\ scan'.phase = "recording"
      /\ scan'.findings = scan.findings /\ scan'.up = scan.up /\ scan'.at = scan.at
  BY DEF InventoryScan!Begin
<1>2. /\ tx'.left = scan.findings /\ tx'.rows = rows /\ tx'.ledger = ledger
      /\ tx'.events = events /\ tx'.observed = {}
  BY DEF InventoryScan!Begin
<1>3. UNCHANGED <<assetPath, target, world, changes, rows, ledger, events, completed>>
  BY DEF InventoryScan!Begin, InventoryScan!store
<1>4. QueryKnows'
  BY <1>1, <1>3 DEF QueryKnows
<1>5. Taken' = {}
  BY <1>1, <1>2 DEF Taken
<1>6. TxKnows'
  BY <1>1, <1>2, <1>3, <1>5 DEF TxKnows, StoreFits, QueryKnows, Covers
<1>7. Alike(world, rows, ledger, rows, ledger)
  BY DEF Alike
<1>8. PackageTx'
  BY <1>1, <1>2, <1>3, <1>5, <1>7 DEF PackageTx, QueryKnows, PackageAnswer
<1>9. ProductTx'
  BY <1>1, <1>2, <1>3 DEF ProductTx
<1> QED BY <1>4, <1>6, <1>8, <1>9
-----------------------------------------------------------------------------
(* The query. *)

\* Roots are the rows that the alias index does not hide.
LEMMA VisibleAre == TablesFit(rows, ledger) => InventoryScan!Visible = Roots(ledger)
BY DEF TablesFit, InventoryScan!Visible, Roots

\* A name belongs to one root.
LEMMA OneRoot ==
    ASSUME NEW r, NEW l, TablesFit(r, l), NEW p \in Roots(l), NEW q \in Roots(l),
           r[p].names \cap r[q].names # {}
    PROVE  p = q
<1>1. p \in DOMAIN r /\ q \in DOMAIN r /\ l[p] = p /\ l[q] = q
  BY DEF TablesFit, Roots
<1>2. PICK n \in r[p].names : n \in r[q].names
  OBVIOUS
<1>3. l[n] = l[p] /\ l[n] = l[q]
  BY <1>1, <1>2 DEF TablesFit
<1> QED BY <1>1, <1>3

LEMMA MinIs ==
    ASSUME NEW S \in SUBSET Nat, S # {} PROVE InventoryScan!Min(S) \in S
BY Least DEF InventoryScan!Min

\* What links names in a query of a package.
QueryLinks(records) ==
    InventoryScan!KnownNames \cup {{a} \cup world.osv[a].alias : a \in records}

LEMMA QueryLinksAre ==
    ASSUME InventoryScan!InventoryScanAssumption, TablesFit(rows, ledger), WorldFits,
           NEW records \in SUBSET Advisories
    PROVE  QueryLinks(records) \in SUBSET SUBSET InventoryScan!Labels
<1>1. ASSUME NEW l \in InventoryScan!KnownNames PROVE l \subseteq InventoryScan!Labels
  <2>1. PICK p \in DOMAIN rows : l = rows[p].names
    BY <1>1 DEF InventoryScan!KnownNames, InventoryScan!Known, InventoryScan!Visible
  <2> QED BY <2>1 DEF TablesFit
<1>2. ASSUME NEW a \in records PROVE {a} \cup world.osv[a].alias \subseteq InventoryScan!Labels
  BY DEF WorldFits, InventoryScan!Labels
<1> QED BY <1>1, <1>2 DEF QueryLinks

\* The records that are asked for: those that are found, and those that are known.
Asked(records) ==
    /\ records \subseteq Advisories
    /\ \A a \in records : world.osv[a].there \/ a \in InventoryScan!KnownIds

\* The finding of a record, and what it says.
GroupFinding(f, a, records, up) ==
    /\ f.names = InventoryScan!Connected(a, QueryLinks(records))
    /\ f.ids = f.names \cap records /\ a \in f.ids
    /\ f.names \subseteq InventoryScan!Labels /\ f.primary \in f.names
    /\ \A l \in QueryLinks(records) : l \cap f.names # {} => l \subseteq f.names
    /\ ~world.rejected => f.rejected = FALSE
    /\ ~world.rejected /\ "osv" \in up =>
           PackageAgrees(world, f) /\ ("cisa_kev" \in up => PackageKev(world, f))

LEMMA PackageFindingIs ==
    ASSUME InventoryScan!InventoryScanAssumption, TablesFit(rows, ledger), WorldFits,
           NEW up \in SUBSET Enabled, NEW records, Asked(records), NEW a \in records
    PROVE  GroupFinding(InventoryScan!PackageFinding(
                           InventoryScan!Connected(a, QueryLinks(records)), records, up),
                        a, records, up)
<1> PICK group : group = InventoryScan!Connected(a, QueryLinks(records))
  OBVIOUS
<1> PICK f : f = InventoryScan!PackageFinding(group, records, up)
  OBVIOUS
<1>1. /\ a \in group /\ group \subseteq InventoryScan!Labels
      /\ \A l \in QueryLinks(records) : l \cap group # {} => l \subseteq group
  <2>1. a \in InventoryScan!Labels /\ records \in SUBSET Advisories
    BY DEF Asked, InventoryScan!Labels
  <2> QED BY <2>1, QueryLinksAre, ConnectedIs
<1> DEFINE known == group \cap records
           decisions == {world.osv[r].says : r \in known}
                            \cup (IF "osv" \in up THEN {} ELSE {"needs_review"})
           state == InventoryScan!Reconcile(decisions, FALSE, known)
           cves == IF state = "not_affected" THEN {} ELSE group \cap ScanCves
           rejected == cves # {} /\ InventoryScan!Rejected(up)
<1>2. /\ f.names = group /\ f.ids = known
      /\ f.primary = IF group \cap ScanCves # {} THEN InventoryScan!Min(group \cap ScanCves)
                     ELSE InventoryScan!Min(known)
      /\ f.state = IF rejected THEN "needs_review" ELSE state
      /\ f.rejected = rejected
      /\ f.cvss = IF cves = {} THEN Nothing ELSE InventoryScan!Score(up)
      /\ f.kev = IF cves = {} THEN Nothing ELSE InventoryScan!Exploited(up)
      /\ f.evidence = {<<r, world.osv[r].says>> : r \in known}
      /\ f.conflicts = InventoryScan!Conflicts(decisions, FALSE)
  BY DEF InventoryScan!PackageFinding
<1>3. f.primary \in f.names
  <2>1. group \cap ScanCves \in SUBSET Nat /\ known \in SUBSET Nat /\ known # {}
    BY <1>1, LabelsAre
  <2>2. group \cap ScanCves # {} => InventoryScan!Min(group \cap ScanCves) \in group
    BY <2>1, MinIs
  <2>3. InventoryScan!Min(known) \in group
    BY <2>1, MinIs
  <2> QED BY <1>2, <2>2, <2>3
<1>4. ~world.rejected => ~rejected
  BY DEF InventoryScan!Rejected
<1>5. ASSUME ~world.rejected, "osv" \in up
      PROVE  PackageAgrees(world, f) /\ ("cisa_kev" \in up => PackageKev(world, f))
  <2>1. decisions = Decisions(world, known)
    BY <1>5 DEF Decisions
  <2>2. f.rejected = FALSE /\ f.state = state
    BY <1>2, <1>4, <1>5
  <2>3. f.cvss \in {Nothing, world.cvss}
    BY <1>2 DEF InventoryScan!Score
  <2>4. PackageAgrees(world, f)
    BY <1>2, <2>1, <2>2, <2>3 DEF PackageAgrees
  <2>5. "cisa_kev" \in up => InventoryScan!Exploited(up) = world.kev
    BY DEF InventoryScan!Exploited
  <2>6. cves = {} <=> ~(f.state # "not_affected" /\ f.names \cap ScanCves # {})
    BY <1>2, <2>2
  <2>7. "cisa_kev" \in up => PackageKev(world, f)
    BY <1>2, <2>5, <2>6 DEF PackageKev
  <2> QED BY <2>4, <2>7
<1>6. ~world.rejected => f.rejected = FALSE
  BY <1>2, <1>4
<1>7. GroupFinding(f, a, records, up)
  BY <1>1, <1>2, <1>3, <1>5, <1>6 DEF GroupFinding
<1> QED BY <1>7

\* The groups of a package's query are different, and each has all that is linked with it.
PackageGroups(records, fs, up) ==
    /\ Asked(records)
    /\ "osv" \in up =>
           records = {a \in Advisories : world.osv[a].there \/ a \in InventoryScan!KnownIds}
    /\ FindingsFit(fs)
    /\ \A a \in records : \E f \in fs : a \in f.ids
    /\ \A f \in fs :
           /\ f.ids = f.names \cap records /\ f.ids # {}
           /\ \E a \in f.ids : f.names = InventoryScan!Connected(a, QueryLinks(records))
           /\ \A l \in QueryLinks(records) : l \cap f.names # {} => l \subseteq f.names
           /\ ~world.rejected => f.rejected = FALSE
           /\ ~world.rejected /\ "osv" \in up =>
                 PackageAgrees(world, f) /\ ("cisa_kev" \in up => PackageKev(world, f))

LEMMA PackageFindingsFit ==
    ASSUME InventoryScan!InventoryScanAssumption, TablesFit(rows, ledger), WorldFits,
           NEW up \in SUBSET Enabled, NEW lost,
           NEW fs, fs = InventoryScan!PackageFindings(up, lost)
    PROVE  \E records : PackageGroups(records, fs, up)
<1>1. PICK there : there = {a \in Advisories : world.osv[a].there \/ a \in InventoryScan!KnownIds}
  OBVIOUS
<1>2. PICK records : records = IF "osv" \in up THEN there ELSE there \ lost
  OBVIOUS
<1>3. Asked(records) /\ records \in SUBSET Advisories
  BY <1>1, <1>2 DEF Asked
<1> DEFINE G(a) == InventoryScan!Connected(a, QueryLinks(records))
           F(a) == InventoryScan!PackageFinding(G(a), records, up)
<1>4. fs = {F(a) : a \in records}
  <2>1. fs = {InventoryScan!PackageFinding(g, records, up) : g \in InventoryScan!AliasGroups(records)}
    BY <1>1, <1>2 DEF InventoryScan!PackageFindings
  <2>2. InventoryScan!AliasGroups(records) = {G(a) : a \in records}
    BY DEF InventoryScan!AliasGroups, QueryLinks
  <2> QED BY <2>1, <2>2
<1>5. ASSUME NEW a \in records
      PROVE  /\ F(a).names = G(a) /\ F(a).ids = G(a) \cap records /\ a \in F(a).ids
             /\ F(a).names \subseteq InventoryScan!Labels /\ F(a).primary \in F(a).names
             /\ \A l \in QueryLinks(records) : l \cap F(a).names # {} => l \subseteq F(a).names
             /\ ~world.rejected => F(a).rejected = FALSE
             /\ ~world.rejected /\ "osv" \in up =>
                  PackageAgrees(world, F(a)) /\ ("cisa_kev" \in up => PackageKev(world, F(a)))
  <2>1. GroupFinding(F(a), a, records, up)
    BY <1>3, PackageFindingIs
  <2> QED BY <2>1 DEF GroupFinding
<1>6. ASSUME NEW a \in records, NEW b \in records, G(a) \cap G(b) # {} PROVE F(a) = F(b)
  <2>1. a \in InventoryScan!Labels /\ b \in InventoryScan!Labels
    BY <1>3 DEF InventoryScan!Labels
  <2>2. PICK links : links = QueryLinks(records)
    OBVIOUS
  <2>3. links \in SUBSET SUBSET InventoryScan!Labels
    BY <1>3, <2>2, QueryLinksAre
  <2>4. InventoryScan!Connected(a, links) = InventoryScan!Connected(b, links)
    BY <1>6, <2>1, <2>2, <2>3, ConnectedMeet
  <2> QED BY <2>2, <2>4
<1> HIDE DEF F, G
<1>7. FindingsFit(fs)
  BY <1>4, <1>5, <1>6 DEF FindingsFit
<1>8. \A a \in records : \E f \in fs : a \in f.ids
  BY <1>4, <1>5
<1>9. ASSUME NEW f \in fs
      PROVE  /\ f.ids = f.names \cap records /\ f.ids # {}
             /\ \E a \in f.ids : f.names = InventoryScan!Connected(a, QueryLinks(records))
             /\ \A l \in QueryLinks(records) : l \cap f.names # {} => l \subseteq f.names
             /\ ~world.rejected => f.rejected = FALSE
             /\ ~world.rejected /\ "osv" \in up =>
                   PackageAgrees(world, f) /\ ("cisa_kev" \in up => PackageKev(world, f))
  <2>1. PICK a \in records : f = F(a)
    BY <1>4
  <2>2. f.names = InventoryScan!Connected(a, QueryLinks(records))
    BY <1>5, <2>1 DEF G
  <2> QED BY <1>5, <2>1, <2>2
<1>10. "osv" \in up => records = {a \in Advisories : world.osv[a].there \/ a \in InventoryScan!KnownIds}
  BY <1>1, <1>2
<1> QED BY <1>3, <1>7, <1>8, <1>9, <1>10 DEF PackageGroups

\* What a package's query knows.
LEMMA PackageStart ==
    ASSUME InventoryScan!InventoryScanAssumption, StoreFits, WorldFits, assetPath = "package",
           NEW up \in SUBSET Enabled, NEW lost,
           NEW fs, fs = InventoryScan!PackageFindings(up, lost)
    PROVE  /\ FindingsFit(fs) /\ PackageQuery(world, rows, ledger, fs, up)
           /\ target = 1 /\ "osv" \in up => PackageAnswer(world, rows, ledger, fs, up)
           /\ target = 1 => Within(ledger, fs)
<1>1. /\ TablesFit(rows, ledger) /\ HaveRecords(rows)
      /\ target = 1 => FirstVersion(rows, ledger)
  BY DEF StoreFits
<1>0. PICK records : PackageGroups(records, fs, up)
  BY <1>1, PackageFindingsFit
<1>2. /\ Asked(records)
      /\ "osv" \in up => records = {a \in Advisories :
                              world.osv[a].there \/ a \in InventoryScan!KnownIds}
      /\ FindingsFit(fs)
      /\ \A a \in records : \E f \in fs : a \in f.ids
      /\ \A f \in fs :
             /\ f.ids = f.names \cap records /\ f.ids # {}
             /\ \E a \in f.ids : f.names = InventoryScan!Connected(a, QueryLinks(records))
             /\ \A l \in QueryLinks(records) : l \cap f.names # {} => l \subseteq f.names
             /\ ~world.rejected => f.rejected = FALSE
             /\ ~world.rejected /\ "osv" \in up =>
                   PackageAgrees(world, f) /\ ("cisa_kev" \in up => PackageKev(world, f))
  BY <1>0 DEF PackageGroups
<1>3. \A a \in InventoryScan!KnownIds : \E q \in Roots(ledger) : a \in rows[q].ids
  BY <1>1, VisibleAre DEF InventoryScan!KnownIds, InventoryScan!Known
<1>4. \A a \in records : a \in Advisories /\ (world.osv[a].there \/ \E q \in Roots(ledger) : a \in rows[q].ids)
  BY <1>2, <1>3 DEF Asked
<1>5. \A a \in records : ({a} \cup world.osv[a].alias) \in QueryLinks(records)
  BY DEF QueryLinks
<1>6. PackageQuery(world, rows, ledger, fs, up)
  <2>1. SUFFICES ASSUME NEW f \in fs
                 PROVE  /\ f.ids # {} /\ f.ids \subseteq f.names \cap Advisories
                        /\ ~world.rejected => f.rejected = FALSE
                        /\ \A a \in f.ids :
                              /\ world.osv[a].alias \subseteq f.names
                              /\ world.osv[a].there \/ \E q \in Roots(ledger) : a \in rows[q].ids
    BY DEF PackageQuery
  <2>2. f.ids = f.names \cap records /\ f.ids # {} /\ (~world.rejected => f.rejected = FALSE)
    BY <1>2
  <2>3. f.ids \subseteq f.names \cap Advisories
    BY <1>4, <2>2
  <2>4. ASSUME NEW a \in f.ids
        PROVE  /\ world.osv[a].alias \subseteq f.names
               /\ world.osv[a].there \/ \E q \in Roots(ledger) : a \in rows[q].ids
    <3>1. a \in records /\ a \in f.names
      BY <2>2
    <3>2. ({a} \cup world.osv[a].alias) \subseteq f.names
      BY <1>2, <1>5, <3>1
    <3> QED BY <1>4, <3>1, <3>2
  <2> QED BY <2>2, <2>3, <2>4
<1>7. ASSUME target = 1
      PROVE  /\ Roots(ledger) \subseteq DOMAIN rows
             /\ \A q \in Roots(ledger) :
                    /\ rows[q].names \in QueryLinks(records)
                    /\ rows[q].ids \subseteq InventoryScan!KnownIds
             /\ \A n \in DOMAIN ledger :
                    ledger[n] \in Roots(ledger) /\ n \in rows[ledger[n]].names
                    /\ ledger[n] \in rows[ledger[n]].names
  <2>1. Roots(ledger) \subseteq DOMAIN rows
    BY <1>1 DEF Roots, TablesFit
  <2>2. \A q \in Roots(ledger) : q \in InventoryScan!Known
    BY <1>1, <1>7, <2>1, VisibleAre DEF InventoryScan!Known, FirstVersion
  <2>3. ASSUME NEW q \in Roots(ledger)
        PROVE  rows[q].names \in QueryLinks(records) /\ rows[q].ids \subseteq InventoryScan!KnownIds
    BY <2>2 DEF QueryLinks, InventoryScan!KnownNames, InventoryScan!KnownIds
  <2>4. ASSUME NEW n \in DOMAIN ledger
        PROVE  ledger[n] \in Roots(ledger) /\ n \in rows[ledger[n]].names
               /\ ledger[n] \in rows[ledger[n]].names
    <3>1. ledger[n] \in DOMAIN ledger /\ ledger[ledger[n]] = ledger[n]
      BY <1>1 DEF TablesFit
    <3>2. n \in rows[ledger[n]].names /\ ledger[n] \in rows[ledger[ledger[n]]].names
      BY <1>1, <1>7, <3>1 DEF FirstVersion
    <3> QED BY <3>1, <3>2 DEF Roots
  <2> QED BY <2>1, <2>3, <2>4
<1>8. ASSUME target = 1 PROVE Within(ledger, fs)
  <2>1. SUFFICES ASSUME NEW f \in fs, NEW n \in DOMAIN ledger
                 PROVE  n \in f.names <=> ledger[n] \in f.names
    BY DEF Within
  <2>2. PICK l \in QueryLinks(records) : n \in l /\ ledger[n] \in l
    BY <1>7, <1>8
  <2>3. l \cap f.names # {} => l \subseteq f.names
    BY <1>2
  <2> QED BY <2>2, <2>3
<1>9. ASSUME target = 1, "osv" \in up PROVE PackageAnswer(world, rows, ledger, fs, up)
  <2>1. records = {a \in Advisories : world.osv[a].there \/ a \in InventoryScan!KnownIds}
    BY <1>2, <1>9
  <2>2. \A a \in Advisories : world.osv[a].there => \E f \in fs : a \in f.ids
    BY <1>2, <2>1
  <2>3. \A q \in Roots(ledger) : rows[q].ids # {} /\ rows[q].ids \subseteq rows[q].names \cap records
    BY <1>1, <1>7, <1>9, <2>1 DEF HaveRecords
  <2>4. ASSUME NEW n \in DOMAIN ledger PROVE \E f \in fs : n \in f.names
    <3>1. PICK q \in Roots(ledger) : n \in rows[q].names
      BY <1>7, <1>9
    <3>2. PICK a \in rows[q].ids : a \in rows[q].names /\ a \in records
      BY <2>3
    <3>3. PICK f \in fs : a \in f.ids
      BY <1>2, <3>2
    <3>4. a \in f.names /\ rows[q].names \in QueryLinks(records)
      BY <1>2, <1>7, <1>9, <3>3
    <3>5. rows[q].names \subseteq f.names
      BY <1>2, <3>2, <3>4
    <3> QED BY <3>1, <3>5
  <2>5. ~world.rejected => \A f \in fs :
           PackageAgrees(world, f) /\ ("cisa_kev" \in up => PackageKev(world, f))
    BY <1>2, <1>9
  <2>6. ASSUME PackageSettled(world, rows, ledger), NEW f \in fs
        PROVE  \E q \in Roots(ledger) : f.names = rows[q].names /\ f.ids = rows[q].ids
    <3>1. PICK a \in f.ids : f.names = InventoryScan!Connected(a, QueryLinks(records))
      BY <1>2
    <3>2. \A b \in records : \E q \in Roots(ledger) : b \in rows[q].ids
      BY <1>4, <2>6 DEF PackageSettled
    <3>3. f.ids = f.names \cap records
      BY <1>2
    <3>4. PICK q \in Roots(ledger) : a \in rows[q].ids
      BY <3>2, <3>3
    <3>5. a \in rows[q].names /\ rows[q].names \in QueryLinks(records)
      BY <1>7, <1>9, <2>3, <3>4
    <3>6. rows[q].names \subseteq f.names
      BY <1>2, <3>3, <3>5
    <3>7. ASSUME NEW l \in QueryLinks(records), l \cap rows[q].names # {} PROVE l \subseteq rows[q].names
      <4>1. ASSUME NEW p \in Roots(ledger), l \subseteq rows[p].names PROVE l \subseteq rows[q].names
        <5>1. rows[p].names \cap rows[q].names # {}
          BY <3>7, <4>1
        <5>2. p = q
          BY <1>1, <5>1, OneRoot
        <5> QED BY <4>1, <5>2
      <4>2. \E p \in Roots(ledger) : l \subseteq rows[p].names
        <5>1. CASE l \in InventoryScan!KnownNames
          BY <1>1, <5>1, VisibleAre DEF InventoryScan!KnownNames, InventoryScan!Known
        <5>2. CASE l \notin InventoryScan!KnownNames
          <6>1. PICK b \in records : l = {b} \cup world.osv[b].alias
            BY <5>2 DEF QueryLinks
          <6>2. PICK p \in Roots(ledger) : b \in rows[p].ids
            BY <3>2
          <6>3. world.osv[b].alias \subseteq rows[p].names
            BY <2>6, <6>2 DEF PackageSettled
          <6>4. b \in rows[p].names
            BY <2>3, <6>2
          <6> QED BY <6>1, <6>3, <6>4
        <5> QED BY <5>1, <5>2
      <4> QED BY <4>1, <4>2
    <3>8. rows[q].names \in SUBSET InventoryScan!Labels
      <4>1. q \in DOMAIN rows
        BY <1>7, <1>9
      <4> QED BY <1>1, <4>1 DEF TablesFit
    <3>9. PICK s : s = rows[q].names
      OBVIOUS
    <3>10. PICK links : links = QueryLinks(records)
      OBVIOUS
    <3>11. InventoryScan!Connected(a, links) \subseteq s
      <4>1. s \in SUBSET InventoryScan!Labels /\ a \in s
        BY <3>5, <3>8, <3>9
      <4>2. \A l \in links : l \cap s # {} => l \subseteq s
        BY <3>7, <3>9, <3>10
      <4> QED BY <4>1, <4>2, ConnectedLeast
    <3>12. f.names = rows[q].names
      BY <3>1, <3>6, <3>9, <3>10, <3>11
    <3>13. ASSUME NEW b \in f.ids PROVE b \in rows[q].ids
      <4>1. b \in records /\ b \in rows[q].names
        BY <3>3, <3>12
      <4>2. PICK p \in Roots(ledger) : b \in rows[p].ids
        BY <3>2, <4>1
      <4>3. b \in rows[p].names
        BY <2>3, <4>2
      <4>4. p = q
        BY <1>1, <4>1, <4>3, OneRoot
      <4> QED BY <4>2, <4>4
    <3>14. rows[q].ids \subseteq f.ids
      BY <2>3, <3>3, <3>12
    <3>15. f.ids = rows[q].ids
      BY <3>13, <3>14
    <3> QED BY <3>12, <3>15
  <2> QED BY <2>2, <2>4, <2>5, <2>6 DEF PackageAnswer
<1> QED BY <1>2, <1>6, <1>8, <1>9

\* What a product's query knows.
LEMMA ProductStart ==
    ASSUME InventoryScan!InventoryScanAssumption, StoreFits, WorldFits, assetPath = "product",
           NEW up \in SUBSET Enabled, NEW fs, fs = InventoryScan!ProductFindings(up)
    PROVE  FindingsFit(fs) /\ ProductQuery(world, fs, up) /\ Within(ledger, fs)
<1>1. TablesFit(rows, ledger) /\ NoAliases(ledger) /\ world.rejected \in BOOLEAN
  BY DEF StoreFits, WorldFits
<1> DEFINE listed == IF up \cap {"nvd", "euvd"} # {} /\ world.listed THEN ScanCves ELSE {}
           names == listed \cup UNION InventoryScan!KnownNames
           matched == "nvd" \in up /\ world.listed
           decisions ==
               (IF matched THEN {"affected"} ELSE {})
               \cup (IF "cve_list" \in up THEN {world.says} ELSE {"needs_review"})
               \cup (IF InventoryScan!CoreIncomplete(up) THEN {"needs_review"} ELSE {})
           rejected == "cve_list" \in up /\ world.rejected
           evidence == (IF matched THEN {<<"nvd">>} ELSE {})
               \cup (IF "cve_list" \in up THEN {<<"cve_list", world.says, world.rejected>>} ELSE {})
           F(c) == [names |-> {c}, ids |-> {}, primary |-> c,
                    state |-> InventoryScan!Reconcile(decisions, rejected, evidence),
                    rejected |-> rejected,
                    cvss |-> IF matched \/ "cve_list" \in up THEN world.cvss ELSE Nothing,
                    kev |-> InventoryScan!Exploited(up), evidence |-> evidence,
                    conflicts |-> InventoryScan!Conflicts(decisions, rejected)]
<1>2. fs = {F(c) : c \in names}
  BY DEF InventoryScan!ProductFindings
<1>3. names \subseteq InventoryScan!Labels
  <2>1. ASSUME NEW c \in UNION InventoryScan!KnownNames PROVE c \in InventoryScan!Labels
    <3>1. PICK p \in DOMAIN rows : c \in rows[p].names
      BY <2>1 DEF InventoryScan!KnownNames, InventoryScan!Known, InventoryScan!Visible
    <3> QED BY <1>1, <3>1 DEF TablesFit
  <2> QED BY <2>1 DEF InventoryScan!Labels
<1>4. \A c : F(c).names = {c} /\ F(c).primary = c
  OBVIOUS
<1>5. ~world.rejected => rejected = FALSE
  BY <1>1
<1>6. ASSUME ~world.rejected, ~ProductIsOut(world, up), NEW c
      PROVE  ProductAgrees(world, F(c)) /\ ("cisa_kev" \in up => F(c).kev = world.kev)
  <2>1. ~InventoryScan!CoreIncomplete(up)
    BY <1>6, ProductCore
  <2>2. ("nvd" \in up <=> "nvd" \in Enabled) /\ ("cve_list" \in up <=> "cve_list" \in Enabled)
    BY <1>6 DEF ProductIsOut
  <2>3. world.rejected = FALSE /\ rejected = FALSE
    BY <1>1, <1>6
  <2> DEFINE decided == (IF "nvd" \in Enabled /\ world.listed THEN {"affected"} ELSE {})
                 \cup (IF "cve_list" \in Enabled THEN {world.says} ELSE {"needs_review"})
             proof == (IF "nvd" \in Enabled /\ world.listed THEN {<<"nvd">>} ELSE {})
                 \cup (IF "cve_list" \in Enabled THEN {<<"cve_list", world.says, FALSE>>} ELSE {})
  <2>4. decisions = decided /\ evidence = proof
    BY <2>1, <2>2, <2>3
  <2>5. /\ F(c).state = InventoryScan!Reconcile(decisions, rejected, evidence)
        /\ F(c).rejected = rejected /\ F(c).evidence = evidence
        /\ F(c).conflicts = InventoryScan!Conflicts(decisions, rejected)
        /\ F(c).cvss = IF matched \/ "cve_list" \in up THEN world.cvss ELSE Nothing
        /\ F(c).kev = InventoryScan!Exploited(up)
    OBVIOUS
  <2>6. (matched \/ "cve_list" \in up) <=> (("nvd" \in Enabled /\ world.listed) \/ "cve_list" \in Enabled)
    BY <2>2
  <2> HIDE DEF F, matched, decisions, rejected, evidence
  <2>7. ProductAgrees(world, F(c))
    BY <2>3, <2>4, <2>5, <2>6 DEF ProductAgrees
  <2> QED BY <2>5, <2>7 DEF InventoryScan!Exploited
<1>7. \A c : F(c).rejected = rejected
  OBVIOUS
<1> HIDE DEF F, names, rejected
<1>8. FindingsFit(fs)
  BY <1>2, <1>3, <1>4 DEF FindingsFit
<1>9. ProductQuery(world, fs, up)
  <2>1. SUFFICES ASSUME NEW f \in fs
        PROVE  /\ \E c \in f.names : f.names = {c}
               /\ ~world.rejected => f.rejected = FALSE
               /\ ~world.rejected /\ ~ProductIsOut(world, up) =>
                      ProductAgrees(world, f) /\ ("cisa_kev" \in up => f.kev = world.kev)
    BY DEF ProductQuery
  <2>2. PICK c : f = F(c)
    BY <1>2
  <2> QED BY <1>4, <1>5, <1>6, <1>7, <2>2
<1>10. Within(ledger, fs)
  BY <1>1 DEF Within, NoAliases
<1> QED BY <1>8, <1>9, <1>10

\* A query begins.
LEMMA StartKnows ==
    ASSUME InventoryScan!InventoryScanAssumption, StoreFits, WorldFits, InventoryScan!Start
    PROVE  QueryKnows' /\ ScanFits' /\ scan'.phase = "queried"
<1>1. PICK down \in SUBSET Outages, lost \in SUBSET Advisories :
          LET up == Enabled \ down
              findings == IF assetPath = "package" THEN InventoryScan!PackageFindings(up, lost)
                          ELSE InventoryScan!ProductFindings(up)
          IN  scan' = [phase |-> "queried", findings |-> findings, up |-> up, at |-> changes,
                       complete |-> /\ InventoryScan!Incomplete(up) = {} /\ findings # {}
                                    /\ assetPath = "package" =>
                                         \A f \in findings : f.state \notin {"unknown", "needs_review"}]
  BY DEF InventoryScan!Start
<1>2. PICK up \in SUBSET Enabled : up = Enabled \ down
  OBVIOUS
<1>3. PICK fs : fs = IF assetPath = "package" THEN InventoryScan!PackageFindings(up, lost)
                     ELSE InventoryScan!ProductFindings(up)
  OBVIOUS
<1>4. PICK whether : scan' = [phase |-> "queried", findings |-> fs, up |-> up, at |-> changes,
                              complete |-> whether]
  BY <1>1, <1>2, <1>3
<1>5. /\ scan'.phase = "queried" /\ scan'.findings = fs /\ scan'.up = up /\ scan'.at = changes
      /\ scan' = [phase |-> scan'.phase, findings |-> scan'.findings, up |-> scan'.up,
                  at |-> scan'.at, complete |-> scan'.complete]
  BY <1>4
<1>6. UNCHANGED <<assetPath, target, world, changes, rows, ledger>>
  BY DEF InventoryScan!Start, InventoryScan!store
<1>7. assetPath = "package" =>
          /\ FindingsFit(fs) /\ PackageQuery(world, rows, ledger, fs, up)
          /\ target = 1 /\ "osv" \in up => PackageAnswer(world, rows, ledger, fs, up)
          /\ target = 1 => Within(ledger, fs)
  BY <1>3, PackageStart
<1>8. assetPath = "product" => FindingsFit(fs) /\ ProductQuery(world, fs, up) /\ Within(ledger, fs)
  BY <1>3, ProductStart
<1>9. assetPath \in {"package", "product"}
  BY DEF StoreFits, InventoryScan!InventoryScanAssumption
<1>10. QueryKnows'
  BY <1>5, <1>6, <1>7, <1>8, <1>9 DEF QueryKnows
<1>11. ScanFits'
  BY <1>5 DEF ScanFits
<1> QED BY <1>5, <1>10, <1>11
-----------------------------------------------------------------------------
(* The transaction is committed. *)

\* What a commit knows.
LEMMA CommitIs ==
    ASSUME InventoryScan!Commit
    PROVE  /\ scan.phase = "recording" /\ tx.left = {} /\ Taken = scan.findings
           /\ rows' = tx.rows /\ ledger' = tx.ledger /\ events' = tx.events
           /\ scan'.phase = "notify" /\ scan'.left = Channels /\ scan'.failed = FALSE
           /\ UNCHANGED <<assetPath, target, world, changes, attempt, took>>
BY DEF InventoryScan!Commit, Taken

LEMMA CommitStore ==
    ASSUME StoreFits, TxKnows, InventoryScan!Commit PROVE StoreFits'
<1>1. /\ scan.phase = "recording"
      /\ rows' = tx.rows /\ ledger' = tx.ledger /\ events' = tx.events
      /\ UNCHANGED <<assetPath, target, world, changes, attempt, took>>
  BY CommitIs
<1>2. IsSequence(completed')
  <2>1. completed' = Append(completed, [complete |-> scan.complete, snapshot |-> tx.snapshot,
                                        findings |-> scan.findings])
    BY DEF InventoryScan!Commit
  <2> QED BY <2>1, SequenceGrows DEF StoreFits
<1> QED BY <1>1, <1>2 DEF StoreFits, TxKnows

\* A package that all sources answered for is settled.
LEMMA AnsweredSettled ==
    ASSUME InventoryScan!InventoryScanAssumption, StoreFits, QueryKnows, TxKnows, PackageTx,
           scan.phase = "recording", Taken = scan.findings, Enabled \subseteq scan.up,
           assetPath = "package", target = 1, ~world.rejected
    PROVE  PackageSettled(world, tx.rows, tx.ledger)
<1>1. "osv" \in scan.up
  BY DEF StoreFits, InventoryScan!InventoryScanAssumption
<1>2. /\ TablesFit(tx.rows, tx.ledger)
      /\ PackageQuery(world, rows, ledger, scan.findings, scan.up)
      /\ PackageAnswer(world, rows, ledger, scan.findings, scan.up)
  BY <1>1 DEF TxKnows, QueryKnows
<1> DEFINE Root(f, q) ==
               /\ tx.rows[q].names = f.names /\ tx.rows[q].ids = f.ids
               /\ PackageAgrees(world, tx.rows[q])
               /\ "cisa_kev" \in scan.up => PackageKev(world, tx.rows[q])
<1>3. /\ \A f \in scan.findings : \E q \in f.names \cap Roots(tx.ledger) : Root(f, q)
      /\ \A n \in DOMAIN tx.ledger : \E f \in scan.findings : n \in f.names
  BY <1>1 DEF PackageTx
<1>4. ASSUME NEW q \in Roots(tx.ledger) PROVE \E f \in scan.findings : Root(f, q)
  <2>1. PICK f \in scan.findings : q \in f.names
    BY <1>3 DEF Roots
  <2>2. PICK p \in f.names \cap Roots(tx.ledger) : Root(f, p)
    BY <1>3
  <2>3. p \in DOMAIN tx.rows /\ tx.ledger[p] = p /\ tx.ledger[q] = q /\ q \in tx.rows[p].names
    BY <1>2, <2>1, <2>2 DEF TablesFit, Roots
  <2>4. p = q
    BY <1>2, <2>3 DEF TablesFit
  <2> QED BY <2>2, <2>4
<1>5. ASSUME NEW a \in Advisories, world.osv[a].there
      PROVE  \E q \in Roots(tx.ledger) : a \in tx.rows[q].ids
  <2>1. PICK f \in scan.findings : a \in f.ids
    BY <1>2, <1>5 DEF PackageAnswer
  <2> QED BY <1>3, <2>1
<1>6. ASSUME NEW q \in Roots(tx.ledger)
      PROVE  /\ \A a \in tx.rows[q].ids : world.osv[a].alias \subseteq tx.rows[q].names
             /\ PackageAgrees(world, tx.rows[q])
             /\ "cisa_kev" \in Enabled => PackageKev(world, tx.rows[q])
  <2>1. PICK f \in scan.findings : Root(f, q)
    BY <1>4
  <2>2. \A a \in f.ids : world.osv[a].alias \subseteq f.names
    BY <1>2 DEF PackageQuery
  <2> QED BY <2>1, <2>2
<1> QED BY <1>5, <1>6 DEF PackageSettled

\* What was settled of a product stays so while its news are none.
LEMMA ProductSame ==
    ASSUME NEW p, NEW row, NEW old, InventoryScan!Material(p, row) = InventoryScan!Material(p, old),
           ProductSettled(world, old)
    PROVE  ProductSettled(world, row)
<1>1. /\ row.state = old.state /\ row.rejected = old.rejected /\ row.cvss = old.cvss
      /\ row.kev = old.kev /\ row.evidence = old.evidence /\ row.conflicts = old.conflicts
  BY DEF InventoryScan!Material
<1>2. ProductAgrees(world, row)
  BY <1>1 DEF ProductSettled, ProductAgrees
<1> QED BY <1>1, <1>2 DEF ProductSettled

LEMMA CommitSince ==
    ASSUME InventoryScan!InventoryScanAssumption, StoreFits, SinceFits, QueryKnows, TxKnows,
           PackageTx, ProductTx, InventoryScan!Commit
    PROVE  SinceFits'
<1>1. /\ scan.phase = "recording" /\ Taken = scan.findings
      /\ rows' = tx.rows /\ ledger' = tx.ledger
      /\ UNCHANGED <<assetPath, target, world, changes>>
  BY CommitIs
<1>2. since' = [p \in DOMAIN tx.rows |->
                   IF p \in tx.observed /\ Enabled \subseteq scan.up THEN scan.at
                   ELSE IF p \in DOMAIN since THEN since[p] ELSE -1]
  BY DEF InventoryScan!Commit
<1>3. scan.at = changes /\ scan.up \subseteq Enabled
  BY <1>1 DEF QueryKnows
<1>4. changes \in Nat
  BY DEF StoreFits
<1>5. DOMAIN since' = DOMAIN rows'
  BY <1>1, <1>2
<1>6. ASSUME NEW p \in DOMAIN since' PROVE since'[p] \in Int /\ since'[p] <= changes'
  <2>1. since'[p] = changes \/ (p \in DOMAIN since /\ since'[p] = since[p]) \/ since'[p] = -1
    BY <1>2, <1>3
  <2>2. p \in DOMAIN since => since[p] \in Int /\ since[p] <= changes
    BY DEF SinceFits
  <2> QED BY <1>1, <1>4, <2>1, <2>2
<1>7. ASSUME NEW p \in DOMAIN since', since'[p] = changes
      PROVE  \/ p \in tx.observed /\ Enabled \subseteq scan.up
             \/ p \in DOMAIN since /\ since[p] = changes
  <2>1. -1 # changes
    BY <1>4
  <2> QED BY <1>2, <1>7, <2>1
<1>8. ASSUME target = 1, ~world.rejected, assetPath = "package",
             NEW p \in DOMAIN since', since'[p] = changes
      PROVE  PackageSettled(world, tx.rows, tx.ledger)
  <2>1. CASE p \in tx.observed /\ Enabled \subseteq scan.up
    BY <1>1, <1>8, <2>1, AnsweredSettled
  <2>2. CASE p \in DOMAIN since /\ since[p] = changes
    <3>1. PackageSettled(world, rows, ledger)
      BY <1>8, <2>2 DEF SinceFits
    <3>2. Alike(world, rows, ledger, tx.rows, tx.ledger)
      BY <1>1, <1>8, <3>1 DEF PackageTx
    <3>3. \A n \in DOMAIN ledger : ledger[n] \in DOMAIN rows
      BY DEF StoreFits, TablesFit
    <3> QED BY <3>1, <3>2, <3>3, AlikeSettled
  <2> QED BY <1>7, <1>8, <2>1, <2>2
<1>9. ASSUME target = 1, ~world.rejected, assetPath = "product",
             NEW p \in DOMAIN since', since'[p] = changes
      PROVE  ProductIsOut(world, Enabled) \/ ProductSettled(world, tx.rows[p])
  <2>1. CASE p \in tx.observed /\ Enabled \subseteq scan.up
    <3>1. scan.up = Enabled
      BY <1>3, <2>1
    <3> QED BY <1>1, <1>9, <2>1, <3>1 DEF ProductTx, ProductSettled
  <2>2. CASE p \in DOMAIN since /\ since[p] = changes
    <3>1. p \in DOMAIN rows
      BY <2>2 DEF SinceFits
    <3>2. ProductIsOut(world, Enabled) \/ ProductSettled(world, rows[p])
      BY <1>9, <2>2 DEF SinceFits
    <3>3. ProductSettled(world, rows[p]) =>
              InventoryScan!Material(p, tx.rows[p]) = InventoryScan!Material(p, rows[p])
      BY <1>1, <1>9, <3>1 DEF ProductTx
    <3> QED BY <3>2, <3>3, ProductSame
  <2> QED BY <1>7, <1>9, <2>1, <2>2
<1> QED BY <1>1, <1>5, <1>6, <1>8, <1>9 DEF SinceFits

\* A commit tells of no change where sources only failed.
LEMMA CommitIsSilent ==
    ASSUME InventoryScan!InventoryScanAssumption, StoreFits, SinceFits, QueryKnows, TxKnows,
           PackageTx, ProductTx, InventoryScan!Commit
    PROVE  InventoryScan!OutageIsSilent
<1>1. /\ scan.phase = "recording" /\ rows' = tx.rows /\ events' = tx.events
  BY CommitIs
<1>2. SUFFICES ASSUME NEW i \in DOMAIN tx.events \ DOMAIN events,
                      NEW p, p = tx.events[i].row,
                      ~world.rejected, target = 1, tx.events[i].type = "changed",
                      p \in DOMAIN since, since[p] = changes
               PROVE  /\ InventoryScan!Unscored(tx.rows[p]) = InventoryScan!Unscored(rows[p])
                      /\ Nothing \in {tx.rows[p].cvss, rows[p].cvss}
  BY <1>1 DEF InventoryScan!OutageIsSilent
<1>3. p \in DOMAIN rows /\ InventoryScan!Material(p, tx.rows[p]) # InventoryScan!Material(p, rows[p])
  BY <1>1, <1>2 DEF TxKnows
<1>4. CASE assetPath = "package"
  <2>1. PackageSettled(world, rows, ledger)
    BY <1>2, <1>4 DEF SinceFits
  <2>2. Alike(world, rows, ledger, tx.rows, tx.ledger)
    BY <1>1, <1>2, <1>4, <2>1 DEF PackageTx
  <2>3. /\ InventoryScan!Unscored(tx.rows[p]) = InventoryScan!Unscored(rows[p])
        /\ \/ tx.rows[p].cvss = rows[p].cvss
           \/ {tx.rows[p].cvss, rows[p].cvss} \subseteq {Nothing, world.cvss}
    BY <1>3, <2>2 DEF Alike
  <2>4. tx.rows[p].cvss # rows[p].cvss
    BY <1>3, <2>3, UnscoredSame DEF InventoryScan!Material
  <2> QED BY <2>3, <2>4
<1>5. CASE assetPath = "product"
  <2>1. ProductIsOut(world, Enabled) \/ ProductSettled(world, rows[p])
    BY <1>2, <1>5 DEF SinceFits
  <2>2. ProductIsOut(world, Enabled) => ProductIsOut(world, scan.up)
    BY <1>1 DEF QueryKnows, ProductIsOut
  <2>3. /\ ProductIsOut(world, scan.up) => tx.rows[p] = rows[p]
        /\ ProductSettled(world, rows[p]) =>
              InventoryScan!Material(p, tx.rows[p]) = InventoryScan!Material(p, rows[p])
    BY <1>1, <1>2, <1>3, <1>5 DEF ProductTx
  <2> QED BY <1>3, <2>1, <2>2, <2>3
<1> QED BY <1>4, <1>5 DEF StoreFits, InventoryScan!InventoryScanAssumption

LEMMA CommitChannels ==
    ASSUME StoreFits, TxKnows, ChannelsFit, InventoryScan!Commit PROVE ChannelsFit'
<1>1. /\ scan.phase = "recording" /\ Taken = scan.findings /\ events' = tx.events
      /\ scan'.phase = "notify" /\ scan'.left = Channels /\ scan'.failed = FALSE
      /\ attempt' = attempt
  BY CommitIs
<1>2. PICK x : /\ x.snapshot = tx.snapshot /\ x.findings = scan.findings
               /\ completed' = Append(completed, x)
  <2>1. PICK x : x = [complete |-> scan.complete, snapshot |-> tx.snapshot, findings |-> scan.findings]
    OBVIOUS
  <2> QED BY <2>1 DEF InventoryScan!Commit
<1>3. \A i \in DOMAIN completed' : Covers(completed'[i].snapshot, completed'[i].findings)
  <2>1. /\ Len(completed) \in Nat /\ DOMAIN completed = 1..Len(completed)
        /\ DOMAIN completed' = 1..(Len(completed) + 1)
        /\ \A i \in DOMAIN completed : completed'[i] = completed[i]
        /\ completed'[Len(completed) + 1] = x
    <3>1. IsSequence(completed)
      BY DEF StoreFits
    <3>2. Longer(completed', completed, x)
      BY <1>2, <3>1, SequenceGrows
    <3> QED BY <3>2 DEF Longer
  <2>2. \A i \in DOMAIN completed : Covers(completed[i].snapshot, completed[i].findings)
    BY DEF ChannelsFit
  <2>3. Covers(x.snapshot, x.findings)
    BY <1>1, <1>2 DEF TxKnows
  <2>4. \A i \in DOMAIN completed' : i \in DOMAIN completed \/ i = Len(completed) + 1
    BY <2>1
  <2> QED BY <2>1, <2>2, <2>3, <2>4
<1>4. channel' \in [DOMAIN events' -> [Channels -> {"pending", "failed", "accepted"}]]
  <2>1. channel' = [i \in DOMAIN tx.events |->
                       IF i \in DOMAIN channel THEN channel[i] ELSE [c \in Channels |-> "pending"]]
    BY DEF InventoryScan!Commit
  <2>2. channel \in [DOMAIN events -> [Channels -> {"pending", "failed", "accepted"}]]
    BY DEF ChannelsFit
  <2>3. [c \in Channels |-> "pending"] \in [Channels -> {"pending", "failed", "accepted"}]
    OBVIOUS
  <2> QED BY <1>1, <2>1, <2>2, <2>3
<1>5. attempt' = "running"
  BY <1>1 DEF ChannelsFit
<1> QED BY <1>1, <1>3, <1>4, <1>5 DEF ChannelsFit
-----------------------------------------------------------------------------
(* The inductive invariant of inventory scans. *)

InventoryIInv ==
    /\ StoreFits /\ WorldFits /\ SinceFits /\ QueryKnows /\ ScanFits /\ TxKnows
    /\ PackageTx /\ ProductTx /\ ChannelsFit

\* What a scan knows it knows only while it asks and records.
OutsideScan == scan.phase \notin {"queried", "recording"}

LEMMA OutsideKnows ==
    OutsideScan => QueryKnows /\ ScanFits /\ TxKnows /\ PackageTx /\ ProductTx
BY DEF OutsideScan, QueryKnows, ScanFits, TxKnows, PackageTx, ProductTx

\* The tables, the sources and the history as they were.
TablesStay == UNCHANGED <<assetPath, target, world, changes, rows, ledger, events, completed, since>>

LEMMA TablesStayFit ==
    ASSUME StoreFits, WorldFits, SinceFits, TablesStay PROVE StoreFits' /\ WorldFits' /\ SinceFits'
BY DEF StoreFits, WorldFits, SinceFits, TablesStay

LEMMA InventoryInitFits ==
    ASSUME InventoryScan!InventoryScanAssumption, InventoryScan!Init
    PROVE  InventoryIInv
<1>1. /\ assetPath \in IdentityPaths /\ target = 1 /\ changes = 0
      /\ rows = <<>> /\ ledger = <<>> /\ events = <<>> /\ channel = <<>> /\ completed = <<>>
      /\ attempt = "none" /\ scan.phase = "idle" /\ since = <<>>
  BY DEF InventoryScan!Init, InventoryScan!NoScan
<1>2. DOMAIN rows = {} /\ DOMAIN ledger = {} /\ DOMAIN events = {} /\ DOMAIN completed = {}
      /\ DOMAIN since = {} /\ DOMAIN channel = {}
  BY <1>1
<1>3. IsSequence(events) /\ IsSequence(completed)
  <2>1. <<>> \in Seq({})
    OBVIOUS
  <2> QED BY <1>1, <2>1 DEF IsSequence
<1>4. StoreFits
  BY <1>1, <1>2, <1>3 DEF InventoryScan!InventoryScanAssumption, StoreFits, TablesFit, NewsOnce, NewsOf, NoAliases, HaveRecords, FirstVersion
<1>5. WorldFits
  <2>1. PICK there \in SUBSET Advisories, linked \in SUBSET Advisories :
            world = [osv |-> [a \in Advisories |->
                               [there |-> a \in there, says |-> "affected",
                                alias |-> IF a \in linked THEN ScanCves ELSE {}]],
                     listed |-> TRUE, says |-> "affected", rejected |-> FALSE, cvss |-> 1,
                     kev |-> FALSE]
    BY DEF InventoryScan!Init
  <2>2. PICK S : S = [there : BOOLEAN, says : Says \cup {"affected"}, alias : {{}, ScanCves}]
    OBVIOUS
  <2>3. \A a \in Advisories :
            [there |-> a \in there, says |-> "affected",
             alias |-> IF a \in linked THEN ScanCves ELSE {}] \in S
    BY <2>2
  <2>4. PICK osv : osv = [a \in Advisories |->
                             [there |-> a \in there, says |-> "affected",
                              alias |-> IF a \in linked THEN ScanCves ELSE {}]]
    OBVIOUS
  <2>5. osv \in [Advisories -> S]
    BY <2>3, <2>4
  <2> QED BY <2>1, <2>2, <2>4, <2>5 DEF WorldFits
<1>6. SinceFits
  BY <1>1, <1>2 DEF SinceFits
<1>7. ChannelsFit
  <2>1. channel \in [DOMAIN events -> [Channels -> {"pending", "failed", "accepted"}]]
    BY <1>1, <1>2
  <2> QED BY <1>1, <1>2, <2>1 DEF ChannelsFit
<1>8. OutsideScan
  BY <1>1 DEF OutsideScan
<1> QED BY <1>4, <1>5, <1>6, <1>7, <1>8, OutsideKnows DEF InventoryIInv

LEMMA PublishFits ==
    ASSUME InventoryScan!InventoryScanAssumption, InventoryIInv, InventoryScan!Publish
    PROVE  InventoryIInv'
<1>1. /\ scan.phase = "idle" /\ changes < MaxChanges /\ changes' = changes + 1
      /\ UNCHANGED <<assetPath, target, rows, ledger, events, channel, completed, attempt, scan, tx,
                     took, since>>
  BY DEF InventoryScan!Publish, InventoryScan!store
<1>2. StoreFits /\ WorldFits /\ SinceFits /\ ChannelsFit
  BY DEF InventoryIInv
<1>3. StoreFits'
  <2>1. changes' \in 0..MaxChanges
    BY <1>1, <1>2 DEF StoreFits, InventoryScan!InventoryScanAssumption
  <2> QED BY <1>1, <1>2, <2>1 DEF StoreFits
<1>4. SinceFits'
  <2>1. \A p \in DOMAIN since : since[p] \in Int /\ since[p] <= changes /\ changes \in Int
    BY <1>2 DEF SinceFits, StoreFits
  <2>2. \A p \in DOMAIN since : since[p] <= changes' /\ since[p] # changes'
    BY <1>1, <2>1
  <2> QED BY <1>1, <1>2, <2>1, <2>2 DEF SinceFits
<1>5. ChannelsFit'
  BY <1>1, <1>2 DEF ChannelsFit, InventoryScan!Pending
<1>6. WorldFits'
  <2>1. PICK S : S = [there : BOOLEAN, says : Says \cup {"affected"}, alias : {{}, ScanCves}]
    OBVIOUS
  <2>2. world \in [osv : [Advisories -> S], listed : BOOLEAN, says : Says \cup {"affected"},
                   rejected : BOOLEAN, cvss : {1, 2}, kev : BOOLEAN]
    BY <1>2, <2>1 DEF WorldFits
  <2>3. \/ \E a \in Advisories : \E there \in BOOLEAN, alias \in {{}, ScanCves}, says \in Says :
               world' = [world EXCEPT !.osv[a] = [there |-> there, alias |-> alias, says |-> says]]
        \/ world' = [world EXCEPT !.listed = ~@]
        \/ \E s \in Says : world' = [world EXCEPT !.says = s]
        \/ world' = [world EXCEPT !.rejected = ~@]
        \/ world' = [world EXCEPT !.cvss = 3 - @]
        \/ world' = [world EXCEPT !.kev = ~@]
    BY DEF InventoryScan!Publish
  <2>4. world' \in [osv : [Advisories -> S], listed : BOOLEAN, says : Says \cup {"affected"},
                    rejected : BOOLEAN, cvss : {1, 2}, kev : BOOLEAN]
    <3>1. CASE \E a \in Advisories : \E there \in BOOLEAN, alias \in {{}, ScanCves}, says \in Says :
               world' = [world EXCEPT !.osv[a] = [there |-> there, alias |-> alias, says |-> says]]
      <4>1. PICK a \in Advisories, there \in BOOLEAN, alias \in {{}, ScanCves}, says \in Says :
               world' = [world EXCEPT !.osv[a] = [there |-> there, alias |-> alias, says |-> says]]
        BY <3>1
      <4>2. PICK x \in S : x = [there |-> there, alias |-> alias, says |-> says]
        BY <2>1
      <4>3. world' = [world EXCEPT !.osv[a] = x]
        BY <4>1, <4>2
      <4> QED BY <2>2, <4>3
    <3>2. CASE world' = [world EXCEPT !.listed = ~@]
      BY <2>2, <3>2
    <3>3. CASE \E s \in Says : world' = [world EXCEPT !.says = s]
      BY <2>2, <3>3
    <3>4. CASE world' = [world EXCEPT !.rejected = ~@]
      BY <2>2, <3>4
    <3>5. CASE world' = [world EXCEPT !.cvss = 3 - @]
      BY <2>2, <3>5
    <3>6. CASE world' = [world EXCEPT !.kev = ~@]
      BY <2>2, <3>6
    <3> QED BY <2>3, <3>1, <3>2, <3>3, <3>4, <3>5, <3>6
  <2> QED BY <2>1, <2>4 DEF WorldFits
<1>7. OutsideScan'
  BY <1>1 DEF OutsideScan
<1> QED BY <1>3, <1>4, <1>5, <1>6, <1>7, OutsideKnows DEF InventoryIInv, OutsideScan, QueryKnows, ScanFits,
             TxKnows, PackageTx, ProductTx

LEMMA UpgradeFits ==
    ASSUME InventoryIInv, InventoryScan!Upgrade PROVE InventoryIInv'
<1>1. /\ scan.phase = "idle" /\ target' = 2
      /\ UNCHANGED <<assetPath, world, changes, rows, ledger, events, channel, completed, attempt,
                     scan, tx, took, since>>
  BY DEF InventoryScan!Upgrade, InventoryScan!store
<1>2. StoreFits' /\ WorldFits' /\ SinceFits' /\ ChannelsFit'
  BY <1>1 DEF InventoryIInv, StoreFits, WorldFits, SinceFits, ChannelsFit, InventoryScan!Pending
<1> QED BY <1>1, <1>2 DEF InventoryIInv, QueryKnows, ScanFits, TxKnows, PackageTx, ProductTx

LEMMA StartFits ==
    ASSUME InventoryScan!InventoryScanAssumption, InventoryIInv, InventoryScan!Start
    PROVE  InventoryIInv'
<1>1. /\ scan.phase = "idle" /\ attempt' = "running" /\ TablesStay /\ channel' = channel
  BY DEF InventoryScan!Start, InventoryScan!store, TablesStay
<1>2. QueryKnows' /\ ScanFits' /\ scan'.phase = "queried"
  BY StartKnows DEF InventoryIInv
<1>3. StoreFits' /\ WorldFits' /\ SinceFits'
  BY <1>1, TablesStayFit DEF InventoryIInv
<1>4. ChannelsFit'
  BY <1>1, <1>2 DEF InventoryIInv, ChannelsFit, TablesStay, InventoryScan!Pending
<1> QED BY <1>2, <1>3, <1>4 DEF InventoryIInv, TxKnows, PackageTx, ProductTx

LEMMA BeginFits ==
    ASSUME InventoryScan!InventoryScanAssumption, InventoryIInv, InventoryScan!Begin
    PROVE  InventoryIInv'
<1>1. /\ scan.phase = "queried" /\ scan' = [scan EXCEPT !.phase = "recording"]
      /\ TablesStay /\ channel' = channel /\ attempt' = attempt
  BY DEF InventoryScan!Begin, InventoryScan!store, TablesStay
<1>2. scan = [phase |-> scan.phase, findings |-> scan.findings, up |-> scan.up,
              at |-> scan.at, complete |-> scan.complete]
  BY <1>1 DEF InventoryIInv, ScanFits
<1>3. QueryKnows' /\ TxKnows' /\ PackageTx' /\ ProductTx'
  BY <1>2, BeginKnows DEF InventoryIInv
<1>4. StoreFits' /\ WorldFits' /\ SinceFits'
  BY <1>1, TablesStayFit DEF InventoryIInv
<1>5. scan' = [phase |-> "recording", findings |-> scan.findings, up |-> scan.up,
               at |-> scan.at, complete |-> scan.complete]
  BY <1>1, <1>2
<1>6. ScanFits'
  BY <1>5 DEF ScanFits
<1>7. ChannelsFit'
  BY <1>1, <1>5 DEF InventoryIInv, ChannelsFit, TablesStay, InventoryScan!Pending
<1> QED BY <1>3, <1>4, <1>6, <1>7 DEF InventoryIInv

LEMMA RecordFits ==
    ASSUME InventoryScan!InventoryScanAssumption, InventoryIInv,
           NEW f, InventoryScan!Retain(f) \/ InventoryScan!Refresh(f)
    PROVE  InventoryIInv'
<1>1. RestStays
  BY RecordingStays
<1>2. StoreFits' /\ SinceFits' /\ QueryKnows' /\ ChannelsFit'
  BY <1>1, StoreStays, SinceStays, QueryStays, ChannelsStay DEF InventoryIInv
<1>3. WorldFits' /\ ScanFits'
  BY <1>1 DEF InventoryIInv, WorldFits, ScanFits, RestStays
<1>4. TxKnows'
  BY RetainKnows, RefreshKnows DEF InventoryIInv
<1>5. PackageTx' /\ ProductTx'
  BY RetainSays, RefreshPackage, RefreshProduct DEF InventoryIInv
<1> QED BY <1>2, <1>3, <1>4, <1>5 DEF InventoryIInv

LEMMA CommitFits ==
    ASSUME InventoryScan!InventoryScanAssumption, InventoryIInv, InventoryScan!Commit
    PROVE  InventoryIInv'
<1>1. scan'.phase = "notify" /\ world' = world
  BY CommitIs
<1>2. StoreFits' /\ SinceFits' /\ ChannelsFit'
  BY CommitStore, CommitSince, CommitChannels DEF InventoryIInv
<1> QED BY <1>1, <1>2 DEF InventoryIInv, WorldFits, QueryKnows, ScanFits, TxKnows, PackageTx, ProductTx

\* A scan that ends before its transaction does leaves the tables as they were.
LEMMA EndFits ==
    ASSUME InventoryIInv, InventoryScan!Collide \/ InventoryScan!Crash PROVE InventoryIInv'
<1>1. /\ scan.phase # "idle" /\ scan'.phase = "idle" /\ TablesStay /\ channel' = channel
      /\ attempt' \in {"failed", attempt}
  BY DEF InventoryScan!Collide, InventoryScan!Crash, InventoryScan!IsNext, InventoryScan!NoScan,
         InventoryScan!store, TablesStay
<1>2. StoreFits' /\ WorldFits' /\ SinceFits'
  BY <1>1, TablesStayFit DEF InventoryIInv
<1>3. attempt' \in {"failed", "running"}
  BY <1>1 DEF InventoryIInv, ChannelsFit
<1>4. ChannelsFit'
  BY <1>1, <1>3 DEF InventoryIInv, ChannelsFit, TablesStay, InventoryScan!Pending
<1> QED BY <1>1, <1>2, <1>4 DEF InventoryIInv, QueryKnows, ScanFits, TxKnows, PackageTx, ProductTx

LEMMA SendFits ==
    ASSUME InventoryIInv, NEW c \in Channels, InventoryScan!Send(c) PROVE InventoryIInv'
<1>1. /\ scan.phase = "notify" /\ c \in scan.left
      /\ TablesStay /\ channel' = channel /\ attempt' = attempt
  BY DEF InventoryScan!Send, InventoryScan!store, TablesStay
<1>2. PICK accepted \in BOOLEAN :
          scan' = [phase |-> "sent", to |-> c, ids |-> InventoryScan!Pending(c), accepted |-> accepted,
                   left |-> scan.left \ {c}, complete |-> scan.complete, failed |-> scan.failed]
  BY DEF InventoryScan!Send
<1>3. /\ scan'.phase = "sent" /\ scan'.to = c /\ scan'.ids = InventoryScan!Pending(c)
      /\ scan'.accepted = accepted /\ scan'.left = scan.left \ {c} /\ scan'.failed = scan.failed
  BY <1>2
<1>4. StoreFits' /\ WorldFits' /\ SinceFits'
  BY <1>1, TablesStayFit DEF InventoryIInv
<1>5. ChannelsFit'
  BY <1>1, <1>2, <1>3 DEF InventoryIInv, ChannelsFit, TablesStay, InventoryScan!Pending
<1> QED BY <1>3, <1>4, <1>5 DEF InventoryIInv, QueryKnows, ScanFits, TxKnows, PackageTx, ProductTx

LEMMA MarkFits ==
    ASSUME InventoryIInv, InventoryScan!Mark PROVE InventoryIInv'
<1>1. /\ scan.phase = "sent" /\ TablesStay /\ attempt' = attempt
      /\ scan' = [phase |-> "notify", left |-> scan.left, complete |-> scan.complete,
                  failed |-> scan.failed \/ ~scan.accepted]
      /\ channel' = [i \in DOMAIN channel |->
                        IF i \in scan.ids /\ channel[i][scan.to] # "accepted"
                        THEN [channel[i] EXCEPT ![scan.to] = IF scan.accepted THEN "accepted" ELSE "failed"]
                        ELSE channel[i]]
  BY DEF InventoryScan!Mark, TablesStay
<1>2. StoreFits' /\ WorldFits' /\ SinceFits'
  BY <1>1, TablesStayFit DEF InventoryIInv
<1>3. ChannelsFit
  BY DEF InventoryIInv
<1>4. /\ channel \in [DOMAIN events -> [Channels -> {"pending", "failed", "accepted"}]]
      /\ scan.to \in Channels /\ scan.ids = InventoryScan!Pending(scan.to)
      /\ scan.accepted \in BOOLEAN /\ scan.failed \in BOOLEAN /\ scan.left \subseteq Channels
      /\ ~scan.failed => \A c \in Channels \ (scan.left \cup {scan.to}) : InventoryScan!Pending(c) = {}
      /\ attempt = "running"
  BY <1>1, <1>3 DEF ChannelsFit
<1>5. PICK to \in Channels : to = scan.to
  BY <1>4
<1>6. ASSUME NEW i \in DOMAIN channel
      PROVE  /\ channel'[i] \in [Channels -> {"pending", "failed", "accepted"}]
             /\ \A c \in Channels : c # to => channel'[i][c] = channel[i][c]
             /\ scan.accepted => channel'[i][to] = "accepted"
  <2>1. channel[i] \in [Channels -> {"pending", "failed", "accepted"}]
    BY <1>4
  <2>2. channel'[i] = IF i \in scan.ids /\ channel[i][to] # "accepted"
                      THEN [channel[i] EXCEPT ![to] = IF scan.accepted THEN "accepted" ELSE "failed"]
                      ELSE channel[i]
    BY <1>1, <1>5
  <2>3. channel[i][to] # "accepted" => i \in scan.ids
    BY <1>4, <1>5, <2>1 DEF InventoryScan!Pending
  <2> QED BY <2>1, <2>2, <2>3
<1>7. channel' \in [DOMAIN events -> [Channels -> {"pending", "failed", "accepted"}]]
  <2>1. DOMAIN channel = DOMAIN events /\ DOMAIN channel' = DOMAIN channel
    BY <1>1, <1>4
  <2>2. channel' = [i \in DOMAIN channel |-> channel'[i]]
    BY <1>1
  <2> QED BY <1>6, <2>1, <2>2
<1>8. DOMAIN channel' = DOMAIN channel
  BY <1>1
<1>9. /\ scan'.phase = "notify" /\ scan'.left = scan.left
      /\ scan'.failed = (scan.failed \/ ~scan.accepted)
  BY <1>1
<1>10. ASSUME ~scan'.failed, NEW c \in Channels \ scan'.left
       PROVE  {i \in DOMAIN channel' : channel'[i][c] \in {"pending", "failed"}} = {}
  <2>1. scan.accepted /\ ~scan.failed
    BY <1>9, <1>10
  <2>2. CASE c = to
    BY <1>6, <1>8, <2>1, <2>2
  <2>3. CASE c # to
    <3>1. {i \in DOMAIN channel : channel[i][c] \in {"pending", "failed"}} = {}
      BY <1>4, <1>5, <1>9, <1>10, <2>1, <2>3 DEF InventoryScan!Pending
    <3> QED BY <1>6, <1>8, <1>10, <2>3, <3>1
  <2> QED BY <2>2, <2>3
<1>11. ChannelsFit'
  <2>1. events' = events /\ completed' = completed /\ attempt' = "running"
    BY <1>1, <1>4 DEF TablesStay
  <2>2. scan'.failed \in BOOLEAN
    BY <1>9
  <2> QED BY <1>3, <1>4, <1>7, <1>9, <1>10, <2>1, <2>2 DEF ChannelsFit, InventoryScan!Pending
<1> QED BY <1>2, <1>9, <1>11 DEF InventoryIInv, QueryKnows, ScanFits, TxKnows, PackageTx, ProductTx

LEMMA FinishFits ==
    ASSUME InventoryIInv, InventoryScan!Finish PROVE InventoryIInv'
<1>1. /\ scan.phase = "notify" /\ scan'.phase = "idle" /\ TablesStay /\ channel' = channel
      /\ \A c \in scan.left : InventoryScan!Pending(c) = {}
      /\ attempt' = IF InventoryScan!Successful THEN "completed" ELSE "failed"
  BY DEF InventoryScan!Finish, InventoryScan!NoScan, InventoryScan!store, TablesStay
<1>2. StoreFits' /\ WorldFits' /\ SinceFits'
  BY <1>1, TablesStayFit DEF InventoryIInv
<1>3. attempt' = "completed" => \A c \in Channels : InventoryScan!Pending(c) = {}
  BY <1>1 DEF InventoryIInv, ChannelsFit, InventoryScan!Successful
<1>4. ChannelsFit'
  BY <1>1, <1>3 DEF InventoryIInv, ChannelsFit, TablesStay, InventoryScan!Pending
<1> QED BY <1>1, <1>2, <1>4 DEF InventoryIInv, QueryKnows, ScanFits, TxKnows, PackageTx, ProductTx

LEMMA InventoryStep ==
    ASSUME InventoryScan!InventoryScanAssumption, InventoryIInv, [InventoryScan!Next]_(InventoryScan!vars)
    PROVE  InventoryIInv'
<1>1. CASE InventoryScan!Publish
  BY <1>1, PublishFits
<1>2. CASE InventoryScan!Upgrade
  BY <1>2, UpgradeFits
<1>3. CASE InventoryScan!Start
  BY <1>3, StartFits
<1>4. CASE InventoryScan!Begin
  BY <1>4, BeginFits
<1>5. CASE \E f \in tx.left : InventoryScan!Retain(f) \/ InventoryScan!Refresh(f)
  BY <1>5, RecordFits
<1>6. CASE InventoryScan!Collide \/ InventoryScan!Crash
  BY <1>6, EndFits
<1>7. CASE InventoryScan!Commit
  BY <1>7, CommitFits
<1>8. CASE \E c \in Channels : InventoryScan!Send(c)
  BY <1>8, SendFits
<1>9. CASE InventoryScan!Mark
  BY <1>9, MarkFits
<1>10. CASE InventoryScan!Finish
  BY <1>10, FinishFits
<1>11. CASE UNCHANGED InventoryScan!vars
  <2>1. RestStays /\ tx' = tx
    BY <1>11 DEF InventoryScan!vars, InventoryScan!store, RestStays
  <2>2. StoreFits' /\ SinceFits' /\ QueryKnows' /\ ChannelsFit'
    BY <2>1, StoreStays, SinceStays, QueryStays, ChannelsStay DEF InventoryIInv
  <2> QED BY <2>1, <2>2 DEF InventoryIInv, WorldFits, ScanFits, TxKnows, PackageTx, ProductTx, Taken,
               RestStays
<1> QED BY <1>1, <1>2, <1>3, <1>4, <1>5, <1>6, <1>7, <1>8, <1>9, <1>10, <1>11 DEF InventoryScan!Next

\* The latest complete run exists once a run is complete.
LEMMA LatestCompleteIs ==
    ASSUME IsSequence(completed), InventoryScan!Complete # {}
    PROVE  InventoryScan!Max(InventoryScan!Complete) \in InventoryScan!Complete
<1>1. PICK n \in Nat : DOMAIN completed = 1..n
  BY HasLength
<1>2. PICK S : S = InventoryScan!Complete
  OBVIOUS
<1>3. S \subseteq 1..n /\ S # {}
  BY <1>1, <1>2 DEF InventoryScan!Complete
<1>4. PICK D : D = {n - i : i \in S}
  OBVIOUS
<1>5. PICK d \in D : \A e \in D : d <= e
  <2>1. ASSUME NEW i \in S PROVE n - i \in Nat
    BY <1>3
  <2>2. D \in SUBSET Nat /\ D # {}
    BY <1>3, <1>4, <2>1
  <2> QED BY <2>2, Least
<1>6. PICK m \in S : d = n - m
  BY <1>4, <1>5
<1>7. ASSUME NEW i \in S PROVE m >= i
  <2>1. n - m <= n - i /\ m \in Int /\ i \in Int
    BY <1>3, <1>4, <1>5, <1>6
  <2> QED BY <2>1
<1>8. InventoryScan!Max(S) \in S
  BY <1>6, <1>7 DEF InventoryScan!Max
<1> QED BY <1>2, <1>8

LEMMA InventoryTypes == InventoryIInv => InventoryScan!TypeOK
<1> SUFFICES ASSUME InventoryIInv PROVE InventoryScan!TypeOK
  OBVIOUS
<1>1. /\ target \in 1..2 /\ changes \in 0..MaxChanges
      /\ attempt \in {"none", "running", "completed", "failed"}
  BY DEF InventoryIInv, StoreFits, ChannelsFit
<1>2. /\ DOMAIN rows \subseteq InventoryScan!Labels /\ DOMAIN ledger \subseteq InventoryScan!Labels
      /\ \A n \in DOMAIN ledger : ledger[n] \in DOMAIN rows
  BY DEF InventoryIInv, StoreFits, TablesFit
<1>3. Len(channel) = Len(events)
  <2>1. PICK n \in Nat : n = Len(events) /\ DOMAIN events = 1..n
    BY HasLength DEF InventoryIInv, StoreFits
  <2>2. channel \in [1..n -> [Channels -> {"pending", "failed", "accepted"}]]
    BY <2>1 DEF InventoryIInv, ChannelsFit
  <2> QED BY <2>1, <2>2
<1> QED BY <1>1, <1>2, <1>3 DEF InventoryScan!TypeOK

LEMMA InventoryInvHolds ==
    ASSUME InventoryScan!InventoryScanAssumption, InventoryIInv PROVE InventoryScan!InventoryInv
<1>1. TablesFit(rows, ledger) /\ NewsOnce(events) /\ NewsOf(rows, events) /\ IsSequence(completed)
  BY DEF InventoryIInv, StoreFits
<1>2. InventoryScan!NewOnce
  BY <1>1 DEF NewsOnce, InventoryScan!NewOnce
<1>3. InventoryScan!RowsAreTold
  BY <1>1 DEF NewsOf, InventoryScan!RowsAreTold
<1>4. InventoryScan!ShownOnce
  <2>1. SUFFICES ASSUME NEW p \in Roots(ledger), NEW q \in Roots(ledger), p \in rows[q].names
                 PROVE  p = q
    BY <1>1, VisibleAre DEF InventoryScan!ShownOnce
  <2>2. q \in DOMAIN rows /\ ledger[p] = p /\ ledger[q] = q
    BY <1>1 DEF Roots, TablesFit
  <2> QED BY <1>1, <2>1, <2>2 DEF TablesFit
<1>5. InventoryScan!ClientsAreTold
  <2>1. SUFFICES ASSUME InventoryScan!Complete # {}
                 PROVE  LET i == InventoryScan!Max(InventoryScan!Complete)
                        IN  Covers(completed[i].snapshot, completed[i].findings)
    BY DEF InventoryScan!ClientsAreTold, InventoryScan!Impact, Covers
  <2>2. InventoryScan!Max(InventoryScan!Complete) \in DOMAIN completed
    BY <1>1, <2>1, LatestCompleteIs DEF InventoryScan!Complete
  <2> QED BY <2>2 DEF InventoryIInv, ChannelsFit
<1>6. InventoryScan!CompletedIsDelivered
  BY DEF InventoryIInv, ChannelsFit, InventoryScan!CompletedIsDelivered
<1>7. InventoryScan!CollisionNeedsUpgrade
  BY NoCollision DEF InventoryIInv, InventoryScan!CollisionNeedsUpgrade, InventoryScan!IsNext
<1> QED BY <1>2, <1>3, <1>4, <1>5, <1>6, <1>7, InventoryTypes DEF InventoryScan!InventoryInv

\* Events are recorded by commits only.
LEMMA StepIsSilent ==
    ASSUME InventoryScan!InventoryScanAssumption, InventoryIInv, [InventoryScan!Next]_(InventoryScan!vars)
    PROVE  [InventoryScan!OutageIsSilent]_(InventoryScan!vars)
<1>1. CASE InventoryScan!Commit
  BY <1>1, CommitIsSilent DEF InventoryIInv
<1>2. ASSUME ~InventoryScan!Commit PROVE events' = events
  BY <1>2 DEF InventoryScan!Next, InventoryScan!Publish, InventoryScan!Upgrade, InventoryScan!Start,
       InventoryScan!Begin, InventoryScan!Retain, InventoryScan!Refresh, InventoryScan!Collide,
       InventoryScan!Send, InventoryScan!Mark, InventoryScan!Finish, InventoryScan!Crash,
       InventoryScan!vars, InventoryScan!store
<1>3. CASE events' = events
  BY <1>3 DEF InventoryScan!OutageIsSilent
<1> QED BY <1>1, <1>2, <1>3

\* Scans of the inventory, for any names, sources, outages, channels and versions: a
\* vulnerability is told as new once and shown once, under its first name; what is shown is
\* what was told last; clients find all of the latest complete run; a completed scan left
\* nothing undelivered; aliases do not collide before an upgrade; and where the sources have
\* published nothing since a complete refresh, an outage is told as a change of the score only.
THEOREM InventoryScanCorrect ==
    InventoryScan!InventoryScanAssumption =>
        (InventoryScan!Spec => []InventoryScan!InventoryInv
                               /\ [][InventoryScan!OutageIsSilent]_(InventoryScan!vars))
<1> SUFFICES ASSUME InventoryScan!InventoryScanAssumption
             PROVE  InventoryScan!Spec => []InventoryScan!InventoryInv
                                          /\ [][InventoryScan!OutageIsSilent]_(InventoryScan!vars)
  OBVIOUS
<1>1. InventoryScan!Init => InventoryIInv
  BY InventoryInitFits
<1>2. InventoryIInv /\ [InventoryScan!Next]_(InventoryScan!vars) => InventoryIInv'
  BY InventoryStep
<1>3. InventoryIInv => InventoryScan!InventoryInv
  BY InventoryInvHolds
<1>4. InventoryIInv /\ [InventoryScan!Next]_(InventoryScan!vars)
          => [InventoryScan!OutageIsSilent]_(InventoryScan!vars)
  BY StepIsSilent
<1> QED BY <1>1, <1>2, <1>3, <1>4, PTL DEF InventoryScan!Spec
-----------------------------------------------------------------------------
(* The sum of the components. *)

\* Every step is one of the component that runs.
LEMMA PartStays ==
    ASSUME [ComponentsNext]_<<part, componentVars>>
    PROVE  /\ part' = part
           /\ part = "transports" => [Transports!Next]_(Transports!vars)
           /\ part = "nvd_scan" => [NvdScan!Next]_(NvdScan!vars)
           /\ part = "feeds" => [Feeds!Next]_(Feeds!vars)
           /\ part = "inventory_scan" => [InventoryScan!Next]_(InventoryScan!vars)
<1>1. CASE UNCHANGED <<part, componentVars>>
  <2>1. UNCHANGED <<Accounts!vars, AccountFile!vars, ReportTrail!vars, Transports!vars,
                    NvdScan!vars, Feeds!vars, InventoryScan!vars>>
    BY <1>1 DEF componentVars, accountVars, Accounts!vars, Accounts!data, Accounts!audit,
         fileVars, AccountFile!vars, trailVars, ReportTrail!vars, ReportTrail!store,
         transportVars, Transports!vars, Transports!provider, Transports!asked,
         nvdVars, NvdScan!vars, feedVars, Feeds!vars, scanVars, InventoryScan!vars,
         InventoryScan!store
  <2> QED BY <1>1, <2>1
<1>2. CASE ComponentsNext
  BY <1>2 DEF ComponentsNext, AccountsNext, AccountFileNext, ReportTrailNext, TransportsNext,
       NvdScanNext, FeedsNext, InventoryScanNext
<1> QED BY <1>1, <1>2

\* What TransportsCorrect says, of the sum.
THEOREM TransportsSafeCorrect == ComponentsSpec => []TransportsSafe
<1> DEFINE Runs == part = "transports"
<1>1. Transports!Spec => []Transports!TransportInv
  BY TransportsCorrect, ComponentAssumptions
<1>2. ComponentsInit /\ Runs => Transports!Init
  BY DEF ComponentsInit
<1>3. [ComponentsNext]_<<part, componentVars>> =>
          (Runs' <=> Runs) /\ (Runs => [Transports!Next]_(Transports!vars))
  BY PartStays
<1>4. (Runs => Transports!TransportInv) <=> TransportsSafe
  BY DEF TransportsSafe
<1> HIDE DEF Runs
<1> QED BY <1>1, <1>2, <1>3, <1>4, PTL DEF ComponentsSpec, Transports!Spec

\* What NvdScanCorrect says, of the sum.
THEOREM NvdScanSafeCorrect == ComponentsSpec => NvdScanSafe
<1> DEFINE Runs == part = "nvd_scan"
<1>1. NvdScan!Spec => []NvdScan!NvdInv /\ [][NvdScan!NvdSteps]_(NvdScan!vars)
  BY NvdScanCorrect, ComponentAssumptions DEF Uninterrupted
<1>2. ComponentsInit /\ Runs => NvdScan!Init
  BY DEF ComponentsInit
<1>3. [ComponentsNext]_<<part, componentVars>> =>
          (Runs' <=> Runs) /\ (Runs => [NvdScan!Next]_(NvdScan!vars))
  BY PartStays
<1>4. [ComponentsNext]_<<part, componentVars>>
          /\ (Runs => [NvdScan!NvdSteps]_(NvdScan!vars)) =>
              [Runs => NvdScan!NvdSteps]_<<part, nvdVars>>
  BY PartStays DEF nvdVars, NvdScan!vars
<1> HIDE DEF Runs
<1>5. ComponentsSpec => [](Runs => NvdScan!NvdInv)
                        /\ [][Runs => NvdScan!NvdSteps]_<<part, nvdVars>>
  BY <1>1, <1>2, <1>3, <1>4, PTL DEF ComponentsSpec, NvdScan!Spec
<1> QED BY <1>5 DEF Runs, NvdScanSafe

\* What FeedsCorrect says, of the sum.
THEOREM FeedsSafeCorrect == ComponentsSpec => FeedsSafe
<1> DEFINE Runs == part = "feeds"
<1>1. Feeds!Spec => []Feeds!FeedsInv /\ [][Feeds!NeverOlder]_(Feeds!vars)
  BY FeedsCorrect, ComponentAssumptions
<1>2. ComponentsInit /\ Runs => Feeds!Init
  BY DEF ComponentsInit
<1>3. [ComponentsNext]_<<part, componentVars>> =>
          (Runs' <=> Runs) /\ (Runs => [Feeds!Next]_(Feeds!vars))
  BY PartStays
<1>4. [ComponentsNext]_<<part, componentVars>>
          /\ (Runs => [Feeds!NeverOlder]_(Feeds!vars)) =>
              [Runs => Feeds!NeverOlder]_<<part, feedVars>>
  BY PartStays DEF feedVars, Feeds!vars
<1> HIDE DEF Runs
<1>5. ComponentsSpec => [](Runs => Feeds!FeedsInv)
                        /\ [][Runs => Feeds!NeverOlder]_<<part, feedVars>>
  BY <1>1, <1>2, <1>3, <1>4, PTL DEF ComponentsSpec, Feeds!Spec
<1> QED BY <1>5 DEF Runs, FeedsSafe

\* What InventoryScanCorrect says, of the sum.
THEOREM InventoryScanSafeCorrect == ComponentsSpec => InventoryScanSafe
<1> DEFINE Runs == part = "inventory_scan"
<1>1. InventoryScan!Spec => []InventoryScan!InventoryInv
                            /\ [][InventoryScan!OutageIsSilent]_(InventoryScan!vars)
  BY InventoryScanCorrect, ComponentAssumptions
<1>2. ComponentsInit /\ Runs => InventoryScan!Init
  BY DEF ComponentsInit
<1>3. [ComponentsNext]_<<part, componentVars>> =>
          (Runs' <=> Runs) /\ (Runs => [InventoryScan!Next]_(InventoryScan!vars))
  BY PartStays
<1>4. [ComponentsNext]_<<part, componentVars>>
          /\ (Runs => [InventoryScan!OutageIsSilent]_(InventoryScan!vars)) =>
              [Runs => InventoryScan!OutageIsSilent]_<<part, scanVars>>
  BY PartStays DEF scanVars, InventoryScan!vars, InventoryScan!store
<1> HIDE DEF Runs
<1>5. ComponentsSpec => [](Runs => InventoryScan!InventoryInv)
                        /\ [][Runs => InventoryScan!OutageIsSilent]_<<part, scanVars>>
  BY <1>1, <1>2, <1>3, <1>4, PTL DEF ComponentsSpec, InventoryScan!Spec
<1> QED BY <1>5 DEF Runs, InventoryScanSafe
=============================================================================
