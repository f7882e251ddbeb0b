--------------------------- MODULE EuvdScanProofs ---------------------------
(***************************************************************************)
(* Proofs about EuvdScan.  The frontier of the scan never goes back, what  *)
(* lies behind it is stored as it is in the source, and every run finds a  *)
(* position it can go on from: for any number of items, updates and days,  *)
(* any page size and wherever the runs fail.                               *)
(***************************************************************************)
EXTENDS EuvdScan, TLAPS, FiniteSetTheorems, SequenceTheorems

Item == [id : Ids, day : Days, at : 1..MaxUpdates]
Run == [mode : {"off", "open", "scan", "verify"}, windows : Seq(Windows), page : Nat,
        total : Nat, verify : Nat, restarts : Nat, saved : Positions]

(* The inductive invariant. *)

Types ==
    /\ today \in Days /\ newestFirst \in BOOLEAN /\ updates \in 0..MaxUpdates
    /\ listing \subseteq Item /\ IsFiniteSet(listing)
    /\ cursor \in Days /\ resume \in Positions /\ next \in Windows \cup {NoWindow}
    /\ ledger \subseteq Ids \X Nat /\ IsFiniteSet(ledger) /\ fresh \subseteq Ids
    /\ run \in Run
    /\ late \in BOOLEAN /\ unseen \in BOOLEAN

\* No two items share an identifier or an update.
OneByOne ==
    /\ \A x \in listing : x.at <= updates
    /\ \A x, y \in listing : x.id = y.id \/ x.at = y.at => x = y

\* The windows of a catch-up that begins on day first follow each other up to day last.
Follows(windows, first, last) ==
    /\ \A k \in 1..Len(windows) : windows[k][2] <= last
    /\ \A k \in 1..(Len(windows) - 1) : windows[k + 1][1] = windows[k][2] + 1
    /\ windows # <<>> => windows[1][1] = first

\* Cursor, saved windows and the windows of the run agree on where to go on.
WindowsMatch ==
    /\ run.mode = "off" => run.windows = <<>>
    /\ run.mode \in {"scan", "verify"} => run.windows # <<>>
    /\ Follows(run.windows, Frontier, today)
    /\ cursor <= today
    /\ resume # NoPosition => resume.window # NoWindow /\ resume.window[2] <= today /\ next = NoWindow
    /\ next # NoWindow => next[2] <= today
    /\ cursor <= Frontier \/ (resume = OldPosition /\ run.mode = "off")

\* A database of an earlier version has missed nothing before its cursor.
OldIsSafe ==
    resume = OldPosition => \A x \in listing : x.day >= cursor

\* The ledger holds the pages before the saved position, or all of them.
SavedMatches ==
    /\ resume = NoPosition => ledger = {}
    /\ resume.phase = "old" => resume = OldPosition
    /\ resume # NoPosition /\ resume.phase = "scan" =>
           /\ Cardinality(ledger) = resume.page * PageSize /\ resume.verify = 0
           /\ IF resume.page = 0 THEN resume.total = 0 ELSE resume.page * PageSize < resume.total
    /\ resume.phase = "verify" =>
           /\ Cardinality(ledger) = resume.total
           /\ resume.page < resume.verify
           /\ (resume.verify - 1) * PageSize < resume.total

\* The saved position is the one the run has.
RunMatches ==
    /\ run.mode # "open" => run.saved = NoPosition
    /\ run.mode = "open" =>
           /\ run.saved = resume
           /\ resume # NoPosition => run.windows # <<>> /\ run.windows[1] = resume.window
    /\ run.mode = "scan" =>
           \/ /\ run.page = 0 /\ run.verify = 0
              /\ resume \in {NoPosition, Position(Window, 0, 0, "scan", 0)}
           \/ /\ run.page > 0 /\ run.verify <= run.page
              /\ resume = Position(Window, run.page, run.total, "scan", 0)
    /\ run.mode = "verify" => resume = Position(Window, run.page, run.total, "verify", run.verify)

\* The pages of the active window that are not read again before it is complete.
ForGood(p) ==
    \/ run.mode = "scan" /\ run.verify <= p /\ p < run.page
    \/ run.mode = "verify" /\ (p < run.page \/ run.verify <= p)
    \/ /\ run.mode \in {"off", "open"} /\ resume.phase = "verify"
       /\ p < resume.page \/ resume.verify <= p

\* What a page of an answer shows, if newest says that the latest item comes first.
Place(items, newest, x) ==
    Cardinality({y \in items : IF newest THEN y.at > x.at ELSE y.at < x.at})

Page(items, newest, p) ==
    {x.id : x \in {y \in items : /\ Place(items, newest, y) >= p * PageSize
                               /\ Place(items, newest, y) < (p + 1) * PageSize}}

\* They are stored as they are in the source, or the change is known to the history.
PagesAreFresh ==
    late \/ \A p \in Nat : ForGood(p) => Page(Found(Active), newestFirst, p) \subseteq fresh

ScanIInv ==
    /\ Types /\ OneByOne /\ WindowsMatch /\ OldIsSafe /\ SavedMatches
    /\ RunMatches /\ PagesAreFresh /\ NothingMissed
-----------------------------------------------------------------------------
(* Arithmetic of pages and windows. *)

\* Later pages begin later.
LEMMA PagesAscend ==
    ASSUME NEW p \in Nat, NEW q \in Nat, p <= q
    PROVE  p * PageSize <= q * PageSize /\ p * PageSize \in Nat
BY ScanAssumption

LEMMA PageStep ==
    ASSUME NEW p \in Nat
    PROVE  (p + 1) * PageSize = p * PageSize + PageSize
BY ScanAssumption

\* Every place is on one page.
LEMMA PageOf ==
    ASSUME NEW r \in Nat
    PROVE  \E p \in Nat : r >= p * PageSize /\ r < (p + 1) * PageSize
<1> DEFINE p == r \div PageSize
<1>1. p \in Nat /\ r >= p * PageSize /\ r < (p + 1) * PageSize
  BY ScanAssumption
<1> QED BY <1>1

\* A page that begins within the total is one of its pages.
LEMMA WithinPages ==
    ASSUME NEW total \in Nat, NEW p \in Nat, p * PageSize < total
    PROVE  p < (total + PageSize - 1) \div PageSize
BY ScanAssumption

\* What euvd_chunks returns follows the day before its first, up to the last.
LEMMA ChunkEnds ==
    ASSUME NEW first \in Nat, NEW last \in Nat, first <= last,
           NEW k \in 1..((last - first) \div ChunkDays + 1)
    PROVE  /\ (k - 1) * ChunkDays \in Nat /\ first + (k - 1) * ChunkDays <= last
           /\ k < (last - first) \div ChunkDays + 1 => first + k * ChunkDays <= last
           /\ k * ChunkDays = (k - 1) * ChunkDays + ChunkDays
BY ScanAssumption
-----------------------------------------------------------------------------
(* Pages. *)

\* The places of the items of an answer are the numbers below its total.
LEMMA Ranks ==
    ASSUME Types, OneByOne, NEW w
    PROVE  /\ IsFiniteSet(Found(w)) /\ Cardinality(Found(w)) \in Nat
           /\ \A x \in Found(w) : Rank(w, x) \in Nat /\ Rank(w, x) < Cardinality(Found(w))
           /\ \A x, y \in Found(w) : Rank(w, x) = Rank(w, y) => x = y
           /\ \A r \in 0..(Cardinality(Found(w)) - 1) : \E x \in Found(w) : Rank(w, x) = r
<1> DEFINE n == Cardinality(Found(w))
           below(x) == {y \in Found(w) : Before(y, x)}
<1>1. IsFiniteSet(Found(w)) /\ n \in Nat /\ Found(w) \subseteq listing
  <2>1. Found(w) \subseteq listing
    BY DEF Found
  <2> QED BY <2>1, FS_Subset, FS_CardinalityType DEF Types
<1>2. \A x, y \in Found(w) : x.at \in Int /\ (x.at = y.at => x = y)
  BY <1>1 DEF Types, Item, OneByOne
<1>3. \A x \in Found(w) : Rank(w, x) \in Nat /\ Rank(w, x) < n
  <2> SUFFICES ASSUME NEW x \in Found(w) PROVE Rank(w, x) \in Nat /\ Rank(w, x) < n
    OBVIOUS
  <2>1. below(x) \subseteq Found(w) /\ x \notin below(x)
    BY <1>2 DEF Before
  <2>2. /\ IsFiniteSet(below(x)) /\ Cardinality(below(x)) \in Nat
        /\ Cardinality(below(x)) <= n /\ Cardinality(below(x)) # n
    BY <1>1, <2>1, FS_Subset, FS_CardinalityType
  <2> QED BY <1>1, <2>2 DEF Rank
<1>4. \A x, y \in Found(w) : Before(x, y) => Rank(w, x) < Rank(w, y)
  <2> SUFFICES ASSUME NEW x \in Found(w), NEW y \in Found(w), Before(x, y)
               PROVE  Rank(w, x) < Rank(w, y)
    OBVIOUS
  <2>1. below(x) \subseteq below(y)
    BY <1>2 DEF Before
  <2>2. x \in below(y) /\ x \notin below(x)
    BY <1>2 DEF Before
  <2>3. IsFiniteSet(below(y)) /\ IsFiniteSet(below(x))
    BY <1>1, FS_Subset
  <2>4. /\ Cardinality(below(x)) \in Nat /\ Cardinality(below(y)) \in Nat
        /\ Cardinality(below(x)) <= Cardinality(below(y))
        /\ Cardinality(below(x)) # Cardinality(below(y))
    BY <2>1, <2>2, <2>3, FS_Subset, FS_CardinalityType
  <2> QED BY <2>4 DEF Rank
<1>5. \A x, y \in Found(w) : Rank(w, x) = Rank(w, y) => x = y
  <2> SUFFICES ASSUME NEW x \in Found(w), NEW y \in Found(w), x # y
               PROVE  Rank(w, x) # Rank(w, y)
    OBVIOUS
  <2>1. Before(x, y) \/ Before(y, x)
    BY <1>2 DEF Before
  <2>2. Rank(w, x) < Rank(w, y) \/ Rank(w, y) < Rank(w, x)
    BY <1>4, <2>1
  <2> QED BY <1>3, <2>2
<1>6. \A r \in 0..(n - 1) : \E x \in Found(w) : Rank(w, x) = r
  <2> DEFINE place == [x \in Found(w) |-> Rank(w, x)]
  <2>1. place \in [Found(w) -> 0..(n - 1)]
    BY <1>1, <1>3
  <2>2. place \in Injection(Found(w), 0..(n - 1))
    BY <1>5, <2>1 DEF Injection, IsInjective
  <2>3. IsFiniteSet(0..(n - 1)) /\ Cardinality(0..(n - 1)) = n
    BY <1>1, FS_Interval, SMTT(30)
  <2> HIDE DEF n
  <2>4. place \in Surjection(Found(w), 0..(n - 1))
    BY <1>1, <2>2, <2>3, FS_Injection DEF n
  <2> QED BY <2>4 DEF Surjection
<1> QED BY <1>1, <1>3, <1>5, <1>6

\* The items on a page.
OnPage(w, p) ==
    {x \in Found(w) : Rank(w, x) >= p * PageSize /\ Rank(w, x) < (p + 1) * PageSize}

LEMMA PageFacts ==
    ASSUME Types, OneByOne, NEW w, NEW p \in Nat
    PROVE  /\ PageIds(w, p) = {x.id : x \in OnPage(w, p)}
           /\ PageIds(w, p) \subseteq Ids /\ IsFiniteSet(PageIds(w, p))
           /\ IsFiniteSet(OnPage(w, p)) /\ Cardinality(PageIds(w, p)) = Cardinality(OnPage(w, p))
           /\ Cardinality(Found(w)) <= p * PageSize => PageIds(w, p) = {}
<1> DEFINE R == OnPage(w, p)
           ids == {x.id : x \in R}
           name == [x \in R |-> x.id]
<1>1. PageIds(w, p) = ids
  BY DEF PageIds, OnPage
<1>2. R \subseteq listing /\ R \subseteq Found(w) /\ IsFiniteSet(Found(w))
  BY Ranks DEF OnPage, Found
<1>3. IsFiniteSet(R)
  BY <1>2, FS_Subset
<1>4. ids \subseteq Ids
  BY <1>2 DEF Types, Item
<1>5. name \in [R -> ids] /\ \A x, y \in R : name[x] = name[y] => x = y
  BY <1>2 DEF OneByOne
<1>6. name \in Surjection(R, ids) /\ name \in Injection(R, ids)
  BY <1>5 DEF Surjection, Injection, IsInjective
<1>7. Cardinality(Found(w)) <= p * PageSize => R = {}
  <2> SUFFICES ASSUME Cardinality(Found(w)) <= p * PageSize, NEW x \in R PROVE FALSE
    OBVIOUS
  <2>1. /\ Rank(w, x) < Cardinality(Found(w)) /\ Rank(w, x) >= p * PageSize
        /\ Rank(w, x) \in Nat /\ Cardinality(Found(w)) \in Nat /\ p * PageSize \in Nat
    BY Ranks, PagesAscend DEF OnPage
  <2> QED BY <2>1
<1> HIDE DEF R, name
<1>8. IsFiniteSet(ids) /\ Cardinality(ids) = Cardinality(R)
  BY <1>3, <1>6, FS_Surjection
<1> QED BY <1>1, <1>3, <1>4, <1>7, <1>8 DEF R

\* A page that is not the last one is full.
LEMMA FullPage ==
    ASSUME Types, OneByOne, NEW w, NEW p \in Nat, (p + 1) * PageSize <= Cardinality(Found(w))
    PROVE  Cardinality(PageIds(w, p)) = PageSize
<1> DEFINE a == p * PageSize
           b == (p + 1) * PageSize - 1
           R == OnPage(w, p)
           place == [x \in R |-> Rank(w, x)]
<1>1. /\ a \in Nat /\ (p + 1) * PageSize = a + PageSize /\ PageSize \in Nat \ {0}
      /\ b \in Nat /\ b < Cardinality(Found(w)) /\ b = a + PageSize - 1 /\ a <= b
      /\ Cardinality(Found(w)) \in Nat
  <2>1. a \in Nat /\ (p + 1) * PageSize = a + PageSize /\ Cardinality(Found(w)) \in Nat
    BY PagesAscend, PageStep, Ranks
  <2> HIDE DEF a
  <2> QED BY <2>1, ScanAssumption
<1>2. \A x \in R : x \in Found(w) /\ Rank(w, x) \in a..b
  <2> SUFFICES ASSUME NEW x \in R PROVE x \in Found(w) /\ Rank(w, x) \in a..b
    OBVIOUS
  <2>1. /\ x \in Found(w) /\ Rank(w, x) >= a /\ Rank(w, x) < (p + 1) * PageSize
        /\ Rank(w, x) \in Nat
    BY Ranks DEF OnPage
  <2> HIDE DEF a, R
  <2> QED BY <1>1, <2>1
<1>3. \A r \in a..b : \E x \in R : Rank(w, x) = r
  <2> SUFFICES ASSUME NEW r \in a..b PROVE \E x \in R : Rank(w, x) = r
    OBVIOUS
  <2>1. r \in 0..(Cardinality(Found(w)) - 1)
    <3> HIDE DEF a, b
    <3> QED BY <1>1
  <2>2. PICK x \in Found(w) : Rank(w, x) = r
    BY <2>1, Ranks
  <2>3. r >= a /\ r < (p + 1) * PageSize
    <3> HIDE DEF a
    <3> QED BY <1>1
  <2> QED BY <2>2, <2>3 DEF OnPage
<1>4. IsFiniteSet(a..b) /\ Cardinality(a..b) = PageSize
  <2> HIDE DEF a, b
  <2>0. a \in Int /\ b \in Int /\ ~(a > b)
    BY <1>1
  <2>1. IsFiniteSet(a..b) /\ Cardinality(a..b) = b - a + 1
    BY <2>0, FS_Interval
  <2> QED BY <1>1, <2>1
<1>5. IsFiniteSet(R)
  BY PageFacts
<1> HIDE DEF a, b, R
<1>6. place \in [R -> a..b] /\ \A x, y \in R : place[x] = place[y] => x = y
  BY <1>2, Ranks
<1>7. place \in Surjection(R, a..b) /\ place \in Injection(R, a..b)
  BY <1>3, <1>6 DEF Surjection, Injection, IsInjective
<1> HIDE DEF place
<1>8. Cardinality(R) = PageSize
  BY <1>4, <1>5, <1>7, FS_Surjection
<1> QED BY <1>8, PageFacts DEF R

\* Every item of an answer is on a page.
LEMMA EveryItemIsOnAPage ==
    ASSUME Types, OneByOne, NEW w, NEW x \in Found(w)
    PROVE  \E p \in Nat : x.id \in PageIds(w, p)
<1>1. Rank(w, x) \in Nat
  BY Ranks
<1>2. PICK p \in Nat : Rank(w, x) >= p * PageSize /\ Rank(w, x) < (p + 1) * PageSize
  BY <1>1, PageOf
<1> QED BY <1>2 DEF PageIds

\* The answer and its order determine the pages.
LEMMA PageOfAnswer == \A w, p : PageIds(w, p) = Page(Found(w), newestFirst, p)
BY DEF PageIds, Rank, Before, Page, Place
-----------------------------------------------------------------------------
(* Windows. *)

\* The windows of euvd_chunks follow each other from first up to today.
LEMMA ChunkWindows ==
    ASSUME Types, NEW first \in Nat \ {0}
    PROVE  Chunks(first, today) \in Seq(Windows) /\ Follows(Chunks(first, today), first, today)
<1>0. today \in Days /\ today \in Nat
  BY DEF Types, Days
<1>1. CASE today < first
  <2>1. Chunks(first, today) = <<>>
    BY <1>1 DEF Chunks
  <2> QED BY <2>1 DEF Follows
<1>2. CASE first <= today
  <2> DEFINE n == (today - first) \div ChunkDays + 1
             c == Chunks(first, today)
             chunk(k) == <<first + (k - 1) * ChunkDays, Lower(first + k * ChunkDays - 1, today)>>
  <2>1. n \in Nat \ {0}
    BY <1>0, <1>2, ScanAssumption
  <2>2. c = [k \in 1..n |-> chunk(k)]
    BY <1>0, <1>2 DEF Chunks
  <2> HIDE DEF c
  <2>3. \A k \in 1..n :
            /\ chunk(k) \in Windows /\ chunk(k)[2] <= today
            /\ k < n => chunk(k + 1)[1] = chunk(k)[2] + 1
    <3> SUFFICES ASSUME NEW k \in 1..n
                 PROVE  /\ chunk(k) \in Windows /\ chunk(k)[2] <= today
                        /\ k < n => chunk(k + 1)[1] = chunk(k)[2] + 1
      OBVIOUS
    <3> DEFINE a == (k - 1) * ChunkDays
               b == k * ChunkDays
    <3>1. /\ a \in Nat /\ first + a <= today /\ b = a + ChunkDays
          /\ k < n => first + b <= today
      BY <1>0, <1>2, ChunkEnds
    <3>2. chunk(k) = <<first + a, Lower(first + b - 1, today)>> /\ chunk(k + 1)[1] = first + b
      <4>1. (k + 1) - 1 = k
        BY <2>1
      <4> QED BY <4>1
    <3> HIDE DEF a, b, chunk, n
    <3>3. /\ Lower(first + b - 1, today) <= today /\ first + a <= Lower(first + b - 1, today)
          /\ Lower(first + b - 1, today) \in Nat
          /\ k < n => Lower(first + b - 1, today) = first + b - 1
      BY <1>0, <3>1, ScanAssumption DEF Lower
    <3>4. first + a \in Days /\ Lower(first + b - 1, today) \in Days
      BY <1>0, <3>1, <3>3, ScanAssumption DEF Days
    <3> QED BY <1>0, <3>1, <3>2, <3>3, <3>4 DEF Windows
  <2>4. chunk(1)[1] = first
    BY ScanAssumption
  <2> HIDE DEF chunk, n
  <2>5. c \in Seq(Windows) /\ Len(c) = n /\ \A k \in 1..n : c[k] = chunk(k)
    BY <2>1, <2>2, <2>3
  <2>6. c # <<>> /\ c[1][1] = first
    BY <2>1, <2>4, <2>5
  <2>7. \A k \in 1..(n - 1) : c[k + 1][1] = c[k][2] + 1
    <3> SUFFICES ASSUME NEW k \in 1..(n - 1) PROVE c[k + 1][1] = c[k][2] + 1
      OBVIOUS
    <3>1. k \in 1..n /\ k + 1 \in 1..n /\ k < n
      BY <2>1
    <3> QED BY <2>3, <2>5, <3>1
  <2> QED BY <2>3, <2>5, <2>6, <2>7 DEF Follows, c
<1> QED BY <1>0, <1>1, <1>2

\* A window before the ones that follow it.
LEMMA WindowBefore ==
    ASSUME NEW w \in Windows, w[2] <= today, NEW s \in Seq(Windows), Follows(s, w[2] + 1, today)
    PROVE  /\ <<w>> \o s \in Seq(Windows) /\ <<w>> \o s # <<>> /\ (<<w>> \o s)[1] = w
           /\ Follows(<<w>> \o s, w[1], today)
<1> DEFINE t == <<w>> \o s
<1>1. /\ t \in Seq(Windows) /\ Len(t) = Len(s) + 1 /\ Len(s) \in Nat
      /\ \A i \in 1..(Len(s) + 1) : t[i] = IF i <= 1 THEN w ELSE s[i - 1]
  <2>1. <<w>> \in Seq(Windows) /\ Len(<<w>>) = 1 /\ <<w>>[1] = w
    OBVIOUS
  <2>2. /\ <<w>> \o s \in Seq(Windows)
        /\ Len(<<w>> \o s) = Len(<<w>>) + Len(s)
        /\ \A i \in 1..(Len(<<w>>) + Len(s)) :
               (<<w>> \o s)[i] = IF i <= Len(<<w>>) THEN <<w>>[i] ELSE s[i - Len(<<w>>)]
    BY <2>1, ConcatProperties
  <2>3. Len(s) \in Nat
    OBVIOUS
  <2> QED BY <2>1, <2>2, <2>3
<1> HIDE DEF t
<1>2. t # <<>> /\ t[1] = w
  BY <1>1
<1>3. \A k \in 1..Len(t) : t[k][2] <= today
  <2> SUFFICES ASSUME NEW k \in 1..Len(t) PROVE t[k][2] <= today
    OBVIOUS
  <2>1. CASE k = 1
    BY <1>2, <2>1
  <2>2. CASE k # 1
    <3>1. k - 1 \in 1..Len(s) /\ t[k] = s[k - 1]
      BY <1>1, <2>2
    <3> QED BY <3>1 DEF Follows
  <2> QED BY <2>1, <2>2
<1>4. \A k \in 1..(Len(t) - 1) : t[k + 1][1] = t[k][2] + 1
  <2> SUFFICES ASSUME NEW k \in 1..(Len(t) - 1) PROVE t[k + 1][1] = t[k][2] + 1
    OBVIOUS
  <2>1. CASE k = 1
    <3>1. t[2] = s[1] /\ s # <<>>
      BY <1>1, <2>1
    <3> QED BY <1>2, <2>1, <3>1 DEF Follows
  <2>2. CASE k # 1
    <3>1. k - 1 \in 1..(Len(s) - 1) /\ t[k] = s[k - 1] /\ t[k + 1] = s[(k - 1) + 1]
      BY <1>1, <2>2
    <3> QED BY <3>1 DEF Follows
  <2> QED BY <2>1, <2>2
<1> QED BY <1>1, <1>2, <1>3, <1>4 DEF Follows, t

\* What follows the first window.
LEMMA WindowsAfter ==
    ASSUME NEW s \in Seq(Windows), s # <<>>, NEW first, Follows(s, first, today)
    PROVE  /\ Head(s) = s[1] /\ s[1] \in Windows /\ s[1][1] = first /\ s[1][2] <= today
           /\ Tail(s) \in Seq(Windows) /\ Follows(Tail(s), s[1][2] + 1, today)
           /\ Len(s) > 1 => s[2] \in Windows /\ Tail(s) # <<>> /\ Tail(s)[1] = s[2]
                            /\ s[2][1] = s[1][2] + 1 /\ s[2][2] <= today
           /\ ~(Len(s) > 1) => Tail(s) = <<>>
<1> DEFINE t == Tail(s)
<1>1. /\ t \in Seq(Windows) /\ Len(t) = Len(s) - 1 /\ Len(s) \in Nat \ {0} /\ Len(t) \in Nat
      /\ \A i \in 1..Len(t) : t[i] = s[i + 1]
  BY HeadTailProperties, EmptySeq
<1>2. Head(s) = s[1] /\ s[1] \in Windows /\ s[1][1] = first /\ s[1][2] <= today
  BY <1>1 DEF Follows
<1> HIDE DEF t
<1>3. \A k \in 1..Len(t) : t[k][2] <= today
  <2> SUFFICES ASSUME NEW k \in 1..Len(t) PROVE t[k][2] <= today
    OBVIOUS
  <2>1. k + 1 \in 1..Len(s) /\ t[k] = s[k + 1]
    BY <1>1
  <2> QED BY <2>1 DEF Follows
<1>4. \A k \in 1..(Len(t) - 1) : t[k + 1][1] = t[k][2] + 1
  <2> SUFFICES ASSUME NEW k \in 1..(Len(t) - 1) PROVE t[k + 1][1] = t[k][2] + 1
    OBVIOUS
  <2>1. k + 1 \in 1..(Len(s) - 1) /\ t[k] = s[k + 1] /\ t[k + 1] = s[(k + 1) + 1]
    BY <1>1
  <2> QED BY <2>1 DEF Follows
<1>5. t # <<>> => t[1][1] = s[1][2] + 1 /\ Len(s) > 1 /\ t[1] = s[2]
  <2> SUFFICES ASSUME t # <<>> PROVE t[1][1] = s[1][2] + 1 /\ Len(s) > 1 /\ t[1] = s[2]
    OBVIOUS
  <2>1. Len(t) \in Nat \ {0}
    BY <1>1, EmptySeq
  <2>2. Len(s) > 1 /\ t[1] = s[2] /\ 1 \in 1..(Len(s) - 1)
    BY <1>1, <2>1
  <2> QED BY <2>2 DEF Follows
<1>6. Len(s) > 1 => t # <<>> /\ s[2] \in Windows /\ s[2][2] <= today
  <2> SUFFICES ASSUME Len(s) > 1 PROVE t # <<>> /\ s[2] \in Windows /\ s[2][2] <= today
    OBVIOUS
  <2>1. 2 \in 1..Len(s) /\ Len(t) > 0
    BY <1>1
  <2> QED BY <2>1 DEF Follows
<1>7. Follows(t, s[1][2] + 1, today)
  BY <1>3, <1>4, <1>5 DEF Follows
<1> QED BY <1>1, <1>2, <1>5, <1>6, <1>7 DEF t
-----------------------------------------------------------------------------
(* What the steps have in common. *)

LEMMA WindowFacts ==
    \A w \in Windows : /\ w = <<w[1], w[2]>> /\ w[1] \in Nat \ {0} /\ w[2] \in Nat
                       /\ w[1] \in Days /\ w[2] \in Days /\ w[1] <= w[2] /\ w # NoWindow
BY ScanAssumption DEF Windows, Days, NoWindow

LEMMA PositionFacts ==
    /\ NoPosition \in Positions /\ NoPosition.window = NoWindow /\ NoPosition.phase = "scan"
    /\ NoPosition.page = 0 /\ NoPosition.total = 0
    /\ OldPosition \in Positions /\ OldPosition.window = <<1, 1>> /\ OldPosition.phase = "old"
    /\ OldPosition # NoPosition /\ <<1, 1>> \in Windows
    /\ \A w \in Windows, page, total, verify \in Nat, phase \in {"scan", "verify"} :
           LET q == Position(w, page, total, phase, verify)
           IN  /\ q \in Positions /\ q # NoPosition /\ q # OldPosition
               /\ q.window = w /\ q.page = page /\ q.total = total /\ q.phase = phase
               /\ q.verify = verify
<1>1. <<1, 1>> \in Windows
  BY ScanAssumption DEF Windows, Days
<1>2. /\ NoPosition \in Positions /\ NoPosition.window = NoWindow /\ NoPosition.phase = "scan"
      /\ NoPosition.page = 0 /\ NoPosition.total = 0
  BY DEF NoPosition, Position, Positions
<1>3. OldPosition \in Positions /\ OldPosition.window = <<1, 1>> /\ OldPosition.phase = "old"
  BY <1>1 DEF OldPosition, Position, Positions
<1>4. OldPosition # NoPosition
  BY <1>2, <1>3
<1>5. ASSUME NEW w \in Windows, NEW page \in Nat, NEW total \in Nat, NEW verify \in Nat,
             NEW phase \in {"scan", "verify"}
      PROVE  LET q == Position(w, page, total, phase, verify)
             IN  /\ q \in Positions /\ q # NoPosition /\ q # OldPosition
                 /\ q.window = w /\ q.page = page /\ q.total = total /\ q.phase = phase
                 /\ q.verify = verify
  <2> DEFINE q == Position(w, page, total, phase, verify)
  <2>1. q \in Positions /\ q.window = w /\ q.page = page /\ q.total = total /\ q.phase = phase
        /\ q.verify = verify
    BY DEF Position, Positions
  <2>2. q # NoPosition /\ q # OldPosition
    BY <1>2, <1>3, <2>1, WindowFacts
  <2> QED BY <2>1, <2>2
<1> QED BY <1>1, <1>2, <1>3, <1>4, <1>5

LEMMA IdleFacts ==
    /\ Idle \in Run /\ Idle.mode = "off" /\ Idle.windows = <<>> /\ Idle.saved = NoPosition
    /\ Idle.page = 0 /\ Idle.total = 0 /\ Idle.verify = 0
BY PositionFacts DEF Idle, Run

\* Nothing behind today is promised.
LEMMA FrontierIsPast ==
    ASSUME Types, WindowsMatch
    PROVE  Frontier \in Nat \ {0} /\ Frontier <= today /\ today \in Nat
<1>1. today \in Nat /\ cursor \in Nat \ {0} /\ cursor <= today
  BY ScanAssumption DEF Types, Days, WindowsMatch
<1>2. CASE resume # NoPosition
  <2>1. resume.window \in Windows /\ resume.window[2] <= today
    BY <1>2 DEF Types, WindowsMatch, Positions
  <2> QED BY <1>1, <1>2, <2>1, WindowFacts DEF Frontier
<1>3. CASE resume = NoPosition /\ next # NoWindow
  <2>1. next \in Windows /\ next[2] <= today
    BY <1>3 DEF Types, WindowsMatch
  <2> QED BY <1>1, <1>3, <2>1, WindowFacts DEF Frontier
<1>4. CASE resume = NoPosition /\ next = NoWindow
  BY <1>1, <1>4 DEF Frontier
<1> QED BY <1>2, <1>3, <1>4

\* Stored positions and the run stay, days may pass.
LEMMA RunFrame ==
    ASSUME ScanIInv, UNCHANGED <<cursor, resume, next, ledger, run>>, today' \in Nat, today <= today'
    PROVE  WindowsMatch' /\ SavedMatches' /\ RunMatches'
<1>0. Types /\ WindowsMatch /\ SavedMatches /\ RunMatches /\ today \in Nat
  BY ScanAssumption DEF ScanIInv, Types, Days
<1>1. Frontier' = Frontier
  BY DEF Frontier
<1>2. Follows(run.windows, Frontier, today')
  <2>1. \A k \in 1..Len(run.windows) : run.windows[k][2] <= today'
    <3> SUFFICES ASSUME NEW k \in 1..Len(run.windows) PROVE run.windows[k][2] <= today'
      OBVIOUS
    <3>1. run.windows[k] \in Windows /\ run.windows[k][2] <= today
      BY <1>0 DEF WindowsMatch, Follows, Types, Run
    <3> QED BY <1>0, <3>1, WindowFacts
  <2> QED BY <1>0, <2>1 DEF WindowsMatch, Follows
<1>3. resume # NoPosition => resume.window[2] <= today'
  <2> SUFFICES ASSUME resume # NoPosition PROVE resume.window[2] <= today'
    OBVIOUS
  <2>1. resume.window \in Windows /\ resume.window[2] <= today
    BY <1>0 DEF Types, WindowsMatch, Positions
  <2> QED BY <1>0, <2>1, WindowFacts
<1>4. next # NoWindow => next[2] <= today'
  <2> SUFFICES ASSUME next # NoWindow PROVE next[2] <= today'
    OBVIOUS
  <2>1. next \in Windows /\ next[2] <= today
    BY <1>0 DEF Types, WindowsMatch
  <2> QED BY <1>0, <2>1, WindowFacts
<1>5. cursor <= today'
  BY <1>0, ScanAssumption DEF WindowsMatch, Types, Days
<1>6. WindowsMatch'
  BY <1>0, <1>1, <1>2, <1>3, <1>4, <1>5 DEF WindowsMatch
<1>7. SavedMatches'
  BY <1>0 DEF SavedMatches
<1>8. RunMatches'
  BY <1>0 DEF RunMatches, Window
<1> QED BY <1>6, <1>7, <1>8

\* The pages of the active window when the source rests.
LEMMA PagesKept ==
    ASSUME PagesAreFresh, UNCHANGED <<listing, newestFirst>>, fresh \subseteq fresh',
           late => late', Active' = Active,
           \A p \in Nat : ForGood(p)' => \/ ForGood(p)
                                         \/ Page(Found(Active), newestFirst, p) \subseteq fresh'
    PROVE  PagesAreFresh'
<1> SUFFICES ASSUME ~late', NEW p \in Nat, ForGood(p)'
             PROVE  Page(Found(Active), newestFirst, p)' \subseteq fresh'
  BY DEF PagesAreFresh
<1>1. Found(Active)' = Found(Active)
  BY DEF Found
<1>2. Page(Found(Active), newestFirst, p) \subseteq fresh'
  BY DEF PagesAreFresh
<1> QED BY <1>1, <1>2

\* Nothing was read for good.
LEMMA NothingRead ==
    ASSUME \A p \in Nat : ~ForGood(p)'
    PROVE  PagesAreFresh'
BY DEF PagesAreFresh

\* The window the run is in.
LEMMA WindowOfRun ==
    ASSUME Types, WindowsMatch, run.windows # <<>>
    PROVE  /\ run.windows \in Seq(Windows) /\ Window = run.windows[1]
           /\ Window \in Windows /\ Window[1] = Frontier /\ Window[2] <= today
BY WindowsAfter DEF Types, Run, WindowsMatch, Window

\* The run goes on in its window and keeps a position in it.
LEMMA SameWindow ==
    ASSUME Types, WindowsMatch, run.windows # <<>>, run.mode # "off",
           UNCHANGED <<today, cursor>>, run'.windows = run.windows,
           run'.mode # "off", next' = NoWindow,
           resume' # NoPosition, resume'.window = Window
    PROVE  WindowsMatch' /\ Frontier' = Frontier /\ Window' = Window
<1>1. Frontier' = Window[1] /\ Window' = Window
  BY DEF Frontier, Window
<1>2. Frontier' = Frontier
  BY <1>1, WindowOfRun
<1>3. Window # NoWindow /\ Window[2] <= today
  BY WindowOfRun, WindowFacts
<1> QED BY <1>1, <1>2, <1>3 DEF WindowsMatch

\* What has been read stays read.
LEMMA ReadStays ==
    ASSUME OneByOne, NothingMissed, UNCHANGED source, Frontier' = Frontier,
           fresh \subseteq fresh', UNCHANGED unseen, OldIsSafe, UNCHANGED cursor,
           resume' = OldPosition => resume = OldPosition
    PROVE  OneByOne' /\ NothingMissed' /\ OldIsSafe'
BY DEF OneByOne, NothingMissed, OldIsSafe, source
-----------------------------------------------------------------------------
(* The initial states and the source. *)

LEMMA InitHolds == Init => ScanIInv
<1> SUFFICES ASSUME Init PROVE ScanIInv
  OBVIOUS
<1>1. today \in Days /\ today \in Nat /\ 1 <= today /\ cursor = today
  BY ScanAssumption DEF Init, Days
<1>2. Types
  <2>1. resume \in Positions /\ run \in Run
    BY PositionFacts, IdleFacts DEF Init
  <2>2. updates \in 0..MaxUpdates
    BY ScanAssumption DEF Init
  <2> QED BY <1>1, <2>1, <2>2, FS_EmptySet DEF Init, Types
<1>3. resume = NoPosition => Frontier = cursor
  BY DEF Init, Frontier
<1>4. resume = OldPosition => Frontier = 1 /\ resume.window # NoWindow /\ resume.window[2] = 1
  BY PositionFacts, WindowFacts DEF Frontier
<1>5. WindowsMatch
  <2>1. Follows(run.windows, Frontier, today)
    BY IdleFacts DEF Init, Follows
  <2>2. cursor <= today /\ (cursor <= Frontier \/ (resume = OldPosition /\ run.mode = "off"))
    BY <1>1, <1>3, IdleFacts DEF Init
  <2> QED BY <1>1, <1>4, <2>1, <2>2, IdleFacts DEF Init, WindowsMatch
<1>6. OneByOne /\ OldIsSafe /\ NothingMissed
  BY DEF Init, OneByOne, OldIsSafe, NothingMissed
<1>7. SavedMatches
  <2>1. CASE resume = NoPosition
    <3>1. resume.phase = "scan"
      BY <2>1, PositionFacts
    <3> QED BY <2>1, <3>1 DEF SavedMatches, Init
  <2>2. CASE resume = OldPosition
    <3>1. resume.phase = "old"
      BY <2>2, PositionFacts
    <3> QED BY <2>2, <3>1 DEF SavedMatches, Init
  <2> QED BY <2>1, <2>2 DEF Init
<1>8. RunMatches
  BY IdleFacts DEF Init, RunMatches
<1>9. PagesAreFresh
  <2>1. resume.phase # "verify" /\ run.mode = "off"
    BY PositionFacts, IdleFacts DEF Init
  <2> QED BY <2>1 DEF PagesAreFresh, ForGood
<1> QED BY <1>2, <1>5, <1>6, <1>7, <1>8, <1>9 DEF ScanIInv

LEMMA UpdateKeeps ==
    ASSUME ScanIInv, NEW i \in Ids, Update(i)
    PROVE  ScanIInv'
<1> DEFINE new == [id |-> i, day |-> today, at |-> updates + 1]
<1>0. Types /\ OneByOne /\ WindowsMatch /\ OldIsSafe /\ PagesAreFresh /\ NothingMissed
  BY DEF ScanIInv
<1>1. /\ updates < MaxUpdates /\ updates' = updates + 1
      /\ listing' = {x \in listing : x.id # i} \cup {new}
      /\ fresh' = fresh \ {i}
      /\ late' = (late \/ (ReadForGood /\ Concerns(i, Active)))
      /\ UNCHANGED <<today, newestFirst, cursor, resume, next, ledger, run, unseen>>
  BY DEF Update, meta
<1>2. today \in Days /\ today \in Nat /\ updates \in Nat /\ MaxUpdates \in Nat
  BY <1>0, ScanAssumption DEF Types, Days
<1>3. new \in Item /\ new.id = i /\ new.day = today /\ new.at = updates + 1
  BY <1>1, <1>2 DEF Item
<1> HIDE DEF new
<1>4. \A x \in listing' : x = new \/ (x \in listing /\ x.id # i)
  BY <1>1
<1>5. IsFiniteSet(listing')
  <2>1. IsFiniteSet({x \in listing : x.id # i})
    BY <1>0, FS_Subset DEF Types
  <2> QED BY <1>1, <2>1, FS_AddElement
<1>6. Types'
  <2>1. listing' \subseteq Item
    BY <1>0, <1>3, <1>4 DEF Types
  <2>2. updates' \in 0..MaxUpdates
    BY <1>1, <1>2
  <2>3. late' \in BOOLEAN
    BY <1>0, <1>1 DEF Types
  <2>4. fresh' \subseteq Ids
    BY <1>0, <1>1 DEF Types
  <2> QED BY <1>0, <1>1, <1>5, <2>1, <2>2, <2>3, <2>4 DEF Types
<1>7. OneByOne'
  <2>1. \A x \in listing : x.at \in Int /\ x.at <= updates
    BY <1>0 DEF Types, Item, OneByOne
  <2>2. \A x \in listing' : x.at <= updates'
    BY <1>1, <1>2, <1>3, <1>4, <2>1
  <2>3. ASSUME NEW x \in listing', NEW y \in listing', x.id = y.id \/ x.at = y.at
        PROVE  x = y
    <3>1. CASE x = new /\ y = new
      BY <3>1
    <3>2. CASE x = new /\ y # new
      BY <1>2, <1>3, <1>4, <2>1, <2>3, <3>2
    <3>3. CASE x # new /\ y = new
      BY <1>2, <1>3, <1>4, <2>1, <2>3, <3>3
    <3>4. CASE x # new /\ y # new
      BY <1>0, <1>4, <2>3, <3>4 DEF OneByOne
    <3> QED BY <3>1, <3>2, <3>3, <3>4
  <2> QED BY <2>2, <2>3 DEF OneByOne
<1>8. WindowsMatch' /\ SavedMatches' /\ RunMatches'
  BY <1>1, <1>2, RunFrame
<1>9. Frontier' = Frontier
  BY <1>1 DEF Frontier
<1>10. OldIsSafe'
  <2> SUFFICES ASSUME resume = OldPosition, NEW x \in listing' PROVE x.day >= cursor
    BY <1>1 DEF OldIsSafe
  <2>1. cursor <= today /\ cursor \in Nat
    BY <1>0, ScanAssumption DEF WindowsMatch, Types, Days
  <2>2. CASE x = new
    BY <1>2, <1>3, <2>1, <2>2
  <2>3. CASE x \in listing
    BY <1>0, <2>3 DEF OldIsSafe
  <2> QED BY <1>4, <2>2, <2>3
<1>11. NothingMissed'
  <2> SUFFICES ASSUME ~unseen, NEW x \in listing', x.day < Frontier PROVE x.id \in fresh'
    BY <1>1, <1>9 DEF NothingMissed
  <2>1. x # new
    BY <1>0, <1>3, FrontierIsPast
  <2> QED BY <1>0, <1>1, <1>4, <2>1 DEF NothingMissed
<1>12. PagesAreFresh'
  <2> SUFFICES ASSUME ~late', NEW p \in Nat, ForGood(p)'
               PROVE  Page(Found(Active), newestFirst, p)' \subseteq fresh'
    BY DEF PagesAreFresh
  <2>1. ForGood(p)
    BY <1>1 DEF ForGood
  <2>2. run.page \in Nat /\ run.verify \in Nat
    BY <1>0 DEF Types, Run
  <2>3. ReadForGood
    <3>1. CASE run.mode = "scan"
      <4>1. run.page > run.verify
        BY <2>1, <2>2, <3>1 DEF ForGood
      <4> QED BY <3>1, <4>1 DEF ReadForGood
    <3>2. CASE run.mode # "scan"
      BY <2>1, <3>2 DEF ForGood, ReadForGood
    <3> QED BY <3>1, <3>2
  <2>4. ~late /\ ~Concerns(i, Active)
    BY <1>1, <2>3
  <2>5. Active' = Active
    BY <1>1 DEF Active, Window
  <2>6. PICK w : w = Active
    OBVIOUS
  <2>7. ~Concerns(i, w)
    BY <2>4, <2>6
  <2>8. Found(w)' = Found(w)
    <3>1. \A x \in Found(w) : x \in listing' /\ x.id # i
      BY <1>1, <2>7 DEF Concerns, Found
    <3>2. \A x \in listing' : x.day \in w[1]..(w[2] + 1) => x \in listing
      BY <1>3, <1>4, <2>7 DEF Concerns
    <3> QED BY <3>1, <3>2 DEF Found
  <2>9. Found(Active)' = Found(w)
    BY <2>5, <2>6, <2>8 DEF Found
  <2>10. Page(Found(w), newestFirst, p) \subseteq fresh
    BY <1>0, <2>1, <2>4, <2>6 DEF PagesAreFresh
  <2>11. i \notin Page(Found(w), newestFirst, p)
    BY <2>7 DEF Page, Concerns
  <2>12. Page(Found(Active), newestFirst, p)' = Page(Found(w), newestFirst, p)
    BY <1>1, <2>9
  <2> QED BY <1>1, <2>10, <2>11, <2>12
<1> QED BY <1>6, <1>7, <1>8, <1>10, <1>11, <1>12 DEF ScanIInv

LEMMA MidnightKeeps ==
    ASSUME ScanIInv, Midnight
    PROVE  ScanIInv'
<1>0. Types /\ OneByOne /\ OldIsSafe /\ PagesAreFresh /\ NothingMissed
  BY DEF ScanIInv
<1>1. /\ today < MaxDay /\ today' = today + 1
      /\ UNCHANGED <<listing, newestFirst, updates, cursor, resume, next, ledger, fresh, run>>
      /\ UNCHANGED <<late, unseen>>
  BY DEF Midnight, meta, history
<1>2. today' \in Days /\ today' \in Nat /\ today <= today'
  BY <1>0, <1>1, ScanAssumption DEF Types, Days
<1>3. Types'
  BY <1>0, <1>1, <1>2 DEF Types
<1>4. WindowsMatch' /\ SavedMatches' /\ RunMatches'
  BY <1>1, <1>2, RunFrame
<1>5. Frontier' = Frontier /\ Active' = Active
  BY <1>1 DEF Frontier, Active, Window
<1>6. OneByOne' /\ OldIsSafe' /\ NothingMissed'
  BY <1>0, <1>1, <1>5 DEF OneByOne, OldIsSafe, NothingMissed
<1>7. \A p \in Nat : ForGood(p)' => ForGood(p)
  BY <1>1 DEF ForGood
<1>8. PagesAreFresh'
  BY <1>0, <1>1, <1>5, <1>7, PagesKept
<1> QED BY <1>3, <1>4, <1>6, <1>8 DEF ScanIInv
-----------------------------------------------------------------------------
(* The run begins, ends and opens a window. *)

\* A run that ends leaves what it saved.
LEMMA IdleKeeps ==
    ASSUME ScanIInv, run.mode # "off", run' = Idle,
           UNCHANGED <<source, meta, ledger, fresh, history>>
    PROVE  ScanIInv'
<1>0. /\ Types /\ OneByOne /\ WindowsMatch /\ OldIsSafe /\ SavedMatches
      /\ RunMatches /\ PagesAreFresh /\ NothingMissed
  BY DEF ScanIInv
<1>1. /\ UNCHANGED <<today, listing, newestFirst, updates, cursor, resume, next>>
      /\ UNCHANGED <<ledger, fresh, late, unseen>>
      /\ run'.mode = "off" /\ run'.windows = <<>> /\ run'.saved = NoPosition
  BY IdleFacts DEF source, meta, history
<1>2. Frontier' = Frontier
  BY <1>1 DEF Frontier
<1>3. Types'
  BY <1>0, <1>1, IdleFacts DEF Types
<1>4. WindowsMatch'
  <2>1. Follows(run'.windows, Frontier, today)
    BY <1>1 DEF Follows
  <2> QED BY <1>0, <1>1, <1>2, <2>1 DEF WindowsMatch
<1>5. SavedMatches' /\ RunMatches'
  BY <1>0, <1>1 DEF SavedMatches, RunMatches
<1>6. OneByOne' /\ OldIsSafe' /\ NothingMissed'
  BY <1>0, <1>1, <1>2 DEF OneByOne, OldIsSafe, NothingMissed
<1>7. PagesAreFresh'
  <2>1. CASE resume.phase # "verify"
    <3>1. \A p \in Nat : ~ForGood(p)'
      BY <1>1, <2>1 DEF ForGood
    <3> QED BY <3>1, NothingRead
  <2>2. CASE resume.phase = "verify" /\ run.mode = "open"
    <3>1. Active' = Active
      BY <1>1, <2>2 DEF Active
    <3>2. \A p \in Nat : ForGood(p)' => ForGood(p)
      BY <1>1, <2>2 DEF ForGood
    <3> QED BY <1>0, <1>1, <3>1, <3>2, PagesKept
  <2>3. CASE resume.phase = "verify" /\ run.mode # "open"
    <3>0. run.windows # <<>> /\ Window \in Windows
      BY <1>0, <2>3, WindowOfRun DEF WindowsMatch, Types, Run
    <3>1. run.mode = "verify"
      <4> SUFFICES ASSUME run.mode = "scan" PROVE FALSE
        BY <1>0, <2>3 DEF Types, Run
      <4>1. resume.phase = "scan"
        BY <1>0 DEF RunMatches, NoPosition, Position
      <4> QED BY <2>3, <4>1
    <3>2. resume.window = Window /\ resume.page = run.page /\ resume.verify = run.verify
      BY <1>0, <3>1 DEF RunMatches, Position
    <3>3. Active' = Active
      BY <1>1, <3>1, <3>2 DEF Active
    <3>4. \A p \in Nat : ForGood(p)' => ForGood(p)
      BY <1>1, <3>1, <3>2 DEF ForGood
    <3> QED BY <1>0, <1>1, <3>3, <3>4, PagesKept
  <2> QED BY <2>1, <2>2, <2>3
<1> QED BY <1>3, <1>4, <1>5, <1>6, <1>7 DEF ScanIInv

\* The state a run begins in, whatever its windows are.
LEMMA BeginFacts ==
    ASSUME Types, Begin, Catchup(today) \in Seq(Windows), Kept \in Positions
    PROVE  /\ run' \in Run /\ run'.mode = "open" /\ run'.windows = Catchup(today)
           /\ run'.saved = Kept
BY PositionFacts DEF Begin, Idle, Run, Types

\* A run that begins without a position: what it may have read before is void.
LEMMA StartAfresh ==
    ASSUME ScanIInv, Start, Kept = NoPosition, Catchup(today) \in Seq(Windows),
           Follows(Catchup(today), Frontier', today), cursor <= Frontier',
           KeptNext \in Windows \cup {NoWindow}, KeptNext # NoWindow => KeptNext[2] <= today,
           NothingMissed'
    PROVE  ScanIInv'
<1>0. Types /\ OneByOne /\ WindowsMatch
  BY DEF ScanIInv
<1>1. /\ UNCHANGED <<today, listing, newestFirst, updates, cursor, fresh, unseen>>
      /\ resume' = NoPosition /\ next' = KeptNext /\ ledger' = {}
      /\ late' = (late /\ NoPosition.phase = "verify")
  BY DEF Start, Begin, source
<1>2. /\ run' \in Run /\ run'.mode = "open" /\ run'.windows = Catchup(today)
      /\ run'.saved = NoPosition
  BY <1>0, BeginFacts, PositionFacts DEF Start
<1>3. Types'
  BY <1>0, <1>1, <1>2, PositionFacts, FS_EmptySet DEF Types
<1>4. WindowsMatch'
  BY <1>0, <1>1, <1>2 DEF WindowsMatch
<1>5. SavedMatches'
  BY <1>1, PositionFacts DEF SavedMatches, NoPosition, Position
<1>6. OneByOne' /\ OldIsSafe' /\ RunMatches'
  BY <1>0, <1>1, <1>2, PositionFacts DEF OneByOne, OldIsSafe, RunMatches
<1>7. PagesAreFresh'
  BY <1>1, <1>2, PositionFacts, NothingRead DEF ForGood
<1> QED BY <1>3, <1>4, <1>5, <1>6, <1>7 DEF ScanIInv

LEMMA StartKeeps ==
    ASSUME ScanIInv, Start
    PROVE  ScanIInv' /\ Frontier' >= Frontier
<1>0. /\ Types /\ OneByOne /\ WindowsMatch /\ OldIsSafe /\ SavedMatches
      /\ RunMatches /\ PagesAreFresh /\ NothingMissed
  BY DEF ScanIInv
<1>1. /\ UNCHANGED <<today, listing, newestFirst, updates, cursor, fresh, unseen>>
      /\ run.mode = "off" /\ resume' = Kept /\ next' = KeptNext
      /\ ledger' = IF Kept = NoPosition THEN {} ELSE ledger
      /\ late' = (late /\ Kept.phase = "verify")
  BY DEF Start, Begin, source
<1>2. cursor \in Nat \ {0} /\ today \in Nat /\ cursor <= today /\ today + 1 \in Nat \ {0}
  BY <1>0, ScanAssumption DEF Types, Days, WindowsMatch
<1>3. CASE resume = NoPosition
  <2>1. Kept = NoPosition
    BY <1>3 DEF Kept
  <2>2. KeptNext = next
    <3>1. ASSUME next # NoWindow PROVE ~(next[2] < cursor)
      <4>1. next \in Windows
        BY <1>0, <3>1 DEF Types
      <4>2. Frontier = next[1] /\ cursor <= next[1]
        BY <1>0, <1>3, <3>1, PositionFacts DEF Frontier, WindowsMatch
      <4> QED BY <1>2, <4>1, <4>2, WindowFacts
    <3> QED BY <1>3, <3>1 DEF KeptNext
  <2>3. resume' = NoPosition /\ next' = next /\ Frontier' = Frontier /\ cursor <= Frontier
    BY <1>0, <1>1, <1>3, <2>1, <2>2, PositionFacts DEF Frontier, WindowsMatch
  <2>4. Catchup(today) \in Seq(Windows) /\ Follows(Catchup(today), Frontier, today)
    <3>1. CASE next # NoWindow
      <4>1. next \in Windows /\ next[2] <= today /\ Frontier = next[1] /\ next[2] + 1 \in Nat \ {0}
        BY <1>0, <1>3, <3>1, WindowFacts DEF Types, WindowsMatch, Frontier
      <4>2. Catchup(today) = <<next>> \o Chunks(next[2] + 1, today)
        BY <2>1, <2>2, <3>1 DEF Catchup
      <4> QED BY <1>0, <4>1, <4>2, ChunkWindows, WindowBefore
    <3>2. CASE next = NoWindow
      <4>1. Catchup(today) = Chunks(cursor, today) /\ Frontier = cursor
        BY <1>3, <2>1, <2>2, <3>2 DEF Catchup, Frontier
      <4> QED BY <1>0, <1>2, <4>1, ChunkWindows
    <3> QED BY <3>1, <3>2
  <2>5. NothingMissed'
    BY <1>0, <1>1, <2>3 DEF NothingMissed
  <2>6. next \in Windows \cup {NoWindow} /\ (next # NoWindow => next[2] <= today)
    BY <1>0 DEF Types, WindowsMatch
  <2>7. Frontier' >= Frontier
    BY <1>0, <2>3, FrontierIsPast
  <2> QED BY <2>1, <2>2, <2>3, <2>4, <2>5, <2>6, <2>7, StartAfresh
<1>4. CASE resume # NoPosition /\ resume.window[2] < cursor
  <2>1. Kept = NoPosition /\ KeptNext = NoWindow
    BY <1>4 DEF Kept, KeptNext
  <2>2. resume \in Positions /\ resume.window \in Windows /\ Frontier = resume.window[1]
    BY <1>0, <1>4 DEF Types, WindowsMatch, Positions, Frontier
  <2>3. resume = OldPosition
    BY <1>0, <1>2, <1>4, <2>2, WindowFacts DEF WindowsMatch
  <2>4. Frontier' = cursor
    BY <1>1, <2>1 DEF Frontier
  <2>5. Catchup(today) = Chunks(cursor, today)
    BY <2>1 DEF Catchup
  <2>6. Catchup(today) \in Seq(Windows) /\ Follows(Catchup(today), cursor, today)
    BY <1>0, <1>2, <2>5, ChunkWindows
  <2>7. NothingMissed'
    <3>1. \A x \in listing : x.day >= cursor /\ x.day \in Nat
      BY <1>0, <2>3, ScanAssumption DEF OldIsSafe, Types, Item, Days
    <3>2. \A x \in listing : ~(x.day < cursor)
      BY <1>2, <3>1
    <3> QED BY <1>1, <2>4, <3>2 DEF NothingMissed
  <2>8. cursor <= Frontier'
    BY <1>2, <2>4
  <2>9. Frontier' >= Frontier
    BY <1>2, <1>4, <2>2, <2>4, WindowFacts
  <2> QED BY <2>1, <2>4, <2>6, <2>7, <2>8, <2>9, StartAfresh
<1>5. CASE resume # NoPosition /\ ~(resume.window[2] < cursor)
  <2>1. Kept = resume /\ KeptNext = NoWindow
    BY <1>5 DEF Kept, KeptNext
  <2>2. /\ resume \in Positions /\ resume.window \in Windows /\ Frontier = resume.window[1]
        /\ resume.window[2] <= today /\ resume.window[2] + 1 \in Nat \ {0} /\ next = NoWindow
        /\ resume.window # NoWindow
    <3>1. /\ resume \in Positions /\ resume.window \in Windows /\ Frontier = resume.window[1]
          /\ resume.window[2] <= today /\ next = NoWindow
      BY <1>0, <1>5 DEF Types, WindowsMatch, Positions, Frontier
    <3> QED BY <3>1, WindowFacts
  <2>3. Catchup(today) = <<resume.window>> \o Chunks(resume.window[2] + 1, today)
    BY <1>5, <2>1 DEF Catchup
  <2>4. /\ Catchup(today) \in Seq(Windows) /\ Catchup(today) # <<>>
        /\ Catchup(today)[1] = resume.window
        /\ Follows(Catchup(today), resume.window[1], today)
    <3> DEFINE s == Chunks(resume.window[2] + 1, today)
    <3>1. s \in Seq(Windows) /\ Follows(s, resume.window[2] + 1, today)
      BY <1>0, <2>2, ChunkWindows
    <3> HIDE DEF s
    <3> QED BY <2>2, <2>3, <3>1, WindowBefore DEF s
  <2>5. /\ run' \in Run /\ run'.mode = "open" /\ run'.windows = Catchup(today)
        /\ run'.saved = resume
    BY <1>0, <2>1, <2>2, <2>4, BeginFacts DEF Start
  <2>6. resume' = resume /\ next' = next /\ ledger' = ledger /\ Frontier' = Frontier
    BY <1>1, <1>5, <2>1, <2>2 DEF Frontier
  <2>7. Types'
    <3>1. late' \in BOOLEAN
      BY <1>1
    <3> QED BY <1>0, <1>1, <2>5, <2>6, <3>1 DEF Types
  <2>8. cursor <= Frontier
    <3>1. CASE resume = OldPosition
      BY <1>2, <1>5, <2>2, <3>1, PositionFacts
    <3>2. CASE resume # OldPosition
      BY <1>0, <3>2 DEF WindowsMatch
    <3> QED BY <3>1, <3>2
  <2>9. WindowsMatch'
    BY <1>1, <1>2, <2>2, <2>4, <2>5, <2>6, <2>8 DEF WindowsMatch
  <2>10. SavedMatches' /\ RunMatches'
    BY <1>0, <2>4, <2>5, <2>6 DEF SavedMatches, RunMatches
  <2>11. OneByOne' /\ OldIsSafe' /\ NothingMissed'
    BY <1>0, <1>1, <2>6 DEF OneByOne, OldIsSafe, NothingMissed
  <2>12. PagesAreFresh'
    <3>1. CASE resume.phase # "verify"
      <4>1. \A p \in Nat : ~ForGood(p)'
        BY <2>5, <2>6, <3>1 DEF ForGood
      <4> QED BY <4>1, NothingRead
    <3>2. CASE resume.phase = "verify"
      <4>1. Active' = Active /\ (late => late')
        BY <1>1, <2>1, <2>5, <2>6, <3>2 DEF Active
      <4>2. \A p \in Nat : ForGood(p)' => ForGood(p)
        BY <1>1, <2>5, <2>6 DEF ForGood
      <4> QED BY <1>0, <1>1, <4>1, <4>2, PagesKept
    <3> QED BY <3>1, <3>2
  <2>13. Frontier' >= Frontier
    BY <1>0, <2>6, FrontierIsPast
  <2> QED BY <2>7, <2>9, <2>10, <2>11, <2>12, <2>13 DEF ScanIInv
<1> QED BY <1>3, <1>4, <1>5

\* The scan of the window of the run begins again, and its ledger with it.
LEMMA AgainKeeps ==
    ASSUME ScanIInv, run.windows # <<>>, run.mode # "off", UNCHANGED source,
           ScanAgain(Window), UNCHANGED unseen, late' \in BOOLEAN,
           run' \in Run, run'.mode = "scan", run'.page = 0, run'.verify = 0,
           run'.windows = run.windows, run'.saved = NoPosition
    PROVE  ScanIInv'
<1>0. Types /\ OneByOne /\ WindowsMatch /\ OldIsSafe /\ NothingMissed
  BY DEF ScanIInv
<1>1. /\ UNCHANGED <<today, listing, newestFirst, updates, cursor, fresh>>
      /\ resume' = Position(Window, 0, 0, "scan", 0) /\ next' = NoWindow /\ ledger' = {}
  BY DEF ScanAgain, source
<1>2. Window \in Windows
  BY <1>0, WindowOfRun
<1>3. /\ resume' \in Positions /\ resume'.window = Window /\ resume'.phase = "scan"
      /\ resume'.page = 0 /\ resume'.total = 0 /\ resume'.verify = 0
  BY <1>1, <1>2 DEF Position, Positions
<1>4. resume' # NoPosition /\ resume' # OldPosition
  BY <1>2, <1>3, PositionFacts, WindowFacts
<1>5. WindowsMatch' /\ Frontier' = Frontier /\ Window' = Window
  BY <1>0, <1>1, <1>3, <1>4, SameWindow
<1>6. Types'
  BY <1>0, <1>1, <1>3, FS_EmptySet DEF Types
<1>7. OneByOne' /\ NothingMissed' /\ OldIsSafe'
  BY <1>0, <1>1, <1>4, <1>5, ReadStays
<1>8. SavedMatches'
  <2>1. Cardinality(ledger') = 0 * PageSize
    BY <1>1, FS_EmptySet, ScanAssumption
  <2> QED BY <1>3, <1>4, <2>1 DEF SavedMatches
<1>9. RunMatches'
  BY <1>1, <1>5 DEF RunMatches
<1>10. PagesAreFresh'
  <2>1. \A p \in Nat : ~ForGood(p)'
    BY DEF ForGood
  <2> QED BY <2>1, NothingRead
<1> QED BY <1>5, <1>6, <1>7, <1>8, <1>9, <1>10 DEF ScanIInv

LEMMA OpenWindowKeeps ==
    ASSUME ScanIInv, OpenWindow
    PROVE  ScanIInv'
<1>0. /\ Types /\ OneByOne /\ WindowsMatch /\ OldIsSafe /\ SavedMatches
      /\ RunMatches /\ PagesAreFresh /\ NothingMissed
  BY DEF ScanIInv
<1>1. /\ run.mode = "open" /\ run.windows # <<>> /\ run.saved = resume /\ run \in Run
      /\ resume # NoPosition => Window = resume.window
      /\ UNCHANGED <<source, history>>
  BY <1>0, WindowOfRun DEF OpenWindow, RunMatches, Types
<1>2. ASSUME NEW mode \in {"scan", "verify"}, NEW page \in Nat, NEW total \in Nat, NEW verify \in Nat,
             Open(mode, page, total, verify)
      PROVE  /\ run' \in Run /\ run'.mode = mode /\ run'.windows = run.windows
             /\ run'.page = page /\ run'.total = total /\ run'.verify = verify
             /\ run'.saved = NoPosition
  BY <1>1, <1>2, PositionFacts DEF Open, Run
\* The window is scanned from its first page, with the position it has.
<1>3. ASSUME UNCHANGED <<meta, ledger, fresh>>,
             NEW mode \in {"scan", "verify"}, NEW page \in Nat, NEW total \in Nat, NEW verify \in Nat,
             Open(mode, page, total, verify),
             RunMatches', PagesAreFresh'
      PROVE  ScanIInv'
  <2>1. /\ UNCHANGED <<today, listing, newestFirst, updates, cursor, resume, next>>
        /\ UNCHANGED <<ledger, fresh, late, unseen>> /\ run' \in Run /\ run'.mode = mode
        /\ run'.windows = run.windows
    BY <1>1, <1>2, <1>3 DEF source, meta, history
  <2>2. Frontier' = Frontier
    BY <2>1 DEF Frontier
  <2>3. Types' /\ WindowsMatch'
    BY <1>0, <1>1, <2>1, <2>2 DEF Types, WindowsMatch
  <2>4. OneByOne' /\ OldIsSafe' /\ NothingMissed' /\ SavedMatches'
    BY <1>0, <2>1, <2>2 DEF OneByOne, OldIsSafe, NothingMissed, SavedMatches
  <2> QED BY <1>3, <2>3, <2>4 DEF ScanIInv
<1>4. CASE /\ run.saved = NoPosition /\ Open("scan", 0, 0, 0)
           /\ UNCHANGED <<meta, ledger, fresh>>
  <2>1. /\ run'.mode = "scan" /\ run'.page = 0 /\ run'.verify = 0 /\ run'.saved = NoPosition
        /\ resume' = NoPosition
    BY <1>1, <1>2, <1>4 DEF meta
  <2>2. RunMatches'
    BY <2>1 DEF RunMatches
  <2>3. PagesAreFresh'
    <3>1. \A p \in Nat : ~ForGood(p)'
      BY <2>1 DEF ForGood
    <3> QED BY <3>1, NothingRead
  <2> QED BY <1>3, <1>4, <2>2, <2>3
<1>5. CASE /\ run.saved # NoPosition /\ ~Usable(run.saved) /\ Open("scan", 0, 0, 0)
           /\ ScanAgain(Window)
  <2>1. /\ run' \in Run /\ run'.mode = "scan" /\ run'.page = 0 /\ run'.verify = 0
        /\ run'.windows = run.windows /\ run'.saved = NoPosition
    BY <1>2, <1>5
  <2>2. UNCHANGED source /\ UNCHANGED unseen /\ late' \in BOOLEAN
    BY <1>0, <1>1 DEF history, Types
  <2> QED BY <1>1, <1>5, <2>1, <2>2, AgainKeeps
<1>6. CASE /\ run.saved # NoPosition /\ Usable(run.saved)
           /\ Open(run.saved.phase, run.saved.page, run.saved.total, ToVerify(run.saved))
           /\ UNCHANGED <<meta, ledger, fresh>>
  <2>1. /\ resume # NoPosition /\ resume \in Positions /\ Window = resume.window
        /\ resume.phase \in {"scan", "verify"}
        /\ resume.page \in Nat /\ resume.total \in Nat /\ resume.verify \in Nat
        /\ resume = Position(resume.window, resume.page, resume.total, resume.phase, resume.verify)
    BY <1>0, <1>1, <1>6 DEF Usable, Types, Positions, Position
  <2>2. ToVerify(resume) = IF resume.phase = "verify" THEN resume.verify ELSE resume.page
    BY DEF ToVerify
  <2>3. /\ run' \in Run /\ run'.mode = resume.phase /\ run'.page = resume.page
        /\ run'.total = resume.total /\ run'.windows = run.windows
        /\ run'.verify = (IF resume.phase = "verify" THEN resume.verify ELSE resume.page)
        /\ run'.saved = NoPosition
    BY <1>1, <1>2, <1>6, <2>1, <2>2
  <2>4. UNCHANGED <<listing, newestFirst, resume, fresh, late>> /\ Window' = Window
    BY <1>1, <1>6, <2>3 DEF source, meta, history, Window
  <2>5. CASE resume.phase = "scan"
    <3>1. /\ resume.verify = 0 /\ (resume.page = 0 => resume.total = 0)
          /\ run'.mode = "scan" /\ run'.page = resume.page /\ run'.verify = resume.page
      BY <1>0, <2>1, <2>3, <2>5 DEF SavedMatches
    <3>2. resume' = Position(Window', run'.page, run'.total, "scan", 0)
      BY <2>1, <2>3, <2>4, <2>5, <3>1
    <3>3. resume.page = 0 => run'.total = 0 /\ run'.page = 0
      BY <2>3, <3>1
    <3>4. resume.page # 0 => run'.page > 0 /\ run'.verify <= run'.page
      BY <2>1, <3>1
    <3>5. RunMatches'
      BY <2>3, <3>1, <3>2, <3>3, <3>4 DEF RunMatches
    <3>6. PagesAreFresh'
      <4>1. \A p \in Nat : ~ForGood(p)'
        BY <2>1, <3>1 DEF ForGood
      <4> QED BY <4>1, NothingRead
    <3> QED BY <1>1, <1>3, <1>6, <2>1, <2>2, <3>1, <3>5, <3>6
  <2>6. CASE resume.phase = "verify"
    <3>1. RunMatches'
      BY <2>1, <2>3, <2>4, <2>6 DEF RunMatches
    <3>2. Active' = Active
      BY <1>1, <2>1, <2>3, <2>4, <2>6 DEF Active
    <3>3. \A p \in Nat : ForGood(p)' => ForGood(p)
      BY <1>1, <2>3, <2>6 DEF ForGood
    <3>4. PagesAreFresh'
      BY <1>0, <2>4, <3>2, <3>3, PagesKept
    <3> QED BY <1>1, <1>3, <1>6, <2>1, <2>2, <2>6, <3>1, <3>4
  <2> QED BY <2>1, <2>5, <2>6
<1> QED BY <1>4, <1>5, <1>6 DEF OpenWindow

LEMMA RestartKeeps ==
    ASSUME ScanIInv, run.mode \in {"scan", "verify"}, UNCHANGED source, Restart
    PROVE  ScanIInv'
<1>0. Types /\ RunMatches /\ WindowsMatch
  BY DEF ScanIInv
<1>1. CASE run.restarts + 1 < Attempts
  <2>1. /\ ScanAgain(Window) /\ late' = FALSE /\ UNCHANGED unseen
        /\ run' = [run EXCEPT !.mode = "scan", !.page = 0, !.total = 0, !.verify = 0,
                              !.restarts = @ + 1]
    BY <1>1 DEF Restart
  <2>2. run.restarts \in Nat /\ run.restarts + 1 \in Nat /\ run.saved = NoPosition
    BY <1>0 DEF Types, Run, RunMatches
  <2>3. /\ run' \in Run /\ run'.mode = "scan" /\ run'.page = 0 /\ run'.verify = 0
        /\ run'.windows = run.windows /\ run'.saved = NoPosition
    BY <1>0, <2>1, <2>2 DEF Types, Run
  <2> QED BY <1>0, <2>1, <2>3, AgainKeeps DEF WindowsMatch
<1>2. CASE ~(run.restarts + 1 < Attempts)
  BY <1>2, IdleKeeps DEF Restart
<1> QED BY <1>1, <1>2

LEMMA FailKeeps ==
    ASSUME ScanIInv, Fail \/ End
    PROVE  ScanIInv'
BY IdleKeeps DEF Fail, End

\* Two windows in the place of one.
LEMMA TwoWindows ==
    ASSUME NEW first \in Windows, NEW second \in Windows, NEW s \in Seq(Windows),
           first[2] <= today, second[2] <= today, second[1] = first[2] + 1,
           Follows(s, second[2] + 1, today)
    PROVE  /\ <<first, second>> \o s \in Seq(Windows) /\ <<first, second>> \o s # <<>>
           /\ Follows(<<first, second>> \o s, first[1], today)
<1> DEFINE t == <<second>> \o s
<1>1. t \in Seq(Windows) /\ Follows(t, first[2] + 1, today)
  BY WindowBefore
<1>2. <<first, second>> \o s = <<first>> \o t
  <2>1. <<first>> \in Seq(Windows) /\ <<second>> \in Seq(Windows)
    OBVIOUS
  <2>2. <<first>> \o <<second>> = <<first, second>>
    <3> DEFINE u == <<first>> \o <<second>>
    <3>1. /\ Len(<<first>>) = 1 /\ Len(<<second>>) = 1 /\ <<first>>[1] = first
          /\ <<second>>[1] = second /\ <<first, second>> \in Seq(Windows)
          /\ Len(<<first, second>>) = 2
      OBVIOUS
    <3>2. /\ u \in Seq(Windows) /\ Len(u) = Len(<<first>>) + Len(<<second>>)
          /\ \A i \in 1..(Len(<<first>>) + Len(<<second>>)) :
                 u[i] = IF i <= Len(<<first>>) THEN <<first>>[i] ELSE <<second>>[i - Len(<<first>>)]
      BY <2>1, ConcatProperties
    <3> HIDE DEF u
    <3>3. Len(u) = 2 /\ u[1] = first /\ u[2] = second
      BY <3>1, <3>2
    <3>4. \A i \in 1..Len(u) : u[i] = <<first, second>>[i]
      BY <3>3
    <3> QED BY <3>1, <3>2, <3>3, <3>4, SeqEqual DEF u
  <2>3. (<<first>> \o <<second>>) \o s = <<first>> \o (<<second>> \o s)
    BY <2>1, ConcatAssociative
  <2> QED BY <2>2, <2>3
<1> HIDE DEF t
<1>3. /\ <<first>> \o t \in Seq(Windows) /\ <<first>> \o t # <<>>
      /\ Follows(<<first>> \o t, first[1], today)
  BY <1>1, WindowBefore
<1> QED BY <1>2, <1>3

LEMMA SplitKeeps ==
    ASSUME ScanIInv, Split
    PROVE  ScanIInv'
<1>0. /\ Types /\ OneByOne /\ WindowsMatch /\ OldIsSafe /\ RunMatches /\ NothingMissed
  BY DEF ScanIInv
<1> DEFINE middle == Window[1] + (Window[2] - Window[1]) \div 2
           first == <<Window[1], middle>>
           second == <<middle + 1, Window[2]>>
<1>1. /\ run.mode = "scan" /\ Window[1] < Window[2]
      /\ UNCHANGED <<today, listing, newestFirst, updates, cursor, fresh, late, unseen>>
      /\ next' = first /\ resume' = NoPosition /\ ledger' = {}
      /\ run' = [run EXCEPT !.mode = "open", !.windows = <<first, second>> \o Tail(@),
                            !.restarts = 0]
  BY DEF Split, TooLarge, source, history
<1>2. run.windows # <<>> /\ run.saved = NoPosition /\ run \in Run
  BY <1>0, <1>1 DEF WindowsMatch, RunMatches, Types
<1>3. /\ Window \in Windows /\ Window[1] = Frontier /\ Window[2] <= today
      /\ Window = run.windows[1] /\ run.windows \in Seq(Windows)
  BY <1>0, <1>2, WindowOfRun
<1>4. Tail(run.windows) \in Seq(Windows) /\ Follows(Tail(run.windows), Window[2] + 1, today)
  BY <1>0, <1>2, <1>3, WindowsAfter DEF WindowsMatch
<1>5. /\ middle \in Days /\ middle + 1 \in Days /\ Window[1] <= middle /\ middle + 1 <= Window[2]
      /\ Window[1] \in Days /\ Window[2] \in Days /\ today \in Nat /\ middle <= today
      /\ middle \in Nat
  <2> DEFINE a == Window[1]
             b == Window[2]
  <2>1. a \in Nat /\ b \in Nat /\ a \in Days /\ b \in Days /\ a < b /\ today \in Nat /\ b <= today
    BY <1>0, <1>1, <1>3, WindowFacts, ScanAssumption DEF Types, Days
  <2>2. (b - a) \div 2 \in Nat /\ (b - a) \div 2 < b - a
    <3> HIDE DEF a, b
    <3> QED BY <2>1
  <2>3. middle = a + (b - a) \div 2
    OBVIOUS
  <2> HIDE DEF a, b, middle
  <2>4. middle \in Nat /\ a <= middle /\ middle < b
    BY <2>1, <2>2, <2>3
  <2>5. \A d \in Nat : a <= d /\ d <= b => d \in Days
    BY <2>1, ScanAssumption DEF Days
  <2>6. middle \in Days /\ middle + 1 \in Days /\ middle + 1 <= b /\ middle <= today
    BY <2>1, <2>4, <2>5
  <2> QED BY <2>1, <2>4, <2>6 DEF a, b
<1> HIDE DEF middle
<1>6. first \in Windows /\ second \in Windows
  BY <1>5 DEF Windows
<1>7. /\ <<first, second>> \o Tail(run.windows) \in Seq(Windows)
      /\ <<first, second>> \o Tail(run.windows) # <<>>
      /\ Follows(<<first, second>> \o Tail(run.windows), first[1], today)
  <2>1. first[2] <= today /\ second[2] <= today /\ second[1] = first[2] + 1 /\ second[2] = Window[2]
    BY <1>3, <1>5
  <2> HIDE DEF first, second
  <2> QED BY <1>4, <1>6, <2>1, TwoWindows
<1>8. first[1] = Frontier /\ first # NoWindow /\ first[2] <= today
  BY <1>3, <1>5, <1>6, WindowFacts
<1> HIDE DEF first, second
<1>9. /\ run' \in Run /\ run'.mode = "open" /\ run'.saved = NoPosition
      /\ run'.windows = <<first, second>> \o Tail(run.windows)
  BY <1>1, <1>2, <1>7 DEF Run
<1>10. Frontier' = Frontier
  BY <1>1, <1>8 DEF Frontier
<1>11. Types'
  BY <1>0, <1>1, <1>6, <1>9, PositionFacts, FS_EmptySet DEF Types
<1>12. WindowsMatch'
  BY <1>0, <1>1, <1>7, <1>8, <1>9, <1>10 DEF WindowsMatch
<1>13. SavedMatches'
  <2>1. resume'.phase = "scan" /\ resume' = NoPosition /\ ledger' = {}
    BY <1>1, PositionFacts
  <2> QED BY <2>1 DEF SavedMatches
<1>14. RunMatches'
  BY <1>1, <1>9 DEF RunMatches
<1>15. OneByOne' /\ NothingMissed' /\ OldIsSafe'
  BY <1>0, <1>1, <1>10, PositionFacts DEF OneByOne, NothingMissed, OldIsSafe
<1>16. PagesAreFresh'
  <2>1. \A p \in Nat : ~ForGood(p)'
    BY <1>1, <1>9, PositionFacts DEF ForGood
  <2> QED BY <2>1, NothingRead
<1> QED BY <1>11, <1>12, <1>13, <1>14, <1>15, <1>16 DEF ScanIInv
-----------------------------------------------------------------------------
(* Pages. *)

\* The entries of one page in the ledger.
LEMMA PageEntries ==
    ASSUME NEW ids, IsFiniteSet(ids), NEW p
    PROVE  IsFiniteSet(ids \X {p}) /\ Cardinality(ids \X {p}) = Cardinality(ids)
<1>1. IsFiniteSet({p}) /\ Cardinality({p}) = 1 /\ Cardinality(ids) \in Nat
  BY FS_Singleton, FS_CardinalityType
<1>2. Cardinality(ids) * 1 = Cardinality(ids)
  BY <1>1
<1>3. IsFiniteSet(ids \X {p}) /\ Cardinality(ids \X {p}) = Cardinality(ids) * Cardinality({p})
  BY <1>1, FS_Product
<1> QED BY <1>1, <1>2, <1>3

\* The window is complete when each of its items is stored.
LEMMA CompleteKeeps ==
    ASSUME ScanIInv, run.mode \in {"scan", "verify"}, UNCHANGED source,
           NEW ids \in SUBSET Ids, Complete(ids)
    PROVE  /\ Frontier' >= Frontier
           /\ (late \/ \A x \in Found(Window) : x.id \in fresh \cup ids) => ScanIInv'
<1>0. /\ Types /\ OneByOne /\ WindowsMatch /\ RunMatches /\ NothingMissed
  BY DEF ScanIInv
<1>1. run.windows # <<>> /\ run \in Run /\ run.saved = NoPosition
  BY <1>0 DEF WindowsMatch, Types, RunMatches
<1>2. PICK w : w = Window
  OBVIOUS
<1>3. /\ w \in Windows /\ w[1] = Frontier /\ w[2] <= today /\ w = run.windows[1]
      /\ run.windows \in Seq(Windows)
  BY <1>0, <1>1, <1>2, WindowOfRun
<1> DEFINE s == Tail(run.windows)
           more == Len(run.windows) > 1
           v == run.windows[2]
<1>4. /\ s \in Seq(Windows) /\ Follows(s, w[2] + 1, today)
      /\ more => v \in Windows /\ s # <<>> /\ s[1] = v /\ v[1] = w[2] + 1 /\ v[2] <= today
      /\ ~more => s = <<>>
  BY <1>0, <1>1, <1>3, WindowsAfter DEF WindowsMatch
<1> HIDE DEF s, more, v
<1>5. /\ UNCHANGED <<today, listing, newestFirst, updates>>
      /\ cursor' = IF cursor < w[2] THEN w[2] ELSE cursor
      /\ resume' = NoPosition /\ next' = (IF more THEN v ELSE NoWindow) /\ ledger' = {}
      /\ fresh' = fresh \cup ids /\ late' = FALSE /\ unseen' = (unseen \/ late)
  BY <1>2 DEF Complete, source, more, v
<1>6. /\ run' \in Run /\ run'.mode = "open" /\ run'.windows = s /\ run'.saved = NoPosition
  BY <1>1, <1>4 DEF Complete, Run, s
<1>7. /\ cursor \in Nat /\ cursor \in Days /\ cursor <= Frontier /\ cursor <= today /\ today \in Nat
      /\ w[1] \in Nat /\ w[2] \in Nat /\ w[2] \in Days /\ w[1] <= w[2] /\ Frontier \in Nat
  BY <1>0, <1>3, WindowFacts, ScanAssumption DEF Types, Days, WindowsMatch
<1>8. cursor' = w[2]
  <2>1. cursor <= w[2]
    BY <1>3, <1>7
  <2> QED BY <1>5, <1>7, <2>1
<1>9. Frontier' = IF more THEN w[2] + 1 ELSE w[2]
  <2>1. CASE more
    <3>1. v # NoWindow
      BY <1>4, <2>1, WindowFacts
    <3> QED BY <1>4, <1>5, <2>1, <3>1 DEF Frontier
  <2>2. CASE ~more
    BY <1>5, <1>8, <2>2 DEF Frontier
  <2> QED BY <2>1, <2>2
<1>10. Frontier' \in Nat /\ Frontier' >= Frontier /\ cursor' <= Frontier' /\ Frontier' <= w[2] + 1
  <2>1. w[1] = Frontier /\ (Frontier' = w[2] + 1 \/ Frontier' = w[2])
    BY <1>3, <1>9
  <2> QED BY <1>7, <1>8, <2>1
<1>11. Types'
  BY <1>0, <1>4, <1>5, <1>6, <1>7, <1>8, PositionFacts, FS_EmptySet DEF Types
<1>12. WindowsMatch'
  <2>1. Follows(s, Frontier', today)
    <3>1. CASE more
      BY <1>4, <1>9, <3>1
    <3>2. CASE ~more
      BY <1>4, <3>2 DEF Follows
    <3> QED BY <3>1, <3>2
  <2>2. next' # NoWindow => next'[2] <= today
    BY <1>4, <1>5
  <2> QED BY <1>3, <1>5, <1>6, <1>8, <1>10, <2>1, <2>2 DEF WindowsMatch
<1>13. SavedMatches'
  <2>1. resume'.phase = "scan"
    BY <1>5, PositionFacts
  <2> QED BY <1>5, <2>1 DEF SavedMatches
<1>14. OneByOne' /\ OldIsSafe' /\ RunMatches'
  BY <1>0, <1>5, <1>6, PositionFacts DEF OneByOne, OldIsSafe, RunMatches
<1>15. ASSUME late \/ \A x \in Found(Window) : x.id \in fresh \cup ids
       PROVE  NothingMissed'
  <2> SUFFICES ASSUME ~unseen, ~late, NEW x \in listing, x.day < Frontier'
               PROVE  x.id \in fresh \cup ids
    BY <1>5 DEF NothingMissed
  <2>1. x.day \in Nat
    BY <1>0, ScanAssumption DEF Types, Item, Days
  <2>2. CASE x.day < Frontier
    BY <1>0, <2>2 DEF NothingMissed
  <2>3. CASE ~(x.day < Frontier)
    <3>1. x.day \in w[1]..(w[2] + 1)
      <4>1. w[1] <= x.day
        BY <1>3, <1>7, <2>1, <2>3
      <4>2. x.day <= w[2] + 1
        BY <1>7, <1>10, <2>1
      <4> QED BY <1>7, <2>1, <4>1, <4>2
    <3> QED BY <1>2, <1>15, <3>1 DEF Found
  <2> QED BY <2>2, <2>3
<1>16. PagesAreFresh'
  <2>1. \A p \in Nat : ~ForGood(p)'
    BY <1>5, <1>6, PositionFacts DEF ForGood
  <2> QED BY <2>1, NothingRead
<1> QED BY <1>10, <1>11, <1>12, <1>13, <1>14, <1>15, <1>16 DEF ScanIInv

\* A page is accepted or verified: the run saves its position.
LEMMA PositionKeeps ==
    ASSUME ScanIInv, run.mode \in {"scan", "verify"},
           UNCHANGED <<source, cursor, history>>,
           NEW page \in Nat, NEW total \in Nat, NEW phase \in {"scan", "verify"}, NEW verify \in Nat,
           resume' = Position(Window, page, total, phase, verify), next' = NoWindow,
           NEW ids \in SUBSET Ids, fresh' = fresh \cup ids,
           ledger' \subseteq Ids \X Nat, IsFiniteSet(ledger'), Cardinality(ledger') \in Nat,
           run' \in Run, run'.mode = phase, run'.windows = run.windows, run'.saved = NoPosition,
           run'.page = page, run'.total = total,
           phase = "verify" => run'.verify = verify,
           phase = "scan" => /\ verify = 0 /\ page > 0 /\ page * PageSize < total
                             /\ run'.verify <= page /\ Cardinality(ledger') = page * PageSize,
           phase = "verify" => /\ page < verify /\ (verify - 1) * PageSize < total
                               /\ Cardinality(ledger') = total,
           late \/ \A p \in Nat : ForGood(p)' => \/ ForGood(p)
                                                 \/ PageIds(Window, p) \subseteq fresh'
    PROVE  ScanIInv'
<1>0. /\ Types /\ OneByOne /\ WindowsMatch /\ OldIsSafe /\ PagesAreFresh /\ NothingMissed
  BY DEF ScanIInv
<1>1. run.windows # <<>> /\ Window \in Windows /\ run.mode # "off"
  BY <1>0, WindowOfRun DEF WindowsMatch
<1>2. /\ resume' \in Positions /\ resume'.window = Window /\ resume'.page = page
      /\ resume'.total = total /\ resume'.phase = phase /\ resume'.verify = verify
  BY <1>1 DEF Position, Positions
<1>3. resume' # NoPosition /\ resume' # OldPosition
  <2>1. Window # NoWindow /\ NoPosition.window = NoWindow /\ OldPosition.phase = "old"
    BY <1>1, WindowFacts, PositionFacts
  <2>2. phase # "old"
    OBVIOUS
  <2> QED BY <1>2, <2>1, <2>2
<1>4. /\ UNCHANGED <<today, listing, newestFirst, updates, cursor, late, unseen>>
      /\ run'.mode # "off" /\ fresh \subseteq fresh' /\ fresh' \subseteq Ids
  BY <1>0 DEF source, history, Types
<1>5. WindowsMatch' /\ Frontier' = Frontier /\ Window' = Window
  BY <1>0, <1>1, <1>2, <1>3, <1>4, SameWindow
<1>6. Types'
  <2>1. next' \in Windows \cup {NoWindow}
    OBVIOUS
  <2>2. ledger' \subseteq Ids \X Nat /\ IsFiniteSet(ledger') /\ run' \in Run
    OBVIOUS
  <2> QED BY <1>0, <1>2, <1>4, <2>1, <2>2 DEF Types
<1>7. OneByOne' /\ NothingMissed' /\ OldIsSafe'
  BY <1>0, <1>3, <1>4, <1>5, ReadStays
<1>8. SavedMatches'
  <2>1. CASE phase = "scan"
    BY <1>2, <1>3, <2>1 DEF SavedMatches
  <2>2. CASE phase = "verify"
    BY <1>2, <1>3, <2>2 DEF SavedMatches
  <2> QED BY <2>1, <2>2
<1>9. RunMatches'
  <2>1. CASE phase = "scan"
    BY <1>5, <2>1 DEF RunMatches
  <2>2. CASE phase = "verify"
    BY <1>5, <2>2 DEF RunMatches
  <2> QED BY <2>1, <2>2
<1>10. PagesAreFresh'
  <2>1. Active' = Window /\ Active = Window
    BY <1>5 DEF Active
  <2>2. CASE late
    BY <1>4, <2>2 DEF PagesAreFresh
  <2>3. CASE ~late
    <3>1. \A p \in Nat : ForGood(p)' => \/ ForGood(p)
                                        \/ Page(Found(Active), newestFirst, p) \subseteq fresh'
      BY <2>1, <2>3, PageOfAnswer
    <3> QED BY <1>0, <1>4, <2>1, <3>1, PagesKept
  <2> QED BY <2>2, <2>3
<1> QED BY <1>5, <1>6, <1>7, <1>8, <1>9, <1>10 DEF ScanIInv

\* Pages after the last one are empty.
LEMMA AfterTheLast ==
    ASSUME Types, OneByOne, NEW w, NEW p \in Nat, (p + 1) * PageSize >= Cardinality(Found(w)),
           NEW q \in Nat, q > p
    PROVE  PageIds(w, q) = {}
<1>1. p + 1 \in Nat /\ p + 1 <= q /\ Cardinality(Found(w)) \in Nat
  BY Ranks
<1>2. (p + 1) * PageSize <= q * PageSize /\ (p + 1) * PageSize \in Nat /\ q * PageSize \in Nat
  BY <1>1, PagesAscend
<1>3. Cardinality(Found(w)) <= q * PageSize
  BY <1>1, <1>2
<1> QED BY <1>3, PageFacts

\* With all its pages the window is complete.
LEMMA AllPages ==
    ASSUME Types, OneByOne, PagesAreFresh, run.mode \in {"scan", "verify"}, NEW ids,
           \A q \in Nat : ForGood(q) \/ PageIds(Window, q) \subseteq ids
    PROVE  late \/ \A x \in Found(Window) : x.id \in fresh \cup ids
<1> SUFFICES ASSUME ~late, NEW x \in Found(Window) PROVE x.id \in fresh \cup ids
  OBVIOUS
<1>1. PICK w : w = Window
  OBVIOUS
<1>2. x \in Found(w)
  BY <1>1
<1>3. PICK q \in Nat : x.id \in PageIds(w, q)
  BY <1>2, EveryItemIsOnAPage
<1>4. ForGood(q) => PageIds(w, q) \subseteq fresh
  BY <1>1, PageOfAnswer DEF PagesAreFresh, Active
<1> QED BY <1>1, <1>3, <1>4

LEMMA ScanPageKeeps ==
    ASSUME ScanIInv, ScanPage
    PROVE  ScanIInv'
<1>0. /\ Types /\ OneByOne /\ WindowsMatch /\ SavedMatches /\ RunMatches /\ PagesAreFresh
  BY DEF ScanIInv
<1>1. PICK p : p = run.page
  OBVIOUS
<1>2. PICK total : total = Cardinality(Found(Window))
  OBVIOUS
<1>3. PICK ids : ids = PageIds(Window, p)
  OBVIOUS
<1> DEFINE last == (p + 1) * PageSize >= total
           lasting == ledger \cup (ids \X {p})
<1>4. /\ p \in Nat /\ run.verify \in Nat /\ run.total \in Nat /\ run \in Run /\ total \in Nat
      /\ ids \in SUBSET Ids /\ IsFiniteSet(ids) /\ IsFiniteSet(ledger)
      /\ Cardinality(ids) \in Nat /\ Cardinality(ledger) \in Nat /\ p + 1 \in Nat
  <2>1. p \in Nat /\ run.verify \in Nat /\ run.total \in Nat /\ run \in Run /\ IsFiniteSet(ledger)
    BY <1>0, <1>1 DEF Types, Run
  <2>2. total \in Nat /\ ids \in SUBSET Ids /\ IsFiniteSet(ids)
    BY <1>0, <1>2, <1>3, <2>1, Ranks, PageFacts
  <2> QED BY <2>1, <2>2, FS_CardinalityType
<1>5. run.mode = "scan" /\ UNCHANGED source /\ run.windows # <<>> /\ run.saved = NoPosition
  BY <1>0 DEF ScanPage, WindowsMatch, RunMatches
<1>6. Window \in Windows
  BY <1>0, <1>5, WindowOfRun
<1>7. /\ Cardinality(ledger) = p * PageSize
      /\ p = 0 => run.verify = 0
      /\ p > 0 => run.verify <= p /\ p * PageSize < run.total
  <2>1. CASE p > 0
    <3>1. run.verify <= p /\ resume = Position(Window, p, run.total, "scan", 0)
      BY <1>0, <1>1, <1>5, <2>1 DEF RunMatches
    <3>2. resume # NoPosition /\ resume.phase = "scan" /\ resume.page = p /\ resume.total = run.total
      BY <1>4, <1>6, <2>1, <3>1, PositionFacts, WindowFacts DEF Position, NoPosition
    <3> QED BY <1>0, <2>1, <3>1, <3>2 DEF SavedMatches
  <2>2. CASE p = 0
    <3>1. /\ run.verify = 0
          /\ resume = NoPosition \/ resume = Position(Window, 0, 0, "scan", 0)
      BY <1>0, <1>1, <1>5, <2>2 DEF RunMatches
    <3>2. 0 * PageSize = 0
      BY ScanAssumption
    <3>3. CASE resume = NoPosition
      BY <1>0, <2>2, <3>1, <3>2, <3>3, FS_EmptySet DEF SavedMatches
    <3>4. CASE resume # NoPosition /\ resume = Position(Window, 0, 0, "scan", 0)
      <4>1. resume.phase = "scan" /\ resume.page = 0
        BY <3>4 DEF Position
      <4> QED BY <1>0, <2>2, <3>1, <3>4, <4>1 DEF SavedMatches
    <3> QED BY <3>1, <3>3, <3>4
  <2> QED BY <1>4, <2>1, <2>2
<1>8. ASSUME ~ScanUnstable(ids, total)
      PROVE  /\ lasting \subseteq Ids \X Nat /\ IsFiniteSet(lasting)
             /\ Cardinality(lasting) = p * PageSize + Cardinality(ids)
             /\ p > 0 => total = run.total
             /\ last => Cardinality(lasting) = total
  <2> DEFINE page == ids \X {p}
  <2>1. \A entry \in ledger : entry[1] \notin ids
    BY <1>8 DEF ScanUnstable
  <2>2. ledger \cap page = {}
    BY <2>1
  <2>3. IsFiniteSet(page) /\ Cardinality(page) = Cardinality(ids)
    BY <1>4, PageEntries
  <2>4. page \subseteq Ids \X Nat
    BY <1>4
  <2> HIDE DEF page
  <2>5. /\ IsFiniteSet(ledger \cup page)
        /\ Cardinality(ledger \cup page) =
               Cardinality(ledger) + Cardinality(page) - Cardinality(ledger \cap page)
    BY <1>4, <2>3, FS_Union
  <2>6. Cardinality(ledger \cap page) = 0
    BY <2>2, FS_EmptySet
  <2>7. lasting = ledger \cup page
    BY DEF page
  <2>8. /\ p > 0 => total = run.total
        /\ last => Cardinality(ledger) + Cardinality(ids) = total
    BY <1>1, <1>8 DEF ScanUnstable
  <2> HIDE DEF lasting, last
  <2>9. Cardinality(lasting) = Cardinality(ledger) + Cardinality(ids)
    BY <1>4, <2>3, <2>5, <2>6, <2>7
  <2> QED BY <1>0, <1>7, <2>4, <2>5, <2>7, <2>8, <2>9 DEF Types
<1>9. ASSUME ~last PROVE Cardinality(ids) = PageSize
  <2>1. (p + 1) * PageSize \in Nat
    BY <1>4, PagesAscend
  <2>2. (p + 1) * PageSize <= Cardinality(Found(Window))
    BY <1>2, <1>4, <1>9, <2>1
  <2> QED BY <1>0, <1>3, <1>4, <2>2, FullPage
<1>10. ASSUME last, NEW q \in Nat PROVE q < p \/ q = p \/ PageIds(Window, q) = {}
  BY <1>0, <1>2, <1>4, <1>10, AfterTheLast
<1> HIDE DEF last, lasting
<1>11. CASE ScanUnstable(ids, total) /\ Restart
  BY <1>5, <1>11, RestartKeeps
<1>12. CASE /\ ~ScanUnstable(ids, total) /\ ~last
            /\ Accept(ids, p, Position(Window, p + 1, total, "scan", 0))
            /\ run' = [run EXCEPT !.page = @ + 1, !.total = total]
  <2>1. /\ run' \in Run /\ run'.mode = "scan" /\ run'.windows = run.windows
        /\ run'.saved = NoPosition /\ run'.page = p + 1 /\ run'.total = total
        /\ run'.verify = run.verify
    BY <1>1, <1>4, <1>5, <1>12 DEF Run
  <2>2. /\ resume' = Position(Window, p + 1, total, "scan", 0) /\ next' = NoWindow
        /\ ledger' = lasting /\ fresh' = fresh \cup ids /\ UNCHANGED <<source, cursor, history>>
    BY <1>5, <1>12 DEF Accept, lasting
  <2>3. Cardinality(ledger') = (p + 1) * PageSize
    BY <1>4, <1>8, <1>9, <1>12, <2>2, PageStep
  <2>4. (p + 1) * PageSize < total /\ p + 1 > 0 /\ run'.verify <= p + 1
    <3>1. (p + 1) * PageSize \in Nat
      BY <1>4, PagesAscend
    <3>2. run.verify <= p
      BY <1>4, <1>7
    <3> QED BY <1>4, <1>12, <2>1, <3>1, <3>2 DEF last
  <2>5. \A q \in Nat : ForGood(q)' => ForGood(q) \/ PageIds(Window, q) \subseteq fresh'
    <3> SUFFICES ASSUME NEW q \in Nat, ForGood(q)', q # p PROVE ForGood(q)
      BY <1>3, <2>2
    <3>1. run.verify <= q /\ q < p
      BY <1>4, <2>1 DEF ForGood
    <3> QED BY <1>1, <1>5, <3>1 DEF ForGood
  <2>6. ledger' \subseteq Ids \X Nat /\ IsFiniteSet(ledger') /\ Cardinality(ledger') \in Nat
    BY <1>8, <1>12, <2>2, FS_CardinalityType
  <2> QED BY <1>4, <1>5, <2>1, <2>2, <2>3, <2>4, <2>5, <2>6, PositionKeeps
<1>13. CASE /\ ~ScanUnstable(ids, total) /\ last /\ run.verify > 0
            /\ Accept(ids, p, Position(Window, 0, total, "verify", run.verify))
            /\ run' = [run EXCEPT !.mode = "verify", !.page = 0, !.total = total]
  <2>1. /\ run' \in Run /\ run'.mode = "verify" /\ run'.windows = run.windows
        /\ run'.saved = NoPosition /\ run'.page = 0 /\ run'.total = total
        /\ run'.verify = run.verify
    BY <1>1, <1>4, <1>5, <1>13 DEF Run
  <2>2. /\ resume' = Position(Window, 0, total, "verify", run.verify) /\ next' = NoWindow
        /\ ledger' = lasting /\ fresh' = fresh \cup ids /\ UNCHANGED <<source, cursor, history>>
    BY <1>5, <1>13 DEF Accept, lasting
  <2>3. Cardinality(ledger') = total
    BY <1>8, <1>13, <2>2
  <2>4. 0 < run.verify /\ (run.verify - 1) * PageSize < total
    <3>1. p > 0 /\ run.verify <= p /\ p * PageSize < total /\ run.verify - 1 \in Nat
          /\ run.verify - 1 <= p
      BY <1>4, <1>7, <1>8, <1>13
    <3>2. (run.verify - 1) * PageSize <= p * PageSize /\ (run.verify - 1) * PageSize \in Nat
          /\ p * PageSize \in Nat
      BY <1>4, <3>1, PagesAscend
    <3> QED BY <1>4, <1>13, <3>1, <3>2
  <2>5. \A q \in Nat : ForGood(q)' => ForGood(q) \/ PageIds(Window, q) \subseteq fresh'
    <3> SUFFICES ASSUME NEW q \in Nat, ForGood(q)', q < p PROVE ForGood(q)
      BY <1>3, <1>10, <1>13, <2>2
    <3>1. run.verify <= q
      BY <1>4, <2>1 DEF ForGood
    <3> QED BY <1>1, <1>5, <3>1 DEF ForGood
  <2>6. ledger' \subseteq Ids \X Nat /\ IsFiniteSet(ledger') /\ Cardinality(ledger') \in Nat
    BY <1>8, <1>13, <2>2, FS_CardinalityType
  <2>7. ASSUME NEW first \in Nat, first = 0 PROVE ScanIInv'
    <3>1. /\ resume' = Position(Window, first, total, "verify", run.verify)
          /\ run'.page = first /\ first < run.verify
      BY <2>1, <2>2, <2>4, <2>7
    <3> QED BY <1>4, <1>5, <2>1, <2>2, <2>3, <2>4, <2>5, <2>6, <3>1, PositionKeeps
  <2> QED BY <2>7
<1>14. CASE ~ScanUnstable(ids, total) /\ last /\ run.verify = 0 /\ Complete(ids)
  <2>1. \A q \in Nat : ForGood(q) \/ PageIds(Window, q) \subseteq ids
    <3> SUFFICES ASSUME NEW q \in Nat, q < p PROVE ForGood(q)
      BY <1>3, <1>10, <1>14
    <3> QED BY <1>1, <1>5, <1>14 DEF ForGood
  <2>2. late \/ \A x \in Found(Window) : x.id \in fresh \cup ids
    BY <1>0, <1>5, <2>1, AllPages
  <2> QED BY <1>4, <1>5, <1>14, <2>2, CompleteKeeps
<1> QED BY <1>1, <1>2, <1>3, <1>11, <1>12, <1>13, <1>14 DEF ScanPage, last

LEMMA VerifyPageKeeps ==
    ASSUME ScanIInv, VerifyPage
    PROVE  ScanIInv'
<1>0. /\ Types /\ OneByOne /\ WindowsMatch /\ SavedMatches /\ RunMatches /\ PagesAreFresh
  BY DEF ScanIInv
<1>1. PICK p : p = run.page
  OBVIOUS
<1>2. PICK total : total = Cardinality(Found(Window))
  OBVIOUS
<1>3. PICK ids : ids = PageIds(Window, p)
  OBVIOUS
<1>4. /\ p \in Nat /\ run.verify \in Nat /\ run.total \in Nat /\ run \in Run
      /\ ids \in SUBSET Ids /\ p + 1 \in Nat /\ total \in Nat
      /\ ledger \subseteq Ids \X Nat /\ IsFiniteSet(ledger) /\ Cardinality(ledger) \in Nat
  <2>1. p \in Nat /\ run.verify \in Nat /\ run.total \in Nat /\ run \in Run
    BY <1>0, <1>1 DEF Types, Run
  <2>2. ledger \subseteq Ids \X Nat /\ IsFiniteSet(ledger)
    BY <1>0 DEF Types
  <2>3. ids \in SUBSET Ids /\ total \in Nat
    BY <1>0, <1>2, <1>3, <2>1, PageFacts, Ranks
  <2> QED BY <2>1, <2>2, <2>3, FS_CardinalityType
<1>5. run.mode = "verify" /\ UNCHANGED source /\ run.windows # <<>> /\ run.saved = NoPosition
  BY <1>0 DEF VerifyPage, WindowsMatch, RunMatches
<1>6. /\ Cardinality(ledger) = run.total /\ p < run.verify
      /\ (run.verify - 1) * PageSize < run.total
  <2>1. resume = Position(Window, p, run.total, "verify", run.verify)
    BY <1>0, <1>1, <1>5 DEF RunMatches
  <2>2. /\ resume.phase = "verify" /\ resume.page = p /\ resume.total = run.total
        /\ resume.verify = run.verify
    BY <2>1 DEF Position
  <2> QED BY <1>0, <2>2 DEF SavedMatches
<1>7. CASE VerifyUnstable(ids, total) /\ Restart
  BY <1>5, <1>7, RestartKeeps
<1>8. CASE /\ ~VerifyUnstable(ids, total) /\ p + 1 < run.verify
           /\ Verified(ids, Position(Window, p + 1, total, "verify", run.verify))
           /\ run' = [run EXCEPT !.page = @ + 1]
  <2>1. total = run.total
    BY <1>8 DEF VerifyUnstable
  <2>2. /\ run' \in Run /\ run'.mode = "verify" /\ run'.windows = run.windows
        /\ run'.saved = NoPosition /\ run'.page = p + 1 /\ run'.total = total
        /\ run'.verify = run.verify
    BY <1>1, <1>4, <1>5, <1>8, <2>1 DEF Run
  <2>3. /\ resume' = Position(Window, p + 1, total, "verify", run.verify) /\ next' = NoWindow
        /\ ledger' = ledger /\ fresh' = fresh \cup ids /\ UNCHANGED <<source, cursor, history>>
    BY <1>5, <1>8 DEF Verified
  <2>4. \A q \in Nat : ForGood(q)' => ForGood(q) \/ PageIds(Window, q) \subseteq fresh'
    <3> SUFFICES ASSUME NEW q \in Nat, ForGood(q)', q # p PROVE ForGood(q)
      BY <1>3, <2>3
    <3>1. q < p \/ run.verify <= q
      BY <1>4, <2>2 DEF ForGood
    <3> QED BY <1>1, <1>5, <3>1 DEF ForGood
  <2>5. /\ ledger' \subseteq Ids \X Nat /\ IsFiniteSet(ledger') /\ Cardinality(ledger') \in Nat
        /\ Cardinality(ledger') = total /\ p + 1 < run.verify
        /\ (run.verify - 1) * PageSize < total
    BY <1>4, <1>6, <1>8, <2>1, <2>3
  <2> QED BY <1>4, <1>5, <2>2, <2>3, <2>4, <2>5, PositionKeeps
<1>9. CASE ~VerifyUnstable(ids, total) /\ p + 1 >= run.verify /\ Complete(ids)
  <2>1. \A q \in Nat : ForGood(q) \/ PageIds(Window, q) \subseteq ids
    <3> SUFFICES ASSUME NEW q \in Nat, q # p PROVE ForGood(q)
      BY <1>3
    <3>1. q < p \/ run.verify <= q
      BY <1>4, <1>6, <1>9
    <3> QED BY <1>1, <1>5, <3>1 DEF ForGood
  <2>2. late \/ \A x \in Found(Window) : x.id \in fresh \cup ids
    BY <1>0, <1>5, <2>1, AllPages
  <2> QED BY <1>4, <1>5, <1>9, <2>2, CompleteKeeps
<1> QED BY <1>1, <1>2, <1>3, <1>7, <1>8, <1>9 DEF VerifyPage
LEMMA NextKeeps ==
    ASSUME ScanIInv, [Next]_vars
    PROVE  ScanIInv'
<1>1. CASE UNCHANGED vars
  <2>1. /\ UNCHANGED <<today, listing, newestFirst, updates, cursor, resume, next, ledger>>
        /\ UNCHANGED <<fresh, run, late, unseen>>
    BY <1>1 DEF vars, source, meta, history
  <2>2. Frontier' = Frontier /\ Active' = Active
    BY <2>1 DEF Frontier, Active, Window
  <2>3. Types' /\ OneByOne' /\ OldIsSafe' /\ NothingMissed'
    BY <2>1, <2>2 DEF ScanIInv, Types, OneByOne, OldIsSafe, NothingMissed
  <2>4. WindowsMatch' /\ SavedMatches' /\ RunMatches'
    BY <2>1, RunFrame, FrontierIsPast DEF ScanIInv
  <2>5. \A p \in Nat : ForGood(p)' => ForGood(p)
    BY <2>1 DEF ForGood
  <2>6. PagesAreFresh'
    BY <2>1, <2>2, <2>5, PagesKept DEF ScanIInv
  <2> QED BY <2>3, <2>4, <2>6 DEF ScanIInv
<1>2. CASE \E i \in Ids : Update(i)
  BY <1>2, UpdateKeeps
<1>3. CASE Midnight
  BY <1>3, MidnightKeeps
<1>4. CASE Start
  BY <1>4, StartKeeps
<1>5. CASE End \/ Fail
  BY <1>5, FailKeeps
<1>6. CASE OpenWindow
  BY <1>6, OpenWindowKeeps
<1>7. CASE Split
  BY <1>7, SplitKeeps
<1>8. CASE ScanPage
  BY <1>8, ScanPageKeeps
<1>9. CASE VerifyPage
  BY <1>9, VerifyPageKeeps
<1> QED BY <1>1, <1>2, <1>3, <1>4, <1>5, <1>6, <1>7, <1>8, <1>9 DEF Next

\* A position in the window of the run is one at the frontier.
LEMMA SameFrontier ==
    ASSUME Types, WindowsMatch, run.windows # <<>>,
           \/ resume' # NoPosition /\ resume'.window = Window
           \/ resume' = NoPosition /\ next' # NoWindow /\ next'[1] = Window[1]
           \/ UNCHANGED meta
    PROVE  Frontier' = Frontier
<1>1. CASE resume' # NoPosition /\ resume'.window = Window
  BY <1>1, WindowOfRun DEF Frontier
<1>2. CASE resume' = NoPosition /\ next' # NoWindow /\ next'[1] = Window[1]
  BY <1>2, WindowOfRun DEF Frontier
<1>3. CASE UNCHANGED meta
  BY <1>3 DEF Frontier, meta
<1> QED BY <1>1, <1>2, <1>3

LEMMA FrontierStep ==
    ASSUME ScanIInv, [Next]_vars
    PROVE  Frontier' >= Frontier
<1>0. Types /\ WindowsMatch /\ RunMatches /\ Frontier \in Nat
  BY FrontierIsPast DEF ScanIInv
<1>1. UNCHANGED meta => Frontier' = Frontier
  BY DEF meta, Frontier
<1>2. ASSUME run.windows # <<>>, NEW page, NEW total, NEW phase, NEW verify,
             resume' = Position(Window, page, total, phase, verify)
      PROVE  Frontier' = Frontier
  <2>1. Window # NoWindow /\ resume'.window = Window
    BY <1>0, <1>2, WindowOfRun, WindowFacts DEF Position
  <2>2. resume' # NoPosition
    BY <2>1, PositionFacts
  <2> QED BY <1>0, <1>2, <2>1, <2>2, SameFrontier
<1>3. CASE UNCHANGED vars \/ (\E i \in Ids : Update(i)) \/ Midnight \/ End \/ Fail
  <2>1. UNCHANGED meta
    BY <1>3 DEF vars, Update, Midnight, End, Fail
  <2> QED BY <1>0, <1>1, <2>1
<1>4. CASE Start
  BY <1>4, StartKeeps
<1>5. CASE OpenWindow
  <2>1. UNCHANGED meta \/ resume' = Position(Window, 0, 0, "scan", 0)
    BY <1>5 DEF OpenWindow, ScanAgain
  <2>2. run.windows # <<>>
    BY <1>5 DEF OpenWindow
  <2> QED BY <1>0, <1>1, <1>2, <2>1, <2>2
<1>6. CASE Split
  <2>1. run.windows # <<>>
    BY <1>0, <1>6 DEF Split, WindowsMatch
  <2>2. next' # NoWindow /\ next'[1] = Window[1] /\ resume' = NoPosition
    BY <1>6 DEF Split, NoWindow
  <2>3. Frontier' = Frontier
    BY <1>0, <2>1, <2>2, SameFrontier
  <2> QED BY <1>0, <2>3
<1>7. ASSUME run.mode \in {"scan", "verify"}, UNCHANGED source, Restart
      PROVE  Frontier' >= Frontier
  <2>1. UNCHANGED meta \/ resume' = Position(Window, 0, 0, "scan", 0)
    BY <1>7 DEF Restart, ScanAgain
  <2> QED BY <1>0, <1>1, <1>2, <1>7, <2>1 DEF WindowsMatch
<1>8. ASSUME run.mode \in {"scan", "verify"}, UNCHANGED source, Complete(PageIds(Window, run.page))
      PROVE  Frontier' >= Frontier
  <2>1. PICK w : w = Window
    OBVIOUS
  <2>2. PageIds(w, run.page) \in SUBSET Ids
    BY <1>0, PageFacts DEF ScanIInv, Types, Run
  <2> QED BY <1>7, <1>8, <2>1, <2>2, CompleteKeeps
<1>9. CASE ScanPage
  <2>1. run.mode = "scan" /\ UNCHANGED source /\ run.windows # <<>>
    BY <1>0, <1>9 DEF ScanPage, WindowsMatch
  <2>2. \/ Restart
        \/ Complete(PageIds(Window, run.page))
        \/ \E page, total, phase, verify : resume' = Position(Window, page, total, phase, verify)
    BY <1>9 DEF ScanPage, Accept
  <2> QED BY <1>0, <1>2, <1>7, <1>8, <2>1, <2>2
<1>10. CASE VerifyPage
  <2>1. run.mode = "verify" /\ UNCHANGED source /\ run.windows # <<>>
    BY <1>0, <1>10 DEF VerifyPage, WindowsMatch
  <2>2. \/ Restart
        \/ Complete(PageIds(Window, run.page))
        \/ \E page, total, phase, verify : resume' = Position(Window, page, total, phase, verify)
    BY <1>10 DEF VerifyPage, Verified
  <2> QED BY <1>0, <1>2, <1>7, <1>8, <2>1, <2>2
<1> QED BY <1>3, <1>4, <1>5, <1>6, <1>9, <1>10 DEF Next
-----------------------------------------------------------------------------
(* The theorems. *)

\* Every reachable state satisfies the inductive invariant: the stored position,
\* the ledger, the windows of the run and what was read belong together
\* (sync_watch, _euvd_resume).
THEOREM ScanCorrect == Spec => []ScanIInv
<1>1. Init => ScanIInv
  BY InitHolds
<1>2. ScanIInv /\ [Next]_vars => ScanIInv'
  BY NextKeeps
<1> QED BY <1>1, <1>2, PTL DEF Spec

\* A stored position is one that a run accepts, with the ledger that belongs to it
\* (_euvd_resume, the ledger check of sync_watch).
LEMMA ResumableHolds == ScanIInv => ScanInv
<1> SUFFICES ASSUME ScanIInv PROVE ScanInv
  OBVIOUS
<1>0. Types /\ WindowsMatch /\ SavedMatches
  BY DEF ScanIInv
<1>1. TypeOK
  <2>1. \A k \in DOMAIN run.windows : run.windows[k] \in Windows
    BY <1>0 DEF Types, Run
  <2> QED BY <1>0, <2>1 DEF Types, TypeOK, Run, Item
<1>2. Resumable
  <2> DEFINE pages == (resume.total + PageSize - 1) \div PageSize
  <2> SUFFICES ASSUME resume # NoPosition, resume # OldPosition
               PROVE  /\ Usable(resume)
                      /\ resume.page = 0 \/ resume.page < pages
                      /\ resume.phase = "verify" => resume.page < resume.verify /\ resume.verify <= pages
                      /\ next = NoWindow
    BY DEF Resumable
  <2>1. /\ resume.page \in Nat /\ resume.total \in Nat /\ resume.verify \in Nat
        /\ resume.phase \in {"scan", "verify"} /\ next = NoWindow
    BY <1>0 DEF Types, Positions, SavedMatches, WindowsMatch
  <2>2. Usable(resume)
    BY <1>0, <2>1 DEF SavedMatches, Usable
  <2>3. CASE resume.phase = "scan"
    <3>1. resume.page # 0 => resume.page * PageSize < resume.total
      BY <1>0, <2>3 DEF SavedMatches
    <3>2. resume.page # 0 => resume.page < pages
      BY <2>1, <3>1, WithinPages
    <3> HIDE DEF pages
    <3> QED BY <2>1, <2>2, <2>3, <3>2
  <2>4. CASE resume.phase = "verify"
    <3>1. resume.page < resume.verify /\ (resume.verify - 1) * PageSize < resume.total
      BY <1>0, <2>4 DEF SavedMatches
    <3>2. resume.verify - 1 \in Nat
      BY <2>1, <3>1
    <3>3. resume.verify - 1 < pages
      BY <2>1, <3>1, <3>2, WithinPages
    <3>4. pages \in Int
      BY <2>1, ScanAssumption
    <3> HIDE DEF pages
    <3>5. resume.page < pages /\ resume.verify <= pages
      BY <2>1, <3>1, <3>3, <3>4
    <3> QED BY <2>1, <2>2, <2>4, <3>1, <3>5
  <2> QED BY <2>1, <2>3, <2>4
<1> QED BY <1>1, <1>2 DEF ScanInv

\* The types, and positions a run can go on from (_euvd_resume).
THEOREM ScanInvCorrect == Spec => []ScanInv
BY ScanCorrect, ResumableHolds, PTL

\* No run that was throttled, cancelled or killed leaves an item behind that it
\* did not read, apart from the change docs/WATCH.md declares (sync_watch).
THEOREM NothingMissedCorrect == Spec => []NothingMissed
<1>1. ScanIInv => NothingMissed
  BY DEF ScanIInv
<1> QED BY <1>1, ScanCorrect, PTL

\* What lies behind is not read again, whenever a run ends (sync_watch).
THEOREM FrontierAdvancesCorrect == Spec => FrontierAdvances
<1>1. ScanIInv /\ [Next]_vars => [Frontier' >= Frontier]_vars
  BY FrontierStep
<1> QED BY <1>1, ScanCorrect, PTL DEF Spec, FrontierAdvances
=============================================================================
