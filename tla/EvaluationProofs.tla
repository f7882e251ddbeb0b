-------------------------- MODULE EvaluationProofs --------------------------
(***************************************************************************)
(* The evaluation, for any set of CVEs, any batch and any number of        *)
(* changes, failures and edits: no change is lost between a source and     *)
(* the alert, every rise has its event, and the initial evaluation is      *)
(* digested and closed only when it is complete.                           *)
(***************************************************************************)
EXTENDS Evaluation, TLAPS, FiniteSetTheorems

-----------------------------------------------------------------------------
(* Batches. *)

\* A set of CVEs has a first and a last one.
LEMMA FirstAndLast ==
    ASSUME NEW S \in SUBSET Cves, S # {}
    PROVE  /\ \E c \in S : \A d \in S : ~(d < c)
           /\ \E c \in S : \A d \in S : d <= c
<1> DEFINE Below(c) == {d \in S : d < c}
           Above(c) == {d \in S : c < d}
<1>1. IsFiniteSet(S) /\ S \subseteq Nat
  BY FS_Subset, EvaluationAssumption
<1>2. IsWellFoundedOn(StrictSubsetOrdering(S), SUBSET S)
  BY <1>1, FS_StrictSubsetOrderingWellFounded, FS_FiniteSubsetsOfFinite
<1>3. \E c \in S : \A d \in S : ~(d < c)
  <2> DEFINE T == {Below(c) : c \in S}
  <2>1. T \subseteq SUBSET S /\ T # {}
    OBVIOUS
  <2>2. PICK X \in T : \A Y \in T : <<Y, X>> \notin StrictSubsetOrdering(S)
    <3> HIDE DEF T
    <3> QED BY <1>2, <2>1, WFMin
  <2>3. PICK c \in S : X = Below(c)
    OBVIOUS
  <2>4. ASSUME NEW d \in S, d < c PROVE FALSE
    <3>0. c \in Nat /\ d \in Nat /\ \A e \in S : e \in Nat
      BY <1>1
    <3>1. Below(d) \subseteq Below(c) /\ d \in Below(c) /\ d \notin Below(d)
      <4>1. \A e \in S : e < d => e < c
        BY <2>4, <3>0
      <4>2. ~(d < d)
        BY <3>0
      <4> QED BY <2>4, <4>1, <4>2
    <3>2. <<Below(d), Below(c)>> \in StrictSubsetOrdering(S)
      BY <3>1 DEF StrictSubsetOrdering
    <3>3. Below(d) \in T
      OBVIOUS
    <3>4. <<Below(d), X>> \notin StrictSubsetOrdering(S)
      BY <2>2, <3>3 DEF T
    <3> HIDE DEF T, Below, Above
    <3> QED BY <2>3, <3>2, <3>4
  <2> QED BY <2>4
<1>4. \E c \in S : \A d \in S : d <= c
  <2> DEFINE T == {Above(c) : c \in S}
  <2>1. T \subseteq SUBSET S /\ T # {}
    OBVIOUS
  <2>2. PICK X \in T : \A Y \in T : <<Y, X>> \notin StrictSubsetOrdering(S)
    <3> HIDE DEF T
    <3> QED BY <1>2, <2>1, WFMin
  <2>3. PICK c \in S : X = Above(c)
    OBVIOUS
  <2>4. ASSUME NEW d \in S, c < d PROVE FALSE
    <3>0. c \in Nat /\ d \in Nat /\ \A e \in S : e \in Nat
      BY <1>1
    <3>1. Above(d) \subseteq Above(c) /\ d \in Above(c) /\ d \notin Above(d)
      <4>1. \A e \in S : d < e => c < e
        BY <2>4, <3>0
      <4>2. ~(d < d)
        BY <3>0
      <4> QED BY <2>4, <4>1, <4>2
    <3>2. <<Above(d), Above(c)>> \in StrictSubsetOrdering(S)
      BY <3>1 DEF StrictSubsetOrdering
    <3>3. Above(d) \in T
      OBVIOUS
    <3>4. <<Above(d), X>> \notin StrictSubsetOrdering(S)
      BY <2>2, <3>3 DEF T
    <3> HIDE DEF T, Below, Above
    <3> QED BY <2>3, <3>2, <3>4
  <2> QED BY <1>1, <2>4
<1> QED BY <1>3, <1>4

\* A batch of `watch evaluate` is not empty, and everything else comes after it.
LEMMA BatchIsLowest ==
    ASSUME NEW S \in SUBSET Cves, S # {}
    PROVE  /\ Lowest(S) # {} /\ Lowest(S) \subseteq S
           /\ \A c \in S \ Lowest(S), m \in Lowest(S) : m < c
<1> DEFINE Below(c) == {d \in S : d < c}
<1>1. IsFiniteSet(S) /\ S \subseteq Nat
  BY FS_Subset, EvaluationAssumption
<1>2. PICK f \in S : \A d \in S : ~(d < f)
  BY FirstAndLast
<1>3. Below(f) = {}
  BY <1>2
<1>4. Cardinality(Below(f)) = 0
  BY <1>3, FS_EmptySet
<1>5. f \in Lowest(S)
  BY <1>4, EvaluationAssumption DEF Lowest
<1>6. ASSUME NEW c \in S \ Lowest(S), NEW m \in Lowest(S), ~(m < c) PROVE FALSE
  <2>0. m \in S
    BY <1>6 DEF Lowest
  <2>1. Below(c) \subseteq Below(m)
    <3>1. c \in Nat /\ m \in Nat /\ \A e \in S : e \in Nat
      BY <1>1, <2>0
    <3>2. \A e \in S : e < c => e < m
      BY <1>6, <3>1
    <3> QED BY <3>2
  <2>2. IsFiniteSet(Below(m))
    BY <1>1, FS_Subset
  <2>3. Cardinality(Below(c)) <= Cardinality(Below(m)) /\ IsFiniteSet(Below(c))
    BY <2>1, <2>2, FS_Subset
  <2>4. Cardinality(Below(c)) \in Nat /\ Cardinality(Below(m)) \in Nat
    BY <2>2, <2>3, FS_CardinalityType
  <2>5. Cardinality(Below(m)) < Limit /\ ~(Cardinality(Below(c)) < Limit)
    BY <1>6 DEF Lowest
  <2> QED BY <2>3, <2>4, <2>5, EvaluationAssumption
<1> QED BY <1>5, <1>6 DEF Lowest

\* The last CVE of a batch.
LEMMA LastOfBatch ==
    ASSUME NEW B \in SUBSET Cves, B # {}
    PROVE  LET last == CHOOSE c \in B : \A d \in B : d <= c
           IN  last \in B /\ \A d \in B : d <= last
BY FirstAndLast
-----------------------------------------------------------------------------
(* The invariant. *)

Syncing == {"nvd", "euvd", "kev", "lookups", "lookup", "epss", "finish", "evaluate"}

\* What a command knows about the tables while it runs.
RunKnows ==
    /\ run.config = config
    /\ run.step \in Syncing => meta.policy = <<run.config.sources>>
    /\ run.step \in Syncing \ {"nvd"} => meta.mode # "none"
    /\ run.step \in Syncing => run.initial \/ meta.mode = "baseline" \/ meta.evaluated
    /\ run.step = "evaluate" /\ run.initial /\ run.complete => meta.synced
    /\ run.step = "all" => run.initial
    /\ run.step = "all" /\ run.complete =>
           meta.synced /\ \A c \in touched : run.last < c

\* Before the first run there is nothing to evaluate.
FirstRun ==
    /\ meta.mode = "none" => ~meta.initialized /\ Known = {} /\ events = {}
    /\ meta.policy = <<>> => Known = {}

ToldToo == \A c \in Cves : alert[c] # NoAlert => told[c] # NoAlert

Inductive ==
    /\ TypeOK
    /\ NothingLost
    /\ RunKnows
    /\ FirstRun
    /\ ToldToo
    /\ RiseIsTold
    /\ InitialIsDigested
-----------------------------------------------------------------------------
(* What the evaluation makes of a CVE. *)

\* The severity is a band, and the snapshot says what the view says.
LEMMA SnapshotFacts ==
    ASSUME TypeOK, NEW c \in Known, NEW cfg \in Configs,
           NEW view, view = View(c, cfg.sources),
           NEW now, now = Snapshot(view, cfg.providers)
    PROVE  /\ now \in Alerts
           /\ now.kev = (view.kev # 0)
           /\ now.band = Severity(view, cfg.providers) /\ now.mark = now.band
           /\ now.epss = EpssBand(view.epss) /\ now.epssMark = now.epss
           /\ now.providers = cfg.providers
<1>1. c \in Cves /\ nvd[c] \in 0..2 /\ euvd[c] \in 0..2 /\ epss[c] \in 0..3
  BY DEF TypeOK, Known, Bands, Scores
<1>2. view.nvd \in 0..2 /\ view.euvd \in 0..2 /\ view.epss \in 0..3
  BY <1>1 DEF View
<1>3. Severity(view, cfg.providers) \in 0..2
  BY <1>2 DEF Severity, Higher
<1>4. EpssBand(view.epss) \in 0..2
  BY <1>2 DEF EpssBand, BandMin
<1>5. cfg.providers \in SUBSET {"nvd", "euvd"}
  BY DEF Configs
<1> HIDE DEF Severity, EpssBand
<1>6. now = [kev |-> view.kev # 0, band |-> Severity(view, cfg.providers),
             mark |-> Severity(view, cfg.providers), epss |-> EpssBand(view.epss),
             epssMark |-> EpssBand(view.epss), providers |-> cfg.providers]
  BY DEF Snapshot
<1>7. now \in Alerts
  BY <1>3, <1>4, <1>5, <1>6 DEF Alerts, Bands
<1> QED BY <1>6, <1>7

\* Only other providers begin the mark of the severity again.
LEMMA RebasedFacts ==
    ASSUME TypeOK, NEW c \in Known, NEW cfg \in Configs, alert[c] # NoAlert,
           NEW view, view = View(c, cfg.sources),
           NEW was, was = Rebased(alert[c], view, cfg.providers)
    PROVE  /\ was \in Alerts /\ alert[c] \in Alerts
           /\ was.kev = alert[c].kev /\ was.epssMark = alert[c].epssMark
           /\ alert[c].providers = cfg.providers => was.mark = alert[c].mark
           /\ alert[c].providers # cfg.providers => was.mark = Severity(view, cfg.providers)
<1>1. alert[c] \in Alerts
  BY DEF TypeOK, Known
<1>2. PICK now : now = Snapshot(view, cfg.providers)
  OBVIOUS
<1>3. Severity(view, cfg.providers) \in Bands
  <2>1. now \in Alerts /\ now.band = Severity(view, cfg.providers)
    BY <1>2, SnapshotFacts
  <2> QED BY <2>1 DEF Alerts
<1> QED BY <1>1, <1>3 DEF Rebased, Alerts

\* The first judgement of a CVE is its snapshot, if the rule matches.
LEMMA JudgedFirst ==
    ASSUME TypeOK, NEW c \in Known, NEW cfg \in Configs, alert[c] = NoAlert,
           NEW view, view = View(c, cfg.sources),
           NEW now, now = Snapshot(view, cfg.providers)
    PROVE  Judged(c, cfg) = IF Matches(view) THEN now ELSE NoAlert
BY DEF Judged

\* A later one says what the tables say now; its marks only rise.
LEMMA JudgedAgain ==
    ASSUME TypeOK, NEW c \in Known, NEW cfg \in Configs, alert[c] # NoAlert,
           NEW view, view = View(c, cfg.sources),
           NEW now, now = Snapshot(view, cfg.providers),
           NEW was, was = Rebased(alert[c], view, cfg.providers),
           NEW new, new = Judged(c, cfg)
    PROVE  /\ new \in Alerts
           /\ new.kev = now.kev /\ new.band = now.band /\ new.epss = now.epss
           /\ new.providers = now.providers
           /\ new.mark \in {now.band, was.mark}
           /\ new.epssMark \in {now.epss, was.epssMark}
<1>1. now \in Alerts
  BY SnapshotFacts
<1>2. was \in Alerts
  BY RebasedFacts
<1>3. new = Marked(was, now)
  BY DEF Judged
<1> DEFINE high == Higher(now.band, was.mark)
           epssHigh == IF was.epssMark = 0 /\ now.epss = 1 THEN 0
                       ELSE Higher(now.epss, was.epssMark)
<1>4. high \in 0..2 /\ high \in {now.band, was.mark}
  BY <1>1, <1>2 DEF Alerts, Bands, Higher
<1>5. epssHigh \in 0..2 /\ epssHigh \in {now.epss, was.epssMark}
  BY <1>1, <1>2 DEF Alerts, Bands, Higher
<1>6. new = [[now EXCEPT !.mark = high] EXCEPT !.epssMark = epssHigh]
  BY <1>3 DEF Marked
<1> HIDE DEF high, epssHigh
<1>7. /\ new \in Alerts
      /\ new.kev = now.kev /\ new.band = now.band /\ new.epss = now.epss
      /\ new.providers = now.providers /\ new.mark = high /\ new.epssMark = epssHigh
  BY <1>1, <1>4, <1>5, <1>6 DEF Alerts, Bands
<1> QED BY <1>4, <1>5, <1>7

EventRows ==
    [cve : Cves, initial : BOOLEAN, occurrence : 0..2,
     kind : {"match", "kev_added", "severity_increase", "epss_increase"}]

\* A first judgement has a match of the digest, if the run is initial.
LEMMA RaisedFacts ==
    ASSUME TypeOK, NEW c \in Known, NEW cfg \in Configs, NEW initial \in BOOLEAN,
           NEW e \in Raised(c, cfg, initial)
    PROVE  /\ e \in EventRows /\ e.cve = c
           /\ initial /\ e.kind = "match" => e.initial
<1> DEFINE view == View(c, cfg.sources)
           now == Snapshot(view, cfg.providers)
           new == Judged(c, cfg)
           previous == Rebased(alert[c], view, cfg.providers)
<1>1. c \in Cves /\ kev[c] \in 0..2 /\ new # NoAlert
  BY DEF TypeOK, Known, KevDays, Raised
<1>2. CASE alert[c] = NoAlert
  <2>1. e = Event(c, "match", 0, initial \/ Backlog(c))
    BY <1>1, <1>2 DEF Raised
  <2>2. Backlog(c) \in BOOLEAN
    BY DEF Backlog
  <2>3. e.cve = c /\ e.kind = "match" /\ e.occurrence = 0 /\ e.initial = (initial \/ Backlog(c))
    BY <2>1 DEF Event
  <2>4. e \in EventRows
    BY <1>1, <2>1, <2>2 DEF Event, EventRows
  <2> QED BY <2>3, <2>4
<1>3. CASE alert[c] # NoAlert
  <2>1. new \in Alerts
    <3>1. PICK n, p : n = now /\ p = previous
      OBVIOUS
    <3> QED BY <1>3, <3>1, JudgedAgain
  <2>2. new.band \in 0..2 /\ new.epss \in 0..2
    BY <2>1 DEF Alerts, Bands
  <2>3. \/ e = Event(c, "kev_added", kev[c], FALSE)
        \/ e = Event(c, "severity_increase", new.band, FALSE)
        \/ e = Event(c, "epss_increase", new.epss, FALSE)
    BY <1>1, <1>3 DEF Raised, When
  <2> HIDE DEF new, now, previous, view
  <2>4. CASE e = Event(c, "kev_added", kev[c], FALSE)
    BY <1>1, <2>4 DEF Event, EventRows
  <2>5. CASE e = Event(c, "severity_increase", new.band, FALSE)
    BY <1>1, <2>2, <2>5 DEF Event, EventRows
  <2>6. CASE e = Event(c, "epss_increase", new.epss, FALSE)
    BY <1>1, <2>2, <2>6 DEF Event, EventRows
  <2> QED BY <2>3, <2>4, <2>5, <2>6
<1> QED BY <1>2, <1>3

\* What rises has an event that names the new value.
LEMMA RaisedKeys ==
    ASSUME TypeOK, NEW c \in Known, NEW cfg \in Configs, NEW initial \in BOOLEAN,
           alert[c] # NoAlert,
           NEW was, was = Rebased(alert[c], View(c, cfg.sources), cfg.providers),
           NEW new, new = Judged(c, cfg)
    PROVE  LET Tells(kind, occurrence) ==
                   \E e \in Raised(c, cfg, initial) : Key(e) = <<c, kind, occurrence>>
           IN  /\ new.kev /\ ~was.kev => Tells("kev_added", kev[c])
               /\ new.mark # was.mark => Tells("severity_increase", new.mark)
               /\ new.epssMark # was.epssMark => Tells("epss_increase", new.epssMark)
<1> DEFINE now == Snapshot(View(c, cfg.sources), cfg.providers)
           Tells(kind, occurrence) ==
               \E e \in Raised(c, cfg, initial) : Key(e) = <<c, kind, occurrence>>
<1>1. /\ new \in Alerts
      /\ new.mark \in {new.band, was.mark} /\ new.epssMark \in {new.epss, was.epssMark}
  <2>1. PICK view, n : view = View(c, cfg.sources) /\ n = now
    OBVIOUS
  <2> QED BY <2>1, JudgedAgain
<1>2. new # NoAlert
  BY <1>1, AlertsAssumption
<1>3. Raised(c, cfg, initial) =
          When(new.kev /\ ~was.kev, Event(c, "kev_added", kev[c], FALSE))
          \cup When(new.mark # was.mark, Event(c, "severity_increase", new.band, FALSE))
          \cup When(new.epssMark # was.epssMark, Event(c, "epss_increase", new.epss, FALSE))
  BY <1>2 DEF Raised
<1>4. ASSUME new.kev, ~was.kev PROVE Tells("kev_added", kev[c])
  <2>1. Event(c, "kev_added", kev[c], FALSE) \in Raised(c, cfg, initial)
    BY <1>3, <1>4 DEF When
  <2> QED BY <2>1 DEF Event, Key
<1>5. ASSUME new.mark # was.mark PROVE Tells("severity_increase", new.mark)
  <2>1. Event(c, "severity_increase", new.band, FALSE) \in Raised(c, cfg, initial)
    BY <1>3, <1>5 DEF When
  <2>2. new.band = new.mark
    BY <1>1, <1>5
  <2> QED BY <2>1, <2>2 DEF Event, Key
<1>6. ASSUME new.epssMark # was.epssMark PROVE Tells("epss_increase", new.epssMark)
  <2>1. Event(c, "epss_increase", new.epss, FALSE) \in Raised(c, cfg, initial)
    BY <1>3, <1>6 DEF When
  <2>2. new.epss = new.epssMark
    BY <1>1, <1>6
  <2> QED BY <2>1, <2>2 DEF Event, Key
<1> QED BY <1>4, <1>5, <1>6
-----------------------------------------------------------------------------
(* A batch. *)

\* Every event of a batch is stored, or one with its key was.
LEMMA EventsAreStored ==
    ASSUME NEW batch \in SUBSET Cves, NEW cfg \in Configs, NEW initial \in BOOLEAN,
           Evaluate(batch, cfg, initial),
           NEW c \in batch \cap Known, NEW e \in Raised(c, cfg, initial)
    PROVE  \E f \in events' : Key(f) = Key(e)
<1> DEFINE raised == UNION {Raised(d, cfg, initial) : d \in batch \cap Known}
<1>1. events' = events \cup Stored(raised)
  BY DEF Evaluate
<1>2. e \in raised
  OBVIOUS
<1> HIDE DEF raised
<1> QED BY <1>1, <1>2 DEF Stored

\* The types of what a batch writes, and the digest of an initial one.
LEMMA EvaluateTypes ==
    ASSUME TypeOK, ToldToo,
           NEW batch \in SUBSET Cves, NEW cfg \in Configs, NEW initial \in BOOLEAN,
           Evaluate(batch, cfg, initial)
    PROVE  /\ alert' \in [Cves -> Alerts \cup {NoAlert}]
           /\ told' \in [Cves -> Alerts \cup {NoAlert}]
           /\ ToldToo'
           /\ events \subseteq events' /\ events' \subseteq EventRows
           /\ initial => \A e \in events' \ events : e.kind = "match" => e.initial
<1>1. \A c \in batch \cap Known : Judged(c, cfg) \in Alerts \cup {NoAlert}
  <2> SUFFICES ASSUME NEW c \in batch \cap Known PROVE Judged(c, cfg) \in Alerts \cup {NoAlert}
    OBVIOUS
  <2>1. PICK view, now, was : view = View(c, cfg.sources) /\ now = Snapshot(view, cfg.providers)
                              /\ was = Rebased(alert[c], view, cfg.providers)
    OBVIOUS
  <2>2. CASE alert[c] = NoAlert
    BY <2>1, <2>2, JudgedFirst, SnapshotFacts
  <2>3. CASE alert[c] # NoAlert
    BY <2>1, <2>3, JudgedAgain
  <2> QED BY <2>2, <2>3
<1>2. alert' = [c \in Cves |-> IF c \in batch \cap Known THEN Judged(c, cfg) ELSE alert[c]]
  BY DEF Evaluate
<1>3. alert' \in [Cves -> Alerts \cup {NoAlert}]
  BY <1>1, <1>2 DEF TypeOK
<1>4. told' = [c \in Cves |->
          IF c \notin batch \cap Known \/ alert'[c] = NoAlert THEN told[c]
          ELSE IF alert[c] = NoAlert THEN alert'[c]
          ELSE IF alert[c].providers = cfg.providers THEN told[c]
          ELSE [told[c] EXCEPT !.mark = alert'[c].band]]
  BY DEF Evaluate
<1>5. \A c \in Cves : told'[c] \in Alerts \cup {NoAlert}
                      /\ (alert'[c] # NoAlert => told'[c] # NoAlert)
  <2> SUFFICES ASSUME NEW c \in Cves
               PROVE  told'[c] \in Alerts \cup {NoAlert}
                      /\ (alert'[c] # NoAlert => told'[c] # NoAlert)
    OBVIOUS
  <2>1. told[c] \in Alerts \cup {NoAlert} /\ alert'[c] \in Alerts \cup {NoAlert}
        /\ (alert[c] # NoAlert => told[c] # NoAlert)
    BY <1>3 DEF TypeOK, ToldToo
  <2>2. CASE c \notin batch \cap Known \/ alert'[c] = NoAlert
    <3>1. told'[c] = told[c]
      BY <1>4, <2>2
    <3>2. c \notin batch \cap Known => alert'[c] = alert[c]
      BY <1>2
    <3> QED BY <2>1, <2>2, <3>1, <3>2
  <2>3. CASE ~(c \notin batch \cap Known \/ alert'[c] = NoAlert) /\ alert[c] = NoAlert
    BY <1>4, <2>1, <2>3
  <2>4. CASE ~(c \notin batch \cap Known \/ alert'[c] = NoAlert) /\ alert[c] # NoAlert
             /\ alert[c].providers = cfg.providers
    BY <1>4, <2>1, <2>4
  <2>5. CASE ~(c \notin batch \cap Known \/ alert'[c] = NoAlert) /\ alert[c] # NoAlert
             /\ alert[c].providers # cfg.providers
    <3>1. told'[c] = [told[c] EXCEPT !.mark = alert'[c].band]
      BY <1>4, <2>5
    <3>2. told[c] \in Alerts /\ alert'[c] \in Alerts
      BY <2>1, <2>5
    <3>3. told'[c] \in Alerts
      BY <3>1, <3>2 DEF Alerts
    <3> QED BY <3>3, AlertsAssumption
  <2> QED BY <2>2, <2>3, <2>4, <2>5
<1>6. told' \in [Cves -> Alerts \cup {NoAlert}] /\ ToldToo'
  BY <1>4, <1>5 DEF ToldToo
<1>7. \A e \in events' \ events : e \in EventRows /\ (initial /\ e.kind = "match" => e.initial)
  <2> SUFFICES ASSUME NEW e \in events' \ events
               PROVE  e \in EventRows /\ (initial /\ e.kind = "match" => e.initial)
    OBVIOUS
  <2>1. \E c \in batch \cap Known : e \in Raised(c, cfg, initial)
    BY DEF Evaluate, Stored
  <2> QED BY <2>1, RaisedFacts
<1>8. events \subseteq events' /\ events \subseteq EventRows
  BY DEF Evaluate, TypeOK, EventRows
<1> QED BY <1>3, <1>6, <1>7, <1>8

\* The alert of a CVE says what the tables say, seen with some sources.
Fair(c, sources) ==
    LET view == View(c, sources)
    IN  IF alert[c] = NoAlert THEN ~Matches(view)
        ELSE /\ alert[c].kev = (view.kev # 0)
             /\ alert[c].epss = EpssBand(view.epss)
             /\ alert[c].band = Severity(view, alert[c].providers)

\* A batch leaves its CVEs so, and the others as they are.
LEMMA EvaluateIsFair ==
    ASSUME TypeOK,
           NEW batch \in SUBSET Cves, NEW cfg \in Configs, NEW initial \in BOOLEAN,
           Evaluate(batch, cfg, initial), UNCHANGED tables
    PROVE  /\ \A c \in batch \cap Known : Fair(c, cfg.sources)'
           /\ \A c \in Cves \ (batch \cap Known) : alert'[c] = alert[c]
<1>1. alert' = [c \in Cves |-> IF c \in batch \cap Known THEN Judged(c, cfg) ELSE alert[c]]
  BY DEF Evaluate
<1>2. ASSUME NEW c \in batch \cap Known PROVE Fair(c, cfg.sources)'
  <2>1. PICK view : view = View(c, cfg.sources)
    OBVIOUS
  <2>2. View(c, cfg.sources)' = view
    BY <2>1 DEF View, tables
  <2>3. PICK now : now = Snapshot(view, cfg.providers)
    OBVIOUS
  <2>4. alert'[c] = Judged(c, cfg)
    BY <1>1
  <2>5. /\ now \in Alerts /\ now.kev = (view.kev # 0) /\ now.epss = EpssBand(view.epss)
        /\ now.band = Severity(view, cfg.providers) /\ now.providers = cfg.providers
    BY <2>1, <2>3, SnapshotFacts
  <2>6. CASE alert'[c] = NoAlert
    <3>1. ~Matches(view)
      <4>1. CASE alert[c] = NoAlert
        <5>1. Judged(c, cfg) = IF Matches(view) THEN now ELSE NoAlert
          BY <2>1, <2>3, <4>1, JudgedFirst
        <5> QED BY <2>4, <2>5, <2>6, <5>1, AlertsAssumption
      <4>2. CASE alert[c] # NoAlert
        <5>1. PICK was : was = Rebased(alert[c], view, cfg.providers)
          OBVIOUS
        <5>2. Judged(c, cfg) \in Alerts
          BY <2>1, <2>3, <4>2, <5>1, JudgedAgain
        <5> QED BY <2>4, <2>6, <5>2, AlertsAssumption
      <4> QED BY <4>1, <4>2
    <3> QED BY <2>2, <2>6, <3>1 DEF Fair
  <2>7. CASE alert'[c] # NoAlert
    <3>1. /\ alert'[c].kev = now.kev /\ alert'[c].band = now.band
          /\ alert'[c].epss = now.epss /\ alert'[c].providers = now.providers
      <4>1. CASE alert[c] = NoAlert
        <5>1. Judged(c, cfg) = IF Matches(view) THEN now ELSE NoAlert
          BY <2>1, <2>3, <4>1, JudgedFirst
        <5> QED BY <2>4, <2>7, <5>1
      <4>2. CASE alert[c] # NoAlert
        <5>1. PICK was : was = Rebased(alert[c], view, cfg.providers)
          OBVIOUS
        <5> QED BY <2>1, <2>3, <2>4, <4>2, <5>1, JudgedAgain
      <4> QED BY <4>1, <4>2
    <3>2. /\ alert'[c].kev = (view.kev # 0) /\ alert'[c].epss = EpssBand(view.epss)
          /\ alert'[c].band = Severity(view, alert'[c].providers)
      BY <2>5, <3>1
    <3> QED BY <2>2, <2>7, <3>2 DEF Fair
  <2> QED BY <2>6, <2>7
<1>3. \A c \in Cves \ (batch \cap Known) : alert'[c] = alert[c]
  BY <1>1
<1> QED BY <1>2, <1>3

\* What rose above what the match told, of one CVE.
Risen(c) ==
    alert[c] # NoAlert =>
        LET Told(kind, occurrence) ==
                \E e \in events : Key(e) = <<c, kind, occurrence>>
        IN  /\ alert[c].mark # told[c].mark => Told("severity_increase", alert[c].mark)
            /\ alert[c].epssMark # told[c].epssMark => Told("epss_increase", alert[c].epssMark)
            /\ alert[c].kev /\ ~told[c].kev => \E day \in KevDays : Told("kev_added", day)

\* A batch tells every rise.
LEMMA EvaluateTells ==
    ASSUME TypeOK, ToldToo, RiseIsTold,
           NEW batch \in SUBSET Cves, NEW cfg \in Configs, NEW initial \in BOOLEAN,
           Evaluate(batch, cfg, initial)
    PROVE  RiseIsTold'
<1> SUFFICES ASSUME NEW c \in Cves PROVE Risen(c)'
  BY DEF RiseIsTold, Risen
<1>1. /\ alert' = [d \in Cves |-> IF d \in batch \cap Known THEN Judged(d, cfg) ELSE alert[d]]
      /\ told' = [d \in Cves |->
            IF d \notin batch \cap Known \/ alert'[d] = NoAlert THEN told[d]
            ELSE IF alert[d] = NoAlert THEN alert'[d]
            ELSE IF alert[d].providers = cfg.providers THEN told[d]
            ELSE [told[d] EXCEPT !.mark = alert'[d].band]]
  BY DEF Evaluate
<1>2. events \subseteq events'
  BY DEF Evaluate
<1>3. Risen(c)
  BY DEF RiseIsTold, Risen
<1>4. CASE alert'[c] = NoAlert
  BY <1>4 DEF Risen
<1>5. CASE alert'[c] # NoAlert /\ c \notin batch \cap Known
  <2>1. alert'[c] = alert[c] /\ told'[c] = told[c]
    BY <1>1, <1>5
  <2> QED BY <1>2, <1>3, <2>1 DEF Risen
<1>6. CASE alert'[c] # NoAlert /\ c \in batch \cap Known /\ alert[c] = NoAlert
  <2>1. told'[c] = alert'[c]
    BY <1>1, <1>6
  <2> QED BY <2>1 DEF Risen
<1>7. CASE alert'[c] # NoAlert /\ c \in batch \cap Known /\ alert[c] # NoAlert
  <2>1. PICK view, now, was, new :
            /\ view = View(c, cfg.sources) /\ now = Snapshot(view, cfg.providers)
            /\ was = Rebased(alert[c], view, cfg.providers) /\ new = Judged(c, cfg)
    OBVIOUS
  <2>2. alert'[c] = new
    BY <1>1, <1>7, <2>1
  <2>3. /\ now.mark = now.band /\ now.band = Severity(view, cfg.providers)
        /\ now.providers = cfg.providers
    BY <1>7, <2>1, SnapshotFacts
  <2>4. /\ was.kev = alert[c].kev /\ was.epssMark = alert[c].epssMark
        /\ alert[c].providers = cfg.providers => was.mark = alert[c].mark
        /\ alert[c].providers # cfg.providers => was.mark = Severity(view, cfg.providers)
    BY <1>7, <2>1, RebasedFacts
  <2>5. new.band = now.band /\ new.mark \in {now.band, was.mark}
    BY <1>7, <2>1, JudgedAgain
  <2>6. \A e \in Raised(c, cfg, initial) : \E f \in events' : Key(f) = Key(e)
    BY <1>7, EventsAreStored
  <2>7. /\ new.kev /\ ~was.kev =>
               \E e \in Raised(c, cfg, initial) : Key(e) = <<c, "kev_added", kev[c]>>
        /\ new.mark # was.mark =>
               \E e \in Raised(c, cfg, initial) : Key(e) = <<c, "severity_increase", new.mark>>
        /\ new.epssMark # was.epssMark =>
               \E e \in Raised(c, cfg, initial) : Key(e) = <<c, "epss_increase", new.epssMark>>
    BY <1>7, <2>1, RaisedKeys
  <2>8. told[c] \in Alerts
    BY <1>7 DEF TypeOK, ToldToo
  <2>9. /\ told'[c].kev = told[c].kev /\ told'[c].epssMark = told[c].epssMark
        /\ alert[c].providers = cfg.providers => told'[c].mark = told[c].mark
        /\ alert[c].providers # cfg.providers => told'[c].mark = new.band
    <3>1. CASE alert[c].providers = cfg.providers
      BY <1>1, <1>7, <3>1
    <3>2. CASE alert[c].providers # cfg.providers
      <4>1. told'[c] = [told[c] EXCEPT !.mark = new.band]
        BY <1>1, <1>7, <2>2, <3>2
      <4> QED BY <2>8, <3>2, <4>1 DEF Alerts
    <3> QED BY <3>1, <3>2
  <2>10. kev[c] \in KevDays
    BY DEF TypeOK
  <2>11. ASSUME new.mark # told'[c].mark
         PROVE  \E f \in events' : Key(f) = <<c, "severity_increase", new.mark>>
    <3>1. alert[c].providers = cfg.providers
      BY <2>4, <2>5, <2>3, <2>9, <2>11
    <3>2. CASE new.mark # was.mark
      BY <2>6, <2>7, <3>2
    <3>3. CASE new.mark = was.mark
      <4>1. alert[c].mark # told[c].mark /\ new.mark = alert[c].mark
        BY <2>4, <2>9, <2>11, <3>1, <3>3
      <4> QED BY <1>2, <1>3, <1>7, <4>1 DEF Risen
    <3> QED BY <3>2, <3>3
  <2>12. ASSUME new.epssMark # told'[c].epssMark
         PROVE  \E f \in events' : Key(f) = <<c, "epss_increase", new.epssMark>>
    <3>1. CASE new.epssMark # was.epssMark
      BY <2>6, <2>7, <3>1
    <3>2. CASE new.epssMark = was.epssMark
      <4>1. alert[c].epssMark # told[c].epssMark /\ new.epssMark = alert[c].epssMark
        BY <2>4, <2>9, <2>12, <3>2
      <4> QED BY <1>2, <1>3, <1>7, <4>1 DEF Risen
    <3> QED BY <3>1, <3>2
  <2>13. ASSUME new.kev, ~told'[c].kev
         PROVE  \E day \in KevDays : \E f \in events' : Key(f) = <<c, "kev_added", day>>
    <3>1. CASE ~was.kev
      BY <2>6, <2>7, <2>10, <2>13, <3>1
    <3>2. CASE was.kev
      <4>1. alert[c].kev /\ ~told[c].kev
        BY <2>4, <2>9, <2>13, <3>2
      <4> QED BY <1>2, <1>3, <1>7, <4>1 DEF Risen
    <3> QED BY <3>1, <3>2
  <2>14. \A f : Key(f)' = Key(f)
    BY DEF Key
  <2> QED BY <2>2, <2>11, <2>12, <2>13, <2>14 DEF Risen
<1> QED BY <1>4, <1>5, <1>6, <1>7
-----------------------------------------------------------------------------
(* What the steps have in common. *)

Metas ==
    [policy : {<<>>} \cup {<<s>> : s \in SUBSET {"euvd"}},
     mode : {"none", "baseline", "backfill"},
     initialized : BOOLEAN, synced : BOOLEAN, evaluated : BOOLEAN]

TablesOK ==
    /\ nvd \in [Cves -> Bands \cup {NoRow}] /\ euvd \in [Cves -> Bands]
    /\ kev \in [Cves -> KevDays] /\ epss \in [Cves -> Scores]
    /\ lookup \subseteq Cves \ Known
    /\ touched \subseteq Known

\* A step that leaves the alerts alone has its types if the rest has.
LEMMA TypesOfRest ==
    ASSUME TypeOK, UNCHANGED <<alert, events, told>>, TablesOK', meta' \in Metas,
           config' \in Configs, run' \in Runs, strayed' \in BOOLEAN
    PROVE  TypeOK'
BY DEF TypeOK, TablesOK, Metas

LEMMA TablesStay ==
    ASSUME TypeOK, UNCHANGED tables, touched' \subseteq Known
    PROVE  TablesOK' /\ Known' = Known
BY DEF TypeOK, TablesOK, tables, Known

\* It leaves what was told, too.
LEMMA ToldStays ==
    ASSUME ToldToo, RiseIsTold, UNCHANGED <<alert, events, told>>
    PROVE  ToldToo' /\ RiseIsTold'
<1>1. ToldToo'
  BY DEF ToldToo
<1>2. ASSUME NEW c \in Cves PROVE Risen(c)'
  <2>1. Risen(c)
    BY DEF RiseIsTold, Risen
  <2> QED BY <2>1 DEF Risen, Key
<1>3. RiseIsTold'
  BY <1>2 DEF RiseIsTold, Risen
<1> QED BY <1>1, <1>3

LEMMA DigestStays ==
    ASSUME FirstRun, InitialIsDigested, UNCHANGED events,
           meta'.mode \in {meta.mode, "baseline"} \/ meta.mode = "none",
           meta.evaluated => meta'.evaluated
    PROVE  InitialIsDigested'
BY DEF FirstRun, InitialIsDigested

\* An alert stays fair while the tables say the same about it.
LEMMA StaysFair ==
    ASSUME NEW c \in Cves, NEW sources, alert'[c] = alert[c], Fair(c, sources),
           nvd'[c] = nvd[c], euvd'[c] = euvd[c], kev'[c] = kev[c],
           EpssBand(epss'[c]) = EpssBand(epss[c]),
           epss'[c] >= EpssMin <=> epss[c] >= EpssMin
    PROVE  Fair(c, sources)'
<1>1. PICK view, new : view = View(c, sources) /\ new = View(c, sources)'
  OBVIOUS
<1>2. /\ new.nvd = view.nvd /\ new.euvd = view.euvd /\ new.kev = view.kev
      /\ EpssBand(new.epss) = EpssBand(view.epss)
      /\ new.epss >= EpssMin <=> view.epss >= EpssMin
  BY <1>1 DEF View
<1>3. \A p : Severity(new, p) = Severity(view, p)
  BY <1>2 DEF Severity
<1>4. Matches(new) <=> Matches(view)
  BY <1>2 DEF Matches
<1>5. Fair(c, sources) <=>
          IF alert[c] = NoAlert THEN ~Matches(view)
          ELSE /\ alert[c].kev = (view.kev # 0)
               /\ alert[c].epss = EpssBand(view.epss)
               /\ alert[c].band = Severity(view, alert[c].providers)
  BY <1>1 DEF Fair
<1>6. Fair(c, sources)' <=>
          IF alert'[c] = NoAlert THEN ~Matches(new)
          ELSE /\ alert'[c].kev = (new.kev # 0)
               /\ alert'[c].epss = EpssBand(new.epss)
               /\ alert'[c].band = Severity(new, alert'[c].providers)
  BY <1>1 DEF Fair
<1> QED BY <1>2, <1>3, <1>4, <1>5, <1>6

\* No change is lost in a step that queues the CVEs it changes.
LEMMA QueuesItsChanges ==
    ASSUME TypeOK, NothingLost, UNCHANGED <<alert, strayed>>, meta'.policy = meta.policy,
           \A c \in Known' \ touched' :
               /\ c \in Known \ touched
               /\ nvd'[c] = nvd[c] /\ euvd'[c] = euvd[c] /\ kev'[c] = kev[c]
               /\ EpssBand(epss'[c]) = EpssBand(epss[c])
               /\ epss'[c] >= EpssMin <=> epss[c] >= EpssMin
    PROVE  NothingLost'
<1>1. PICK sources : sources = meta.policy[1]
  OBVIOUS
<1>2. SUFFICES ASSUME ~strayed, NEW c \in Known' \ touched' PROVE Fair(c, sources)'
  BY <1>1 DEF NothingLost, Fair
<1>3. c \in Known \ touched /\ c \in Cves
  BY DEF Known
<1>4. Fair(c, sources)
  BY <1>1, <1>2, <1>3 DEF NothingLost, Fair
<1> QED BY <1>3, <1>4, StaysFair

LEMMA NothingChanges ==
    ASSUME TypeOK, NothingLost, UNCHANGED <<tables, alert, strayed>>,
           meta'.policy = meta.policy, touched \subseteq touched'
    PROVE  NothingLost'
BY QueuesItsChanges DEF Known, tables

LEMMA OffRun ==
    ASSUME NEW cfg \in Configs
    PROVE  /\ Off(cfg) \in Runs /\ Off(cfg).step = "off" /\ Off(cfg).config = cfg
           /\ Off(cfg).initial = FALSE /\ Off(cfg).complete = TRUE /\ Off(cfg).last = 0
BY DEF Off, Runs

\* While no command runs it knows only the configuration.
LEMMA OffKnows ==
    ASSUME TypeOK, config' \in Configs, run' = Off(config)'
    PROVE  RunKnows' /\ run' \in Runs
<1>1. Off(config)' = Off(config')
  BY DEF Off
<1>2. run' \in Runs /\ run'.step = "off" /\ run'.config = config'
  BY <1>1, OffRun
<1> QED BY <1>2 DEF RunKnows, Syncing
-----------------------------------------------------------------------------
(* The steps. *)

LEMMA BeginKeeps == Inductive /\ Begin => Inductive'
<1> SUFFICES ASSUME Inductive, Begin PROVE Inductive'
  OBVIOUS
<1> USE DEF Inductive
<1> DEFINE mode == IF meta.mode = "none" THEN config.initial ELSE meta.mode
           step == IF ~meta.initialized /\ mode = "baseline" THEN "baseline" ELSE "nvd"
<1>1. /\ UNCHANGED <<tables, alert, events, told, config>>
      /\ touched' = IF meta.policy = <<config.sources>> THEN touched ELSE touched \cup Known
      /\ strayed' = (strayed /\ meta.policy = <<config.sources>>)
      /\ meta' = [meta EXCEPT !.policy = <<config.sources>>]
      /\ run' = [Off(config) EXCEPT !.step = step, !.initial = Initial(mode)]
  BY DEF Begin
<1>2. config \in Configs /\ config.sources \in SUBSET {"euvd"}
      /\ config.initial \in {"baseline", "backfill"} /\ meta \in Metas /\ touched \subseteq Known
  BY DEF TypeOK, Configs, Metas
<1>3. /\ meta' \in Metas /\ meta'.policy = <<config.sources>> /\ meta'.mode = meta.mode
      /\ meta'.initialized = meta.initialized /\ meta'.evaluated = meta.evaluated
      /\ meta'.synced = meta.synced
  BY <1>1, <1>2 DEF Metas
<1>4. Initial(mode) \in BOOLEAN
  BY <1>2 DEF Initial, Metas
<1>5. /\ run' \in Runs /\ run'.step = step /\ run'.config = config
      /\ run'.initial = Initial(mode)
  <2>1. Off(config) \in Runs /\ Off(config).config = config
    BY <1>2, OffRun
  <2>2. step \in {"baseline", "nvd"}
    OBVIOUS
  <2> HIDE DEF step, mode
  <2>3. run' \in Runs
    BY <1>1, <1>4, <2>1, <2>2 DEF Runs
  <2> QED BY <1>1, <2>1, <2>3 DEF Runs
<1>6. TypeOK' /\ Known' = Known
  <2>1. TablesOK' /\ Known' = Known
    BY <1>1, <1>2, TablesStay
  <2>2. strayed' \in BOOLEAN
    BY <1>1 DEF TypeOK
  <2> QED BY <1>1, <1>2, <1>3, <1>5, <2>1, <2>2, TypesOfRest
<1>7. NothingLost'
  <2>1. CASE meta.policy = <<config.sources>>
    BY <1>1, <1>3, <2>1, NothingChanges DEF TypeOK
  <2>2. CASE meta.policy # <<config.sources>>
    <3>1. Known' \ touched' = {}
      BY <1>1, <1>6, <2>2
    <3> QED BY <3>1 DEF NothingLost
  <2> QED BY <2>1, <2>2
<1>8. RunKnows'
  <2>1. run'.config = config' /\ meta'.policy = <<run'.config.sources>>
    BY <1>1, <1>3, <1>5
  <2>2. CASE step = "baseline"
    BY <1>5, <2>1, <2>2 DEF RunKnows, Syncing
  <2>3. CASE step = "nvd"
    <3>1. run'.initial \/ meta'.mode = "baseline" \/ meta'.evaluated
      BY <1>2, <1>3, <1>5, <2>3 DEF Initial, FirstRun, Metas
    <3> QED BY <1>5, <2>1, <2>3, <3>1 DEF RunKnows, Syncing
  <2> QED BY <2>2, <2>3
<1>9. FirstRun'
  BY <1>1, <1>3, <1>6 DEF FirstRun
<1>10. ToldToo' /\ RiseIsTold'
  BY <1>1, ToldStays
<1>11. InitialIsDigested'
  BY <1>1, <1>3, DigestStays
<1> QED BY <1>6, <1>7, <1>8, <1>9, <1>10, <1>11

LEMMA BaselineKeeps == Inductive /\ Baseline => Inductive'
<1> SUFFICES ASSUME Inductive, Baseline PROVE Inductive'
  OBVIOUS
<1> USE DEF Inductive
<1>1. /\ UNCHANGED <<tables, touched, alert, events, told, strayed, config>>
      /\ meta' = [meta EXCEPT !.mode = "baseline", !.initialized = TRUE]
      /\ run' = Off(config)'
  BY DEF Baseline, history, Off
<1>2. meta \in Metas
  BY DEF TypeOK, Metas
<1>3. /\ meta' \in Metas /\ meta'.policy = meta.policy /\ meta'.mode = "baseline"
      /\ meta'.evaluated = meta.evaluated
  BY <1>1, <1>2 DEF Metas
<1>4. run' \in Runs /\ RunKnows'
  BY <1>1, OffKnows DEF TypeOK
<1>5. TypeOK' /\ Known' = Known
  <2>1. TablesOK' /\ Known' = Known
    BY <1>1, TablesStay DEF TypeOK
  <2> QED BY <1>1, <1>3, <1>4, <2>1, TypesOfRest DEF TypeOK
<1>6. NothingLost'
  BY <1>1, <1>3, NothingChanges
<1>7. FirstRun'
  BY <1>3, <1>5 DEF FirstRun
<1>8. ToldToo' /\ RiseIsTold'
  BY <1>1, ToldStays
<1>9. InitialIsDigested'
  BY <1>1, <1>3, DigestStays
<1> QED BY <1>4, <1>5, <1>6, <1>7, <1>8, <1>9

\* A run goes on to another of its steps before the evaluation.
LEMMA MovesOn ==
    ASSUME TypeOK, RunKnows, run.step \in Syncing, NEW next \in Syncing \ {"evaluate"},
           run'.step = next, run'.config = run.config, run'.initial = run.initial,
           UNCHANGED config, meta'.policy = meta.policy, meta'.evaluated = meta.evaluated,
           meta.mode = "baseline" => meta'.mode = "baseline",
           next = "nvd" \/ meta'.mode # "none"
    PROVE  RunKnows'
BY DEF RunKnows, Syncing

LEMMA GoesOn ==
    ASSUME TypeOK, RunKnows, run.step \in Syncing, NEW next \in Syncing \ {"evaluate"},
           run' = [run EXCEPT !.step = next],
           UNCHANGED <<config, meta>>, next # "nvd", run.step # "nvd"
    PROVE  RunKnows' /\ run' \in Runs
<1>1. run \in Runs
  BY DEF TypeOK
<1>2. /\ run' \in Runs /\ run'.step = next /\ run'.config = run.config
      /\ run'.initial = run.initial
  BY <1>1 DEF Runs, Syncing
<1>3. meta'.mode # "none"
  BY DEF RunKnows, Syncing
<1> QED BY <1>2, <1>3, MovesOn

\* Rows of the NVD are queued as they are written.
LEMMA UpsertKeeps ==
    ASSUME Inductive, NEW new \in [Cves -> Bands \cup {NoRow}], Upsert(new),
           UNCHANGED <<euvd, kev, epss, alert, strayed>>, meta'.policy = meta.policy
    PROVE  /\ TablesOK' /\ NothingLost'
           /\ Known \subseteq Known'
<1> USE DEF Inductive
<1> DEFINE written == Differing(nvd, new)
<1>1. /\ nvd' = new /\ lookup' = lookup \ written /\ touched' = touched \cup written
      /\ \A c \in written : new[c] # NoRow
  BY DEF Upsert
<1>2. \A c \in Cves : c \in written <=> nvd[c] # new[c]
  BY DEF Differing
<1>3. written \subseteq Cves
  BY DEF Differing
<1> HIDE DEF written
<1>4. Known' = Known \cup written
  BY <1>1, <1>2, <1>3 DEF Known, TypeOK
<1>5. TablesOK'
  BY <1>1, <1>4 DEF TablesOK, TypeOK
<1>6. NothingLost'
  <2>1. \A c \in Known' \ touched' : c \in Known \ touched /\ nvd'[c] = nvd[c]
    BY <1>1, <1>2, <1>4 DEF Known
  <2> QED BY <2>1, QueuesItsChanges
<1> QED BY <1>4, <1>5, <1>6

LEMMA NvdWindowKeeps == Inductive /\ (\E last \in BOOLEAN : NvdWindow(last)) => Inductive'
<1> SUFFICES ASSUME Inductive, NEW last \in BOOLEAN, NvdWindow(last) PROVE Inductive'
  OBVIOUS
<1> USE DEF Inductive
<1>1. /\ UNCHANGED <<euvd, kev, epss, alert, events, told, strayed, config>>
      /\ meta' = [meta EXCEPT !.mode = IF @ = "none" THEN "backfill" ELSE @,
                              !.initialized = @ \/ last]
      /\ run.step = "nvd"
      /\ IF last THEN run' = [run EXCEPT !.step = "euvd"] ELSE run' = run
  BY DEF NvdWindow, history, Goes
<1>2. PICK new \in [Cves -> Bands \cup {NoRow}] : Upsert(new)
  BY DEF NvdWindow
<1>3. meta \in Metas /\ run \in Runs
  BY DEF TypeOK, Metas
<1>4. /\ meta' \in Metas /\ meta'.policy = meta.policy /\ meta'.evaluated = meta.evaluated
      /\ meta'.mode = IF meta.mode = "none" THEN "backfill" ELSE meta.mode
  BY <1>1, <1>3 DEF Metas
<1>5. TablesOK' /\ NothingLost' /\ Known \subseteq Known'
  BY <1>1, <1>2, <1>4, UpsertKeeps
<1>6. /\ run' \in Runs /\ run'.step = (IF last THEN "euvd" ELSE "nvd")
      /\ run'.config = run.config /\ run'.initial = run.initial
  BY <1>1, <1>3 DEF Runs
<1>7. TypeOK'
  BY <1>1, <1>4, <1>5, <1>6, TypesOfRest DEF TypeOK
<1>8. RunKnows'
  <2>1. PICK next : next = run'.step
    OBVIOUS
  <2>2. next \in Syncing \ {"evaluate"} /\ run.step \in Syncing
    BY <1>1, <1>6, <2>1 DEF Syncing
  <2>3. meta'.mode # "none" /\ (meta.mode = "baseline" => meta'.mode = "baseline")
    BY <1>4
  <2> QED BY <1>1, <1>4, <1>6, <2>1, <2>2, <2>3, MovesOn
<1>9. FirstRun'
  <2>1. meta.policy # <<>>
    BY <1>1 DEF RunKnows, Syncing
  <2> QED BY <1>4, <2>1 DEF FirstRun
<1>10. ToldToo' /\ RiseIsTold'
  BY <1>1, ToldStays
<1>11. InitialIsDigested'
  BY <1>1, <1>4, DigestStays
<1> QED BY <1>5, <1>7, <1>8, <1>9, <1>10, <1>11

LEMMA LookUpKeeps == Inductive /\ LookUp => Inductive'
<1> SUFFICES ASSUME Inductive, LookUp PROVE Inductive'
  OBVIOUS
<1> USE DEF Inductive
<1>1. UNCHANGED <<euvd, kev, epss, alert, events, meta, config, run, told, strayed>>
  BY DEF LookUp, history
<1>2. PICK new \in [Cves -> Bands \cup {NoRow}] : Upsert(new)
  <2>1. PICK c \in lookup, band \in Bands : Upsert([nvd EXCEPT ![c] = band])
    BY DEF LookUp
  <2>2. [nvd EXCEPT ![c] = band] \in [Cves -> Bands \cup {NoRow}]
    BY DEF TypeOK
  <2> QED BY <2>1, <2>2
<1>3. TablesOK' /\ NothingLost' /\ Known \subseteq Known'
  BY <1>1, <1>2, UpsertKeeps
<1>4. TypeOK'
  BY <1>1, <1>3, TypesOfRest DEF TypeOK, Metas
<1>5. run.step = "lookup"
  BY DEF LookUp
<1>6. RunKnows'
  BY <1>1, <1>5 DEF RunKnows, Syncing
<1>7. FirstRun'
  <2>1. meta.policy # <<>> /\ meta.mode # "none"
    BY <1>5 DEF RunKnows, Syncing
  <2> QED BY <1>1, <2>1 DEF FirstRun
<1>8. ToldToo' /\ RiseIsTold'
  BY <1>1, ToldStays
<1>9. InitialIsDigested'
  BY <1>1, DigestStays
<1> QED BY <1>3, <1>4, <1>6, <1>7, <1>8, <1>9

\* A step of the synchronisation behind the windows of the NVD.
LEMMA SyncStepKeeps ==
    ASSUME Inductive, run.step \in Syncing \ {"nvd"},
           UNCHANGED <<alert, events, told, strayed, config, meta>>, Known' = Known,
           TablesOK', NothingLost', run' \in Runs, RunKnows'
    PROVE  Inductive'
<1> USE DEF Inductive
<1>1. TypeOK'
  BY TypesOfRest DEF TypeOK, Metas
<1>2. FirstRun'
  BY DEF FirstRun
<1>3. ToldToo' /\ RiseIsTold'
  BY ToldStays
<1>4. InitialIsDigested'
  BY DigestStays
<1> QED BY <1>1, <1>2, <1>3, <1>4

LEMMA EuvdPageKeeps == Inductive /\ EuvdPage => Inductive'
<1> SUFFICES ASSUME Inductive, EuvdPage PROVE Inductive'
  OBVIOUS
<1>1. UNCHANGED <<nvd, kev, epss, lookup, alert, events, meta, config, run, told, strayed>>
  BY DEF EuvdPage, history
<1>2. PICK new \in [Cves -> Bands] :
          /\ euvd' = new
          /\ touched' = touched \cup (Differing(euvd, new) \cap Known)
  BY DEF EuvdPage, MarkTouched
<1>3. \A c \in Cves : c \in Differing(euvd, new) <=> euvd[c] # new[c]
  BY DEF Differing
<1>4. Known' = Known
  BY <1>1 DEF Known
<1>5. TablesOK'
  BY <1>1, <1>2, <1>4 DEF Inductive, TypeOK, TablesOK
<1>6. NothingLost'
  <2>1. \A c \in Known' \ touched' : c \in Known \ touched /\ euvd'[c] = euvd[c]
    BY <1>2, <1>3, <1>4 DEF Known
  <2> QED BY <1>1, <2>1, QueuesItsChanges DEF Inductive
<1>7. run.step \in Syncing \ {"nvd"}
  BY DEF EuvdPage, Syncing
<1>8. run' \in Runs /\ RunKnows'
  BY <1>1, <1>7 DEF Inductive, TypeOK, RunKnows, Syncing
<1> QED BY <1>1, <1>4, <1>5, <1>6, <1>7, <1>8, SyncStepKeeps

LEMMA ReplaceKevKeeps == Inductive /\ ReplaceKev => Inductive'
<1> SUFFICES ASSUME Inductive, ReplaceKev PROVE Inductive'
  OBVIOUS
<1>1. UNCHANGED <<nvd, euvd, epss, lookup, alert, events, meta, config, told, strayed>>
  BY DEF ReplaceKev, history
<1>2. PICK new \in [Cves -> KevDays] :
          /\ kev' = new
          /\ touched' = touched \cup (KevChanges(kev, new) \cap Known)
  BY DEF ReplaceKev, MarkTouched
<1>3. \A c \in Cves : c \in KevChanges(kev, new) <=> kev[c] # new[c]
  BY DEF KevChanges, Differing
<1>4. Known' = Known
  BY <1>1 DEF Known
<1>5. TablesOK'
  BY <1>1, <1>2, <1>4 DEF Inductive, TypeOK, TablesOK
<1>6. NothingLost'
  <2>1. \A c \in Known' \ touched' : c \in Known \ touched /\ kev'[c] = kev[c]
    BY <1>2, <1>3, <1>4 DEF Known
  <2> QED BY <1>1, <2>1, QueuesItsChanges DEF Inductive
<1>7. run.step \in Syncing \ {"nvd"} /\ run.step # "nvd"
  BY DEF ReplaceKev, Syncing
<1>8. run' \in Runs /\ RunKnows'
  <2>1. PICK next \in Syncing \ {"evaluate"} : next = "lookups"
    BY DEF Syncing
  <2> QED BY <1>1, <1>7, <2>1, GoesOn DEF Inductive, ReplaceKev, Goes
<1> QED BY <1>1, <1>4, <1>5, <1>6, <1>7, <1>8, SyncStepKeeps

\* A score that crossed no limit leaves an alert as fair as it was.
LEMMA ScoresThatMatter ==
    ASSUME NEW old \in [Cves -> Scores], NEW new \in [Cves -> Scores],
           NEW c \in Cves, c \notin EpssChanges(old, new)
    PROVE  /\ EpssBand(new[c]) = EpssBand(old[c])
           /\ new[c] >= EpssMin <=> old[c] >= EpssMin
<1>1. old[c] \in 0..3 /\ new[c] \in 0..3
  BY DEF Scores
<1>2. CASE old[c] = new[c]
  BY <1>2
<1>3. CASE old[c] # new[c]
  <2>1. c \in Differing(old, new)
    BY <1>3 DEF Differing
  <2>2. /\ old[c] # 0 /\ new[c] # 0
        /\ (old[c] < BandMin) = (new[c] < BandMin) /\ (old[c] < EpssMin) = (new[c] < EpssMin)
    BY <2>1 DEF EpssChanges
  <2> QED BY <1>1, <2>2 DEF EpssBand, BandMin, EpssMin
<1> QED BY <1>2, <1>3

LEMMA ReplaceEpssKeeps == Inductive /\ ReplaceEpss => Inductive'
<1> SUFFICES ASSUME Inductive, ReplaceEpss PROVE Inductive'
  OBVIOUS
<1>1. UNCHANGED <<nvd, euvd, kev, lookup, alert, events, meta, config, told, strayed>>
  BY DEF ReplaceEpss, history
<1>2. PICK new \in [Cves -> Scores] :
          /\ epss' = new
          /\ touched' = touched \cup (EpssChanges(epss, new) \cap Known)
  BY DEF ReplaceEpss, MarkTouched
<1>3. epss \in [Cves -> Scores]
  BY DEF Inductive, TypeOK
<1>4. Known' = Known
  BY <1>1 DEF Known
<1>5. TablesOK'
  BY <1>1, <1>2, <1>4 DEF Inductive, TypeOK, TablesOK
<1>6. NothingLost'
  <2>1. \A c \in Known' \ touched' :
            c \in Known \ touched /\ c \in Cves /\ c \notin EpssChanges(epss, new)
    BY <1>2, <1>4 DEF Known
  <2>2. \A c \in Known' \ touched' :
            /\ EpssBand(epss'[c]) = EpssBand(epss[c])
            /\ epss'[c] >= EpssMin <=> epss[c] >= EpssMin
    BY <1>2, <1>3, <2>1, ScoresThatMatter
  <2> QED BY <1>1, <2>1, <2>2, QueuesItsChanges DEF Inductive
<1>7. run.step \in Syncing \ {"nvd"} /\ run.step # "nvd"
  BY DEF ReplaceEpss, Syncing
<1>8. run' \in Runs /\ RunKnows'
  <2>1. PICK next \in Syncing \ {"evaluate"} : next = "finish"
    BY DEF Syncing
  <2> QED BY <1>1, <1>7, <2>1, GoesOn DEF Inductive, ReplaceEpss, Goes
<1> QED BY <1>1, <1>4, <1>5, <1>6, <1>7, <1>8, SyncStepKeeps

LEMMA EuvdEndsKeeps == Inductive /\ EuvdEnds => Inductive'
<1> SUFFICES ASSUME Inductive, EuvdEnds PROVE Inductive'
  OBVIOUS
<1>1. UNCHANGED <<tables, touched, alert, events, meta, config, told, strayed>>
  BY DEF EuvdEnds, history
<1>2. run.step \in Syncing \ {"nvd"} /\ run.step # "nvd"
  BY DEF EuvdEnds, Syncing
<1>3. TablesOK' /\ Known' = Known /\ NothingLost'
  BY <1>1, TablesStay, NothingChanges DEF Inductive, TypeOK
<1>4. run' \in Runs /\ RunKnows'
  <2>1. PICK next \in Syncing \ {"evaluate"} : next = "kev"
    BY DEF Syncing
  <2> QED BY <1>1, <1>2, <2>1, GoesOn DEF Inductive, EuvdEnds, Goes
<1> QED BY <1>1, <1>2, <1>3, <1>4, SyncStepKeeps

LEMMA SyncLookupsKeeps == Inductive /\ SyncLookups => Inductive'
<1> SUFFICES ASSUME Inductive, SyncLookups PROVE Inductive'
  OBVIOUS
<1>1. /\ UNCHANGED <<nvd, euvd, kev, epss, touched, alert, events, meta, config, told, strayed>>
      /\ lookup' = {c \in Cves \ Known : kev[c] = 2}
  BY DEF SyncLookups, history
<1>2. run.step \in Syncing \ {"nvd"} /\ run.step # "nvd"
  BY DEF SyncLookups, Syncing
<1>3. TablesOK' /\ Known' = Known
  BY <1>1 DEF Inductive, TypeOK, TablesOK, Known
<1>4. NothingLost'
  BY <1>1, <1>3, QueuesItsChanges DEF Inductive
<1>5. run' \in Runs /\ RunKnows'
  <2>1. PICK next \in Syncing \ {"evaluate"} : next = "lookup"
    BY DEF Syncing
  <2> QED BY <1>1, <1>2, <2>1, GoesOn DEF Inductive, SyncLookups, Goes
<1> QED BY <1>1, <1>2, <1>3, <1>4, <1>5, SyncStepKeeps

LEMMA LookupsEndKeeps == Inductive /\ LookupsEnd => Inductive'
<1> SUFFICES ASSUME Inductive, LookupsEnd PROVE Inductive'
  OBVIOUS
<1>1. UNCHANGED <<tables, touched, alert, events, meta, config, told, strayed>>
  BY DEF LookupsEnd, history
<1>2. run.step \in Syncing \ {"nvd"} /\ run.step # "nvd"
  BY DEF LookupsEnd, Syncing
<1>3. TablesOK' /\ Known' = Known /\ NothingLost'
  BY <1>1, TablesStay, NothingChanges DEF Inductive, TypeOK
<1>4. run' \in Runs /\ RunKnows'
  <2>1. PICK next \in Syncing \ {"evaluate"} : next = "epss"
    BY DEF Syncing
  <2> QED BY <1>1, <1>2, <2>1, GoesOn DEF Inductive, LookupsEnd, Goes
<1> QED BY <1>1, <1>2, <1>3, <1>4, SyncStepKeeps

LEMMA SourceFailsKeeps == Inductive /\ SourceFails => Inductive'
<1> SUFFICES ASSUME Inductive, SourceFails PROVE Inductive'
  OBVIOUS
<1>1. /\ UNCHANGED <<tables, touched, alert, events, meta, config, told, strayed>>
      /\ run' = [run EXCEPT !.step = After[run.step], !.complete = FALSE]
      /\ run.step \in {"euvd", "kev", "epss"}
  BY DEF SourceFails, history, After
<1>2. run.step \in Syncing \ {"nvd"} /\ run.step # "nvd"
  BY <1>1 DEF Syncing
<1>3. TablesOK' /\ Known' = Known /\ NothingLost'
  BY <1>1, TablesStay, NothingChanges DEF Inductive, TypeOK
<1>4. run' \in Runs /\ RunKnows'
  <2>1. PICK next \in Syncing \ {"evaluate", "nvd"} : next = After[run.step]
    BY <1>1 DEF After, Syncing
  <2>2. run \in Runs
    BY DEF Inductive, TypeOK
  <2>3. run' \in Runs /\ run'.step = next /\ run'.config = run.config
        /\ run'.initial = run.initial
    BY <1>1, <2>1, <2>2 DEF Runs, Syncing
  <2>4. meta.mode # "none"
    BY <1>2 DEF Inductive, RunKnows
  <2> QED BY <1>1, <1>2, <2>3, <2>4, MovesOn DEF Inductive
<1> QED BY <1>1, <1>2, <1>3, <1>4, SyncStepKeeps

LEMMA FinishKeeps == Inductive /\ (\E next \in {"evaluate", "off"} : Finish(next)) => Inductive'
<1> SUFFICES ASSUME Inductive, NEW next \in {"evaluate", "off"}, Finish(next)
             PROVE  Inductive'
  OBVIOUS
<1> USE DEF Inductive
<1>1. /\ UNCHANGED <<tables, touched, alert, events, told, strayed, config>>
      /\ meta' = [meta EXCEPT !.synced = @ \/ (run.initial /\ run.complete)]
      /\ run' = IF next = "off" THEN Off(config) ELSE [run EXCEPT !.step = next]
      /\ run.step = "finish"
  BY DEF Finish, history
<1>2. meta \in Metas /\ run \in Runs
  BY DEF TypeOK, Metas
<1>3. run.initial \in BOOLEAN /\ run.complete \in BOOLEAN /\ meta.synced \in BOOLEAN
  BY <1>2 DEF Runs, Metas
<1>4. /\ meta' \in Metas /\ meta'.policy = meta.policy /\ meta'.mode = meta.mode
      /\ meta'.initialized = meta.initialized /\ meta'.evaluated = meta.evaluated
      /\ meta'.synced = (meta.synced \/ (run.initial /\ run.complete))
  BY <1>1, <1>2, <1>3 DEF Metas
<1>5. run' \in Runs /\ RunKnows'
  <2>1. CASE next = "off"
    <3>1. run' = Off(config)'
      BY <1>1, <2>1 DEF Off
    <3> QED BY <1>1, <3>1, OffKnows DEF TypeOK
  <2>2. CASE next = "evaluate"
    <3>1. run' = [run EXCEPT !.step = "evaluate"]
      BY <1>1, <2>2
    <3>2. /\ run' \in Runs /\ run'.step = "evaluate" /\ run'.config = run.config
          /\ run'.initial = run.initial /\ run'.complete = run.complete
      BY <1>2, <3>1 DEF Runs
    <3> QED BY <1>1, <1>4, <3>2 DEF RunKnows, Syncing
  <2> QED BY <2>1, <2>2
<1>6. TypeOK' /\ Known' = Known
  <2>1. TablesOK' /\ Known' = Known
    BY <1>1, TablesStay DEF TypeOK
  <2> QED BY <1>1, <1>4, <1>5, <2>1, TypesOfRest DEF TypeOK
<1>7. NothingLost'
  BY <1>1, <1>4, NothingChanges
<1>8. FirstRun'
  BY <1>1, <1>4, <1>6 DEF FirstRun
<1>9. ToldToo' /\ RiseIsTold'
  BY <1>1, ToldStays
<1>10. InitialIsDigested'
  BY <1>1, <1>4, DigestStays
<1> QED BY <1>5, <1>6, <1>7, <1>8, <1>9, <1>10

\* A batch judged by the tables that the queue is about.
LEMMA EvaluateKeeps ==
    ASSUME Inductive,
           NEW batch \in SUBSET Cves, NEW cfg \in Configs, NEW initial \in BOOLEAN,
           Evaluate(batch, cfg, initial), UNCHANGED <<tables, meta, config>>,
           touched' \in {touched, touched \ batch}, run' \in Runs,
           strayed' \in BOOLEAN, strayed => strayed',
           strayed' \/ meta.policy = <<cfg.sources>>,
           meta.mode # "none",
           initial \/ meta.mode = "baseline" \/ meta.evaluated
    PROVE  /\ TypeOK' /\ NothingLost' /\ FirstRun'
           /\ ToldToo' /\ RiseIsTold' /\ InitialIsDigested'
<1> USE DEF Inductive
<1>1. touched' \subseteq touched /\ touched' \subseteq Known
  BY DEF TypeOK
<1>2. TablesOK' /\ Known' = Known
  BY <1>1, TablesStay
<1>3. /\ alert' \in [Cves -> Alerts \cup {NoAlert}]
      /\ told' \in [Cves -> Alerts \cup {NoAlert}]
      /\ ToldToo'
      /\ events \subseteq events' /\ events' \subseteq EventRows
      /\ initial => \A e \in events' \ events : e.kind = "match" => e.initial
  BY EvaluateTypes
<1>4. TypeOK'
  <2>1. meta' \in Metas /\ config' \in Configs
    BY DEF TypeOK, Metas
  <2> QED BY <1>2, <1>3, <2>1 DEF TypeOK, TablesOK, Metas, EventRows
<1>5. NothingLost'
  <2>1. PICK sources : sources = meta.policy[1]
    OBVIOUS
  <2>2. SUFFICES ASSUME ~strayed', NEW c \in Known \ touched' PROVE Fair(c, sources)'
    BY <1>2, <2>1 DEF NothingLost, Fair
  <2>3. sources = cfg.sources /\ ~strayed
    BY <2>1, <2>2
  <2>4. c \in Cves
    BY DEF Known
  <2>5. CASE c \in batch
    BY <2>3, <2>5, EvaluateIsFair
  <2>6. CASE c \notin batch
    <3>1. c \in Known \ touched
      BY <2>2, <2>6
    <3>2. Fair(c, sources)
      BY <2>1, <2>3, <3>1 DEF NothingLost, Fair
    <3>3. alert'[c] = alert[c]
      BY <2>4, <2>6, EvaluateIsFair
    <3> QED BY <2>4, <3>2, <3>3, StaysFair DEF tables
  <2> QED BY <2>5, <2>6
<1>6. FirstRun'
  BY <1>2 DEF FirstRun
<1>7. RiseIsTold'
  BY EvaluateTells
<1>8. InitialIsDigested'
  BY <1>3 DEF InitialIsDigested
<1> QED BY <1>3, <1>4, <1>5, <1>6, <1>7, <1>8

LEMMA TakeKeeps == Inductive /\ Take => Inductive'
<1> SUFFICES ASSUME Inductive, Take PROVE Inductive'
  OBVIOUS
<1>1. UNCHANGED <<tables, meta, config, run, strayed>> /\ run.step = "evaluate"
  BY DEF Take
<1>2. PICK batch \in SUBSET touched :
          Evaluate(batch, run.config, run.initial) /\ touched' = touched \ batch
  BY DEF Take
<1>3. PICK cfg, initial : cfg = run.config /\ initial = run.initial
  OBVIOUS
<1>4. cfg \in Configs /\ initial \in BOOLEAN /\ run \in Runs /\ strayed \in BOOLEAN
      /\ touched \subseteq Cves
  BY <1>3 DEF Inductive, TypeOK, Runs, Known
<1>5. /\ meta.policy = <<cfg.sources>> /\ meta.mode # "none"
      /\ initial \/ meta.mode = "baseline" \/ meta.evaluated
  BY <1>1, <1>3 DEF Inductive, RunKnows, Syncing
<1>6. RunKnows'
  BY <1>1 DEF Inductive, RunKnows, Syncing
<1>7. Evaluate(batch, cfg, initial)
  BY <1>2, <1>3
<1>8. /\ TypeOK' /\ NothingLost' /\ FirstRun'
      /\ ToldToo' /\ RiseIsTold' /\ InitialIsDigested'
  BY <1>1, <1>2, <1>4, <1>5, <1>7, EvaluateKeeps
<1> QED BY <1>6, <1>8 DEF Inductive

LEMMA BeginAllKeeps == Inductive /\ BeginAll => Inductive'
<1> SUFFICES ASSUME Inductive, BeginAll PROVE Inductive'
  OBVIOUS
<1> USE DEF Inductive
<1> DEFINE complete == meta.mode = "backfill" /\ ~meta.evaluated /\ meta.synced
<1>1. /\ UNCHANGED <<tables, touched, alert, events, told, strayed, config, meta>>
      /\ run' = [Off(config) EXCEPT !.step = "all", !.initial = TRUE, !.complete = complete]
  BY DEF BeginAll, history
<1>2. Off(config) \in Runs /\ Off(config).config = config /\ Off(config).last = 0
  BY OffRun DEF TypeOK
<1>3. complete \in BOOLEAN
  BY DEF TypeOK
<1> HIDE DEF complete
<1>4. /\ run' \in Runs /\ run'.step = "all" /\ run'.config = config /\ run'.initial
      /\ run'.complete = complete /\ run'.last = 0
  BY <1>1, <1>2, <1>3 DEF Runs
<1>5. TypeOK' /\ Known' = Known
  <2>1. TablesOK' /\ Known' = Known
    BY <1>1, TablesStay DEF TypeOK
  <2> QED BY <1>1, <1>4, <2>1, TypesOfRest DEF TypeOK, Metas
<1>6. NothingLost'
  BY <1>1, NothingChanges
<1>7. RunKnows'
  <2>1. \A c \in touched' : run'.last < c
    <3>1. \A c \in touched' : c \in Nat \ {0}
      BY <1>1, EvaluationAssumption DEF TypeOK, Known
    <3> QED BY <1>4, <3>1
  <2> QED BY <1>1, <1>4, <2>1 DEF RunKnows, Syncing, complete
<1>8. FirstRun'
  BY <1>1, <1>5 DEF FirstRun
<1>9. ToldToo' /\ RiseIsTold'
  BY <1>1, ToldStays
<1>10. InitialIsDigested'
  BY <1>1, DigestStays
<1> QED BY <1>5, <1>6, <1>7, <1>8, <1>9, <1>10

LEMMA TakeAllKeeps == Inductive /\ TakeAll => Inductive'
<1> SUFFICES ASSUME Inductive, TakeAll PROVE Inductive'
  OBVIOUS
<1>1. PICK batch, cfg, initial :
          batch = Lowest(Ahead) /\ cfg = run.config /\ initial = run.initial
  OBVIOUS
<1>2. /\ UNCHANGED <<tables, meta, config>> /\ run.step = "all" /\ Ahead # {}
      /\ Evaluate(batch, cfg, initial)
      /\ touched' = IF run.complete THEN touched \ batch ELSE touched
      /\ run' = [run EXCEPT !.last = CHOOSE c \in batch : \A d \in batch : d <= c]
      /\ strayed' = (strayed \/ meta.policy # <<cfg.sources>>)
  BY <1>1 DEF TakeAll
<1>3. cfg \in Configs /\ initial \in BOOLEAN /\ run \in Runs /\ strayed \in BOOLEAN
      /\ touched \subseteq Known /\ Ahead \subseteq Known /\ Known \subseteq Cves
  BY <1>1 DEF Inductive, TypeOK, Runs, Known, Ahead
<1>4. /\ batch # {} /\ batch \subseteq Ahead
      /\ \A c \in Ahead \ batch, m \in batch : m < c
  BY <1>1, <1>2, <1>3, BatchIsLowest
<1>5. PICK last : last = CHOOSE c \in batch : \A d \in batch : d <= c
  OBVIOUS
<1>6. last \in batch
  BY <1>3, <1>4, <1>5, LastOfBatch
<1>7. /\ run' \in Runs /\ run'.step = "all" /\ run'.config = run.config
      /\ run'.initial = run.initial /\ run'.complete = run.complete /\ run'.last = last
  <2>1. run' = [run EXCEPT !.last = last] /\ last \in Cves
    BY <1>2, <1>3, <1>4, <1>5, <1>6
  <2> QED BY <1>2, <1>3, <2>1 DEF Runs
<1>8. RunKnows'
  <2>1. ASSUME run.complete PROVE meta.synced /\ \A c \in touched' : last < c
    <3>1. meta.synced /\ \A c \in touched : run.last < c
      BY <1>2, <2>1 DEF Inductive, RunKnows
    <3>2. \A c \in touched' : c \in Ahead \ batch
      <4>1. touched' = touched \ batch
        BY <1>2, <2>1
      <4>2. \A c \in touched : c > run.last
        <5>1. run.last \in Cves \cup {0} /\ \A c \in touched : c \in Cves
          BY <1>3 DEF Runs
        <5>2. \A c \in Cves : c \in Nat
          BY EvaluationAssumption
        <5>3. run.last \in Nat
          BY <5>1, <5>2
        <5>4. \A c \in touched : c \in Nat
          BY <5>1, <5>2
        <5> QED BY <3>1, <5>3, <5>4
      <4> QED BY <1>3, <4>1, <4>2 DEF Ahead
    <3> QED BY <1>4, <1>6, <3>1, <3>2
  <2>2. run.config = config /\ run.initial
    BY <1>2 DEF Inductive, RunKnows
  <2> QED BY <1>2, <1>7, <2>1, <2>2 DEF RunKnows, Syncing
<1>9. meta.mode # "none" /\ initial
  BY <1>1, <1>2, <1>3 DEF Inductive, FirstRun, RunKnows
<1>10. /\ batch \in SUBSET Cves /\ touched' \in {touched, touched \ batch}
       /\ strayed' \in BOOLEAN /\ (strayed => strayed')
       /\ (strayed' \/ meta.policy = <<cfg.sources>>)
  BY <1>2, <1>3, <1>4
<1>11. /\ TypeOK' /\ NothingLost' /\ FirstRun'
       /\ ToldToo' /\ RiseIsTold' /\ InitialIsDigested'
  BY <1>2, <1>3, <1>7, <1>9, <1>10, EvaluateKeeps
<1> QED BY <1>8, <1>11 DEF Inductive

LEMMA EvaluationEndsKeeps == Inductive /\ EvaluationEnds => Inductive'
<1> SUFFICES ASSUME Inductive, EvaluationEnds PROVE Inductive'
  OBVIOUS
<1> USE DEF Inductive
<1>1. /\ UNCHANGED <<tables, touched, alert, events, told, strayed, config>>
      /\ meta' = [meta EXCEPT !.evaluated = @ \/ Closes]
      /\ run' = Off(config)'
  BY DEF EvaluationEnds, history, Off
<1>2. meta \in Metas /\ Closes \in BOOLEAN /\ meta.evaluated \in BOOLEAN
  BY DEF TypeOK, Metas, Closes, Runs
<1> HIDE DEF Closes
<1>3. /\ meta' \in Metas /\ meta'.policy = meta.policy /\ meta'.mode = meta.mode
      /\ meta'.initialized = meta.initialized /\ (meta.evaluated => meta'.evaluated)
  BY <1>1, <1>2 DEF Metas
<1>4. run' \in Runs /\ RunKnows'
  BY <1>1, OffKnows DEF TypeOK
<1>5. TypeOK' /\ Known' = Known
  <2>1. TablesOK' /\ Known' = Known
    BY <1>1, TablesStay DEF TypeOK
  <2> QED BY <1>1, <1>3, <1>4, <2>1, TypesOfRest DEF TypeOK
<1>6. NothingLost'
  BY <1>1, <1>3, NothingChanges
<1>7. FirstRun'
  BY <1>1, <1>3, <1>5 DEF FirstRun
<1>8. ToldToo' /\ RiseIsTold'
  BY <1>1, ToldStays
<1>9. InitialIsDigested'
  BY <1>1, <1>3, DigestStays
<1> QED BY <1>4, <1>5, <1>6, <1>7, <1>8, <1>9

\* A crash, or an edit between two commands.
LEMMA StopKeeps ==
    ASSUME Inductive, UNCHANGED <<tables, touched, alert, events, meta, history>>,
           config' \in Configs, run' = Off(config)'
    PROVE  Inductive'
<1> USE DEF Inductive
<1>1. UNCHANGED <<told, strayed>>
  BY DEF history
<1>2. run' \in Runs /\ RunKnows'
  BY OffKnows
<1>3. TypeOK' /\ Known' = Known
  <2>1. TablesOK' /\ Known' = Known
    BY TablesStay DEF TypeOK
  <2> QED BY <1>1, <1>2, <2>1, TypesOfRest DEF TypeOK, Metas
<1>4. NothingLost'
  BY <1>1, NothingChanges
<1>5. FirstRun'
  BY <1>3 DEF FirstRun
<1>6. ToldToo' /\ RiseIsTold'
  BY <1>1, ToldStays
<1>7. InitialIsDigested'
  BY DigestStays
<1> QED BY <1>2, <1>3, <1>4, <1>5, <1>6, <1>7

LEMMA CrashKeeps == Inductive /\ Crash => Inductive'
<1> SUFFICES ASSUME Inductive, Crash PROVE Inductive'
  OBVIOUS
<1>1. /\ UNCHANGED <<tables, touched, alert, events, meta, history>>
      /\ config' \in Configs /\ run' = Off(config)'
  BY DEF Crash, Inductive, TypeOK, Off
<1> QED BY <1>1, StopKeeps

LEMMA EditKeeps == Inductive /\ Edit => Inductive'
<1> SUFFICES ASSUME Inductive, Edit PROVE Inductive'
  OBVIOUS
<1>1. /\ UNCHANGED <<tables, touched, alert, events, meta, history>>
      /\ config' \in Configs /\ run' = Off(config)'
  BY DEF Edit, Off
<1> QED BY <1>1, StopKeeps

LEMMA EvaluationStays == Inductive /\ UNCHANGED vars => Inductive'
<1> SUFFICES ASSUME Inductive, UNCHANGED vars PROVE Inductive'
  OBVIOUS
<1> USE DEF Inductive
<1>1. UNCHANGED <<tables, touched, alert, events, meta, config, run, told, strayed>>
  BY DEF vars, history
<1>2. TypeOK' /\ Known' = Known
  <2>1. TablesOK' /\ Known' = Known
    BY <1>1, TablesStay DEF TypeOK
  <2> QED BY <1>1, <2>1, TypesOfRest DEF TypeOK, Metas
<1>3. NothingLost'
  BY <1>1, NothingChanges
<1>4. RunKnows' /\ FirstRun'
  BY <1>1, <1>2 DEF RunKnows, FirstRun
<1>5. ToldToo' /\ RiseIsTold'
  BY <1>1, ToldStays
<1>6. InitialIsDigested'
  BY <1>1, DigestStays
<1> QED BY <1>2, <1>3, <1>4, <1>5, <1>6

LEMMA EvaluationStarts == Init => Inductive
<1> SUFFICES ASSUME Init PROVE Inductive
  OBVIOUS
<1>1. Known = {}
  BY DEF Init, Known
<1>2. config \in Configs
  BY DEF Init
<1>3. run \in Runs /\ run.step = "off" /\ run.config = config
  BY <1>2, OffRun DEF Init
<1>4. TypeOK
  <2>1. /\ nvd \in [Cves -> Bands \cup {NoRow}] /\ euvd \in [Cves -> Bands]
        /\ kev \in [Cves -> KevDays] /\ epss \in [Cves -> Scores]
    BY DEF Init, Bands, KevDays, Scores
  <2>2. meta \in [policy : {<<>>} \cup {<<s>> : s \in SUBSET {"euvd"}},
                  mode : {"none", "baseline", "backfill"},
                  initialized : BOOLEAN, synced : BOOLEAN, evaluated : BOOLEAN]
    BY DEF Init
  <2>3. /\ lookup = {} /\ touched = {} /\ events = {} /\ strayed = FALSE
        /\ alert \in [Cves -> Alerts \cup {NoAlert}] /\ told \in [Cves -> Alerts \cup {NoAlert}]
    BY DEF Init
  <2> QED BY <1>2, <1>3, <2>1, <2>2, <2>3 DEF TypeOK
<1>5. NothingLost
  BY <1>1 DEF NothingLost
<1>6. RunKnows
  BY <1>3 DEF RunKnows, Syncing
<1>7. FirstRun
  BY <1>1 DEF Init, FirstRun
<1>8. ToldToo /\ RiseIsTold
  BY DEF Init, ToldToo, RiseIsTold
<1>9. InitialIsDigested
  BY DEF Init, InitialIsDigested
<1> QED BY <1>4, <1>5, <1>6, <1>7, <1>8, <1>9 DEF Inductive
-----------------------------------------------------------------------------
(* The theorems. *)

\* What the commands know, whatever they are interrupted by.
THEOREM EvaluationCorrect == Spec => []Inductive
<1>1. Init => Inductive
  BY EvaluationStarts
<1>2. Inductive /\ [Next]_vars => Inductive'
  <2> SUFFICES ASSUME Inductive, [Next]_vars PROVE Inductive'
    OBVIOUS
  <2>1. CASE Next
    BY <2>1, BeginKeeps, BaselineKeeps, NvdWindowKeeps, EuvdPageKeeps, EuvdEndsKeeps,
       ReplaceKevKeeps, SyncLookupsKeeps, LookUpKeeps, LookupsEndKeeps, ReplaceEpssKeeps,
       SourceFailsKeeps, FinishKeeps, TakeKeeps, BeginAllKeeps, TakeAllKeeps,
       EvaluationEndsKeeps, CrashKeeps, EditKeeps DEF Next
  <2>2. CASE UNCHANGED vars
    BY <2>2, EvaluationStays
  <2> QED BY <2>1, <2>2
<1> QED BY <1>1, <1>2, PTL DEF Spec

\* No change is lost between a source and the alert: a CVE that is not queued was
\* judged by what the tables say now.
THEOREM EvaluationInvCorrect == Spec => []EvaluationInv
<1>1. Inductive => EvaluationInv
  BY DEF Inductive, EvaluationInv
<1> QED BY <1>1, EvaluationCorrect, PTL

\* What rose above what the match told has an event of its own.
THEOREM RiseIsToldCorrect == Spec => []RiseIsTold
<1>1. Inductive => RiseIsTold
  BY DEF Inductive
<1> QED BY <1>1, EvaluationCorrect, PTL

\* Until the initial evaluation is closed its matches go to the digest, and it is
\* closed only when all sources were read without a failure and no CVE waits.
THEOREM InitialStageCorrect == Spec => InitialStage
<1>1. Inductive => InitialIsDigested
  BY DEF Inductive
<1>2. Inductive /\ [Next]_vars => [meta'.evaluated /\ ~meta.evaluated
                                     => meta.synced /\ touched = {}]_vars
  <2> SUFFICES ASSUME Inductive, Next, meta'.evaluated, ~meta.evaluated
               PROVE  meta.synced /\ touched = {}
    OBVIOUS
  <2>1. meta \in Metas
    BY DEF Inductive, TypeOK, Metas
  <2>2. EvaluationEnds
    <3>1. ASSUME NEW mode, NEW initialized, NEW synced, NEW policy,
                 \/ meta' = meta
                 \/ meta' = [meta EXCEPT !.policy = policy]
                 \/ meta' = [meta EXCEPT !.mode = mode, !.initialized = initialized]
                 \/ meta' = [meta EXCEPT !.synced = synced]
          PROVE  FALSE
      BY <2>1, <3>1 DEF Metas
    <3>2. ~Begin
      BY <3>1 DEF Begin
    <3>3. ~Baseline
      BY <3>1 DEF Baseline
    <3>4. ~\E last \in BOOLEAN : NvdWindow(last)
      BY <3>1 DEF NvdWindow
    <3>5. ~\E next \in {"evaluate", "off"} : Finish(next)
      BY <3>1 DEF Finish
    <3>6. meta' # meta
      BY <3>1
    <3> QED BY <3>2, <3>3, <3>4, <3>5, <3>6
        DEF Next, EuvdPage, EuvdEnds, ReplaceKev, SyncLookups, LookUp, LookupsEnd,
            ReplaceEpss, SourceFails, Take, BeginAll, TakeAll, Crash, Edit
  <2>3. Closes
    BY <2>1, <2>2 DEF EvaluationEnds, Metas
  <2>4. CASE run.step = "evaluate" /\ touched = {}
    BY <2>3, <2>4 DEF Closes, Inductive, RunKnows
  <2>5. CASE run.step = "all" /\ Ahead = {}
    <3>1. meta.synced /\ \A c \in touched : run.last < c
      BY <2>3, <2>5 DEF Closes, Inductive, RunKnows
    <3>2. run.last \in Nat /\ touched \subseteq Known /\ Known \subseteq Nat
      BY EvaluationAssumption DEF Inductive, TypeOK, Runs, Known
    <3>3. \A c \in touched : c \in Ahead
      <4>1. \A c \in touched : c > run.last
        BY <3>1, <3>2
      <4> QED BY <3>2, <4>1 DEF Ahead
    <3> QED BY <2>5, <3>1, <3>3
  <2> QED BY <2>2, <2>4, <2>5 DEF EvaluationEnds
<1>3. Spec => ClosedWhenComplete
  BY <1>2, EvaluationCorrect, PTL DEF Spec, ClosedWhenComplete
<1>4. Spec => []InitialIsDigested
  BY <1>1, EvaluationCorrect, PTL
<1> QED BY <1>3, <1>4 DEF InitialStage
=============================================================================
