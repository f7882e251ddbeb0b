---------------------------- MODULE WatchProofs -----------------------------
(***************************************************************************)
(* What the watcher keeps, for every value of the constants: the operation *)
(* locks, for any commands, probes and storage locations, the trail of     *)
(* reports, for any reports, people and CVEs, the accounts, for any names, *)
(* roles and limits, and the account file, for any handles, roles and      *)
(* files.                                                                  *)
(*                                                                         *)
(* For a component of the sum there is a theorem about its own             *)
(* specification and one that says the same of the sum.                    *)
(***************************************************************************)
EXTENDS OperationLock, WatchComponents, FiniteSetTheorems, SequenceTheorems,
        WellFoundedInduction, TLAPS
-----------------------------------------------------------------------------
(* Operation locks. *)

USE DEF Actors

\* Two commands always exclude each other.
LEMMA CommandsExclude ==
    ASSUME NEW p \in Procs, NEW a \in Actors, a # p
    PROVE  Excludes(p, a) /\ Excludes(a, p)
BY ActorsAssumption DEF Excludes

\* The initial states satisfy the invariant: nothing is locked.
LEMMA InitInv == Init => LockInv
<1> SUFFICES ASSUME Init PROVE LockInv
    OBVIOUS
<1>1. TypeOK
    BY ActorsAssumption DEF Init, TypeOK, Phases, Ends
<1>2. Exclusive
    BY DEF Init, Exclusive
<1>3. Described /\ Progress /\ ProbesHoldBriefly /\ NothingIsLeft
    BY ActorsAssumption DEF Init, Described, Progress, ProbesHoldBriefly, NothingIsLeft
<1> QED
    BY <1>1, <1>2, <1>3 DEF LockInv

\* Types are kept by every step.
LEMMA NextType == TypeOK /\ [Next]_vars => TypeOK'
<1> SUFFICES ASSUME TypeOK, [Next]_vars PROVE TypeOK'
    OBVIOUS
<1> USE ActorsAssumption DEF TypeOK, Phases, Ends, Go
<1>1. ASSUME NEW p \in Procs, Lock(p) PROVE TypeOK'
    BY <1>1 DEF Lock
<1>2. ASSUME NEW p \in Procs, Write(p) PROVE TypeOK'
    BY <1>2 DEF Write
<1>3. ASSUME NEW p \in Procs, Trim(p) PROVE TypeOK'
    BY <1>3 DEF Trim
<1>4. ASSUME NEW p \in Procs, NEW end \in Ends, NEW mine \in SUBSET Paths,
             Back(p, end, mine)
      PROVE  /\ pc' \in [Actors -> Phases]
             /\ at' \in [Actors -> {0} \cup Paths]
             /\ goal' \in [Actors -> Ends]
    BY <1>4 DEF Back
<1>5. ASSUME NEW p \in Procs, WriteFails(p) PROVE TypeOK'
    BY <1>4, <1>5 DEF WriteFails
<1>6. ASSUME NEW p \in Procs, Refuse(p) PROVE TypeOK'
    BY <1>4, <1>6 DEF Refuse
<1>7. ASSUME NEW p \in Procs, Enter(p) PROVE TypeOK'
    BY <1>7 DEF Enter
<1>8. ASSUME NEW p \in Procs, Leave(p) PROVE TypeOK'
    BY <1>4, <1>8 DEF Leave
<1>9. ASSUME NEW p \in Procs, Release(p) PROVE TypeOK'
  <2>1. CASE pc[p] = "clear"
      BY <1>9, <2>1 DEF Release
  <2>2. CASE pc[p] # "clear"
      BY <1>4, <1>9, <2>2 DEF Release
  <2> QED
      BY <2>1, <2>2
<1>10. ASSUME NEW p \in Procs, Crash(p) PROVE TypeOK'
    BY <1>10 DEF Crash
<1>11. ASSUME NEW q \in Probes, ProbeLock(q) PROVE TypeOK'
    BY <1>11 DEF ProbeLock
<1>12. ASSUME NEW q \in Probes, ProbeUnlock(q) PROVE TypeOK'
    BY <1>12 DEF ProbeUnlock
<1>13. ASSUME NEW q \in Probes, ProbeEnds(q) PROVE TypeOK'
    BY <1>13 DEF ProbeEnds
<1>14. CASE UNCHANGED vars
    BY <1>14 DEF vars
<1> QED
    BY <1>1, <1>2, <1>3, <1>5, <1>6, <1>7, <1>8, <1>9, <1>10, <1>11, <1>12,
       <1>13, <1>14 DEF Next
-----------------------------------------------------------------------------
(* Each part of the invariant, for the steps that can disturb it. *)

\* What Back does: it ends with nothing held or goes on to a lock it holds.
LEMMA BackGoes ==
    ASSUME TypeOK, NEW p \in Actors, NEW end \in Ends, NEW mine, Back(p, end, mine)
    PROVE  /\ \A a \in Actors \ {p} : pc'[a] = pc[a] /\ at'[a] = at[a]
           /\ \/ pc'[p] = end /\ mine = {}
              \/ pc'[p] = "clear" /\ at'[p] \in mine
BY DEF TypeOK, Back, Go, Last

\* The locks stay exclusive: a lock is only added when nobody excludes it.
LEMMA NextExclusive == LockInv /\ Next => Exclusive'
<1> SUFFICES ASSUME LockInv, Next PROVE Exclusive'
    OBVIOUS
<1> USE DEF LockInv, TypeOK
<1>1. ASSUME NEW c \in Actors, NEW x \in Paths, ~Taken(c, x),
             \A a \in Actors : held'[a] \subseteq held[a] \cup (IF a = c THEN {x} ELSE {})
      PROVE  Exclusive'
  <2> SUFFICES ASSUME NEW a \in Actors, NEW b \in Actors, Excludes(a, b),
                      NEW y \in held'[a] \cap held'[b]
               PROVE  FALSE
      BY DEF Exclusive, Excludes
  <2>1. Excludes(b, a)
      BY DEF Excludes
  <2>2. held[a] \cap held[b] = {}
      BY DEF Exclusive
  <2>3. y = x /\ (a = c \/ b = c)
      BY <1>1, <2>2
  <2>4. a # b
      BY DEF Excludes
  <2>5. CASE a = c
      BY <1>1, <2>1, <2>3, <2>4, <2>5 DEF Taken
  <2>6. CASE b = c
      BY <1>1, <2>1, <2>3, <2>4, <2>6 DEF Taken
  <2> QED
      BY <2>3, <2>5, <2>6
<1>2. ASSUME \A a \in Actors : held'[a] \subseteq held[a] PROVE Exclusive'
    BY <1>2 DEF Exclusive, Excludes
<1>3. ASSUME NEW p \in Procs, Lock(p) PROVE Exclusive'
  <2>1. PICK x \in left[p] : ~Taken(p, x) /\ held' = [held EXCEPT ![p] = @ \cup {x}]
      BY <1>3 DEF Lock
  <2> QED
      BY <1>1, <2>1
<1>4. ASSUME NEW q \in Probes, ProbeLock(q) PROVE Exclusive'
  <2>1. PICK x \in left[q] : ~Taken(q, x) /\ held' = [held EXCEPT ![q] = {x}]
      BY <1>4 DEF ProbeLock
  <2> QED
      BY <1>1, <2>1
<1>5. ASSUME NEW p \in Procs,
             \/ Write(p) \/ Trim(p) \/ WriteFails(p) \/ Refuse(p) \/ Enter(p)
             \/ Leave(p) \/ Release(p) \/ Crash(p)
      PROVE  Exclusive'
    BY <1>2, <1>5 DEF Write, Trim, WriteFails, Refuse, Enter, Leave, Release, Crash
<1>6. ASSUME NEW q \in Probes, ProbeUnlock(q) \/ ProbeEnds(q) PROVE Exclusive'
    BY <1>2, <1>6 DEF ProbeUnlock, ProbeEnds
<1> QED
    BY <1>3, <1>4, <1>5, <1>6 DEF Next

\* The files stay with their holders: a command writes only where it holds the
\* lock, and there no other command does.
LEMMA NextDescribed == LockInv /\ Next => Described'
<1> SUFFICES ASSUME LockInv, Next PROVE Described'
    OBVIOUS
<1> USE DEF LockInv, TypeOK
<1>1. ASSUME NEW c \in Procs,
             \A a \in Actors \ {c} :
                 pc'[a] = pc[a] /\ at'[a] = at[a] /\ held'[a] = held[a],
             \A x \in Paths : x \notin held[c] => meta'[x] = meta[x],
             \A x \in held'[c] \ Undescribed(c)' : meta'[x] = c
      PROVE  Described'
  <2> SUFFICES ASSUME NEW p \in Procs, NEW x \in held'[p] \ Undescribed(p)'
               PROVE  meta'[x] = p
      BY DEF Described
  <2>1. CASE p = c
      BY <1>1, <2>1
  <2>2. CASE p # c
    <3>1. x \in held[p] \ Undescribed(p)
        BY <1>1, <2>2 DEF Undescribed
    <3>2. x \notin held[c]
        BY <2>2, <3>1, CommandsExclude DEF Exclusive
    <3> QED
        BY <1>1, <3>1, <3>2 DEF Described
  <2> QED
      BY <2>1, <2>2
<1>2. ASSUME NEW p \in Procs, Lock(p) PROVE Described'
    BY <1>1, <1>2 DEF Lock, Go, Described, Undescribed
<1>3. ASSUME NEW p \in Procs, Write(p) \/ Trim(p) PROVE Described'
    BY <1>1, <1>3 DEF Write, Trim, Go, Described, Undescribed, Progress
<1>4. ASSUME NEW p \in Procs, WriteFails(p) PROVE Described'
  <2>1. \A a \in Actors \ {p} : pc'[a] = pc[a] /\ at'[a] = at[a]
      BY <1>4, BackGoes DEF WriteFails, Ends
  <2>2. pc'[p] \in {"failed", "clear"}
      BY <1>4, BackGoes DEF WriteFails, Ends
  <2> QED
      BY <1>1, <1>4, <2>1, <2>2 DEF WriteFails, Described, Undescribed
<1>5. ASSUME NEW p \in Procs, Refuse(p) PROVE Described'
  <2>1. \A a \in Actors \ {p} : pc'[a] = pc[a] /\ at'[a] = at[a]
      BY <1>5, BackGoes DEF Refuse, Ends
  <2>2. pc'[p] \in {"refused", "clear"}
      BY <1>5, BackGoes DEF Refuse, Ends
  <2> QED
      BY <1>1, <1>5, <2>1, <2>2 DEF Refuse, Described, Undescribed
<1>6. ASSUME NEW p \in Procs, Leave(p) PROVE Described'
  <2>1. \A a \in Actors \ {p} : pc'[a] = pc[a] /\ at'[a] = at[a]
      BY <1>6, BackGoes DEF Leave, Ends
  <2>2. pc'[p] \in {"done", "clear"}
      BY <1>6, BackGoes DEF Leave, Ends
  <2> QED
      BY <1>1, <1>6, <2>1, <2>2 DEF Leave, Described, Undescribed
<1>7. ASSUME NEW p \in Procs, Release(p) PROVE Described'
  <2>1. CASE pc[p] = "clear"
      BY <1>1, <1>7, <2>1 DEF Release, Go, Described, Undescribed, Progress
  <2>2. CASE pc[p] # "clear"
    <3>1. /\ pc[p] = "unlock"
          /\ held' = [held EXCEPT ![p] = @ \ {at[p]}]
          /\ Back(p, goal[p], held[p] \ {at[p]})
          /\ meta' = meta
        BY <1>7, <2>2 DEF Release
    <3>2. \A a \in Actors \ {p} : pc'[a] = pc[a] /\ at'[a] = at[a]
        BY <3>1, BackGoes
    <3>3. pc'[p] \in Ends \cup {"clear"}
        BY <3>1, BackGoes
    <3> QED
        BY <1>1, <3>1, <3>2, <3>3 DEF Described, Undescribed, Ends
  <2> QED
      BY <2>1, <2>2
<1>8. ASSUME NEW p \in Procs, Enter(p) \/ Crash(p) PROVE Described'
    BY <1>1, <1>8 DEF Enter, Crash, Go, Described, Undescribed, Ends
<1>9. ASSUME NEW q \in Probes, ProbeLock(q) \/ ProbeUnlock(q) \/ ProbeEnds(q)
      PROVE  Described'
    BY <1>9, ActorsAssumption
       DEF ProbeLock, ProbeUnlock, ProbeEnds, Go, Described, Undescribed
<1> QED
    BY <1>2, <1>3, <1>4, <1>5, <1>6, <1>7, <1>8, <1>9 DEF Next

\* Nothing is lost on the way: what a command has locked and what it has still
\* to lock are its needs, and it gives back lock by lock.
LEMMA NextProgress == LockInv /\ Next => Progress' /\ NothingIsLeft' /\ ProbesHoldBriefly'
<1> SUFFICES ASSUME LockInv, Next PROVE Progress' /\ NothingIsLeft' /\ ProbesHoldBriefly'
    OBVIOUS
<1> USE DEF LockInv, TypeOK, Ends, Go
<1>1. ASSUME NEW p \in Procs,
             \A a \in Actors \ {p} :
                 /\ pc'[a] = pc[a] /\ at'[a] = at[a]
                 /\ held'[a] = held[a] /\ left'[a] = left[a],
             pc'[p] \in {"take", "write", "trim", "work"} => left'[p] \cup held'[p] = Needs[p],
             pc'[p] = "work" => left'[p] = {},
             pc'[p] \in {"write", "trim", "clear", "unlock"} => at'[p] \in held'[p],
             pc'[p] \in Ends => held'[p] = {}
      PROVE  Progress' /\ NothingIsLeft' /\ ProbesHoldBriefly'
    BY <1>1, ActorsAssumption DEF Progress, NothingIsLeft, ProbesHoldBriefly
<1>2. ASSUME NEW p \in Procs, Lock(p)
      PROVE  Progress' /\ NothingIsLeft' /\ ProbesHoldBriefly'
    BY <1>1, <1>2 DEF Lock, Progress
<1>3. ASSUME NEW p \in Procs, Write(p) \/ Trim(p) \/ Enter(p)
      PROVE  Progress' /\ NothingIsLeft' /\ ProbesHoldBriefly'
    BY <1>1, <1>3 DEF Write, Trim, Enter, Progress
<1>4. ASSUME NEW p \in Procs, NEW end \in Ends, NEW mine, Back(p, end, mine),
             held' = [held EXCEPT ![p] = mine], left' = left
      PROVE  Progress' /\ NothingIsLeft' /\ ProbesHoldBriefly'
    BY <1>1, <1>4, BackGoes
<1>5. ASSUME NEW p \in Procs, WriteFails(p) \/ Refuse(p) \/ Leave(p)
      PROVE  Progress' /\ NothingIsLeft' /\ ProbesHoldBriefly'
    BY <1>4, <1>5 DEF WriteFails, Refuse, Leave
<1>6. ASSUME NEW p \in Procs, Release(p)
      PROVE  Progress' /\ NothingIsLeft' /\ ProbesHoldBriefly'
  <2>1. CASE pc[p] = "clear"
      BY <1>1, <1>6, <2>1 DEF Release, Progress
  <2>2. CASE pc[p] # "clear"
      BY <1>4, <1>6, <2>2 DEF Release
  <2> QED
      BY <2>1, <2>2
<1>7. ASSUME NEW p \in Procs, Crash(p)
      PROVE  Progress' /\ NothingIsLeft' /\ ProbesHoldBriefly'
    BY <1>1, <1>7 DEF Crash
<1>8. ASSUME NEW q \in Probes, ProbeLock(q) \/ ProbeUnlock(q) \/ ProbeEnds(q)
      PROVE  Progress' /\ NothingIsLeft' /\ ProbesHoldBriefly'
    BY <1>8, ActorsAssumption
       DEF ProbeLock, ProbeUnlock, ProbeEnds, Progress, NothingIsLeft, ProbesHoldBriefly
<1> QED
    BY <1>2, <1>3, <1>5, <1>6, <1>7, <1>8 DEF Next

\* Every step keeps the invariant.
LEMMA NextLock == LockInv /\ [Next]_vars => LockInv'
<1> SUFFICES ASSUME LockInv, [Next]_vars PROVE LockInv'
    OBVIOUS
<1>1. TypeOK'
    BY NextType DEF LockInv
<1>2. CASE Next
    BY <1>1, <1>2, NextExclusive, NextDescribed, NextProgress DEF LockInv
<1>3. CASE UNCHANGED vars
    BY <1>1, <1>3 DEF LockInv, vars, Exclusive, Excludes, Described, Undescribed,
                      Progress, ProbesHoldBriefly, NothingIsLeft
<1> QED
    BY <1>2, <1>3
-----------------------------------------------------------------------------
(* Somebody works.  The locations are taken in their order, so a command    *)
(* that is refused gave way to one that is further ahead than itself.       *)

\* On its way to work, or at work and beyond.
OnItsWay(p) == pc[p] \in {"take", "write", "trim"}
Works(p) == pc[p] \in {"work", "done"} \/ (pc[p] \in {"clear", "unlock"} /\ goal[p] = "done")

Disturbed == faults > 0 \/ \E q \in Probes : pc[q] # "take" \/ left[q] # Needs[q]

\* A command holds what comes first among its needs.
InOrder == \A p \in Procs : OnItsWay(p) => \A x \in held[p], y \in left[p] : x < y

\* A probe that has begun is not one that has not.
ProbesGoOn ==
    \A q \in Probes : left[q] \subseteq Needs[q] /\ (pc[q] = "unlock" => left[q] # Needs[q])

\* As far as any command has come, one that is still on its way has come.
SomebodyLeads ==
    /\ \E p \in Procs : OnItsWay(p)
    /\ \A q \in Procs : \A x \in held[q] :
           \E p \in Procs : OnItsWay(p) /\ \E y \in held[p] : x <= y

WorkInv ==
    /\ LockInv
    /\ InOrder
    /\ ProbesGoOn
    /\ Disturbed \/ Procs = {} \/ (\E p \in Procs : Works(p)) \/ SomebodyLeads

LEMMA InitWork == Init => WorkInv
<1> SUFFICES ASSUME Init PROVE WorkInv
    OBVIOUS
<1>1. InOrder /\ ProbesGoOn
    BY DEF Init, InOrder, ProbesGoOn
<1>2. Procs = {} \/ SomebodyLeads
    BY DEF Init, SomebodyLeads, OnItsWay
<1> QED
    BY <1>1, <1>2, InitInv DEF WorkInv

LEMMA NextInOrder == LockInv /\ InOrder /\ Next => InOrder'
<1> SUFFICES ASSUME LockInv, InOrder, Next PROVE InOrder'
    OBVIOUS
<1> USE DEF LockInv, TypeOK, Go
<1>1. ASSUME NEW c \in Procs,
             \A a \in Actors \ {c} : pc'[a] = pc[a] /\ held'[a] = held[a] /\ left'[a] = left[a],
             OnItsWay(c)' => \A x \in held'[c], y \in left'[c] : x < y
      PROVE  InOrder'
    BY <1>1 DEF InOrder, OnItsWay
<1>2. ASSUME NEW p \in Procs, Lock(p) PROVE InOrder'
  <2>1. PICK z \in left[p] : /\ First(z, left[p])
                             /\ left' = [left EXCEPT ![p] = @ \ {z}]
                             /\ held' = [held EXCEPT ![p] = @ \cup {z}]
      BY <1>2 DEF Lock, Comes
  <2>2. ASSUME NEW x \in held'[p], NEW y \in left'[p] PROVE x < y
    <3>1. y \in left[p] /\ y # z /\ z \in Paths /\ y \in Paths
        BY <2>1
    <3>2. CASE x = z
        BY <2>1, <3>1, <3>2, ActorsAssumption DEF First, Paths
    <3>3. CASE x \in held[p]
        BY <1>2, <3>1, <3>3 DEF Lock, InOrder, OnItsWay
    <3> QED
        BY <2>1, <3>2, <3>3
  <2> QED
      BY <1>1, <1>2, <2>2 DEF Lock
<1>3. ASSUME NEW p \in Procs, Write(p) \/ Trim(p) PROVE InOrder'
    BY <1>1, <1>3 DEF Write, Trim, InOrder, OnItsWay
<1>4. ASSUME NEW p \in Procs, WriteFails(p) \/ Refuse(p) \/ Leave(p) PROVE InOrder'
  <2>1. PICK end \in Ends, mine \in SUBSET Paths : Back(p, end, mine)
      BY <1>4 DEF WriteFails, Refuse, Leave, Ends
  <2>2. ~OnItsWay(p)' /\ \A a \in Actors \ {p} : pc'[a] = pc[a]
      BY <2>1, BackGoes DEF OnItsWay, Ends
  <2> QED
      BY <1>1, <1>4, <2>2 DEF WriteFails, Refuse, Leave
<1>5. ASSUME NEW p \in Procs, Release(p) PROVE InOrder'
  <2>1. CASE pc[p] = "clear"
      BY <1>1, <1>5, <2>1 DEF Release, OnItsWay
  <2>2. CASE pc[p] # "clear"
    <3>1. PICK end \in Ends, mine \in SUBSET Paths : Back(p, end, mine)
        BY <1>5, <2>2 DEF Release
    <3>2. ~OnItsWay(p)' /\ \A a \in Actors \ {p} : pc'[a] = pc[a]
        BY <3>1, BackGoes DEF OnItsWay, Ends
    <3> QED
        BY <1>1, <1>5, <2>2, <3>2 DEF Release
  <2> QED
      BY <2>1, <2>2
<1>6. ASSUME NEW p \in Procs, Enter(p) \/ Crash(p) PROVE InOrder'
    BY <1>1, <1>6 DEF Enter, Crash, OnItsWay
<1>7. ASSUME NEW q \in Probes, ProbeLock(q) \/ ProbeUnlock(q) \/ ProbeEnds(q) PROVE InOrder'
  <2>1. \A p \in Procs : p # q /\ pc'[p] = pc[p] /\ held'[p] = held[p] /\ left'[p] = left[p]
      BY <1>7, ActorsAssumption DEF ProbeLock, ProbeUnlock, ProbeEnds
  <2> QED
      BY <2>1 DEF InOrder, OnItsWay
<1> QED
    BY <1>2, <1>3, <1>4, <1>5, <1>6, <1>7 DEF Next

\* Probes are left alone by the commands, and a disturbance remains one.
LEMMA NextProbes == LockInv /\ ProbesGoOn /\ Next => ProbesGoOn' /\ (Disturbed => Disturbed')
<1> SUFFICES ASSUME LockInv, ProbesGoOn, Next
             PROVE  ProbesGoOn' /\ (Disturbed => Disturbed')
    OBVIOUS
<1> USE DEF LockInv, TypeOK, Go
<1>1. ASSUME NEW p \in Procs,
             \/ Lock(p) \/ Write(p) \/ Trim(p) \/ WriteFails(p) \/ Refuse(p) \/ Enter(p)
             \/ Leave(p) \/ Release(p) \/ Crash(p)
      PROVE  ProbesGoOn' /\ (Disturbed => Disturbed')
  <2>1. \A q \in Probes : q # p
      BY ActorsAssumption
  <2>2. \A q \in Probes : left'[q] = left[q]
      BY <1>1, <2>1 DEF Lock, Write, Trim, WriteFails, Refuse, Enter, Leave, Release, Crash
  <2>3. \A q \in Probes : pc'[q] = pc[q]
      BY <1>1, <2>1 DEF Lock, Write, Trim, WriteFails, Refuse, Enter, Leave, Release, Crash, Back
  <2>4. faults' \in Nat /\ (faults > 0 => faults' > 0)
      BY <1>1 DEF Lock, Write, Trim, WriteFails, Refuse, Enter, Leave, Release, Crash
  <2> QED
      BY <2>2, <2>3, <2>4 DEF ProbesGoOn, Disturbed
<1>2. ASSUME NEW q \in Probes, ProbeLock(q)
      PROVE  ProbesGoOn' /\ Disturbed'
  <2>1. PICK x \in left[q] : left' = [left EXCEPT ![q] = @ \ {x}]
      BY <1>2 DEF ProbeLock
  <2>2. left'[q] \subseteq Needs[q] /\ left'[q] # Needs[q]
      BY <2>1 DEF ProbesGoOn
  <2> QED
      BY <1>2, <2>1, <2>2 DEF ProbeLock, ProbesGoOn, Disturbed
<1>3. ASSUME NEW q \in Probes, ProbeUnlock(q)
      PROVE  ProbesGoOn' /\ Disturbed'
    BY <1>3 DEF ProbeUnlock, ProbesGoOn, Disturbed
<1>4. ASSUME NEW q \in Probes, ProbeEnds(q)
      PROVE  ProbesGoOn' /\ Disturbed'
    BY <1>4 DEF ProbeEnds, ProbesGoOn, Disturbed
<1> QED
    BY <1>1, <1>2, <1>3, <1>4 DEF Next

\* The lead changes hands, but nobody who leads gives up before another leads.
LEMMA NextLeads ==
    ASSUME WorkInv, Next, ~Disturbed', Procs # {}
    PROVE  (\E p \in Procs : Works(p)') \/ SomebodyLeads'
<1> USE DEF LockInv, TypeOK, Go, Ends
<1>0. LockInv /\ InOrder /\ ProbesGoOn /\ ~Disturbed
    BY NextProbes DEF WorkInv
<1>1. \A q \in Probes : held[q] = {}
    BY <1>0 DEF Disturbed, ProbesHoldBriefly
<1>2. PICK p \in Procs : \/ Lock(p) \/ Write(p) \/ Trim(p) \/ Refuse(p) \/ Enter(p) \/ Leave(p)
                         \/ Release(p)
  <2>1. \A c \in Procs : ~WriteFails(c) /\ ~Crash(c)
      BY <1>0 DEF WriteFails, Crash, Disturbed
  <2>2. \A q \in Probes : ~ProbeLock(q) /\ ~ProbeUnlock(q) /\ ~ProbeEnds(q)
    <3> SUFFICES ASSUME NEW q \in Probes, ProbeLock(q) \/ ProbeUnlock(q) \/ ProbeEnds(q)
                 PROVE  FALSE
        OBVIOUS
    <3>1. pc[q] = "take"
        BY <1>0 DEF Disturbed
    <3>2. pc'[q] # "take"
        BY <1>0, <3>1 DEF ProbeLock, ProbeUnlock, ProbeEnds
    <3> QED
        BY <3>2 DEF Disturbed
  <2> QED
      BY <2>1, <2>2 DEF Next
<1>3. \A a \in Actors \ {p} : pc'[a] = pc[a] /\ held'[a] = held[a] /\ goal'[a] = goal[a]
    BY <1>0, <1>2 DEF Lock, Write, Trim, Refuse, Enter, Leave, Release, Back
<1>4. CASE \E w \in Procs : Works(w)
  <2>1. PICK w \in Procs : Works(w)
      BY <1>4
  <2>2. CASE w # p
      BY <1>3, <2>1, <2>2 DEF Works
  <2>3. CASE w = p
    <3>1. Leave(p) \/ Release(p)
        BY <1>2, <2>1, <2>3 DEF Works, Lock, Write, Trim, Refuse, Enter
    <3>2. CASE Leave(p)
        BY <1>0, <3>2 DEF Leave, Back, Works
    <3>3. CASE Release(p)
        BY <1>0, <2>1, <2>3, <3>3 DEF Release, Back, Works
    <3> QED
        BY <3>1, <3>2, <3>3
  <2> QED
      BY <2>2, <2>3
<1>5. CASE SomebodyLeads /\ ~ \E w \in Procs : Works(w)
  <2>1. CASE Lock(p)
    <3>1. PICK x \in left[p] : held' = [held EXCEPT ![p] = @ \cup {x}]
        BY <2>1 DEF Lock
    <3>2. OnItsWay(p) /\ OnItsWay(p)' /\ x \in held'[p] /\ x \in Nat
        BY <1>0, <2>1, <3>1 DEF Lock, OnItsWay, Paths
    <3>3. \A c \in Procs : OnItsWay(c) => OnItsWay(c)' /\ held[c] \subseteq held'[c]
        BY <1>0, <1>3, <3>1, <3>2 DEF OnItsWay
    <3>4. ASSUME NEW q \in Procs, NEW y \in held'[q]
          PROVE  \E c \in Procs : OnItsWay(c)' /\ \E z \in held'[c] : y <= z
      <4>1. CASE y \in held[q]
          BY <1>5, <3>3, <4>1 DEF SomebodyLeads
      <4>2. CASE y = x
          BY <3>2, <4>2
      <4> QED
          BY <1>0, <1>3, <3>1, <4>1, <4>2
    <3> QED
        BY <3>2, <3>4 DEF SomebodyLeads
  <2>2. CASE Write(p) \/ Trim(p)
    <3>1. \A c \in Procs : held'[c] = held[c] /\ (OnItsWay(c) => OnItsWay(c)')
        BY <1>0, <1>3, <2>2 DEF Write, Trim, OnItsWay
    <3> QED
        BY <1>5, <3>1 DEF SomebodyLeads
  <2>3. CASE Refuse(p)
    <3>1. PICK x \in left[p] : Comes(p, x) /\ Taken(p, x)
        BY <2>3 DEF Refuse, Busy
    <3>2. PICK q \in Procs : x \in held[q]
        BY <1>1, <3>1 DEF Taken
    <3>3. PICK c \in Procs : OnItsWay(c) /\ \E y \in held[c] : x <= y
        BY <1>5, <3>2 DEF SomebodyLeads
    <3>4. PICK y \in held[c] : x <= y
        BY <3>3
    <3>5. \A z \in held[p] : z < x
        BY <1>0, <2>3 DEF Refuse, InOrder, OnItsWay
    <3>6. x \in Nat /\ y \in Nat /\ \A a \in Actors : \A z \in held[a] : z \in Nat
        BY <1>0 DEF Paths
    <3>7. c # p
        BY <3>4, <3>5, <3>6
    <3>8. OnItsWay(c)' /\ y \in held'[c] /\ held' = held
        BY <1>3, <2>3, <3>3, <3>7 DEF OnItsWay, Refuse
    <3>9. ASSUME NEW d \in Procs, NEW z \in held'[d]
          PROVE  \E e \in Procs : OnItsWay(e)' /\ \E v \in held'[e] : z <= v
      <4>1. PICK e \in Procs : OnItsWay(e) /\ \E v \in held[e] : z <= v
          BY <1>5, <3>8 DEF SomebodyLeads
      <4>2. CASE e # p
          BY <1>3, <4>1, <4>2 DEF OnItsWay
      <4>3. CASE e = p
        <5>1. PICK v \in held[p] : z <= v
            BY <4>1, <4>3
        <5>2. z <= y
            BY <3>4, <3>5, <3>6, <3>8, <5>1
        <5> QED
            BY <3>8, <5>2
      <4> QED
          BY <4>2, <4>3
    <3> QED
        BY <3>8, <3>9 DEF SomebodyLeads
  <2>4. CASE Enter(p)
      BY <1>0, <2>4 DEF Enter, Works
  <2>5. CASE Leave(p)
      BY <1>5, <2>5 DEF Leave, Works
  <2>6. CASE Release(p)
    <3>1. pc[p] \in {"clear", "unlock"} /\ held'[p] \subseteq held[p]
        BY <1>0, <2>6 DEF Release
    <3>2. \A c \in Procs : OnItsWay(c) => OnItsWay(c)' /\ held'[c] = held[c]
        BY <1>3, <3>1 DEF OnItsWay
    <3>3. \A c \in Procs : held'[c] \subseteq held[c]
        BY <1>3, <3>1
    <3> QED
        BY <1>5, <3>2, <3>3 DEF SomebodyLeads
  <2> QED
      BY <1>2, <2>1, <2>2, <2>3, <2>4, <2>5, <2>6
<1> QED
    BY <1>0, <1>4, <1>5 DEF WorkInv
-----------------------------------------------------------------------------
(* The theorems. *)

\* Every state satisfies the invariant: the locks exclude each other, held
\* files describe their holders and ended commands hold nothing.
THEOREM LockCorrect == Spec => []LockInv
BY InitInv, NextLock, PTL DEF Spec

\* Two commands never work on one storage location, and a command only works
\* with all its locations locked (docs/DASHBOARD.md, "Single flight").
THEOREM SingleFlightCorrect == Spec => []SingleFlight
<1>1. LockInv => SingleFlight
  <2> SUFFICES ASSUME LockInv PROVE SingleFlight
      OBVIOUS
  <2>1. ASSUME NEW p \in Procs, Working(p) PROVE held[p] = Needs[p]
      BY <2>1 DEF LockInv, Progress, Working
  <2>2. ASSUME NEW p \in Procs, NEW q \in Procs, p # q PROVE held[p] \cap held[q] = {}
      BY <2>2, CommandsExclude DEF LockInv, Exclusive
  <2> QED
      BY <2>1, <2>2 DEF SingleFlight
<1> QED
    BY <1>1, LockCorrect, PTL

\* Who works is named in all its files (RunLock.release: a successor cannot be
\* erased).
THEOREM HolderIsNamedCorrect == Spec => []HolderIsNamed
<1>1. LockInv => HolderIsNamed
    BY DEF LockInv, HolderIsNamed, Described, Progress, Undescribed, Working
<1> QED
    BY <1>1, LockCorrect, PTL

\* Contenders do not refuse each other in a circle: without failures and probes
\* somebody works, however many commands and locations there are (sorted order,
\* OperationLock).
THEOREM SomebodyWorksCorrect == Spec => []SomebodyWorks
<1>1. WorkInv /\ [Next]_vars => WorkInv'
  <2> SUFFICES ASSUME WorkInv, [Next]_vars PROVE WorkInv'
      OBVIOUS
  <2>1. LockInv'
      BY NextLock DEF WorkInv
  <2>2. CASE Next
      BY <2>1, <2>2, NextInOrder, NextProbes, NextLeads DEF WorkInv
  <2>3. CASE UNCHANGED vars
    <3>1. InOrder' /\ ProbesGoOn'
        BY <2>3 DEF WorkInv, vars, InOrder, ProbesGoOn, OnItsWay
    <3>2. /\ Disturbed => Disturbed'
          /\ (\E p \in Procs : Works(p)) => \E p \in Procs : Works(p)'
          /\ SomebodyLeads => SomebodyLeads'
        BY <2>3 DEF vars, Disturbed, Works, SomebodyLeads, OnItsWay
    <3> QED
        BY <2>1, <3>1, <3>2 DEF WorkInv
  <2> QED
      BY <2>2, <2>3
<1>2. WorkInv => SomebodyWorks
    BY DEF WorkInv, SomebodyWorks, Disturbed, Works, SomebodyLeads, OnItsWay, Ends
<1> QED
    BY <1>1, <1>2, InitWork, PTL DEF Spec
-----------------------------------------------------------------------------
(* The trail of reports. *)

\* A row, whatever its chain.
Rows(U) ==
    [id : Nat \ {0}, cve : Cves, action : ReportTrail!Actions,
     identity : {"none", "open", "registered", "authenticated"},
     by : People \cup {"legacy", "somebody"}, version : {0, 1}, chain : U]

Reporters == [mode : {"open", "registered", "authenticated"}, who : People, version : 0..MaxVersion]
ReportCalls ==
    [phase : {"resolved", "guarded", "writing", "written"}, action : ReportTrail!Actions,
     cve : Cves, identity : Reporters]
-----------------------------------------------------------------------------
(* Chains: what is expected at a row depends on the rows up to it only. *)

\* A set of natural numbers that is not empty has a least one.
LEMMA Least ==
    ASSUME NEW S \in SUBSET Nat, S # {}
    PROVE  \E n \in S : \A m \in S : n <= m
<1>1. \E n \in S : \A m \in S : ~(<<m, n>> \in OpToRel(<, Nat))
  BY NatLessThanWellFounded, WFMin, Zenon
<1>2. PICK n \in S : \A m \in S : ~(<<m, n>> \in OpToRel(<, Nat))
  BY <1>1
<1>3. \A m \in S : ~(m < n)
  BY <1>2, Zenon DEF OpToRel
<1> QED BY <1>3

\* Induction, for the members of a set.
LEMMA Induct ==
    ASSUME NEW S, 0 \in S, \A n \in Nat : n \in S => n + 1 \in S
    PROVE  Nat \subseteq S
<1> DEFINE U == Nat \ S
<1> SUFFICES ASSUME U # {} PROVE FALSE
  OBVIOUS
<1>1. PICK n \in U : \A m \in U : n <= m
  BY Least
<1>2. n # 0 /\ n - 1 \in Nat /\ ~(n <= n - 1) /\ (n - 1) + 1 = n
  BY <1>1
<1>3. n - 1 \in S
  BY <1>1, <1>2
<1> QED BY <1>1, <1>2, <1>3

\* The chain after row j, given what it is after the row before.
Link(row, previous) ==
    IF row.version = 0 THEN previous ELSE ReportTrail!Hash(previous, row)

IsChain(f, T, n) ==
    f = [j \in 0..n |-> IF j = 0 THEN ReportTrail!NoChain ELSE Link(T[j], f[j - 1])]

ChainOf(T, n) == (CHOOSE f : IsChain(f, T, n))[n]

LEMMA ChainExists ==
    ASSUME NEW T, NEW n \in Nat
    PROVE  IsChain(CHOOSE f : IsChain(f, T, n), T, n)
<1> DEFINE S == {k \in Nat : \E f : IsChain(f, T, k)}
<1>1. 0 \in S
  <2> DEFINE f == [j \in 0..0 |-> ReportTrail!NoChain]
  <2>1. IsChain(f, T, 0)
    BY DEF IsChain
  <2> HIDE DEF f
  <2> QED BY <2>1
<1>2. ASSUME NEW k \in Nat, k \in S
      PROVE  k + 1 \in S
  <2>1. PICK f : IsChain(f, T, k)
    BY <1>2
  <2> DEFINE g == [j \in 0..(k + 1) |-> IF j = k + 1 THEN Link(T[k + 1], f[k]) ELSE f[j]]
  <2>2. \A j \in 0..k : f[j] = IF j = 0 THEN ReportTrail!NoChain ELSE Link(T[j], f[j - 1])
    BY <2>1 DEF IsChain
  <2>3. ASSUME NEW j \in 0..(k + 1)
        PROVE  g[j] = IF j = 0 THEN ReportTrail!NoChain ELSE Link(T[j], g[j - 1])
    <3>1. CASE j = k + 1
      <4>1. g[j] = Link(T[j], f[k]) /\ j # 0 /\ j - 1 = k /\ k \in 0..(k + 1) /\ k # k + 1
        BY <3>1
      <4> QED BY <4>1
    <3>2. CASE j # k + 1
      <4>1. j \in 0..k /\ g[j] = f[j]
        BY <3>2
      <4>2. j # 0 => j - 1 \in 0..(k + 1) /\ j - 1 # k + 1
        BY <3>2
      <4> QED BY <2>2, <4>1, <4>2
    <3> QED BY <3>1, <3>2
  <2>4. IsChain(g, T, k + 1)
    <3> DEFINE h == [j \in 0..(k + 1) |-> IF j = 0 THEN ReportTrail!NoChain ELSE Link(T[j], g[j - 1])]
    <3>1. g = h
      BY <2>3
    <3> QED BY <3>1 DEF IsChain
  <2> QED BY <2>4
<1>3. n \in S
  <2> HIDE DEF S
  <2> QED BY <1>1, <1>2, Induct
<1> QED BY <1>3

\* Chains of sequences with the same first rows agree there.
LEMMA ChainsAgree ==
    ASSUME NEW T, NEW U, NEW n \in Nat, NEW m \in Nat, NEW f, NEW g,
           IsChain(f, T, n), IsChain(g, U, m), NEW k \in Nat, k <= n, k <= m,
           \A j \in 1..k : T[j] = U[j]
    PROVE  f[k] = g[k]
<1> DEFINE S == {i \in Nat : i <= k => f[i] = g[i]}
<1>1. /\ \A j \in 0..n : f[j] = IF j = 0 THEN ReportTrail!NoChain ELSE Link(T[j], f[j - 1])
      /\ \A j \in 0..m : g[j] = IF j = 0 THEN ReportTrail!NoChain ELSE Link(U[j], g[j - 1])
  BY DEF IsChain
<1>2. 0 \in S
  BY <1>1
<1>3. ASSUME NEW i \in Nat, i \in S
      PROVE  i + 1 \in S
  <2> SUFFICES ASSUME i + 1 <= k PROVE f[i + 1] = g[i + 1]
    OBVIOUS
  <2>1. f[i] = g[i] /\ i + 1 \in 0..n /\ i + 1 \in 0..m /\ i + 1 \in 1..k /\ i + 1 # 0 /\ (i + 1) - 1 = i
    BY <1>3
  <2>2. T[i + 1] = U[i + 1]
    BY <2>1
  <2> QED BY <1>1, <2>1, <2>2
<1>4. k \in S
  <2> HIDE DEF S
  <2> QED BY <1>2, <1>3, Induct
<1> QED BY <1>4

LEMMA ChainPrefix ==
    ASSUME NEW T, NEW U, NEW n \in Nat, \A j \in 1..n : T[j] = U[j]
    PROVE  ChainOf(T, n) = ChainOf(U, n)
<1> DEFINE f == CHOOSE h : IsChain(h, T, n)
           g == CHOOSE h : IsChain(h, U, n)
<1>1. IsChain(f, T, n) /\ IsChain(g, U, n)
  BY ChainExists
<1> HIDE DEF f, g
<1>2. \A p, q : IsChain(p, T, n) /\ IsChain(q, U, n) => p[n] = q[n]
  BY ChainsAgree
<1>3. f[n] = g[n]
  BY <1>1, <1>2
<1> QED BY <1>3 DEF ChainOf, f, g

LEMMA ChainStep ==
    ASSUME NEW T, NEW n \in Nat
    PROVE  /\ ChainOf(T, 0) = ReportTrail!NoChain
           /\ ChainOf(T, n + 1) = Link(T[n + 1], ChainOf(T, n))
<1> DEFINE f == CHOOSE h : IsChain(h, T, n + 1)
           z == CHOOSE h : IsChain(h, T, 0)
           g == CHOOSE h : IsChain(h, T, n)
<1>1. IsChain(f, T, n + 1) /\ IsChain(z, T, 0) /\ IsChain(g, T, n)
  BY ChainExists
<1> HIDE DEF f, z, g
<1>2. f[n] = g[n]
  BY <1>1, ChainsAgree
<1>3. z[0] = ReportTrail!NoChain
  BY <1>1 DEF IsChain
<1>4. f[n + 1] = Link(T[n + 1], f[n])
  <2>1. n + 1 \in 0..(n + 1) /\ n + 1 # 0 /\ (n + 1) - 1 = n
    OBVIOUS
  <2> QED BY <1>1, <2>1 DEF IsChain
<1> QED BY <1>2, <1>3, <1>4 DEF ChainOf, f, z, g

\* Legacy rows do not start a chain.
LEMMA LegacyChain ==
    ASSUME NEW T, NEW n \in Nat, \A j \in 1..n : T[j].version = 0
    PROVE  ChainOf(T, n) = ReportTrail!NoChain
<1> DEFINE S == {k \in Nat : k <= n => ChainOf(T, k) = ReportTrail!NoChain}
<1>1. 0 \in S
  BY ChainStep
<1>2. ASSUME NEW k \in Nat, k \in S
      PROVE  k + 1 \in S
  <2> SUFFICES ASSUME k + 1 <= n PROVE ChainOf(T, k + 1) = ReportTrail!NoChain
    OBVIOUS
  <2>1. ChainOf(T, k) = ReportTrail!NoChain /\ T[k + 1].version = 0
    BY <1>2
  <2> QED BY <2>1, ChainStep DEF Link
<1>3. n \in S
  <2> HIDE DEF S
  <2> QED BY <1>1, <1>2, Induct
<1> QED BY <1>3

LEMMA ExpectedIs ==
    ASSUME NEW n \in Nat
    PROVE  ReportTrail!Expected(n) = ChainOf(trail, n)
BY ChainExists DEF ReportTrail!Expected, ChainOf, IsChain, Link
-----------------------------------------------------------------------------
(* What the check says of a trail, as an operator of the trail. *)

HoldsAt(T, b, i) ==
    IF T[i].version = 0
    THEN /\ \A j \in 1..(i - 1) : T[j].version = 0
         /\ T[i].id <= b
         /\ T[i].identity = "none" /\ T[i].chain = ReportTrail!NoChain
    ELSE T[i].id > b /\ T[i].chain = ReportTrail!Hash(ChainOf(T, i - 1), T[i])

AllHold(T, b) == \A i \in DOMAIN T : HoldsAt(T, b, i)

Growing(T) == \A i, j \in DOMAIN T : i < j => T[i].id < T[j].id

LastOf(T) == IF T = <<>> THEN 0 ELSE T[Len(T)].id

LEMMA RowHoldsIs ==
    ASSUME NEW i \in Nat \ {0}
    PROVE  ReportTrail!RowHolds(i) <=> HoldsAt(trail, boundary, i)
<1>1. ReportTrail!Expected(i) = ChainOf(trail, i)
  BY ExpectedIs
<1>2. ChainOf(trail, i) = Link(trail[i], ChainOf(trail, i - 1))
  <2>1. i - 1 \in Nat /\ (i - 1) + 1 = i
    OBVIOUS
  <2>2. ChainOf(trail, (i - 1) + 1) = Link(trail[(i - 1) + 1], ChainOf(trail, i - 1))
    BY <2>1, ChainStep
  <2> QED BY <2>1, <2>2
<1> QED BY <1>1, <1>2 DEF ReportTrail!RowHolds, ReportTrail!LegacyHolds, HoldsAt, Link

\* The check looks at a row and those before it.
LEMMA HoldsPrefix ==
    ASSUME NEW T, NEW V, NEW b, NEW i \in Nat \ {0}, \A j \in 1..i : T[j] = V[j]
    PROVE  HoldsAt(T, b, i) <=> HoldsAt(V, b, i)
<1>1. i - 1 \in Nat /\ i \in 1..i /\ \A j \in 1..(i - 1) : j \in 1..i
  OBVIOUS
<1>2. T[i] = V[i] /\ \A j \in 1..(i - 1) : T[j] = V[j]
  BY <1>1
<1>3. ChainOf(T, i - 1) = ChainOf(V, i - 1)
  BY <1>1, <1>2, ChainPrefix
<1> QED BY <1>2, <1>3 DEF HoldsAt

\* Up to a row that holds, the chain is that of the row, or there is none yet.
LEMMA ChainAt ==
    ASSUME NEW U, NEW T \in Seq(Rows(U)), NEW b, AllHold(T, b), NEW n \in 0..Len(T)
    PROVE  \/ /\ \A j \in 1..n : T[j].version = 0
              /\ ChainOf(T, n) = ReportTrail!NoChain
           \/ /\ n > 0 /\ T[n].version = 1
              /\ ChainOf(T, n) = T[n].chain
              /\ ChainOf(T, n) = ReportTrail!Hash(ChainOf(T, n - 1), T[n])
<1>1. CASE n = 0
  BY <1>1, ChainStep
<1>2. CASE n # 0 /\ T[n].version = 0
  <2>1. \A j \in 1..(n - 1) : T[j].version = 0
    BY <1>2 DEF AllHold, HoldsAt
  <2>2. \A j \in 1..n : T[j].version = 0
    BY <1>2, <2>1
  <2> QED BY <2>2, LegacyChain
<1>3. CASE n # 0 /\ T[n].version # 0
  <2>1. T[n].version = 1 /\ n \in DOMAIN T /\ n - 1 \in Nat /\ (n - 1) + 1 = n
    <3>1. T[n] \in Rows(U)
      BY <1>3
    <3> QED BY <1>3, <3>1 DEF Rows
  <2>2. T[n].chain = ReportTrail!Hash(ChainOf(T, n - 1), T[n])
    BY <1>3, <2>1 DEF AllHold, HoldsAt
  <2>3. ChainOf(T, (n - 1) + 1) = Link(T[(n - 1) + 1], ChainOf(T, n - 1))
    BY <2>1, ChainStep
  <2> QED BY <1>3, <2>1, <2>2, <2>3 DEF Link
<1> QED BY <1>1, <1>2, <1>3

\* The latest chained row of a trail that holds has the chain of the whole trail.
LEMMA PreviousIs ==
    ASSUME NEW U, trail \in Seq(Rows(U)), AllHold(trail, boundary)
    PROVE  ReportTrail!PreviousChain = ChainOf(trail, Len(trail))
<1> DEFINE n == Len(trail)
           chained == {i \in DOMAIN trail : trail[i].version = 1}
<1>1. n \in 0..Len(trail) /\ DOMAIN trail = 1..n /\ n \in Nat
  OBVIOUS
<1>previous. ReportTrail!PreviousChain =
                 IF chained = {} THEN ReportTrail!NoChain ELSE trail[ReportTrail!Max(chained)].chain
  BY DEF ReportTrail!PreviousChain
<1>2. CASE (\A j \in 1..n : trail[j].version = 0) /\ ChainOf(trail, n) = ReportTrail!NoChain
  <2>1. chained = {}
    BY <1>1, <1>2
  <2> HIDE DEF chained
  <2>2. ReportTrail!PreviousChain = ReportTrail!NoChain
    BY <1>previous, <2>1
  <2> QED BY <1>2, <2>2
<1>3. CASE n > 0 /\ trail[n].version = 1 /\ ChainOf(trail, n) = trail[n].chain
  <2>1. n \in chained /\ \A i \in chained : i \in Int /\ n >= i
    BY <1>1, <1>3
  <2> HIDE DEF n
  <2>2. ReportTrail!Max(chained) = n
    <3> DEFINE top(x) == x \in chained /\ \A y \in chained : x >= y
    <3>1. top(n)
      BY <2>1
    <3>2. \A x : top(x) => x = n
      BY <2>1
    <3>3. ReportTrail!Max(chained) = CHOOSE x : top(x)
      BY DEF ReportTrail!Max
    <3> HIDE DEF top
    <3> QED BY <3>1, <3>2, <3>3
  <2>3. chained # {}
    BY <2>1
  <2> HIDE DEF chained
  <2>4. ReportTrail!PreviousChain = trail[n].chain
    BY <1>previous, <2>2, <2>3
  <2> QED BY <1>3, <2>4 DEF n
<1> QED BY <1>1, <1>2, <1>3, ChainAt

\* A row that continues a trail that holds.
LEMMA AppendHolds ==
    ASSUME NEW U, NEW T \in Seq(Rows(U)), NEW b \in Int, AllHold(T, b), b <= LastOf(T),
           NEW row \in Rows(U), row.version = 1, row.id = LastOf(T) + 1,
           row.chain = ReportTrail!Hash(ChainOf(T, Len(T)), row)
    PROVE  AllHold(Append(T, row), b)
<1> DEFINE V == Append(T, row)
           n == Len(T)
<1>1. /\ n \in Nat /\ DOMAIN T = 1..n /\ DOMAIN V = 1..(n + 1) /\ V[n + 1] = row
      /\ \A j \in 1..n : T[j] = V[j]
  OBVIOUS
<1> HIDE DEF V, n
<1>2. ASSUME NEW i \in 1..n
      PROVE  HoldsAt(V, b, i)
  <2>1. i \in Nat \ {0} /\ \A j \in 1..i : j \in 1..n
    BY <1>1
  <2>2. \A j \in 1..i : T[j] = V[j]
    BY <1>1, <2>1
  <2>3. HoldsAt(T, b, i)
    BY <1>1 DEF AllHold
  <2> QED BY <2>1, <2>2, <2>3, HoldsPrefix
<1>3. HoldsAt(V, b, n + 1)
  <2>1. ChainOf(T, n) = ChainOf(V, n)
    BY <1>1, ChainPrefix
  <2>2. (n + 1) - 1 = n /\ row.id > b
    <3>1. row.id \in Nat
      BY DEF Rows
    <3>2. LastOf(T) \in Int
      <4>1. CASE T = <<>>
        <5>1. LastOf(T) = 0
          BY <4>1 DEF LastOf
        <5> QED BY <5>1
      <4>2. CASE T # <<>>
        <5>1. T[Len(T)] \in Rows(U)
          BY <4>2
        <5>2. T[Len(T)].id \in Nat
          BY <5>1 DEF Rows
        <5>3. LastOf(T) = T[Len(T)].id
          BY <4>2 DEF LastOf
        <5> QED BY <5>2, <5>3
      <4> QED BY <4>1, <4>2
    <3> QED BY <1>1, <3>1, <3>2
  <2> QED BY <1>1, <2>1, <2>2 DEF HoldsAt, n
<1> QED
  <2>1. \A i \in DOMAIN V : i \in 1..n \/ i = n + 1
    BY <1>1
  <2> QED BY <1>2, <1>3, <2>1 DEF AllHold, V

\* What is appended hides nothing.
LEMMA AppendHides ==
    ASSUME NEW U, NEW T \in Seq(Rows(U)), NEW b, NEW row, AllHold(Append(T, row), b)
    PROVE  AllHold(T, b)
<1> DEFINE V == Append(T, row)
<1>1. /\ Len(T) \in Nat /\ DOMAIN T = 1..Len(T) /\ DOMAIN V = 1..(Len(T) + 1)
      /\ \A j \in 1..Len(T) : T[j] = V[j]
  OBVIOUS
<1> HIDE DEF V
<1> SUFFICES ASSUME NEW i \in DOMAIN T PROVE HoldsAt(T, b, i)
  BY DEF AllHold
<1>2. i \in Nat \ {0} /\ i \in DOMAIN V /\ \A j \in 1..i : T[j] = V[j]
  BY <1>1
<1> QED BY <1>2, HoldsPrefix DEF AllHold, V

\* Every edit of a trail that holds leaves a row that does not.
LEMMA ChangeBreaks ==
    ASSUME NEW U, NEW T \in Seq(Rows(U)), NEW b, AllHold(T, b),
           NEW i \in DOMAIN T, T[i].version = 1, NEW p, p # T[i].by
    PROVE  ~AllHold([T EXCEPT ![i].by = p], b)
<1> DEFINE V == [T EXCEPT ![i].by = p]
<1>1. /\ i \in Nat \ {0} /\ i - 1 \in Nat /\ i \in DOMAIN V
      /\ \A j \in 1..(i - 1) : T[j] = V[j]
  OBVIOUS
<1>2. T[i] \in Rows(U)
  OBVIOUS
<1>3. V[i] = [T[i] EXCEPT !.by = p]
  OBVIOUS
<1>4. V[i].version = 1 /\ V[i].chain = T[i].chain /\ V[i].by = p
  BY <1>2, <1>3 DEF Rows
<1> HIDE DEF V
<1>5. ChainOf(T, i - 1) = ChainOf(V, i - 1)
  BY <1>1, ChainPrefix
<1>6. T[i].chain = ReportTrail!Hash(ChainOf(T, i - 1), T[i])
  BY DEF AllHold, HoldsAt
<1>7. ReportTrail!Hash(ChainOf(T, i - 1), T[i]) # ReportTrail!Hash(ChainOf(V, i - 1), V[i])
  BY <1>4 DEF ReportTrail!Hash, ReportTrail!Fields
<1>8. ~HoldsAt(V, b, i)
  BY <1>4, <1>6, <1>7 DEF HoldsAt
<1> QED BY <1>1, <1>8 DEF AllHold, V

\* The rows after a removed one move up.
LEMMA RemovedRow ==
    ASSUME NEW U, NEW T \in Seq(Rows(U)), NEW i \in DOMAIN T, i < Len(T)
    PROVE  LET V == ReportTrail!RemoveAt(T, i) IN
           /\ V \in Seq(Rows(U)) /\ Len(V) = Len(T) - 1 /\ DOMAIN V = 1..(Len(T) - 1)
           /\ \A j \in 1..(i - 1) : V[j] = T[j]
           /\ \A j \in i..(Len(T) - 1) : V[j] = T[j + 1]
<1> DEFINE V == ReportTrail!RemoveAt(T, i)
           head == SubSeq(T, 1, i - 1)
           rest == SubSeq(T, i + 1, Len(T))
           n == Len(T)
<1>1. i \in Nat \ {0} /\ i - 1 \in Nat /\ n \in Nat /\ i + 1 <= n
  OBVIOUS
<1>2. /\ head \in Seq(Rows(U)) /\ Len(head) = i - 1
      /\ \A j \in 1..(i - 1) : head[j] = T[j]
  <2> HIDE DEF rest, n
  <2> QED BY <1>1 DEF n
<1>3. /\ rest \in Seq(Rows(U)) /\ Len(rest) = n - i
      /\ \A j \in 1..(n - i) : rest[j] = T[j + i]
  <2> HIDE DEF head
  <2> QED BY <1>1
<1>4. V = head \o rest
  BY DEF ReportTrail!RemoveAt
<1> HIDE DEF V, head, rest, n
<1>5. /\ V \in Seq(Rows(U)) /\ Len(V) = Len(head) + Len(rest)
      /\ \A j \in 1..(Len(head) + Len(rest)) :
             V[j] = IF j <= Len(head) THEN head[j] ELSE rest[j - Len(head)]
  BY <1>2, <1>3, <1>4, ConcatProperties
<1>6. Len(head) + Len(rest) = n - 1 /\ Len(head) = i - 1
  BY <1>1, <1>2, <1>3
<1>7. DOMAIN V = 1..(n - 1)
  BY <1>5, <1>6
<1>8. ASSUME NEW j \in 1..(i - 1)
      PROVE  V[j] = T[j]
  <2>1. j \in 1..(n - 1) /\ j <= i - 1
    BY <1>1
  <2> QED BY <1>2, <1>5, <1>6, <2>1
<1>9. ASSUME NEW j \in i..(n - 1)
      PROVE  V[j] = T[j + 1]
  <2>1. j \in 1..(n - 1) /\ ~(j <= i - 1) /\ j - (i - 1) \in 1..(n - i)
    BY <1>1
  <2>2. (j - (i - 1)) + i = j + 1
    BY <1>1, <2>1
  <2>3. V[j] = rest[j - (i - 1)]
    BY <1>5, <1>6, <2>1
  <2>4. rest[j - (i - 1)] = T[(j - (i - 1)) + i]
    BY <1>3, <2>1
  <2> QED BY <2>2, <2>3, <2>4
<1> QED BY <1>5, <1>6, <1>7, <1>8, <1>9 DEF V, n

LEMMA RemovalBreaks ==
    ASSUME NEW U, NEW T \in Seq(Rows(U)), NEW b, AllHold(T, b), Growing(T),
           NEW i \in DOMAIN T, T[i].version = 1, i < Len(T)
    PROVE  ~AllHold(ReportTrail!RemoveAt(T, i), b)
<1> DEFINE V == ReportTrail!RemoveAt(T, i)
<1>1. /\ i \in Nat \ {0} /\ i - 1 \in Nat /\ i + 1 \in DOMAIN T /\ i \in DOMAIN V
      /\ \A j \in 1..(i - 1) : T[j] = V[j]
      /\ V[i] = T[i + 1]
  <2>1. i \in Nat \ {0} /\ i - 1 \in Nat /\ i + 1 \in DOMAIN T /\ i \in i..(Len(T) - 1)
    OBVIOUS
  <2>2. i \in 1..(Len(T) - 1)
    BY <2>1
  <2> HIDE DEF V
  <2>3. /\ DOMAIN V = 1..(Len(T) - 1)
        /\ \A j \in 1..(i - 1) : V[j] = T[j]
        /\ \A j \in i..(Len(T) - 1) : V[j] = T[j + 1]
    BY RemovedRow DEF V
  <2> QED BY <2>1, <2>2, <2>3
<1> HIDE DEF V
<1> SUFFICES ASSUME HoldsAt(V, b, i) PROVE FALSE
  BY <1>1 DEF AllHold, V
<1>2. /\ T[i + 1] \in Rows(U)
      /\ HoldsAt(T, b, i) /\ HoldsAt(T, b, i + 1)
  BY <1>1 DEF AllHold
<1>3. T[i + 1].version = 1
  <2>1. T[i + 1].version \in {0, 1}
    BY <1>2 DEF Rows
  <2>2. i \in 1..((i + 1) - 1)
    BY <1>1
  <2> QED BY <1>2, <2>1, <2>2 DEF HoldsAt
<1>4. ChainOf(T, i - 1) = ChainOf(V, i - 1)
  BY <1>1, ChainPrefix
<1>5. T[i + 1].chain = ReportTrail!Hash(ChainOf(T, i), T[i + 1])
  <2>1. (i + 1) - 1 = i
    BY <1>1
  <2> QED BY <1>2, <1>3, <2>1 DEF HoldsAt
<1>6. T[i + 1].chain = ReportTrail!Hash(ChainOf(T, i - 1), T[i + 1])
  BY <1>1, <1>3, <1>4 DEF HoldsAt
<1>7. ChainOf(T, i) = ChainOf(T, i - 1)
  BY <1>5, <1>6 DEF ReportTrail!Hash
<1>8. ChainOf(T, i) = <<ChainOf(T, i - 1), ReportTrail!Fields(T[i])>>
  <2>1. ChainOf(T, (i - 1) + 1) = Link(T[(i - 1) + 1], ChainOf(T, i - 1)) /\ (i - 1) + 1 = i
    BY <1>1, ChainStep
  <2> QED BY <2>1 DEF Link, ReportTrail!Hash
<1>9. CASE ChainOf(T, i - 1) = ReportTrail!NoChain
  <2>1. <<>> # <<ChainOf(T, i - 1), ReportTrail!Fields(T[i])>>
    OBVIOUS
  <2> QED BY <1>7, <1>8, <1>9, <2>1 DEF ReportTrail!NoChain
<1>10. CASE /\ i - 1 > 0
            /\ ChainOf(T, i - 1) = ReportTrail!Hash(ChainOf(T, (i - 1) - 1), T[i - 1])
  <2>1. ReportTrail!Fields(T[i]) = ReportTrail!Fields(T[i - 1])
    BY <1>7, <1>8, <1>10 DEF ReportTrail!Hash
  <2>2. T[i].id = T[i - 1].id
    BY <2>1 DEF ReportTrail!Fields
  <2>3. i - 1 \in DOMAIN T /\ i - 1 < i
    BY <1>1, <1>10
  <2>4. T[i].id \in Nat /\ T[i - 1].id \in Nat
    <3>1. T[i] \in Rows(U) /\ T[i - 1] \in Rows(U)
      BY <2>3
    <3> QED BY <3>1 DEF Rows
  <2>6. T[i - 1].id < T[i].id
    BY <2>3 DEF Growing
  <2> QED BY <2>2, <2>4, <2>6
<1> QED
  <2>1. i - 1 \in 0..Len(T)
    BY <1>1
  <2> QED BY <1>9, <1>10, <2>1, ChainAt

LEMMA DisguiseBreaks ==
    ASSUME NEW U, NEW T \in Seq(Rows(U)), NEW b \in Int, AllHold(T, b),
           NEW i \in DOMAIN T, T[i].version = 1,
           NEW c, NEW a
    PROVE  ~AllHold([T EXCEPT ![i] = ReportTrail!LegacyRow(T[i].id, c, a)], b)
<1> DEFINE V == [T EXCEPT ![i] = ReportTrail!LegacyRow(T[i].id, c, a)]
<1>1. i \in DOMAIN V /\ V[i] = ReportTrail!LegacyRow(T[i].id, c, a)
  OBVIOUS
<1> HIDE DEF V
<1>2. V[i].version = 0 /\ V[i].id = T[i].id
  BY <1>1 DEF ReportTrail!LegacyRow
<1>3. T[i].id > b /\ T[i].id \in Nat
  <2>1. T[i] \in Rows(U)
    OBVIOUS
  <2> QED BY <2>1 DEF AllHold, HoldsAt, Rows
<1>4. ~HoldsAt(V, b, i)
  BY <1>2, <1>3 DEF HoldsAt
<1> QED BY <1>1, <1>4 DEF AllHold, V
-----------------------------------------------------------------------------
(* What always holds of the trail and of the calls. *)

TrailShapes ==
    /\ \E U : trail \in Seq(Rows(U))
    /\ Len(trail) <= MaxRows /\ schema \in {5, 7} /\ boundary \in -1..MaxRows
    /\ altered \in BOOLEAN

CallShapes ==
    /\ identity \in {"open", "registered", "authenticated"}
    /\ reporters \in [People -> [enabled : BOOLEAN, version : 0..MaxVersion]]
    /\ users \in Reports \cup {NoReport} /\ watch \in Reports \cup {NoReport}
    /\ call \in [Reports -> {ReportTrail!NoCall} \cup ReportCalls]

\* Identifiers grow, and no new one is a legacy one.
IdsGrow == Growing(trail) /\ (schema = 7 => boundary <= LastOf(trail))

\* Before the upgrade there are only legacy rows, one at most.
OldTrail ==
    schema # 7 =>
        /\ ~altered /\ Len(trail) <= 1
        /\ \A i \in DOMAIN trail :
               /\ trail[i].version = 0 /\ trail[i].identity = "none"
               /\ trail[i].chain = ReportTrail!NoChain
               /\ trail[i].action = "report" /\ trail[i].id = 1

\* Afterwards the rows hold exactly if nobody edited them.
EditsShow == schema = 7 => (AllHold(trail, boundary) <=> ~altered)

TrailIsTrue ==
    TrailShapes /\ IdsGrow /\ OldTrail /\ EditsShow /\ ReportTrail!OnlyReportsAreWithdrawn

\* A call that writes has the lock of the watch database, one that was checked that of the
\* accounts, and what it was checked for still holds.
CallKnows(r) ==
    /\ call[r].phase = "writing" <=> watch = r
    /\ call[r].phase \in {"guarded", "writing", "written"} /\ call[r].identity.mode # "open" =>
           users = r
    /\ call[r].phase = "writing" =>
           /\ schema = 7
           /\ ReportTrail!Current(call[r].identity)
           /\ call[r].action = "unreport" => ReportTrail!Reported(call[r].cve)

TrailKnows == TrailIsTrue /\ CallShapes /\ \A r \in Reports : CallKnows(r)

LEMMA NoCallIs == ReportTrail!NoCall.phase = "idle" /\ ReportTrail!NoCall \in {ReportTrail!NoCall} \cup ReportCalls
BY DEF ReportTrail!NoCall

LEMMA RecordsOfCalls ==
    ASSUME NEW x \in {ReportTrail!NoCall} \cup ReportCalls, x.phase # "idle"
    PROVE  /\ x \in ReportCalls /\ x.identity \in Reporters /\ x.cve \in Cves
           /\ x.action \in ReportTrail!Actions
BY NoCallIs DEF ReportCalls

LEMMA MovedCall ==
    ASSUME NEW x \in ReportCalls, NEW phase \in {"resolved", "guarded", "writing", "written"},
           NEW y, y = [x EXCEPT !.phase = phase]
    PROVE  /\ y \in ReportCalls /\ y.phase = phase
           /\ y.identity = x.identity /\ y.cve = x.cve /\ y.action = x.action
BY DEF ReportCalls

\* The trail is left alone.
LEMMA TrailStays ==
    ASSUME TrailIsTrue, UNCHANGED <<trail, schema, boundary, altered>>
    PROVE  TrailIsTrue'
BY DEF TrailIsTrue, TrailShapes, IdsGrow, OldTrail, EditsShow, ReportTrail!OnlyReportsAreWithdrawn

\* A step of one call leaves what another one knows.
LEMMA CallsStay ==
    ASSUME CallShapes, NEW r \in Reports, NEW q \in Reports, q # r, CallKnows(q),
           NEW v, call' = [call EXCEPT ![r] = v], UNCHANGED <<trail, schema, reporters>>,
           watch' = watch \/ (watch = NoReport /\ watch' = r) \/ (watch = r /\ watch' = NoReport),
           users' = users \/ (users = NoReport /\ users' = r) \/ (users = r /\ users' = NoReport),
           NoReport \notin Reports
    PROVE  CallKnows(q)'
<1>1. call'[q] = call[q]
  BY DEF CallShapes
<1>2. watch' = q <=> watch = q
  OBVIOUS
<1>3. users = q => users' = q
  OBVIOUS
<1>4. /\ ReportTrail!Current(call[q].identity)' <=> ReportTrail!Current(call[q].identity)
      /\ ReportTrail!Reported(call[q].cve)' <=> ReportTrail!Reported(call[q].cve)
  BY <1>1 DEF ReportTrail!Current, ReportTrail!Reported, ReportTrail!OfCve
<1> QED BY <1>1, <1>2, <1>3, <1>4 DEF CallKnows

LEMMA ResolveCalls ==
    ASSUME ReportTrail!ReportTrailAssumption, TrailKnows, NEW r \in Reports, ReportTrail!Resolve(r)
    PROVE  TrailKnows'
<1>1. PICK mode \in {identity, "authenticated"}, p \in People, action \in ReportTrail!Actions,
           c \in Cves :
        ReportTrail!Becomes(r, [phase |-> "resolved", action |-> action, cve |-> c,
              identity |-> [mode |-> mode, who |-> p, version |-> reporters[p].version]])
  BY DEF ReportTrail!Resolve
<1> DEFINE v == [phase |-> "resolved", action |-> action, cve |-> c,
                 identity |-> [mode |-> mode, who |-> p, version |-> reporters[p].version]]
<1>2. /\ call' = [call EXCEPT ![r] = v] /\ call[r].phase = "idle"
      /\ UNCHANGED <<identity, trail, schema, boundary, reporters, users, watch, altered>>
  BY <1>1 DEF ReportTrail!Resolve, ReportTrail!Becomes, ReportTrail!At, ReportTrail!store
<1>3. v \in ReportCalls /\ v.phase = "resolved"
  <2>1. reporters[p].version \in 0..MaxVersion
    BY DEF TrailKnows, CallShapes
  <2>2. mode \in {"open", "registered", "authenticated"}
    BY DEF TrailKnows, CallShapes
  <2> QED BY <2>1, <2>2 DEF ReportCalls, Reporters
<1> HIDE DEF v
<1>4. TrailIsTrue'
  BY <1>2, TrailStays DEF TrailKnows
<1>5. CallShapes'
  BY <1>2, <1>3 DEF TrailKnows, CallShapes
<1>6. CallKnows(r)'
  <2>1. call'[r] = v
    BY <1>2 DEF TrailKnows, CallShapes
  <2>2. watch # r
    BY <1>2 DEF TrailKnows, CallKnows
  <2> QED BY <1>2, <1>3, <2>1, <2>2 DEF CallKnows
<1>7. ASSUME NEW q \in Reports, q # r
      PROVE  CallKnows(q)'
  BY <1>2, <1>7, CallsStay DEF TrailKnows, ReportTrail!ReportTrailAssumption
<1> QED BY <1>4, <1>5, <1>6, <1>7 DEF TrailKnows

\* A call that moves on, or is over.
LEMMA StepOfCall ==
    ASSUME ReportTrail!ReportTrailAssumption, TrailKnows, NEW r \in Reports, call[r].phase # "idle",
           NEW v, call' = [call EXCEPT ![r] = v],
           UNCHANGED <<identity, trail, schema, boundary, reporters, altered>>,
           \/ v = ReportTrail!NoCall
           \/ \E phase \in {"guarded", "writing", "written"} : v = [call[r] EXCEPT !.phase = phase],
           watch' = watch \/ (watch = NoReport /\ watch' = r) \/ (watch = r /\ watch' = NoReport),
           users' = users \/ (users = NoReport /\ users' = r) \/ (users = r /\ users' = NoReport),
           v.phase = "writing" <=> watch' = r,
           v.phase # "idle" /\ call[r].identity.mode # "open" => users' = r,
           v.phase = "writing" =>
               /\ schema = 7 /\ ReportTrail!Current(call[r].identity)
               /\ call[r].action = "unreport" => ReportTrail!Reported(call[r].cve)
    PROVE  TrailKnows'
<1>1. TrailIsTrue'
  <2>1. TrailIsTrue /\ UNCHANGED <<trail, schema, boundary, altered>>
    BY DEF TrailKnows
  <2> QED BY <2>1, TrailStays
<1>2. call[r] \in ReportCalls
  BY RecordsOfCalls DEF TrailKnows, CallShapes
<1>3. /\ v \in {ReportTrail!NoCall} \cup ReportCalls
      /\ v.phase # "idle" =>
             /\ v.identity = call[r].identity /\ v.cve = call[r].cve /\ v.action = call[r].action
  <2>1. CASE v = ReportTrail!NoCall
    BY <2>1, NoCallIs
  <2>2. ASSUME NEW phase \in {"guarded", "writing", "written"}, v = [call[r] EXCEPT !.phase = phase]
        PROVE  v \in ReportCalls /\ v.identity = call[r].identity /\ v.cve = call[r].cve
               /\ v.action = call[r].action
    BY <1>2, <2>2, MovedCall
  <2> QED BY <2>1, <2>2
<1>4. CallShapes'
  BY <1>3 DEF TrailKnows, CallShapes
<1>5. CallKnows(r)'
  <2>1. call'[r] = v
    BY DEF TrailKnows, CallShapes
  <2>2. v.phase # "idle" =>
            /\ ReportTrail!Current(call[r].identity)' <=> ReportTrail!Current(call[r].identity)
            /\ ReportTrail!Reported(call[r].cve)' <=> ReportTrail!Reported(call[r].cve)
    BY <1>3, <2>1 DEF ReportTrail!Current, ReportTrail!Reported, ReportTrail!OfCve
  <2> QED BY <1>3, <2>1, <2>2 DEF CallKnows
<1>6. ASSUME NEW q \in Reports, q # r
      PROVE  CallKnows(q)'
  BY <1>6, CallsStay DEF TrailKnows, ReportTrail!ReportTrailAssumption
<1> QED BY <1>1, <1>4, <1>5, <1>6 DEF TrailKnows

LEMMA GuardCalls ==
    ASSUME ReportTrail!ReportTrailAssumption, TrailKnows, NEW r \in Reports, ReportTrail!Guard(r)
    PROVE  TrailKnows'
<1>1. /\ call[r].phase = "resolved"
      /\ UNCHANGED <<identity, trail, schema, boundary, reporters, watch, altered>>
  BY DEF ReportTrail!Guard, ReportTrail!At, ReportTrail!store
<1>2. CallKnows(r)
  BY DEF TrailKnows
<1>3. watch # r
  BY <1>1, <1>2 DEF CallKnows
<1> DEFINE moved == [call[r] EXCEPT !.phase = "guarded"]
<1>4. \/ /\ call' = [call EXCEPT ![r] = moved]
         /\ \/ call[r].identity.mode = "open" /\ users' = users
            \/ users = NoReport /\ users' = r
      \/ call' = [call EXCEPT ![r] = ReportTrail!NoCall] /\ users' = users
  BY DEF ReportTrail!Guard, ReportTrail!Moves, ReportTrail!Becomes
<1>5. moved.phase = "guarded"
  <2>1. call[r] \in ReportCalls
    BY <1>1, RecordsOfCalls DEF TrailKnows, CallShapes
  <2> QED BY <2>1, MovedCall
<1> HIDE DEF moved
<1>6. CASE call' = [call EXCEPT ![r] = ReportTrail!NoCall] /\ users' = users
  BY <1>1, <1>3, <1>6, NoCallIs, StepOfCall
<1>7. CASE /\ call' = [call EXCEPT ![r] = moved]
           /\ \/ call[r].identity.mode = "open" /\ users' = users
              \/ users = NoReport /\ users' = r
  <2>1. moved = [call[r] EXCEPT !.phase = "guarded"]
    BY DEF moved
  <2> QED BY <1>1, <1>3, <1>5, <1>7, <2>1, StepOfCall
<1> QED BY <1>4, <1>6, <1>7

LEMMA BeginCalls ==
    ASSUME ReportTrail!ReportTrailAssumption, TrailKnows, NEW r \in Reports, ReportTrail!Begin(r)
    PROVE  TrailKnows'
<1>1. /\ call[r].phase = "guarded" /\ watch = NoReport /\ schema = 7
      /\ UNCHANGED <<identity, trail, schema, boundary, reporters, users, altered>>
  BY DEF ReportTrail!Begin, ReportTrail!At, ReportTrail!store
<1>2. CallKnows(r)
  BY DEF TrailKnows
<1>3. watch # r /\ (call[r].identity.mode # "open" => users = r)
  BY <1>1, <1>2 DEF CallKnows
<1> DEFINE writes == [call[r] EXCEPT !.phase = "writing"]
           over == [call[r] EXCEPT !.phase = "written"]
<1>4. \/ /\ call' = [call EXCEPT ![r] = writes] /\ watch' = r
         /\ ReportTrail!Current(call[r].identity)
         /\ call[r].action = "unreport" => ReportTrail!Reported(call[r].cve)
      \/ call' = [call EXCEPT ![r] = over] /\ watch' = watch
  BY DEF ReportTrail!Begin, ReportTrail!Moves, ReportTrail!Becomes, ReportTrail!Allowed
<1>5. writes.phase = "writing" /\ over.phase = "written"
  <2>1. call[r] \in ReportCalls
    BY <1>1, RecordsOfCalls DEF TrailKnows, CallShapes
  <2> QED BY <2>1, MovedCall
<1>6. writes = [call[r] EXCEPT !.phase = "writing"] /\ over = [call[r] EXCEPT !.phase = "written"]
  OBVIOUS
<1> HIDE DEF writes, over
<1>7. CASE /\ call' = [call EXCEPT ![r] = writes] /\ watch' = r
           /\ ReportTrail!Current(call[r].identity)
           /\ call[r].action = "unreport" => ReportTrail!Reported(call[r].cve)
  BY <1>1, <1>3, <1>5, <1>6, <1>7, StepOfCall
<1>8. CASE call' = [call EXCEPT ![r] = over] /\ watch' = watch
  BY <1>1, <1>3, <1>5, <1>6, <1>8, StepOfCall
<1> QED BY <1>4, <1>7, <1>8

LEMMA EndCalls ==
    ASSUME ReportTrail!ReportTrailAssumption, TrailKnows, NEW r \in Reports,
           ReportTrail!Release(r) \/ ReportTrail!Crash(r)
    PROVE  TrailKnows'
<1>1. /\ call[r].phase # "idle"
      /\ call' = [call EXCEPT ![r] = ReportTrail!NoCall]
      /\ UNCHANGED <<identity, trail, schema, boundary, reporters, altered>>
      /\ users' = IF users = r THEN NoReport ELSE users
  BY DEF ReportTrail!Release, ReportTrail!Crash, ReportTrail!At, ReportTrail!store, ReportTrail!Becomes
<1>2. CallKnows(r) /\ r # NoReport
  BY DEF TrailKnows, ReportTrail!ReportTrailAssumption
<1>3. watch' # r /\ (watch' = watch \/ (watch = r /\ watch' = NoReport))
  <2>1. CASE ReportTrail!Release(r)
    <3>1. call[r].phase = "written" /\ watch' = watch
      BY <2>1 DEF ReportTrail!Release, ReportTrail!At
    <3> QED BY <1>2, <3>1 DEF CallKnows
  <2>2. CASE ReportTrail!Crash(r)
    <3>1. watch' = IF watch = r THEN NoReport ELSE watch
      BY <2>2 DEF ReportTrail!Crash
    <3> QED BY <1>2, <3>1
  <2> QED BY <2>1, <2>2
<1>4. users' = users \/ (users = r /\ users' = NoReport)
  BY <1>1
<1> QED BY <1>1, <1>3, <1>4, NoCallIs, StepOfCall

LEMMA AccountStays ==
    ASSUME ReportTrail!ReportTrailAssumption, TrailKnows, NEW p \in People, ReportTrail!ChangeAccount(p)
    PROVE  TrailKnows'
<1>1. /\ users = NoReport /\ reporters[p].version < MaxVersion
      /\ reporters' = [reporters EXCEPT ![p].enabled = ~@, ![p].version = @ + 1]
      /\ UNCHANGED <<identity, trail, schema, boundary, users, watch, call, altered>>
  BY DEF ReportTrail!ChangeAccount, ReportTrail!AccountsFree, ReportTrail!store
<1>2. TrailIsTrue'
  <2>1. TrailIsTrue /\ UNCHANGED <<trail, schema, boundary, altered>>
    BY <1>1 DEF TrailKnows
  <2> QED BY <2>1, TrailStays
<1>3. CallShapes'
  <2> DEFINE new == [reporters[p] EXCEPT !.enabled = ~@, !.version = @ + 1]
  <2>1. reporters[p] \in [enabled : BOOLEAN, version : 0..MaxVersion] /\ MaxVersion \in Nat
    BY DEF TrailKnows, CallShapes, ReportTrail!ReportTrailAssumption
  <2>2. reporters[p].version + 1 \in 0..MaxVersion /\ (~reporters[p].enabled) \in BOOLEAN
    BY <1>1, <2>1
  <2>3. DOMAIN reporters[p] = {"enabled", "version"}
    BY <2>1
  <2>4. new \in [enabled : BOOLEAN, version : 0..MaxVersion]
    <3>1. new = [f \in {"enabled", "version"} |->
                    IF f = "version" THEN reporters[p].version + 1 ELSE ~reporters[p].enabled]
      BY <2>3
    <3>2. new.enabled = ~reporters[p].enabled /\ new.version = reporters[p].version + 1
      BY <3>1
    <3>3. DOMAIN new = {"enabled", "version"}
      BY <3>1
    <3> HIDE DEF new
    <3> QED BY <2>2, <3>1, <3>2, <3>3
  <2>5. reporters' = [reporters EXCEPT ![p] = new]
    BY <1>1
  <2> HIDE DEF new
  <2> QED BY <1>1, <2>4, <2>5 DEF TrailKnows, CallShapes
<1>4. ASSUME NEW q \in Reports
      PROVE  CallKnows(q)'
  <2>1. CallKnows(q) /\ q # NoReport
    BY DEF TrailKnows, ReportTrail!ReportTrailAssumption
  <2>2. call[q].phase = "writing" => call[q].identity.mode = "open"
    BY <1>1, <2>1 DEF CallKnows
  <2>3. ReportTrail!Reported(call[q].cve)' <=> ReportTrail!Reported(call[q].cve)
    BY <1>1 DEF ReportTrail!Reported, ReportTrail!OfCve
  <2>4. call[q].identity.mode = "open" => ReportTrail!Current(call[q].identity)'
    BY <1>1 DEF ReportTrail!Current
  <2> QED BY <1>1, <2>1, <2>2, <2>3, <2>4 DEF CallKnows
<1> QED BY <1>2, <1>3, <1>4 DEF TrailKnows

LEMMA UpgradeStays ==
    ASSUME ReportTrail!ReportTrailAssumption, TrailKnows, ReportTrail!Upgrade
    PROVE  TrailKnows'
<1>1. /\ schema # 7 /\ watch = NoReport /\ schema' = 7 /\ boundary' = ReportTrail!LastId
      /\ UNCHANGED <<identity, trail, reporters, users, watch, call, altered>>
  BY DEF ReportTrail!Upgrade
<1>2. PICK U : trail \in Seq(Rows(U))
  BY DEF TrailKnows, TrailIsTrue, TrailShapes
<1>3. /\ ~altered /\ Len(trail) \in {0, 1}
      /\ \A i \in DOMAIN trail :
             /\ trail[i].version = 0 /\ trail[i].identity = "none"
             /\ trail[i].chain = ReportTrail!NoChain /\ trail[i].action = "report" /\ trail[i].id = 1
  <2>1. Len(trail) \in Nat
    BY <1>2
  <2>2. OldTrail
    BY DEF TrailKnows, TrailIsTrue
  <2>3. Len(trail) <= 1
    BY <1>1, <2>2 DEF OldTrail
  <2>4. Len(trail) \in {0, 1}
    <3>1. \A n \in Nat : n <= 1 => n = 0 \/ n = 1
      OBVIOUS
    <3> QED BY <2>1, <2>3, <3>1, Zenon
  <2>5. ~altered
    BY <1>1, <2>2, Zenon DEF OldTrail
  <2>6. \A i \in DOMAIN trail :
            /\ trail[i].version = 0 /\ trail[i].identity = "none"
            /\ trail[i].chain = ReportTrail!NoChain /\ trail[i].action = "report" /\ trail[i].id = 1
    BY <1>1, <2>2, Zenon DEF OldTrail
  <2> QED BY <2>4, <2>5, <2>6
<1>4. boundary' = LastOf(trail) /\ LastOf(trail) = Len(trail)
  <2>1. CASE trail = <<>>
    BY <1>1, <2>1 DEF LastOf, ReportTrail!LastId
  <2>2. CASE trail # <<>>
    <3>1. Len(trail) = 1 /\ 1 \in DOMAIN trail
      BY <1>2, <1>3, <2>2
    <3> QED BY <1>1, <1>3, <2>2, <3>1 DEF LastOf, ReportTrail!LastId, ReportTrail!Last
  <2> QED BY <2>1, <2>2
<1>5. AllHold(trail, boundary')
  <2> SUFFICES ASSUME NEW i \in DOMAIN trail PROVE HoldsAt(trail, boundary', i)
    BY DEF AllHold
  <2>1. i = 1 /\ Len(trail) = 1
    BY <1>2, <1>3
  <2>2. \A j \in 1..(i - 1) : trail[j].version = 0
    BY <2>1
  <2>3. trail[i].id = 1 /\ boundary' = 1
    BY <1>3, <1>4, <2>1
  <2>4. trail[i].id <= boundary'
    BY <2>3
  <2> QED BY <1>3, <2>2, <2>4 DEF HoldsAt
<1>6. TrailIsTrue'
  <2>1. TrailShapes'
    <3>1. boundary' \in -1..MaxRows
      BY <1>3, <1>4 DEF ReportTrail!ReportTrailAssumption
    <3> QED BY <1>1, <1>2, <3>1 DEF TrailKnows, TrailIsTrue, TrailShapes
  <2>2. IdsGrow'
    <3>1. LastOf(trail) \in Nat
      BY <1>3, <1>4
    <3> QED BY <1>1, <1>4, <3>1 DEF TrailKnows, TrailIsTrue, IdsGrow
  <2>3. OldTrail' /\ EditsShow'
    BY <1>1, <1>3, <1>5 DEF OldTrail, EditsShow
  <2>4. ReportTrail!OnlyReportsAreWithdrawn'
    BY <1>1 DEF TrailKnows, TrailIsTrue, ReportTrail!OnlyReportsAreWithdrawn
  <2> QED BY <2>1, <2>2, <2>3, <2>4 DEF TrailIsTrue
<1>7. CallShapes'
  BY <1>1 DEF TrailKnows, CallShapes
<1>8. ASSUME NEW q \in Reports
      PROVE  CallKnows(q)'
  <2>1. CallKnows(q)
    BY DEF TrailKnows
  <2>2. /\ ReportTrail!Current(call[q].identity)' <=> ReportTrail!Current(call[q].identity)
        /\ ReportTrail!Reported(call[q].cve)' <=> ReportTrail!Reported(call[q].cve)
    BY <1>1 DEF ReportTrail!Current, ReportTrail!Reported, ReportTrail!OfCve
  <2> QED BY <1>1, <2>1, <2>2 DEF CallKnows
<1> QED BY <1>6, <1>7, <1>8 DEF TrailKnows

LEMMA LastIdIs == ReportTrail!LastId = LastOf(trail)
BY DEF ReportTrail!LastId, LastOf, ReportTrail!Last

LEMMA LastIsNat ==
    ASSUME NEW U, NEW T \in Seq(Rows(U))
    PROVE  LastOf(T) \in Nat
<1>1. CASE T = <<>>
  <2>1. LastOf(T) = 0
    BY <1>1 DEF LastOf
  <2> QED BY <2>1
<1>2. CASE T # <<>>
  <2>1. T[Len(T)] \in Rows(U)
    BY <1>2
  <2>2. T[Len(T)].id \in Nat
    BY <2>1 DEF Rows
  <2>3. LastOf(T) = T[Len(T)].id
    BY <1>2 DEF LastOf
  <2> QED BY <2>2, <2>3
<1> QED BY <1>1, <1>2

LEMMA LastRow ==
    ASSUME NEW U, NEW T \in Seq(Rows(U)), Growing(T), NEW i \in DOMAIN T
    PROVE  T[i].id <= LastOf(T) /\ T[i].id \in Nat
<1> DEFINE n == Len(T)
<1>1. n \in DOMAIN T /\ T # <<>> /\ i <= n /\ i \in Int /\ n \in Int
  OBVIOUS
<1>2. T[n] \in Rows(U) /\ T[i] \in Rows(U)
  BY <1>1
<1>3. T[n].id \in Nat /\ T[i].id \in Nat
  BY <1>2 DEF Rows
<1>4. LastOf(T) = T[n].id
  BY <1>1 DEF LastOf
<1> HIDE DEF n
<1>5. CASE i < n
  BY <1>1, <1>3, <1>4, <1>5 DEF Growing
<1>6. CASE i = n
  BY <1>3, <1>4, <1>6
<1> QED BY <1>1, <1>5, <1>6

LEMMA AppendGrows ==
    ASSUME NEW U, NEW T \in Seq(Rows(U)), Growing(T), NEW row \in Rows(U), row.id = LastOf(T) + 1
    PROVE  Growing(Append(T, row)) /\ LastOf(Append(T, row)) = row.id
<1> DEFINE V == Append(T, row)
           n == Len(T)
<1>1. /\ n \in Nat /\ DOMAIN T = 1..n /\ DOMAIN V = 1..(n + 1) /\ V[n + 1] = row
      /\ Len(V) = n + 1 /\ V # <<>>
      /\ \A j \in 1..n : V[j] = T[j]
  OBVIOUS
<1> HIDE DEF V, n
<1>2. LastOf(T) \in Nat
  BY LastIsNat
<1>3. ASSUME NEW i \in DOMAIN V, NEW j \in DOMAIN V, i < j
      PROVE  V[i].id < V[j].id
  <2>1. i \in 1..n
    BY <1>1, <1>3
  <2>2. V[i].id <= LastOf(T) /\ V[i].id \in Nat
    BY <1>1, <2>1, LastRow
  <2>3. CASE j = n + 1
    BY <1>1, <1>2, <2>2, <2>3
  <2>4. CASE j # n + 1
    <3>1. j \in 1..n
      BY <1>1, <2>4
    <3> QED BY <1>1, <1>3, <2>1, <3>1 DEF Growing
  <2> QED BY <2>3, <2>4
<1>4. LastOf(V) = row.id
  BY <1>1 DEF LastOf
<1> QED BY <1>3, <1>4 DEF Growing, V

LEMMA NewRowIs ==
    ASSUME NEW c, NEW action, NEW who
    PROVE  ReportTrail!NewRow(c, action, who) =
           [id |-> ReportTrail!LastId + 1, cve |-> c, action |-> action, identity |-> who.mode,
            by |-> who.who, version |-> 1,
            chain |-> <<ReportTrail!PreviousChain,
                        <<ReportTrail!LastId + 1, c, action, who.mode, who.who>>>>]
<1> DEFINE row == [ReportTrail!LegacyRow(ReportTrail!LastId + 1, c, action) EXCEPT
                      !.identity = who.mode, !.by = who.who, !.version = 1]
<1>1. row = [id |-> ReportTrail!LastId + 1, cve |-> c, action |-> action, identity |-> who.mode,
             by |-> who.who, version |-> 1, chain |-> ReportTrail!NoChain]
  <2> DEFINE first == ReportTrail!LegacyRow(ReportTrail!LastId + 1, c, action)
             second == [first EXCEPT !.identity = who.mode]
             third == [second EXCEPT !.by = who.who]
             fourth == [third EXCEPT !.version = 1]
  <2>1. second = [id |-> ReportTrail!LastId + 1, cve |-> c, action |-> action,
                  identity |-> who.mode, by |-> "legacy", version |-> 0,
                  chain |-> ReportTrail!NoChain]
    BY DEF ReportTrail!LegacyRow
  <2>2. third = [id |-> ReportTrail!LastId + 1, cve |-> c, action |-> action,
                 identity |-> who.mode, by |-> who.who, version |-> 0,
                 chain |-> ReportTrail!NoChain]
    <3> HIDE DEF second
    <3> QED BY <2>1
  <2>3. fourth = [id |-> ReportTrail!LastId + 1, cve |-> c, action |-> action,
                  identity |-> who.mode, by |-> who.who, version |-> 1,
                  chain |-> ReportTrail!NoChain]
    <3> HIDE DEF third
    <3> QED BY <2>2
  <2>4. row = fourth
    <3>1. DOMAIN first = {"id", "cve", "action", "identity", "by", "version", "chain"}
      BY DEF ReportTrail!LegacyRow
    <3>2. row = [x \in DOMAIN first |-> IF x = "version" THEN 1 ELSE IF x = "by" THEN who.who
                                      ELSE IF x = "identity" THEN who.mode ELSE first[x]]
      BY <3>1
    <3>3. fourth = [x \in DOMAIN first |-> IF x = "version" THEN 1 ELSE IF x = "by" THEN who.who
                                         ELSE IF x = "identity" THEN who.mode ELSE first[x]]
      BY <3>1
    <3> QED BY <3>2, <3>3
  <2> QED BY <2>3, <2>4
<1>2. ReportTrail!NewRow(c, action, who) =
          [row EXCEPT !.chain = ReportTrail!Hash(ReportTrail!PreviousChain, row)]
  BY DEF ReportTrail!NewRow
<1> HIDE DEF row
<1>3. ReportTrail!Hash(ReportTrail!PreviousChain, row) =
          <<ReportTrail!PreviousChain,
            <<ReportTrail!LastId + 1, c, action, who.mode, who.who>>>>
  BY <1>1 DEF ReportTrail!Hash, ReportTrail!Fields
<1> QED BY <1>1, <1>2, <1>3

LEMMA WiderRows ==
    ASSUME NEW U, NEW V, U \subseteq V, NEW T \in Seq(Rows(U))
    PROVE  T \in Seq(Rows(V))
<1>1. Rows(U) \subseteq Rows(V)
  BY DEF Rows
<1> QED BY <1>1

LEMMA CommitStays ==
    ASSUME ReportTrail!ReportTrailAssumption, TrailKnows, NEW r \in Reports, ReportTrail!Commit(r)
    PROVE  TrailKnows'
<1> DEFINE row == ReportTrail!NewRow(call[r].cve, call[r].action, call[r].identity)
           over == [call[r] EXCEPT !.phase = "written"]
           n == Len(trail)
<1>1. /\ call[r].phase = "writing" /\ Len(trail) < MaxRows
      /\ trail' = Append(trail, row) /\ watch' = NoReport
      /\ call' = [call EXCEPT ![r] = over]
      /\ UNCHANGED <<identity, schema, boundary, reporters, users, altered>>
  BY DEF ReportTrail!Commit, ReportTrail!At, ReportTrail!Moves, ReportTrail!Becomes
<1>2. CallKnows(r) /\ r # NoReport
  BY DEF TrailKnows, ReportTrail!ReportTrailAssumption
<1>3. /\ watch = r /\ schema = 7
      /\ call[r].action = "unreport" => ReportTrail!Reported(call[r].cve)
  BY <1>1, <1>2 DEF CallKnows
<1>4. /\ call[r] \in ReportCalls /\ call[r].identity \in Reporters /\ call[r].cve \in Cves
      /\ call[r].action \in ReportTrail!Actions
  BY <1>1, RecordsOfCalls DEF TrailKnows, CallShapes
<1>5. over \in ReportCalls /\ over.phase = "written" /\ over.identity = call[r].identity
  BY <1>4, MovedCall
<1> HIDE DEF over
<1>6. PICK W : trail \in Seq(Rows(W))
  BY DEF TrailKnows, TrailIsTrue, TrailShapes
<1> DEFINE U == W \cup {row.chain}
<1>7. LastOf(trail) \in Nat
  BY <1>6, LastIsNat
<1>8. /\ row.id = LastOf(trail) + 1 /\ row.version = 1 /\ row.cve = call[r].cve
      /\ row.action = call[r].action
      /\ row.chain = ReportTrail!Hash(ReportTrail!PreviousChain, row)
      /\ row \in Rows(U)
  <2> DEFINE k == LastOf(trail) + 1
             who == call[r].identity
             ch == <<ReportTrail!PreviousChain,
                     <<k, call[r].cve, call[r].action, who.mode, who.who>>>>
  <2>1. row = [id |-> k, cve |-> call[r].cve, action |-> call[r].action, identity |-> who.mode,
               by |-> who.who, version |-> 1, chain |-> ch]
    BY NewRowIs, LastIdIs
  <2>2. who.mode \in {"open", "registered", "authenticated"} /\ who.who \in People
    BY <1>4 DEF Reporters
  <2>3. k \in Nat \ {0}
    BY <1>7
  <2> HIDE DEF k, who, row
  <2>4. ReportTrail!Hash(ReportTrail!PreviousChain, row) = ch
    BY <2>1 DEF ReportTrail!Hash, ReportTrail!Fields
  <2>5. row.chain = ch /\ row.id = k
    BY <2>1
  <2>6. row \in Rows(U)
    <3>1. ch \in U
      BY <2>5
    <3> HIDE DEF U, ch
    <3> QED BY <1>4, <2>1, <2>2, <2>3, <3>1 DEF Rows
  <2> QED BY <2>1, <2>4, <2>5, <2>6 DEF k
<1> HIDE DEF row
<1>9. trail \in Seq(Rows(U))
  BY <1>6, WiderRows
<1> HIDE DEF U
<1>10. /\ n \in Nat /\ Len(trail') = n + 1 /\ trail' \in Seq(Rows(U))
       /\ DOMAIN trail = 1..n /\ DOMAIN trail' = 1..(n + 1)
       /\ trail'[n + 1] = row /\ \A j \in 1..n : trail'[j] = trail[j]
  BY <1>1, <1>8, <1>9
<1>11. Growing(trail') /\ LastOf(trail') = row.id
  BY <1>1, <1>8, <1>9, AppendGrows DEF TrailKnows, TrailIsTrue, IdsGrow
<1>12. AllHold(trail', boundary) <=> ~altered
  <2>1. AllHold(trail, boundary) <=> ~altered
    BY <1>3 DEF TrailKnows, TrailIsTrue, EditsShow
  <2>2. CASE altered
    BY <1>1, <1>9, <2>1, <2>2, AppendHides
  <2>3. CASE ~altered
    <3>1. ReportTrail!PreviousChain = ChainOf(trail, Len(trail))
      BY <1>9, <2>1, <2>3, PreviousIs
    <3>2. boundary \in Int /\ boundary <= LastOf(trail)
      BY <1>3 DEF TrailKnows, TrailIsTrue, TrailShapes, IdsGrow
    <3>3. AllHold(Append(trail, row), boundary)
      BY <1>8, <1>9, <2>1, <2>3, <3>1, <3>2, AppendHolds
    <3> QED BY <1>1, <2>3, <3>3
  <2> QED BY <2>2, <2>3
<1>13. TrailIsTrue'
  <2>1. TrailShapes'
    <3>1. Len(trail') <= MaxRows
      BY <1>1, <1>10 DEF ReportTrail!ReportTrailAssumption
    <3> QED BY <1>1, <1>10, <3>1 DEF TrailKnows, TrailIsTrue, TrailShapes
  <2>2. IdsGrow'
    <3>1. boundary \in Int /\ boundary <= LastOf(trail)
      BY <1>3 DEF TrailKnows, TrailIsTrue, TrailShapes, IdsGrow
    <3>2. boundary <= LastOf(trail')
      BY <1>7, <1>8, <1>11, <3>1
    <3> QED BY <1>1, <1>11, <3>2 DEF IdsGrow
  <2>3. OldTrail' /\ EditsShow'
    BY <1>1, <1>3, <1>12 DEF OldTrail, EditsShow
  <2>4. ReportTrail!OnlyReportsAreWithdrawn'
    <3> SUFFICES ASSUME ~altered, NEW i \in DOMAIN trail', trail'[i].action = "unreport"
                 PROVE  \E j \in 1..(i - 1) :
                            /\ trail'[j].cve = trail'[i].cve /\ trail'[j].action = "report"
                            /\ \A k \in (j + 1)..(i - 1) : trail'[k].cve # trail'[i].cve
      BY <1>1 DEF ReportTrail!OnlyReportsAreWithdrawn
    <3>1. CASE i \in 1..n
      <4>1. i \in DOMAIN trail /\ trail[i].action = "unreport" /\ trail'[i] = trail[i]
        BY <1>10, <3>1
      <4>2. PICK j \in 1..(i - 1) :
                /\ trail[j].cve = trail[i].cve /\ trail[j].action = "report"
                /\ \A k \in (j + 1)..(i - 1) : trail[k].cve # trail[i].cve
        BY <4>1 DEF TrailKnows, TrailIsTrue, ReportTrail!OnlyReportsAreWithdrawn
      <4>3. j \in 1..n /\ \A k \in (j + 1)..(i - 1) : k \in 1..n
        BY <1>10, <3>1
      <4> QED BY <1>10, <4>1, <4>2, <4>3
    <3>2. CASE i = n + 1
      <4>1. trail'[i].cve = call[r].cve /\ call[r].action = "unreport"
        BY <1>8, <1>10, <3>2
      <4>2. PICK j \in DOMAIN trail : /\ trail[j].cve = call[r].cve /\ trail[j].action = "report"
                                      /\ \A k \in DOMAIN trail : trail[k].cve = call[r].cve => k <= j
        BY <1>3, <4>1 DEF ReportTrail!Reported, ReportTrail!OfCve
      <4>3. j \in 1..(i - 1) /\ \A k \in (j + 1)..(i - 1) : k \in 1..n /\ ~(k <= j)
        BY <1>10, <3>2, <4>2
      <4> QED BY <1>10, <4>1, <4>2, <4>3
    <3> QED BY <1>10, <3>1, <3>2
  <2> QED BY <2>1, <2>2, <2>3, <2>4 DEF TrailIsTrue
<1>14. CallShapes'
  BY <1>1, <1>5 DEF TrailKnows, CallShapes
<1>15. ASSUME NEW q \in Reports
       PROVE  CallKnows(q)'
  <2>1. CASE q = r
    <3>1. call'[r] = over
      BY <1>1 DEF TrailKnows, CallShapes
    <3>2. call[r].identity.mode # "open" => users = r
      BY <1>1, <1>2 DEF CallKnows
    <3> QED BY <1>1, <1>2, <1>5, <2>1, <3>1, <3>2 DEF CallKnows
  <2>2. CASE q # r
    <3>1. call'[q] = call[q] /\ CallKnows(q) /\ q # NoReport
      BY <1>1, <2>2 DEF TrailKnows, CallShapes, ReportTrail!ReportTrailAssumption
    <3>2. call[q].phase # "writing"
      BY <1>3, <2>2, <3>1 DEF CallKnows
    <3> QED BY <1>1, <3>1, <3>2 DEF CallKnows
  <2> QED BY <2>1, <2>2
<1> QED BY <1>13, <1>14, <1>15 DEF TrailKnows

\* What an edit keeps: the order of the identifiers and the latest row.
LEMMA EditKeeps ==
    ASSUME NEW U, ReportTrail!NoChain \in U, NEW T \in Seq(Rows(U)), Growing(T),
           NEW i \in DOMAIN T, NEW V,
           \/ \E p \in People \cup {"somebody"} : V = [T EXCEPT ![i].by = p]
           \/ i < Len(T) /\ V = ReportTrail!RemoveAt(T, i)
           \/ V = [T EXCEPT ![i] = ReportTrail!LegacyRow(T[i].id, T[i].cve, T[i].action)]
    PROVE  /\ V \in Seq(Rows(U)) /\ Len(V) <= Len(T)
           /\ Growing(V) /\ LastOf(V) = LastOf(T)
<1> DEFINE n == Len(T)
<1>1. n \in Nat /\ i \in 1..n /\ DOMAIN T = 1..n
  OBVIOUS
<1>2. ASSUME NEW row \in Rows(U), row.id = T[i].id, V = [T EXCEPT ![i] = row]
      PROVE  /\ V \in Seq(Rows(U)) /\ Len(V) <= Len(T)
             /\ Growing(V) /\ LastOf(V) = LastOf(T)
  <2>1. /\ V \in Seq(Rows(U)) /\ Len(V) = n /\ DOMAIN V = 1..n
        /\ \A j \in 1..n : V[j] = IF j = i THEN row ELSE T[j]
    BY <1>2
  <2> HIDE DEF n
  <2>2. \A j \in 1..n : V[j].id = T[j].id
    BY <1>2, <2>1
  <2>3. Growing(V)
    BY <1>1, <2>1, <2>2 DEF Growing
  <2>4. n \in 1..n /\ T # <<>> /\ V # <<>>
    BY <1>1, <2>1 DEF n
  <2>5. LastOf(V) = V[n].id /\ LastOf(T) = T[n].id
    BY <2>1, <2>4 DEF LastOf, n
  <2>6. Len(V) <= Len(T)
    BY <1>1, <2>1 DEF n
  <2> QED BY <2>1, <2>2, <2>3, <2>4, <2>5, <2>6
<1>3. T[i] \in Rows(U)
  BY <1>1
<1>4. ASSUME NEW p \in People \cup {"somebody"}, V = [T EXCEPT ![i].by = p]
      PROVE  \E row \in Rows(U) : row.id = T[i].id /\ V = [T EXCEPT ![i] = row]
  <2> DEFINE row == [T[i] EXCEPT !.by = p]
  <2>1. row \in Rows(U) /\ row.id = T[i].id
    BY <1>3 DEF Rows
  <2>2. V = [T EXCEPT ![i] = row]
    BY <1>4
  <2> QED BY <2>1, <2>2
<1>5. CASE V = [T EXCEPT ![i] = ReportTrail!LegacyRow(T[i].id, T[i].cve, T[i].action)]
  <2> DEFINE row == ReportTrail!LegacyRow(T[i].id, T[i].cve, T[i].action)
  <2>1. row \in Rows(U) /\ row.id = T[i].id
    BY <1>3 DEF Rows, ReportTrail!LegacyRow
  <2> QED BY <1>2, <1>5, <2>1
<1>6. CASE i < Len(T) /\ V = ReportTrail!RemoveAt(T, i)
  <2>1. /\ V \in Seq(Rows(U)) /\ Len(V) = n - 1 /\ DOMAIN V = 1..(n - 1)
        /\ \A j \in 1..(i - 1) : V[j] = T[j]
        /\ \A j \in i..(n - 1) : V[j] = T[j + 1]
    BY <1>6, RemovedRow
  <2> HIDE DEF n
  <2>2. Growing(V)
    <3> SUFFICES ASSUME NEW j \in 1..(n - 1), NEW k \in 1..(n - 1), j < k
                 PROVE  V[j].id < V[k].id
      BY <2>1 DEF Growing
    <3> DEFINE place(x) == IF x <= i - 1 THEN x ELSE x + 1
    <3>1. \A x \in 1..(n - 1) : place(x) \in 1..n /\ V[x] = T[place(x)]
      <4> TAKE x \in 1..(n - 1)
      <4>1. CASE x <= i - 1
        BY <1>1, <2>1, <4>1
      <4>2. CASE ~(x <= i - 1)
        BY <1>1, <2>1, <4>2
      <4> QED BY <4>1, <4>2
    <3>2. place(j) < place(k)
      BY <1>1
    <3>3. V[j] = T[place(j)] /\ V[k] = T[place(k)] /\ place(j) \in DOMAIN T /\ place(k) \in DOMAIN T
      BY <1>1, <3>1
    <3> HIDE DEF place
    <3> QED BY <3>2, <3>3 DEF Growing
  <2>3. n - 1 \in i..(n - 1) /\ (n - 1) + 1 = n /\ T # <<>> /\ V # <<>>
    <3>1. n - 1 \in i..(n - 1) /\ (n - 1) + 1 = n
      BY <1>1, <1>6 DEF n
    <3>2. T # <<>>
      BY <1>1
    <3>3. n - 1 \in DOMAIN V
      BY <1>1, <2>1, <3>1
    <3> QED BY <3>1, <3>2, <3>3
  <2>4. LastOf(V) = V[n - 1].id /\ LastOf(T) = T[n].id
    BY <2>1, <2>3 DEF LastOf, n
  <2>5. V[n - 1] = T[n]
    BY <2>1, <2>3
  <2>6. Len(V) <= n
    BY <1>1, <2>1
  <2> QED BY <2>1, <2>2, <2>4, <2>5, <2>6 DEF n
<1> QED BY <1>2, <1>4, <1>5, <1>6

LEMMA AlterShows ==
    ASSUME ReportTrail!ReportTrailAssumption, TrailKnows, ReportTrail!Alter
    PROVE  TrailKnows'
<1>1. PICK i \in DOMAIN trail :
        /\ trail[i].version = 1
        /\ \/ \E p \in People \cup {"somebody"} :
                p # trail[i].by /\ trail' = [trail EXCEPT ![i].by = p]
           \/ i < Len(trail) /\ trail' = ReportTrail!RemoveAt(trail, i)
           \/ trail' = [trail EXCEPT ![i] = ReportTrail!LegacyRow(@.id, @.cve, @.action)]
  BY DEF ReportTrail!Alter
<1>2. /\ watch = NoReport /\ altered = FALSE /\ altered' = TRUE
      /\ UNCHANGED <<identity, schema, boundary, reporters, users, watch, call>>
  BY DEF ReportTrail!Alter
<1>3. PICK W : trail \in Seq(Rows(W))
  BY DEF TrailKnows, TrailIsTrue, TrailShapes
<1> DEFINE U == W \cup {ReportTrail!NoChain}
<1>4. trail \in Seq(Rows(U)) /\ ReportTrail!NoChain \in U
  BY <1>3, WiderRows
<1> HIDE DEF U
<1>5. schema = 7
  BY <1>1 DEF TrailKnows, TrailIsTrue, OldTrail
<1>6. /\ AllHold(trail, boundary) /\ Growing(trail) /\ boundary <= LastOf(trail)
      /\ boundary \in Int
  BY <1>2, <1>5 DEF TrailKnows, TrailIsTrue, EditsShow, IdsGrow, TrailShapes
<1>7. \/ \E p \in People \cup {"somebody"} :
             p # trail[i].by /\ trail' = [trail EXCEPT ![i].by = p]
      \/ i < Len(trail) /\ trail' = ReportTrail!RemoveAt(trail, i)
      \/ trail' = [trail EXCEPT ![i] =
                      ReportTrail!LegacyRow(trail[i].id, trail[i].cve, trail[i].action)]
  BY <1>1
<1>8. /\ trail' \in Seq(Rows(U)) /\ Len(trail') <= Len(trail)
      /\ Growing(trail') /\ LastOf(trail') = LastOf(trail)
  BY <1>4, <1>6, <1>7, EditKeeps
<1>9. ~AllHold(trail', boundary)
  <2>1. CASE \E p \in People \cup {"somebody"} :
                 p # trail[i].by /\ trail' = [trail EXCEPT ![i].by = p]
    <3>1. PICK p \in People \cup {"somebody"} :
              p # trail[i].by /\ trail' = [trail EXCEPT ![i].by = p]
      BY <2>1
    <3>2. ~AllHold([trail EXCEPT ![i].by = p], boundary)
      BY <1>1, <1>4, <1>6, <3>1, ChangeBreaks
    <3> QED BY <3>1, <3>2
  <2>2. CASE i < Len(trail) /\ trail' = ReportTrail!RemoveAt(trail, i)
    BY <1>1, <1>4, <1>6, <2>2, RemovalBreaks
  <2>3. CASE trail' = [trail EXCEPT ![i] =
                          ReportTrail!LegacyRow(trail[i].id, trail[i].cve, trail[i].action)]
    BY <1>1, <1>4, <1>6, <2>3, DisguiseBreaks
  <2> QED BY <1>7, <2>1, <2>2, <2>3
<1>10. TrailIsTrue'
  <2>1. TrailShapes'
    <3>1. Len(trail') <= MaxRows
      <4>1. Len(trail) <= MaxRows /\ MaxRows \in Nat
        BY DEF TrailKnows, TrailIsTrue, TrailShapes, ReportTrail!ReportTrailAssumption
      <4>2. Len(trail) \in Nat /\ Len(trail') \in Nat
        BY <1>4, <1>8
      <4> QED BY <1>8, <4>1, <4>2
    <3> QED BY <1>2, <1>8, <3>1 DEF TrailKnows, TrailIsTrue, TrailShapes
  <2>2. IdsGrow'
    BY <1>2, <1>6, <1>8 DEF IdsGrow
  <2>3. OldTrail' /\ EditsShow'
    BY <1>2, <1>5, <1>9 DEF OldTrail, EditsShow
  <2>4. ReportTrail!OnlyReportsAreWithdrawn'
    BY <1>2 DEF ReportTrail!OnlyReportsAreWithdrawn
  <2> QED BY <2>1, <2>2, <2>3, <2>4 DEF TrailIsTrue
<1>11. CallShapes'
  BY <1>2 DEF TrailKnows, CallShapes
<1>12. ASSUME NEW q \in Reports
       PROVE  CallKnows(q)'
  <2>1. CallKnows(q) /\ q # NoReport
    BY DEF TrailKnows, ReportTrail!ReportTrailAssumption
  <2>2. call[q].phase # "writing"
    BY <1>2, <2>1 DEF CallKnows
  <2> QED BY <1>2, <2>1, <2>2 DEF CallKnows
<1> QED BY <1>10, <1>11, <1>12 DEF TrailKnows

LEMMA TrailInit ==
    ASSUME ReportTrail!ReportTrailAssumption, ReportTrail!Init
    PROVE  TrailKnows
<1>1. /\ identity \in {"open", "registered", "authenticated"}
      /\ schema \in {5, 7} /\ (trail # <<>> => schema = 5)
      /\ boundary = IF schema = 5 THEN -1 ELSE 0
      /\ reporters = [p \in People |-> [enabled |-> TRUE, version |-> 0]]
      /\ users = NoReport /\ watch = NoReport
      /\ call = [r \in Reports |-> ReportTrail!NoCall]
      /\ altered = FALSE
  BY DEF ReportTrail!Init
<1>2. \/ trail = <<>>
      \/ \E c \in Cves : trail = <<ReportTrail!LegacyRow(1, c, "report")>>
  <2>1. trail \in ReportTrail!Legacy
    BY DEF ReportTrail!Init
  <2> QED BY <2>1 DEF ReportTrail!Legacy
<1>3. MaxRows \in Nat /\ MaxRows >= 1 /\ MaxVersion \in Nat /\ NoReport \notin Reports
  BY DEF ReportTrail!ReportTrailAssumption
<1>4. /\ trail \in Seq(Rows({ReportTrail!NoChain})) /\ Len(trail) <= 1
      /\ \A i \in DOMAIN trail :
             /\ i = 1 /\ trail[i].version = 0 /\ trail[i].identity = "none"
             /\ trail[i].chain = ReportTrail!NoChain /\ trail[i].action = "report" /\ trail[i].id = 1
  <2>1. CASE trail = <<>>
    BY <2>1
  <2>2. ASSUME NEW c \in Cves, trail = <<ReportTrail!LegacyRow(1, c, "report")>>
        PROVE  <1>4
    <3> DEFINE row == ReportTrail!LegacyRow(1, c, "report")
    <3>1. /\ row \in Rows({ReportTrail!NoChain}) /\ row.version = 0 /\ row.identity = "none"
          /\ row.chain = ReportTrail!NoChain /\ row.action = "report" /\ row.id = 1
      BY DEF ReportTrail!LegacyRow, Rows, ReportTrail!Actions
    <3> HIDE DEF row
    <3>2. trail = <<row>>
      BY <2>2 DEF row
    <3> QED BY <3>1, <3>2
  <2> QED BY <1>2, <2>1, <2>2
<1>5. schema = 7 => trail = <<>> /\ boundary = 0
  BY <1>1
<1>6. TrailIsTrue
  <2>1. TrailShapes
    <3>1. Len(trail) <= MaxRows
      <4>1. Len(trail) \in Nat
        BY <1>4
      <4> QED BY <1>3, <1>4, <4>1
    <3>2. boundary \in -1..MaxRows
      BY <1>1, <1>3
    <3> QED BY <1>1, <1>4, <3>1, <3>2 DEF TrailShapes
  <2>2. IdsGrow
    <3>1. Growing(trail)
      BY <1>4 DEF Growing
    <3>2. trail = <<>> => LastOf(trail) = 0
      BY DEF LastOf
    <3> QED BY <1>5, <3>1, <3>2 DEF IdsGrow
  <2>3. OldTrail
    BY <1>1, <1>4 DEF OldTrail
  <2>4. EditsShow
    <3>1. trail = <<>> => AllHold(trail, boundary)
      BY DEF AllHold
    <3> QED BY <1>1, <1>5, <3>1 DEF EditsShow
  <2>5. ReportTrail!OnlyReportsAreWithdrawn
    BY <1>4 DEF ReportTrail!OnlyReportsAreWithdrawn
  <2> QED BY <2>1, <2>2, <2>3, <2>4, <2>5 DEF TrailIsTrue
<1>7. CallShapes
  BY <1>1, <1>3 DEF CallShapes
<1>8. ASSUME NEW q \in Reports
      PROVE  CallKnows(q)
  BY <1>1, <1>3, NoCallIs DEF CallKnows
<1> QED BY <1>6, <1>7, <1>8 DEF TrailKnows

LEMMA TrailNext ==
    ASSUME ReportTrail!ReportTrailAssumption, TrailKnows, [ReportTrail!Next]_(ReportTrail!vars)
    PROVE  TrailKnows'
<1>1. CASE UNCHANGED ReportTrail!vars
  <2>1. UNCHANGED <<identity, trail, schema, boundary, reporters, users, watch, call, altered>>
    BY <1>1 DEF ReportTrail!vars, ReportTrail!store
  <2>2. TrailIsTrue'
    BY <2>1, TrailStays DEF TrailKnows
  <2>3. CallShapes'
    BY <2>1 DEF TrailKnows, CallShapes
  <2>4. ASSUME NEW q \in Reports
        PROVE  CallKnows(q)'
    BY <2>1 DEF TrailKnows, CallKnows, ReportTrail!Current, ReportTrail!Reported, ReportTrail!OfCve
  <2> QED BY <2>2, <2>3, <2>4 DEF TrailKnows
<1>2. CASE ReportTrail!Upgrade
  BY <1>2, UpgradeStays
<1>3. ASSUME NEW r \in Reports, ReportTrail!Resolve(r)
      PROVE  TrailKnows'
  BY <1>3, ResolveCalls
<1>4. ASSUME NEW r \in Reports, ReportTrail!Guard(r)
      PROVE  TrailKnows'
  BY <1>4, GuardCalls
<1>5. ASSUME NEW r \in Reports, ReportTrail!Begin(r)
      PROVE  TrailKnows'
  BY <1>5, BeginCalls
<1>6. ASSUME NEW r \in Reports, ReportTrail!Commit(r)
      PROVE  TrailKnows'
  BY <1>6, CommitStays
<1>7. ASSUME NEW r \in Reports, ReportTrail!Release(r) \/ ReportTrail!Crash(r)
      PROVE  TrailKnows'
  BY <1>7, EndCalls
<1>8. ASSUME NEW p \in People, ReportTrail!ChangeAccount(p)
      PROVE  TrailKnows'
  BY <1>8, AccountStays
<1>9. CASE ReportTrail!Alter
  BY <1>9, AlterShows
<1> QED BY <1>1, <1>2, <1>3, <1>4, <1>5, <1>6, <1>7, <1>8, <1>9 DEF ReportTrail!Next

LEMMA TrailImplies ==
    ASSUME ReportTrail!ReportTrailAssumption, TrailKnows
    PROVE  ReportTrail!TrailInv
<1>1. PICK U : trail \in Seq(Rows(U))
  BY DEF TrailKnows, TrailIsTrue, TrailShapes
<1>2. ReportTrail!Verifies <=> AllHold(trail, boundary)
  <2>1. \A i \in DOMAIN trail : i \in Nat \ {0}
    BY <1>1
  <2> QED BY <2>1, RowHoldsIs DEF ReportTrail!Verifies, AllHold
<1>3. ReportTrail!AlterationIsFound
  BY <1>2 DEF TrailKnows, TrailIsTrue, EditsShow, ReportTrail!AlterationIsFound
<1>4. ReportTrail!TypeOK
  BY DEF TrailKnows, TrailIsTrue, TrailShapes, CallShapes, ReportTrail!TypeOK
<1> QED BY <1>3, <1>4 DEF TrailKnows, TrailIsTrue, ReportTrail!TrailInv

\* Only the call with the lock of the watch database appends a row.
LEMMA CommitIsCurrent ==
    ASSUME ReportTrail!ReportTrailAssumption, TrailKnows, [ReportTrail!Next]_(ReportTrail!vars)
    PROVE  [ReportTrail!ReporterIsCurrent]_(ReportTrail!vars)
<1> SUFFICES ASSUME NEW r \in Reports, watch = r
             PROVE  ReportTrail!Current(call[r].identity)
  BY DEF ReportTrail!ReporterIsCurrent
<1> QED BY DEF TrailKnows, CallKnows

\* What is marked as reported can be relied on.  verify_reports accepts a trail exactly if
\* nobody edited it behind the program, whatever reports, upgrades and crashes come in
\* between; no mark is withdrawn that is not there; a row is only committed while the
\* reporter is enabled with unchanged credentials.
THEOREM TrailCorrect ==
    ReportTrail!ReportTrailAssumption =>
        (ReportTrail!Spec => /\ []ReportTrail!TrailInv
                             /\ [][ReportTrail!ReporterIsCurrent]_(ReportTrail!vars))
<1> SUFFICES ASSUME ReportTrail!ReportTrailAssumption
             PROVE  ReportTrail!Spec => /\ []ReportTrail!TrailInv
                                        /\ [][ReportTrail!ReporterIsCurrent]_(ReportTrail!vars)
  OBVIOUS
<1>1. ReportTrail!Init => TrailKnows
  BY TrailInit
<1>2. TrailKnows /\ [ReportTrail!Next]_(ReportTrail!vars) => TrailKnows'
  BY TrailNext
<1>3. TrailKnows => ReportTrail!TrailInv
  BY TrailImplies
<1>4. TrailKnows /\ [ReportTrail!Next]_(ReportTrail!vars) =>
          [ReportTrail!ReporterIsCurrent]_(ReportTrail!vars)
  BY CommitIsCurrent
<1> QED BY <1>1, <1>2, <1>3, <1>4, PTL DEF ReportTrail!Spec
-----------------------------------------------------------------------------
(* Accounts, proofs of logins, and sessions. *)

LoginTypes ==
    [name : Names, there : BOOLEAN, version : Nat, accepted : BOOLEAN, locked : BOOLEAN]

AccountShapes ==
    /\ account \in [Names -> Accounts!AccountTypes \cup {NoAccount}]
    /\ role \in [Roles -> (SUBSET Accounts!Permissions) \cup {NoRole}]
    /\ entries \in 0..MaxTrail
    /\ verifying \in [Slots -> LoginTypes \cup {NoOne}]
    /\ proofs \subseteq [name : Names, version : Nat] /\ sessions \in Seq(proofs)
    /\ tried \in [Names -> Nat]

\* A proof was handed out for a version the account had.
ProofsKnown == \A p \in proofs : p.name \in Accounts!Taken /\ p.version <= account[p.name].version

\* What is stored of the wrong passwords, and how many there were.
TriesCounted ==
    \A n \in Names :
        /\ n \notin Accounts!Taken => tried[n] = 0
        /\ n \in Accounts!Taken => /\ account[n].lock = "none" => tried[n] = account[n].failed /\ tried[n] < FailureLimit
                                   /\ tried[n] <= FailureLimit

AccountsKnown ==
    /\ AccountShapes /\ ProofsKnown /\ TriesCounted
    /\ Accounts!KeysAreUnambiguous /\ Accounts!RolesExist

LEMMA PasswordRecord ==
    ASSUME NEW x \in Accounts!AccountTypes, NEW y,
           y = [x EXCEPT !.password = TRUE, !.failed = 0, !.lock = "none", !.version = @ + 1]
    PROVE  /\ y \in Accounts!AccountTypes
           /\ y.admin = x.admin /\ y.disabled = x.disabled /\ y.role = x.role /\ y.email = x.email
           /\ y.version = x.version + 1 /\ y.failed = 0 /\ y.lock = "none"
<1> DEFINE k == x.version + 1
<1>1. k \in Nat
  BY DEF Accounts!AccountTypes
<1>2. y = [x EXCEPT !.password = TRUE, !.failed = 0, !.lock = "none", !.version = k]
  OBVIOUS
<1> HIDE DEF k
<1>3. /\ y.admin = x.admin /\ y.disabled = x.disabled /\ y.role = x.role /\ y.email = x.email
      /\ y.version = k /\ y.failed = 0 /\ y.lock = "none" /\ y.password = TRUE
      /\ DOMAIN y = DOMAIN x /\ y = [f \in DOMAIN y |-> y[f]]
  BY <1>2 DEF Accounts!AccountTypes
<1>4. y \in Accounts!AccountTypes
  BY <1>1, <1>3 DEF Accounts!AccountTypes
<1> QED BY <1>3, <1>4 DEF k

LEMMA UnlockedRecord ==
    ASSUME NEW x \in Accounts!AccountTypes, NEW y, y = [x EXCEPT !.failed = 0, !.lock = "none"]
    PROVE  /\ y \in Accounts!AccountTypes
           /\ y.admin = x.admin /\ y.disabled = x.disabled /\ y.role = x.role /\ y.email = x.email
           /\ y.version = x.version /\ y.failed = 0 /\ y.lock = "none"
BY DEF Accounts!AccountTypes

LEMMA DisabledRecord ==
    ASSUME NEW n \in Names, account[n] \in Accounts!AccountTypes, NEW value \in BOOLEAN
    PROVE  LET y == Accounts!Disabled(n, value)
           IN  /\ y \in Accounts!AccountTypes
               /\ y.admin = account[n].admin /\ y.disabled = value
               /\ y.role = account[n].role /\ y.email = account[n].email
               /\ y.version = account[n].version + 1
               /\ y.failed = account[n].failed /\ y.lock = account[n].lock
<1> DEFINE x == account[n]
           k == x.version + 1
           y == [x EXCEPT !.disabled = value, !.version = k]
<1>1. k \in Nat /\ x \in Accounts!AccountTypes
  BY DEF Accounts!AccountTypes
<1>2. Accounts!Disabled(n, value) = y
  BY DEF Accounts!Disabled
<1> HIDE DEF x, k
<1>3. /\ y \in Accounts!AccountTypes
      /\ y.admin = x.admin /\ y.disabled = value /\ y.role = x.role /\ y.email = x.email
      /\ y.version = k /\ y.failed = x.failed /\ y.lock = x.lock
  BY <1>1 DEF Accounts!AccountTypes
<1> QED BY <1>2, <1>3 DEF x, k

\* The account that edit_user writes.
Edited(n, r, disabled, email) ==
    [account[n] EXCEPT !.admin = (r = "admin"), !.role = r, !.disabled = disabled,
                       !.email = email, !.version = @ + 1]

LEMMA EditedRecord ==
    ASSUME NEW n \in Names, account[n] \in Accounts!AccountTypes,
           NEW r \in Roles \cup {"admin"}, NEW disabled \in BOOLEAN,
           NEW email \in Addresses \cup {NoOne}
    PROVE  LET y == Edited(n, r, disabled, email)
           IN  /\ y \in Accounts!AccountTypes /\ (y.admin <=> r = "admin")
               /\ y.disabled = disabled /\ y.role = r /\ y.email = email
               /\ y.version = account[n].version + 1
               /\ y.failed = account[n].failed /\ y.lock = account[n].lock
<1> DEFINE x == account[n]
           k == x.version + 1
           y == [x EXCEPT !.admin = (r = "admin"), !.role = r, !.disabled = disabled,
                          !.email = email, !.version = k]
<1>1. k \in Nat /\ x \in Accounts!AccountTypes
  BY DEF Accounts!AccountTypes
<1>2. Edited(n, r, disabled, email) = y
  BY DEF Edited
<1> HIDE DEF x, k
<1>3. /\ y \in Accounts!AccountTypes /\ (y.admin <=> r = "admin")
      /\ y.disabled = disabled /\ y.role = r /\ y.email = email
      /\ y.version = k /\ y.failed = x.failed /\ y.lock = x.lock
  <2>1. y \in Accounts!AccountTypes
    BY <1>1, ZenonT(40) DEF Accounts!AccountTypes
  <2>2. y.admin <=> r = "admin"
    BY <1>1 DEF Accounts!AccountTypes
  <2>3. /\ y.disabled = disabled /\ y.role = r /\ y.email = email
        /\ y.version = k /\ y.failed = x.failed /\ y.lock = x.lock
    BY <1>1 DEF Accounts!AccountTypes
  <2> QED BY <2>1, <2>2, <2>3
<1> QED BY <1>2, <1>3 DEF x, k

LEMMA ExpiredRecord ==
    ASSUME NEW x \in Accounts!AccountTypes, NEW y, y = [x EXCEPT !.lock = "expired"]
    PROVE  /\ y \in Accounts!AccountTypes
           /\ y.admin = x.admin /\ y.disabled = x.disabled /\ y.role = x.role /\ y.email = x.email
           /\ y.version = x.version /\ y.failed = x.failed /\ y.lock = "expired"
BY DEF Accounts!AccountTypes

LEMMA NewerRecord ==
    ASSUME NEW x \in Accounts!AccountTypes, NEW y, y = [x EXCEPT !.version = @ + 1]
    PROVE  /\ y \in Accounts!AccountTypes
           /\ y.admin = x.admin /\ y.disabled = x.disabled /\ y.role = x.role /\ y.email = x.email
           /\ y.version = x.version + 1 /\ y.failed = x.failed /\ y.lock = x.lock
BY DEF Accounts!AccountTypes

LEMMA FailedRecord ==
    ASSUME Accounts!AccountsAssumption, NEW n \in Names, account[n] \in Accounts!AccountTypes
    PROVE  LET x == account[n]
               y == Accounts!Failed(n)
               failures == (IF x.lock = "expired" THEN 0 ELSE x.failed) + 1
           IN  /\ y \in Accounts!AccountTypes
               /\ y.admin = x.admin /\ y.disabled = x.disabled /\ y.role = x.role /\ y.email = x.email
               /\ y.version = x.version /\ y.failed = failures
               /\ y.lock = IF failures >= FailureLimit THEN "locked"
                           ELSE IF x.lock = "expired" THEN "none" ELSE x.lock
<1> DEFINE x == account[n]
           failures == (IF x.lock = "expired" THEN 0 ELSE x.failed) + 1
           locked == IF failures >= FailureLimit THEN "locked"
                     ELSE IF x.lock = "expired" THEN "none" ELSE x.lock
           y == [x EXCEPT !.failed = failures, !.lock = locked]
<1>1. Accounts!Failed(n) = y
  BY DEF Accounts!Failed
<1>2. failures \in Nat /\ locked \in {"none", "locked", "expired"} /\ x \in Accounts!AccountTypes
  BY DEF Accounts!AccountTypes
<1> HIDE DEF x, failures, locked
<1>3. /\ y \in Accounts!AccountTypes
      /\ y.admin = x.admin /\ y.disabled = x.disabled /\ y.role = x.role /\ y.email = x.email
      /\ y.version = x.version /\ y.failed = failures /\ y.lock = locked
  BY <1>2 DEF Accounts!AccountTypes
<1> QED BY <1>1, <1>3 DEF x, failures, locked

LEMMA RemovedSession ==
    ASSUME NEW S, NEW T \in Seq(S), NEW i \in DOMAIN T
    PROVE  Accounts!RemoveAt(T, i) \in Seq(S)
<1> DEFINE front == SubSeq(T, 1, i - 1)
           rest == SubSeq(T, i + 1, Len(T))
<1>1. i \in 1..Len(T) /\ Len(T) \in Nat
  OBVIOUS
<1>2. front \in Seq(S)
  BY <1>1
<1>3. rest \in Seq(S)
  <2>1. \A j \in (i + 1)..Len(T) : T[j] \in S
    BY <1>1
  <2> QED BY <1>1, <2>1
<1> HIDE DEF front, rest
<1>4. front \o rest \in Seq(S)
  BY <1>2, <1>3, ConcatProperties
<1> QED BY <1>4 DEF Accounts!RemoveAt, front, rest

LEMMA SessionCount == \A S : Accounts!Cardinality(S) = Cardinality(S)
BY DEF Accounts!Cardinality, Cardinality

\* The oldest session of an account is there if it has any.
LEMMA OldestSession ==
    ASSUME Accounts!AccountsAssumption, NEW S, sessions \in Seq(S), NEW n,
           ~(Accounts!Cardinality(Accounts!Own(n)) < MaxPerUser)
    PROVE  Accounts!Min(Accounts!Own(n)) \in DOMAIN sessions
<1> DEFINE own == Accounts!Own(n)
<1>1. own \subseteq DOMAIN sessions /\ own \in SUBSET Nat
  BY DEF Accounts!Own
<1>2. own # {}
  <2> SUFFICES ASSUME own = {} PROVE FALSE
    OBVIOUS
  <2>1. Accounts!Cardinality(own) = 0
    BY SessionCount, FS_EmptySet
  <2>2. MaxPerUser \in Nat \ {0}
    BY DEF Accounts!AccountsAssumption
  <2> QED BY <2>1, <2>2
<1> HIDE DEF own
<1>3. PICK x \in own : \A y \in own : x <= y
  BY <1>1, <1>2, Least
<1>4. Accounts!Min(own) \in own
  BY <1>3 DEF Accounts!Min
<1> QED BY <1>1, <1>4 DEF own

LEMMA IssuedSession ==
    ASSUME Accounts!AccountsAssumption, NEW S, sessions \in Seq(S), NEW p \in S
    PROVE  Accounts!Issue(p) \in Seq(S)
<1> DEFINE own == Accounts!Own(p.name)
           room == IF Accounts!Cardinality(own) < MaxPerUser THEN sessions
                   ELSE Accounts!RemoveAt(sessions, Accounts!Min(own))
<1>1. room \in Seq(S)
  BY OldestSession, RemovedSession
<1>2. Accounts!Issue(p) = IF Len(room) >= MaxSessions THEN room ELSE Append(room, p)
  BY DEF Accounts!Issue
<1> HIDE DEF room
<1> QED BY <1>1, <1>2

\* What is left of the sessions without those of an account.
Without(f, name, n) ==
    f = [i \in 0..n |-> IF i = 0 THEN <<>>
                        ELSE IF sessions[i].name = name THEN f[i - 1]
                        ELSE Append(f[i - 1], sessions[i])]

LEMMA WithoutExists ==
    ASSUME NEW name, NEW n \in Nat
    PROVE  \E f : Without(f, name, n)
<1> DEFINE S == {k \in Nat : \E f : Without(f, name, k)}
           first == [i \in 0..0 |-> <<>>]
<1>1. 0 \in S
  <2>1. Without(first, name, 0)
    BY DEF Without
  <2> HIDE DEF first
  <2> QED BY <2>1
<1>2. ASSUME NEW k \in Nat, k \in S
      PROVE  k + 1 \in S
  <2>1. PICK f : Without(f, name, k)
    BY <1>2
  <2> DEFINE new == IF sessions[k + 1].name = name THEN f[k] ELSE Append(f[k], sessions[k + 1])
             g == [i \in 0..(k + 1) |-> IF i = k + 1 THEN new ELSE f[i]]
  <2>2. \A i \in 0..k : f[i] = IF i = 0 THEN <<>>
                               ELSE IF sessions[i].name = name THEN f[i - 1]
                               ELSE Append(f[i - 1], sessions[i])
    BY <2>1 DEF Without
  <2>3. ASSUME NEW i \in 0..(k + 1)
        PROVE  g[i] = IF i = 0 THEN <<>>
                      ELSE IF sessions[i].name = name THEN g[i - 1]
                      ELSE Append(g[i - 1], sessions[i])
    <3>1. CASE i = k + 1
      <4>1. g[i] = new /\ i # 0 /\ i - 1 = k /\ k \in 0..(k + 1) /\ k # k + 1
        BY <3>1
      <4>2. g[i - 1] = f[k]
        BY <4>1
      <4> QED BY <3>1, <4>1, <4>2
    <3>2. CASE i # k + 1
      <4>1. i \in 0..k /\ g[i] = f[i]
        BY <3>2
      <4>2. i # 0 => i - 1 \in 0..(k + 1) /\ i - 1 # k + 1
        BY <3>2
      <4>3. i # 0 => g[i - 1] = f[i - 1]
        BY <4>2
      <4> HIDE DEF g
      <4> QED BY <2>2, <4>1, <4>3
    <3> QED BY <3>1, <3>2
  <2>4. Without(g, name, k + 1)
    <3> DEFINE h == [i \in 0..(k + 1) |-> IF i = 0 THEN <<>>
                                          ELSE IF sessions[i].name = name THEN g[i - 1]
                                          ELSE Append(g[i - 1], sessions[i])]
    <3>1. g = h
      BY <2>3
    <3> QED BY <3>1 DEF Without
  <2> HIDE DEF g
  <2> QED BY <2>4
<1>3. n \in S
  <2> HIDE DEF S
  <2> QED BY <1>1, <1>2, Induct
<1> QED BY <1>3

\* They are sessions that were there before.
LEMMA OtherSessions ==
    ASSUME NEW U, sessions \in Seq(U), NEW name
    PROVE  Accounts!Others(name) \in Seq(U)
<1> DEFINE n == Len(sessions)
           rest == CHOOSE f : Without(f, name, n)
           S == {k \in Nat : k <= n => rest[k] \in Seq(U)}
<1>1. Accounts!Others(name) = rest[n]
  BY DEF Accounts!Others, Without
<1>2. n \in Nat /\ \A i \in 1..n : sessions[i] \in U
  OBVIOUS
<1>3. Without(rest, name, n)
  BY <1>2, WithoutExists
<1> HIDE DEF rest, n
<1>4. \A i \in 0..n : rest[i] = IF i = 0 THEN <<>>
                                ELSE IF sessions[i].name = name THEN rest[i - 1]
                                ELSE Append(rest[i - 1], sessions[i])
  BY <1>3 DEF Without
<1>5. 0 \in S
  <2>1. 0 \in 0..n
    BY <1>2
  <2>2. rest[0] = <<>>
    BY <1>4, <2>1
  <2>3. <<>> \in Seq(U)
    OBVIOUS
  <2> QED BY <2>2, <2>3
<1>6. ASSUME NEW k \in Nat, k \in S
      PROVE  k + 1 \in S
  <2> SUFFICES ASSUME k + 1 <= n PROVE rest[k + 1] \in Seq(U)
    OBVIOUS
  <2>1. rest[k] \in Seq(U) /\ k + 1 \in 0..n /\ k + 1 # 0 /\ (k + 1) - 1 = k /\ sessions[k + 1] \in U
    BY <1>2, <1>6
  <2>2. rest[k + 1] = IF sessions[k + 1].name = name THEN rest[k]
                      ELSE Append(rest[k], sessions[k + 1])
    BY <1>4, <2>1
  <2> QED BY <2>1, <2>2
<1>7. n \in S
  <2> HIDE DEF S
  <2> QED BY <1>2, <1>5, <1>6, Induct
<1> QED BY <1>1, <1>2, <1>7

\* One account changes, or is added.
LEMMA AccountBecomes ==
    ASSUME Accounts!AccountsAssumption, AccountsKnown,
           NEW n \in Names, NEW v \in Accounts!AccountTypes, account' = [account EXCEPT ![n] = v],
           role' = role, entries' \in 0..MaxTrail,
           verifying' \in [Slots -> LoginTypes \cup {NoOne}],
           sessions' \in Seq(proofs'), tried' \in [Names -> Nat],
           proofs' \subseteq proofs \cup {[name |-> n, version |-> v.version]},
           n \in Accounts!Taken => v.version >= account[n].version,
           \A m \in Accounts!Taken \ {n} : {n, v.email} \cap {m, account[m].email} \subseteq {NoOne},
           v.admin \/ v.role \in Accounts!RolesThere,
           \A m \in Names \ {n} : tried'[m] = tried[m],
           tried'[n] <= FailureLimit,
           v.lock = "none" => tried'[n] = v.failed /\ tried'[n] < FailureLimit
    PROVE  AccountsKnown'
<1>1. v # NoAccount
  BY DEF Accounts!AccountsAssumption
<1>2. /\ account \in [Names -> Accounts!AccountTypes \cup {NoAccount}]
      /\ account'[n] = v /\ \A m \in Names \ {n} : account'[m] = account[m]
  BY DEF AccountsKnown, AccountShapes
<1>3. Accounts!Taken' = Accounts!Taken \cup {n}
  BY <1>1, <1>2 DEF Accounts!Taken
<1>4. v.version \in Nat
  BY DEF Accounts!AccountTypes
<1>5. AccountShapes'
  <2>1. proofs' \subseteq [name : Names, version : Nat]
    <3>1. [name |-> n, version |-> v.version] \in [name : Names, version : Nat]
      BY <1>4
    <3> QED BY <3>1 DEF AccountsKnown, AccountShapes
  <2> QED BY <2>1 DEF AccountsKnown, AccountShapes
<1>6. ProofsKnown'
  <2> SUFFICES ASSUME NEW p \in proofs'
               PROVE  p.name \in Accounts!Taken' /\ p.version <= account'[p.name].version
    BY DEF ProofsKnown
  <2>1. CASE p \in proofs
    <3>1. p.name \in Accounts!Taken /\ p.version <= account[p.name].version /\ p.version \in Nat
      BY <2>1 DEF AccountsKnown, ProofsKnown, AccountShapes
    <3>2. CASE p.name = n
      <4>1. account[n].version \in Nat
        BY <1>2, <3>1, <3>2 DEF Accounts!Taken, Accounts!AccountTypes
      <4>2. p.version <= v.version
        BY <1>4, <3>1, <3>2, <4>1
      <4> QED BY <1>2, <1>3, <3>2, <4>2
    <3>3. CASE p.name # n
      <4>1. p.name \in Names
        BY <3>1 DEF Accounts!Taken
      <4> QED BY <1>2, <1>3, <3>1, <3>3, <4>1
    <3> QED BY <3>2, <3>3
  <2>2. CASE p = [name |-> n, version |-> v.version]
    <3>1. p.name = n /\ p.version = v.version
      BY <2>2
    <3> QED BY <1>2, <1>3, <1>4, <3>1
  <2> QED BY <2>1, <2>2
<1>7. TriesCounted'
  <2> SUFFICES ASSUME NEW m \in Names
               PROVE  /\ m \notin Accounts!Taken' => tried'[m] = 0
                      /\ m \in Accounts!Taken' =>
                             /\ account'[m].lock = "none" =>
                                    tried'[m] = account'[m].failed /\ tried'[m] < FailureLimit
                             /\ tried'[m] <= FailureLimit
    BY DEF TriesCounted
  <2>1. CASE m = n
    BY <1>2, <1>3, <2>1
  <2>2. CASE m # n
    BY <1>2, <1>3, <2>2 DEF AccountsKnown, TriesCounted
  <2> QED BY <2>1, <2>2
<1>8. Accounts!KeysAreUnambiguous'
  <2> SUFFICES ASSUME NEW m \in Accounts!Taken', NEW k \in Accounts!Taken', m # k
               PROVE  {m, account'[m].email} \cap {k, account'[k].email} \subseteq {NoOne}
    BY DEF Accounts!KeysAreUnambiguous
  <2>1. \A q \in Accounts!Taken \ {n} : account'[q] = account[q]
    BY <1>2 DEF Accounts!Taken
  <2>2. CASE m = n
    <3>1. k \in Accounts!Taken \ {n}
      BY <1>3, <2>2
    <3> QED BY <1>2, <2>1, <2>2, <3>1
  <2>3. CASE k = n
    <3>1. m \in Accounts!Taken \ {n}
      BY <1>3, <2>3
    <3> QED BY <1>2, <2>1, <2>3, <3>1
  <2>4. CASE m # n /\ k # n
    <3>1. m \in Accounts!Taken \ {n} /\ k \in Accounts!Taken \ {n}
      BY <1>3, <2>4
    <3> QED BY <2>1, <3>1 DEF AccountsKnown, Accounts!KeysAreUnambiguous
  <2> QED BY <2>2, <2>3, <2>4
<1>9. Accounts!RolesExist'
  <2> SUFFICES ASSUME NEW m \in Accounts!Taken'
               PROVE  account'[m].admin \/ account'[m].role \in Accounts!RolesThere'
    BY DEF Accounts!RolesExist
  <2>1. Accounts!RolesThere' = Accounts!RolesThere
    BY DEF Accounts!RolesThere
  <2>2. CASE m = n
    BY <1>2, <2>1, <2>2
  <2>3. CASE m # n
    <3>1. m \in Accounts!Taken /\ account'[m] = account[m]
      BY <1>2, <1>3, <2>3 DEF Accounts!Taken
    <3> QED BY <2>1, <3>1 DEF AccountsKnown, Accounts!RolesExist
  <2> QED BY <2>2, <2>3
<1> QED BY <1>5, <1>6, <1>7, <1>8, <1>9 DEF AccountsKnown

\* A step that changes no account, and deletes no role that an account has.
LEMMA AccountsStay ==
    ASSUME AccountsKnown, account' = account, tried' = tried,
           role' \in [Roles -> (SUBSET Accounts!Permissions) \cup {NoRole}],
           \A n \in Accounts!Taken : account[n].admin \/ account[n].role \in Accounts!RolesThere',
           entries' \in 0..MaxTrail,
           verifying' \in [Slots -> LoginTypes \cup {NoOne}],
           proofs' = proofs, sessions' \in Seq(proofs)
    PROVE  AccountsKnown'
<1>1. Accounts!Taken' = Accounts!Taken
  BY DEF Accounts!Taken
<1>2. AccountShapes' /\ ProofsKnown' /\ TriesCounted'
  BY <1>1 DEF AccountsKnown, AccountShapes, ProofsKnown, TriesCounted
<1>3. Accounts!KeysAreUnambiguous'
  BY <1>1 DEF AccountsKnown, Accounts!KeysAreUnambiguous
<1>4. Accounts!RolesExist'
  BY <1>1 DEF AccountsKnown, Accounts!RolesExist
<1> QED BY <1>2, <1>3, <1>4 DEF AccountsKnown

\* The conditions of a step of accounts that do not depend on which account changes.
RestOfAccounts ==
    /\ role' = role /\ entries' \in 0..MaxTrail
    /\ verifying' \in [Slots -> LoginTypes \cup {NoOne}]
    /\ sessions' \in Seq(proofs')

\* What is proved of every step.
AccountsGoal == AccountsKnown' /\ Accounts!AccountsSteps

\* Accounts other than the changed one keep their permissions.
LEMMA OthersKeep ==
    ASSUME AccountShapes, NEW n \in Names, NEW v \in Accounts!AccountTypes,
           account' = [account EXCEPT ![n] = v], role' = role, NoAccount \notin Accounts!AccountTypes
    PROVE  /\ \A m \in Names \ {n} : Accounts!Effective(m)' = Accounts!Effective(m)
           /\ Accounts!Effective(n)' =
                  IF v.disabled THEN {}
                  ELSE IF v.admin THEN Accounts!Permissions
                  ELSE IF role[v.role] = NoRole THEN {} ELSE role[v.role]
<1>1. v # NoAccount
  OBVIOUS
<1>2. account'[n] = v /\ \A m \in Names \ {n} : account'[m] = account[m]
  BY DEF AccountShapes
<1>3. ASSUME NEW m \in Names \ {n}
      PROVE  Accounts!Effective(m)' = Accounts!Effective(m)
  BY <1>2, <1>3 DEF Accounts!Effective, Accounts!Taken, Accounts!PermissionsOf
<1>4. n \in Accounts!Taken'
  BY <1>1, <1>2 DEF Accounts!Taken
<1> QED BY <1>2, <1>3, <1>4 DEF Accounts!Effective, Accounts!PermissionsOf

\* An administrator remains if the changed account is one, or was none, or another is there.
LEMMA AdminStays ==
    ASSUME AccountShapes, NEW n \in Names, NEW v \in Accounts!AccountTypes,
           account' = [account EXCEPT ![n] = v], NoAccount \notin Accounts!AccountTypes,
           n \in Accounts!EnabledAdmins => (v.admin /\ ~v.disabled) \/ Accounts!OtherAdmin(n)
    PROVE  Accounts!AdminRemains
<1> SUFFICES ASSUME NEW a \in Accounts!EnabledAdmins
             PROVE  Accounts!EnabledAdmins' # {}
  BY DEF Accounts!AdminRemains
<1>1. v # NoAccount
  OBVIOUS
<1>2. account'[n] = v /\ \A m \in Names \ {n} : account'[m] = account[m]
  BY DEF AccountShapes
<1>3. \A m \in Accounts!EnabledAdmins \ {n} : m \in Accounts!EnabledAdmins'
  BY <1>2 DEF Accounts!EnabledAdmins, Accounts!Taken
<1>4. CASE a # n
  BY <1>3, <1>4
<1>5. CASE a = n /\ Accounts!OtherAdmin(n)
  BY <1>3, <1>5 DEF Accounts!OtherAdmin
<1>6. CASE a = n /\ v.admin /\ ~v.disabled
  <2>1. n \in Accounts!EnabledAdmins'
    BY <1>1, <1>2, <1>6 DEF Accounts!EnabledAdmins, Accounts!Taken
  <2> QED BY <2>1
<1> QED BY <1>4, <1>5, <1>6

\* A version that grows refuses every proof there is of the account.
LEMMA RevokedStay ==
    ASSUME AccountsKnown, NEW n \in Names, NEW v \in Accounts!AccountTypes,
           account' = [account EXCEPT ![n] = v],
           n \in Accounts!Taken =>
               \/ v.version > account[n].version
               \/ v.version = account[n].version /\ v.disabled = account[n].disabled,
           NoAccount \notin Accounts!AccountTypes
    PROVE  Accounts!RevokedStaysRevoked
<1> SUFFICES ASSUME NEW p \in proofs, Accounts!Valid(p)'
             PROVE  Accounts!Valid(p)
  BY DEF Accounts!RevokedStaysRevoked
<1>1. account'[n] = v /\ \A m \in Names \ {n} : account'[m] = account[m]
  BY DEF AccountsKnown, AccountShapes
<1>2. /\ p.name \in Accounts!Taken /\ p.name \in Names
      /\ p.version <= account[p.name].version /\ p.version \in Nat
  BY DEF AccountsKnown, AccountShapes, ProofsKnown, Accounts!Taken
<1>3. ~account'[p.name].disabled /\ account'[p.name].version = p.version
  BY DEF Accounts!Valid
<1>4. CASE p.name # n
  BY <1>1, <1>2, <1>3, <1>4 DEF Accounts!Valid
<1>5. CASE p.name = n
  <2>1. account[n] \in Accounts!AccountTypes
    BY <1>2, <1>5 DEF AccountsKnown, AccountShapes, Accounts!Taken
  <2>2. account[n].version \in Nat /\ v.version \in Nat
    BY <2>1 DEF Accounts!AccountTypes
  <2>3. v.version = p.version /\ ~v.disabled
    BY <1>1, <1>3, <1>5
  <2>4. v.version = account[n].version /\ v.disabled = account[n].disabled
    BY <1>2, <1>5, <2>2, <2>3
  <2> QED BY <1>2, <1>5, <2>3, <2>4 DEF Accounts!Valid
<1> QED BY <1>4, <1>5

\* A step that keeps role, state, name and address of an account.
LEMMA SameRights ==
    ASSUME Accounts!AccountsAssumption, AccountsKnown, RestOfAccounts,
           NEW n \in Accounts!Taken, NEW v \in Accounts!AccountTypes,
           account' = [account EXCEPT ![n] = v],
           v.admin = account[n].admin, v.disabled = account[n].disabled,
           v.role = account[n].role, v.email = account[n].email,
           v.version >= account[n].version,
           proofs' \subseteq proofs \cup {[name |-> n, version |-> v.version]},
           tried' \in [Names -> Nat], \A m \in Names \ {n} : tried'[m] = tried[m],
           tried'[n] <= FailureLimit,
           v.lock = "none" => tried'[n] = v.failed /\ tried'[n] < FailureLimit
    PROVE  /\ AccountsKnown' /\ Accounts!AdminRemains /\ Accounts!RevokedStaysRevoked
           /\ \A m \in Names : Accounts!Effective(m)' = Accounts!Effective(m)
<1>1. n \in Names /\ account[n] \in Accounts!AccountTypes /\ AccountShapes
      /\ NoAccount \notin Accounts!AccountTypes
  BY DEF AccountsKnown, AccountShapes, Accounts!Taken, Accounts!AccountsAssumption
<1>2. \A m \in Accounts!Taken \ {n} : {n, v.email} \cap {m, account[m].email} \subseteq {NoOne}
  BY DEF AccountsKnown, Accounts!KeysAreUnambiguous
<1>3. v.admin \/ v.role \in Accounts!RolesThere
  BY DEF AccountsKnown, Accounts!RolesExist
<1>4. AccountsKnown'
  BY <1>1, <1>2, <1>3, AccountBecomes DEF RestOfAccounts
<1>5. Accounts!AdminRemains
  <2>1. n \in Accounts!EnabledAdmins => v.admin /\ ~v.disabled
    BY DEF Accounts!EnabledAdmins
  <2> QED BY <1>1, <2>1, AdminStays
<1>6. Accounts!RevokedStaysRevoked
  <2>1. account[n].version \in Nat /\ v.version \in Nat
    BY <1>1 DEF Accounts!AccountTypes
  <2>2. v.version > account[n].version \/ v.version = account[n].version
    BY <2>1
  <2> QED BY <1>1, <2>2, RevokedStay
<1>7. Accounts!Effective(n)' = Accounts!Effective(n)
  <2>1. Accounts!Effective(n)' =
            IF v.disabled THEN {}
            ELSE IF v.admin THEN Accounts!Permissions
            ELSE IF role[v.role] = NoRole THEN {} ELSE role[v.role]
    BY <1>1, OthersKeep DEF RestOfAccounts
  <2> QED BY <2>1 DEF Accounts!Effective, Accounts!PermissionsOf
<1>8. \A m \in Names \ {n} : Accounts!Effective(m)' = Accounts!Effective(m)
  BY <1>1, OthersKeep DEF RestOfAccounts
<1> QED BY <1>4, <1>5, <1>6, <1>7, <1>8

\* Without more permissions for anybody, only a password can give an account away.
LEMMA NothingGained ==
    ASSUME \A m \in Names : Accounts!Effective(m)' = Accounts!Effective(m),
           last'.action # "passwd"
    PROVE  Accounts!NoEscalation
BY DEF Accounts!NoEscalation

LEMMA TrailGrows ==
    ASSUME AccountsKnown, Accounts!AccountsAssumption, NEW action, NEW name, NEW actor,
           Accounts!Audit(action, name, actor)
    PROVE  /\ entries' \in 0..MaxTrail
           /\ last'.action = action /\ last'.name = name /\ last'.actor = actor
<1>1. entries \in 0..MaxTrail /\ MaxTrail \in Nat /\ entries < MaxTrail /\ entries' = entries + 1
  BY DEF AccountsKnown, AccountShapes, Accounts!AccountsAssumption, Accounts!Audit
<1>2. last' = [action |-> action, name |-> name, actor |-> actor]
  BY DEF Accounts!Audit
<1> QED BY <1>1, <1>2

LEMMA AccountAdded ==
    ASSUME Accounts!AccountsAssumption, AccountsKnown,
           NEW n \in Names, NEW isAdmin \in BOOLEAN, NEW r \in Roles \cup {"admin"},
           NEW email \in Addresses \cup {NoOne}, NEW password \in BOOLEAN, NEW actor,
           Accounts!Add(n, isAdmin, r, email, password, actor),
           \/ actor = NoOne
           \/ account[actor].admin
           \/ ~isAdmin /\ role[r] \subseteq Accounts!Effective(actor)
    PROVE  AccountsGoal
<1> DEFINE v == Accounts!New(isAdmin, r, email, password)
<1>1. /\ v \in Accounts!AccountTypes
      /\ v.admin = isAdmin /\ v.disabled = FALSE /\ v.role = r /\ v.email = email
      /\ v.version = 0 /\ v.failed = 0 /\ v.lock = "none"
  BY DEF Accounts!New, Accounts!AccountTypes
<1>2. /\ n \notin Accounts!Taken /\ Accounts!KeysFree(n, email)
      /\ isAdmin \/ r \in Accounts!RolesThere
      /\ account' = [account EXCEPT ![n] = v]
      /\ Accounts!Audit("add", n, actor)
      /\ UNCHANGED <<role, verifying, sessions, local, proofs, tried>>
  BY DEF Accounts!Add, Accounts!Becomes
<1> HIDE DEF v
<1>3. entries' \in 0..MaxTrail /\ last'.action = "add" /\ last'.actor = actor
  BY <1>2, TrailGrows
<1>4. NoAccount \notin Accounts!AccountTypes /\ FailureLimit \in Nat \ {0} /\ AccountShapes
  BY DEF Accounts!AccountsAssumption, AccountsKnown
<1>5. AccountsKnown'
  <2>1. \A m \in Accounts!Taken \ {n} : {n, v.email} \cap {m, account[m].email} \subseteq {NoOne}
    BY <1>1, <1>2 DEF Accounts!KeysFree
  <2>2. tried[n] = 0
    BY <1>2 DEF AccountsKnown, TriesCounted
  <2>3. /\ tried' \in [Names -> Nat] /\ verifying' \in [Slots -> LoginTypes \cup {NoOne}]
        /\ sessions' \in Seq(proofs') /\ proofs' = proofs /\ role' = role
        /\ \A m \in Names \ {n} : tried'[m] = tried[m]
    BY <1>2, <1>4 DEF AccountShapes
  <2>4. tried'[n] <= FailureLimit /\ tried'[n] = v.failed /\ tried'[n] < FailureLimit
    BY <1>1, <1>2, <1>4, <2>2
  <2>5. v.admin \/ v.role \in Accounts!RolesThere
    BY <1>1, <1>2
  <2> QED BY <1>1, <1>2, <1>3, <2>1, <2>3, <2>4, <2>5, AccountBecomes
<1>6. Accounts!AdminRemains
  <2>1. n \notin Accounts!EnabledAdmins
    BY <1>2 DEF Accounts!EnabledAdmins
  <2> QED BY <1>1, <1>2, <1>4, <2>1, AdminStays
<1>7. Accounts!RevokedStaysRevoked
  BY <1>1, <1>2, <1>4, RevokedStay
<1>8. Accounts!NoEscalation
  <2> SUFFICES ASSUME actor # NoOne, ~account[actor].admin, NEW m \in Names
               PROVE  Accounts!Effective(m)' \subseteq Accounts!Effective(m) \cup Accounts!Effective(actor)
    BY <1>3 DEF Accounts!NoEscalation
  <2>1. CASE m # n
    BY <1>1, <1>2, <1>4, <2>1, OthersKeep
  <2>2. CASE m = n
    <3>1. ~isAdmin /\ role[r] \subseteq Accounts!Effective(actor)
      OBVIOUS
    <3>2. Accounts!Effective(n)' \subseteq role[r]
      BY <1>1, <1>2, <1>4, <3>1, OthersKeep
    <3> QED BY <2>2, <3>1, <3>2
  <2> QED BY <2>1, <2>2
<1> QED BY <1>5, <1>6, <1>7, <1>8 DEF AccountsGoal, Accounts!AccountsSteps

\* A proof that is valid: whose it is, and what they may do.
LEMMA ProofHolder ==
    ASSUME Accounts!AccountsAssumption, AccountsKnown, NEW p \in proofs, Accounts!Valid(p)
    PROVE  /\ p.name \in Names /\ p.name \in Accounts!Taken /\ p.name # NoOne
           /\ account[p.name] \in Accounts!AccountTypes
           /\ Accounts!Effective(p.name) = Accounts!PermissionsOf(p.name)
BY DEF Accounts!AccountsAssumption, AccountsKnown, AccountShapes, Accounts!Valid, Accounts!Taken,
       Accounts!Effective

LEMMA AddKept ==
    ASSUME Accounts!AccountsAssumption, AccountsKnown, NEW n \in Names,
           \/ Accounts!AddLocal(n)
           \/ Accounts!Bootstrap(n)
           \/ \E p \in proofs : Accounts!AddBy(p, n)
    PROVE  AccountsGoal
<1>1. "viewer" \in Roles /\ "admin" \notin Roles /\ NoOne \in Addresses \cup {NoOne}
  BY DEF Accounts!AccountsAssumption
<1>2. CASE Accounts!AddLocal(n)
  <2>1. PICK isAdmin \in BOOLEAN, email \in Addresses \cup {NoOne}, password \in BOOLEAN :
            Accounts!Add(n, isAdmin, "viewer", email, password, NoOne)
    BY <1>2 DEF Accounts!AddLocal
  <2> QED BY <1>1, <2>1, AccountAdded
<1>3. CASE Accounts!Bootstrap(n)
  <2>1. Accounts!Add(n, TRUE, "viewer", NoOne, TRUE, NoOne)
    BY <1>3 DEF Accounts!Bootstrap
  <2> QED BY <1>1, <2>1, AccountAdded
<1>4. ASSUME NEW p \in proofs, Accounts!AddBy(p, n)
      PROVE  AccountsGoal
  <2>1. PICK r \in Roles \cup {"admin"}, email \in Addresses \cup {NoOne} :
            /\ Accounts!MayAssign(p, r)
            /\ Accounts!Add(n, r = "admin", r, email, TRUE, p.name)
    BY <1>4 DEF Accounts!AddBy
  <2>2. Accounts!Effective(p.name) = Accounts!PermissionsOf(p.name)
    BY <1>4, ProofHolder DEF Accounts!AddBy, Accounts!Manages
  <2>3. account[p.name].admin \/ (r # "admin" /\ role[r] \subseteq Accounts!Effective(p.name))
    BY <1>1, <2>1, <2>2 DEF Accounts!MayAssign, Accounts!RolesThere
  <2>4. (r = "admin") \in BOOLEAN
    OBVIOUS
  <2> QED BY <2>1, <2>3, <2>4, AccountAdded
<1> QED BY <1>2, <1>3, <1>4

LEMMA PasswordSet ==
    ASSUME Accounts!AccountsAssumption, AccountsKnown, NEW n \in Accounts!Taken, NEW actor,
           Accounts!SetPassword(n, actor),
           actor = NoOne \/ account[actor].admin \/ actor = n
               \/ Accounts!PermissionsOf(n) \subseteq Accounts!Effective(actor)
    PROVE  AccountsGoal
<1> DEFINE v == [account[n] EXCEPT !.password = TRUE, !.failed = 0, !.lock = "none",
                                   !.version = @ + 1]
<1>1. /\ account' = [account EXCEPT ![n] = v] /\ tried' = [tried EXCEPT ![n] = 0]
      /\ Accounts!Audit("passwd", n, actor)
      /\ UNCHANGED <<role, verifying, sessions, local, proofs>>
  BY DEF Accounts!SetPassword, Accounts!Becomes
<1>2. n \in Names /\ account[n] \in Accounts!AccountTypes /\ AccountShapes /\ FailureLimit \in Nat \ {0}
  BY DEF AccountsKnown, AccountShapes, Accounts!Taken, Accounts!AccountsAssumption
<1>3. /\ v \in Accounts!AccountTypes
      /\ v.admin = account[n].admin /\ v.disabled = account[n].disabled
      /\ v.role = account[n].role /\ v.email = account[n].email
      /\ v.version = account[n].version + 1 /\ v.failed = 0 /\ v.lock = "none"
  BY <1>2, PasswordRecord
<1> HIDE DEF v
<1>4. entries' \in 0..MaxTrail /\ last'.action = "passwd" /\ last'.name = n /\ last'.actor = actor
  BY <1>1, TrailGrows
<1>5. RestOfAccounts
  BY <1>1, <1>2, <1>4 DEF RestOfAccounts, AccountShapes
<1>6. /\ tried' \in [Names -> Nat] /\ \A m \in Names \ {n} : tried'[m] = tried[m]
      /\ tried'[n] = 0 /\ 0 <= FailureLimit /\ 0 < FailureLimit
  BY <1>1, <1>2 DEF AccountShapes
<1>7. v.version >= account[n].version
  BY <1>2, <1>3 DEF Accounts!AccountTypes
<1>8. /\ AccountsKnown' /\ Accounts!AdminRemains /\ Accounts!RevokedStaysRevoked
      /\ \A m \in Names : Accounts!Effective(m)' = Accounts!Effective(m)
  BY <1>1, <1>3, <1>5, <1>6, <1>7, SameRights
<1>9. Accounts!NoEscalation
  BY <1>4, <1>8 DEF Accounts!NoEscalation
<1> QED BY <1>8, <1>9 DEF AccountsGoal, Accounts!AccountsSteps

LEMMA SetPasswordKept ==
    ASSUME Accounts!AccountsAssumption, AccountsKnown, NEW n \in Names,
           Accounts!SetPasswordLocal(n) \/ \E p \in proofs : Accounts!SetPasswordBy(p, n)
    PROVE  AccountsGoal
<1>1. CASE Accounts!SetPasswordLocal(n)
  BY <1>1, PasswordSet DEF Accounts!SetPasswordLocal
<1>2. ASSUME NEW p \in proofs, Accounts!SetPasswordBy(p, n)
      PROVE  AccountsGoal
  <2>1. /\ Accounts!Valid(p) /\ n \in Accounts!Taken /\ Accounts!SetPassword(n, p.name)
        /\ p.name = n \/ Accounts!MayChange(p, n)
    BY <1>2 DEF Accounts!SetPasswordBy
  <2>2. Accounts!Effective(p.name) = Accounts!PermissionsOf(p.name)
    BY <2>1, ProofHolder
  <2>3. account[p.name].admin \/ p.name = n
            \/ Accounts!PermissionsOf(n) \subseteq Accounts!Effective(p.name)
    BY <2>1, <2>2 DEF Accounts!MayChange
  <2> QED BY <2>1, <2>3, PasswordSet
<1> QED BY <1>1, <1>2

LEMMA DisabledSet ==
    ASSUME Accounts!AccountsAssumption, AccountsKnown, NEW n \in Names, NEW value \in BOOLEAN,
           NEW actor, Accounts!SetDisabled(n, value, actor), actor = NoOne \/ account[actor].admin
    PROVE  AccountsGoal
<1> DEFINE v == Accounts!Disabled(n, value)
           action == IF value THEN "disable" ELSE "enable"
<1>1. /\ n \in Accounts!Taken /\ (value /\ n \in Accounts!EnabledAdmins => Accounts!OtherAdmin(n))
      /\ account' = [account EXCEPT ![n] = v]
      /\ Accounts!Audit(action, n, actor)
      /\ UNCHANGED <<role, verifying, sessions, local, proofs, tried>>
  BY DEF Accounts!SetDisabled, Accounts!Becomes
<1>2. account[n] \in Accounts!AccountTypes /\ AccountShapes /\ NoAccount \notin Accounts!AccountTypes
  BY <1>1 DEF AccountsKnown, AccountShapes, Accounts!Taken, Accounts!AccountsAssumption
<1>3. /\ v \in Accounts!AccountTypes
      /\ v.admin = account[n].admin /\ v.disabled = value
      /\ v.role = account[n].role /\ v.email = account[n].email
      /\ v.version = account[n].version + 1 /\ v.failed = account[n].failed /\ v.lock = account[n].lock
  BY <1>2, DisabledRecord
<1> HIDE DEF v, action
<1>4. entries' \in 0..MaxTrail /\ last'.actor = actor
  BY <1>1, TrailGrows
<1>5. v.version > account[n].version
  BY <1>2, <1>3 DEF Accounts!AccountTypes
<1>6. AccountsKnown'
  <2>1. \A m \in Accounts!Taken \ {n} : {n, v.email} \cap {m, account[m].email} \subseteq {NoOne}
    BY <1>1, <1>3 DEF AccountsKnown, Accounts!KeysAreUnambiguous
  <2>2. v.admin \/ v.role \in Accounts!RolesThere
    BY <1>1, <1>3 DEF AccountsKnown, Accounts!RolesExist
  <2>3. /\ tried' \in [Names -> Nat] /\ verifying' \in [Slots -> LoginTypes \cup {NoOne}]
        /\ sessions' \in Seq(proofs') /\ proofs' = proofs /\ role' = role
        /\ \A m \in Names \ {n} : tried'[m] = tried[m]
    BY <1>1, <1>2 DEF AccountShapes
  <2>4. tried'[n] <= FailureLimit /\ (v.lock = "none" => tried'[n] = v.failed /\ tried'[n] < FailureLimit)
    BY <1>1, <1>3 DEF AccountsKnown, TriesCounted
  <2>5. v.version >= account[n].version
    BY <1>2, <1>3 DEF Accounts!AccountTypes
  <2> QED BY <1>1, <1>3, <1>4, <2>1, <2>2, <2>3, <2>4, <2>5, AccountBecomes
<1>7. Accounts!AdminRemains
  <2>1. n \in Accounts!EnabledAdmins => (v.admin /\ ~v.disabled) \/ Accounts!OtherAdmin(n)
    BY <1>1, <1>3 DEF Accounts!EnabledAdmins
  <2> QED BY <1>1, <1>2, <1>3, <2>1, AdminStays
<1>8. Accounts!RevokedStaysRevoked
  BY <1>1, <1>2, <1>3, <1>5, RevokedStay
<1>9. Accounts!NoEscalation
  BY <1>4 DEF Accounts!NoEscalation
<1> QED BY <1>6, <1>7, <1>8, <1>9 DEF AccountsGoal, Accounts!AccountsSteps

LEMMA SetDisabledKept ==
    ASSUME Accounts!AccountsAssumption, AccountsKnown, NEW n \in Names, NEW value \in BOOLEAN,
           \/ Accounts!SetDisabledLocal(n, value)
           \/ \E p \in proofs : Accounts!SetDisabledBy(p, n, value)
    PROVE  AccountsGoal
<1>1. CASE Accounts!SetDisabledLocal(n, value)
  BY <1>1, DisabledSet DEF Accounts!SetDisabledLocal
<1>2. CASE \E p \in proofs : Accounts!SetDisabledBy(p, n, value)
  BY <1>2, DisabledSet DEF Accounts!SetDisabledBy, Accounts!AdminProof
<1> QED BY <1>1, <1>2

LEMMA AccountUnlocked ==
    ASSUME Accounts!AccountsAssumption, AccountsKnown, NEW n \in Accounts!Taken, NEW actor,
           Accounts!Unlock(n, actor)
    PROVE  AccountsGoal
<1> DEFINE v == [account[n] EXCEPT !.failed = 0, !.lock = "none"]
<1>1. /\ account' = [account EXCEPT ![n] = v] /\ tried' = [tried EXCEPT ![n] = 0]
      /\ Accounts!Audit("unlock", n, actor)
      /\ UNCHANGED <<role, verifying, sessions, local, proofs>>
  BY DEF Accounts!Unlock, Accounts!Becomes
<1>2. n \in Names /\ account[n] \in Accounts!AccountTypes /\ AccountShapes /\ FailureLimit \in Nat \ {0}
  BY DEF AccountsKnown, AccountShapes, Accounts!Taken, Accounts!AccountsAssumption
<1>3. /\ v \in Accounts!AccountTypes
      /\ v.admin = account[n].admin /\ v.disabled = account[n].disabled
      /\ v.role = account[n].role /\ v.email = account[n].email
      /\ v.version = account[n].version /\ v.failed = 0 /\ v.lock = "none"
  BY <1>2, UnlockedRecord
<1> HIDE DEF v
<1>4. entries' \in 0..MaxTrail /\ last'.action = "unlock"
  BY <1>1, TrailGrows
<1>5. RestOfAccounts
  BY <1>1, <1>2, <1>4 DEF RestOfAccounts, AccountShapes
<1>6. /\ tried' \in [Names -> Nat] /\ \A m \in Names \ {n} : tried'[m] = tried[m]
      /\ tried'[n] = 0 /\ 0 <= FailureLimit /\ 0 < FailureLimit
  BY <1>1, <1>2 DEF AccountShapes
<1>7. v.version >= account[n].version
  BY <1>2, <1>3 DEF Accounts!AccountTypes
<1>8. /\ AccountsKnown' /\ Accounts!AdminRemains /\ Accounts!RevokedStaysRevoked
      /\ \A m \in Names : Accounts!Effective(m)' = Accounts!Effective(m)
  BY <1>1, <1>3, <1>5, <1>6, <1>7, SameRights
<1>9. Accounts!NoEscalation
  BY <1>4, <1>8, NothingGained
<1> QED BY <1>8, <1>9 DEF AccountsGoal, Accounts!AccountsSteps

LEMMA UnlockKept ==
    ASSUME Accounts!AccountsAssumption, AccountsKnown, NEW n \in Names,
           Accounts!UnlockLocal(n) \/ \E p \in proofs : Accounts!UnlockBy(p, n)
    PROVE  AccountsGoal
BY AccountUnlocked DEF Accounts!UnlockLocal, Accounts!UnlockBy

\* What an account keeps, or gets by an edit, its editor has.
LEMMA EditKept ==
    ASSUME Accounts!AccountsAssumption, AccountsKnown, NEW p \in proofs, NEW n \in Names,
           NEW r \in Roles \cup {"admin"}, NEW disabled \in BOOLEAN,
           NEW email \in Addresses \cup {NoOne}, Accounts!EditUser(p, n, r, disabled, email)
    PROVE  AccountsGoal
<1> DEFINE v == Edited(n, r, disabled, email)
<1>1. /\ n \in Accounts!Taken /\ Accounts!MayChange(p, n)
      /\ r # Accounts!RoleOf(n) => Accounts!MayAssign(p, r)
      /\ r # "admin" => r \in Accounts!RolesThere
      /\ Accounts!KeepsAdmin(n, r, disabled) /\ Accounts!AddressFree(n, email)
      /\ account' = [account EXCEPT ![n] = v]
      /\ Accounts!Audit("user_edit", n, p.name)
      /\ UNCHANGED <<role, verifying, sessions, local, proofs, tried>>
  BY DEF Accounts!EditUser, Accounts!Becomes, Edited
<1>2. /\ account[n] \in Accounts!AccountTypes /\ AccountShapes /\ NoAccount \notin Accounts!AccountTypes
      /\ "admin" \notin Roles /\ NoOne \notin Names
  BY <1>1 DEF AccountsKnown, AccountShapes, Accounts!Taken, Accounts!AccountsAssumption
<1>3. /\ v \in Accounts!AccountTypes /\ (v.admin <=> r = "admin")
      /\ v.disabled = disabled /\ v.role = r /\ v.email = email
      /\ v.version = account[n].version + 1 /\ v.failed = account[n].failed /\ v.lock = account[n].lock
  BY <1>2, EditedRecord
<1> HIDE DEF v
<1>4. entries' \in 0..MaxTrail /\ last'.action = "user_edit" /\ last'.actor = p.name
  BY <1>1, TrailGrows
<1>5. v.version > account[n].version /\ v.version >= account[n].version
  BY <1>2, <1>3 DEF Accounts!AccountTypes
<1>6. AccountsKnown'
  <2>1. \A m \in Accounts!Taken \ {n} : {n, v.email} \cap {m, account[m].email} \subseteq {NoOne}
    <3> SUFFICES ASSUME NEW m \in Accounts!Taken \ {n}
                 PROVE  {n, email} \cap {m, account[m].email} \subseteq {NoOne}
      BY <1>3
    <3>1. {n, account[n].email} \cap {m, account[m].email} \subseteq {NoOne}
      BY <1>1 DEF AccountsKnown, Accounts!KeysAreUnambiguous
    <3>2. email = NoOne \/ email \notin {m, account[m].email}
      BY <1>1 DEF Accounts!AddressFree
    <3> QED BY <3>1, <3>2
  <2>2. v.admin \/ v.role \in Accounts!RolesThere
    BY <1>1, <1>3
  <2>3. /\ tried' \in [Names -> Nat] /\ verifying' \in [Slots -> LoginTypes \cup {NoOne}]
        /\ sessions' \in Seq(proofs') /\ proofs' = proofs /\ role' = role
        /\ \A m \in Names \ {n} : tried'[m] = tried[m]
    BY <1>1, <1>2 DEF AccountShapes
  <2>4. tried'[n] <= FailureLimit /\ (v.lock = "none" => tried'[n] = v.failed /\ tried'[n] < FailureLimit)
    BY <1>1, <1>3 DEF AccountsKnown, TriesCounted
  <2> QED BY <1>1, <1>3, <1>4, <1>5, <2>1, <2>2, <2>3, <2>4, AccountBecomes
<1>7. Accounts!AdminRemains
  <2>1. n \in Accounts!EnabledAdmins => (v.admin /\ ~v.disabled) \/ Accounts!OtherAdmin(n)
    BY <1>1, <1>3 DEF Accounts!KeepsAdmin
  <2> QED BY <1>1, <1>2, <1>3, <2>1, AdminStays
<1>8. Accounts!RevokedStaysRevoked
  BY <1>1, <1>2, <1>3, <1>5, RevokedStay
<1>9. Accounts!NoEscalation
  <2> SUFFICES ASSUME ~account[p.name].admin, NEW m \in Names
               PROVE  Accounts!Effective(m)' \subseteq Accounts!Effective(m) \cup Accounts!Effective(p.name)
    BY <1>4 DEF Accounts!NoEscalation
  <2>1. CASE m # n
    BY <1>1, <1>2, <1>3, <2>1, OthersKeep
  <2>2. CASE m = n
    <3>1. Accounts!Effective(p.name) = Accounts!PermissionsOf(p.name)
      BY <1>1, ProofHolder DEF Accounts!MayChange, Accounts!Manages
    <3>2. /\ ~account[n].admin
          /\ Accounts!PermissionsOf(n) \subseteq Accounts!Effective(p.name)
      BY <1>1, <3>1 DEF Accounts!MayChange
    <3>3. r # "admin" /\ role[r] # NoRole /\ role[r] \subseteq Accounts!Effective(p.name)
      <4>1. CASE r = account[n].role
        <5>1. r \in Accounts!RolesThere
          BY <1>1, <3>2, <4>1 DEF AccountsKnown, Accounts!RolesExist
        <5> QED BY <1>2, <3>2, <4>1, <5>1 DEF Accounts!RolesThere, Accounts!PermissionsOf
      <4>2. CASE r # account[n].role
        <5>1. r # Accounts!RoleOf(n)
          BY <3>2, <4>2 DEF Accounts!RoleOf
        <5>2. r \in Accounts!RolesThere /\ role[r] \subseteq Accounts!PermissionsOf(p.name)
          BY <1>1, <5>1 DEF Accounts!MayAssign
        <5> QED BY <1>2, <3>1, <5>2 DEF Accounts!RolesThere
      <4> QED BY <4>1, <4>2
    <3>4. Accounts!Effective(n)' = IF v.disabled THEN {} ELSE role[r]
      BY <1>1, <1>2, <1>3, <3>3, OthersKeep
    <3> QED BY <2>2, <3>3, <3>4
  <2> QED BY <2>1, <2>2
<1> QED BY <1>6, <1>7, <1>8, <1>9 DEF AccountsGoal, Accounts!AccountsSteps

\* A step that leaves every account as it is keeps administrators and proofs.
LEMMA SameAccounts ==
    ASSUME account' = account, proofs' = proofs
    PROVE  Accounts!AdminRemains /\ Accounts!RevokedStaysRevoked
BY DEF Accounts!AdminRemains, Accounts!RevokedStaysRevoked, Accounts!EnabledAdmins, Accounts!Taken,
       Accounts!Valid

LEMMA RoleKept ==
    ASSUME Accounts!AccountsAssumption, AccountsKnown, NEW p \in proofs, NEW r \in Roles,
           \/ \E permissions \in SUBSET Accounts!Permissions : Accounts!SaveRole(p, r, permissions)
           \/ Accounts!DeleteRole(p, r)
    PROVE  AccountsGoal
<1>1. PICK granted \in (SUBSET Accounts!Permissions) \cup {NoRole}, action \in {"role_save", "role_delete"} :
        /\ role' = [role EXCEPT ![r] = granted]
        /\ granted = NoRole => Accounts!Free(r)
        /\ Accounts!AdminProof(p)
        /\ Accounts!Audit(action, p.name, p.name)
        /\ UNCHANGED <<account, verifying, sessions, local, proofs, tried>>
  <2>1. CASE \E permissions \in SUBSET Accounts!Permissions : Accounts!SaveRole(p, r, permissions)
    BY <2>1 DEF Accounts!SaveRole, Accounts!AccountsAssumption
  <2>2. CASE Accounts!DeleteRole(p, r)
    BY <2>2 DEF Accounts!DeleteRole
  <2> QED BY <2>1, <2>2
<1>2. AccountShapes /\ \A permissions \in SUBSET Accounts!Permissions : NoRole # permissions
  BY DEF AccountsKnown, Accounts!AccountsAssumption
<1>3. entries' \in 0..MaxTrail /\ last'.actor = p.name
  BY <1>1, TrailGrows
<1>4. AccountsKnown'
  <2>1. role' \in [Roles -> (SUBSET Accounts!Permissions) \cup {NoRole}]
    BY <1>1, <1>2 DEF AccountShapes
  <2>2. ASSUME NEW n \in Accounts!Taken
        PROVE  account[n].admin \/ account[n].role \in Accounts!RolesThere'
    <3>1. account[n].admin \/ account[n].role \in Accounts!RolesThere
      BY DEF AccountsKnown, Accounts!RolesExist
    <3>2. CASE account[n].role # r
      BY <1>1, <1>2, <3>1, <3>2 DEF Accounts!RolesThere, AccountShapes
    <3>3. CASE account[n].role = r
      BY <1>1, <1>2, <3>1, <3>3 DEF Accounts!RolesThere, AccountShapes, Accounts!Free
    <3> QED BY <3>2, <3>3
  <2>3. verifying' \in [Slots -> LoginTypes \cup {NoOne}] /\ sessions' \in Seq(proofs)
    BY <1>1, <1>2 DEF AccountShapes
  <2> QED BY <1>1, <1>3, <2>1, <2>2, <2>3, AccountsStay
<1>5. Accounts!NoEscalation
  BY <1>1, <1>3 DEF Accounts!NoEscalation, Accounts!AdminProof
<1> QED BY <1>1, <1>4, <1>5, SameAccounts DEF AccountsGoal, Accounts!AccountsSteps

\* A step of a login, or of a session: the trail grows or stays, accounts stay.
LEMMA NothingWritten ==
    ASSUME Accounts!AccountsAssumption, AccountsKnown, account' = account, role' = role,
           proofs' = proofs, tried' = tried, entries' \in 0..MaxTrail,
           entries' = entries \/ last'.action # "passwd",
           verifying' \in [Slots -> LoginTypes \cup {NoOne}], sessions' \in Seq(proofs)
    PROVE  AccountsGoal
<1>1. role' \in [Roles -> (SUBSET Accounts!Permissions) \cup {NoRole}]
  BY DEF AccountsKnown, AccountShapes
<1>2. \A n \in Accounts!Taken : account[n].admin \/ account[n].role \in Accounts!RolesThere'
  BY DEF AccountsKnown, Accounts!RolesExist, Accounts!RolesThere
<1>3. AccountsKnown'
  BY <1>1, <1>2, AccountsStay
<1>4. \A m \in Names : Accounts!Effective(m)' = Accounts!Effective(m)
  BY DEF Accounts!Effective, Accounts!Taken, Accounts!PermissionsOf
<1>5. Accounts!NoEscalation
  BY <1>4 DEF Accounts!NoEscalation
<1> QED BY <1>3, <1>5, SameAccounts DEF AccountsGoal, Accounts!AccountsSteps

LEMMA LoginBegun ==
    ASSUME Accounts!AccountsAssumption, AccountsKnown, NEW s \in Slots, NEW n \in Names,
           Accounts!LoginBegins(s, n)
    PROVE  AccountsGoal
<1>1. PICK right \in BOOLEAN :
        verifying' = [verifying EXCEPT ![s] =
            [name |-> n, there |-> n \in Accounts!Taken,
             version |-> IF n \in Accounts!Taken THEN account[n].version ELSE 0,
             accepted |-> /\ right /\ n \in Accounts!Taken
                          /\ account[n].password /\ ~account[n].disabled /\ ~Accounts!Locked(n),
             locked |-> n \in Accounts!Taken /\ Accounts!Locked(n)]]
  BY DEF Accounts!LoginBegins
<1> DEFINE version == IF n \in Accounts!Taken THEN account[n].version ELSE 0
           there == n \in Accounts!Taken
           accepted == /\ right /\ n \in Accounts!Taken
                       /\ account[n].password /\ ~account[n].disabled /\ ~Accounts!Locked(n)
           locked == n \in Accounts!Taken /\ Accounts!Locked(n)
           login == [name |-> n, there |-> there, version |-> version, accepted |-> accepted,
                     locked |-> locked]
<1>2. verifying' = [verifying EXCEPT ![s] = login]
  BY <1>1
<1>3. version \in Nat
  <2>1. n \in Accounts!Taken => account[n] \in Accounts!AccountTypes
    BY DEF AccountsKnown, AccountShapes, Accounts!Taken
  <2> QED BY <2>1 DEF Accounts!AccountTypes
<1>4. there \in BOOLEAN /\ accepted \in BOOLEAN /\ locked \in BOOLEAN
  OBVIOUS
<1> HIDE DEF version, there, accepted, locked
<1>5. login \in LoginTypes
  BY <1>3, <1>4 DEF LoginTypes
<1> HIDE DEF login
<1>6. verifying' \in [Slots -> LoginTypes \cup {NoOne}]
  BY <1>2, <1>5 DEF AccountsKnown, AccountShapes
<1>7. /\ account' = account /\ role' = role /\ proofs' = proofs /\ tried' = tried
      /\ entries' = entries /\ sessions' = sessions
  BY DEF Accounts!LoginBegins, Accounts!data, Accounts!audit
<1>8. entries' \in 0..MaxTrail /\ sessions' \in Seq(proofs)
  BY <1>7 DEF AccountsKnown, AccountShapes
<1> QED BY <1>6, <1>7, <1>8, NothingWritten

\* A login whose transaction runs is over.
LEMMA LoginOver ==
    ASSUME AccountsKnown, NEW s \in Slots, verifying' = [verifying EXCEPT ![s] = NoOne]
    PROVE  verifying' \in [Slots -> LoginTypes \cup {NoOne}]
BY DEF AccountsKnown, AccountShapes

LEMMA LoginKnown ==
    ASSUME AccountsKnown, NEW s \in Slots, verifying[s] # NoOne
    PROVE  verifying[s] \in LoginTypes /\ verifying[s].name \in Names /\ verifying[s].version \in Nat
BY DEF AccountsKnown, AccountShapes, LoginTypes

LEMMA LoginRefusal ==
    ASSUME Accounts!AccountsAssumption, AccountsKnown, NEW s \in Slots, Accounts!LoginRefused(s)
    PROVE  AccountsGoal
<1>1. /\ Accounts!Audit("login_refused", verifying[s].name, NoOne)
      /\ verifying' = [verifying EXCEPT ![s] = NoOne]
      /\ account' = account /\ role' = role /\ proofs' = proofs /\ tried' = tried
      /\ sessions' = sessions
  BY DEF Accounts!LoginRefused, Accounts!data
<1>2. entries' \in 0..MaxTrail /\ last'.action = "login_refused"
  BY <1>1, TrailGrows
<1>3. verifying' \in [Slots -> LoginTypes \cup {NoOne}] /\ sessions' \in Seq(proofs)
  BY <1>1, LoginOver DEF AccountsKnown, AccountShapes
<1> QED BY <1>1, <1>2, <1>3, NothingWritten

\* A wrong password is counted, whatever other logins were verified meanwhile.
LEMMA LoginFailure ==
    ASSUME Accounts!AccountsAssumption, AccountsKnown, NEW s \in Slots, Accounts!LoginFails(s)
    PROVE  AccountsGoal
<1> DEFINE n == verifying[s].name
           v == Accounts!Failed(n)
           failures == (IF account[n].lock = "expired" THEN 0 ELSE account[n].failed) + 1
           tries == IF account[n].lock = "expired" THEN 1 ELSE tried[n] + 1
<1>1. /\ verifying[s] # NoOne /\ n \in Accounts!Taken /\ ~Accounts!Locked(n)
      /\ account' = [account EXCEPT ![n] = v] /\ tried' = [tried EXCEPT ![n] = tries]
      /\ Accounts!Audit("login_failed", n, NoOne)
      /\ verifying' = [verifying EXCEPT ![s] = NoOne]
      /\ UNCHANGED <<role, sessions, local, proofs>>
  BY DEF Accounts!LoginFails, Accounts!LockedNow, Accounts!Becomes
<1>2. n \in Names /\ account[n] \in Accounts!AccountTypes /\ AccountShapes /\ FailureLimit \in Nat \ {0}
  BY <1>1 DEF AccountsKnown, AccountShapes, Accounts!Taken, Accounts!AccountsAssumption
<1>3. /\ v \in Accounts!AccountTypes
      /\ v.admin = account[n].admin /\ v.disabled = account[n].disabled
      /\ v.role = account[n].role /\ v.email = account[n].email
      /\ v.version = account[n].version /\ v.failed = failures
      /\ v.lock = IF failures >= FailureLimit THEN "locked"
                  ELSE IF account[n].lock = "expired" THEN "none" ELSE account[n].lock
  BY <1>2, FailedRecord
<1>4. tries \in Nat /\ tries <= FailureLimit /\ (v.lock = "none" => tries = failures /\ tries < FailureLimit)
  <2>1. /\ account[n].lock \in {"none", "expired"} /\ account[n].failed \in Nat
    BY <1>1, <1>2 DEF Accounts!Locked, Accounts!AccountTypes
  <2>2. account[n].lock = "none" => tried[n] = account[n].failed /\ tried[n] < FailureLimit
    BY <1>1, <1>2 DEF AccountsKnown, TriesCounted
  <2>3. failures \in Nat
    BY <2>1
  <2>4. v.lock = "none" => failures < FailureLimit
    BY <1>2, <1>3, <2>3
  <2>5. CASE account[n].lock = "expired"
    BY <1>2, <2>4, <2>5
  <2>6. CASE account[n].lock = "none"
    BY <1>2, <2>1, <2>2, <2>4, <2>6
  <2> QED BY <2>1, <2>5, <2>6
<1> HIDE DEF n, v, failures, tries
<1>5. entries' \in 0..MaxTrail /\ last'.action = "login_failed"
  BY <1>1, TrailGrows
<1>6. RestOfAccounts
  BY <1>1, <1>2, <1>5, LoginOver DEF RestOfAccounts, AccountShapes
<1>7. /\ tried' \in [Names -> Nat] /\ \A m \in Names \ {n} : tried'[m] = tried[m]
      /\ tried'[n] = tries
  BY <1>1, <1>2, <1>4 DEF AccountShapes
<1>8. v.version >= account[n].version /\ proofs' = proofs
  BY <1>1, <1>2, <1>3 DEF Accounts!AccountTypes
<1>9. /\ AccountsKnown' /\ Accounts!AdminRemains /\ Accounts!RevokedStaysRevoked
      /\ \A m \in Names : Accounts!Effective(m)' = Accounts!Effective(m)
  <2>1. v.lock = "none" => tried'[n] = v.failed /\ tried'[n] < FailureLimit
    BY <1>3, <1>4, <1>7
  <2>2. tried'[n] <= FailureLimit
    BY <1>4, <1>7
  <2> QED BY <1>1, <1>3, <1>6, <1>7, <1>8, <2>1, <2>2, SameRights
<1> QED BY <1>5, <1>9, NothingGained DEF AccountsGoal, Accounts!AccountsSteps

\* What is handed out is a proof of the version the account has.
LEMMA LoginSuccess ==
    ASSUME Accounts!AccountsAssumption, AccountsKnown, NEW s \in Slots, Accounts!LoginSucceeds(s)
    PROVE  AccountsGoal
<1> DEFINE n == verifying[s].name
           proof == [name |-> n, version |-> verifying[s].version]
           v == [account[n] EXCEPT !.failed = 0, !.lock = "none"]
<1>1. /\ verifying[s] # NoOne /\ n \in Accounts!Taken
      /\ account[n].version = verifying[s].version
      /\ account' = [account EXCEPT ![n] = v] /\ tried' = [tried EXCEPT ![n] = 0]
      /\ proofs' = proofs \cup {proof}
      /\ sessions' \in {sessions, Accounts!Issue(proof)}
      /\ Accounts!Audit("login", n, n)
      /\ verifying' = [verifying EXCEPT ![s] = NoOne]
      /\ role' = role
  BY DEF Accounts!LoginSucceeds, Accounts!StillAccepted, Accounts!Becomes
<1>2. n \in Names /\ account[n] \in Accounts!AccountTypes /\ AccountShapes /\ FailureLimit \in Nat \ {0}
  BY <1>1 DEF AccountsKnown, AccountShapes, Accounts!Taken, Accounts!AccountsAssumption
<1>3. /\ v \in Accounts!AccountTypes
      /\ v.admin = account[n].admin /\ v.disabled = account[n].disabled
      /\ v.role = account[n].role /\ v.email = account[n].email
      /\ v.version = account[n].version /\ v.failed = 0 /\ v.lock = "none"
  BY <1>2, UnlockedRecord
<1>4. proof = [name |-> n, version |-> v.version]
  BY <1>1, <1>3
<1> HIDE DEF n, proof, v
<1>5. entries' \in 0..MaxTrail /\ last'.action = "login"
  BY <1>1, TrailGrows
<1>6. sessions' \in Seq(proofs')
  <2>1. proofs \subseteq proofs' /\ proof \in proofs' /\ sessions \in Seq(proofs)
    BY <1>1, <1>2 DEF AccountShapes
  <2>2. sessions \in Seq(proofs')
    BY <2>1
  <2>3. Accounts!Issue(proof) \in Seq(proofs')
    BY <2>1, <2>2, IssuedSession
  <2> QED BY <1>1, <2>2, <2>3
<1>7. RestOfAccounts
  BY <1>1, <1>5, <1>6, LoginOver DEF RestOfAccounts
<1>8. /\ tried' \in [Names -> Nat] /\ \A m \in Names \ {n} : tried'[m] = tried[m]
      /\ tried'[n] = 0 /\ 0 <= FailureLimit /\ 0 < FailureLimit
  BY <1>1, <1>2 DEF AccountShapes
<1>9. v.version >= account[n].version /\ proofs' \subseteq proofs \cup {[name |-> n, version |-> v.version]}
  BY <1>1, <1>2, <1>3, <1>4 DEF Accounts!AccountTypes
<1>10. /\ AccountsKnown' /\ Accounts!AdminRemains /\ Accounts!RevokedStaysRevoked
       /\ \A m \in Names : Accounts!Effective(m)' = Accounts!Effective(m)
  BY <1>1, <1>3, <1>7, <1>8, <1>9, SameRights
<1> QED BY <1>5, <1>10, NothingGained DEF AccountsGoal, Accounts!AccountsSteps

LEMMA LockOver ==
    ASSUME Accounts!AccountsAssumption, AccountsKnown, NEW n \in Names, Accounts!LockExpires(n)
    PROVE  AccountsGoal
<1> DEFINE v == [account[n] EXCEPT !.lock = "expired"]
<1>1. /\ n \in Accounts!Taken /\ account' = [account EXCEPT ![n] = v]
      /\ role' = role /\ entries' = entries /\ verifying' = verifying /\ sessions' = sessions
      /\ proofs' = proofs /\ tried' = tried
  BY DEF Accounts!LockExpires, Accounts!Becomes, Accounts!audit
<1>2. account[n] \in Accounts!AccountTypes /\ AccountShapes
  BY <1>1 DEF AccountsKnown, AccountShapes, Accounts!Taken, Accounts!AccountsAssumption
<1>3. /\ v \in Accounts!AccountTypes
      /\ v.admin = account[n].admin /\ v.disabled = account[n].disabled
      /\ v.role = account[n].role /\ v.email = account[n].email
      /\ v.version = account[n].version /\ v.lock = "expired"
  BY <1>2, ExpiredRecord
<1> HIDE DEF v
<1>4. RestOfAccounts /\ tried' \in [Names -> Nat]
  BY <1>1, <1>2 DEF RestOfAccounts, AccountShapes
<1>5. tried'[n] <= FailureLimit
  BY <1>1 DEF AccountsKnown, TriesCounted
<1>6. v.version >= account[n].version
  BY <1>2, <1>3 DEF Accounts!AccountTypes
<1>7. /\ AccountsKnown' /\ Accounts!AdminRemains /\ Accounts!RevokedStaysRevoked
  BY <1>1, <1>3, <1>4, <1>5, <1>6, SameRights
<1>8. Accounts!NoEscalation
  BY <1>1 DEF Accounts!NoEscalation
<1> QED BY <1>7, <1>8 DEF AccountsGoal, Accounts!AccountsSteps

LEMMA SessionOver ==
    ASSUME Accounts!AccountsAssumption, AccountsKnown, NEW i \in DOMAIN sessions,
           Accounts!SessionEnds(i)
    PROVE  AccountsGoal
<1>1. /\ account' = account /\ role' = role /\ proofs' = proofs /\ tried' = tried
      /\ entries' = entries /\ verifying' = verifying
      /\ sessions' = Accounts!RemoveAt(sessions, i)
  BY DEF Accounts!SessionEnds, Accounts!data, Accounts!audit
<1>2. /\ sessions \in Seq(proofs) /\ entries' \in 0..MaxTrail
      /\ verifying' \in [Slots -> LoginTypes \cup {NoOne}]
  BY <1>1 DEF AccountsKnown, AccountShapes
<1>3. sessions' \in Seq(proofs)
  BY <1>1, <1>2, RemovedSession
<1> QED BY <1>1, <1>2, <1>3, NothingWritten

LEMMA LoggedOut ==
    ASSUME Accounts!AccountsAssumption, AccountsKnown, NEW p \in proofs, NEW everywhere \in BOOLEAN,
           Accounts!Logout(p, everywhere)
    PROVE  AccountsGoal
<1> DEFINE n == p.name
           action == IF everywhere THEN "logout_all" ELSE "logout"
<1>1. /\ Accounts!Valid(p) /\ Accounts!Audit(action, n, n)
      /\ role' = role /\ verifying' = verifying /\ proofs' = proofs /\ tried' = tried
  BY DEF Accounts!Logout
<1>2. /\ n \in Names /\ n \in Accounts!Taken /\ account[n] \in Accounts!AccountTypes
      /\ AccountShapes
  BY <1>1, ProofHolder DEF AccountsKnown
<1>3. action # "passwd"
  OBVIOUS
<1> HIDE DEF action
<1>4. entries' \in 0..MaxTrail /\ last'.action # "passwd"
  BY <1>1, <1>3, TrailGrows
<1>5. verifying' \in [Slots -> LoginTypes \cup {NoOne}] /\ sessions \in Seq(proofs)
  BY <1>1, <1>2 DEF AccountShapes
<1>6. CASE everywhere
  <2> DEFINE v == [account[n] EXCEPT !.version = @ + 1]
  <2>1. account' = [account EXCEPT ![n] = v] /\ sessions' = Accounts!Others(n)
    BY <1>6 DEF Accounts!Logout, Accounts!Becomes
  <2>2. /\ v \in Accounts!AccountTypes
        /\ v.admin = account[n].admin /\ v.disabled = account[n].disabled
        /\ v.role = account[n].role /\ v.email = account[n].email
        /\ v.version = account[n].version + 1
        /\ v.failed = account[n].failed /\ v.lock = account[n].lock
    BY <1>2, NewerRecord
  <2> HIDE DEF v, n
  <2>3. sessions' \in Seq(proofs')
    BY <1>1, <1>5, <2>1, OtherSessions
  <2>4. RestOfAccounts
    BY <1>1, <1>4, <1>5, <2>3 DEF RestOfAccounts
  <2>5. v.version >= account[n].version
    BY <1>2, <2>2 DEF Accounts!AccountTypes
  <2>6. /\ tried' \in [Names -> Nat] /\ \A m \in Names \ {n} : tried'[m] = tried[m]
        /\ tried'[n] <= FailureLimit
        /\ v.lock = "none" => tried'[n] = v.failed /\ tried'[n] < FailureLimit
    BY <1>1, <1>2, <2>2 DEF AccountsKnown, AccountShapes, TriesCounted
  <2>7. /\ AccountsKnown' /\ Accounts!AdminRemains /\ Accounts!RevokedStaysRevoked
        /\ \A m \in Names : Accounts!Effective(m)' = Accounts!Effective(m)
    BY <1>1, <1>2, <2>1, <2>2, <2>4, <2>5, <2>6, SameRights
  <2> QED BY <1>4, <2>7, NothingGained DEF AccountsGoal, Accounts!AccountsSteps
<1>7. CASE ~everywhere
  <2>1. /\ account' = account
        /\ \/ \E i \in DOMAIN sessions : sessions' = Accounts!RemoveAt(sessions, i)
           \/ sessions' = sessions
    BY <1>7 DEF Accounts!Logout
  <2>2. sessions' \in Seq(proofs)
    BY <1>5, <2>1, RemovedSession
  <2> QED BY <1>1, <1>4, <1>5, <2>1, <2>2, NothingWritten
<1> QED BY <1>6, <1>7

LEMMA AccountsInit == Accounts!AccountsAssumption /\ Accounts!Init => AccountsKnown
<1> SUFFICES ASSUME Accounts!AccountsAssumption, Accounts!Init
             PROVE  AccountsKnown
  OBVIOUS
<1>1. /\ verifying \in [Slots -> LoginTypes \cup {NoOne}] /\ sessions \in Seq(proofs)
      /\ tried \in [Names -> Nat] /\ \A n \in Names : tried[n] = 0
  BY DEF Accounts!Init
<1>2. CASE Accounts!EmptyInit
  <2>1. Accounts!Taken = {}
    BY <1>2 DEF Accounts!EmptyInit, Accounts!Taken
  <2>2. role \in [Roles -> (SUBSET Accounts!Permissions) \cup {NoRole}]
    BY <1>2 DEF Accounts!EmptyInit, Accounts!DefaultRoles, Accounts!Permissions
  <2>3. AccountShapes
    BY <1>1, <1>2, <2>2 DEF Accounts!EmptyInit, AccountShapes, Accounts!AccountsAssumption
  <2>4. ProofsKnown /\ TriesCounted
    BY <1>1, <1>2, <2>1 DEF Accounts!EmptyInit, ProofsKnown, TriesCounted
  <2>5. Accounts!KeysAreUnambiguous /\ Accounts!RolesExist
    BY <2>1 DEF Accounts!KeysAreUnambiguous, Accounts!RolesExist
  <2> QED BY <2>3, <2>4, <2>5 DEF AccountsKnown
<1>3. CASE Accounts!EstablishedInit
  <2>1. PICK old \in Established : /\ account = old.account /\ role = old.role
                                 /\ entries = old.entries /\ proofs = old.proofs
    BY <1>3 DEF Accounts!EstablishedInit
  <2>2. AccountShapes
    BY <1>1, <2>1 DEF AccountShapes, Accounts!AccountsAssumption
  <2>3. ProofsKnown
    BY <1>3 DEF Accounts!EstablishedInit, ProofsKnown
  <2>4. TriesCounted
    <3>1. \A n \in Accounts!Taken : account[n].failed = 0 /\ account[n].lock = "none"
      BY <1>3 DEF Accounts!EstablishedInit
    <3>2. FailureLimit \in Nat \ {0}
      BY DEF Accounts!AccountsAssumption
    <3> QED BY <1>1, <3>1, <3>2 DEF TriesCounted
  <2>5. Accounts!KeysAreUnambiguous /\ Accounts!RolesExist
    BY <1>3 DEF Accounts!EstablishedInit
  <2> QED BY <2>2, <2>3, <2>4, <2>5 DEF AccountsKnown
<1> QED BY <1>2, <1>3 DEF Accounts!Init

LEMMA ByProofKept ==
    ASSUME Accounts!AccountsAssumption, AccountsKnown, NEW p \in proofs, Accounts!ByProof(p)
    PROVE  AccountsGoal
<1>1. CASE \E n \in Names : Accounts!AddBy(p, n)
  BY <1>1, AddKept
<1>2. CASE \E n \in Names : Accounts!SetPasswordBy(p, n)
  BY <1>2, SetPasswordKept
<1>3. CASE \E n \in Names, value \in BOOLEAN : Accounts!SetDisabledBy(p, n, value)
  BY <1>3, SetDisabledKept
<1>4. CASE \E n \in Names : Accounts!UnlockBy(p, n)
  BY <1>4, UnlockKept
<1>5. CASE \E n \in Names, r \in Roles \cup {"admin"}, disabled \in BOOLEAN,
              email \in Addresses \cup {NoOne} : Accounts!EditUser(p, n, r, disabled, email)
  BY <1>5, EditKept
<1>6. CASE \E r \in Roles, permissions \in SUBSET Accounts!Permissions :
              Accounts!SaveRole(p, r, permissions)
  BY <1>6, RoleKept
<1>7. CASE \E r \in Roles : Accounts!DeleteRole(p, r)
  BY <1>7, RoleKept
<1>8. CASE \E everywhere \in BOOLEAN : Accounts!Logout(p, everywhere)
  BY <1>8, LoggedOut
<1> QED BY <1>1, <1>2, <1>3, <1>4, <1>5, <1>6, <1>7, <1>8 DEF Accounts!ByProof

LEMMA AccountsStep ==
    ASSUME Accounts!AccountsAssumption, AccountsKnown, [Accounts!Next]_(Accounts!vars)
    PROVE  AccountsGoal
<1>1. CASE UNCHANGED Accounts!vars
  <2>1. /\ account' = account /\ role' = role /\ proofs' = proofs /\ tried' = tried
        /\ entries' = entries /\ verifying' = verifying /\ sessions' = sessions
    BY <1>1 DEF Accounts!vars, Accounts!data, Accounts!audit
  <2>2. /\ entries' \in 0..MaxTrail /\ sessions' \in Seq(proofs)
        /\ verifying' \in [Slots -> LoginTypes \cup {NoOne}]
    BY <2>1 DEF AccountsKnown, AccountShapes
  <2> QED BY <2>1, <2>2, NothingWritten
<1>2. CASE Accounts!Next
  <2>1. CASE \E n \in Names : Accounts!AddLocal(n) \/ Accounts!Bootstrap(n)
    BY <2>1, AddKept
  <2>2. CASE \E n \in Names : Accounts!SetPasswordLocal(n)
    BY <2>2, SetPasswordKept
  <2>3. CASE \E n \in Names, value \in BOOLEAN : Accounts!SetDisabledLocal(n, value)
    BY <2>3, SetDisabledKept
  <2>4. CASE \E n \in Names : Accounts!UnlockLocal(n)
    BY <2>4, UnlockKept
  <2>5. CASE \E p \in proofs : Accounts!ByProof(p)
    BY <2>5, ByProofKept
  <2>6. CASE \E s \in Slots, n \in Names : Accounts!LoginBegins(s, n)
    BY <2>6, LoginBegun
  <2>7. CASE \E s \in Slots : Accounts!LoginRefused(s)
    BY <2>7, LoginRefusal
  <2>8. CASE \E s \in Slots : Accounts!LoginFails(s)
    BY <2>8, LoginFailure
  <2>9. CASE \E s \in Slots : Accounts!LoginSucceeds(s)
    BY <2>9, LoginSuccess
  <2>10. CASE \E n \in Names : Accounts!LockExpires(n)
    BY <2>10, LockOver
  <2>11. CASE \E i \in DOMAIN sessions : Accounts!SessionEnds(i)
    BY <2>11, SessionOver
  <2> QED BY <1>2, <2>1, <2>2, <2>3, <2>4, <2>5, <2>6, <2>7, <2>8, <2>9, <2>10, <2>11 DEF Accounts!Next
<1> QED BY <1>1, <1>2

LEMMA AccountsKnownGives ==
    ASSUME Accounts!AccountsAssumption, AccountsKnown
    PROVE  Accounts!AccountsInv
<1>1. Accounts!TypeOK
  <2>1. Accounts!Range(sessions) \subseteq proofs
    BY DEF AccountsKnown, AccountShapes, Accounts!Range
  <2> QED BY <2>1 DEF AccountsKnown, AccountShapes, Accounts!TypeOK
<1>2. Accounts!GuessesAreBounded
  <2>1. FailureLimit \in Nat
    BY DEF Accounts!AccountsAssumption
  <2>2. \A n \in Names : tried[n] = 0 \/ tried[n] <= FailureLimit
    BY DEF AccountsKnown, TriesCounted
  <2> QED BY <2>1, <2>2 DEF Accounts!GuessesAreBounded
<1> QED BY <1>1, <1>2 DEF AccountsKnown, Accounts!AccountsInv

\* Whatever logins, edits and logouts interleave: names and addresses tell accounts apart, no
\* account keeps a role that is gone, nobody guesses more than the limit of passwords before
\* an unlock; and no step takes the last enabled administrator away, makes a proof valid again
\* that was refused, or gives an account more permissions than whoever acts has.
THEOREM AccountsCorrect ==
    Accounts!AccountsAssumption /\ Accounts!Spec =>
        /\ []Accounts!AccountsInv
        /\ [][Accounts!AccountsSteps]_(Accounts!vars)
<1> SUFFICES ASSUME Accounts!AccountsAssumption
             PROVE  Accounts!Spec =>
                        /\ []Accounts!AccountsInv
                        /\ [][Accounts!AccountsSteps]_(Accounts!vars)
  OBVIOUS
<1>1. Accounts!Init => AccountsKnown
  BY AccountsInit
<1>2. AccountsKnown /\ [Accounts!Next]_(Accounts!vars) => AccountsKnown'
  BY AccountsStep DEF AccountsGoal
<1>3. AccountsKnown /\ [Accounts!Next]_(Accounts!vars) => [Accounts!AccountsSteps]_(Accounts!vars)
  BY AccountsStep DEF AccountsGoal
<1>4. AccountsKnown => Accounts!AccountsInv
  BY AccountsKnownGives
<1> QED BY <1>1, <1>2, <1>3, <1>4, PTL DEF Accounts!Spec
-----------------------------------------------------------------------------
(* The account file. *)

Contents == [tables : SUBSET {"user", "meta"}, id : Nat, seeded : BOOLEAN, roles : SUBSET SeededRoles]

FileShapes ==
    /\ files \in Seq(Contents) /\ Len(files) <= MaxInodes /\ path \in 0..Len(files)
    /\ lock \in Handles \cup {NoHandle}
    /\ opening \in [Handles -> {"idle", "lock", "open", "connect", "schema", "migrate", "commit"}]
    /\ opened \in [Handles -> 0..Len(files)] /\ found \in [Handles -> BOOLEAN]
    /\ id \in [Handles -> Nat] /\ next \in Nat
    /\ deleted \in [1..MaxInodes -> SUBSET SeededRoles]

\* Identifiers are drawn once.
IdsDrawn == next > 0 /\ (\A i \in DOMAIN files : files[i].id < next) /\ \A h \in Handles : id[h] < next

\* Roles are there, and can be deleted, only after they were seeded.
SeededOnce ==
    /\ \A i \in DOMAIN files :
           /\ ~files[i].seeded => files[i].roles = {} /\ deleted[i] = {}
           /\ files[i].roles \cap deleted[i] = {}
    /\ \A i \in 1..MaxInodes : i > Len(files) => deleted[i] = {}

\* A handle that is past the check of its connection is on a file, and on its store.
HandlesKnow ==
    \A h \in Handles :
        /\ opening[h] \in {"connect", "schema", "migrate", "commit"} => opened[h] # 0
        /\ opening[h] \in {"schema", "migrate", "commit"} /\ id[h] # 0 => files[opened[h]].id = id[h]

FileKnows == FileShapes /\ IdsDrawn /\ SeededOnce /\ HandlesKnow

\* A file keeps its identifier, and an earlier file stays.
FilesKeep == \A i \in DOMAIN files : i \in DOMAIN files' /\ (files[i].id # 0 => files'[i].id = files[i].id)

\* A step that touches no file.
LEMMA FilesStay ==
    ASSUME FileKnows, files' = files, deleted' = deleted, next' = next,
           path' \in 0..Len(files), lock' \in Handles \cup {NoHandle},
           opening' \in [Handles -> {"idle", "lock", "open", "connect", "schema", "migrate", "commit"}],
           opened' \in [Handles -> 0..Len(files)], found' \in [Handles -> BOOLEAN],
           id' \in [Handles -> Nat], \A h \in Handles : id'[h] < next,
           HandlesKnow'
    PROVE  FileKnows' /\ FilesKeep
BY DEF FileKnows, FileShapes, IdsDrawn, SeededOnce, FilesKeep

\* One handle goes elsewhere, and is known to be right there.
LEMMA HandleGoes ==
    ASSUME FileKnows, NEW h \in Handles,
           NEW place \in {"idle", "lock", "open", "connect", "schema", "migrate", "commit"},
           opening' = [opening EXCEPT ![h] = place],
           files' = files, \A g \in Handles \ {h} : opened'[g] = opened[g] /\ id'[g] = id[g],
           place \in {"connect", "schema", "migrate", "commit"} => opened'[h] # 0,
           place \in {"schema", "migrate", "commit"} /\ id'[h] # 0 => files[opened'[h]].id = id'[h]
    PROVE  /\ HandlesKnow'
           /\ opening' \in [Handles -> {"idle", "lock", "open", "connect", "schema", "migrate", "commit"}]
<1>1. opening' \in [Handles -> {"idle", "lock", "open", "connect", "schema", "migrate", "commit"}]
  BY DEF FileKnows, FileShapes
<1>2. opening'[h] = place /\ \A g \in Handles \ {h} : opening'[g] = opening[g]
  BY DEF FileKnows, FileShapes
<1> QED BY <1>1, <1>2 DEF FileKnows, HandlesKnow

\* The content of the file a handle works on.
LEMMA OpenedFile ==
    ASSUME FileKnows, NEW h \in Handles, opening[h] \in {"connect", "schema", "migrate", "commit"}
    PROVE  /\ opened[h] \in DOMAIN files /\ opened[h] \in Nat
           /\ AccountFile!Opened(h) = files[opened[h]]
           /\ AccountFile!Opened(h) \in Contents
<1>1. opened[h] \in 0..Len(files) /\ opened[h] # 0 /\ files \in Seq(Contents)
  BY DEF FileKnows, FileShapes, HandlesKnow
<1>2. opened[h] \in DOMAIN files
  BY <1>1
<1> QED BY <1>1, <1>2 DEF AccountFile!Opened

\* What a step may write into a file: its identifier stays, roles that were deleted do not
\* come back, and the handles on it find the store they know.
LEMMA FileWritten ==
    ASSUME AccountFile!AccountFileAssumption, FileKnows, NEW i \in DOMAIN files, NEW content \in Contents,
           files' = [files EXCEPT ![i] = content],
           content.id = files[i].id \/ (files[i].id = 0 /\ content.id < next'),
           next' \in Nat, next' >= next,
           deleted' \in [1..MaxInodes -> SUBSET SeededRoles],
           \A j \in 1..MaxInodes : j # i => deleted'[j] = deleted[j],
           content.roles \cap deleted'[i] = {},
           ~content.seeded => content.roles = {} /\ deleted'[i] = {},
           path' = path, opened' = opened, found' = found,
           lock' \in Handles \cup {NoHandle},
           opening' \in [Handles -> {"idle", "lock", "open", "connect", "schema", "migrate", "commit"}],
           id' \in [Handles -> Nat], \A h \in Handles : id'[h] < next',
           \A h \in Handles :
               opening'[h] \in {"connect", "schema", "migrate", "commit"} =>
                   opening[h] \in {"connect", "schema", "migrate", "commit"} /\ id'[h] = id[h]
                   /\ (opening'[h] \in {"schema", "migrate", "commit"} => opening[h] \in {"schema", "migrate", "commit"})
    PROVE  FileKnows' /\ FilesKeep
<1>1. /\ files \in Seq(Contents) /\ Len(files) <= MaxInodes /\ next \in Nat /\ next > 0
      /\ i \in 1..Len(files) /\ Len(files) \in Nat /\ MaxInodes \in Nat
      /\ \A j \in DOMAIN files : files[j].id < next /\ files[j] \in Contents
  BY DEF FileKnows, FileShapes, IdsDrawn, AccountFile!AccountFileAssumption
<1>2. /\ files' \in Seq(Contents) /\ Len(files') = Len(files) /\ DOMAIN files' = DOMAIN files
      /\ files'[i] = content /\ \A j \in DOMAIN files : j # i => files'[j] = files[j]
  BY <1>1
<1>3. FileShapes'
  BY <1>1, <1>2 DEF FileKnows, FileShapes
<1>4. IdsDrawn'
  <2>1. \A j \in DOMAIN files : files'[j].id < next'
    <3> SUFFICES ASSUME NEW j \in DOMAIN files PROVE files'[j].id < next'
      OBVIOUS
    <3>1. files[j].id < next /\ files[j].id \in Nat
      BY <1>1 DEF Contents
    <3>2. CASE j # i
      BY <1>1, <1>2, <3>1, <3>2
    <3>3. CASE j = i
      BY <1>1, <1>2, <3>1, <3>3
    <3> QED BY <3>2, <3>3
  <2>2. next' > 0
    BY <1>1
  <2> QED BY <1>2, <2>1, <2>2 DEF IdsDrawn
<1>5. SeededOnce'
  <2>1. ASSUME NEW j \in DOMAIN files
        PROVE  /\ ~files'[j].seeded => files'[j].roles = {} /\ deleted'[j] = {}
               /\ files'[j].roles \cap deleted'[j] = {}
    <3>1. CASE j = i
      BY <1>2, <3>1
    <3>2. CASE j # i
      <4>1. j \in 1..MaxInodes
        BY <1>1
      <4> QED BY <1>2, <3>2, <4>1 DEF FileKnows, SeededOnce
    <3> QED BY <3>1, <3>2
  <2>2. \A j \in 1..MaxInodes : j > Len(files') => deleted'[j] = {}
    BY <1>1, <1>2 DEF FileKnows, SeededOnce
  <2> QED BY <1>2, <2>1, <2>2 DEF SeededOnce
<1>6. HandlesKnow'
  <2> SUFFICES ASSUME NEW h \in Handles
               PROVE  /\ opening'[h] \in {"connect", "schema", "migrate", "commit"} => opened'[h] # 0
                      /\ opening'[h] \in {"schema", "migrate", "commit"} /\ id'[h] # 0 =>
                             files'[opened'[h]].id = id'[h]
    BY DEF HandlesKnow
  <2>1. opening'[h] \in {"connect", "schema", "migrate", "commit"} => opened'[h] # 0
    BY DEF FileKnows, HandlesKnow
  <2>2. CASE opening'[h] \in {"schema", "migrate", "commit"} /\ id'[h] # 0
    <3>1. opening[h] \in {"schema", "migrate", "commit"} /\ id'[h] = id[h]
      BY <2>2
    <3>2. files[opened[h]].id = id[h] /\ opened[h] \in DOMAIN files
      BY <2>2, <3>1, OpenedFile DEF FileKnows, HandlesKnow
    <3>3. files'[opened[h]].id = files[opened[h]].id
      <4>1. CASE opened[h] = i
        BY <1>2, <2>2, <3>1, <3>2, <4>1
      <4>2. CASE opened[h] # i
        BY <1>2, <3>2, <4>2
      <4> QED BY <4>1, <4>2
    <3> QED BY <2>1, <3>1, <3>2, <3>3
  <2> QED BY <2>1, <2>2
<1>7. FilesKeep
  BY <1>2 DEF FilesKeep
<1> QED BY <1>3, <1>4, <1>5, <1>6, <1>7 DEF FileKnows

\* A new file at the path.
LEMMA FileAppears ==
    ASSUME FileKnows, NEW content \in Contents, AccountFile!NewFile(content),
           AccountFile!AccountFileAssumption, content.id < next', next' \in Nat, next' >= next, deleted' = deleted,
           ~content.seeded => content.roles = {}
    PROVE  /\ files' \in Seq(Contents) /\ Len(files') = Len(files) + 1 /\ Len(files') <= MaxInodes
           /\ path' = Len(files') /\ DOMAIN files \subseteq DOMAIN files'
           /\ \A j \in DOMAIN files : files'[j] = files[j]
           /\ SeededOnce' /\ FilesKeep
           /\ \A j \in DOMAIN files' : files'[j].id < next'
<1>1. /\ files \in Seq(Contents) /\ Len(files) < MaxInodes /\ MaxInodes \in Nat /\ Len(files) \in Nat
      /\ files' = Append(files, content) /\ path' = Len(files) + 1
      /\ next \in Nat /\ \A j \in DOMAIN files : files[j].id < next /\ files[j] \in Contents
  BY DEF AccountFile!NewFile, FileKnows, FileShapes, IdsDrawn, AccountFile!AccountFileAssumption
<1>2. /\ files' \in Seq(Contents) /\ Len(files') = Len(files) + 1 /\ Len(files') <= MaxInodes
      /\ DOMAIN files = 1..Len(files) /\ DOMAIN files' = 1..(Len(files) + 1)
      /\ files'[Len(files) + 1] = content /\ \A j \in DOMAIN files : files'[j] = files[j]
  BY <1>1
<1>3. DOMAIN files' = DOMAIN files \cup {Len(files) + 1} /\ Len(files) + 1 \in 1..MaxInodes
  BY <1>1, <1>2
<1>4. SeededOnce'
  <2>1. deleted[Len(files) + 1] = {}
    <3>1. Len(files) + 1 > Len(files)
      BY <1>1
    <3> QED BY <1>3, <3>1 DEF FileKnows, SeededOnce
  <2>2. \A j \in DOMAIN files' :
            /\ ~files'[j].seeded => files'[j].roles = {} /\ deleted[j] = {}
            /\ files'[j].roles \cap deleted[j] = {}
    BY <1>2, <1>3, <2>1 DEF FileKnows, SeededOnce
  <2>3. \A j \in 1..MaxInodes : j > Len(files') => deleted[j] = {}
    BY <1>1, <1>2 DEF FileKnows, SeededOnce
  <2> QED BY <2>2, <2>3 DEF SeededOnce
<1>5. \A j \in DOMAIN files' : files'[j].id < next'
  <2> SUFFICES ASSUME NEW j \in DOMAIN files' PROVE files'[j].id < next'
    OBVIOUS
  <2>1. CASE j \in DOMAIN files
    <3>1. files[j].id \in Nat /\ files[j].id < next
      BY <1>1, <2>1 DEF Contents
    <3> QED BY <1>1, <1>2, <2>1, <3>1
  <2>2. CASE j = Len(files) + 1
    BY <1>2, <2>2
  <2> QED BY <1>3, <2>1, <2>2
<1>6. FilesKeep
  BY <1>2, <1>3 DEF FilesKeep
<1> QED BY <1>1, <1>2, <1>3, <1>4, <1>5, <1>6

\* What is proved of every step.
FileGoal == FileKnows' /\ AccountFile!IdentityIsFinal

LEMMA KeptIsFinal ==
    ASSUME FileKnows', FilesKeep
    PROVE  FileGoal
BY DEF FileGoal, FilesKeep, AccountFile!IdentityIsFinal

LEMMA FileShown ==
    ASSUME FileKnows
    PROVE  /\ files \in Seq(Contents) /\ path \in 0..Len(files) /\ next \in Nat
           /\ lock \in Handles \cup {NoHandle} /\ opened \in [Handles -> 0..Len(files)]
           /\ opening \in [Handles -> {"idle", "lock", "open", "connect", "schema", "migrate", "commit"}]
           /\ found \in [Handles -> BOOLEAN] /\ id \in [Handles -> Nat]
           /\ \A h \in Handles : id[h] < next
           /\ 0 \in 0..Len(files)
BY DEF FileKnows, FileShapes, IdsDrawn

LEMMA InitializeKept ==
    ASSUME FileKnows, NEW h \in Handles, AccountFile!Initialize(h)
    PROVE  FileGoal
<1>1. PICK place \in {"lock", "open"} : opening' = [opening EXCEPT ![h] = place]
  BY DEF AccountFile!Initialize, AccountFile!Goes
<1>2. UNCHANGED <<path, files, lock, opened, found, id, next, deleted>>
  BY DEF AccountFile!Initialize
<1>3. /\ HandlesKnow'
      /\ opening' \in [Handles -> {"idle", "lock", "open", "connect", "schema", "migrate", "commit"}]
  BY <1>1, <1>2, HandleGoes
<1> QED BY <1>2, <1>3, FileShown, FilesStay, KeptIsFinal

LEMMA TakeLockKept ==
    ASSUME FileKnows, NEW h \in Handles, AccountFile!TakeLock(h)
    PROVE  FileGoal
<1>1. /\ opening' = [opening EXCEPT ![h] = "open"] /\ lock' = h
      /\ UNCHANGED <<path, files, opened, found, id, next, deleted>>
  BY DEF AccountFile!TakeLock, AccountFile!Goes
<1>2. /\ HandlesKnow'
      /\ opening' \in [Handles -> {"idle", "lock", "open", "connect", "schema", "migrate", "commit"}]
  BY <1>1, HandleGoes
<1> QED BY <1>1, <1>2, FileShown, FilesStay, KeptIsFinal

\* The file is there already, or is created and opened.
LEMMA OpenKept ==
    ASSUME AccountFile!AccountFileAssumption, FileKnows, NEW h \in Handles, AccountFile!Open(h)
    PROVE  FileGoal
<1>1. opening[h] = "open" /\ UNCHANGED <<lock, found, id, next, deleted>>
  BY DEF AccountFile!Open
<1>2. CASE opening' = [opening EXCEPT ![h] = "lock"] /\ UNCHANGED <<path, files, opened>>
  <2>1. /\ HandlesKnow'
        /\ opening' \in [Handles -> {"idle", "lock", "open", "connect", "schema", "migrate", "commit"}]
    BY <1>1, <1>2, HandleGoes
  <2> QED BY <1>1, <1>2, <2>1, FileShown, FilesStay, KeptIsFinal
<1>3. CASE /\ opening' = [opening EXCEPT ![h] = "connect"] /\ opened' = [opened EXCEPT ![h] = path']
           /\ path # 0 /\ UNCHANGED <<path, files>>
  <2>1. /\ opened' \in [Handles -> 0..Len(files)] /\ opened'[h] # 0
        /\ \A g \in Handles \ {h} : opened'[g] = opened[g] /\ id'[g] = id[g]
    BY <1>1, <1>3, FileShown
  <2>2. /\ HandlesKnow'
        /\ opening' \in [Handles -> {"idle", "lock", "open", "connect", "schema", "migrate", "commit"}]
    BY <1>3, <2>1, HandleGoes
  <2> QED BY <1>1, <1>3, <2>1, <2>2, FileShown, FilesStay, KeptIsFinal
<1>4. CASE /\ opening' = [opening EXCEPT ![h] = "connect"] /\ opened' = [opened EXCEPT ![h] = path']
           /\ AccountFile!NewFile(AccountFile!Empty)
  <2>1. AccountFile!Empty \in Contents /\ AccountFile!Empty.roles = {} /\ AccountFile!Empty.id = 0
    BY DEF AccountFile!Empty, Contents
  <2>2. next' = next /\ next \in Nat /\ next > 0 /\ next >= next /\ deleted' = deleted
    BY <1>1, FileShown DEF FileKnows, IdsDrawn
  <2>3. /\ files' \in Seq(Contents) /\ Len(files') = Len(files) + 1 /\ Len(files') <= MaxInodes
        /\ path' = Len(files') /\ DOMAIN files \subseteq DOMAIN files'
        /\ \A j \in DOMAIN files : files'[j] = files[j]
        /\ SeededOnce' /\ FilesKeep
        /\ \A j \in DOMAIN files' : files'[j].id < next'
    <3>1. AccountFile!Empty.id < next'
      BY <2>1, <2>2
    <3> QED BY <1>4, <2>1, <2>2, <3>1, FileAppears
  <2>4. Len(files) \in Nat /\ Len(files') \in Nat /\ path' \in 0..Len(files') /\ path' # 0
        /\ 0..Len(files) \subseteq 0..Len(files')
    BY <2>3, FileShown
  <2>5. /\ opened' \in [Handles -> 0..Len(files')] /\ opened'[h] # 0
        /\ \A g \in Handles \ {h} : opened'[g] = opened[g] /\ opening'[g] = opening[g]
        /\ opening' \in [Handles -> {"idle", "lock", "open", "connect", "schema", "migrate", "commit"}]
        /\ opening'[h] = "connect"
    BY <1>4, <2>4, FileShown
  <2>6. FileShapes'
    BY <1>1, <2>2, <2>3, <2>4, <2>5 DEF FileKnows, FileShapes
  <2>7. IdsDrawn'
    BY <1>1, <2>2, <2>3 DEF FileKnows, IdsDrawn
  <2>8. HandlesKnow'
    <3> SUFFICES ASSUME NEW g \in Handles
                 PROVE  /\ opening'[g] \in {"connect", "schema", "migrate", "commit"} => opened'[g] # 0
                        /\ opening'[g] \in {"schema", "migrate", "commit"} /\ id'[g] # 0 =>
                               files'[opened'[g]].id = id'[g]
      BY DEF HandlesKnow
    <3>1. CASE g = h
      BY <2>5, <3>1
    <3>2. CASE g # h
      <4>1. opening'[g] = opening[g] /\ opened'[g] = opened[g] /\ id'[g] = id[g]
        BY <1>1, <2>5, <3>2
      <4>2. CASE opening[g] \in {"schema", "migrate", "commit"}
        <5>1. opened[g] \in DOMAIN files
          BY <4>2, OpenedFile
        <5> QED BY <2>3, <4>1, <5>1 DEF FileKnows, HandlesKnow
      <4>3. CASE opening[g] \notin {"schema", "migrate", "commit"}
        BY <4>1, <4>3 DEF FileKnows, HandlesKnow
      <4> QED BY <4>2, <4>3
    <3> QED BY <3>1, <3>2
  <2> QED BY <2>3, <2>6, <2>7, <2>8, KeptIsFinal DEF FileKnows
<1> QED BY <1>2, <1>3, <1>4 DEF AccountFile!Open, AccountFile!Goes

\* initialize ends for one handle.
LEMMA EndsGoes ==
    ASSUME FileKnows, NEW h \in Handles, AccountFile!Ends(h)
    PROVE  /\ opening' = [opening EXCEPT ![h] = "idle"] /\ opening'[h] = "idle"
           /\ \A g \in Handles \ {h} : opening'[g] = opening[g]
           /\ opening' \in [Handles -> {"idle", "lock", "open", "connect", "schema", "migrate", "commit"}]
           /\ lock' \in Handles \cup {NoHandle}
BY FileShown DEF AccountFile!Ends, AccountFile!Goes

\* Nobody passes the check of a connection on another store than theirs.
LEMMA ConnectKept ==
    ASSUME AccountFile!AccountFileAssumption, FileKnows, NEW h \in Handles, AccountFile!Connect(h)
    PROVE  FileGoal
<1> DEFINE content == AccountFile!Opened(h)
           new == IF content.id # 0 THEN content.id ELSE id[h]
<1>1. opening[h] = "connect" /\ UNCHANGED <<path, files, opened, found, next, deleted>>
  BY DEF AccountFile!Connect
<1>2. CASE AccountFile!Ends(h) /\ id' = id
  <2>1. HandlesKnow'
    BY <1>1, <1>2, EndsGoes, HandleGoes
  <2> QED BY <1>1, <1>2, <2>1, EndsGoes, FileShown, FilesStay, KeptIsFinal
<1>3. CASE /\ AccountFile!Accepts(h, content, TRUE) /\ opening' = [opening EXCEPT ![h] = "schema"]
           /\ AccountFile!Reads(h, content) /\ lock' = lock
  <2>1. opened[h] \in DOMAIN files /\ opened[h] # 0 /\ content = files[opened[h]] /\ content \in Contents
    BY <1>1, OpenedFile DEF FileKnows, HandlesKnow
  <2>2. content.id \in Nat /\ content.id < next /\ id[h] \in Nat /\ id[h] < next
    BY <2>1, FileShown DEF FileKnows, IdsDrawn, Contents
  <2>3. id' = [id EXCEPT ![h] = new] /\ new \in Nat /\ new < next
    BY <1>3, <2>2 DEF AccountFile!Reads
  <2>4. new # 0 => content.id = new
    BY <1>3, <2>2 DEF AccountFile!Accepts
  <2> HIDE DEF content, new
  <2>5. /\ id' \in [Handles -> Nat] /\ id'[h] = new /\ \A g \in Handles : id'[g] < next
        /\ \A g \in Handles \ {h} : opened'[g] = opened[g] /\ id'[g] = id[g]
    BY <1>1, <2>3, FileShown
  <2>6. /\ HandlesKnow'
        /\ opening' \in [Handles -> {"idle", "lock", "open", "connect", "schema", "migrate", "commit"}]
    <3>1. files[opened'[h]].id = content.id /\ opened'[h] # 0
      BY <1>1, <2>1
    <3> QED BY <1>1, <1>3, <2>4, <2>5, <3>1, HandleGoes
  <2> QED BY <1>1, <1>3, <2>5, <2>6, FileShown, FilesStay, KeptIsFinal
<1> QED BY <1>2, <1>3 DEF AccountFile!Connect, AccountFile!Goes

LEMMA SchemaKept ==
    ASSUME AccountFile!AccountFileAssumption, FileKnows, NEW h \in Handles, AccountFile!Schema(h)
    PROVE  FileGoal
<1> DEFINE i == opened[h]
<1>1. opening[h] = "schema" /\ UNCHANGED <<path, lock, opened, found, id, next, deleted>>
  BY DEF AccountFile!Schema
<1>2. i \in DOMAIN files /\ AccountFile!Opened(h) = files[i] /\ files[i] \in Contents /\ i \in 1..MaxInodes
  <2>1. i \in DOMAIN files /\ AccountFile!Opened(h) = files[i] /\ files[i] \in Contents
    BY <1>1, OpenedFile
  <2>2. Len(files) <= MaxInodes /\ MaxInodes \in Nat /\ files \in Seq(Contents)
    BY DEF FileKnows, FileShapes, AccountFile!AccountFileAssumption
  <2> QED BY <2>1, <2>2
<1>3. PICK tables \in SUBSET {"user", "meta"}, place \in {"schema", "migrate"} :
        /\ files' = [files EXCEPT ![i] = [files[i] EXCEPT !.tables = tables]]
        /\ opening' = [opening EXCEPT ![h] = place]
  <2>1. files[i].tables \cup {"user"} \in SUBSET {"user", "meta"}
    BY <1>2 DEF Contents
  <2>2. opening = [opening EXCEPT ![h] = "schema"]
    BY <1>1, FileShown
  <2>3. CASE "user" \notin AccountFile!Opened(h).tables
    <3>1. /\ files' = [files EXCEPT ![i] = [files[i] EXCEPT !.tables = files[i].tables \cup {"user"}]]
          /\ opening' = opening
      BY <1>2, <2>3 DEF AccountFile!Schema, AccountFile!Write
    <3> QED BY <2>1, <2>2, <3>1
  <2>4. CASE "user" \in AccountFile!Opened(h).tables
    BY <1>2, <2>4 DEF AccountFile!Schema, AccountFile!Write, AccountFile!Goes
  <2> QED BY <2>3, <2>4
<1> DEFINE content == [files[i] EXCEPT !.tables = tables]
<1>4. /\ content \in Contents /\ content.id = files[i].id
      /\ content.roles = files[i].roles /\ content.seeded = files[i].seeded
  BY <1>2 DEF Contents
<1>5. files' = [files EXCEPT ![i] = content]
  BY <1>3
<1> HIDE DEF content, i
<1>6. content.roles \cap deleted[i] = {} /\ (~content.seeded => content.roles = {} /\ deleted[i] = {})
  BY <1>2, <1>4 DEF FileKnows, SeededOnce
<1>7. /\ opening'[h] \in {"schema", "migrate"} /\ \A g \in Handles \ {h} : opening'[g] = opening[g]
      /\ opening' \in [Handles -> {"idle", "lock", "open", "connect", "schema", "migrate", "commit"}]
  BY <1>3, FileShown
<1>8. /\ \A g \in Handles :
             opening'[g] \in {"connect", "schema", "migrate", "commit"} =>
                 opening[g] \in {"connect", "schema", "migrate", "commit"} /\ id'[g] = id[g]
                 /\ (opening'[g] \in {"schema", "migrate", "commit"} => opening[g] \in {"schema", "migrate", "commit"})
  BY <1>1, <1>7
<1>9. next' \in Nat /\ next' >= next /\ deleted' \in [1..MaxInodes -> SUBSET SeededRoles]
  BY <1>1 DEF FileKnows, FileShapes
<1>10. /\ lock' \in Handles \cup {NoHandle} /\ id' \in [Handles -> Nat]
       /\ \A g \in Handles : id'[g] < next'
  BY <1>1, FileShown
<1> QED BY <1>1, <1>2, <1>4, <1>5, <1>6, <1>7, <1>8, <1>9, <1>10, FileWritten, KeptIsFinal

LEMMA MigrateChecksKept ==
    ASSUME FileKnows, NEW h \in Handles, AccountFile!MigrateChecks(h)
    PROVE  FileGoal
<1>1. /\ opening[h] = "migrate" /\ opening' = [opening EXCEPT ![h] = "commit"]
      /\ found' = [found EXCEPT ![h] = AccountFile!Opened(h).seeded]
      /\ UNCHANGED <<path, files, lock, opened, id, next, deleted>>
  BY DEF AccountFile!MigrateChecks, AccountFile!Goes
<1>2. opened[h] # 0 /\ (id[h] # 0 => files[opened[h]].id = id[h])
  BY <1>1 DEF FileKnows, HandlesKnow
<1>3. /\ HandlesKnow'
      /\ opening' \in [Handles -> {"idle", "lock", "open", "connect", "schema", "migrate", "commit"}]
  BY <1>1, <1>2, HandleGoes
<1>4. found' \in [Handles -> BOOLEAN]
  <2>1. AccountFile!Opened(h).seeded \in BOOLEAN
    BY <1>1, OpenedFile DEF Contents
  <2> QED BY <1>1, <2>1, FileShown
<1> QED BY <1>1, <1>3, <1>4, FileShown, FilesStay, KeptIsFinal

\* Two migrations of one file: the second finds the mark of the first, and changes nothing.
LEMMA CommitKept ==
    ASSUME AccountFile!AccountFileAssumption, FileKnows, NEW h \in Handles, AccountFile!Commit(h)
    PROVE  FileGoal
<1> DEFINE i == opened[h]
           store == AccountFile!StoreId(files[i])
           roles == IF found[h] THEN files[i].roles ELSE files[i].roles \cup SeededRoles
           content == [files[i] EXCEPT !.seeded = TRUE, !.id = store, !.roles = roles]
<1>1. opening[h] = "commit" /\ AccountFile!Ends(h) /\ UNCHANGED <<path, opened, found, deleted>>
  BY DEF AccountFile!Commit
<1>2. i \in DOMAIN files /\ AccountFile!Opened(h) = files[i] /\ files[i] \in Contents /\ i \in 1..MaxInodes
  <2>1. i \in DOMAIN files /\ AccountFile!Opened(h) = files[i] /\ files[i] \in Contents
    BY <1>1, OpenedFile
  <2>2. Len(files) <= MaxInodes /\ MaxInodes \in Nat /\ files \in Seq(Contents)
    BY DEF FileKnows, FileShapes, AccountFile!AccountFileAssumption
  <2> QED BY <2>1, <2>2
<1>3. /\ opening'[h] = "idle" /\ \A g \in Handles \ {h} : opening'[g] = opening[g]
      /\ opening' = [opening EXCEPT ![h] = "idle"]
      /\ opening' \in [Handles -> {"idle", "lock", "open", "connect", "schema", "migrate", "commit"}]
      /\ lock' \in Handles \cup {NoHandle}
  BY <1>1, EndsGoes
<1>4. CASE AccountFile!Conflicts(h)
  <2>1. files' = files /\ id' = id /\ next' = next
    BY <1>4 DEF AccountFile!Commit
  <2>2. HandlesKnow'
    BY <1>1, <1>3, <2>1, HandleGoes
  <2> QED BY <1>1, <1>3, <2>1, <2>2, FileShown, FilesStay, KeptIsFinal
<1>5. CASE ~AccountFile!Conflicts(h)
  <2>1. /\ files' = [files EXCEPT ![i] = content]
        /\ id' = [id EXCEPT ![h] = store]
        /\ next' = IF store = next THEN next + 1 ELSE next
    BY <1>2, <1>5 DEF AccountFile!Commit, AccountFile!Write
  <2>2. next \in Nat /\ files[i].id \in Nat /\ files[i].id < next /\ files[i].roles \subseteq SeededRoles
    BY <1>2 DEF FileKnows, FileShapes, IdsDrawn, Contents
  <2>3. /\ store \in Nat /\ store < next' /\ next' \in Nat /\ next' >= next
        /\ store = files[i].id \/ files[i].id = 0
    BY <2>1, <2>2 DEF AccountFile!StoreId
  <2>4. roles \subseteq SeededRoles /\ roles \cap deleted[i] = {}
    <3>1. files[i].roles \cap deleted[i] = {} /\ (~files[i].seeded => deleted[i] = {})
      BY <1>2 DEF FileKnows, SeededOnce
    <3>2. found[h] \/ ~files[i].seeded
      BY <1>2, <1>5 DEF AccountFile!Conflicts
    <3> QED BY <2>2, <3>1, <3>2
  <2> HIDE DEF store, roles
  <2>5. /\ content \in Contents /\ content.id = store /\ content.roles = roles /\ content.seeded = TRUE
    BY <1>2, <2>3, <2>4 DEF Contents
  <2> HIDE DEF content, i
  <2>6. /\ id' \in [Handles -> Nat] /\ id'[h] = store /\ \A g \in Handles \ {h} : id'[g] = id[g]
    BY <2>1, <2>3, FileShown
  <2>7. \A g \in Handles : id'[g] < next'
    <3> SUFFICES ASSUME NEW g \in Handles PROVE id'[g] < next'
      OBVIOUS
    <3>1. id[g] \in Nat /\ id[g] < next
      BY FileShown
    <3> QED BY <2>2, <2>3, <2>6, <3>1
  <2>8. /\ \A g \in Handles :
               opening'[g] \in {"connect", "schema", "migrate", "commit"} =>
                   opening[g] \in {"connect", "schema", "migrate", "commit"} /\ id'[g] = id[g]
                   /\ (opening'[g] \in {"schema", "migrate", "commit"} => opening[g] \in {"schema", "migrate", "commit"})
    BY <1>3, <2>6
  <2>9. deleted' \in [1..MaxInodes -> SUBSET SeededRoles] /\ deleted' = deleted
    BY <1>1 DEF FileKnows, FileShapes
  <2> QED BY <1>1, <1>2, <1>3, <2>1, <2>3, <2>4, <2>5, <2>6, <2>7, <2>8, <2>9, FileWritten, KeptIsFinal
<1> QED BY <1>4, <1>5

\* A connection that only reads: what it learns, it learns while it is in no migration.
LEMMA ReadKept ==
    ASSUME FileKnows, NEW h \in Handles, AccountFile!Read(h)
    PROVE  FileGoal
<1> DEFINE new == IF files[path].id # 0 THEN files[path].id ELSE id[h]
<1>1. /\ opening[h] = "idle" /\ path # 0 /\ id' = [id EXCEPT ![h] = new]
      /\ UNCHANGED <<path, files, lock, opening, opened, found, next, deleted>>
  BY DEF AccountFile!Read, AccountFile!Reads
<1>2. path \in DOMAIN files
  BY <1>1, FileShown
<1>3. files[path].id \in Nat /\ files[path].id < next /\ id[h] \in Nat /\ id[h] < next
  <2>1. files[path] \in Contents
    <3>1. files \in Seq(Contents)
      BY DEF FileKnows, FileShapes
    <3> QED BY <1>2, <3>1
  <2>2. files[path].id \in Nat
    BY <2>1 DEF Contents
  <2>3. files[path].id < next
    BY <1>2 DEF FileKnows, IdsDrawn
  <2> QED BY <2>2, <2>3, FileShown
<1>4. new \in Nat /\ new < next
  BY <1>3
<1> HIDE DEF new
<1>5. /\ id' \in [Handles -> Nat] /\ \A g \in Handles : id'[g] < next
      /\ \A g \in Handles \ {h} : id'[g] = id[g]
  BY <1>1, <1>4, FileShown
<1>6. HandlesKnow'
  BY <1>1, <1>5 DEF FileKnows, HandlesKnow
<1> QED BY <1>1, <1>5, <1>6, FileShown, FilesStay, KeptIsFinal

LEMMA DeleteRoleKept ==
    ASSUME AccountFile!AccountFileAssumption, FileKnows, NEW h \in Handles, NEW r \in SeededRoles,
           AccountFile!DeleteRole(h, r)
    PROVE  FileGoal
<1> DEFINE roles == files[path].roles \ {r}
           content == [files[path] EXCEPT !.roles = roles]
<1>1. /\ path # 0 /\ r \in files[path].roles
      /\ files' = [files EXCEPT ![path].roles = @ \ {r}]
      /\ deleted' = [deleted EXCEPT ![path] = @ \cup {r}]
      /\ UNCHANGED <<path, lock, opening, opened, found, id, next>>
  BY DEF AccountFile!DeleteRole
<1>2. path \in DOMAIN files /\ files[path] \in Contents /\ path \in 1..MaxInodes
  <2>1. Len(files) <= MaxInodes /\ MaxInodes \in Nat /\ files \in Seq(Contents) /\ path \in 0..Len(files)
    BY DEF FileKnows, FileShapes, AccountFile!AccountFileAssumption
  <2> QED BY <1>1, <2>1
<1>3. files' = [files EXCEPT ![path] = content]
  BY <1>1, <1>2
<1>4. files[path].seeded /\ files[path].roles \cap deleted[path] = {}
  BY <1>1, <1>2 DEF FileKnows, SeededOnce
<1>5. roles \subseteq SeededRoles
  BY <1>2 DEF Contents
<1>6. /\ deleted' \in [1..MaxInodes -> SUBSET SeededRoles] /\ deleted'[path] = deleted[path] \cup {r}
      /\ \A j \in 1..MaxInodes : j # path => deleted'[j] = deleted[j]
  BY <1>1, <1>2 DEF FileKnows, FileShapes
<1>7. roles \cap deleted'[path] = {}
  BY <1>4, <1>6
<1> HIDE DEF roles
<1>8. /\ content \in Contents /\ content.id = files[path].id /\ content.roles = roles
      /\ content.seeded = files[path].seeded
  BY <1>2, <1>5 DEF Contents
<1> HIDE DEF content
<1>9. /\ next' \in Nat /\ next' >= next
      /\ lock' \in Handles \cup {NoHandle} /\ id' \in [Handles -> Nat]
      /\ \A g \in Handles : id'[g] < next'
      /\ opening' \in [Handles -> {"idle", "lock", "open", "connect", "schema", "migrate", "commit"}]
  BY <1>1, FileShown
<1> QED BY <1>1, <1>2, <1>3, <1>4, <1>6, <1>7, <1>8, <1>9, FileWritten, KeptIsFinal

LEMMA CrashKept ==
    ASSUME FileKnows, NEW h \in Handles, AccountFile!Crash(h)
    PROVE  FileGoal
<1>1. /\ opening' = [opening EXCEPT ![h] = "idle"] /\ id' = [id EXCEPT ![h] = 0]
      /\ lock' \in {NoHandle, lock}
      /\ UNCHANGED <<path, files, opened, found, next, deleted>>
  BY DEF AccountFile!Crash
<1>2. /\ id' \in [Handles -> Nat] /\ \A g \in Handles \ {h} : id'[g] = id[g]
      /\ id'[h] = 0
  BY <1>1, FileShown
<1>3. \A g \in Handles : id'[g] < next
  BY <1>2, FileShown DEF FileKnows, IdsDrawn
<1>4. /\ HandlesKnow'
      /\ opening' \in [Handles -> {"idle", "lock", "open", "connect", "schema", "migrate", "commit"}]
  BY <1>1, <1>2, HandleGoes
<1> QED BY <1>1, <1>2, <1>3, <1>4, FileShown, FilesStay, KeptIsFinal

\* Another store at the path: those who are at work are still on theirs.
LEMMA ReplaceKept ==
    ASSUME AccountFile!AccountFileAssumption, FileKnows, AccountFile!Replace
    PROVE  FileGoal
<1> DEFINE content == [AccountFile!Current EXCEPT !.id = next]
<1>1. /\ AccountFile!NewFile(content) /\ next' = next + 1
      /\ UNCHANGED <<lock, opening, opened, found, id, deleted>>
  BY DEF AccountFile!Replace, AccountFile!handle
<1>2. next \in Nat /\ next > 0
  BY DEF FileKnows, FileShapes, IdsDrawn
<1>3. /\ content \in Contents /\ content.id = next /\ content.seeded = TRUE
  BY <1>2 DEF AccountFile!Current, Contents
<1> HIDE DEF content
<1>4. next' \in Nat /\ next' >= next /\ next < next' /\ next' > 0
  BY <1>1, <1>2
<1>5. /\ files' \in Seq(Contents) /\ Len(files') = Len(files) + 1 /\ Len(files') <= MaxInodes
      /\ path' = Len(files') /\ DOMAIN files \subseteq DOMAIN files'
      /\ \A j \in DOMAIN files : files'[j] = files[j]
      /\ SeededOnce' /\ FilesKeep
      /\ \A j \in DOMAIN files' : files'[j].id < next'
  BY <1>1, <1>3, <1>4, FileAppears
<1>6. Len(files') \in Nat /\ path' \in 0..Len(files') /\ 0..Len(files) \subseteq 0..Len(files')
  BY <1>5, FileShown
<1>7. opened' \in [Handles -> 0..Len(files')]
  BY <1>1, <1>6, FileShown
<1>8. FileShapes'
  BY <1>1, <1>4, <1>5, <1>6, <1>7 DEF FileKnows, FileShapes
<1>9. IdsDrawn'
  <2>1. \A g \in Handles : id'[g] < next'
    <3> SUFFICES ASSUME NEW g \in Handles PROVE id'[g] < next'
      OBVIOUS
    <3>1. id[g] \in Nat /\ id[g] < next
      BY FileShown
    <3> QED BY <1>1, <1>2, <3>1
  <2> QED BY <1>4, <1>5, <2>1 DEF IdsDrawn
<1>10. HandlesKnow'
  <2> SUFFICES ASSUME NEW g \in Handles
               PROVE  /\ opening[g] \in {"connect", "schema", "migrate", "commit"} => opened[g] # 0
                      /\ opening[g] \in {"schema", "migrate", "commit"} /\ id[g] # 0 =>
                             files'[opened[g]].id = id[g]
    BY <1>1 DEF HandlesKnow
  <2>1. CASE opening[g] \in {"schema", "migrate", "commit"}
    <3>1. opened[g] \in DOMAIN files
      BY <2>1, OpenedFile
    <3> QED BY <1>5, <2>1, <3>1 DEF FileKnows, HandlesKnow
  <2>2. CASE opening[g] \notin {"schema", "migrate", "commit"}
    BY <2>2 DEF FileKnows, HandlesKnow
  <2> QED BY <2>1, <2>2
<1> QED BY <1>5, <1>8, <1>9, <1>10, KeptIsFinal DEF FileKnows

LEMMA TakeAwayKept ==
    ASSUME FileKnows, AccountFile!TakeAway \/ UNCHANGED AccountFile!vars
    PROVE  FileGoal
<1>1. /\ path' \in {0, path}
      /\ UNCHANGED <<files, lock, opening, opened, found, id, next, deleted>>
  BY DEF AccountFile!TakeAway, AccountFile!handle, AccountFile!vars
<1>2. HandlesKnow'
  BY <1>1 DEF FileKnows, HandlesKnow
<1> QED BY <1>1, <1>2, FileShown, FilesStay, KeptIsFinal

LEMMA FileInit == AccountFile!AccountFileAssumption /\ AccountFile!Init => FileKnows
<1> SUFFICES ASSUME AccountFile!AccountFileAssumption, AccountFile!Init
             PROVE  FileKnows
  OBVIOUS
<1>1. PICK content \in {AccountFile!Empty, AccountFile!Earlier, AccountFile!Unseeded, AccountFile!Current} :
        files = <<>> \/ files = <<content>>
  BY DEF AccountFile!Init
<1>2. content \in Contents /\ content.id \in {0, 1} /\ (~content.seeded => content.roles = {})
  <2>1. CASE content = AccountFile!Empty
    BY <2>1 DEF AccountFile!Empty, Contents
  <2>2. CASE content = AccountFile!Earlier
    <3>1. content = [tables |-> {"user"}, id |-> 0, seeded |-> FALSE, roles |-> {}]
      BY <2>2 DEF AccountFile!Empty, AccountFile!Earlier
    <3> QED BY <3>1 DEF Contents
  <2>3. CASE content = AccountFile!Unseeded
    BY <2>3 DEF AccountFile!Unseeded, Contents
  <2>4. CASE content = AccountFile!Current
    BY <2>4 DEF AccountFile!Current, Contents
  <2> QED BY <1>1, <2>1, <2>2, <2>3, <2>4
<1>3. MaxInodes \in Nat \ {0} /\ next = 2
  BY DEF AccountFile!AccountFileAssumption, AccountFile!Init
<1>4. /\ files \in Seq(Contents) /\ Len(files) \in {0, 1} /\ Len(files) <= MaxInodes
      /\ \A i \in DOMAIN files : files[i] = content
      /\ path \in 0..Len(files)
  <2>1. path = IF files = <<>> THEN 0 ELSE 1
    BY DEF AccountFile!Init
  <2>2. CASE files = <<>>
    <3>1. files \in Seq(Contents) /\ Len(files) = 0 /\ DOMAIN files = {} /\ path = 0
      BY <2>1, <2>2
    <3> QED BY <1>3, <3>1
  <2>3. CASE files = <<content>>
    <3>1. /\ files \in Seq(Contents) /\ Len(files) = 1 /\ DOMAIN files = {1}
          /\ files[1] = content
      BY <1>2, <2>3
    <3>2. path = 1
      BY <2>1, <3>1
    <3> QED BY <1>3, <3>1, <3>2
  <2> QED BY <1>1, <2>2, <2>3
<1>5. FileShapes
  BY <1>3, <1>4 DEF AccountFile!Init, FileShapes
<1>6. IdsDrawn
  BY <1>2, <1>3, <1>4 DEF AccountFile!Init, IdsDrawn
<1>7. SeededOnce
  <2>1. \A i \in 1..MaxInodes : deleted[i] = {}
    BY DEF AccountFile!Init
  <2>2. DOMAIN files \subseteq 1..MaxInodes
    BY <1>3, <1>4
  <2> QED BY <1>2, <1>4, <2>1, <2>2 DEF SeededOnce
<1>8. HandlesKnow
  BY DEF AccountFile!Init, HandlesKnow
<1> QED BY <1>5, <1>6, <1>7, <1>8 DEF FileKnows

LEMMA FileNext ==
    ASSUME AccountFile!AccountFileAssumption, FileKnows, [AccountFile!Next]_(AccountFile!vars)
    PROVE  FileGoal
BY InitializeKept, TakeLockKept, OpenKept, ConnectKept, SchemaKept, MigrateChecksKept, CommitKept,
   ReadKept, DeleteRoleKept, CrashKept, ReplaceKept, TakeAwayKept DEF AccountFile!Next

\* However many processes open, create and migrate account files, wherever they die, and
\* whatever an operator puts in place: a default role that was deleted does not come back,
\* nobody migrates a store that is not theirs, and no file that has an identifier gets another
\* one, for any handles, roles and files.
THEOREM FileCorrect ==
    AccountFile!AccountFileAssumption =>
        (AccountFile!Spec =>
            []AccountFile!FileInv /\ [][AccountFile!IdentityIsFinal]_(AccountFile!vars))
<1> SUFFICES ASSUME AccountFile!AccountFileAssumption
             PROVE  AccountFile!Spec =>
                        []AccountFile!FileInv /\ [][AccountFile!IdentityIsFinal]_(AccountFile!vars)
  OBVIOUS
<1>1. AccountFile!Init => FileKnows
  BY FileInit
<1>2. FileKnows /\ [AccountFile!Next]_(AccountFile!vars) => FileKnows'
  BY FileNext DEF FileGoal
<1>3. FileKnows /\ [AccountFile!Next]_(AccountFile!vars) =>
          [AccountFile!IdentityIsFinal]_(AccountFile!vars)
  BY FileNext DEF FileGoal
<1>4. FileKnows => AccountFile!FileInv
  <2> SUFFICES ASSUME FileKnows PROVE AccountFile!FileInv
    OBVIOUS
  <2>1. AccountFile!TypeOK
    BY FileShown DEF FileKnows, FileShapes, AccountFile!TypeOK
  <2>2. AccountFile!NoResurrection
    BY DEF FileKnows, SeededOnce, AccountFile!NoResurrection
  <2>3. AccountFile!SameStore
    BY DEF FileKnows, HandlesKnow, AccountFile!SameStore, AccountFile!Opened
  <2> QED BY <2>1, <2>2, <2>3 DEF AccountFile!FileInv
<1> QED BY <1>1, <1>2, <1>3, <1>4, PTL DEF AccountFile!Spec
-----------------------------------------------------------------------------
(* The sum of the components. *)

\* Every step is one of the component that runs.
LEMMA PartStays ==
    ASSUME [ComponentsNext]_<<part, componentVars>>
    PROVE  /\ part' = part
           /\ part = "accounts" => [Accounts!Next]_(Accounts!vars)
           /\ part = "account_file" => [AccountFile!Next]_(AccountFile!vars)
           /\ part = "report_trail" => [ReportTrail!Next]_(ReportTrail!vars)
<1>1. CASE UNCHANGED <<part, componentVars>>
  <2>1. UNCHANGED <<Accounts!vars, AccountFile!vars, ReportTrail!vars, Transports!vars,
                    NvdScan!vars, Feeds!vars, InventoryScan!vars>>
    BY <1>1 DEF componentVars, accountVars, Accounts!vars, Accounts!data, Accounts!audit,
         fileVars, AccountFile!vars, trailVars, ReportTrail!vars, ReportTrail!store,
         transportVars, Transports!vars, Transports!provider, Transports!asked,
         nvdVars, NvdScan!vars, feedVars, Feeds!vars, scanVars, InventoryScan!vars,
         InventoryScan!store
  <2> QED BY <1>1, <2>1
<1>2. CASE ComponentsNext
  BY <1>2 DEF ComponentsNext, AccountsNext, AccountFileNext, ReportTrailNext, TransportsNext,
       NvdScanNext, FeedsNext, InventoryScanNext
<1> QED BY <1>1, <1>2

\* What FileCorrect says, of the sum.
THEOREM AccountFileSafeCorrect == ComponentsSpec => AccountFileSafe
<1> DEFINE Runs == part = "account_file"
<1>1. AccountFile!Spec => []AccountFile!FileInv /\ [][AccountFile!IdentityIsFinal]_(AccountFile!vars)
  BY FileCorrect, ComponentAssumptions
<1>2. ComponentsInit /\ Runs => AccountFile!Init
  BY DEF ComponentsInit
<1>3. [ComponentsNext]_<<part, componentVars>> =>
          (Runs' <=> Runs) /\ (Runs => [AccountFile!Next]_(AccountFile!vars))
  BY PartStays
<1>4. [ComponentsNext]_<<part, componentVars>>
          /\ (Runs => [AccountFile!IdentityIsFinal]_(AccountFile!vars)) =>
              [Runs => AccountFile!IdentityIsFinal]_<<part, fileVars>>
  BY PartStays DEF fileVars, AccountFile!vars
<1> HIDE DEF Runs
<1>5. ComponentsSpec => [](Runs => AccountFile!FileInv)
                        /\ [][Runs => AccountFile!IdentityIsFinal]_<<part, fileVars>>
  BY <1>1, <1>2, <1>3, <1>4, PTL DEF ComponentsSpec, AccountFile!Spec
<1> QED BY <1>5 DEF Runs, AccountFileSafe

\* What TrailCorrect says, of the sum.
THEOREM ReportTrailSafeCorrect == ComponentsSpec => ReportTrailSafe
<1> DEFINE Runs == part = "report_trail"
<1>1. ReportTrail!Spec => []ReportTrail!TrailInv /\ [][ReportTrail!ReporterIsCurrent]_(ReportTrail!vars)
  BY TrailCorrect, ComponentAssumptions
<1>2. ComponentsInit /\ Runs => ReportTrail!Init
  BY DEF ComponentsInit
<1>3. [ComponentsNext]_<<part, componentVars>> =>
          (Runs' <=> Runs) /\ (Runs => [ReportTrail!Next]_(ReportTrail!vars))
  BY PartStays
<1>4. [ComponentsNext]_<<part, componentVars>>
          /\ (Runs => [ReportTrail!ReporterIsCurrent]_(ReportTrail!vars)) =>
              [Runs => ReportTrail!ReporterIsCurrent]_<<part, trailVars>>
  BY PartStays DEF trailVars, ReportTrail!vars, ReportTrail!store
<1> HIDE DEF Runs
<1>5. ComponentsSpec => [](Runs => ReportTrail!TrailInv)
                        /\ [][Runs => ReportTrail!ReporterIsCurrent]_<<part, trailVars>>
  BY <1>1, <1>2, <1>3, <1>4, PTL DEF ComponentsSpec, ReportTrail!Spec
<1> QED BY <1>5 DEF Runs, ReportTrailSafe

\* What AccountsCorrect says, of the sum.
THEOREM AccountsSafeCorrect == ComponentsSpec => AccountsSafe
<1> DEFINE Runs == part = "accounts"
<1>1. Accounts!Spec => []Accounts!AccountsInv /\ [][Accounts!AccountsSteps]_(Accounts!vars)
  BY AccountsCorrect, ComponentAssumptions
<1>2. ComponentsInit /\ Runs => Accounts!Init
  BY DEF ComponentsInit
<1>3. [ComponentsNext]_<<part, componentVars>> =>
          (Runs' <=> Runs) /\ (Runs => [Accounts!Next]_(Accounts!vars))
  BY PartStays
<1>4. [ComponentsNext]_<<part, componentVars>>
          /\ (Runs => [Accounts!AccountsSteps]_(Accounts!vars)) =>
              [Runs => Accounts!AccountsSteps]_<<part, accountVars>>
  BY PartStays DEF accountVars, Accounts!vars, Accounts!data, Accounts!audit
<1> HIDE DEF Runs
<1>5. ComponentsSpec => [](Runs => Accounts!AccountsInv)
                        /\ [][Runs => Accounts!AccountsSteps]_<<part, accountVars>>
  BY <1>1, <1>2, <1>3, <1>4, PTL DEF ComponentsSpec, Accounts!Spec
<1> QED BY <1>5 DEF Runs, AccountsSafe
=============================================================================
