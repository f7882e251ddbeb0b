------------------------------- MODULE Outbox -------------------------------
(***************************************************************************)
(* What the alert outbox of watch mode promises for each event, without    *)
(* rows, runs, claims or time (the delivery section of docs/WATCH.md):     *)
(* an event is owed until a copy may have gone out; from then on it is     *)
(* unsure, and only an operator's request can send it again; it is done    *)
(* when the provider confirmed it.                                         *)
(***************************************************************************)
EXTENDS Naturals

CONSTANT Events

VARIABLES
    state,     \* state[e]: what the outbox knows of event e
    copies,    \* copies[e]: copies of e the provider has taken
    asked      \* requests of an operator to retry

States == {"absent", "owed", "unsure", "done"}

Init ==
    /\ state = [e \in Events |-> "absent"]
    /\ copies = [e \in Events |-> 0]
    /\ asked = 0

In(group, states) == \A e \in group : state[e] \in states

Move(group, to) ==
    state' = [e \in Events |-> IF e \in group THEN to ELSE state[e]]

Queue(e) ==
    /\ state[e] = "absent"
    /\ Move({e}, "owed")
    /\ UNCHANGED <<copies, asked>>

Ask ==
    /\ asked' = asked + 1
    /\ UNCHANGED <<state, copies>>

\* A message goes out: for what is owed, or for what is unsure on request.
Transmit(group) ==
    /\ In(group, {"owed", "unsure"})
    /\ asked = 0 => In(group, {"owed"})
    /\ copies' = [e \in Events |-> IF e \in group THEN copies[e] + 1 ELSE copies[e]]
    /\ Move(group, "unsure")
    /\ UNCHANGED asked

\* An attempt was cut off: the copies may or may not have been taken.
Doubt(group) ==
    /\ In(group, {"owed"})
    /\ Move(group, "unsure")
    /\ UNCHANGED <<copies, asked>>

Confirm(group) ==
    /\ In(group, {"unsure"})
    /\ \A e \in group : copies[e] > 0
    /\ Move(group, "done")
    /\ UNCHANGED <<copies, asked>>

Next ==
    \/ \E e \in Events : Queue(e)
    \/ Ask
    \/ \E group \in SUBSET Events : Transmit(group) \/ Doubt(group) \/ Confirm(group)

Spec == Init /\ [][Next]_<<state, copies, asked>>
=============================================================================
