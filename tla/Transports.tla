----------------------------- MODULE Transports -----------------------------
(***************************************************************************)
(* What one channel does with one message of several parts: the senders    *)
(* of watch/delivery.py and the single requests of http.py, which sort     *)
(* every way a request can end into "accepted", "not sent" and "unknown",  *)
(* and the delivery run that tries the second kind again and leaves the    *)
(* third to an operator.                                                   *)
(*                                                                         *)
(* The provider and the network are external: what was submitted may be    *)
(* lost, or handled long after the sender gave up waiting; the answer may  *)
(* be lost or cut.  A provider that answers with an error has created      *)
(* nothing.                                                                *)
(***************************************************************************)
EXTENDS Integers, FiniteSets

CONSTANTS
    Kinds,         \* channel types: "post" (teams, slack, discord, ntfy, gotify,
                   \* webhook), "telegram", "matrix", "graph", "smtp"
    Parts,         \* parts of the message
    MaxAttempts,   \* DELIVERY_MAX_ATTEMPTS
    AuthLimit,     \* AUTH_MAX_ATTEMPTS
    MaxResends, MaxTests   \* bounds

TransportsAssumption ==
    /\ Kinds \subseteq {"post", "telegram", "matrix", "graph", "smtp"}
    /\ Parts \in Nat \ {0} /\ AuthLimit \in 1..MaxAttempts /\ MaxAttempts \in Nat
    /\ MaxResends \in Nat

VARIABLES
    kind,      \* type of the channel
    item,      \* the delivery row
    send,      \* what the run is doing
    wire,      \* requests on their way to the provider
    answer,    \* what came back to the request that is waited for
    seen,      \* the transactions a Matrix homeserver knows
    copies,    \* copies of every part the provider created
    whole,     \* parts of which a copy went to every recipient
    logins,    \* history: refused authentications
    resends,   \* history: resends an operator asked for
    tests,     \* test messages sent
    cause,     \* history: a part left the host, or a run died
    ids        \* requests so far

provider == <<seen, copies, whole>>
asked == <<resends, tests>>
vars == <<kind, item, send, wire, answer, provider, logins, asked, cause, ids>>

Idle == [at |-> "idle"]

Init ==
    /\ kind \in Kinds
    /\ item = [status |-> "pending", attempts |-> 0]
    /\ send = Idle /\ wire = {} /\ answer = "none"
    /\ seen = {} /\ copies = [p \in 1..Parts |-> 0] /\ whole = {}
    /\ logins = 0 /\ resends = 0 /\ tests = 0 /\ cause = FALSE /\ ids = 0

At(place) == send.at = place
Goes(place) == send' = [send EXCEPT !.at = place]
-----------------------------------------------------------------------------
(* How an attempt ends. *)

\* The first thing a channel does after it has its secret.
Opening ==
    CASE kind = "matrix" -> "room"
      [] kind = "graph" -> "token"
      [] kind = "smtp" -> "session"
      [] OTHER -> "submit"

\* Slip: a failure after the first parts were accepted counts as not sent.
OnlyTheFailure(ambiguous) == ambiguous \/ item.status = "ambiguous"

\* Whether a failure leaves the row to the operator: parts may have arrived, now or before.
StaysUnknown(ambiguous) == ambiguous \/ send.part > 1 \/ item.status = "ambiguous"

\* Slip: refused credentials are tried as often as anything else.
CountsAsAny(auth) == item.attempts + 1

\* attempts after this one; a refused authentication uses up the rest early.
CountsAs(auth) ==
    IF auth /\ item.attempts + 1 >= AuthLimit THEN MaxAttempts ELSE item.attempts + 1

\* A DeliveryFailure; that of a test message is only shown.
Fail(ambiguous, auth) ==
    /\ send' = Idle /\ answer' = "none"
    /\ logins' = logins + (IF auth THEN 1 ELSE 0)
    /\ IF send.what = "test" THEN UNCHANGED item
       ELSE item' = [status |-> IF StaysUnknown(ambiguous) THEN "ambiguous" ELSE "failed",
                     attempts |-> CountsAs(auth)]

NotSent == Fail(FALSE, FALSE)
Unknown == Fail(TRUE, FALSE)
BadCredentials == Fail(FALSE, TRUE)

\* The part was accepted: the next one, or the row is sent.
PartAccepted ==
    /\ answer' = "none"
    /\ \/ send.what = "test" /\ send' = Idle /\ UNCHANGED item
       \/ send.what = "message" /\ send.part < Parts
          /\ send' = [send EXCEPT !.at = "secret", !.part = @ + 1, !.some = FALSE]
          /\ UNCHANGED item
       \/ send.what = "message" /\ send.part = Parts
          /\ send' = Idle /\ item' = [item EXCEPT !.status = "sent"]
    /\ UNCHANGED logins
-----------------------------------------------------------------------------
(* The sender. *)

Due == item.status \in {"pending", "failed"} /\ item.attempts < MaxAttempts

Attempt(what) == [at |-> "secret", what |-> what, part |-> 1, some |-> FALSE]

\* A run takes the message by itself.
Start ==
    /\ At("idle") /\ Due
    /\ send' = Attempt("message")
    /\ UNCHANGED <<kind, item, wire, answer, provider, logins, asked, cause, ids>>

\* An operator has a message sent again whose fate is unknown.
Resend ==
    /\ At("idle") /\ item.status = "ambiguous" /\ resends < MaxResends
    /\ send' = Attempt("message") /\ resends' = resends + 1
    /\ UNCHANGED <<kind, item, wire, answer, provider, logins, tests, cause, ids>>

\* send_test: outside the outbox.
SendTest ==
    /\ At("idle") /\ tests < MaxTests
    /\ send' = Attempt("test") /\ tests' = tests + 1
    /\ UNCHANGED <<kind, item, wire, answer, provider, logins, resends, cause, ids>>

\* The secret is read for every part: it may be gone, or no longer be a usable address.
Secret ==
    /\ At("secret")
    /\ \/ Goes(Opening) /\ UNCHANGED <<item, answer, logins>>
       \/ NotSent
    /\ UNCHANGED <<kind, wire, provider, asked, cause, ids>>

\* The time of the run is up: before the first part nothing happened, later it is unknown.
OutOfTime ==
    /\ At("secret")
    /\ IF send.part = 1 THEN send' = Idle /\ UNCHANGED <<item, answer, logins>> ELSE Unknown
    /\ UNCHANGED <<kind, wire, provider, asked, cause, ids>>

\* Matrix: only a room that is known not to be encrypted; a failed question sent nothing.
Room ==
    /\ At("room")
    /\ (Goes("submit") /\ UNCHANGED <<item, answer, logins>>) \/ NotSent
    /\ UNCHANGED <<kind, wire, provider, asked, cause, ids>>

\* _send_graph: no mail has been sent yet, however the token request ended.
Token ==
    /\ At("token")
    /\ \/ Goes("submit") /\ UNCHANGED <<item, answer, logins>>
       \/ BadCredentials
       \/ NotSent
    /\ UNCHANGED <<kind, wire, provider, asked, cause, ids>>

\* SMTP: connection, greeting and STARTTLS; the login; the envelope.  The deadline is
\* looked at before each.
Session ==
    /\ At("session")
    /\ (Goes("login") /\ UNCHANGED <<item, answer, logins>>) \/ NotSent
    /\ UNCHANGED <<kind, wire, provider, asked, cause, ids>>

Login ==
    /\ At("login")
    /\ (Goes("envelope") /\ UNCHANGED <<item, answer, logins>>) \/ BadCredentials \/ NotSent
    /\ UNCHANGED <<kind, wire, provider, asked, cause, ids>>

Envelope ==
    /\ At("envelope")
    /\ \/ \E some \in BOOLEAN :
            send' = [send EXCEPT !.at = "submit", !.some = some] /\ UNCHANGED <<item, answer, logins>>
       \/ NotSent
    /\ UNCHANGED <<kind, wire, provider, asked, cause, ids>>

\* Slip: the transaction is new for every attempt.
TransactionOfAttempt == <<send.what, ids>>

\* The Matrix transaction: the same for every attempt at a part; a test has one of its own.
Transaction == IF send.what = "test" THEN <<"test", tests>> ELSE <<"message", send.part>>

\* The request, or the DATA of a mail: refused before anything leaves the host, or away.
Submit ==
    /\ At("submit")
    /\ \/ NotSent /\ UNCHANGED <<wire, ids, cause>>
       \/ /\ ids' = ids + 1 /\ answer' = "none"
          /\ wire' = wire \cup {[id |-> ids + 1, txn |-> Transaction, what |-> send.what,
                                 part |-> send.part, some |-> send.some]}
          /\ send' = [send EXCEPT !.at = "waiting"]
          /\ cause' = (cause \/ send.what = "message")
          /\ UNCHANGED <<item, logins>>
    /\ UNCHANGED <<kind, provider, asked>>

\* _http_call and _send_smtp: once it may have left the host, an interruption says nothing.
Interrupted ==
    /\ At("waiting")
    /\ Unknown
    /\ UNCHANGED <<kind, wire, provider, asked, cause, ids>>

\* Slip: recipients that were refused do not matter.
AllRecipients == TRUE

\* A mail some recipients were refused for is neither sent nor unsent.
EveryRecipient == ~send.some

\* Telegram and Matrix say in the body what became of a request they answer with 200.
Answered ==
    /\ At("waiting") /\ answer # "none"
    /\ \/ answer = "ok" /\ EveryRecipient /\ PartAccepted
       \/ answer = "ok" /\ ~EveryRecipient /\ Unknown
       \/ answer \in {"no", "no-but-200"} /\ NotSent
       \/ answer = "auth" /\ BadCredentials
       \/ answer = "unreadable" /\ Unknown
    /\ UNCHANGED <<kind, wire, provider, asked, cause, ids>>

\* The run dies: the next one recovers the row it had claimed.
Crash ==
    /\ ~At("idle")
    /\ send' = Idle /\ answer' = "none"
    /\ item' = IF send.what = "test" THEN item ELSE [item EXCEPT !.status = "ambiguous"]
    /\ cause' = (cause \/ send.what = "message")
    /\ UNCHANGED <<kind, wire, provider, logins, asked, ids>>
-----------------------------------------------------------------------------
(* The provider and the network. *)

Answers(r, word) ==
    answer' = IF At("waiting") /\ r.id = ids THEN word ELSE answer

InBody == kind \in {"telegram", "matrix"}

\* A copy is created, unless a homeserver knows the transaction; the answer may arrive in a
\* state nobody can read, which matters where the body is needed.
Accept(r) ==
    /\ wire' = wire \ {r}
    /\ LET again == kind = "matrix" /\ r.txn \in seen IN
       /\ copies' = IF again \/ r.what = "test" THEN copies ELSE [copies EXCEPT ![r.part] = @ + 1]
       /\ whole' = IF r.what = "test" \/ r.some THEN whole ELSE whole \cup {r.part}
    /\ seen' = IF kind = "matrix" THEN seen \cup {r.txn} ELSE seen
    /\ Answers(r, "ok") \/ (InBody /\ Answers(r, "unreadable"))
    /\ UNCHANGED <<kind, item, send, logins, asked, cause, ids>>

Refuse(r) ==
    /\ wire' = wire \ {r}
    /\ \/ Answers(r, "no")
       \/ kind = "graph" /\ Answers(r, "auth")
       \/ InBody /\ (Answers(r, "no-but-200") \/ Answers(r, "unreadable"))
    /\ UNCHANGED <<kind, item, send, provider, logins, asked, cause, ids>>

Lose(r) ==
    /\ wire' = wire \ {r}
    /\ UNCHANGED <<kind, item, send, answer, provider, logins, asked, cause, ids>>

Next ==
    \/ Start \/ Resend \/ SendTest \/ Secret \/ OutOfTime \/ Room \/ Token \/ Session \/ Login
    \/ Envelope \/ Submit \/ Interrupted \/ Answered \/ Crash
    \/ \E r \in wire : Accept(r) \/ Refuse(r) \/ Lose(r)

Spec == Init /\ [][Next]_vars
-----------------------------------------------------------------------------
(* Properties. *)

TypeOK ==
    /\ kind \in Kinds /\ item.status \in {"pending", "failed", "ambiguous", "sent"}
    /\ item.attempts \in 0..(MaxAttempts + MaxResends + 1)
    /\ \A r \in wire : r.part \in 1..Parts /\ r.id \in 1..ids
    /\ whole \subseteq 1..Parts

\* No part reaches its readers more often than an operator asked for, whatever was lost or
\* came late; on Matrix not even then.
NoUnaskedCopy ==
    \A p \in 1..Parts : copies[p] <= IF kind = "matrix" THEN 1 ELSE 1 + resends

\* What a run will try again by itself is nowhere: not created, not on its way.
RetriedIsNowhere ==
    item.status \in {"pending", "failed"} /\ At("idle") =>
        (\A p \in 1..Parts : copies[p] = 0) /\ \A r \in wire : r.what = "test"

\* A row that says sent has every part with every recipient.
SentIsDelivered == item.status = "sent" => whole = 1..Parts

\* Refused credentials are not tried again until the account is locked.
LoginsCapped == logins <= AuthLimit + resends + tests

\* An operator is asked only about a message that may have arrived: a failed connection, a
\* refused login or a lost request for a token never takes a message out of the automatic
\* retries.
DoubtHasCause == item.status = "ambiguous" => cause

TransportInv ==
    TypeOK /\ NoUnaskedCopy /\ RetriedIsNowhere /\ SentIsDelivered /\ LoginsCapped /\ DoubtHasCause
=============================================================================
