------------------------------- MODULE Outbox -------------------------------
(***************************************************************************)
(* Sending on WhatsApp: the service looks up the idempotency key, calls    *)
(* the Graph API up to GraphTries times, and stores the key.               *)
(*                                                                         *)
(* Callers send again with the same key when they are told of a failure or *)
(* hear nothing.  Keys last longer (a day) than callers try.               *)
(***************************************************************************)
EXTENDS Naturals, FiniteSets

CONSTANTS
    OutKeys,        \* idempotency keys, each for one message
    Senders,        \* calls of send served at once
    GraphTries,     \* attempts of GraphClient.send
    MaxCopies       \* bound on what is delivered of one message

ASSUME OutboxAssumption == GraphTries \in Nat \ {0} /\ MaxCopies \in Nat

VARIABLES
    stored,     \* keys in Redis
    sender,     \* calls
    copies,     \* how often the Graph API has accepted each message
    told,       \* history: keys of which a caller was told that they were sent
    unsettled,  \* history: keys of which an answer of the Graph API, or the storing, was lost
    crossed     \* history: keys that two calls sent at once

outboxVars == <<stored, sender, copies, told, unsettled, crossed>>

\* try: the attempt that comes next.
Sender == [pc : {"posting", "accepted"}, key : OutKeys, try : 1..GraphTries]

IdleSender == [pc |-> "idle"]

OutboxTypeOK ==
    /\ stored \subseteq OutKeys
    /\ sender \in [Senders -> Sender \cup {IdleSender}]
    /\ copies \in [OutKeys -> 0..MaxCopies]
    /\ told \subseteq OutKeys /\ unsettled \subseteq OutKeys /\ crossed \subseteq OutKeys

OutboxInit ==
    /\ stored = {} /\ sender = [s \in Senders |-> IdleSender]
    /\ copies = [k \in OutKeys |-> 0]
    /\ told = {} /\ unsettled = {} /\ crossed = {}

\* Mutant of Known: the key is not looked up.
KnownNot(k) == FALSE

Known(k) == k \in stored

\* send: the key is looked up.
SendLookup(s, k) ==
    /\ sender[s].pc = "idle"
    /\ IF Known(k)
       THEN told' = told \cup {k} /\ UNCHANGED <<sender, crossed>>
       ELSE /\ sender' = [sender EXCEPT ![s] = [pc |-> "posting", key |-> k, try |-> 1]]
            /\ crossed' = IF \E x \in Senders : sender[x].pc # "idle" /\ sender[x].key = k
                          THEN crossed \cup {k} ELSE crossed
            /\ UNCHANGED told
    /\ UNCHANGED <<stored, copies, unsettled>>

\* After an attempt that brought no 200: the next one, or UpstreamUnavailable.
NextTry(s) ==
    IF sender[s].try = GraphTries THEN IdleSender ELSE [sender[s] EXCEPT !.try = @ + 1]

\* The message is accepted; the answer says so, or is lost.
GraphAccepts(s) ==
    LET k == sender[s].key
    IN /\ sender[s].pc = "posting" /\ copies[k] < MaxCopies
       /\ copies' = [copies EXCEPT ![k] = @ + 1]
       /\ \/ /\ sender' = [sender EXCEPT ![s].pc = "accepted"]
             /\ UNCHANGED unsettled
          \/ /\ sender' = [sender EXCEPT ![s] = NextTry(s)]
             /\ unsettled' = unsettled \cup {k}
       /\ UNCHANGED <<stored, told, crossed>>

\* It is not accepted: an error that is worth another attempt, or one that is not.
GraphRefuses(s) ==
    /\ sender[s].pc = "posting"
    /\ sender' \in {[sender EXCEPT ![s] = NextTry(s)], [sender EXCEPT ![s] = IdleSender]}
    /\ UNCHANGED <<stored, copies, told, unsettled, crossed>>

StoreKey(s) ==
    /\ sender[s].pc = "accepted"
    /\ stored' = stored \cup {sender[s].key}
    /\ told' = told \cup {sender[s].key}
    /\ sender' = [sender EXCEPT ![s] = IdleSender]
    /\ UNCHANGED <<copies, unsettled, crossed>>

\* The call is cut off, or Redis does not answer.
SendCut(s) ==
    /\ sender[s].pc # "idle"
    /\ sender' = [sender EXCEPT ![s] = IdleSender]
    /\ unsettled' = IF sender[s].pc = "accepted" THEN unsettled \cup {sender[s].key} ELSE unsettled
    /\ UNCHANGED <<stored, copies, told, crossed>>

OutboxNext ==
    \E s \in Senders :
        \/ \E k \in OutKeys : SendLookup(s, k)
        \/ GraphAccepts(s) \/ GraphRefuses(s) \/ StoreKey(s) \/ SendCut(s)

OutboxSpec == OutboxInit /\ [][OutboxNext]_outboxVars

-----------------------------------------------------------------------------
(* Properties *)

\* A message is delivered once, however often it is sent, unless an answer or its storing was lost
\* or two calls sent it at once; and a caller is told that it was sent only if it was.
DeliveredOnce ==
    /\ OutboxTypeOK
    /\ \A k \in OutKeys :
         /\ copies[k] <= 1 \/ k \in unsettled \cup crossed
         /\ k \in told \cup stored => copies[k] > 0
=============================================================================
