-------------------------------- MODULE Audit --------------------------------
(***************************************************************************)
(* The audit trail of a tenant: handlers record what they have done, the   *)
(* audit service appends it to a chain of hashes and passes it on to the   *)
(* SIEM.                                                                   *)
(*                                                                         *)
(* A client gives up an attempt whose answer does not come and sends the   *)
(* event again; the audit service may still be executing the first one.    *)
(* A hash is the value it is made from: SHA-256 is taken as injective.     *)
(***************************************************************************)
EXTENDS Naturals, Sequences, FiniteSets

CONSTANTS
    Events,         \* privileged operations, each with its event
    Attempts,       \* 1 + retries of HttpAuditSink.write
    QueueSize       \* siem_queue_size

ASSUME AuditAssumption == Attempts \in Nat \ {0} /\ QueueSize \in Nat

VARIABLES
    log,        \* audit_logs of the tenant, by seq
    handler,    \* the operations
    append,     \* the audit service's transactions, by event and attempt
    queue,      \* SiemForwarder.queue: seqs
    forwarded,  \* what the SIEM has accepted: seqs
    doubtful    \* history: events of which an attempt was given up or failed

auditVars == <<log, handler, append, queue, forwarded, doubtful>>

Genesis == <<>>

\* Mutant of entry_hash: what was done is not part of it.
entry_hashBare(prev, seq, event) == <<prev, seq>>

entry_hash(prev, seq, event) == <<prev, seq, event>>

\* verify_rows
verify_rows(rows) ==
    \A i \in DOMAIN rows :
        LET prev == IF i = 1 THEN Genesis ELSE rows[i - 1].entry_hash
        IN /\ rows[i].seq = i
           /\ rows[i].prev_hash = prev
           /\ rows[i].entry_hash = entry_hash(prev, rows[i].seq, rows[i].event)

Tries == 1..Attempts

\* seq, prev: what a transaction that holds the lock goes on from.
NoAppend == [pc |-> "none", seq |-> 0, prev |-> Genesis]

\* answer: to the attempt the handler waits for.
Handler == [pc : {"new", "changed", "sending", "recorded", "raised", "cut"}, try : 0..Attempts,
            answer : {"none", "created", "error"}]

AuditTypeOK ==
    /\ \A i \in DOMAIN log : log[i].event \in Events
    /\ handler \in [Events -> Handler]
    /\ \A e \in Events, n \in Tries :
         append[<<e, n>>].pc \in {"none", "open", "locked", "committed"}
    /\ Len(queue) <= QueueSize /\ doubtful \subseteq Events

AuditInit ==
    /\ log = <<>>
    /\ handler = [e \in Events |-> [pc |-> "new", try |-> 0, answer |-> "none"]]
    /\ append = [x \in Events \X Tries |-> NoAppend]
    /\ queue = <<>> /\ forwarded = {} /\ doubtful = {}

-----------------------------------------------------------------------------
(* The handlers *)

\* The operation is committed, or the provider has done it; its record comes after it.
Change(e) ==
    /\ handler[e].pc = "new"
    /\ handler' = [handler EXCEPT ![e].pc = "changed"]
    /\ UNCHANGED <<log, append, queue, forwarded, doubtful>>

\* The handler is cut off: its process stops, or its caller hangs up.
HandlerStops(e) ==
    /\ handler[e].pc \in {"changed", "sending"}
    /\ handler' = [handler EXCEPT ![e].pc = "cut"]
    /\ UNCHANGED <<log, append, queue, forwarded, doubtful>>

\* An attempt is sent; it may not arrive.
SendRecord(e, n) ==
    /\ handler' = [handler EXCEPT ![e] = [pc |-> "sending", try |-> n, answer |-> "none"]]
    /\ \E pc \in {"open", "none"} : append' = [append EXCEPT ![<<e, n>>].pc = pc]

\* record: the first attempt.
Record(e) ==
    /\ handler[e].pc = "changed"
    /\ SendRecord(e, 1)
    /\ UNCHANGED <<log, queue, forwarded, doubtful>>

Accepted(answer) == answer = "created"

Acknowledged(e) ==
    /\ handler[e].pc = "sending" /\ Accepted(handler[e].answer)
    /\ handler' = [handler EXCEPT ![e].pc = "recorded"]
    /\ UNCHANGED <<log, append, queue, forwarded, doubtful>>

\* An error, or no answer: the event is sent again, or UpstreamUnavailable is raised.
Retry(e) ==
    /\ handler[e].pc = "sending" /\ ~Accepted(handler[e].answer)
    /\ doubtful' = doubtful \cup {e}
    /\ \/ handler[e].try < Attempts /\ SendRecord(e, handler[e].try + 1)
       \/ /\ handler[e].try = Attempts
          /\ handler' = [handler EXCEPT ![e].pc = "raised"]
          /\ UNCHANGED append
    /\ UNCHANGED <<log, queue, forwarded>>

-----------------------------------------------------------------------------
(* AuditStore.append *)

\* The tenant's advisory lock.
Free == \A x \in Events \X Tries : append[x].pc # "locked"

\* The lock is taken and the last row is read.
Lock(e, n) ==
    /\ append[<<e, n>>].pc = "open" /\ Free
    /\ append' = [append EXCEPT ![<<e, n>>] =
         [pc |-> "locked", seq |-> Len(log) + 1,
          prev |-> IF log = <<>> THEN Genesis ELSE log[Len(log)].entry_hash]]
    /\ UNCHANGED <<log, handler, queue, forwarded, doubtful>>

Entry(e, a) == [seq |-> a.seq, event |-> e, prev_hash |-> a.prev,
                entry_hash |-> entry_hash(a.prev, a.seq, e)]

InsertEntry(e, n) ==
    /\ append[<<e, n>>].pc = "locked"
    /\ log' = Append(log, Entry(e, append[<<e, n>>]))
    /\ append' = [append EXCEPT ![<<e, n>>].pc = "committed"]
    /\ UNCHANGED <<handler, queue, forwarded, doubtful>>

\* An attempt ends; its handler may be waiting for another one by now.
Reply(e, n, answer) ==
    /\ append' = [append EXCEPT ![<<e, n>>] = NoAppend]
    /\ handler' = IF handler[e].pc = "sending" /\ handler[e].try = n
                  THEN [handler EXCEPT ![e].answer = answer] ELSE handler

\* The transaction is rolled back.
AppendFails(e, n) ==
    /\ append[<<e, n>>].pc \in {"open", "locked"}
    /\ Reply(e, n, "error")
    /\ UNCHANGED <<log, queue, forwarded, doubtful>>

\* After the commit: submit, which drops the record when the queue is full, and the answer.
Submit(e, n) ==
    /\ append[<<e, n>>].pc = "committed"
    /\ Reply(e, n, "created")
    /\ queue' = IF Len(queue) < QueueSize THEN Append(queue, append[<<e, n>>].seq) ELSE queue
    /\ UNCHANGED <<log, forwarded, doubtful>>

\* SiemForwarder.run: the record is accepted, or given up after its attempts.
Forward ==
    /\ queue # <<>>
    /\ queue' = Tail(queue)
    /\ forwarded' \in {forwarded, forwarded \cup {Head(queue)}}
    /\ UNCHANGED <<log, handler, append, doubtful>>

\* The audit service's process stops: what it holds in memory and what it is executing is lost.
AuditCrash ==
    /\ append' = [x \in Events \X Tries |-> NoAppend]
    /\ queue' = <<>>
    /\ UNCHANGED <<log, handler, forwarded, doubtful>>

AuditNext ==
    \/ \E e \in Events :
        \/ Change(e) \/ HandlerStops(e) \/ Record(e) \/ Acknowledged(e) \/ Retry(e)
        \/ \E n \in Tries : Lock(e, n) \/ InsertEntry(e, n) \/ AppendFails(e, n) \/ Submit(e, n)
    \/ Forward \/ AuditCrash

AuditSpec == AuditInit /\ [][AuditNext]_auditVars

-----------------------------------------------------------------------------
(* Properties *)

Copies(e) == Cardinality({i \in DOMAIN log : log[i].event = e})

Without(i) == SubSeq(log, 1, i - 1) \o SubSeq(log, i + 1, Len(log))

Swapped(i, j) == [log EXCEPT ![i] = log[j], ![j] = log[i]]

\* The chain verifies whatever overlaps and fails, and stops doing so when a row but the last is
\* removed, two are swapped, or one is changed; and the SIEM only gets what is in it.  What a
\* handler has answered as done is in the trail; what is in the trail was done, and is there once
\* unless an attempt of its handler was given up.
TrailHolds ==
    /\ AuditTypeOK
    /\ verify_rows(log)
    /\ \A i \in DOMAIN log :
         /\ verify_rows(Without(i)) => i = Len(log)
         /\ \A j \in DOMAIN log : verify_rows(Swapped(i, j)) => i = j
         /\ \A e \in Events : verify_rows([log EXCEPT ![i].event = e]) => e = log[i].event
    /\ forwarded \cup {queue[k] : k \in DOMAIN queue} \subseteq DOMAIN log
    /\ \A e \in Events :
         /\ handler[e].pc = "recorded" => Copies(e) > 0
         /\ Copies(e) > 0 => handler[e].pc # "new"
         /\ Copies(e) <= 1 \/ e \in doubtful
=============================================================================
