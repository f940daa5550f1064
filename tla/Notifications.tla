--------------------------- MODULE Notifications ---------------------------
(***************************************************************************)
(* The notification queue: rows of notifications that callers enqueue and  *)
(* cancel, and the workers that claim what is due and deliver it.          *)
(*                                                                         *)
(* A claim is one UPDATE ... FOR UPDATE SKIP LOCKED that commits before    *)
(* the deliveries; each delivery is a transaction of its own, in which the *)
(* message is sent before SENT is committed.                               *)
(*                                                                         *)
(* A note stands for its idempotency key, which is unique in the table.    *)
(***************************************************************************)
EXTENDS Naturals

CONSTANTS
    Notes,        \* idempotency keys
    Later,        \* notes with a scheduled_for in the future
    Deliverers,   \* workers that claim and deliver
    MaxTries      \* max_attempts

ASSUME NoteAssumption == Later \subseteq Notes /\ MaxTries \in Nat \ {0}

VARIABLES
    note,      \* notifications, as committed
    batch,     \* what each worker has claimed and not delivered
    sending,   \* the notes of a batch that were sent in a transaction still open
    sent,      \* history: messages handed over for each note
    unsure     \* history: notes whose message was handed over, but not recorded

queueVars == <<note, batch, sending, sent, unsure>>

\* due: scheduled_for has come.  logged: provider_message_id is set.  SENT stands for
\* DELIVERED and READ also.
Note == [status : {"ABSENT", "SCHEDULED", "SENDING", "SENT", "FAILED", "CANCELLED"},
         due : BOOLEAN, tries : Nat, logged : BOOLEAN]

NoNote == [status |-> "ABSENT", due |-> FALSE, tries |-> 0, logged |-> FALSE]

QueueTypeOK ==
    /\ note \in [Notes -> Note]
    /\ batch \in [Deliverers -> SUBSET Notes]
    /\ sending \in [Deliverers -> SUBSET Notes]
    /\ sent \in [Notes -> Nat]
    /\ unsure \subseteq Notes

QueueInit ==
    /\ note = [n \in Notes |-> NoNote]
    /\ batch = [d \in Deliverers |-> {}]
    /\ sending = [d \in Deliverers |-> {}]
    /\ sent = [n \in Notes |-> 0]
    /\ unsure = {}

-----------------------------------------------------------------------------
(* Callers *)

\* enqueue: a note that exists stays as it is, one whose time passed minutes ago is
\* cancelled at once.
Enqueue(n) ==
    /\ \/ note[n].status # "ABSENT" /\ UNCHANGED note
       \/ /\ note[n].status = "ABSENT"
          /\ \E due \in BOOLEAN :
               /\ due \/ n \in Later
               /\ note' = [note EXCEPT ![n] = [NoNote EXCEPT !.status = "SCHEDULED", !.due = due]]
       \/ /\ note[n].status = "ABSENT" /\ n \in Later
          /\ note' = [note EXCEPT ![n] = [NoNote EXCEPT !.status = "CANCELLED", !.due = TRUE]]
    /\ UNCHANGED <<batch, sending, sent, unsure>>

\* What cancel_related cancels of the notes in N.
Cancellable(N) == {n \in N : note[n].status = "SCHEDULED" /\ ~note[n].due}

CancelRelated(N) ==
    /\ note' = [n \in Notes |-> IF n \in Cancellable(N) THEN [note[n] EXCEPT !.status = "CANCELLED"]
                                                        ELSE note[n]]
    /\ UNCHANGED <<batch, sending, sent, unsure>>

-----------------------------------------------------------------------------
(* Delivery *)

\* scheduled_for comes.
Due(n) ==
    /\ note[n].status = "SCHEDULED" /\ ~note[n].due
    /\ note' = [note EXCEPT ![n].due = TRUE]
    /\ UNCHANGED <<batch, sending, sent, unsure>>

\* Mutant of Claimable: what was tried before is not tried again.
ClaimableNew == {n \in Notes : note[n].status = "SCHEDULED" /\ note[n].due /\ note[n].tries = 0}

\* The rows that app_claim_due_notifications selects.
Claimable == {n \in Notes : note[n].status = "SCHEDULED" /\ note[n].due}

\* app_claim_due_notifications: some of the due notes, depending on the limit and on the
\* locks of others.
Claim(d) ==
    /\ batch[d] = {}
    /\ \E B \in SUBSET Claimable \ {{}} :
         /\ batch' = [batch EXCEPT ![d] = B]
         /\ note' = [n \in Notes |->
              IF n \in B THEN [note[n] EXCEPT !.status = "SENDING", !.tries = @ + 1]
                         ELSE note[n]]
    /\ UNCHANGED <<sending, sent, unsure>>

\* deliver sends the message; its transaction is open.
Send(d, n) ==
    /\ n \in batch[d] \ sending[d] /\ sending[d] = {}
    /\ note[n].status = "SENDING"
    /\ sending' = [sending EXCEPT ![d] = {n}]
    /\ sent' = [sent EXCEPT ![n] = @ + 1]
    /\ UNCHANGED <<note, batch, unsure>>

\* Worker d commits q for note n and goes on with its batch.
Finish(d, n, q) ==
    /\ note' = [note EXCEPT ![n] = q]
    /\ batch' = [batch EXCEPT ![d] = @ \ {n}]
    /\ sending' = [sending EXCEPT ![d] = {}]

\* The commit of SENT.
Delivered(d, n) ==
    /\ n \in sending[d]
    /\ Finish(d, n, [note[n] EXCEPT !.status = "SENT", !.logged = TRUE])
    /\ UNCHANGED <<sent, unsure>>

\* _Skip: no consent, no address, channel not configured.
Skipped(d, n) ==
    /\ n \in batch[d] /\ sending[d] = {}
    /\ Finish(d, n, [note[n] EXCEPT !.status = "CANCELLED"])
    /\ UNCHANGED <<sent, unsure>>

\* The row after a failed attempt: rescheduled with backoff, or FAILED after the last one.
Retried(q) == IF q.tries >= MaxTries THEN [q EXCEPT !.status = "FAILED"]
                                     ELSE [q EXCEPT !.status = "SCHEDULED", !.due = FALSE]

\* The channel raises, before the message is handed over or after (the answer is lost).
Refused(d, n) ==
    /\ n \in batch[d] /\ sending[d] \in {{}, {n}}
    /\ Finish(d, n, Retried(note[n]))
    /\ unsure' = unsure \cup sending[d]
    /\ UNCHANGED sent

\* The worker dies, or an exception of another kind ends its iteration: the delivery is rolled
\* back and the rest of the batch is forgotten.
CutOff(d) ==
    /\ batch[d] # {}
    /\ batch' = [batch EXCEPT ![d] = {}]
    /\ sending' = [sending EXCEPT ![d] = {}]
    /\ unsure' = unsure \cup sending[d]
    /\ UNCHANGED <<note, sent>>

\* The WhatsApp service reports on a message: whatever the row says, it says that.
Report(n) ==
    /\ note[n].logged
    /\ \E v \in {"SENT", "FAILED"} : note' = [note EXCEPT ![n].status = v]
    /\ UNCHANGED <<batch, sending, sent, unsure>>

Deliver(d) == \E n \in Notes : Send(d, n) \/ Delivered(d, n) \/ Skipped(d, n) \/ Refused(d, n)

QueueStep ==
    \/ \E n \in Notes : Due(n) \/ Report(n)
    \/ \E d \in Deliverers : Claim(d) \/ Deliver(d) \/ CutOff(d)

-----------------------------------------------------------------------------
(* Properties *)

\* What a worker has claimed is SENDING and nobody else's.
ClaimedOnce ==
    /\ \A c, d \in Deliverers : c # d => batch[c] \cap batch[d] = {}
    /\ \A d \in Deliverers, n \in Notes : n \in batch[d] => note[n].status = "SENDING"

\* No two workers deliver the same note, whatever is enqueued, cancelled or reported meanwhile,
\* and a message is sent once, or not at all, unless the channel's answer or the commit of SENT
\* was lost; and never more often than max_attempts.
SentOnce ==
    /\ ClaimedOnce
    /\ \A n \in Notes : /\ sent[n] > 1 => n \in unsure
                        /\ sent[n] <= MaxTries
                        /\ note[n].status = "SENT" => sent[n] > 0
=============================================================================
