----------------------------- MODULE Reminders -----------------------------
(***************************************************************************)
(* Scheduling and notifications together: after the commit of a booking,   *)
(* a rescheduling or a cancellation, the handler calls the notification    *)
(* service, to cancel the reminders of an ended appointment and to enqueue *)
(* those of a new one.  Between the commit and the calls, and between the  *)
(* calls, other requests and the delivery go on.                           *)
(*                                                                         *)
(* One note stands for the reminders of one appointment; Notes are the     *)
(* appointments whose reminders are looked at.  Confirmations are due at   *)
(* once, and nothing cancels them: they are left out.                      *)
(***************************************************************************)
EXTENDS Bookings, Notifications, Sequences

ASSUME ReminderAssumption == Notes \subseteq Keys /\ Later = Notes

VARIABLES
    called,   \* how many calls each session has made since its commit
    missed    \* history: ended appointments whose reminder was not cancelled in time

vars == <<bookingVars, queueVars, called, missed>>

TypeOK ==
    /\ BookingTypeOK
    /\ QueueTypeOK
    /\ called \in [Sessions -> 0 .. 3]
    /\ missed \subseteq Notes

Init == BookingInit /\ QueueInit /\ called = [s \in Sessions |-> 0] /\ missed = {}

-----------------------------------------------------------------------------

Stop(k)   == [op |-> "stop", key |-> k]
Remind(k) == [op |-> "remind", key |-> k]

\* Mutant of Calls: the old appointment's reminders are left to their fate.
CallsForNew(s) ==
    LET k == txn[s].key
    IN  CASE txn[s].kind = "book"       -> <<Remind(k)>>
          [] txn[s].kind = "reschedule" -> <<Stop(k), Remind(k)>>
          [] txn[s].kind = "cancel"     -> <<Stop(k)>>
          [] OTHER                      -> <<>>

\* The calls of the request of session s after its commit.
Calls(s) ==
    LET k == txn[s].key
    IN  CASE txn[s].kind = "book"       -> <<Remind(k)>>
          [] txn[s].kind = "reschedule" -> <<Stop(From[k]), Stop(k), Remind(k)>>
          [] txn[s].kind = "cancel"     -> <<Stop(k)>>
          [] OTHER                      -> <<>>

ToDo(s) == IF txn[s].pc = "committed" THEN SubSeq(Calls(s), called[s] + 1, Len(Calls(s)))
                                      ELSE <<>>

\* The appointment of k is over.
Ended(k) == appt[k].status \in {"CANCELLED", "RESCHEDULED"}

\* A stop comes too late for a note that is due or being sent, and a reminder for an
\* appointment that is over.
TooLate(c) ==
    \/ /\ c.op = "stop"
       /\ note[c.key].status \in {"SCHEDULED", "SENDING"} /\ c.key \notin Cancellable(Notes)
    \/ c.op = "remind" /\ Ended(c.key)

Call(s) ==
    LET c == Head(ToDo(s))
    IN  /\ ToDo(s) # <<>>
        /\ \/ c.key \notin Notes /\ UNCHANGED queueVars
           \/ c.key \in Notes /\ c.op = "stop" /\ CancelRelated({c.key})
           \/ c.key \in Notes /\ c.op = "remind" /\ Enqueue(c.key)
        /\ called' = [called EXCEPT ![s] = @ + 1]
        /\ missed' = IF c.key \in Notes /\ TooLate(c) THEN missed \cup {c.key} ELSE missed
        /\ UNCHANGED bookingVars

\* The first n calls that are left are not made.
Skip(s, n) ==
    /\ called' = [called EXCEPT ![s] = @ + n]
    /\ missed' = missed \cup {k \in Notes : \E i \in 1 .. n : ToDo(s)[i] = Stop(k)}
    /\ UNCHANGED <<bookingVars, queueVars>>

\* A call fails: so do those that follow it in _after_change; the first call of a
\* rescheduling is made before, and its failure is caught.
CallFails(s) ==
    /\ ToDo(s) # <<>>
    /\ Skip(s, IF txn[s].kind = "reschedule" /\ called[s] = 0 THEN 1 ELSE Len(ToDo(s)))

\* The audit record fails, or the process dies: nothing that is left is called.
CallsLost(s) == ToDo(s) # <<>> /\ Skip(s, Len(ToDo(s)))

Answer(s) ==
    /\ ToDo(s) = <<>>
    /\ Respond(s)
    /\ called' = [called EXCEPT ![s] = 0]
    /\ UNCHANGED <<queueVars, missed>>

\* A step of a booking, rescheduling or cancellation up to its commit.
Schedule(s) ==
    /\ Handle(s) \/ BookCommit(s) \/ EndCommit(s)
    /\ UNCHANGED <<queueVars, called, missed>>

Request(s, k) == Receive(s, k) /\ UNCHANGED <<queueVars, called, missed>>

After(s) == Call(s) \/ CallFails(s) \/ CallsLost(s) \/ Answer(s)

Next ==
    \/ \E s \in Sessions, k \in Keys : Request(s, k)
    \/ \E s \in Sessions : Schedule(s) \/ After(s)
    \/ QueueStep /\ UNCHANGED <<bookingVars, called, missed>>

Spec == Init /\ [][Next]_vars

\* Clocks run and the workers poll: their loop catches every exception.  A delivery ends, by
\* the timeouts of the channels.
Fairness ==
    /\ \A n \in Notes : WF_vars(Due(n) /\ UNCHANGED <<bookingVars, called, missed>>)
    /\ \A d \in Deliverers :
         /\ WF_vars(Claim(d) /\ UNCHANGED <<bookingVars, called, missed>>)
         /\ WF_vars(Deliver(d) /\ UNCHANGED <<bookingVars, called, missed>>)

FairSpec == Spec /\ Fairness

-----------------------------------------------------------------------------
(* Properties *)

\* A note is sent once (SentOnce), and a reminder is not on its way for an appointment that is
\* over, while no request is about to cancel it; except where the cancellation found it due or
\* sent for already, came before the reminder, or was not made.
RemindersStop ==
    /\ TypeOK /\ SentOnce
    /\ \A k \in Notes \ missed : Ended(k) /\ note[k].status \in {"SCHEDULED", "SENDING"} =>
        \E s \in Sessions : \E i \in 1 .. Len(ToDo(s)) : ToDo(s)[i] = Stop(k)

\* All of this after every step; and the reminder of an appointment that is still booked is not
\* cancelled by another request, unless the appointment was rescheduled to by two requests at
\* once.
RemindersFollow ==
    [][/\ RemindersStop'
       /\ \A k \in Notes : note[k].status = "SCHEDULED" /\ note'[k].status = "CANCELLED" =>
            Ended(k) \/ From[k] \in overtaken']_vars

\* No worker holds the note, and none will claim it again.
Forgotten(n) == note[n].status = "SENDING" /\ \A d \in Deliverers : n \notin batch[d]

\* What is enqueued is sent, cancelled or given up, or was claimed by a worker that was cut
\* off.
RemindersSettle ==
    \A n \in Notes : note[n].status = "SCHEDULED" ~>
        note[n].status \in {"SENT", "CANCELLED", "FAILED"} \/ Forgotten(n)
=============================================================================
