------------------------------ MODULE Bookings ------------------------------
(***************************************************************************)
(* Appointments of the scheduling service: rows of appointments that are   *)
(* booked, rescheduled and cancelled, and their events in the calendar of  *)
(* an external provider (Google, Microsoft 365), which book writes inside  *)
(* its transaction.                                                        *)
(*                                                                         *)
(* book holds an advisory lock on the calendar from its checks to its      *)
(* commit.  reschedule first flushes the old row, which takes its row      *)
(* lock, and then books.  Both reschedule and cancel check a row that they *)
(* read without a lock.                                                    *)
(*                                                                         *)
(* An appointment stands for its idempotency key, which is unique in the   *)
(* table.  The caller derives the key of a booking from the offered slot,  *)
(* and that of a rescheduling from the old appointment and the slot, so a  *)
(* key determines both.  All appointments are on one calendar.             *)
(***************************************************************************)
EXTENDS Integers, FiniteSets

CONSTANTS
    Keys,         \* idempotency keys
    Slot,         \* Keys -> start of the slot that the key books
    From,         \* Keys -> the appointment that the key reschedules, or None
    Buffer,       \* slots closer than this exclude each other
    Sessions,     \* requests served at once
    None,         \* SQL NULL
    MaxAttempts   \* bound: events that are created for one key

ASSUME BookingAssumption ==
    /\ Slot \in [Keys -> Int]
    /\ From \in [Keys -> Keys \cup {None}]
    /\ Buffer \in Nat /\ MaxAttempts \in Nat
    /\ None \notin Keys \cup Sessions

VARIABLES
    appt,          \* appointments, as committed
    calendar,      \* events at the provider
    attempts,      \* events created so far for each key: each has a new id
    txn,           \* the open request of each session
    calendarLock,  \* the session that holds the advisory lock of the calendar
    rowLock,       \* the session that holds each row's lock
    astray,        \* history: keys on whose event a request was cut off
    overtaken      \* history: appointments that were ended twice

bookingVars == <<appt, calendar, attempts, txn, calendarLock, rowLock, astray, overtaken>>

\* event: which of the key's attempts external_event_id names, or 0.
Appt == [status : {"ABSENT", "BOOKED", "CANCELLED", "RESCHEDULED"}, event : Nat]

NoAppt == [status |-> "ABSENT", event |-> 0]

\* seen: external_event_id of the appointment to be ended, as read.  made: the attempt
\* this request has made, or 0.
Txn == [kind : {"idle", "book", "reschedule", "cancel"},
        pc   : {"read", "ready", "inserted", "created", "removed", "committed"},
        key  : Keys \cup {None},
        seen : Nat,
        made : Nat]

Idle == [kind |-> "idle", pc |-> "read", key |-> None, seen |-> 0, made |-> 0]

BookingTypeOK ==
    /\ appt \in [Keys -> Appt]
    /\ calendar \subseteq Keys \X Nat
    /\ attempts \in [Keys -> Nat]
    /\ txn \in [Sessions -> Txn]
    /\ calendarLock \in Sessions \cup {None}
    /\ rowLock \in [Keys -> Sessions \cup {None}]
    /\ astray \subseteq Keys /\ overtaken \subseteq Keys

BookingInit ==
    /\ appt = [k \in Keys |-> NoAppt]
    /\ calendar = {}
    /\ attempts = [k \in Keys |-> 0]
    /\ txn = [s \in Sessions |-> Idle]
    /\ calendarLock = None
    /\ rowLock = [k \in Keys |-> None]
    /\ astray = {} /\ overtaken = {}

-----------------------------------------------------------------------------
(* Transactions *)

At(s, kinds, pc) == txn[s].kind \in kinds /\ txn[s].pc = pc

Begin(s, t) ==
    /\ txn[s] = Idle
    /\ txn' = [txn EXCEPT ![s] = t]
    /\ UNCHANGED <<appt, calendar, attempts, calendarLock, rowLock, astray, overtaken>>

Goto(s, pc) == txn' = [txn EXCEPT ![s].pc = pc]

\* The locks of session s end with its transaction.
Unlock(s) ==
    /\ calendarLock' = IF calendarLock = s THEN None ELSE calendarLock
    /\ rowLock' = [k \in Keys |-> IF rowLock[k] = s THEN None ELSE rowLock[k]]

\* The appointment that the request of session s ends, if it ends one.
Ends(s) == CASE txn[s].kind = "cancel"     -> txn[s].key
             [] txn[s].kind = "reschedule" -> From[txn[s].key]
             [] OTHER                      -> None

-----------------------------------------------------------------------------
(* book *)

Near(i, k) == Slot[i] - Slot[k] \in -Buffer .. Buffer

\* provider.busy and _db_busy, as the transaction of session s sees them: an appointment it
\* reschedules is no longer BOOKED for it, but still in the calendar.
Busy(s, k) ==
    \/ \E e \in calendar : Near(e[1], k)
    \/ \E i \in Keys : appt[i].status = "BOOKED" /\ Near(i, k) /\ i # Ends(s)

\* A request to book under a key that exists is answered with its appointment.
BookRead(s, k) ==
    /\ From[k] = None
    /\ appt[k].status = "ABSENT"
    /\ Begin(s, [kind |-> "book", pc |-> "ready", key |-> k, seen |-> 0, made |-> 0])

\* Mutant of Insert: the calendar is not locked.
InsertUnlocked(s) ==
    LET k == txn[s].key
    IN  /\ At(s, {"book", "reschedule"}, "ready")
        /\ appt[k].status = "ABSENT"
        /\ ~Busy(s, k)
        /\ Goto(s, "inserted")
        /\ UNCHANGED <<appt, calendar, attempts, calendarLock, rowLock, astray, overtaken>>

\* The advisory lock, the checks under it and the flush of the new row.
Insert(s) ==
    LET k == txn[s].key
    IN  /\ At(s, {"book", "reschedule"}, "ready")
        /\ calendarLock = None
        /\ appt[k].status = "ABSENT"
        /\ ~Busy(s, k)
        /\ calendarLock' = s
        /\ Goto(s, "inserted")
        /\ UNCHANGED <<appt, calendar, attempts, rowLock, astray, overtaken>>

\* The provider creates the event of the new row, under an id drawn for this row.
Creates(s) ==
    LET k == txn[s].key
    IN  /\ At(s, {"book", "reschedule"}, "inserted")
        /\ attempts[k] < MaxAttempts
        /\ attempts' = [attempts EXCEPT ![k] = @ + 1]
        /\ calendar' = calendar \cup {<<k, attempts[k] + 1>>}
        /\ UNCHANGED <<appt, overtaken>>

CreateEvent(s) ==
    /\ Creates(s)
    /\ txn' = [txn EXCEPT ![s].pc = "created", ![s].made = attempts[txn[s].key] + 1]
    /\ UNCHANGED <<calendarLock, rowLock, astray>>

\* The event is created but the call raises.
CreateLost(s) ==
    /\ Creates(s)
    /\ txn' = [txn EXCEPT ![s] = Idle]
    /\ astray' = astray \cup {txn[s].key}
    /\ Unlock(s)

BookCommit(s) ==
    LET t == txn[s]
    IN  /\ At(s, {"book"}, "created")
        /\ appt' = [appt EXCEPT ![t.key] = [status |-> "BOOKED", event |-> t.made]]
        /\ Goto(s, "committed")
        /\ Unlock(s)
        /\ UNCHANGED <<calendar, attempts, astray, overtaken>>

-----------------------------------------------------------------------------
(* reschedule and cancel *)

\* reschedule, up to its check of the old appointment.
RescheduleRead(s, k) ==
    /\ From[k] # None
    /\ appt[From[k]].status = "BOOKED"
    /\ Begin(s, [kind |-> "reschedule", pc |-> "read", key |-> k,
                 seen |-> appt[From[k]].event, made |-> 0])

\* The flush of RESCHEDULED waits for the row lock, whatever the row has become; book then
\* finds the key, or has to insert it.
RescheduleFlush(s) ==
    LET t == txn[s]
    IN  /\ At(s, {"reschedule"}, "read")
        /\ rowLock[From[t.key]] = None
        /\ rowLock' = [rowLock EXCEPT ![From[t.key]] = s]
        /\ Goto(s, IF appt[t.key].status = "ABSENT" THEN "ready" ELSE "created")
        /\ UNCHANGED <<appt, calendar, attempts, calendarLock, astray, overtaken>>

\* cancel, up to its check.
CancelRead(s, k) ==
    /\ appt[k].status = "BOOKED"
    /\ Begin(s, [kind |-> "cancel", pc |-> "read", key |-> k, seen |-> appt[k].event, made |-> 0])

\* The provider cancels the event of the appointment to be ended; one that is gone is fine.
RemoveEvent(s) ==
    /\ At(s, {"reschedule"}, "created") \/ At(s, {"cancel"}, "read")
    /\ calendar' = calendar \ {<<Ends(s), txn[s].seen>>}
    /\ Goto(s, "removed")
    /\ UNCHANGED <<appt, attempts, calendarLock, rowLock, astray, overtaken>>

\* The rows that session s leaves when it ends appointment a with status end.
Settled(s, a, end) ==
    [i \in Keys |->
        CASE i = a                               -> [appt[i] EXCEPT !.status = end]
          [] i = txn[s].key /\ txn[s].made # 0   -> [status |-> "BOOKED", event |-> txn[s].made]
          [] OTHER                               -> appt[i]]

EndStatus(s) == IF txn[s].kind = "cancel" THEN "CANCELLED" ELSE "RESCHEDULED"

\* The commit: the old appointment is ended, and a rescheduling's new one is booked with it,
\* unless its key was found.
EndCommit(s) ==
    LET a == Ends(s)
    IN  /\ At(s, {"reschedule", "cancel"}, "removed")
        /\ rowLock[a] \in {None, s}
        /\ appt' = Settled(s, a, EndStatus(s))
        /\ overtaken' = IF appt[a].status = "BOOKED" THEN overtaken ELSE overtaken \cup {a}
        /\ Goto(s, "committed")
        /\ Unlock(s)
        /\ UNCHANGED <<calendar, attempts, astray>>

-----------------------------------------------------------------------------

\* The request is over: _after_change is done, and the answer sent.
Respond(s) ==
    /\ txn[s].pc = "committed"
    /\ txn' = [txn EXCEPT ![s] = Idle]
    /\ UNCHANGED <<appt, calendar, attempts, calendarLock, rowLock, astray, overtaken>>

\* A request is refused, fails or is cut off before its commit: the database rolls back, the
\* calendar does not.
Abort(s) ==
    LET t == txn[s]
    IN  /\ t # Idle /\ t.pc # "committed"
        /\ astray' = astray \cup (IF t.made # 0 THEN {t.key} ELSE {})
                            \cup (IF t.pc = "removed" THEN {Ends(s)} ELSE {})
        /\ txn' = [txn EXCEPT ![s] = Idle]
        /\ Unlock(s)
        /\ UNCHANGED <<appt, calendar, attempts, overtaken>>

\* What a session does up to its commit, and after it.
Handle(s) ==
    \/ Insert(s) \/ CreateEvent(s) \/ CreateLost(s) \/ RescheduleFlush(s)
    \/ RemoveEvent(s) \/ Abort(s)

Receive(s, k) == BookRead(s, k) \/ RescheduleRead(s, k) \/ CancelRead(s, k)

BookingNext ==
    \/ \E s \in Sessions, k \in Keys : Receive(s, k)
    \/ \E s \in Sessions : Handle(s) \/ BookCommit(s) \/ EndCommit(s) \/ Respond(s)

BookingSpec == BookingInit /\ [][BookingNext]_bookingVars

-----------------------------------------------------------------------------
(* Properties *)

\* Appointments that are booked, or that a session is about to book.
Taken == {k \in Keys : \/ appt[k].status = "BOOKED"
                       \/ \E s \in Sessions : /\ txn[s].key = k
                                              /\ \/ At(s, {"book", "reschedule"}, "inserted")
                                                 \/ txn[s].made # 0 /\ txn[s].pc # "committed"}

\* Session s will end appointment k, whose event it has removed, or has created the event of
\* k and will book it.
Settling(s, k) ==
    \/ Ends(s) = k /\ txn[s].pc = "removed"
    \/ txn[s].key = k /\ txn[s].made # 0 /\ txn[s].pc # "committed"

\* The calendar and the table agree on key k.
Agrees(k) ==
    {e \in calendar : e[1] = k} =
        IF appt[k].status = "BOOKED" THEN {<<k, appt[k].event>>} ELSE {}

\* The appointments that replaced a.
Successors(a) == {k \in Keys : From[k] = a /\ appt[k].status # "ABSENT"}

\* "Double-booking is prevented": no two booked appointments are closer than the buffer, of
\* which the exclusion constraint of the table knows nothing; an appointment that a session
\* is just replacing does not count for the one that replaces it.  A booked appointment is in
\* the calendar, once, and an event is that of a booked appointment, except while a session is
\* between the two, and for keys on whose event a request was cut off.  And an appointment is
\* replaced by at most one other, and one that was cancelled by none, unless two requests
\* ended it at once.
BookingsAgree ==
    /\ BookingTypeOK
    /\ \A i, k \in Taken : i # k /\ i # From[k] /\ k # From[i] => ~Near(i, k)
    /\ \A k \in Keys \ astray : Agrees(k) \/ \E s \in Sessions : Settling(s, k)
    /\ \A a \in Keys \ overtaken :
         Cardinality(Successors(a)) = IF appt[a].status = "RESCHEDULED" THEN 1 ELSE 0

\* All of this holds after every step; and an appointment that is over keeps its status and its
\* event: a late commit of another request changes neither, unless it ends the appointment a
\* second time.
BookingStep ==
    /\ BookingsAgree'
    /\ \A k \in Keys : appt[k].status \in {"CANCELLED", "RESCHEDULED"} =>
         appt'[k] = appt[k] \/ k \in overtaken'

BookingsHold == [][BookingStep]_bookingVars
=============================================================================
