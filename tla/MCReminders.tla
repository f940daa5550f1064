---------------------------- MODULE MCReminders ----------------------------
(***************************************************************************)
(* Instances of Reminders: an appointment is rescheduled, the new one is   *)
(* looked at and rescheduled in its turn.                                  *)
(***************************************************************************)
EXTENDS Reminders, TLC

CONSTANTS k1, k2, k3

MCSlot == (k1 :> 1) @@ (k2 :> 3) @@ (k3 :> 5)
MCFrom == (k1 :> None) @@ (k2 :> k1) @@ (k3 :> k2)

\* All but astray, which no action and no property of Reminders reads.
View == <<appt, calendar, attempts, txn, calendarLock, rowLock, overtaken,
          queueVars, called, missed>>
=============================================================================
