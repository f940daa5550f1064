----------------------------- MODULE MCPlatform -----------------------------
(***************************************************************************)
(* Instances of components that share no state with each other: each       *)
(* behaviour is one of a single part, chosen in the initial state, in      *)
(* which the others stay as they are.  The states of the parts add up.     *)
(*                                                                         *)
(* The records of the platform: appointments and offers of slots,          *)
(* documents, malware samples, the audit trail and messages sent.          *)
(***************************************************************************)
EXTENDS Bookings, Slots, Knowledge, Samples, Audit, Outbox, TLC

CONSTANTS k1, k2, k3, k4

VARIABLE part

MCSlot == (k1 :> 1) @@ (k2 :> 2) @@ (k3 :> 4) @@ (k4 :> 5)
MCFrom == (k1 :> None) @@ (k2 :> None) @@ (k3 :> k1) @@ (k4 :> k1)

\* Working hours of three days, the second one closed.
MCHours == [d \in 0 .. 2 |-> CASE d = 0 -> << <<1, 6>> >>
                               [] d = 1 -> <<>>
                               [] d = 2 -> << <<0, 2>>, <<2, 6>> >>]

\* A business in the west that sets its clock forward, one in the east that sets it back.
West == [offset |-> -3, shift |-> 1]
East == [offset |-> 2, shift |-> -1]

\* One whose wall clock goes on to midnight: what it skips is the end of a day.
FarEast == [offset |-> 8, shift |-> 3]
MCZones == {West, East, FarEast}

MCMeetings == {<<5, 6>>, <<12, 13>>}

Parts == {"bookings", "slots", "knowledge", "samples", "audit", "outbox"}

\* What the parts but p are made of stays as it is.
Others(p) ==
    /\ UNCHANGED part
    /\ IF p = "bookings" THEN TRUE ELSE UNCHANGED bookingVars
    /\ IF p = "slots" THEN TRUE ELSE UNCHANGED slotVars
    /\ IF p = "knowledge" THEN TRUE ELSE UNCHANGED knowledgeVars
    /\ IF p = "samples" THEN TRUE ELSE UNCHANGED sampleVars
    /\ IF p = "audit" THEN TRUE ELSE UNCHANGED auditVars
    /\ IF p = "outbox" THEN TRUE ELSE UNCHANGED outboxVars

PlatformInit ==
    /\ part \in Parts
    /\ BookingInit /\ SlotsInit /\ KnowledgeInit
    /\ SamplesInit /\ AuditInit /\ OutboxInit
    /\ part = "slots" \/ zone = East

PlatformNext ==
    \/ part = "bookings" /\ BookingNext /\ Others("bookings")
    \/ part = "slots" /\ SlotsNext /\ Others("slots")
    \/ part = "knowledge" /\ KnowledgeNext /\ Others("knowledge")
    \/ part = "samples" /\ SamplesNext /\ Others("samples")
    \/ part = "audit" /\ AuditNext /\ Others("audit")
    \/ part = "outbox" /\ OutboxNext /\ Others("outbox")

PlatformSpec ==
    PlatformInit /\ [][PlatformNext]_<<part, bookingVars, slotVars, knowledgeVars, sampleVars,
                                        auditVars, outboxVars>>

\* Bound of Knowledge: after a commit that met another row than was read, requests come one by one.
KnowledgeBound == stale = {} \/ \E s \in Editors : edits[s] = NoEdit

\* Sets of different parts share model values, so that few permutations serve all parts.
Symmetry == Permutations(Sessions) \cup Permutations(Users) \cup Permutations(Contents)
=============================================================================
