--------------------------------- MODULE Crm ---------------------------------
(***************************************************************************)
(* The CRM: contacts that customers leave with SAMIIR, staff keep and      *)
(* erase, and the opportunities that SAMIIR, the scheduling service and    *)
(* staff move along the pipeline.                                          *)
(*                                                                         *)
(* Every handler is one transaction without row locks: it reads, and later *)
(* writes the columns whose value it has changed from what it read.        *)
(***************************************************************************)
EXTENDS Naturals, Sequences, FiniteSets

CONSTANTS
    Emails, Phones,     \* blind indexes; a phone stands for the WhatsApp identity, too
    Txns,               \* handlers that overlap
    Wanted,             \* stages that staff ask for
    MaxContacts, MaxOpps, MaxVersion,   \* bounds: rows, versions and changes of an opportunity
    None

VARIABLES
    contact,    \* contacts: rows, in the order of their commits
    opp,        \* opportunities
    txn,        \* handlers under way
    changes,    \* history: commits that changed an opportunity's stage or fields, by number
    silent,     \* history: those of them that left its version as it was
    stale,      \* history: contacts a commit wrote to that were not as it had read them
    overtaken,  \* history: opportunities, likewise
    extra       \* history: contacts for which staff opened an opportunity, or for which a lookup
                \* that found none was out of date when its opportunity was made

vars == <<contact, opp, txn, changes, silent, stale, overtaken, extra>>

Stages == {"NEW_LEAD", "QUALIFIED", "APPOINTMENT_BOOKED", "SECURITY_REVIEW", "PROPOSAL",
           "NEGOTIATION", "WON", "LOST"}

ASSUME CrmAssumption ==
    /\ None \notin Emails \cup Phones
    /\ Wanted \subseteq Stages
    /\ MaxContacts \in Nat /\ MaxOpps \in Nat /\ MaxVersion \in Nat

\* PIPELINE_TRANSITIONS.
Follows ==
    [NEW_LEAD           |-> {"QUALIFIED", "APPOINTMENT_BOOKED", "LOST"},
     QUALIFIED          |-> {"APPOINTMENT_BOOKED", "SECURITY_REVIEW", "PROPOSAL", "LOST"},
     APPOINTMENT_BOOKED |-> {"QUALIFIED", "SECURITY_REVIEW", "PROPOSAL", "LOST"},
     SECURITY_REVIEW    |-> {"PROPOSAL", "APPOINTMENT_BOOKED", "LOST"},
     PROPOSAL           |-> {"NEGOTIATION", "WON", "LOST"},
     NEGOTIATION        |-> {"PROPOSAL", "WON", "LOST"},
     WON                |-> {},
     LOST               |-> {"NEW_LEAD"}]

\* Mutant of OpenStages: an opportunity under negotiation is not looked up.
OpenStagesFirst == {"NEW_LEAD", "QUALIFIED", "APPOINTMENT_BOOKED", "SECURITY_REVIEW", "PROPOSAL"}

OpenStages == Stages \ {"WON", "LOST"}

ContactIds == 1 .. MaxContacts
OppIds == 1 .. MaxOpps

Person == [state : {"LIVE", "ERASED"}, email : Emails \cup {None}, phone : Phones \cup {None}]

\* fields: the title, the service interest and the qualification, as the number of the change that
\* wrote them last.
Opportunity == [contact : ContactIds, stage : Stages, version : Nat, fields : Nat]

\* op: the handler.  c, o: the rows it found, 0 if none.  was: the contact as read.  stage,
\* version: of the opportunity, as read; version is the one it was called with until then.
\* email, phone, want: what it was called with.  known: changes when its caller looked.
Txn == [op : {"idle", "look", "capture", "qualify", "event", "stage", "patch", "update", "erase"},
        c : ContactIds \cup {0}, o : OppIds \cup {0}, was : Person,
        email : Emails \cup {None}, phone : Phones \cup {None}, want : Stages,
        stage : Stages, version : Nat, known : Nat]

Nobody == [state |-> "LIVE", email |-> None, phone |-> None]

Idle == [op |-> "idle", c |-> 0, o |-> 0, was |-> Nobody, email |-> None, phone |-> None,
         want |-> "NEW_LEAD", stage |-> "NEW_LEAD", version |-> 0, known |-> 0]

TypeOK ==
    /\ contact \in Seq(Person) /\ Len(contact) <= MaxContacts
    /\ opp \in Seq(Opportunity) /\ Len(opp) <= MaxOpps
    /\ txn \in [Txns -> Txn]
    /\ changes \in [OppIds -> Nat] /\ silent \subseteq OppIds \X Nat
    /\ stale \subseteq ContactIds /\ overtaken \subseteq OppIds /\ extra \subseteq ContactIds

Init ==
    /\ contact = <<>> /\ opp = <<>>
    /\ txn = [t \in Txns |-> Idle]
    /\ changes = [o \in OppIds |-> 0] /\ silent = {}
    /\ stale = {} /\ overtaken = {} /\ extra = {}

Live == {c \in DOMAIN contact : contact[c].state = "LIVE"}

OpenLeads(c) == {o \in DOMAIN opp : opp[o].contact = c /\ opp[o].stage \in OpenStages}

\* The latest open opportunity of a contact, 0 if it has none.
Latest(c) == IF OpenLeads(c) = {} THEN 0
             ELSE CHOOSE o \in OpenLeads(c) : \A x \in OpenLeads(c) : x <= o

Start(t, r) == txn[t].op = "idle" /\ txn' = [txn EXCEPT ![t] = r]

Finish(t) == txn' = [txn EXCEPT ![t] = Idle]

\* The transaction fails: a unique index, a lost connection.
Rollback(t) ==
    /\ txn[t].op # "idle" /\ Finish(t)
    /\ UNCHANGED <<contact, opp, changes, silent, stale, overtaken, extra>>

-----------------------------------------------------------------------------
(* Contacts *)

\* What a commit leaves of a row read as was and changed to new: columns that differ are written.
Written(row, was, new) ==
    [f \in DOMAIN row |-> IF new[f] = was[f] THEN row[f] ELSE new[f]]

\* uq_contacts_tenant_email.
EmailFree(rows) ==
    \A c, d \in DOMAIN rows : c # d /\ rows[c].state = "LIVE" /\ rows[d].state = "LIVE" =>
        rows[c].email = None \/ rows[c].email # rows[d].email

\* The rows after a commit that changes contact c from was to new.
Saved(c, was, new) == [contact EXCEPT ![c] = Written(@, was, new)]

StaleIf(c, was) == IF contact[c] = was THEN stale ELSE stale \cup {c}

Matches(email, phone) ==
    {c \in Live : \/ email # None /\ contact[c].email = email
                  \/ phone # None /\ contact[c].phone = phone}

\* capture_contact: the oldest contact that has the address or the number is looked up.
CaptureRead(t, email, phone) ==
    LET found == Matches(email, phone)
        c == CHOOSE x \in found : \A y \in found : x <= y
    IN /\ email # None \/ phone # None
       /\ Start(t, [Idle EXCEPT !.op = "capture", !.email = email, !.phone = phone,
                                !.c = IF found = {} THEN 0 ELSE c,
                                !.was = IF found = {} THEN Nobody ELSE contact[c]])
       /\ UNCHANGED <<contact, opp, changes, silent, stale, overtaken, extra>>

\* Only empty fields are filled.
Filled(was, email, phone) ==
    [was EXCEPT !.email = IF @ = None THEN email ELSE @,
                !.phone = IF @ = None THEN phone ELSE @]

NewLead(c) == [contact |-> c, stage |-> "NEW_LEAD", version |-> 1, fields |-> 0]

\* The flush of the contact locks its row, or inserts it; the opportunity is looked up, and made
\* if there is none.
CaptureCommit(t) ==
    LET r == txn[t]
        c == IF r.c = 0 THEN Len(contact) + 1 ELSE r.c
        new == Filled(r.was, r.email, r.phone)
    IN /\ r.op = "capture"
       /\ c \in ContactIds
       /\ contact' = IF r.c = 0 THEN Append(contact, new) ELSE Saved(c, r.was, new)
       /\ EmailFree(contact')
       /\ stale' = IF r.c = 0 THEN stale ELSE StaleIf(c, r.was)
       /\ IF Latest(c) = 0
            THEN /\ Len(opp) < MaxOpps
                 /\ opp' = Append(opp, NewLead(c))
            ELSE UNCHANGED opp
       /\ Finish(t)
       /\ UNCHANGED <<changes, silent, overtaken, extra>>

\* create_contact.
CreateContact(email, phone) ==
    /\ Len(contact) < MaxContacts
    /\ contact' = Append(contact, [Nobody EXCEPT !.email = email, !.phone = phone])
    /\ EmailFree(contact')
    /\ UNCHANGED <<opp, txn, changes, silent, stale, overtaken, extra>>

\* update_contact and soft_delete_contact read the contact.
ContactRead(t, op, c, email, phone) ==
    /\ c \in Live
    /\ Start(t, [Idle EXCEPT !.op = op, !.c = c, !.was = contact[c],
                             !.email = email, !.phone = phone])
    /\ UNCHANGED <<contact, opp, changes, silent, stale, overtaken, extra>>

\* update_contact: what the caller has set, None included.
Updated(r) == [r.was EXCEPT !.email = r.email, !.phone = r.phone]

\* Mutant of Erased: the number is kept.
ErasedKeepsPhone(r) == [r.was EXCEPT !.state = "ERASED", !.email = None]

Erased(r) == [state |-> "ERASED", email |-> None, phone |-> None]

ContactCommit(t) ==
    LET r == txn[t]
    IN /\ r.op \in {"update", "erase"}
       /\ contact' = Saved(r.c, r.was, IF r.op = "erase" THEN Erased(r) ELSE Updated(r))
       /\ EmailFree(contact')
       /\ stale' = StaleIf(r.c, r.was)
       /\ Finish(t)
       /\ UNCHANGED <<opp, changes, silent, overtaken, extra>>

-----------------------------------------------------------------------------
(* Opportunities *)

\* qualify, and system_stage_event after a booking: the contact is read, and its open opportunity,
\* or for an event the one that it names.
LeadRead(t, op, c, o) ==
    /\ c \in Live
    /\ \/ o = Latest(c)
       \/ op = "event" /\ o \in DOMAIN opp /\ opp[o].contact = c
    /\ Start(t, [Idle EXCEPT !.op = op, !.c = c, !.o = o,
                             !.was = IF op = "qualify" THEN contact[c] ELSE Nobody,
                             !.stage = IF o = 0 THEN "NEW_LEAD" ELSE opp[o].stage,
                             !.version = IF o = 0 THEN 1 ELSE opp[o].version])
    /\ UNCHANGED <<contact, opp, changes, silent, stale, overtaken, extra>>

\* Mutant of Moves: an agent or a service moves a lead as staff may.
MovesFreely(from, to, human) == from # to /\ to # "WON"

\* _transition.
Moves(from, to, human) == from # to /\ (to \in Follows[from] \/ (human /\ to # "WON"))

\* The row after a transition of a row that was read as r says.
Moved(row, r, to) == [row EXCEPT !.stage = to, !.version = r.version + 1]

\* The row with fields that the next change writes.
Edited(o, row) == [row EXCEPT !.fields = changes[o] + 1]

\* The commit changes the opportunity that r has read.
Move(r, row) ==
    /\ row.version <= MaxVersion
    /\ opp' = [opp EXCEPT ![r.o] = row]
    /\ changes' = [changes EXCEPT ![r.o] = @ + 1]
    /\ UNCHANGED silent
    /\ overtaken' = IF opp[r.o].stage = r.stage /\ opp[r.o].version = r.version THEN overtaken
                    ELSE overtaken \cup {r.o}

\* qualify writes what it was told into the fields of the row, whose version stays.
Requalify(o) ==
    /\ changes[o] < MaxVersion
    /\ opp' = [opp EXCEPT ![o] = Edited(o, @)]
    /\ changes' = [changes EXCEPT ![o] = @ + 1]
    /\ silent' = silent \cup {<<o, changes[o] + 1>>}

\* qualify moves a new lead whose needs are known and whose contact can be reached; an event
\* moves a lead where the pipeline allows it, and is recorded where it does not.
LeadTarget(r) ==
    IF r.op = "event" THEN "APPOINTMENT_BOOKED"
    ELSE IF r.stage = "NEW_LEAD" /\ (r.was.email # None \/ r.was.phone # None) THEN "QUALIFIED"
    ELSE r.stage

LeadCommit(t) ==
    LET r == txn[t]
        to == LeadTarget(r)
    IN /\ r.op \in {"qualify", "event"}
       /\ \/ /\ r.o = 0 /\ Len(opp) < MaxOpps
             /\ \/ opp' = Append(opp, NewLead(r.c))
                \/ /\ Moves("NEW_LEAD", to, FALSE)
                   /\ opp' = Append(opp, Moved(NewLead(r.c), r, to))
             /\ extra' = IF Latest(r.c) = 0 THEN extra ELSE extra \cup {r.c}
             /\ UNCHANGED <<changes, silent, overtaken>>
          \/ /\ r.o # 0 /\ Moves(r.stage, to, FALSE)
             /\ Move(r, IF r.op = "event" THEN Moved(opp[r.o], r, to)
                        ELSE Edited(r.o, Moved(opp[r.o], r, to)))
             /\ UNCHANGED extra
          \/ /\ r.o # 0 /\ r.op = "qualify"
             /\ Requalify(r.o)
             /\ UNCHANGED <<overtaken, extra>>
          \/ /\ r.o # 0 /\ (r.op = "qualify" \/ ~Moves(r.stage, to, FALSE))
             /\ UNCHANGED <<opp, changes, silent, overtaken, extra>>
       /\ Finish(t)
       /\ UNCHANGED <<contact, stale>>

\* create_opportunity.
CreateOpportunity(c) ==
    /\ c \in DOMAIN contact /\ Len(opp) < MaxOpps
    /\ opp' = Append(opp, NewLead(c))
    /\ extra' = extra \cup {c}
    /\ UNCHANGED <<contact, txn, changes, silent, stale, overtaken>>

\* Staff look at an opportunity: the version that they will send.
Look(t, o) ==
    /\ o \in DOMAIN opp
    /\ Start(t, [Idle EXCEPT !.op = "look", !.o = o, !.version = opp[o].version,
                             !.known = changes[o]])
    /\ UNCHANGED <<contact, opp, changes, silent, stale, overtaken, extra>>

\* opp.version = expected_version.
Expected(r) == opp[r.o].version = r.version

\* change_stage and update_opportunity read the opportunity and compare the version.
StaffRead(t, op, want) ==
    LET r == txn[t]
    IN /\ r.op = "look"
       /\ Expected(r)
       /\ \/ op = "patch" \/ opp[r.o].stage = want
          \/ Moves(opp[r.o].stage, want, TRUE)
       /\ txn' = [txn EXCEPT ![t] = [r EXCEPT !.op = op, !.want = want, !.stage = opp[r.o].stage,
                                              !.version = opp[r.o].version]]
       /\ UNCHANGED <<contact, opp, changes, silent, stale, overtaken, extra>>

\* change_stage called without a version: none is compared.
StageRead(t, o, want) ==
    /\ o \in DOMAIN opp
    /\ opp[o].stage = want \/ Moves(opp[o].stage, want, TRUE)
    /\ Start(t, [Idle EXCEPT !.op = "stage", !.o = o, !.want = want, !.stage = opp[o].stage,
                             !.version = opp[o].version, !.known = changes[o]])
    /\ UNCHANGED <<contact, opp, changes, silent, stale, overtaken, extra>>

\* update_opportunity: fields are set.
Patched(r) == Edited(r.o, [opp[r.o] EXCEPT !.version = r.version + 1])

StaffCommit(t) ==
    LET r == txn[t]
    IN /\ \/ r.op = "patch" /\ Move(r, Patched(r))
          \/ r.op = "stage" /\ r.want # r.stage /\ Move(r, Moved(opp[r.o], r, r.want))
          \/ r.op = "stage" /\ r.want = r.stage /\ UNCHANGED <<opp, changes, silent, overtaken>>
       /\ extra' = IF r.op = "stage" /\ r.stage \notin OpenStages
                     THEN extra \cup {opp[r.o].contact} ELSE extra
       /\ Finish(t)
       /\ UNCHANGED <<contact, stale>>

-----------------------------------------------------------------------------
Customers(t) ==
    \/ \E email \in Emails \cup {None}, phone \in Phones \cup {None} : CaptureRead(t, email, phone)
    \/ CaptureCommit(t)
    \/ \E c \in ContactIds, o \in OppIds \cup {0} : LeadRead(t, "qualify", c, o)
                                                    \/ LeadRead(t, "event", c, o)
    \/ LeadCommit(t)

Staff(t) ==
    \/ \E c \in ContactIds, email \in Emails \cup {None}, phone \in Phones \cup {None} :
         ContactRead(t, "update", c, email, phone)
    \/ \E c \in ContactIds : ContactRead(t, "erase", c, None, None)
    \/ ContactCommit(t)
    \/ \E o \in OppIds : Look(t, o)
    \/ StaffRead(t, "patch", "NEW_LEAD")
    \/ \E want \in Wanted : \/ StaffRead(t, "stage", want)
                           \/ \E o \in OppIds : StageRead(t, o, want)
    \/ StaffCommit(t)

Next ==
    \/ \E t \in Txns : Customers(t) \/ Staff(t) \/ Rollback(t)
    \/ \E email \in Emails \cup {None}, phone \in Phones \cup {None} : CreateContact(email, phone)
    \/ \E c \in ContactIds : CreateOpportunity(c)

Spec == Init /\ [][Next]_vars

-----------------------------------------------------------------------------
(* Properties *)

\* An erased contact carries no address and no number, whatever was submitted for it before or
\* after, unless a write overlapped its erasure.
ErasedStaysEmpty ==
    /\ TypeOK
    /\ \A c \in DOMAIN contact \ stale :
         contact[c].state = "ERASED" => contact[c].email = None /\ contact[c].phone = None

\* However a customer comes back, a contact has one open opportunity, unless staff opened another,
\* two lookups overlapped, or its stage was changed by handlers that overlapped.  And a change that
\* staff make under the version they have seen meets no change they have not seen, unless handlers
\* have overlapped, but those that qualify has made without a new version: of the title, the service
\* interest and the qualification, never of the stage.
OneOpenLead ==
    /\ \A c \in DOMAIN contact :
         \/ Cardinality({o \in DOMAIN opp : opp[o].contact = c
                                           /\ opp[o].stage \notin {"WON", "LOST"}}) <= 1
         \/ c \in extra
         \/ \E o \in overtaken : opp[o].contact = c
    /\ \A t \in Txns : txn[t].op \in {"patch", "stage"} =>
         \/ txn[t].o \in overtaken
         \/ opp[txn[t].o].version # txn[t].version
         \/ /\ \A n \in txn[t].known + 1 .. changes[txn[t].o] : <<txn[t].o, n>> \in silent
            /\ opp[txn[t].o].stage = txn[t].stage

\* What a customer submits changes nothing that is on file of a contact.
OnFileStays ==
    \A t \in Txns, c \in DOMAIN contact : txn[t].op = "capture" /\ txn'[t].op = "idle" =>
        \/ c \in stale'
        \/ \A f \in {"state", "email", "phone"} :
             contact[c][f] # None => contact'[c][f] = contact[c][f]

\* What is won or lost stays so until staff move it, and is won only from a proposal or a
\* negotiation.
ClosedStays ==
    \A o \in DOMAIN opp : opp'[o].stage # opp[o].stage =>
        \/ o \in overtaken'
        \/ /\ opp[o].stage \in {"WON", "LOST"} =>
                \E t \in Txns : txn[t].op = "stage" /\ txn[t].o = o /\ txn'[t].op = "idle"
           /\ opp'[o].stage = "WON" => opp[o].stage \in {"PROPOSAL", "NEGOTIATION"}

\* Both, unless what is on file was put there while the submission was under way, or the change was
\* decided on an older stage.
ClosedByStaff == [][OnFileStays /\ ClosedStays]_vars
=============================================================================
