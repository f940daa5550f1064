---------------------------- MODULE Conversations ----------------------------
(***************************************************************************)
(* One conversation of a customer with SAMIIR: messages that arrive from   *)
(* the website's widget or from WhatsApp, the turns that answer them, the  *)
(* tools a turn may call, and the people who take the conversation over.   *)
(*                                                                         *)
(* A turn reads the conversation when it stores the message, runs the      *)
(* agent on its own copy of the context, and at the end writes that copy   *)
(* over whatever the context has become.  Turns of one conversation        *)
(* overlap: only the first transaction of a turn locks the row.            *)
(*                                                                         *)
(* A slot stands for the signed token that was offered for it, and so for  *)
(* the idempotency key and the appointment it is booked with.              *)
(***************************************************************************)
EXTENDS Naturals, Sequences, FiniteSets

CONSTANTS
    Msgs,       \* messages of the customer, by the channel's message id
    Slots,      \* appointment slots that are offered
    Turns,      \* requests that are processed at a time
    People,     \* requests of staff that are processed at a time
    Wanted,     \* statuses that staff ask for
    MaxOffer,   \* max_slots: how many slots are offered at a time
    MaxCopies,  \* bound: how often one reply is handed over to the channel
    None

Statuses == {"OPEN", "ESCALATED", "HUMAN_HANDLING", "CLOSED"}

ASSUME ConversationAssumption ==
    /\ None \notin Msgs \cup Slots
    /\ Wanted \subseteq Statuses
    /\ MaxOffer \in Nat \ {0} /\ MaxCopies \in Nat \ {0}

VARIABLES
    conv,       \* conversations: one row, as committed
    appt,       \* the appointments the scheduling service has booked
    issued,     \* slots offered so far
    seen,       \* Redis: messages that were accepted (wa:seen)
    stored,     \* messages: inbound rows
    answers,    \* messages: outbound rows of SAMIIR, for each inbound one
    told,       \* history: replies handed over to the customer
    turn,       \* requests of the customer under way
    person,     \* human_reply and change_status between read and commit
    unsure,     \* history: messages whose reply was handed over, but not confirmed
    dropped,    \* history: appointments that a turn wrote over which had not read them, or
                \* whose turn was cut off, or not answered
    overtaken   \* history: a status was written over another than was read

vars == <<conv, appt, issued, seen, stored, answers, told, turn, person,
          unsure, dropped, overtaken>>

\* conversations.context: contact_id, offered_slots, pending_slot_token, appointment_ids.
Context == [contact : BOOLEAN, offered : SUBSET Slots, pending : Slots \cup {None},
            appts : Seq(Slots)]

NoContext == [contact |-> FALSE, offered |-> {}, pending |-> None, appts |-> <<>>]

\* assigned: assigned_user_id is set.
Conversation == [channel : {"web", "whatsapp"}, status : Statuses \cup {"ABSENT"},
                 assigned : BOOLEAN, ctx : Context]

\* status: what the turn has read last.  behind: another
\* turn has stored its context since this one read it.
Turn == [pc : {"idle", "queued", "running", "form", "pending", "escalate", "escalating",
               "store", "reply"},
         msg : Msgs \cup {None}, ctx : Context, status : Statuses, behind : BOOLEAN]

IdleTurn == [pc |-> "idle", msg |-> None, ctx |-> NoContext, status |-> "OPEN",
             behind |-> FALSE]

\* want: the status to be written.  status, assigned: what was read.
Person == [op : {"idle", "reply", "status"}, want : Statuses, status : Statuses, assigned : BOOLEAN]

IdlePerson == [op |-> "idle", want |-> "OPEN", status |-> "OPEN", assigned |-> FALSE]

Contents(q) == {q[i] : i \in DOMAIN q}

TypeOK ==
    /\ conv \in Conversation
    /\ appt \in [Slots -> {"NONE", "BOOKED", "OVER"}]
    /\ issued \subseteq Slots
    /\ seen \subseteq Msgs /\ stored \subseteq Msgs
    /\ answers \in [Msgs -> Nat] /\ told \in [Msgs -> Nat]
    /\ turn \in [Turns -> Turn]
    /\ person \in [People -> Person]
    /\ unsure \subseteq Msgs
    /\ dropped \subseteq Slots
    /\ overtaken \in BOOLEAN

Init ==
    /\ \E c \in {"web", "whatsapp"} :
         conv = [channel |-> c, status |-> "ABSENT", assigned |-> FALSE, ctx |-> NoContext]
    /\ appt = [s \in Slots |-> "NONE"]
    /\ issued = {}
    /\ seen = {} /\ stored = {}
    /\ answers = [m \in Msgs |-> 0] /\ told = [m \in Msgs |-> 0]
    /\ turn = [w \in Turns |-> IdleTurn]
    /\ person = [p \in People |-> IdlePerson]
    /\ unsure = {} /\ dropped = {}
    /\ overtaken = FALSE

histories == <<unsure, dropped, overtaken>>
customer == <<seen, stored, answers, told>>

-----------------------------------------------------------------------------
(* Receiving *)

\* receive, or a POST of the widget: the message is marked as seen before its task runs.
Receive(w, m) ==
    /\ turn[w].pc = "idle" /\ m \notin seen
    /\ seen' = seen \cup {m}
    /\ turn' = [turn EXCEPT ![w] = [IdleTurn EXCEPT !.pc = "queued", !.msg = m]]
    /\ UNCHANGED <<conv, appt, issued, stored, answers, told, person, histories>>

\* The mark expires (dedupe_ttl): a message that Meta delivers again is accepted again.
SeenExpires(m) ==
    /\ conv.channel = "whatsapp"
    /\ m \in seen
    /\ seen' = seen \ {m}
    /\ UNCHANGED <<conv, appt, issued, stored, answers, told, turn, person, histories>>

\* The task ends before it reaches SAMIIR: its process stops, a limit is reached, nothing in
\* the message can be answered.
TaskEnds(w) ==
    /\ turn[w].pc = "queued"
    /\ turn' = [turn EXCEPT ![w] = IdleTurn]
    /\ UNCHANGED <<conv, appt, issued, customer, person, histories>>

-----------------------------------------------------------------------------
(* A turn *)

\* Mutant of WithPeople: an agent that answers has not taken over.
WithPeopleWaiting == {"ESCALATED"}

\* Statuses in which people have the conversation.
WithPeople == {"HUMAN_HANDLING", "ESCALATED"}

\* The conversation is locked, or made.
Opened == [conv EXCEPT !.status = IF @ = "ABSENT" THEN "OPEN" ELSE @]

\* Mutant of Duplicate: what was received before the mark expired is not looked up.
DuplicateNever(m) == FALSE

Duplicate(m) == m \in stored

\* handle, first transaction: the message is stored; whom it is for is read.
Inbound(w) ==
    LET m == turn[w].msg
    IN /\ turn[w].pc = "queued"
       /\ ~Duplicate(m)
       /\ conv' = Opened
       /\ stored' = stored \cup {m}
       /\ turn' = [turn EXCEPT ![w].pc = IF conv.status \in WithPeople
                                           THEN "store" ELSE "running",
                               ![w].ctx = conv.ctx]
       /\ UNCHANGED <<appt, issued, seen, answers, told, person, histories>>

\* handle raises Conflict, and the WhatsApp service takes it as handled.
InboundAgain(w) ==
    /\ turn[w].pc = "queued" /\ turn[w].msg \in stored
    /\ turn' = [turn EXCEPT ![w] = IdleTurn]
    /\ UNCHANGED <<conv, appt, issued, customer, person, histories>>

\* check_availability: new tokens replace what was on offer.
CheckAvailability(w) ==
    /\ turn[w].pc = "running"
    /\ \E T \in SUBSET (Slots \ issued) \ {{}} :
         /\ Cardinality(T) <= MaxOffer
         /\ turn' = [turn EXCEPT ![w].ctx.offered = T]
         /\ issued' = issued \cup T
    /\ UNCHANGED <<conv, appt, customer, person, histories>>

CaptureContact(w) ==
    /\ turn[w].pc = "running" /\ ~turn[w].ctx.contact
    /\ turn' = [turn EXCEPT ![w].ctx.contact = TRUE]
    /\ UNCHANGED <<conv, appt, issued, customer, person, histories>>

\* book_by_token without a contact: the choice is kept until the contact is known.
NeedContact(w, s) ==
    /\ turn[w].pc = "running" /\ ~turn[w].ctx.contact
    /\ s \in turn[w].ctx.offered
    /\ turn' = [turn EXCEPT ![w].ctx.pending = s]
    /\ UNCHANGED <<conv, appt, issued, customer, person, histories>>

\* Scheduling books s; a key that it knows is answered with the appointment it stands for.
Booked(s) == [appt EXCEPT ![s] = IF @ = "NONE" THEN "BOOKED" ELSE @]

\* Mutant of Remember: the list of appointments is not written back.
RememberNot(c, s) == [c EXCEPT !.offered = {}, !.pending = None]

\* The context after s was booked.
Remember(c, s) == [c EXCEPT !.offered = {}, !.pending = None, !.appts = Append(@, s)]

\* book_appointment, book_by_token.
Book(w, s) ==
    /\ turn[w].pc = "running" /\ turn[w].ctx.contact
    /\ s \in turn[w].ctx.offered
    /\ appt' = Booked(s)
    /\ turn' = [turn EXCEPT ![w].ctx = Remember(@, s)]
    /\ UNCHANGED <<conv, issued, customer, person, histories>>

\* Scheduling books, and its answer does not arrive: for the turn the tool has failed.
BookLost(w, s) ==
    /\ turn[w].pc = "running" /\ turn[w].ctx.contact
    /\ s \in turn[w].ctx.offered
    /\ appt' = Booked(s)
    /\ dropped' = dropped \cup {s}
    /\ UNCHANGED <<conv, issued, customer, turn, person, unsure, overtaken>>

Latest(c) == c.appts[Len(c.appts)]

\* Scheduling moves the latest appointment that the copy knows of, while it is booked, to s.
Rescheduled(w, s) ==
    LET c == turn[w].ctx
    IN /\ turn[w].pc = "running" /\ c.appts # <<>>
       /\ s \in c.offered
       /\ appt[Latest(c)] = "BOOKED" /\ appt[s] = "NONE"
       /\ appt' = [appt EXCEPT ![Latest(c)] = "OVER", ![s] = "BOOKED"]

\* reschedule_appointment.
Reschedule(w, s) ==
    LET c == turn[w].ctx
    IN /\ Rescheduled(w, s)
       /\ turn' = [turn EXCEPT ![w].ctx = [c EXCEPT !.offered = {}, !.appts = Append(@, s)]]
       /\ UNCHANGED <<conv, issued, customer, person, histories>>

\* Its answer does not arrive: the copy keeps the old appointment as its latest.
RescheduleLost(w, s) ==
    /\ Rescheduled(w, s)
    /\ dropped' = dropped \cup {s}
    /\ UNCHANGED <<conv, issued, customer, turn, person, unsure, overtaken>>

\* cancel_appointment: its id stays in the list.
Cancel(w) ==
    LET c == turn[w].ctx
    IN /\ turn[w].pc = "running" /\ c.appts # <<>>
       /\ appt[Latest(c)] = "BOOKED"
       /\ appt' = [appt EXCEPT ![Latest(c)] = "OVER"]
       /\ UNCHANGED <<conv, issued, customer, turn, person, histories>>

\* The agent has answered, or failed: escalate_to_human, an answer that is not grounded, or an
\* exception make the turn escalate.
RunEnds(w) ==
    /\ turn[w].pc = "running"
    /\ \E next \in {"escalate", "store"} : turn' = [turn EXCEPT ![w].pc = next]
    /\ UNCHANGED <<conv, appt, issued, customer, person, histories>>

-----------------------------------------------------------------------------
(* The widget's contact form, and its button for a person *)

\* submit_contact begins: the context is read.
Form(w) ==
    /\ conv.channel = "web"
    /\ turn[w].pc = "idle"
    /\ conv' = Opened
    /\ turn' = [turn EXCEPT ![w] = [IdleTurn EXCEPT !.pc = "form", !.ctx = conv.ctx]]
    /\ UNCHANGED <<appt, issued, customer, person, histories>>

\* The contact is captured, or refused; then a pending choice is booked if it is still on offer.
FormCapture(w) ==
    /\ turn[w].pc = "form"
    /\ \/ turn' = [turn EXCEPT ![w].ctx.contact = TRUE,
                               ![w].pc = IF turn[w].ctx.pending \in turn[w].ctx.offered
                                           THEN "pending" ELSE "store"]
       \/ turn' = [turn EXCEPT ![w].pc = "store"]
    /\ UNCHANGED <<conv, appt, issued, customer, person, histories>>

\* _select_slot, with the pending choice: booked, or not.
FormBook(w) ==
    LET s == turn[w].ctx.pending
    IN /\ turn[w].pc = "pending"
       /\ \/ /\ appt' = Booked(s)
             /\ turn' = [turn EXCEPT ![w].pc = "store", ![w].ctx = Remember(@, s)]
             /\ UNCHANGED dropped
          \/ /\ appt' \in {appt, Booked(s)}
             /\ dropped' = IF appt' = appt THEN dropped ELSE dropped \cup {s}
             /\ turn' = [turn EXCEPT ![w].pc = "store"]
       /\ UNCHANGED <<conv, issued, customer, person, unsure, overtaken>>

\* chat_escalate.
AskForPerson(w) ==
    /\ conv.channel = "web" /\ conv.status # "ABSENT"
    /\ turn[w].pc = "idle"
    /\ turn' = [turn EXCEPT ![w] = [IdleTurn EXCEPT !.pc = "escalate"]]
    /\ UNCHANGED <<conv, appt, issued, customer, person, histories>>

-----------------------------------------------------------------------------
(* The end of a turn *)

\* What follows escalate: a turn stores its answer, the widget's button has none.
Escalated(w) == IF turn[w].msg = None THEN [turn EXCEPT ![w] = IdleTurn]
                                      ELSE [turn EXCEPT ![w].pc = "store", ![w].status = "OPEN"]

\* escalate: read without a lock.
EscalateRead(w) ==
    /\ turn[w].pc = "escalate"
    /\ turn' = IF conv.status \in WithPeople THEN Escalated(w)
               ELSE [turn EXCEPT ![w].pc = "escalating", ![w].status = conv.status]
    /\ UNCHANGED <<conv, appt, issued, customer, person, histories>>

EscalateCommit(w) ==
    /\ turn[w].pc = "escalating"
    /\ conv' = [conv EXCEPT !.status = "ESCALATED"]
    /\ overtaken' = (overtaken \/ conv.status # turn[w].status)
    /\ turn' = Escalated(w)
    /\ UNCHANGED <<appt, issued, customer, person, unsure, dropped>>

\* The turns that have read the context.
HasRead(w) == turn[w].pc \in {"running", "form", "pending", "escalate", "escalating", "store"}

\* _store_reply: the copy of the context replaces the row's, and the answer is stored.
Store(w) ==
    LET old == conv.ctx
        new == turn[w].ctx
        m == turn[w].msg
    IN /\ turn[w].pc = "store"
       /\ conv' = [conv EXCEPT !.ctx = new]
       /\ answers' = IF m = None THEN answers ELSE [answers EXCEPT ![m] = @ + 1]
       /\ dropped' = IF turn[w].behind THEN dropped \cup (Contents(old.appts) \ Contents(new.appts))
                                       ELSE dropped
       /\ turn' = [x \in Turns |->
            IF x = w THEN IF m = None THEN IdleTurn ELSE [IdleTurn EXCEPT !.pc = "reply", !.msg = m]
            ELSE IF HasRead(x) THEN [turn[x] EXCEPT !.behind = @ \/ new # old]
            ELSE turn[x]]
       /\ UNCHANGED <<appt, issued, seen, stored, told, person, unsure, overtaken>>

\* The reply is handed over: _send_reply, or the answer to the widget's POST.
Reply(w) ==
    /\ turn[w].pc = "reply"
    /\ told' = [told EXCEPT ![turn[w].msg] = @ + 1]
    /\ turn' = [turn EXCEPT ![w] = IdleTurn]
    /\ UNCHANGED <<conv, appt, issued, seen, stored, answers, person, histories>>

\* The Graph API takes the reply, and its answer does not arrive: the client tries again.
ReplyRetried(w) ==
    /\ conv.channel = "whatsapp"
    /\ turn[w].pc = "reply" /\ told[turn[w].msg] + 1 < MaxCopies
    /\ told' = [told EXCEPT ![turn[w].msg] = @ + 1]
    /\ unsure' = unsure \cup {turn[w].msg}
    /\ UNCHANGED <<conv, appt, issued, seen, stored, answers, turn, person, dropped, overtaken>>

\* The reply is not handed over: its caller has given up or stopped, or the channel refuses it.
ReplyFails(w) ==
    /\ turn[w].pc = "reply"
    /\ turn' = [turn EXCEPT ![w] = IdleTurn]
    /\ UNCHANGED <<conv, appt, issued, customer, person, histories>>

\* An exception outside the agent's run, or the process stops: the turn's copy is lost.
Cut(w) ==
    /\ HasRead(w)
    /\ turn' = [turn EXCEPT ![w] = IdleTurn]
    /\ dropped' = dropped \cup (Contents(turn[w].ctx.appts) \ Contents(conv.ctx.appts))
    /\ UNCHANGED <<conv, appt, issued, customer, person, unsure, overtaken>>

-----------------------------------------------------------------------------
(* People *)

StaffRead(p, op, want) ==
    /\ person[p].op = "idle" /\ conv.status # "ABSENT"
    /\ person' = [person EXCEPT ![p] = [op |-> op, want |-> want, status |-> conv.status,
                                        assigned |-> conv.assigned]]
    /\ UNCHANGED <<conv, appt, issued, customer, turn, histories>>

\* human_reply: not in a closed conversation.
ReplyRead(p) == conv.status # "CLOSED" /\ StaffRead(p, "reply", "HUMAN_HANDLING")

\* change_status: any status after any other.
StatusRead(p) == \E want \in Wanted : StaffRead(p, "status", want)

Assigns(q) == q.want = "HUMAN_HANDLING"

\* What the commit leaves in assigned_user_id.  The ORM writes a column only when it differs
\* from what was read; change_status may assign another user than the one it read.
AssignedAfter(q) ==
    IF Assigns(q) THEN IF ~q.assigned THEN {TRUE}
                       ELSE IF q.op = "reply" THEN {conv.assigned} ELSE {conv.assigned, TRUE}
    ELSE IF q.want = "OPEN" /\ q.assigned THEN {FALSE}
    ELSE {conv.assigned}

StaffCommit(p) ==
    LET q == person[p]
    IN /\ q.op # "idle"
       /\ \E a \in AssignedAfter(q) :
            conv' = [conv EXCEPT !.status = IF q.want = q.status THEN @ ELSE q.want,
                                 !.assigned = a]
       /\ overtaken' = (overtaken \/ conv.status # q.status \/ conv.assigned # q.assigned)
       /\ person' = [person EXCEPT ![p] = IdlePerson]
       /\ UNCHANGED <<appt, issued, customer, turn, unsure, dropped>>

StaffFails(p) ==
    /\ person[p].op # "idle"
    /\ person' = [person EXCEPT ![p] = IdlePerson]
    /\ UNCHANGED <<conv, appt, issued, customer, turn, histories>>

-----------------------------------------------------------------------------
Tool(w) ==
    \/ CheckAvailability(w) \/ CaptureContact(w) \/ Cancel(w)
    \/ \E s \in Slots : \/ NeedContact(w, s) \/ Book(w, s) \/ BookLost(w, s)
                         \/ Reschedule(w, s) \/ RescheduleLost(w, s)

Proceed(w) ==
    \/ TaskEnds(w) \/ Inbound(w) \/ InboundAgain(w) \/ RunEnds(w)
    \/ FormCapture(w) \/ FormBook(w)
    \/ EscalateRead(w) \/ EscalateCommit(w) \/ Store(w)
    \/ Reply(w) \/ ReplyFails(w) \/ Cut(w)

Next ==
    \/ \E w \in Turns : \/ \E m \in Msgs : Receive(w, m)
                         \/ Form(w) \/ AskForPerson(w) \/ Tool(w) \/ Proceed(w)
                         \/ ReplyRetried(w)
    \/ \E m \in Msgs : SeenExpires(m)
    \/ \E p \in People : ReplyRead(p) \/ StatusRead(p) \/ StaffCommit(p) \/ StaffFails(p)

Spec == Init /\ [][Next]_vars

-----------------------------------------------------------------------------
(* Properties *)

\* A message has one turn and one answer, however often the channel delivers it and however
\* long after; the customer is told what is stored, and once, unless the Graph API's answer was
\* lost.
HandledOnce ==
    /\ TypeOK
    /\ \A v, w \in Turns : v # w /\ turn[v].msg # None /\ turn[v].msg = turn[w].msg =>
         turn[v].pc = "queued" \/ turn[w].pc = "queued"
    /\ \A m \in Msgs : /\ answers[m] > 0 => m \in stored
                       /\ answers[m] <= 1
                       /\ told[m] <= answers[m] \/ m \in unsure

\* What is booked for the conversation is in its context, where a later turn finds it to move or
\* cancel it, or in the copy of a turn under way, unless an overlapping turn wrote over it, or
\* the turn that booked it was cut off or not answered.
BookingsKnown ==
    \A s \in Slots : appt[s] = "BOOKED" =>
        \/ s \in Contents(conv.ctx.appts) \cup dropped
        \/ \E w \in Turns : HasRead(w) /\ s \in Contents(turn[w].ctx.appts)

\* A conversation that people handle is theirs until they give it back, and has someone it is
\* assigned to, unless a commit found another status or assignee than it had read.
PeopleKeep ==
    [][/\ conv.status = "HUMAN_HANDLING" /\ conv'.status # conv.status =>
            overtaken' \/ \E p \in People : StaffCommit(p)
       /\ conv'.status = "HUMAN_HANDLING" => overtaken' \/ conv'.assigned]_vars
=============================================================================
