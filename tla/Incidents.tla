----------------------------- MODULE Incidents -----------------------------
(***************************************************************************)
(* Security events and the incidents that the SOC agent groups them into.  *)
(*                                                                         *)
(* security-ingest stores an event once and hands its id over; a sweeper   *)
(* looks for events that were never processed.  Either way process_events  *)
(* updates the open incident of each correlation key, or inserts one, in   *)
(* one transaction, and tells the security team after its commit.  People  *)
(* move and confirm incidents, and the analyst annotates them, on rows     *)
(* read without a lock.                                                    *)
(*                                                                         *)
(* Signals, scores and detectors are data: what they make of a batch is    *)
(* left open.  Notes and assignees change nothing that is modelled.        *)
(***************************************************************************)
EXTENDS Naturals, FiniteSets

CONSTANTS
    Events,
    Keys,         \* correlation keys
    KeyOf,        \* the key of each event; None if it is of no interest
    Succeeds,     \* events that indicate an attack that succeeded
    Sessions,     \* what serves requests, one at a time
    Sweepers,     \* what sweeps; what is a session too does either in turn
    MaxRisk,      \* the highest risk level
    Alarm,        \* the lowest one that the security team is told of
    None,         \* SQL NULL
    Wanted,       \* bound: the statuses that people ask for
    MaxClosed     \* bound: incidents that are closed at one time

ASSUME IncidentAssumption ==
    /\ IsFiniteSet(Events) /\ IsFiniteSet(Keys)
    /\ None \notin Keys \cup Sessions
    /\ KeyOf \in [Events -> Keys \cup {None}]
    /\ Succeeds \subseteq Events
    /\ MaxRisk \in Nat \ {0} /\ Alarm \in 1 .. MaxRisk
    /\ MaxClosed \in Nat

VARIABLES
    event,      \* security_events
    pushed,     \* batches of stored events on their way to process_events
    inc,        \* incidents, as committed
    links,      \* incident_events: the events linked to each incident
    txn,        \* the open transaction, or unfinished request, of each process
    alerted,    \* the highest risk that the team was told of, by incident
    again,      \* history: events that two transactions have processed
    missed,     \* history: incidents of which an alert was not sent
    overtaken   \* history: incidents on which a commit found another row than was read

vars == <<event, pushed, inc, links, txn, alerted, again, missed, overtaken>>

Processes == Sessions \cup Sweepers

\* Open incidents have different keys, so that there is always room for one more.
Incidents == 1 .. Cardinality(Keys) + MaxClosed

Risks == 1 .. MaxRisk

\* INCIDENT_TRANSITIONS.
Transitions ==
    [NEW            |-> {"ACKNOWLEDGED", "FALSE_POSITIVE"},
     ACKNOWLEDGED   |-> {"INVESTIGATING", "FALSE_POSITIVE"},
     INVESTIGATING  |-> {"CONTAINED", "REMEDIATED", "FALSE_POSITIVE"},
     CONTAINED      |-> {"REMEDIATED", "INVESTIGATING"},
     REMEDIATED     |-> {"CLOSED", "INVESTIGATING"},
     CLOSED         |-> {"INVESTIGATING"},
     FALSE_POSITIVE |-> {"INVESTIGATING"}]

Statuses == DOMAIN Transitions

Over == {"CLOSED", "FALSE_POSITIVE"}

\* by: who confirmed it; an incident is CONFIRMED when somebody did.
Incident == [status : Statuses \cup {"ABSENT"}, key : Keys \cup {None}, count : Nat,
             risk : Risks \cup {0}, success : BOOLEAN, by : Sessions \cup {None}]

NoInc == [status |-> "ABSENT", key |-> None, count |-> 0, risk |-> 0, success |-> FALSE,
          by |-> None]

\* loaded: the events being processed.  todo: correlation keys left to upsert.  new: the key
\* for which no open incident was found.  rows: incidents as written and not committed.
\* raised: incidents to alert of.  on: the incident that a person or the analyst works on.
\* status, success: the columns of it that were read and count.  to: the status wanted.
Txn == [op     : {"idle", "events", "findings", "alert", "move", "confirm", "analyze"},
        loaded : SUBSET Events, todo : SUBSET Keys, new : Keys \cup {None},
        rows   : [Incidents -> Incident], raised : SUBSET Incidents,
        on     : Incidents \cup {0}, status : Statuses \cup {"ABSENT"}, success : BOOLEAN,
        to     : Statuses \cup {"ABSENT"}]

Idle == [op |-> "idle", loaded |-> {}, todo |-> {}, new |-> None,
         rows |-> [i \in Incidents |-> NoInc], raised |-> {}, on |-> 0, status |-> "ABSENT",
         success |-> FALSE, to |-> "ABSENT"]

TypeOK ==
    /\ event \in [Events -> {"ABSENT", "NEW", "ASSESSED"}]
    /\ pushed \subseteq SUBSET Events
    /\ inc \in [Incidents -> Incident]
    /\ links \in [Incidents -> SUBSET Events]
    /\ txn \in [Processes -> Txn]
    /\ alerted \in [Incidents -> Risks \cup {0}]
    /\ again \subseteq Events
    /\ missed \subseteq Incidents
    /\ overtaken \subseteq Incidents

Init ==
    /\ event = [e \in Events |-> "ABSENT"]
    /\ pushed = {}
    /\ inc = [i \in Incidents |-> NoInc]
    /\ links = [i \in Incidents |-> {}]
    /\ txn = [p \in Processes |-> Idle]
    /\ alerted = [i \in Incidents |-> 0]
    /\ again = {} /\ missed = {} /\ overtaken = {}

-----------------------------------------------------------------------------
(* security-ingest *)

\* A webhook or a verdict delivers the events B, perhaps once more: what is new is stored,
\* and its ids are handed over after the commit.
Store(B) ==
    LET new == {e \in B : event[e] = "ABSENT"}
    IN  /\ new # {}
        /\ event' = [e \in Events |-> IF e \in new THEN "NEW" ELSE event[e]]
        /\ pushed' = pushed \cup {new}
        /\ UNCHANGED <<inc, links, txn, alerted, again, missed, overtaken>>

\* forward fails, or the process ends before it.
ForwardFails(B) ==
    /\ B \in pushed
    /\ pushed' = pushed \ {B}
    /\ UNCHANGED <<event, inc, links, txn, alerted, again, missed, overtaken>>

-----------------------------------------------------------------------------
(* Processing: one transaction *)

\* Detectors that look back in time find the keys in K, whatever the batch.
Begin(p, op, E, K) ==
    /\ txn[p] = Idle
    /\ txn' = [txn EXCEPT ![p] = [Idle EXCEPT !.op = op, !.loaded = E,
                                    !.todo = K \cup ({KeyOf[e] : e \in E} \ {None})]]
    /\ UNCHANGED <<event, inc, links, alerted, again, missed, overtaken>>

Receive(s, B, K) ==
    /\ B \in pushed
    /\ Begin(s, "events", B, K)
    /\ pushed' = pushed \ {B}

\* Mutant of Unprocessed: events whose risk is not NULL.
UnprocessedNot == {e \in Events : event[e] = "ASSESSED"}

\* Events whose risk is NULL.
Unprocessed == {e \in Events : event[e] = "NEW"}

\* The sweep reads the ids in a transaction of its own; process does not ask again whether
\* they are processed.
SweepRead(w, K) ==
    /\ Unprocessed # {}
    /\ Begin(w, "events", Unprocessed, K)
    /\ UNCHANGED pushed

\* findings_ingested: incidents from scanner findings, without events.
FindingsRead(s, K) ==
    /\ K # {}
    /\ Begin(s, "findings", {}, K)
    /\ UNCHANGED pushed

Open(i) == inc[i].status \notin Over \cup {"ABSENT"}

\* The events of the candidate with key k.
Of(p, k) == {e \in txn[p].loaded : KeyOf[e] = k}

\* Mutant of Unlocked: no row locks.
UnlockedAlways(p, i) == TRUE

\* Row i is not locked by another transaction.
Unlocked(p, i) == \A q \in Processes \ {p} : txn[q].rows[i] = NoInc

\* "Risk never auto-decreases on an open incident."
Raised(old, r) == IF r < old THEN old ELSE r

\* The security team is told of what was created, or has become more risky, at a high risk.
Alarms(old, r) == r > old /\ r >= Alarm

\* An open incident with key k is locked and updated, with the score of all its signals.
UpsertOpen(p, k, i, r) ==
    LET E == Of(p, k)
    IN  /\ k \in txn[p].todo
        /\ Open(i) /\ inc[i].key = k /\ Unlocked(p, i)
        /\ txn' = [txn EXCEPT
             ![p].todo = @ \ {k},
             ![p].rows[i] = [inc[i] EXCEPT !.count = @ + Cardinality(E), !.risk = Raised(@, r),
                                           !.success = @ \/ E \cap Succeeds # {}],
             ![p].raised = IF Alarms(inc[i].risk, r) THEN @ \cup {i} ELSE @]
        /\ UNCHANGED <<event, pushed, inc, links, alerted, again, missed, overtaken>>

\* There is no row to lock.
UpsertNone(p, k) ==
    /\ k \in txn[p].todo /\ txn[p].new = None
    /\ ~\E i \in Incidents : Open(i) /\ inc[i].key = k
    /\ txn' = [txn EXCEPT ![p].todo = @ \ {k}, ![p].new = k]
    /\ UNCHANGED <<event, pushed, inc, links, alerted, again, missed, overtaken>>

\* Mutant of Unique: there is no such index.
UniqueAlways(p, i, k) == TRUE

\* uq_incidents_open_correlation lets p make i the open incident of k.
Unique(p, i, k) ==
    \A j \in Incidents \ {i} :
        /\ ~(Open(j) /\ inc[j].key = k)
        /\ \A q \in Processes \ {p} : txn[q].rows[j].key = k => inc[j] # NoInc

\* The incident that the next insert creates.
Fresh(i) ==
    LET Used(j) == inc[j] # NoInc \/ \E q \in Processes : txn[q].rows[j] # NoInc
    IN  ~Used(i) /\ \A j \in 1 .. i - 1 : Used(j)

Insert(p, i, r) ==
    LET k == txn[p].new
        E == Of(p, k)
    IN  /\ k # None
        /\ Fresh(i) /\ Unique(p, i, k)
        /\ txn' = [txn EXCEPT
             ![p].new = None,
             ![p].rows[i] = [status |-> "NEW", key |-> k, count |-> Cardinality(E), risk |-> r,
                             success |-> E \cap Succeeds # {}, by |-> None],
             ![p].raised = IF Alarms(0, r) THEN @ \cup {i} ELSE @]
        /\ UNCHANGED <<event, pushed, inc, links, alerted, again, missed, overtaken>>

\* The commit; the alerts of process_events follow it, findings_ingested sends none.
ProcessCommit(p) ==
    LET t == txn[p]
    IN  /\ t.op \in {"events", "findings"} /\ t.todo = {} /\ t.new = None
        /\ inc' = [i \in Incidents |-> IF t.rows[i] # NoInc THEN t.rows[i] ELSE inc[i]]
        /\ links' = [i \in Incidents |-> links[i] \cup
                        IF t.rows[i] # NoInc THEN Of(p, t.rows[i].key) ELSE {}]
        /\ event' = [e \in Events |-> IF e \in t.loaded THEN "ASSESSED" ELSE event[e]]
        /\ again' = again \cup {e \in t.loaded : event[e] = "ASSESSED"}
        /\ IF t.op = "events" /\ t.raised # {}
             THEN /\ txn' = [txn EXCEPT ![p] = [Idle EXCEPT !.op = "alert", !.raised = t.raised]]
                  /\ UNCHANGED missed
             ELSE /\ txn' = [txn EXCEPT ![p] = Idle]
                  /\ missed' = missed \cup t.raised
        /\ UNCHANGED <<pushed, alerted, overtaken>>

-----------------------------------------------------------------------------
(* Alerts, after the commit *)

\* p is done with the alert of i.
AlertDone(p, i) ==
    LET left == txn[p].raised \ {i}
    IN  /\ txn[p].op = "alert" /\ i \in txn[p].raised
        /\ txn' = [txn EXCEPT ![p] = IF left = {} THEN Idle ELSE [txn[p] EXCEPT !.raised = left]]
        /\ UNCHANGED <<event, pushed, inc, links, again, overtaken>>

\* notify_incident tells of the incident as it is now.
Alert(p, i) ==
    /\ AlertDone(p, i)
    /\ alerted' = [alerted EXCEPT ![i] = inc[i].risk]
    /\ UNCHANGED missed

\* The notification service refuses or cannot be reached: a warning is logged.
AlertFails(p, i) ==
    /\ AlertDone(p, i)
    /\ missed' = missed \cup {i}
    /\ UNCHANGED alerted

-----------------------------------------------------------------------------
(* People and the analyst *)

\* A request on incident i begins; what else it needs is in t.
Read(s, i, t) ==
    /\ txn[s] = Idle /\ inc[i] # NoInc
    /\ txn' = [txn EXCEPT ![s] = [t EXCEPT !.on = i]]
    /\ UNCHANGED <<event, pushed, inc, links, alerted, again, missed, overtaken>>

MoveRead(s, i, to) ==
    /\ inc[i] # NoInc => to \in Transitions[inc[i].status] \cap Wanted
    /\ Read(s, i, [Idle EXCEPT !.op = "move", !.status = inc[i].status, !.to = to])

ConfirmRead(s, i) == inc[i].by = None /\ Read(s, i, [Idle EXCEPT !.op = "confirm"])

AnalyzeRead(s, i) == Read(s, i, [Idle EXCEPT !.op = "analyze", !.success = inc[i].success])

\* s writes row of the incident it has read; was says whether that is as s read it.
Commit(s, row, was) ==
    LET i == txn[s].on
    IN  /\ Unlocked(s, i)
        /\ inc' = [inc EXCEPT ![i] = row]
        /\ overtaken' = IF was THEN overtaken ELSE overtaken \cup {i}
        /\ txn' = [txn EXCEPT ![s] = Idle]
        /\ UNCHANGED <<event, pushed, links, alerted, again, missed>>

\* transition: a closed incident can be reopened if its key has no other.
MoveCommit(s) ==
    LET t == txn[s]
    IN  /\ t.op = "move"
        /\ t.to \notin Over => Unique(s, t.on, inc[t.on].key)
        /\ t.to \in Over => Cardinality({i \in Incidents \ {t.on} : inc[i].status \in Over})
                              < MaxClosed
        /\ Commit(s, [inc[t.on] EXCEPT !.status = t.to], inc[t.on].status = t.status)

ConfirmCommit(s) ==
    LET t == txn[s]
    IN  /\ t.op = "confirm"
        /\ Commit(s, [inc[t.on] EXCEPT !.by = s], inc[t.on].by = None)

\* analyze_incident merges its findings into the analysis that it has read.
AnalyzeCommit(s) ==
    LET t == txn[s]
    IN  /\ t.op = "analyze"
        /\ Commit(s, [inc[t.on] EXCEPT !.success = t.success],
                  inc[t.on].success = t.success)

\* A request or a sweep fails or is cut off; alerts that it still owes are not sent.
Abort(p) ==
    /\ txn[p] # Idle
    /\ missed' = missed \cup IF txn[p].op = "alert" THEN txn[p].raised ELSE {}
    /\ txn' = [txn EXCEPT ![p] = Idle]
    /\ UNCHANGED <<event, pushed, inc, links, alerted, again, overtaken>>

Upsert(p) ==
    \/ \E k \in Keys : \/ UpsertNone(p, k)
                       \/ \E i \in Incidents, r \in Risks : UpsertOpen(p, k, i, r)
    \/ \E i \in Incidents, r \in Risks : Insert(p, i, r)

Tell(p) == \E i \in Incidents : Alert(p, i) \/ AlertFails(p, i)

Proceed(p) ==
    \/ Upsert(p) \/ ProcessCommit(p) \/ Tell(p) \/ Abort(p)
    \/ p \in Sessions /\ (MoveCommit(p) \/ ConfirmCommit(p) \/ AnalyzeCommit(p))

Serve(s) ==
    \/ \E K \in SUBSET Keys : FindingsRead(s, K) \/ \E B \in pushed : Receive(s, B, K)
    \/ \E i \in Incidents : \/ ConfirmRead(s, i) \/ AnalyzeRead(s, i)
                            \/ \E t \in Statuses : MoveRead(s, i, t)

Sweep(w) == \E K \in SUBSET Keys : SweepRead(w, K)

Next ==
    \/ \E B \in SUBSET Events : Store(B) \/ ForwardFails(B)
    \/ \E s \in Sessions : Serve(s)
    \/ \E w \in Sweepers : Sweep(w)
    \/ \E p \in Processes : Proceed(p)

Spec == Init /\ [][Next]_vars

\* Of the sweeps that w begins again and again, some get through: failures, row locks and
\* conflicts do not hit them all.
SweepsSucceed(w) ==
    []<>(txn[w].loaded # {}) => []<><<txn[w].loaded # {} /\ ProcessCommit(w)>>_vars

\* Transactions end and sweeps go on.
FairSpec ==
    /\ Spec
    /\ \A p \in Processes : WF_vars(Proceed(p))
    /\ \A w \in Sweepers : SF_vars(Sweep(w)) /\ SweepsSucceed(w)

-----------------------------------------------------------------------------
(* Properties *)

\* No event is lost and none counted twice, though the hand-over and the sweep overlap, batches
\* are rolled back and incidents are closed and reopened meanwhile: what is assessed is linked,
\* what an incident counts are its links, and a key has one open incident.  Except for events
\* that two transactions have processed.  And the security team hears of every incident as risky
\* as it has become, unless an alert failed or the incident comes from findings.
EventsCounted ==
    /\ TypeOK
    /\ \A e \in Events : event[e] = "ASSESSED" /\ KeyOf[e] # None =>
         \E i \in Incidents : e \in links[i] /\ inc[i].key = KeyOf[e]
    /\ \A i \in Incidents : links[i] \cap again = {} => inc[i].count = Cardinality(links[i])
    /\ \A e \in Events \ again : Cardinality({i \in Incidents : e \in links[i]}) <= 1
    /\ \A i, j \in Incidents : Open(i) /\ Open(j) /\ inc[i].key = inc[j].key => i = j
    /\ \A i \in Incidents \ missed : inc[i].risk >= Alarm =>
         \/ alerted[i] >= inc[i].risk
         \/ \E p \in Processes : txn[p].op = "alert" /\ i \in txn[p].raised

\* An incident takes the transitions of the table, "Risk never auto-decreases", nor does what
\* it counts; the first confirmation stays, and so does the sign of an attack that succeeded;
\* unless a commit found another row than was read.
IncidentKept ==
    [][\A i \in Incidents \ overtaken' :
         inc[i] # NoInc =>
           /\ inc'[i].status # inc[i].status => inc'[i].status \in Transitions[inc[i].status]
           /\ inc'[i].risk >= inc[i].risk /\ inc'[i].count >= inc[i].count
           /\ inc[i].by # None => inc'[i].by = inc[i].by
           /\ inc[i].success => inc'[i].success]_vars

\* "FATMA's periodic sweep will pick them up": every event that is stored is assessed.
EventsAssessed == \A e \in Events : event[e] = "NEW" ~> event[e] = "ASSESSED"

\* docs/deployment.md: sweepers take what they process with SKIP LOCKED, "so replicas are
\* safe": what an incident counts are the events linked to it.
ReplicasSafe == \A i \in Incidents : inc[i].count = Cardinality(links[i])
=============================================================================
