-------------------------- MODULE Incidents_proofs --------------------------
(***************************************************************************)
(* EventsCounted and IncidentKept of Incidents, for any events, keys,      *)
(* sessions and sweepers.                                                  *)
(*                                                                         *)
(* Neither is inductive: what an incident will count, and that its key     *)
(* will have no other, is settled when a transaction writes its row, and   *)
(* rests on row locks and on the unique index until the commit.            *)
(* Processing says what a transaction of process_events has written and    *)
(* still has to write: its rows are the committed ones with its events     *)
(* added (Written), of every key of its events there is one (Covered), no  *)
(* other transaction has the row (Alone), and no other row of that key is  *)
(* open or about to be (OneKey).                                           *)
(***************************************************************************)
EXTENDS Incidents, FiniteSetTheorems, TLAPS

Batch == {"events", "findings"}

\* Row i as transaction p has written it.
Row(p, i) == txn[p].rows[i]

Has(p, i) == Row(p, i) # NoInc

\* What p has written over the committed row i.
Written(p, i) ==
    /\ txn[p].op \in Batch
    /\ Row(p, i).status \notin Over \cup {"ABSENT"} /\ Row(p, i).key \in Keys
    /\ Row(p, i).count = inc[i].count + Cardinality(Of(p, Row(p, i).key))
    /\ Row(p, i).risk >= inc[i].risk
    /\ Row(p, i).risk >= Alarm => i \in txn[p].raised \/ Row(p, i).risk = inc[i].risk
    /\ inc[i].success => Row(p, i).success
    /\ Row(p, i).by = inc[i].by
    /\ inc[i] # NoInc => /\ Open(i)
                         /\ Row(p, i).key = inc[i].key
                         /\ Row(p, i).status = inc[i].status

\* Each key of the batch is upserted once.
Covered(p) ==
    /\ txn[p].todo # {} \/ txn[p].new # None => txn[p].op \in Batch
    /\ txn[p].new \notin txn[p].todo
    /\ \A e \in txn[p].loaded : KeyOf[e] # None =>
         \/ KeyOf[e] \in txn[p].todo \cup {txn[p].new}
         \/ \E i \in Incidents : Has(p, i) /\ Row(p, i).key = KeyOf[e]
    /\ \A i \in Incidents : Has(p, i) => Row(p, i).key \notin txn[p].todo \cup {txn[p].new}

\* A person's request is about an incident that is there, and moves it along the table.
Working(p) ==
    txn[p].op \in {"move", "confirm", "analyze"} =>
        /\ txn[p].on \in Incidents /\ inc[txn[p].on] # NoInc
        /\ txn[p].op = "move" => /\ txn[p].status \in Statuses
                                 /\ txn[p].to \in Transitions[txn[p].status]

Processing(p) ==
    /\ \A i \in Incidents : Has(p, i) => Written(p, i)
    /\ Covered(p)
    /\ Working(p)

Alone == \A p, q \in Processes, i \in Incidents : Has(p, i) /\ Has(q, i) => p = q

OneKey ==
    \A i, j \in Incidents : i # j =>
        /\ \A p, q \in Processes : Has(p, i) /\ Has(q, j) => Row(p, i).key # Row(q, j).key
        /\ \A p \in Processes : Has(p, i) /\ Open(j) => Row(p, i).key # inc[j].key
        /\ Open(i) /\ Open(j) => inc[i].key # inc[j].key

\* Rows, and the events linked to them.
Linked(i) ==
    /\ inc[i].status = "ABSENT" => inc[i] = NoInc
    /\ IF inc[i] = NoInc THEN links[i] = {} ELSE inc[i].key \in Keys
    /\ \A e \in links[i] : event[e] = "ASSESSED" /\ KeyOf[e] = inc[i].key
    /\ links[i] \cap again = {} => inc[i].count = Cardinality(links[i])

\* The team has been told, or is about to be.
Told(i) ==
    i \notin missed /\ inc[i].risk >= Alarm =>
      \/ alerted[i] >= inc[i].risk
      \/ \E p \in Processes : txn[p].op = "alert" /\ i \in txn[p].raised

Assessed(e) ==
    /\ event[e] = "ASSESSED" /\ KeyOf[e] # None =>
         \E i \in Incidents : e \in links[i] /\ inc[i].key = KeyOf[e]
    /\ e \notin again => \A i, j \in Incidents : e \in links[i] /\ e \in links[j] => i = j

\* The inductive invariant.
IInv ==
    /\ TypeOK
    /\ \A p \in Processes : Processing(p)
    /\ Alone /\ OneKey
    /\ \A i \in Incidents : Linked(i) /\ Told(i)
    /\ \A e \in Events : Assessed(e)

-----------------------------------------------------------------------------
(* Constants and records *)

LEMMA Constants ==
    /\ Incidents \subseteq Nat \ {0}
    /\ None \notin Keys /\ KeyOf \in [Events -> Keys \cup {None}]
    /\ Alarm \in Nat /\ Alarm > 0 /\ (\A r \in Risks \cup {0} : r \in Nat)
BY IncidentAssumption DEF Incidents, Risks

\* Sets of events can be counted, and apart they add up.
LEMMA Counting ==
    /\ \A E \in SUBSET Events : IsFiniteSet(E) /\ Cardinality(E) \in Nat
    /\ \A E, F \in SUBSET Events :
         E \cap F = {} => Cardinality(E \cup F) = Cardinality(E) + Cardinality(F)
<1>1. \A E \in SUBSET Events : IsFiniteSet(E) /\ Cardinality(E) \in Nat
  BY IncidentAssumption, FS_Subset, FS_CardinalityType
<1>2. ASSUME NEW E \in SUBSET Events, NEW F \in SUBSET Events, E \cap F = {}
      PROVE  Cardinality(E \cup F) = Cardinality(E) + Cardinality(F)
  <2>1. Cardinality(E \cup F) = Cardinality(E) + Cardinality(F) - Cardinality(E \cap F)
    BY <1>1, FS_Union
  <2>2. Cardinality(E \cap F) = 0
    BY <1>2, FS_EmptySet
  <2> QED
    BY <1>1, <2>1, <2>2
<1> QED
  BY <1>1, <1>2

LEMMA NoIncForms ==
    /\ NoInc \in Incident /\ NoInc.status = "ABSENT" /\ NoInc.key = None
    /\ NoInc.count = 0 /\ NoInc.risk = 0 /\ NoInc.by = None /\ NoInc.success = FALSE
BY DEF NoInc, Incident, Statuses, Transitions

LEMMA IdleForms ==
    /\ Idle \in Txn /\ Idle.op = "idle" /\ Idle.loaded = {} /\ Idle.todo = {}
    /\ Idle.new = None /\ Idle.raised = {}
    /\ \A i \in Incidents : Idle.rows[i] = NoInc
<1> HIDE DEF NoInc
<1> QED
  BY NoIncForms DEF Idle, Txn, Incidents

LEMMA RowForms ==
    ASSUME TypeOK, NEW p \in Processes
    PROVE  /\ txn[p] \in Txn
           /\ \A i \in Incidents : Row(p, i) \in Incident /\ inc[i] \in Incident
           /\ \A k : Of(p, k) \in SUBSET Events
BY DEF TypeOK, Row, Txn, Of

-----------------------------------------------------------------------------
(* Steps that change what a process does, and no committed row *)

LEMMA InitIInv == Init => IInv
<1> SUFFICES ASSUME Init PROVE IInv
  OBVIOUS
<1>1. /\ \A p \in Processes : txn[p] = Idle
      /\ \A i \in Incidents : inc[i] = NoInc /\ links[i] = {}
  BY DEF Init
<1>2. TypeOK
  BY NoIncForms, IdleForms, Constants DEF Init, TypeOK
<1>3. \A i \in Incidents : ~Open(i) /\ \A p \in Processes : ~Has(p, i)
  BY <1>1, IdleForms, NoIncForms DEF Has, Row, Open
<1>4. \A p \in Processes : Processing(p)
  BY <1>1, <1>3, IdleForms DEF Processing, Covered, Working
<1>5. \A i \in Incidents : Linked(i) /\ Told(i)
  <2>1. ASSUME NEW i \in Incidents PROVE Linked(i)
    <3>1. inc[i] = NoInc /\ links[i] = {} /\ inc[i].count = 0
      BY <1>1, NoIncForms
    <3>2. Cardinality(links[i]) = 0
      BY <3>1, FS_EmptySet
    <3> QED
      BY <3>1, <3>2 DEF Linked
  <2>2. ASSUME NEW i \in Incidents PROVE Told(i)
    BY <1>1, NoIncForms, Constants DEF Told
  <2> QED
    BY <2>1, <2>2
<1>6. \A e \in Events : Assessed(e)
  BY <1>1 DEF Assessed, Init
<1>7. Alone /\ OneKey
  BY <1>3 DEF Alone, OneKey
<1> QED
  BY <1>2, <1>4, <1>5, <1>6, <1>7 DEF IInv

\* p alone has row i, and no other row of its key is open or about to be.
Sole(p, i) ==
    /\ \A q \in Processes \ {p} : ~Has(q, i)
    /\ \A j \in Incidents \ {i} :
         /\ \A q \in Processes : Has(q, j) => Row(q, j).key # Row(p, i).key
         /\ Open(j) => inc[j].key # Row(p, i).key

LEMMA TxnStep ==
    ASSUME IInv, UNCHANGED <<event, inc, links, again, overtaken>>,
           NEW p \in Processes, NEW t \in Txn, txn' = [txn EXCEPT ![p] = t],
           pushed' \subseteq SUBSET Events, missed' \subseteq Incidents,
           alerted' \in [Incidents -> Risks \cup {0}],
           Processing(p)',
           \A i \in Incidents : Has(p, i)' =>
             Sole(p, i)' \/ (Has(p, i) /\ t.rows[i].key = Row(p, i).key),
           \A i \in Incidents : Told(i)'
    PROVE  IInv'
<1>1. TypeOK'
  BY DEF IInv, TypeOK
<1>2. txn'[p] = t /\ \A q \in Processes \ {p} : txn'[q] = txn[q]
  BY DEF IInv, TypeOK
<1>3. ASSUME NEW q \in Processes \ {p}
      PROVE  \A i \in Incidents : /\ Has(q, i)' <=> Has(q, i)
                                  /\ Row(q, i)' = Row(q, i)
  BY <1>2, <1>3 DEF Has, Row
<1>4. ASSUME NEW q \in Processes PROVE Processing(q)'
  <2>1. CASE q = p
    BY <2>1
  <2>2. CASE q # p
    <3>1. Processing(q) /\ txn'[q] = txn[q]
      BY <1>2, <2>2 DEF IInv
    <3>2. ASSUME NEW i \in Incidents, Has(q, i)' PROVE Written(q, i)'
      <4>1. Written(q, i)
        BY <3>1, <3>2 DEF Processing, Has, Row
      <4> QED
        BY <3>1, <4>1 DEF Written, Row, Of, Open
    <3>3. Covered(q)' /\ Working(q)'
      BY <3>1 DEF Processing, Covered, Working, Has, Row
    <3> QED
      BY <3>2, <3>3 DEF Processing
  <2> QED
    BY <2>1, <2>2
<1>5. ASSUME NEW i \in Incidents, Has(p, i)' PROVE Sole(p, i)'
  <2>1. CASE Has(p, i) /\ t.rows[i].key = Row(p, i).key
    <3>1. \A q \in Processes \ {p} : ~Has(q, i)'
      BY <1>3, <2>1 DEF IInv, Alone
    <3>2. Row(p, i)'.key = Row(p, i).key
      BY <1>2, <2>1 DEF Row
    <3>3. ASSUME NEW j \in Incidents \ {i}, Open(j)
          PROVE  inc[j].key # Row(p, i)'.key
      BY <2>1, <3>2, <3>3 DEF IInv, OneKey
    <3>4. ASSUME NEW j \in Incidents \ {i}, NEW q \in Processes, Has(q, j)'
          PROVE  Row(q, j)'.key # Row(p, i)'.key
      <4>1. CASE q # p
        BY <1>3, <2>1, <3>2, <3>4, <4>1 DEF IInv, OneKey
      <4>2. CASE q = p /\ Has(p, j) /\ t.rows[j].key = Row(p, j).key
        BY <1>2, <2>1, <3>2, <4>2 DEF IInv, OneKey, Row
      <4>3. CASE q = p /\ Sole(p, j)'
        BY <1>5, <3>4, <4>3 DEF Sole
      <4> QED
        BY <3>4, <4>1, <4>2, <4>3
    <3> QED
      BY <3>1, <3>3, <3>4 DEF Sole, Open
  <2> QED
    BY <1>5, <2>1
<1>6. Alone'
  <2>1. ASSUME NEW q \in Processes, NEW r \in Processes, NEW i \in Incidents,
               Has(q, i)', Has(r, i)'
        PROVE  q = r
    BY <1>3, <1>5, <2>1 DEF IInv, Alone, Sole
  <2> QED
    BY <2>1 DEF Alone
<1>7. OneKey'
  <2> SUFFICES ASSUME NEW i \in Incidents, NEW j \in Incidents, i # j
               PROVE  /\ \A q, r \in Processes : Has(q, i)' /\ Has(r, j)'
                                                   => Row(q, i)'.key # Row(r, j)'.key
                      /\ \A q \in Processes : Has(q, i)' /\ Open(j) => Row(q, i)'.key # inc[j].key
                      /\ Open(i) /\ Open(j) => inc[i].key # inc[j].key
    BY DEF OneKey, Open
  <2>1. ASSUME NEW q \in Processes, NEW r \in Processes, Has(q, i)', Has(r, j)'
        PROVE  Row(q, i)'.key # Row(r, j)'.key
    BY <1>3, <1>5, <2>1 DEF IInv, OneKey, Sole
  <2>2. ASSUME NEW q \in Processes, Has(q, i)', Open(j)
        PROVE  Row(q, i)'.key # inc[j].key
    <3>1. CASE q = p
      <4>1. Sole(p, i)' /\ Open(j)'
        BY <1>5, <2>2, <3>1 DEF Open
      <4> QED
        BY <3>1, <4>1 DEF Sole
    <3>2. CASE q # p
      BY <1>3, <2>2, <3>2 DEF IInv, OneKey
    <3> QED
      BY <3>1, <3>2
  <2> QED
    BY <2>1, <2>2 DEF IInv, OneKey
<1>8. \A i \in Incidents : Linked(i)'
  BY DEF IInv, Linked
<1>9. \A e \in Events : Assessed(e)'
  BY DEF IInv, Assessed
<1> QED
  BY <1>1, <1>4, <1>6, <1>7, <1>8, <1>9 DEF IInv

\* What was told stays told while nobody's alerts change.
LEMMA ToldStays ==
    ASSUME IInv, UNCHANGED <<inc, alerted>>, NEW p \in Processes, NEW t \in Txn,
           txn' = [txn EXCEPT ![p] = t], missed \subseteq missed',
           txn[p].op # "alert" \/ txn[p].raised \subseteq missed'
    PROVE  \A i \in Incidents : Told(i)'
<1> SUFFICES ASSUME NEW i \in Incidents, i \notin missed', inc[i].risk >= Alarm,
                    ~(alerted[i] >= inc[i].risk)
             PROVE  \E q \in Processes : txn'[q].op = "alert" /\ i \in txn'[q].raised
  BY DEF Told
<1>1. PICK q \in Processes : txn[q].op = "alert" /\ i \in txn[q].raised
  BY DEF IInv, Told
<1>2. q # p
  BY <1>1
<1> QED
  BY <1>1, <1>2 DEF IInv, TypeOK

\* A process that begins with t, or ends, has written nothing.
LEMMA CleanStep ==
    ASSUME IInv, UNCHANGED <<event, inc, links, again, overtaken>>,
           NEW p \in Processes, NEW t \in Txn, txn' = [txn EXCEPT ![p] = t],
           \A i \in Incidents : t.rows[i] = NoInc,
           t.new = None /\ t.todo \subseteq Keys, t.todo = {} \/ t.op \in Batch,
           \A e \in t.loaded : KeyOf[e] # None => KeyOf[e] \in t.todo,
           t.op \in {"move", "confirm", "analyze"} =>
             /\ t.on \in Incidents /\ inc[t.on] # NoInc
             /\ t.op = "move" => t.status \in Statuses /\ t.to \in Transitions[t.status],
           pushed' \subseteq SUBSET Events, missed' \subseteq Incidents,
           alerted' \in [Incidents -> Risks \cup {0}],
           \A i \in Incidents : Told(i)'
    PROVE  IInv'
<1>1. txn'[p] = t
  BY DEF IInv, TypeOK
<1>2. \A i \in Incidents : ~Has(p, i)'
  BY <1>1 DEF Has, Row
<1>3. Covered(p)'
  BY <1>1, <1>2, Constants DEF Covered
<1>4. Working(p)'
  BY <1>1 DEF Working
<1>5. Processing(p)'
  BY <1>2, <1>3, <1>4 DEF Processing
<1> QED
  BY <1>2, <1>5, TxnStep

LEMMA StoreKeeps ==
    ASSUME IInv, NEW B \in SUBSET Events, Store(B) \/ ForwardFails(B)
    PROVE  IInv'
<1>1. /\ UNCHANGED <<inc, links, txn, alerted, again, missed, overtaken>>
      /\ \A e \in Events : event'[e] = event[e] \/ (event[e] = "ABSENT" /\ event'[e] = "NEW")
      /\ event' \in [Events -> {"ABSENT", "NEW", "ASSESSED"}]
      /\ pushed' \subseteq SUBSET Events
  BY DEF Store, ForwardFails, IInv, TypeOK
<1>2. TypeOK'
  BY <1>1 DEF IInv, TypeOK
<1>3. ASSUME NEW p \in Processes PROVE Processing(p)'
  <2>1. Processing(p)
    BY DEF IInv
  <2> QED
    BY <1>1, <2>1 DEF Processing, Written, Covered, Working, Has, Row, Of, Open
<1>4. Alone' /\ OneKey'
  BY <1>1 DEF IInv, Alone, OneKey, Has, Row, Open
<1>5. ASSUME NEW i \in Incidents PROVE Linked(i)' /\ Told(i)'
  <2>1. Linked(i) /\ Told(i) /\ links[i] \subseteq Events
    BY DEF IInv, TypeOK
  <2> QED
    BY <1>1, <2>1 DEF Linked, Told
<1>6. ASSUME NEW e \in Events PROVE Assessed(e)'
  <2>1. Assessed(e)
    BY DEF IInv
  <2> QED
    BY <1>1, <2>1 DEF Assessed
<1> QED
  BY <1>2, <1>3, <1>4, <1>5, <1>6 DEF IInv

LEMMA BeginKeeps ==
    ASSUME IInv, NEW p \in Processes, NEW op \in Batch, NEW E \in SUBSET Events,
           NEW K \in SUBSET Keys, Begin(p, op, E, K), pushed' \subseteq SUBSET Events
    PROVE  IInv'
<1> DEFINE todo == K \cup ({KeyOf[e] : e \in E} \ {None})
           t == [Idle EXCEPT !.op = op, !.loaded = E, !.todo = todo]
<1>1. /\ txn[p] = Idle /\ txn' = [txn EXCEPT ![p] = t]
      /\ UNCHANGED <<event, inc, links, alerted, again, missed, overtaken>>
  BY DEF Begin
<1>2. todo \subseteq Keys /\ \A e \in E : KeyOf[e] # None => KeyOf[e] \in todo
  BY Constants
<1> HIDE DEF todo
<1>3. t \in Txn
  BY <1>2, IdleForms DEF Txn, Batch
<1>4. t.op = op /\ t.loaded = E /\ t.todo = todo /\ t.new = Idle.new /\ t.rows = Idle.rows
  BY DEF Idle
<1> HIDE DEF t
<1>5. \A i \in Incidents : Told(i)'
  BY <1>1, <1>3, IdleForms, ToldStays
<1>6. missed' \subseteq Incidents /\ alerted' \in [Incidents -> Risks \cup {0}]
  BY <1>1 DEF IInv, TypeOK
<1>7. /\ \A i \in Incidents : t.rows[i] = NoInc
      /\ t.new = None /\ t.todo \subseteq Keys /\ t.op \in Batch
      /\ \A e \in t.loaded : KeyOf[e] # None => KeyOf[e] \in t.todo
      /\ t.op \notin {"move", "confirm", "analyze"}
  BY <1>2, <1>4, IdleForms DEF Batch
<1> QED
  BY <1>1, <1>3, <1>5, <1>6, <1>7, CleanStep

LEMMA ReadKeeps ==
    ASSUME IInv, NEW s \in Sessions, NEW i \in Incidents,
           ConfirmRead(s, i) \/ AnalyzeRead(s, i) \/ \E to \in Statuses : MoveRead(s, i, to)
    PROVE  IInv'
<1>1. /\ s \in Processes /\ inc[i] \in Incident /\ txn[s] = Idle /\ inc[i] # NoInc
      /\ UNCHANGED <<event, pushed, inc, links, alerted, again, missed, overtaken>>
  BY DEF Processes, IInv, TypeOK, ConfirmRead, AnalyzeRead, MoveRead, Read
<1>2. inc[i].status \in Statuses
  BY <1>1 DEF IInv, Linked, Incident
<1>3. ASSUME NEW t \in Txn, txn' = [txn EXCEPT ![s] = t], t.rows = Idle.rows, t.new = None,
             t.todo = {}, t.loaded = {}, t.on = i,
             t.op = "move" => t.status = inc[i].status /\ t.to \in Transitions[inc[i].status]
      PROVE  IInv'
  <2>1. \A j \in Incidents : Told(j)'
    BY <1>1, <1>3, IdleForms, ToldStays
  <2>2. /\ missed' \subseteq Incidents /\ alerted' \in [Incidents -> Risks \cup {0}]
        /\ pushed' \subseteq SUBSET Events
    BY <1>1 DEF IInv, TypeOK
  <2>3. /\ \A j \in Incidents : t.rows[j] = NoInc
        /\ t.new = None /\ t.todo \subseteq Keys
        /\ \A e \in t.loaded : KeyOf[e] # None => KeyOf[e] \in t.todo
        /\ t.on \in Incidents /\ inc[t.on] # NoInc
        /\ t.op = "move" => t.status \in Statuses /\ t.to \in Transitions[t.status]
    BY <1>1, <1>2, <1>3, IdleForms
  <2> QED
    BY <1>1, <1>3, <2>1, <2>2, <2>3, CleanStep
<1>4. CASE ConfirmRead(s, i)
  <2> DEFINE t == [[Idle EXCEPT !.op = "confirm"] EXCEPT !.on = i]
  <2>1. txn' = [txn EXCEPT ![s] = t]
    BY <1>4 DEF ConfirmRead, Read
  <2>2. t \in Txn
    BY IdleForms DEF Txn
  <2>3. /\ t.op = "confirm" /\ t.on = i /\ t.loaded = {} /\ t.todo = {} /\ t.new = None
        /\ t.rows = Idle.rows
    BY DEF Idle
  <2> HIDE DEF t
  <2> QED
    BY <1>3, <2>1, <2>2, <2>3
<1>5. CASE AnalyzeRead(s, i)
  <2> DEFINE success == inc[i].success
             t == [[Idle EXCEPT !.op = "analyze", !.success = success] EXCEPT !.on = i]
  <2>1. txn' = [txn EXCEPT ![s] = t] /\ success \in BOOLEAN
    BY <1>1, <1>5 DEF AnalyzeRead, Read, Incident
  <2> HIDE DEF success
  <2>2. t \in Txn
    BY <2>1, IdleForms DEF Txn
  <2>3. /\ t.op = "analyze" /\ t.on = i /\ t.loaded = {} /\ t.todo = {} /\ t.new = None
        /\ t.rows = Idle.rows
    BY DEF Idle
  <2> HIDE DEF t
  <2> QED
    BY <1>3, <2>1, <2>2, <2>3
<1>6. CASE \E to \in Statuses : MoveRead(s, i, to)
  <2>1. PICK to \in Statuses : MoveRead(s, i, to)
    BY <1>6
  <2> DEFINE status == inc[i].status
             t == [[Idle EXCEPT !.op = "move", !.status = status, !.to = to] EXCEPT !.on = i]
  <2>2. txn' = [txn EXCEPT ![s] = t] /\ status \in Statuses /\ to \in Transitions[status]
    BY <1>1, <1>2, <2>1 DEF MoveRead, Read
  <2>3. t \in Txn
    <3> HIDE DEF status
    <3> QED
      BY <2>2, IdleForms DEF Txn
  <2>4. /\ t.op = "move" /\ t.on = i /\ t.loaded = {} /\ t.todo = {} /\ t.new = None
        /\ t.rows = Idle.rows /\ t.status = status /\ t.to = to
    <3> HIDE DEF status
    <3> QED
      BY DEF Idle
  <2> HIDE DEF t
  <2> QED
    BY <1>3, <2>2, <2>3, <2>4
<1> QED
  BY <1>4, <1>5, <1>6

\* An alert, or a request that ends.
LEMMA AlertKeeps ==
    ASSUME IInv, NEW p \in Processes, NEW i \in Incidents, Alert(p, i) \/ AlertFails(p, i)
    PROVE  IInv'
<1> DEFINE raised == txn[p].raised \ {i}
           t == IF raised = {} THEN Idle ELSE [txn[p] EXCEPT !.raised = raised]
<1>1. /\ txn[p].op = "alert" /\ i \in txn[p].raised
      /\ txn' = [txn EXCEPT ![p] = t]
      /\ UNCHANGED <<event, pushed, inc, links, again, overtaken>>
      /\ \/ alerted' = [alerted EXCEPT ![i] = inc[i].risk] /\ missed' = missed
         \/ alerted' = alerted /\ missed' = missed \cup {i}
  <2>1. /\ AlertDone(p, i)
        /\ \/ alerted' = [alerted EXCEPT ![i] = inc[i].risk] /\ missed' = missed
           \/ alerted' = alerted /\ missed' = missed \cup {i}
    BY DEF Alert, AlertFails
  <2>2. txn' = [txn EXCEPT ![p] = t]
    BY <2>1 DEF AlertDone
  <2> QED
    BY <2>1, <2>2 DEF AlertDone
<1>2. txn[p] \in Txn /\ inc[i] \in Incident
  BY DEF IInv, TypeOK
<1>3. /\ t \in Txn /\ t.rows = IF raised = {} THEN Idle.rows ELSE txn[p].rows
      /\ t.raised = raised
      /\ raised # {} => t = [txn[p] EXCEPT !.raised = raised]
  <2>1. CASE raised = {}
    BY <2>1, IdleForms
  <2>2. CASE raised # {}
    BY <1>1, <1>2, <2>2 DEF Txn
  <2> QED
    BY <2>1, <2>2
<1>4. PICK u \in Txn : u = t
  BY <1>3
<1>5. txn'[p] = t
  BY <1>1 DEF IInv, TypeOK
<1>6. pushed' \subseteq SUBSET Events /\ missed' \subseteq Incidents
      /\ alerted' \in [Incidents -> Risks \cup {0}]
  <2>1. inc[i].risk \in Risks \cup {0}
    BY <1>2 DEF Incident
  <2> QED
    BY <1>1, <2>1 DEF IInv, TypeOK
<1>7. ASSUME NEW j \in Incidents PROVE Told(j)'
  <2> SUFFICES ASSUME j \notin missed', inc[j].risk >= Alarm, ~(alerted'[j] >= inc[j].risk)
               PROVE  \E q \in Processes : txn'[q].op = "alert" /\ j \in txn'[q].raised
    BY <1>1 DEF Told
  <2>1. j # i
    <3>1. inc[i].risk \in Nat
      <4>1. inc[i].risk \in Risks \cup {0}
        BY <1>2 DEF Incident
      <4> QED
        BY <4>1, Constants
    <3> QED
      BY <1>1, <3>1 DEF IInv, TypeOK
  <2>2. alerted'[j] = alerted[j] /\ j \notin missed
    BY <1>1, <2>1 DEF IInv, TypeOK
  <2>3. PICK q \in Processes : txn[q].op = "alert" /\ j \in txn[q].raised
    BY <2>2 DEF IInv, Told
  <2>4. CASE q = p
    <3>1. t = [txn[p] EXCEPT !.raised = raised] /\ j \in raised
      BY <1>3, <2>1, <2>3, <2>4
    <3>2. t.op = "alert" /\ j \in t.raised
      BY <1>1, <1>2, <3>1 DEF Txn
    <3> QED
      BY <1>5, <3>2
  <2>5. CASE q # p
    BY <1>1, <2>3, <2>5 DEF IInv, TypeOK
  <2> QED
    BY <2>4, <2>5
<1>8. Processing(p)'
  <2>1. CASE t = Idle
    BY <1>5, <2>1, IdleForms DEF Processing, Covered, Working, Has, Row
  <2>2. CASE t = [txn[p] EXCEPT !.raised = raised]
    <3>1. \A j \in Incidents : ~Has(p, j)
      BY <1>1 DEF IInv, Processing, Written, Batch
    <3>2. /\ t.op = txn[p].op /\ t.rows = txn[p].rows /\ t.todo = txn[p].todo
          /\ t.new = txn[p].new /\ t.loaded = txn[p].loaded
      BY <1>2, <2>2 DEF Txn
    <3>3. \A j \in Incidents : ~Has(p, j)'
      BY <1>5, <3>1, <3>2 DEF Has, Row
    <3>4. Covered(p)'
      BY <1>5, <3>1, <3>2, <3>3 DEF IInv, Processing, Covered
    <3> QED
      BY <1>1, <1>5, <3>2, <3>3, <3>4 DEF Processing, Working
  <2> QED
    BY <2>1, <2>2
<1>9. \A j \in Incidents : Has(p, j)' => Has(p, j) /\ t.rows[j].key = Row(p, j).key
  BY <1>3, <1>5, IdleForms DEF Has, Row
<1> HIDE DEF t
<1> QED
  BY <1>1, <1>3, <1>6, <1>7, <1>8, <1>9, TxnStep

LEMMA AbortKeeps ==
    ASSUME IInv, NEW p \in Processes, Abort(p)
    PROVE  IInv'
<1>1. /\ txn' = [txn EXCEPT ![p] = Idle]
      /\ UNCHANGED <<event, pushed, inc, links, alerted, again, overtaken>>
      /\ missed' = missed \cup IF txn[p].op = "alert" THEN txn[p].raised ELSE {}
  BY DEF Abort
<1>2. \A i \in Incidents : Told(i)'
  BY <1>1, IdleForms, ToldStays
<1>3. /\ missed' \subseteq Incidents /\ pushed' \subseteq SUBSET Events
      /\ alerted' \in [Incidents -> Risks \cup {0}]
  BY <1>1 DEF IInv, TypeOK, Txn
<1> QED
  BY <1>1, <1>2, <1>3, IdleForms, CleanStep

-----------------------------------------------------------------------------
(* Upserts *)

\* In going on to t, p writes row i for key k, which then is done; nobody else has the key.
Writes(p, i, k, row, t) ==
    /\ t.op = txn[p].op /\ t.loaded = txn[p].loaded
    /\ t.rows = [txn[p].rows EXCEPT ![i] = row] /\ txn[p].raised \subseteq t.raised
    /\ k \in txn[p].todo \cup {txn[p].new}
    /\ t.todo \subseteq txn[p].todo \ {k} /\ t.new # k /\ t.new \in {txn[p].new, None}
    /\ txn[p].todo \cup {txn[p].new} \subseteq t.todo \cup {t.new, k}
    /\ row.key = k /\ row # NoInc /\ \A q \in Processes : ~Has(q, i)
    /\ \A j \in Incidents \ {i} :
         /\ \A q \in Processes \ {p} : Has(q, j) => Row(q, j).key # k
         /\ Open(j) => inc[j].key # k

LEMMA WriteKeeps ==
    ASSUME IInv, NEW p \in Processes, NEW i \in Incidents, NEW k \in Keys,
           NEW row \in Incident, NEW t \in Txn, txn' = [txn EXCEPT ![p] = t],
           UNCHANGED <<event, pushed, inc, links, alerted, again, missed, overtaken>>,
           Writes(p, i, k, row, t), txn[p].op \in Batch => Written(p, i)'
    PROVE  IInv'
<1>0. /\ t.op = txn[p].op /\ t.loaded = txn[p].loaded
      /\ t.rows = [txn[p].rows EXCEPT ![i] = row] /\ txn[p].raised \subseteq t.raised
      /\ k \in txn[p].todo \cup {txn[p].new}
      /\ t.todo \subseteq txn[p].todo \ {k} /\ t.new # k /\ t.new \in {txn[p].new, None}
      /\ txn[p].todo \cup {txn[p].new} \subseteq t.todo \cup {t.new, k}
      /\ row.key = k /\ row # NoInc /\ \A q \in Processes : ~Has(q, i)
      /\ \A j \in Incidents \ {i} :
           /\ \A q \in Processes \ {p} : Has(q, j) => Row(q, j).key # k
           /\ Open(j) => inc[j].key # k
  BY DEF Writes
<1>1. /\ txn'[p] = t /\ \A q \in Processes \ {p} : txn'[q] = txn[q]
      /\ txn[p].rows \in [Incidents -> Incident] /\ Processing(p)
  BY DEF IInv, TypeOK, Txn
<1>2. /\ Row(p, i)' = row
      /\ \A j \in Incidents \ {i} : Row(p, j)' = Row(p, j)
      /\ \A q \in Processes \ {p}, j \in Incidents : Row(q, j)' = Row(q, j)
  BY <1>0, <1>1 DEF Row
<1>3. txn[p].op \in Batch
  BY <1>0, <1>1, Constants DEF Processing, Covered
<1>4. ASSUME NEW j \in Incidents \ {i}, Has(p, j)
      PROVE  /\ Row(p, j).key # k
             /\ Row(p, j).key \in Keys /\ Row(p, j).key \notin t.todo \cup {t.new}
  <2>1. Row(p, j).key \in Keys
    BY <1>1, <1>4 DEF Processing, Written
  <2>2. Row(p, j).key \notin txn[p].todo \cup {txn[p].new}
    BY <1>1, <1>4 DEF Processing, Covered
  <2> QED
    BY <1>0, <2>1, <2>2, Constants
<1>5. Sole(p, i)'
  <2>1. \A q \in Processes \ {p} : ~Has(q, i)'
    BY <1>0, <1>2 DEF Has
  <2>2. ASSUME NEW j \in Incidents \ {i}, NEW q \in Processes, Has(q, j)'
        PROVE  Row(q, j)'.key # k
    <3>1. Has(q, j) /\ Row(q, j)' = Row(q, j)
      BY <1>2, <2>2 DEF Has
    <3> QED
      BY <1>0, <1>4, <3>1
  <2> QED
    BY <1>0, <1>2, <2>1, <2>2 DEF Sole, Open
<1>6. \A j \in Incidents : Has(p, j)' =>
         Sole(p, j)' \/ (Has(p, j) /\ t.rows[j].key = Row(p, j).key)
  <2>1. ASSUME NEW j \in Incidents \ {i}, Has(p, j)'
        PROVE  Has(p, j) /\ t.rows[j].key = Row(p, j).key
    BY <1>1, <1>2, <2>1 DEF Has, Row
  <2> QED
    BY <1>5, <2>1
<1>7. ASSUME NEW j \in Incidents, Has(p, j)' PROVE Written(p, j)'
  <2>1. CASE j = i
    BY <1>3, <2>1
  <2>2. CASE j # i
    <3>1. Has(p, j) /\ Row(p, j)' = Row(p, j)
      BY <1>2, <1>7, <2>2 DEF Has
    <3>2. Written(p, j)
      BY <1>1, <3>1 DEF Processing
    <3>3. Of(p, Row(p, j).key)' = Of(p, Row(p, j).key)
      BY <1>0, <1>1, <3>1 DEF Of
    <3> QED
      BY <1>0, <1>1, <3>1, <3>2, <3>3 DEF Written, Open
  <2> QED
    BY <2>1, <2>2
<1>8. Covered(p)'
  <2>1. t.todo # {} \/ t.new # None => t.op \in Batch
    BY <1>0, <1>3
  <2>2. t.new \notin t.todo
    BY <1>0, <1>1, Constants DEF Processing, Covered, IInv, TypeOK, Txn
  <2>3. ASSUME NEW e \in t.loaded, KeyOf[e] # None
        PROVE  \/ KeyOf[e] \in t.todo \cup {t.new}
               \/ \E j \in Incidents : Has(p, j)' /\ Row(p, j)'.key = KeyOf[e]
    <3>1. Has(p, i)'
      BY <1>0, <1>2 DEF Has
    <3>2. CASE KeyOf[e] \in txn[p].todo \cup {txn[p].new}
      BY <1>0, <1>2, <3>1, <3>2
    <3>3. CASE \E j \in Incidents : Has(p, j) /\ Row(p, j).key = KeyOf[e]
      <4>1. PICK j \in Incidents : Has(p, j) /\ Row(p, j).key = KeyOf[e]
        BY <3>3
      <4>2. j # i
        BY <1>0, <4>1
      <4>3. Has(p, j)' /\ Row(p, j)' = Row(p, j)
        BY <1>2, <4>1, <4>2 DEF Has
      <4> QED
        BY <4>1, <4>3
    <3> QED
      BY <1>0, <1>1, <2>3, <3>2, <3>3 DEF Processing, Covered
  <2>4. ASSUME NEW j \in Incidents, Has(p, j)'
        PROVE  Row(p, j)'.key \notin t.todo \cup {t.new}
    <3>1. CASE j = i
      BY <1>0, <1>2, <3>1
    <3>2. CASE j # i
      <4>1. Has(p, j) /\ Row(p, j)' = Row(p, j)
        BY <1>2, <2>4, <3>2 DEF Has
      <4> QED
        BY <1>4, <3>2, <4>1
    <3> QED
      BY <3>1, <3>2
  <2> QED
    BY <1>1, <2>1, <2>2, <2>3, <2>4 DEF Covered
<1>9. Processing(p)'
  BY <1>0, <1>1, <1>3, <1>7, <1>8 DEF Processing, Working, Batch
<1>10. \A j \in Incidents : Told(j)'
  <2>1. txn[p].op # "alert" /\ missed \subseteq missed'
    BY <1>3 DEF Batch
  <2> QED
    BY <2>1, ToldStays
<1>11. /\ pushed' \subseteq SUBSET Events /\ missed' \subseteq Incidents
       /\ alerted' \in [Incidents -> Risks \cup {0}]
  BY DEF IInv, TypeOK
<1> QED
  BY <1>6, <1>9, <1>10, <1>11, TxnStep

\* The open incident of k is written with the events of the batch.
LEMMA UpsertOpenKeeps ==
    ASSUME IInv, NEW p \in Processes, NEW k \in Keys, NEW i \in Incidents, NEW r \in Risks,
           UpsertOpen(p, k, i, r)
    PROVE  IInv'
<1> DEFINE count == inc[i].count + Cardinality(Of(p, k))
           risk == Raised(inc[i].risk, r)
           success == inc[i].success \/ Of(p, k) \cap Succeeds # {}
           row == [inc[i] EXCEPT !.count = count, !.risk = risk, !.success = success]
           todo == txn[p].todo \ {k}
           rows == [txn[p].rows EXCEPT ![i] = row]
           raised == IF Alarms(inc[i].risk, r) THEN txn[p].raised \cup {i} ELSE txn[p].raised
           t == [txn[p] EXCEPT !.todo = todo, !.rows = rows, !.raised = raised]
<1>1. /\ k \in txn[p].todo /\ Open(i) /\ inc[i].key = k /\ Unlocked(p, i)
      /\ UNCHANGED <<event, pushed, inc, links, alerted, again, missed, overtaken>>
  BY DEF UpsertOpen
<1>2. /\ txn \in [Processes -> Txn] /\ txn[p] \in Txn /\ inc[i] \in Incident
      /\ Cardinality(Of(p, k)) \in Nat /\ Processing(p)
  BY RowForms, Counting DEF IInv, TypeOK
<1>3. /\ row \in Incident /\ row.key = k /\ row.status = inc[i].status /\ row.by = inc[i].by
      /\ row.count = count /\ row.risk = risk /\ row.success = success
  <2>1. count \in Nat /\ risk \in Risks \cup {0}
    BY <1>2 DEF Incident, Raised
  <2>2. success \in BOOLEAN
    OBVIOUS
  <2> HIDE DEF count, risk, success
  <2> QED
    BY <1>1, <1>2, <2>1, <2>2 DEF Incident
<1> HIDE DEF row
<1>4. todo \subseteq Keys /\ rows \in [Incidents -> Incident] /\ raised \subseteq Incidents
  BY <1>2, <1>3 DEF Txn
<1>5. txn' = [txn EXCEPT ![p] = t]
  BY <1>2 DEF UpsertOpen, Txn, row
<1> HIDE DEF rows, raised
<1>6. /\ t \in Txn /\ t.op = txn[p].op /\ t.loaded = txn[p].loaded /\ t.rows = rows
      /\ t.todo = todo /\ t.new = txn[p].new /\ t.raised = raised
  BY <1>2, <1>4 DEF Txn
<1> HIDE DEF t
<1>7. ASSUME NEW q \in Processes PROVE ~Has(q, i)
  <2>1. CASE q = p
    <3>1. Has(p, i) => Row(p, i).key = k
      BY <1>1, <1>2, NoIncForms DEF Processing, Written, Open
    <3> QED
      BY <1>1, <1>2, <2>1, <3>1 DEF Processing, Covered
  <2>2. CASE q # p
    BY <1>1, <2>2 DEF Unlocked, Has, Row
  <2> QED
    BY <2>1, <2>2
<1>8. /\ k \in Keys /\ row # NoInc /\ row.status \notin Over \cup {"ABSENT"}
  BY <1>1, <1>3, NoIncForms DEF Open
<1>9. ASSUME NEW j \in Incidents \ {i}
      PROVE  /\ \A q \in Processes \ {p} : Has(q, j) => Row(q, j).key # k
             /\ Open(j) => inc[j].key # k
  BY <1>1 DEF IInv, OneKey
<1>10. ASSUME txn[p].op \in Batch PROVE Written(p, i)'
  <2>1. txn'[p] = t /\ Row(p, i)' = row
    BY <1>2, <1>5, <1>6 DEF Row, rows, Txn
  <2>2. Of(p, k)' = Of(p, k)
    BY <1>6, <2>1 DEF Of
  <2>3. inc[i].risk \in Nat /\ r \in Nat /\ Alarm \in Nat
    BY <1>2, Constants DEF Incident
  <2>4. /\ row.risk >= inc[i].risk
        /\ row.risk >= Alarm => i \in t.raised \/ row.risk = inc[i].risk
    BY <1>3, <1>6, <2>3 DEF raised, Raised, Alarms
  <2>5. Row(p, i)'.count = inc[i].count + Cardinality(Of(p, Row(p, i).key)')
    BY <1>3, <2>1, <2>2 DEF Of
  <2> QED
    BY <1>1, <1>3, <1>6, <1>8, <1>10, <2>1, <2>4, <2>5 DEF Written, Open
<1>11. txn[p].raised \subseteq t.raised /\ t.rows = [txn[p].rows EXCEPT ![i] = row]
  BY <1>6 DEF raised, rows
<1>12. /\ t.todo \subseteq txn[p].todo \ {k} /\ t.new # k /\ t.new \in {txn[p].new, None}
       /\ txn[p].todo \cup {txn[p].new} \subseteq t.todo \cup {t.new, k}
       /\ k \in txn[p].todo \cup {txn[p].new}
  BY <1>1, <1>2, <1>6 DEF Processing, Covered
<1>13. Writes(p, i, k, row, t)
  BY <1>3, <1>6, <1>7, <1>8, <1>9, <1>11, <1>12 DEF Writes
<1>14. txn[p].op \in Batch => Written(p, i)'
  BY <1>10
<1> QED
  BY <1>1, <1>3, <1>5, <1>6, <1>13, <1>14, WriteKeeps

LEMMA UpsertNoneKeeps ==
    ASSUME IInv, NEW p \in Processes, NEW k \in Keys, UpsertNone(p, k)
    PROVE  IInv'
<1> DEFINE todo == txn[p].todo \ {k}
           t == [txn[p] EXCEPT !.todo = todo, !.new = k]
<1>1. /\ k \in txn[p].todo /\ txn[p].new = None
      /\ UNCHANGED <<event, pushed, inc, links, alerted, again, missed, overtaken>>
  BY DEF UpsertNone
<1>2. txn \in [Processes -> Txn] /\ txn[p] \in Txn /\ Processing(p)
  BY DEF IInv, TypeOK
<1>3. txn' = [txn EXCEPT ![p] = t]
  BY <1>2 DEF UpsertNone, Txn
<1>4. /\ t \in Txn /\ t.op = txn[p].op /\ t.loaded = txn[p].loaded /\ t.rows = txn[p].rows
      /\ t.todo = todo /\ t.new = k /\ t.raised = txn[p].raised
  BY <1>2 DEF Txn
<1> HIDE DEF t
<1>5. txn'[p] = t /\ txn[p].op \in Batch
  BY <1>1, <1>2, <1>3 DEF Processing, Covered
<1>6. \A i \in Incidents : (Has(p, i)' <=> Has(p, i)) /\ Row(p, i)' = Row(p, i)
  BY <1>4, <1>5 DEF Has, Row
<1>7. ASSUME NEW i \in Incidents, Has(p, i)' PROVE Written(p, i)'
  <2>1. Written(p, i) /\ Row(p, i)' = Row(p, i)
    BY <1>2, <1>6, <1>7 DEF Processing
  <2>2. Of(p, Row(p, i).key)' = Of(p, Row(p, i).key)
    BY <1>4, <1>5, <2>1 DEF Of
  <2> QED
    BY <1>1, <1>4, <1>5, <2>1, <2>2 DEF Written, Open
<1>8. Covered(p)'
  <2>1. \A e \in t.loaded : KeyOf[e] # None =>
          \/ KeyOf[e] \in t.todo \cup {t.new}
          \/ \E i \in Incidents : Has(p, i)' /\ Row(p, i)'.key = KeyOf[e]
    BY <1>1, <1>2, <1>4, <1>6 DEF Processing, Covered
  <2>2. \A i \in Incidents : Has(p, i)' => Row(p, i)'.key \notin t.todo \cup {t.new}
    BY <1>1, <1>2, <1>4, <1>6 DEF Processing, Covered
  <2> QED
    BY <1>4, <1>5, <2>1, <2>2 DEF Covered
<1>9. Processing(p)'
  BY <1>4, <1>5, <1>7, <1>8 DEF Processing, Working, Batch
<1>10. \A i \in Incidents : Told(i)'
  <2>1. txn[p].op # "alert" /\ missed \subseteq missed'
    BY <1>1, <1>5 DEF Batch
  <2> QED
    BY <1>1, <1>3, <1>4, <2>1, ToldStays
<1>11. /\ pushed' \subseteq SUBSET Events /\ missed' \subseteq Incidents
       /\ alerted' \in [Incidents -> Risks \cup {0}]
  BY <1>1 DEF IInv, TypeOK
<1>12. \A i \in Incidents : Has(p, i)' => Has(p, i) /\ t.rows[i].key = Row(p, i).key
  BY <1>4, <1>6 DEF Row
<1> QED
  BY <1>1, <1>3, <1>4, <1>9, <1>10, <1>11, <1>12, TxnStep

\* What the unique index lets p write or reopen has the key to itself.
LEMMA UniqueKey ==
    ASSUME IInv, NEW p \in Processes, NEW i \in Incidents, NEW k \in Keys, Unique(p, i, k),
           NEW j \in Incidents \ {i}
    PROVE  /\ ~(Open(j) /\ inc[j].key = k)
           /\ \A q \in Processes \ {p} : Has(q, j) => Row(q, j).key # k
<1>1. ~(Open(j) /\ inc[j].key = k)
  BY DEF Unique
<1>2. ASSUME NEW q \in Processes \ {p}, Has(q, j), Row(q, j).key = k PROVE FALSE
  <2>1. inc[j] # NoInc
    BY <1>2 DEF Unique, Row
  <2>2. Written(q, j)
    BY <1>2 DEF IInv, Processing
  <2> QED
    BY <1>1, <1>2, <2>1, <2>2 DEF Written
<1> QED
  BY <1>1, <1>2

LEMMA InsertKeeps ==
    ASSUME IInv, NEW p \in Processes, NEW i \in Incidents, NEW r \in Risks, Insert(p, i, r)
    PROVE  IInv'
<1> DEFINE k == txn[p].new
           success == Of(p, k) \cap Succeeds # {}
           row == [status |-> "NEW", key |-> k, count |-> Cardinality(Of(p, k)), risk |-> r,
                   success |-> success, by |-> None]
           rows == [txn[p].rows EXCEPT ![i] = row]
           raised == IF Alarms(0, r) THEN txn[p].raised \cup {i} ELSE txn[p].raised
           t == [txn[p] EXCEPT !.new = None, !.rows = rows, !.raised = raised]
<1>1. /\ k # None /\ Fresh(i) /\ Unique(p, i, k)
      /\ UNCHANGED <<event, pushed, inc, links, alerted, again, missed, overtaken>>
  BY DEF Insert
<1>2. /\ txn \in [Processes -> Txn] /\ txn[p] \in Txn /\ k \in Keys
      /\ Cardinality(Of(p, k)) \in Nat /\ Processing(p)
  BY <1>1, RowForms, Counting DEF IInv, TypeOK, Txn
<1>3. /\ row \in Incident /\ row.key = k /\ row.status = "NEW" /\ row.by = None
      /\ row.count = Cardinality(Of(p, k)) /\ row.risk = r
  BY <1>2 DEF Incident, Statuses, Transitions
<1>4. rows \in [Incidents -> Incident] /\ raised \subseteq Incidents
  <2> HIDE DEF row
  <2> QED
    BY <1>2, <1>3 DEF Txn
<1>5. txn' = [txn EXCEPT ![p] = t]
  BY <1>2 DEF Insert, Txn
<1> HIDE DEF row, rows, raised
<1>6. /\ t \in Txn /\ t.op = txn[p].op /\ t.loaded = txn[p].loaded /\ t.rows = rows
      /\ t.todo = txn[p].todo /\ t.new = None /\ t.raised = raised
  BY <1>2, <1>4 DEF Txn
<1> HIDE DEF t
<1>7. inc[i] = NoInc /\ \A q \in Processes : ~Has(q, i)
  <2>1. inc[i] = NoInc /\ \A q \in Processes : txn[q].rows[i] = NoInc
    BY <1>1 DEF Fresh
  <2> QED
    BY <2>1 DEF Has, Row
<1>8. row # NoInc
  BY <1>3, NoIncForms
<1>9. ASSUME NEW j \in Incidents \ {i}
      PROVE  /\ \A q \in Processes \ {p} : Has(q, j) => Row(q, j).key # k
             /\ Open(j) => inc[j].key # k
  BY <1>1, <1>2, UniqueKey
<1>10. ASSUME txn[p].op \in Batch PROVE Written(p, i)'
  <2>1. txn'[p] = t /\ Row(p, i)' = row
    BY <1>2, <1>5, <1>6 DEF Row, rows, Txn
  <2>2. Row(p, i)'.count = inc[i].count + Cardinality(Of(p, Row(p, i).key)')
    <3>1. Of(p, k)' = {e \in t.loaded : KeyOf[e] = k'}
      BY <2>1 DEF Of
    <3>2. Of(p, Row(p, i).key)' = Of(p, k)
      BY <1>3, <1>6, <2>1 DEF Of
    <3> QED
      BY <1>2, <1>3, <1>7, <2>1, <3>2, NoIncForms
  <2>3. r \in Nat /\ r > 0 /\ inc[i].risk = 0 /\ Alarm \in Nat /\ Alarm > 0
    BY <1>7, NoIncForms, Constants DEF Risks
  <2>4. /\ row.risk >= inc[i].risk
        /\ row.risk >= Alarm => i \in t.raised
    BY <1>3, <1>6, <2>3 DEF raised, Alarms
  <2>5. row.status \notin Over \cup {"ABSENT"}
    BY <1>3 DEF Over
  <2> QED
    BY <1>1, <1>2, <1>3, <1>6, <1>7, <1>10, <2>1, <2>2, <2>4, <2>5, NoIncForms DEF Written
<1>11. txn[p].raised \subseteq t.raised /\ t.rows = [txn[p].rows EXCEPT ![i] = row]
  BY <1>6 DEF raised, rows
<1>12. /\ t.todo \subseteq txn[p].todo \ {k} /\ t.new # k /\ t.new \in {txn[p].new, None}
       /\ txn[p].todo \cup {txn[p].new} \subseteq t.todo \cup {t.new, k}
       /\ k \in txn[p].todo \cup {txn[p].new}
  BY <1>1, <1>2, <1>6 DEF Processing, Covered
<1>13. Writes(p, i, k, row, t)
  BY <1>3, <1>6, <1>7, <1>8, <1>9, <1>11, <1>12 DEF Writes
<1>14. txn[p].op \in Batch => Written(p, i)'
  BY <1>10
<1> HIDE DEF k
<1> QED
  BY <1>1, <1>2, <1>3, <1>5, <1>6, <1>13, <1>14, WriteKeeps

-----------------------------------------------------------------------------
(* Commits *)

\* The rows of p, and the events of them, become those of the database.
LEMMA Committed ==
    ASSUME IInv, NEW p \in Processes, ProcessCommit(p)
    PROVE  /\ txn[p].op \in Batch /\ txn[p].todo = {} /\ txn[p].new = None
           /\ UNCHANGED <<pushed, alerted, overtaken>>
           /\ \A i \in Incidents :
                /\ Has(p, i) => /\ inc'[i] = Row(p, i)
                                /\ links'[i] = links[i] \cup Of(p, Row(p, i).key)
                /\ ~Has(p, i) => inc'[i] = inc[i] /\ links'[i] = links[i]
           /\ \A e \in Events : event'[e] = IF e \in txn[p].loaded THEN "ASSESSED" ELSE event[e]
           /\ again' = again \cup {e \in txn[p].loaded : event[e] = "ASSESSED"}
           /\ \E t \in Txn : /\ txn' = [txn EXCEPT ![p] = t]
                             /\ t.rows = Idle.rows /\ t.loaded = {} /\ t.todo = {} /\ t.new = None
                             /\ \/ t.op = "alert" /\ t.raised = txn[p].raised /\ missed' = missed
                                \/ t.op = "idle" /\ missed' = missed \cup txn[p].raised
           /\ TypeOK'
<1> DEFINE raised == txn[p].raised
           u == [Idle EXCEPT !.op = "alert", !.raised = raised]
<1>1. txn[p] \in Txn /\ raised \subseteq Incidents
  BY DEF IInv, TypeOK, Txn
<1>2. /\ txn[p].op \in Batch /\ txn[p].todo = {} /\ txn[p].new = None
      /\ UNCHANGED <<pushed, alerted, overtaken>>
      /\ inc' = [i \in Incidents |-> IF Has(p, i) THEN Row(p, i) ELSE inc[i]]
      /\ links' = [i \in Incidents |-> links[i] \cup
                      IF Has(p, i) THEN Of(p, Row(p, i).key) ELSE {}]
      /\ event' = [e \in Events |-> IF e \in txn[p].loaded THEN "ASSESSED" ELSE event[e]]
      /\ again' = again \cup {e \in txn[p].loaded : event[e] = "ASSESSED"}
  BY DEF ProcessCommit, Batch, Has, Row
<1>3. /\ u \in Txn /\ u.op = "alert" /\ u.raised = raised /\ u.rows = Idle.rows
      /\ u.loaded = Idle.loaded /\ u.todo = Idle.todo /\ u.new = Idle.new
  <2> HIDE DEF raised
  <2> QED
    BY <1>1, IdleForms DEF Txn
<1>4. \/ txn' = [txn EXCEPT ![p] = u] /\ missed' = missed
      \/ txn' = [txn EXCEPT ![p] = Idle] /\ missed' = missed \cup raised
  BY DEF ProcessCommit
<1> HIDE DEF u
<1>5. \E t \in Txn : /\ txn' = [txn EXCEPT ![p] = t]
                     /\ t.rows = Idle.rows /\ t.loaded = {} /\ t.todo = {} /\ t.new = None
                     /\ \/ t.op = "alert" /\ t.raised = raised /\ missed' = missed
                        \/ t.op = "idle" /\ missed' = missed \cup raised
  <2>1. CASE txn' = [txn EXCEPT ![p] = u] /\ missed' = missed
    BY <1>3, <2>1, IdleForms
  <2>2. CASE txn' = [txn EXCEPT ![p] = Idle] /\ missed' = missed \cup raised
    BY <2>2, IdleForms
  <2> QED
    BY <1>4, <2>1, <2>2
<1>6. TypeOK'
  <2>1. inc' \in [Incidents -> Incident] /\ links' \in [Incidents -> SUBSET Events]
    BY <1>2, RowForms DEF IInv, TypeOK
  <2>2. event' \in [Events -> {"ABSENT", "NEW", "ASSESSED"}] /\ again' \subseteq Events
    BY <1>1, <1>2 DEF IInv, TypeOK, Txn
  <2>3. missed' \subseteq Incidents /\ txn' \in [Processes -> Txn]
    BY <1>1, <1>5 DEF IInv, TypeOK
  <2> QED
    BY <1>2, <2>1, <2>2, <2>3 DEF IInv, TypeOK
<1>7. \A i \in Incidents :
        /\ Has(p, i) => /\ inc'[i] = Row(p, i)
                        /\ links'[i] = links[i] \cup Of(p, Row(p, i).key)
        /\ ~Has(p, i) => inc'[i] = inc[i] /\ links'[i] = links[i]
  BY <1>2
<1> QED
  BY <1>2, <1>5, <1>6, <1>7

LEMMA ProcessCommitKeeps ==
    ASSUME IInv, NEW p \in Processes, ProcessCommit(p)
    PROVE  IInv'
<1>1. /\ txn[p].op \in Batch /\ txn[p].todo = {} /\ txn[p].new = None
      /\ \A i \in Incidents :
           /\ Has(p, i) => /\ inc'[i] = Row(p, i)
                           /\ links'[i] = links[i] \cup Of(p, Row(p, i).key)
           /\ ~Has(p, i) => inc'[i] = inc[i] /\ links'[i] = links[i]
      /\ \A e \in Events : event'[e] = IF e \in txn[p].loaded THEN "ASSESSED" ELSE event[e]
      /\ again' = again \cup {e \in txn[p].loaded : event[e] = "ASSESSED"}
      /\ alerted' = alerted
      /\ TypeOK'
  BY Committed
<1>2. PICK t \in Txn :
        /\ txn' = [txn EXCEPT ![p] = t]
        /\ t.rows = Idle.rows /\ t.loaded = {} /\ t.todo = {} /\ t.new = None
        /\ \/ t.op = "alert" /\ t.raised = txn[p].raised /\ missed' = missed
           \/ t.op = "idle" /\ missed' = missed \cup txn[p].raised
  BY Committed
<1>3. /\ txn'[p] = t /\ \A q \in Processes \ {p} : txn'[q] = txn[q]
      /\ txn[p].loaded \subseteq Events /\ Processing(p)
      /\ \A i \in Incidents : links[i] \subseteq Events
  BY <1>2 DEF IInv, TypeOK, Txn
<1>4. \A i \in Incidents :
        /\ ~Has(p, i)'
        /\ \A q \in Processes \ {p} : (Has(q, i)' <=> Has(q, i)) /\ Row(q, i)' = Row(q, i)
  BY <1>2, <1>3, IdleForms DEF Has, Row
<1>5. ASSUME NEW i \in Incidents, inc[i] # NoInc
      PROVE  inc'[i] # NoInc /\ inc'[i].key = inc[i].key
  <2>1. CASE Has(p, i)
    <3>1. Written(p, i) /\ inc'[i] = Row(p, i)
      BY <1>1, <1>3, <2>1 DEF Processing
    <3> QED
      BY <1>5, <2>1, <3>1 DEF Has, Written
  <2>2. CASE ~Has(p, i)
    BY <1>1, <1>5, <2>2
  <2> QED
    BY <2>1, <2>2
<1>6. ASSUME NEW q \in Processes PROVE Processing(q)'
  <2>1. CASE q = p
    BY <1>2, <1>3, <1>4, <2>1 DEF Processing, Covered, Working
  <2>2. CASE q # p
    <3>1. Processing(q) /\ txn'[q] = txn[q]
      BY <1>3, <2>2 DEF IInv
    <3>2. ASSUME NEW i \in Incidents, Has(q, i)' PROVE Written(q, i)'
      <4>1. Has(q, i) /\ Row(q, i)' = Row(q, i)
        BY <1>4, <2>2, <3>2
      <4>2. ~Has(p, i)
        BY <2>2, <4>1 DEF IInv, Alone
      <4>3. Written(q, i) /\ inc'[i] = inc[i]
        BY <1>1, <3>1, <4>1, <4>2 DEF Processing
      <4> QED
        BY <3>1, <4>1, <4>3 DEF Written, Of, Open
    <3>3. Covered(q)'
      BY <3>1 DEF Processing, Covered, Has, Row
    <3>4. Working(q)'
      BY <1>5, <3>1 DEF Processing, Working
    <3> QED
      BY <3>2, <3>3, <3>4 DEF Processing
  <2> QED
    BY <2>1, <2>2
<1>7. Alone'
  <2>1. ASSUME NEW q \in Processes, NEW r \in Processes, NEW i \in Incidents,
               Has(q, i)', Has(r, i)'
        PROVE  q = r
    BY <1>4, <2>1 DEF IInv, Alone
  <2> QED
    BY <2>1 DEF Alone
<1>8. OneKey'
  <2> SUFFICES ASSUME NEW i \in Incidents, NEW j \in Incidents, i # j
               PROVE  /\ \A q, r \in Processes : Has(q, i)' /\ Has(r, j)'
                                                   => Row(q, i)'.key # Row(r, j)'.key
                      /\ \A q \in Processes : Has(q, i)' /\ Open(j)' => Row(q, i)'.key # inc'[j].key
                      /\ Open(i)' /\ Open(j)' => inc'[i].key # inc'[j].key
    BY DEF OneKey
  <2>1. ASSUME NEW q \in Processes, NEW r \in Processes, Has(q, i)', Has(r, j)'
        PROVE  Row(q, i)'.key # Row(r, j)'.key
    BY <1>4, <2>1 DEF IInv, OneKey
  <2>2. ASSUME NEW q \in Processes, Has(q, i)', Open(j)'
        PROVE  Row(q, i)'.key # inc'[j].key
    <3>1. Has(q, i) /\ Row(q, i)' = Row(q, i)
      BY <1>4, <2>2
    <3>2. CASE Has(p, j)
      BY <1>1, <3>1, <3>2 DEF IInv, OneKey
    <3>3. CASE ~Has(p, j)
      BY <1>1, <2>2, <3>1, <3>3 DEF IInv, OneKey, Open
    <3> QED
      BY <3>2, <3>3
  <2>3. ASSUME Open(i)', Open(j)' PROVE inc'[i].key # inc'[j].key
    <3>1. /\ Has(p, i) \/ (Open(i) /\ inc'[i] = inc[i])
          /\ Has(p, j) \/ (Open(j) /\ inc'[j] = inc[j])
      BY <1>1, <2>3 DEF Open
    <3> QED
      BY <1>1, <3>1 DEF IInv, OneKey
  <2> QED
    BY <2>1, <2>2, <2>3
<1>9. ASSUME NEW i \in Incidents PROVE Linked(i)'
  <2>1. Linked(i)
    BY DEF IInv
  <2>2. ASSUME NEW e \in links[i]
        PROVE  event'[e] = "ASSESSED" /\ event[e] = "ASSESSED" /\ KeyOf[e] = inc'[i].key
    BY <1>1, <1>3, <1>5, <2>1 DEF Linked
  <2>3. CASE ~Has(p, i)
    <3>1. inc'[i] = inc[i] /\ links'[i] = links[i] /\ again \subseteq again'
      BY <1>1, <2>3
    <3> QED
      BY <2>1, <2>2, <3>1 DEF Linked
  <2>4. CASE Has(p, i)
    <3> DEFINE E == Of(p, Row(p, i).key)
    <3>1. inc'[i] = Row(p, i) /\ links'[i] = links[i] \cup E /\ Written(p, i)
      BY <1>1, <1>3, <2>4 DEF Processing
    <3>2. ASSUME NEW e \in E
          PROVE  e \in Events /\ event'[e] = "ASSESSED" /\ KeyOf[e] = inc'[i].key
      BY <1>1, <1>3, <3>1 DEF Of
    <3>3. ASSUME links'[i] \cap again' = {} PROVE inc'[i].count = Cardinality(links'[i])
      <4>1. links[i] \cap again = {}
        BY <1>1, <3>1, <3>3
      <4>2. inc[i].count = Cardinality(links[i])
        BY <2>1, <4>1 DEF Linked
      <4>3. E \cap links[i] = {}
        BY <1>1, <2>2, <3>1, <3>3 DEF Of
      <4>4. E \in SUBSET Events /\ links[i] \in SUBSET Events
        BY <1>3 DEF Of
      <4>5. Cardinality(links[i] \cup E) = Cardinality(links[i]) + Cardinality(E)
        BY <4>3, <4>4, Counting
      <4>6. Row(p, i).count = inc[i].count + Cardinality(E)
        BY <3>1 DEF Written
      <4> QED
        BY <3>1, <4>2, <4>5, <4>6
    <3>4. inc'[i].status # "ABSENT" /\ inc'[i] # NoInc /\ inc'[i].key \in Keys
      BY <2>4, <3>1 DEF Written, Has
    <3> QED
      BY <2>2, <3>1, <3>2, <3>3, <3>4 DEF Linked
  <2> QED
    BY <2>3, <2>4
<1>10. ASSUME NEW i \in Incidents PROVE Told(i)'
  <2> SUFFICES ASSUME i \notin missed', inc'[i].risk >= Alarm, ~(alerted[i] >= inc'[i].risk)
               PROVE  \E q \in Processes : txn'[q].op = "alert" /\ i \in txn'[q].raised
    BY <1>1 DEF Told
  <2>1. CASE i \in txn[p].raised
    BY <1>2, <1>3, <2>1
  <2>2. CASE i \notin txn[p].raised
    <3>1. inc'[i].risk = inc[i].risk
      BY <1>1, <1>3, <2>2 DEF Processing, Written
    <3>2. i \notin missed
      BY <1>2
    <3>3. PICK q \in Processes : txn[q].op = "alert" /\ i \in txn[q].raised
      BY <3>1, <3>2 DEF IInv, Told
    <3>4. q # p
      BY <1>1, <3>3 DEF Batch
    <3> QED
      BY <1>3, <3>3, <3>4
  <2> QED
    BY <2>1, <2>2
<1>11. ASSUME NEW e \in Events PROVE Assessed(e)'
  <2>1. ASSUME event'[e] = "ASSESSED", KeyOf[e] # None
        PROVE  \E i \in Incidents : e \in links'[i] /\ inc'[i].key = KeyOf[e]
    <3>1. CASE e \in txn[p].loaded
      <4>1. PICK i \in Incidents : Has(p, i) /\ Row(p, i).key = KeyOf[e]
        BY <1>1, <1>3, <2>1, <3>1 DEF Processing, Covered
      <4>2. e \in Of(p, Row(p, i).key)
        BY <3>1, <4>1 DEF Of
      <4> QED
        BY <1>1, <4>1, <4>2
    <3>2. CASE e \notin txn[p].loaded
      <4>1. PICK i \in Incidents : e \in links[i] /\ inc[i].key = KeyOf[e]
        BY <1>1, <2>1, <3>2 DEF IInv, Assessed
      <4>2. inc[i] # NoInc
        BY <2>1, <4>1, NoIncForms
      <4>3. e \in links'[i] /\ inc'[i].key = inc[i].key
        BY <1>1, <1>5, <4>1, <4>2
      <4> QED
        BY <4>1, <4>3
    <3> QED
      BY <3>1, <3>2
  <2>2. ASSUME e \notin again', NEW i \in Incidents, NEW j \in Incidents,
               e \in links'[i], e \in links'[j]
        PROVE  i = j
    <3>1. e \notin again /\ (e \in txn[p].loaded => event[e] # "ASSESSED")
      BY <1>1, <2>2
    <3>2. ASSUME NEW k \in Incidents, e \in links'[k]
          PROVE  \/ e \in links[k] /\ event[e] = "ASSESSED"
                 \/ Has(p, k) /\ e \in txn[p].loaded /\ Row(p, k).key = KeyOf[e]
      <4>1. e \in links[k] => event[e] = "ASSESSED"
        BY DEF IInv, Linked
      <4> QED
        BY <1>1, <3>2, <4>1 DEF Of
    <3>3. CASE e \in links[i] /\ e \in links[j]
      BY <3>1, <3>3 DEF IInv, Assessed
    <3>4. CASE Has(p, i) /\ Has(p, j) /\ Row(p, i).key = Row(p, j).key
      BY <3>4 DEF IInv, OneKey
    <3> QED
      BY <2>2, <3>1, <3>2, <3>3, <3>4
  <2> QED
    BY <2>1, <2>2 DEF Assessed
<1> QED
  BY <1>1, <1>6, <1>7, <1>8, <1>9, <1>10, <1>11 DEF IInv

\* The row of a person or the analyst changes nothing that is counted; if it reopens the
\* incident, no other is open for its key.
LEMMA CommitKeeps ==
    ASSUME IInv, NEW s \in Processes, NEW row \in Incident, NEW was, Commit(s, row, was),
           txn[s].op \in {"move", "confirm", "analyze"},
           row.key = inc[txn[s].on].key, row.count = inc[txn[s].on].count,
           row.risk = inc[txn[s].on].risk, row.status # "ABSENT",
           row.status \notin Over /\ ~Open(txn[s].on) => Unique(s, txn[s].on, row.key)
    PROVE  IInv'
<1>0. PICK i \in Incidents : i = txn[s].on
  BY DEF IInv, Processing, Working
<1>1. /\ Unlocked(s, i) /\ inc' = [inc EXCEPT ![i] = row]
      /\ overtaken' = IF was THEN overtaken ELSE overtaken \cup {i}
      /\ txn' = [txn EXCEPT ![s] = Idle]
      /\ UNCHANGED <<event, pushed, links, alerted, again, missed>>
  BY <1>0 DEF Commit
<1>2. inc[i] # NoInc /\ Linked(i)
  BY <1>0 DEF IInv, Processing, Working
<1>3. /\ inc'[i] = row /\ \A j \in Incidents \ {i} : inc'[j] = inc[j]
      /\ txn'[s] = Idle /\ \A q \in Processes \ {s} : txn'[q] = txn[q]
  BY <1>1, <1>2 DEF IInv, TypeOK
<1>4. TypeOK'
  <2>1. overtaken' \subseteq Incidents
    BY <1>1, <1>2 DEF IInv, TypeOK
  <2> QED
    BY <1>1, <2>1, IdleForms DEF IInv, TypeOK
<1>5. row # NoInc /\ row.key \in Keys /\ inc[i].key = row.key
  BY <1>0, <1>2, NoIncForms DEF Linked
<1>6. ASSUME NEW j \in Incidents PROVE ~Has(s, j) /\ ~Has(s, j)'
  <2>1. ~Has(s, j)
    BY DEF IInv, Processing, Written, Batch
  <2> QED
    BY <1>3, <2>1, IdleForms DEF Has, Row
<1>7. \A q \in Processes : ~Has(q, i)
  BY <1>1, <1>2, <1>6 DEF Unlocked, Has, Row
<1>8. \A q \in Processes, j \in Incidents :
        Has(q, j)' => q # s /\ j # i /\ Has(q, j) /\ Row(q, j)' = Row(q, j)
  BY <1>3, <1>6, <1>7 DEF Has, Row
<1>9. ASSUME NEW q \in Processes PROVE Processing(q)'
  <2>1. CASE q = s
    BY <1>3, <1>6, <2>1, IdleForms DEF Processing, Covered, Working
  <2>2. CASE q # s
    <3>1. Processing(q) /\ txn'[q] = txn[q]
      BY <1>3, <2>2 DEF IInv
    <3>2. ASSUME NEW j \in Incidents, Has(q, j)' PROVE Written(q, j)'
      <4>1. Has(q, j) /\ j # i
        BY <1>8, <3>2
      <4>2. Written(q, j) /\ inc'[j] = inc[j]
        BY <1>3, <3>1, <4>1 DEF Processing
      <4> QED
        BY <3>1, <4>2 DEF Written, Row, Of, Open
    <3>3. Covered(q)'
      BY <3>1 DEF Processing, Covered, Has, Row
    <3>4. Working(q)'
      BY <1>3, <1>5, <3>1 DEF Processing, Working
    <3> QED
      BY <3>2, <3>3, <3>4 DEF Processing
  <2> QED
    BY <2>1, <2>2
<1>10. Alone'
  <2>1. ASSUME NEW q \in Processes, NEW r \in Processes, NEW j \in Incidents,
               Has(q, j)', Has(r, j)'
        PROVE  q = r
    BY <1>8, <2>1 DEF IInv, Alone
  <2> QED
    BY <2>1 DEF Alone
<1>11. ASSUME Open(i)', NEW j \in Incidents \ {i}
       PROVE  /\ Open(j) => inc[j].key # row.key
              /\ \A q \in Processes \ {s} : Has(q, j) => Row(q, j).key # row.key
  <2>1. CASE Open(i)
    BY <1>2, <1>5, <2>1 DEF IInv, OneKey
  <2>2. CASE ~Open(i)
    <3>1. Unique(s, i, row.key)
      BY <1>0, <1>3, <1>11, <2>2 DEF Open
    <3> QED
      BY <1>2, <1>5, <3>1, UniqueKey
  <2> QED
    BY <2>1, <2>2
<1>12. OneKey'
  <2> SUFFICES ASSUME NEW j \in Incidents, NEW k \in Incidents, j # k
               PROVE  /\ \A q, r \in Processes : Has(q, j)' /\ Has(r, k)'
                                                   => Row(q, j)'.key # Row(r, k)'.key
                      /\ \A q \in Processes : Has(q, j)' /\ Open(k)' => Row(q, j)'.key # inc'[k].key
                      /\ Open(j)' /\ Open(k)' => inc'[j].key # inc'[k].key
    BY DEF OneKey
  <2>1. ASSUME NEW q \in Processes, NEW r \in Processes, Has(q, j)', Has(r, k)'
        PROVE  Row(q, j)'.key # Row(r, k)'.key
    BY <1>8, <2>1 DEF IInv, OneKey
  <2>2. ASSUME NEW q \in Processes, Has(q, j)', Open(k)'
        PROVE  Row(q, j)'.key # inc'[k].key
    <3>1. q # s /\ j # i /\ Has(q, j) /\ Row(q, j)' = Row(q, j)
      BY <1>8, <2>2
    <3>2. CASE k = i
      BY <1>3, <1>11, <2>2, <3>1, <3>2
    <3>3. CASE k # i
      BY <1>3, <2>2, <3>1, <3>3 DEF IInv, OneKey, Open
    <3> QED
      BY <3>2, <3>3
  <2>3. ASSUME Open(j)', Open(k)' PROVE inc'[j].key # inc'[k].key
    <3>1. \A l \in Incidents \ {i} : Open(l)' => Open(l) /\ inc'[l] = inc[l]
      BY <1>3 DEF Open
    <3>2. CASE j = i
      BY <1>3, <1>11, <2>3, <3>1, <3>2
    <3>3. CASE k = i
      BY <1>3, <1>11, <2>3, <3>1, <3>3
    <3>4. CASE j # i /\ k # i
      BY <2>3, <3>1, <3>4 DEF IInv, OneKey
    <3> QED
      BY <3>2, <3>3, <3>4
  <2> QED
    BY <2>1, <2>2, <2>3
<1>13. ASSUME NEW j \in Incidents PROVE Linked(j)' /\ Told(j)'
  <2>1. Linked(j) /\ Told(j)
    BY DEF IInv
  <2>2. inc'[j].risk = inc[j].risk /\ inc'[j].count = inc[j].count /\ inc'[j].key = inc[j].key
    BY <1>0, <1>3, <1>5
  <2>3. Linked(j)'
    BY <1>1, <1>2, <1>3, <1>5, <2>1, <2>2 DEF Linked
  <2>4. Told(j)'
    <3>1. ASSUME NEW q \in Processes, txn[q].op = "alert" PROVE txn'[q] = txn[q]
      BY <1>3, <3>1
    <3> QED
      BY <1>1, <2>1, <2>2, <3>1 DEF Told
  <2> QED
    BY <2>3, <2>4
<1>14. ASSUME NEW e \in Events PROVE Assessed(e)'
  <2>1. \A j \in Incidents : inc'[j].key = inc[j].key
    BY <1>3, <1>5
  <2> QED
    BY <1>1, <2>1 DEF IInv, Assessed
<1> QED
  BY <1>4, <1>9, <1>10, <1>12, <1>13, <1>14 DEF IInv

\* A person moves, confirms or the analyst annotates an incident.
PeopleCommit(s) == MoveCommit(s) \/ ConfirmCommit(s) \/ AnalyzeCommit(s)

LEMMA PeopleCommitKeeps ==
    ASSUME IInv, NEW s \in Processes, s \in Sessions, PeopleCommit(s)
    PROVE  IInv'
<1> DEFINE i == txn[s].on
<1>1. /\ txn[s].op \in {"move", "confirm", "analyze"} /\ txn[s] \in Txn
      /\ i \in Incidents /\ inc[i] # NoInc /\ inc[i] \in Incident /\ inc[i].status # "ABSENT"
  BY DEF IInv, TypeOK, Processing, Working, Linked, PeopleCommit, MoveCommit, ConfirmCommit,
         AnalyzeCommit
<1>2. CASE MoveCommit(s)
  <2> DEFINE to == txn[s].to
             row == [inc[i] EXCEPT !.status = to]
             was == inc[i].status = txn[s].status
  <2>1. txn[s].op = "move" /\ Commit(s, row, was) /\ (to \notin Over => Unique(s, i, inc[i].key))
    BY <1>2 DEF MoveCommit
  <2>2. to \in Statuses
    <3>1. txn[s].status \in Statuses /\ to \in Transitions[txn[s].status]
      BY <2>1 DEF IInv, Processing, Working
    <3> QED
      BY <3>1 DEF Statuses, Transitions
  <2>3. /\ row \in Incident /\ row.key = inc[i].key /\ row.count = inc[i].count
        /\ row.risk = inc[i].risk /\ row.status = to
    <3> HIDE DEF to, i
    <3> QED
      BY <1>1, <2>2 DEF Incident
  <2>4. row.status # "ABSENT"
    BY <2>2, <2>3 DEF Statuses, Transitions
  <2>5. row.status \notin Over /\ ~Open(i) => Unique(s, i, row.key)
    BY <2>1, <2>3
  <2> HIDE DEF row, was
  <2> QED
    BY <1>1, <2>1, <2>3, <2>4, <2>5, CommitKeeps
<1>3. ASSUME NEW row \in Incident, NEW was, Commit(s, row, was), row.key = inc[i].key,
             row.count = inc[i].count, row.risk = inc[i].risk, row.status = inc[i].status
      PROVE  IInv'
  <2>1. row.status \notin Over /\ ~Open(i) => Unique(s, i, row.key)
    BY <1>1, <1>3 DEF Open
  <2>2. row.status # "ABSENT"
    BY <1>1, <1>3
  <2> QED
    BY <1>1, <1>3, <2>1, <2>2, CommitKeeps
<1>4. CASE ConfirmCommit(s)
  <2> DEFINE row == [inc[i] EXCEPT !.by = s]
             was == inc[i].by = None
  <2>1. Commit(s, row, was)
    BY <1>4 DEF ConfirmCommit
  <2>2. /\ row \in Incident /\ row.key = inc[i].key /\ row.count = inc[i].count
        /\ row.risk = inc[i].risk /\ row.status = inc[i].status
    <3> HIDE DEF i
    <3> QED
      BY <1>1 DEF Incident
  <2> HIDE DEF row, was
  <2> QED
    BY <1>3, <2>1, <2>2
<1>5. CASE AnalyzeCommit(s)
  <2> DEFINE success == txn[s].success
             row == [inc[i] EXCEPT !.success = success]
             was == inc[i].success = success
  <2>1. Commit(s, row, was) /\ success \in BOOLEAN
    BY <1>1, <1>5 DEF AnalyzeCommit, Txn
  <2>2. /\ row \in Incident /\ row.key = inc[i].key /\ row.count = inc[i].count
        /\ row.risk = inc[i].risk /\ row.status = inc[i].status
    <3> HIDE DEF i, success
    <3> QED
      BY <1>1, <2>1 DEF Incident
  <2> HIDE DEF row, was
  <2> QED
    BY <1>3, <2>1, <2>2
<1> QED
  BY <1>2, <1>4, <1>5 DEF PeopleCommit

-----------------------------------------------------------------------------
(* The theorems *)

LEMMA NextIInv == IInv /\ [Next]_vars => IInv'
<1>1. ASSUME IInv, UNCHANGED vars PROVE IInv'
  <2>1. TypeOK' /\ Alone' /\ OneKey'
    BY <1>1 DEF vars, IInv, TypeOK, Alone, OneKey, Has, Row, Open
  <2>2. ASSUME NEW p \in Processes PROVE Processing(p)'
    <3>1. Processing(p)
      BY <1>1 DEF IInv
    <3> QED
      BY <1>1, <3>1 DEF vars, Processing, Written, Covered, Working, Has, Row, Of, Open
  <2>3. ASSUME NEW i \in Incidents PROVE Linked(i)' /\ Told(i)'
    BY <1>1 DEF vars, IInv, Linked, Told
  <2>4. ASSUME NEW e \in Events PROVE Assessed(e)'
    BY <1>1 DEF vars, IInv, Assessed
  <2> QED
    BY <2>1, <2>2, <2>3, <2>4 DEF IInv
<1>2. ASSUME IInv, Next PROVE IInv'
  <2>1. CASE \E B \in SUBSET Events : Store(B) \/ ForwardFails(B)
    BY <1>2, <2>1, StoreKeeps
  <2>2. ASSUME NEW s \in Sessions, Serve(s) PROVE IInv'
    <3>1. s \in Processes
      BY DEF Processes
    <3>2. ASSUME NEW K \in SUBSET Keys, FindingsRead(s, K) PROVE IInv'
      <4>1. Begin(s, "findings", {}, K) /\ pushed' \subseteq SUBSET Events
        BY <1>2, <3>2 DEF FindingsRead, IInv, TypeOK
      <4> QED
        BY <1>2, <3>1, <4>1, BeginKeeps DEF Batch
    <3>3. ASSUME NEW K \in SUBSET Keys, NEW B \in pushed, Receive(s, B, K) PROVE IInv'
      <4>1. /\ Begin(s, "events", B, K) /\ pushed' \subseteq SUBSET Events
            /\ B \in SUBSET Events
        BY <1>2, <3>3 DEF Receive, IInv, TypeOK
      <4> QED
        BY <1>2, <3>1, <4>1, BeginKeeps DEF Batch
    <3> QED
      BY <1>2, <2>2, <3>2, <3>3, ReadKeeps DEF Serve
  <2>3. ASSUME NEW w \in Sweepers, NEW K \in SUBSET Keys, SweepRead(w, K) PROVE IInv'
    <3>1. Begin(w, "events", Unprocessed, K) /\ pushed' \subseteq SUBSET Events
      BY <1>2, <2>3 DEF SweepRead, IInv, TypeOK
    <3>2. w \in Processes /\ Unprocessed \in SUBSET Events
      BY DEF Processes, Unprocessed
    <3> QED
      BY <1>2, <3>1, <3>2, BeginKeeps DEF Batch
  <2>4. ASSUME NEW p \in Processes, Proceed(p) PROVE IInv'
    <3>1. CASE Upsert(p)
      BY <1>2, <3>1, UpsertNoneKeeps, UpsertOpenKeeps, InsertKeeps DEF Upsert
    <3>2. CASE ProcessCommit(p)
      BY <1>2, <3>2, ProcessCommitKeeps
    <3>3. CASE Tell(p)
      BY <1>2, <3>3, AlertKeeps DEF Tell
    <3>4. CASE Abort(p)
      BY <1>2, <3>4, AbortKeeps
    <3>5. CASE p \in Sessions /\ PeopleCommit(p)
      BY <1>2, <3>5, PeopleCommitKeeps
    <3> QED
      BY <2>4, <3>1, <3>2, <3>3, <3>4, <3>5 DEF Proceed, PeopleCommit
  <2> QED
    BY <1>2, <2>1, <2>2, <2>3, <2>4 DEF Next, Sweep
<1> QED
  BY <1>1, <1>2

LEMMA Invariant == Spec => []IInv
<1> QED
  BY InitIInv, NextIInv, PTL DEF Spec

\* No event is lost and none counted twice, a key has one open incident, and the team hears of
\* every incident, with the exceptions that EventsCounted names.
THEOREM EventsCountedHolds == Spec => []EventsCounted
<1>1. IInv => EventsCounted
  <2> SUFFICES ASSUME IInv PROVE EventsCounted
    OBVIOUS
  <2>1. ASSUME NEW e \in Events \ again PROVE Cardinality({i \in Incidents : e \in links[i]}) <= 1
    <3> DEFINE S == {i \in Incidents : e \in links[i]}
    <3>1. CASE S = {}
      BY <3>1, FS_EmptySet
    <3>2. ASSUME NEW i \in S PROVE Cardinality(S) <= 1
      <4>1. S = {i}
        BY <2>1, <3>2 DEF IInv, Assessed
      <4>2. Cardinality({i}) = 1
        BY FS_Singleton
      <4> QED
        BY <4>1, <4>2
    <3> QED
      BY <3>1, <3>2
  <2>2. \A e \in Events : event[e] = "ASSESSED" /\ KeyOf[e] # None =>
          \E i \in Incidents : e \in links[i] /\ inc[i].key = KeyOf[e]
    BY DEF IInv, Assessed
  <2>3. \A i \in Incidents : links[i] \cap again = {} => inc[i].count = Cardinality(links[i])
    BY DEF IInv, Linked
  <2>4. \A i, j \in Incidents : Open(i) /\ Open(j) /\ inc[i].key = inc[j].key => i = j
    BY DEF IInv, OneKey
  <2>5. \A i \in Incidents \ missed : inc[i].risk >= Alarm =>
          \/ alerted[i] >= inc[i].risk
          \/ \E p \in Processes : txn[p].op = "alert" /\ i \in txn[p].raised
    BY DEF IInv, Told
  <2> QED
    BY <2>1, <2>2, <2>3, <2>4, <2>5 DEF IInv, EventsCounted
<1> QED
  BY <1>1, Invariant, PTL

\* What incident i may become.
Kept(i) ==
    inc[i] # NoInc =>
      /\ inc'[i].status # inc[i].status => inc'[i].status \in Transitions[inc[i].status]
      /\ inc'[i].risk >= inc[i].risk /\ inc'[i].count >= inc[i].count
      /\ inc[i].by # None => inc'[i].by = inc[i].by
      /\ inc[i].success => inc'[i].success

LEMMA SameKept ==
    ASSUME IInv, NEW i \in Incidents, inc'[i] = inc[i]
    PROVE  Kept(i)
<1>1. inc[i].risk \in Risks \cup {0} /\ inc[i].count \in Nat
  BY DEF IInv, TypeOK, Incident
<1>2. inc[i].risk \in Nat
  BY <1>1, Constants
<1> QED
  BY <1>1, <1>2 DEF Kept

LEMMA ProcessCommitKept ==
    ASSUME IInv, NEW p \in Processes, ProcessCommit(p), NEW i \in Incidents
    PROVE  Kept(i)
<1>1. CASE ~Has(p, i)
  BY <1>1, Committed, SameKept
<1>2. CASE Has(p, i)
  <2>1. inc'[i] = Row(p, i) /\ Written(p, i)
    BY <1>2, Committed DEF IInv, Processing
  <2>2. inc[i].count \in Nat /\ Cardinality(Of(p, Row(p, i).key)) \in Nat
    BY RowForms, Counting DEF IInv, Incident
  <2> QED
    BY <2>1, <2>2 DEF Written, Kept
<1> QED
  BY <1>1, <1>2

LEMMA PeopleCommitKept ==
    ASSUME IInv, NEW s \in Processes, PeopleCommit(s), NEW i \in Incidents \ overtaken'
    PROVE  Kept(i)
<1>1. /\ inc[i] \in Incident /\ inc[i].risk \in Nat /\ inc[i].count \in Nat
      /\ inc \in [Incidents -> Incident]
  BY Constants DEF IInv, TypeOK, Incident
<1>2. CASE txn[s].on # i
  <2>1. \E row : inc' = [inc EXCEPT ![txn[s].on] = row]
    BY DEF PeopleCommit, MoveCommit, ConfirmCommit, AnalyzeCommit, Commit
  <2>2. inc'[i] = inc[i]
    BY <1>1, <1>2, <2>1
  <2> QED
    BY <2>2, SameKept
<1>3. CASE txn[s].on = i
  <2>1. CASE MoveCommit(s)
    <3>1. /\ txn[s].op = "move" /\ inc' = [inc EXCEPT ![i] = [inc[i] EXCEPT !.status = txn[s].to]]
          /\ inc[i].status = txn[s].status
      BY <1>3, <2>1 DEF MoveCommit, Commit
    <3>2. txn[s].to \in Transitions[txn[s].status]
      BY <3>1 DEF IInv, Processing, Working
    <3>3. /\ inc'[i].status = txn[s].to /\ inc'[i].risk = inc[i].risk
          /\ inc'[i].count = inc[i].count /\ inc'[i].by = inc[i].by
          /\ inc'[i].success = inc[i].success
      BY <1>1, <3>1 DEF Incident
    <3> QED
      BY <1>1, <3>1, <3>2, <3>3 DEF Kept
  <2>2. CASE ConfirmCommit(s)
    <3>1. inc' = [inc EXCEPT ![i] = [inc[i] EXCEPT !.by = s]] /\ inc[i].by = None
      BY <1>3, <2>2 DEF ConfirmCommit, Commit
    <3>2. /\ inc'[i].status = inc[i].status /\ inc'[i].risk = inc[i].risk
          /\ inc'[i].count = inc[i].count /\ inc'[i].success = inc[i].success
      BY <1>1, <3>1 DEF Incident
    <3> QED
      BY <1>1, <3>1, <3>2 DEF Kept
  <2>3. CASE AnalyzeCommit(s)
    <3>1. /\ inc' = [inc EXCEPT ![i] = [inc[i] EXCEPT !.success = txn[s].success]]
          /\ inc[i].success = txn[s].success
      BY <1>3, <2>3 DEF AnalyzeCommit, Commit
    <3>2. /\ inc'[i].status = inc[i].status /\ inc'[i].risk = inc[i].risk
          /\ inc'[i].count = inc[i].count /\ inc'[i].by = inc[i].by
          /\ inc'[i].success = inc[i].success
      BY <1>1, <3>1 DEF Incident
    <3> QED
      BY <1>1, <3>2 DEF Kept
  <2> QED
    BY <2>1, <2>2, <2>3 DEF PeopleCommit
<1> QED
  BY <1>2, <1>3

\* Incidents take the transitions of the table, and lose neither risk nor count nor confirmation
\* nor the sign of success, unless a commit found another row than was read.
THEOREM IncidentKeptHolds == Spec => IncidentKept
<1> DEFINE Step == \A i \in Incidents \ overtaken' : Kept(i)
<1>1. ASSUME IInv, Next PROVE Step
  <2> SUFFICES ASSUME NEW i \in Incidents \ overtaken' PROVE Kept(i)
    OBVIOUS
  <2>1. CASE inc' = inc
    BY <1>1, <2>1, SameKept
  <2>2. CASE \E p \in Processes : ProcessCommit(p)
    BY <1>1, <2>2, ProcessCommitKept
  <2>3. CASE \E s \in Processes : PeopleCommit(s)
    BY <1>1, <2>3, PeopleCommitKept
  <2> QED
    <3>1. \/ \E B \in SUBSET Events : Store(B) \/ ForwardFails(B)
          \/ \E s \in Sessions : Serve(s)
          \/ \E w \in Sweepers : Sweep(w)
          \/ \E p \in Processes : Proceed(p)
      BY <1>1 DEF Next
    <3>2. ASSUME NEW s \in Sessions, Serve(s) PROVE inc' = inc
      BY <3>2 DEF Serve, FindingsRead, Receive, Begin, ConfirmRead, AnalyzeRead, MoveRead, Read
    <3>3. ASSUME NEW w \in Sweepers, Sweep(w) PROVE inc' = inc
      BY <3>3 DEF Sweep, SweepRead, Begin
    <3>4. ASSUME NEW p \in Processes, Proceed(p)
          PROVE  inc' = inc \/ ProcessCommit(p) \/ PeopleCommit(p)
      BY <3>4 DEF Proceed, PeopleCommit, Upsert, UpsertNone, UpsertOpen, Insert, Tell, Alert,
                  AlertFails, AlertDone, Abort
    <3> QED
      BY <2>1, <2>2, <2>3, <3>1, <3>2, <3>3, <3>4 DEF Store, ForwardFails
<1>2. IInv /\ [Next]_vars => [Step]_vars
  BY <1>1
<1> QED
  BY <1>2, Invariant, PTL DEF Spec, IncidentKept, Kept
=============================================================================
