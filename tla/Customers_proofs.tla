-------------------------- MODULE Customers_proofs --------------------------
(***************************************************************************)
(* What customers have of the suite: their records in the CRM, the         *)
(* WhatsApp messages they are sent, and what they can reach.               *)
(*                                                                         *)
(* CRM.  An erased contact stays empty, a contact has one open opportunity *)
(* and only staff reopen one that is closed, for any number of contacts,   *)
(* opportunities and transactions; the three hold only with what is known  *)
(* of the rows that transactions have read, which CrmInv adds.             *)
(*                                                                         *)
(* Outbox.  A message is delivered once, for any number of keys, of calls  *)
(* served at once and of attempts.  DeliveredOnce alone is not inductive:  *)
(* whether an attempt delivers a message again is decided long before it,  *)
(* when its call looks the key up.  Calls says what is known of a call     *)
(* while it tries; a message that was delivered is then either stored or   *)
(* about to be.                                                            *)
(*                                                                         *)
(* Access.  No chain of calls carries a visitor to what is for staff.      *)
(***************************************************************************)
EXTENDS Crm, Outbox, Access, FiniteSetTheorems, SequenceTheorems, WellFoundedInduction, TLAPS

\* A set of naturals has a least one: induction, for the sets that the proofs below need.
LEMMA LeastNatural ==
    ASSUME NEW T \in SUBSET Nat, T # {}
    PROVE  \E n \in T : \A m \in T : n <= m
<1> DEFINE R == {p \in Nat \X Nat : p[1] < p[2]}
<1>1. IsWellFoundedOn(R, Nat)
  BY NatLessThanWellFounded, Zenon DEF OpToRel
<1> HIDE DEF R
<1>2. PICK n \in T : \A m \in T : ~(<<m, n>> \in R)
  BY <1>1, WFMin
<1>3. ASSUME NEW m \in T PROVE n <= m
  <2>1. m \in Nat /\ n \in Nat
    OBVIOUS
  <2>2. m < n => <<m, n>> \in R
    BY <2>1 DEF R
  <2>3. ~(m < n)
    BY <1>2, <2>2
  <2> QED
    BY <2>1, <2>3
<1> QED
  BY <1>3

(***************************************************************************)
(* Handlers commit what they decided on rows that they read before.  Reads *)
(* says what they found there; Seen, that whoever has seen the version of  *)
(* an opportunity has seen its last change, but for the silent ones;       *)
(* OneLead, that a contact has one open opportunity.  Exceptions stay      *)
(* exceptions.                                                             *)
(***************************************************************************)
Reads(r) ==
    /\ r.c \in DOMAIN contact \cup {0}
    /\ r.o \in DOMAIN opp \cup {0}
    /\ r.op \in {"capture", "update", "erase"} => r.c = 0 \/ r.was.state = "LIVE"
    /\ r.op = "capture" /\ r.c = 0 => r.was = Nobody
    /\ r.op \in {"update", "erase", "qualify", "event"} => r.c # 0
    /\ r.op \in {"look", "stage", "patch"} => r.o # 0
    /\ r.op = "stage" => r.want = r.stage \/ Moves(r.stage, r.want, TRUE)

Seen(r) ==
    r.op \in {"look", "stage", "patch"} =>
      \/ r.o \in overtaken
      \/ /\ r.version <= opp[r.o].version
         /\ r.version = opp[r.o].version =>
              /\ \A n \in r.known + 1 .. changes[r.o] : <<r.o, n>> \in silent
              /\ r.op # "look" => r.stage = opp[r.o].stage

Emptied(c) == contact[c].state = "ERASED" => contact[c].email = None /\ contact[c].phone = None

OneLead(c) ==
    \/ \A o, x \in OpenLeads(c) : o = x
    \/ c \in extra
    \/ \E o \in overtaken : opp[o].contact = c

Leads ==
    /\ \A o \in DOMAIN opp : opp[o].contact \in DOMAIN contact
    /\ overtaken \subseteq DOMAIN opp
    /\ \A c \in DOMAIN contact : OneLead(c)

\* The inductive invariant.
CrmInv ==
    /\ TypeOK
    /\ \A t \in Txns : Reads(txn[t]) /\ Seen(txn[t])
    /\ \A c \in DOMAIN contact \ stale : Emptied(c)
    /\ Leads

LEMMA IdleForms == Idle \in Txn /\ Idle.op = "idle" /\ Idle.c = 0 /\ Idle.o = 0
BY DEF Idle, Txn, Nobody, Person, Stages

LEMMA CrmInitInv == Init => CrmInv
<1> SUFFICES ASSUME Init PROVE CrmInv
  OBVIOUS
<1>1. TypeOK
  BY CrmAssumption, IdleForms DEF Init, TypeOK
<1>2. \A t \in Txns : Reads(txn[t]) /\ Seen(txn[t])
  BY IdleForms DEF Init, Reads, Seen
<1>3. DOMAIN contact = {} /\ DOMAIN opp = {} /\ overtaken = {}
  BY DEF Init
<1> QED
  BY <1>1, <1>2, <1>3 DEF CrmInv, Leads

-----------------------------------------------------------------------------
(* Rows *)

LEMMA RowDomains ==
    ASSUME TypeOK
    PROVE  /\ DOMAIN contact = 1 .. Len(contact) /\ Len(contact) \in Nat
           /\ DOMAIN contact \subseteq ContactIds
           /\ \A c \in DOMAIN contact : contact[c] \in Person
           /\ DOMAIN opp = 1 .. Len(opp) /\ Len(opp) \in Nat
           /\ DOMAIN opp \subseteq OppIds
           /\ \A o \in DOMAIN opp : opp[o] \in Opportunity
BY CrmAssumption DEF TypeOK, ContactIds, OppIds

\* A commit writes what it has changed.
LEMMA WrittenForms ==
    ASSUME NEW row \in Person, NEW was \in Person, NEW new \in Person
    PROVE  /\ Written(row, was, new) \in Person
           /\ row = was => Written(row, was, new) = new
<1> DEFINE w == Written(row, was, new)
           f(x) == IF new[x] = was[x] THEN row[x] ELSE new[x]
<1>1. DOMAIN row = {"state", "email", "phone"}
  BY DEF Person
<1>2. w = [state |-> f("state"), email |-> f("email"), phone |-> f("phone")]
  BY <1>1 DEF Written
<1>3. w \in Person
  BY <1>2 DEF Person
<1>4. ASSUME row = was PROVE w = new
  <2>1. f("state") = new.state /\ f("email") = new.email /\ f("phone") = new.phone
    BY <1>4
  <2> QED
    BY <1>2, <2>1 DEF Person
<1> QED
  BY <1>3, <1>4

LEMMA FilledForms ==
    ASSUME NEW was \in Person, NEW email \in Emails \cup {None}, NEW phone \in Phones \cup {None}
    PROVE  /\ Filled(was, email, phone) \in Person
           /\ Filled(was, email, phone).state = was.state
           /\ was.email # None => Filled(was, email, phone).email = was.email
           /\ was.phone # None => Filled(was, email, phone).phone = was.phone
BY DEF Filled, Person

\* The rows after a commit to contact c.
LEMMA SavedForms ==
    ASSUME TypeOK, NEW c \in DOMAIN contact, NEW was \in Person, NEW new \in Person
    PROVE  /\ Saved(c, was, new) \in Seq(Person) /\ Len(Saved(c, was, new)) = Len(contact)
           /\ DOMAIN Saved(c, was, new) = DOMAIN contact
           /\ \A d \in DOMAIN contact \ {c} : Saved(c, was, new)[d] = contact[d]
           /\ Saved(c, was, new)[c] = Written(contact[c], was, new)
<1>1. contact \in Seq(Person) /\ contact[c] \in Person /\ c \in 1 .. Len(contact)
  BY RowDomains DEF TypeOK
<1>2. Written(contact[c], was, new) \in Person
  BY <1>1, WrittenForms
<1>3. Saved(c, was, new) = [contact EXCEPT ![c] = Written(contact[c], was, new)]
  BY DEF Saved
<1> HIDE DEF Saved, Written
<1> QED
  BY <1>1, <1>2, <1>3, ExceptSeq

\* The latest of a contact's open opportunities is one of them.
LEMMA LatestForms ==
    ASSUME TypeOK, NEW c
    PROVE  /\ Latest(c) = 0 <=> OpenLeads(c) = {}
           /\ Latest(c) # 0 => Latest(c) \in OpenLeads(c)
           /\ Latest(c) \in DOMAIN opp \cup {0}
<1> DEFINE S == OpenLeads(c)
           n == Len(opp)
           T == {m \in 0 .. n : n - m \in S}
<1>1. n \in Nat /\ DOMAIN opp = 1 .. n /\ S \subseteq 1 .. n
  BY RowDomains DEF OpenLeads
<1>2. S # {} => \E o \in S : \A x \in S : x <= o
  <2> SUFFICES ASSUME S # {} PROVE \E o \in S : \A x \in S : x <= o
    OBVIOUS
  <2>1. \A x \in S : n - x \in 0 .. n /\ n - (n - x) = x
    BY <1>1
  <2>2. T \subseteq Nat /\ T # {}
    BY <1>1, <2>1
  <2>3. PICK m \in T : \A k \in T : m <= k
    BY <2>2, LeastNatural
  <2>4. ASSUME NEW x \in S PROVE x <= n - m
    <3>1. n - x \in T
      BY <2>1
    <3>2. m <= n - x
      BY <2>3, <3>1
    <3> QED
      BY <3>2, <1>1, <2>3
  <2> QED
    BY <2>3, <2>4
<1>3. S # {} => Latest(c) \in S
  BY <1>2 DEF Latest
<1>4. S = {} => Latest(c) = 0
  BY DEF Latest
<1> QED
  BY <1>1, <1>3, <1>4

-----------------------------------------------------------------------------
(* Steps that change no row *)

LEMMA OnlyRecord ==
    ASSUME CrmInv, UNCHANGED <<contact, opp, changes, silent, stale, overtaken, extra>>,
           NEW t \in Txns, NEW r \in Txn, txn' = [txn EXCEPT ![t] = r], Reads(r), Seen(r)
    PROVE  CrmInv'
<1>1. TypeOK'
  BY DEF CrmInv, TypeOK
<1>2. ASSUME NEW u \in Txns PROVE Reads(txn[u])' /\ Seen(txn[u])'
  <2>1. txn'[u] = r \/ txn'[u] = txn[u]
    BY DEF CrmInv, TypeOK
  <2>2. Reads(txn'[u]) /\ Seen(txn'[u])
    BY <2>1 DEF CrmInv
  <2>3. UNCHANGED contact /\ UNCHANGED opp /\ UNCHANGED changes /\ UNCHANGED silent
        /\ UNCHANGED overtaken
    OBVIOUS
  <2>4. Reads(txn[u])'
    BY <2>2, <2>3 DEF Reads
  <2>5. Seen(txn[u])'
    BY <2>2, <2>3 DEF Seen
  <2> QED
    BY <2>4, <2>5
<1>3. (\A c \in DOMAIN contact \ stale : Emptied(c))'
  BY DEF CrmInv, Emptied
<1>4. Leads'
  BY DEF CrmInv, Leads, OneLead, OpenLeads
<1> QED
  BY <1>1, <1>2, <1>3, <1>4 DEF CrmInv

LEMMA RollbackInv ==
    ASSUME CrmInv, NEW t \in Txns, Rollback(t)
    PROVE  CrmInv'
<1>1. Reads(Idle) /\ Seen(Idle)
  BY IdleForms DEF Reads, Seen
<1> QED
  BY <1>1, IdleForms, OnlyRecord DEF Rollback, Finish

LEMMA CaptureReadInv ==
    ASSUME CrmInv, NEW t \in Txns, NEW email \in Emails \cup {None},
           NEW phone \in Phones \cup {None}, CaptureRead(t, email, phone)
    PROVE  CrmInv'
<1> DEFINE found == Matches(email, phone)
           c == IF found = {} THEN 0 ELSE CHOOSE x \in found : \A y \in found : x <= y
           was == IF found = {} THEN Nobody ELSE contact[c]
           r == [Idle EXCEPT !.op = "capture", !.email = email, !.phone = phone,
                             !.c = c, !.was = was]
<1>1. found \subseteq Live /\ Live \subseteq DOMAIN contact /\ DOMAIN contact \subseteq Nat
  BY RowDomains DEF CrmInv, Matches, Live, ContactIds
<1>2. found # {} => \E x \in found : \A y \in found : x <= y
  BY <1>1, LeastNatural
<1>3. found # {} => c \in found
  BY <1>2
<1>4. /\ c \in DOMAIN contact \cup {0} /\ c \in ContactIds \cup {0}
      /\ c # 0 => was = contact[c] /\ was.state = "LIVE"
      /\ c = 0 => was = Nobody
      /\ was \in Person
  <2>1. CASE found = {}
    BY <2>1 DEF Nobody, Person
  <2>2. CASE found # {}
    <3>1. c \in DOMAIN contact /\ contact[c].state = "LIVE" /\ was = contact[c]
      BY <2>2, <1>1, <1>3 DEF Live
    <3> HIDE DEF c
    <3>2. contact[c] \in Person /\ c \in ContactIds /\ c # 0
      BY <3>1, RowDomains DEF CrmInv, ContactIds
    <3> QED
      BY <3>1, <3>2
  <2> QED
    BY <2>1, <2>2
<1>5. /\ txn' = [txn EXCEPT ![t] = r]
      /\ UNCHANGED <<contact, opp, changes, silent, stale, overtaken, extra>>
  BY DEF CaptureRead, Start
<1> HIDE DEF found, c, was
<1>6. r \in Txn
  BY <1>4 DEF Idle, Txn, Stages, Nobody, Person
<1>7. Reads(r) /\ Seen(r)
  BY <1>4 DEF Reads, Seen, Idle
<1> QED
  BY <1>5, <1>6, <1>7, OnlyRecord

LEMMA ContactReadInv ==
    ASSUME CrmInv, NEW t \in Txns, NEW op \in {"update", "erase"}, NEW c \in ContactIds,
           NEW email \in Emails \cup {None}, NEW phone \in Phones \cup {None},
           ContactRead(t, op, c, email, phone)
    PROVE  CrmInv'
<1> DEFINE r == [Idle EXCEPT !.op = op, !.c = c, !.was = contact[c],
                             !.email = email, !.phone = phone]
<1>1. /\ txn' = [txn EXCEPT ![t] = r]
      /\ UNCHANGED <<contact, opp, changes, silent, stale, overtaken, extra>>
      /\ c \in DOMAIN contact /\ contact[c].state = "LIVE"
  BY DEF ContactRead, Start, Live
<1>2. contact[c] \in Person /\ c # 0
  BY <1>1, RowDomains DEF CrmInv, ContactIds
<1>3. r \in Txn
  BY <1>2 DEF Idle, Txn, Stages, Nobody, Person
<1>4. Reads(r) /\ Seen(r)
  BY <1>1, <1>2 DEF Reads, Seen, Idle
<1> QED
  BY <1>1, <1>3, <1>4, OnlyRecord

LEMMA LeadReadInv ==
    ASSUME CrmInv, NEW t \in Txns, NEW op \in {"qualify", "event"}, NEW c \in ContactIds,
           NEW o \in OppIds \cup {0}, LeadRead(t, op, c, o)
    PROVE  CrmInv'
<1> DEFINE was == IF op = "qualify" THEN contact[c] ELSE Nobody
           stage == IF o = 0 THEN "NEW_LEAD" ELSE opp[o].stage
           version == IF o = 0 THEN 1 ELSE opp[o].version
           r == [Idle EXCEPT !.op = op, !.c = c, !.o = o, !.was = was, !.stage = stage,
                             !.version = version]
<1>1. /\ txn' = [txn EXCEPT ![t] = r]
      /\ UNCHANGED <<contact, opp, changes, silent, stale, overtaken, extra>>
      /\ c \in DOMAIN contact
      /\ o = Latest(c) \/ o \in DOMAIN opp
  BY DEF LeadRead, Start, Live
<1>2. o \in DOMAIN opp \cup {0}
  BY <1>1, LatestForms DEF CrmInv
<1>3. c # 0 /\ was \in Person /\ stage \in Stages /\ version \in Nat
  BY <1>1, <1>2, RowDomains DEF CrmInv, ContactIds, Nobody, Person, Opportunity, Stages
<1> HIDE DEF was, stage, version
<1>4. r \in Txn
  <2> DEFINE p == [Idle EXCEPT !.op = op, !.c = c, !.o = o]
  <2>1. p \in Txn
    BY <1>3 DEF Idle, Txn, Stages, Nobody, Person
  <2>2. r = [p EXCEPT !.was = was, !.stage = stage, !.version = version]
    OBVIOUS
  <2> HIDE DEF p, r
  <2> QED
    BY <1>3, <2>1, <2>2 DEF Txn
<1>5. r.op = op /\ r.c = c /\ r.o = o
  BY DEF Idle
<1> HIDE DEF r
<1>6. Reads(r) /\ Seen(r)
  BY <1>1, <1>2, <1>3, <1>5 DEF Reads, Seen
<1> QED
  BY <1>1, <1>4, <1>6, OnlyRecord

LEMMA LookInv ==
    ASSUME CrmInv, NEW t \in Txns, NEW o \in OppIds, Look(t, o)
    PROVE  CrmInv'
<1> DEFINE r == [Idle EXCEPT !.op = "look", !.o = o, !.version = opp[o].version,
                             !.known = changes[o]]
<1>1. /\ txn' = [txn EXCEPT ![t] = r]
      /\ UNCHANGED <<contact, opp, changes, silent, stale, overtaken, extra>>
      /\ o \in DOMAIN opp /\ o # 0
  BY DEF Look, Start, OppIds
<1>2. opp[o].version \in Nat /\ changes[o] \in Nat
  BY <1>1, RowDomains DEF CrmInv, TypeOK, Opportunity
<1>3. r \in Txn
  BY <1>2 DEF Idle, Txn, Stages, Nobody, Person
<1>4. Reads(r) /\ Seen(r)
  BY <1>1, <1>2 DEF Reads, Seen, Idle
<1> QED
  BY <1>1, <1>3, <1>4, OnlyRecord

LEMMA StageReadInv ==
    ASSUME CrmInv, NEW t \in Txns, NEW o \in OppIds, NEW want \in Wanted, StageRead(t, o, want)
    PROVE  CrmInv'
<1> DEFINE stage == opp[o].stage
           version == opp[o].version
           r == [Idle EXCEPT !.op = "stage", !.o = o, !.want = want, !.stage = stage,
                             !.version = version, !.known = changes[o]]
<1>1. /\ txn' = [txn EXCEPT ![t] = r]
      /\ UNCHANGED <<contact, opp, changes, silent, stale, overtaken, extra>>
      /\ o \in DOMAIN opp
      /\ want = stage \/ Moves(stage, want, TRUE)
  <2> HIDE DEF stage
  <2> QED
    BY DEF StageRead, Start, stage
<1>2. o # 0
  BY DEF OppIds
<1>3. version \in Nat /\ changes[o] \in Nat /\ stage \in Stages /\ want \in Stages
  BY <1>1, RowDomains, CrmAssumption DEF CrmInv, TypeOK, Opportunity
<1>4. r \in Txn
  BY <1>3 DEF Idle, Txn, Nobody, Person
<1>5. r.op = "stage" /\ r.c = 0 /\ r.o = o /\ r.want = want /\ r.stage = stage
      /\ r.version = version /\ r.known = changes[o]
  BY DEF Idle
<1> HIDE DEF r
<1>6. Reads(r)
  <2> HIDE DEF stage
  <2> QED
    BY <1>1, <1>2, <1>5 DEF Reads
<1>7. Seen(r)
  BY <1>3, <1>5 DEF Seen
<1> QED
  BY <1>1, <1>4, <1>6, <1>7, OnlyRecord

LEMMA StaffReadInv ==
    ASSUME CrmInv, NEW t \in Txns, NEW op \in {"patch", "stage"}, NEW want \in Stages,
           StaffRead(t, op, want)
    PROVE  CrmInv'
<1> DEFINE q == txn[t]
           stage == opp[q.o].stage
           version == opp[q.o].version
           r == [q EXCEPT !.op = op, !.want = want, !.stage = stage, !.version = version]
<1>1. /\ txn' = [txn EXCEPT ![t] = r]
      /\ UNCHANGED <<contact, opp, changes, silent, stale, overtaken, extra>>
      /\ q.op = "look" /\ version = q.version
      /\ op = "patch" \/ want = stage \/ Moves(stage, want, TRUE)
  BY DEF StaffRead, Expected
<1>2. q \in Txn /\ Reads(q) /\ Seen(q)
  BY DEF CrmInv, TypeOK
<1>3. q.o \in DOMAIN opp /\ q.o # 0 /\ version \in Nat /\ stage \in Stages
  BY <1>1, <1>2, RowDomains DEF CrmInv, Reads, Opportunity
<1> HIDE DEF q, stage, version
<1>4. /\ r.op = op /\ r.c = q.c /\ r.o = q.o /\ r.want = want /\ r.stage = stage
      /\ r.version = version /\ r.known = q.known /\ r.was = q.was
      /\ r \in Txn
  BY <1>2, <1>3 DEF Txn
<1> HIDE DEF r
<1>5. Reads(r)
  BY <1>1, <1>2, <1>3, <1>4 DEF Reads
<1>6. Seen(r)
  BY <1>1, <1>2, <1>3, <1>4 DEF Seen, version, stage
<1> QED
  BY <1>1, <1>4, <1>5, <1>6, OnlyRecord

-----------------------------------------------------------------------------
(* What a commit does to each table *)

\* Nothing has changed an opportunity, or silently.
Counted(o) ==
    \/ changes'[o] = changes[o]
    \/ changes'[o] = changes[o] + 1 /\ <<o, changes[o] + 1>> \in silent'

\* Rows stay, and an opportunity changes with its version, silently, or is overtaken.
Grows ==
    /\ DOMAIN contact \subseteq DOMAIN contact'
    /\ DOMAIN opp \subseteq DOMAIN opp'
    /\ overtaken \subseteq overtaken' /\ silent \subseteq silent'
    /\ \A o \in DOMAIN opp \ overtaken' :
         \/ opp'[o].version = opp[o].version + 1
         \/ /\ opp'[o].version = opp[o].version /\ opp'[o].stage = opp[o].stage
            /\ Counted(o)

LEMMA RecordsStay ==
    ASSUME CrmInv, Grows, NEW u \in Txns, txn'[u] = Idle \/ txn'[u] = txn[u]
    PROVE  Reads(txn[u])' /\ Seen(txn[u])'
<1>1. CASE txn'[u] = Idle
  BY <1>1, IdleForms DEF Reads, Seen
<1>2. CASE txn'[u] = txn[u]
  <2>1. Reads(txn[u]) /\ Seen(txn[u]) /\ txn[u] \in Txn
    BY DEF CrmInv, TypeOK
  <2>2. Reads(txn[u])'
    BY <1>2, <2>1 DEF Reads, Grows
  <2>3. ASSUME txn[u].op \in {"look", "stage", "patch"}, txn[u].o \notin overtaken'
        PROVE  /\ txn[u].version <= opp'[txn[u].o].version
               /\ txn[u].version = opp'[txn[u].o].version =>
                    /\ \A n \in txn[u].known + 1 .. changes'[txn[u].o] :
                         <<txn[u].o, n>> \in silent'
                    /\ txn[u].op # "look" => txn[u].stage = opp'[txn[u].o].stage
    <3> DEFINE o == txn[u].o
    <3>1. o \in DOMAIN opp /\ o \notin overtaken
      BY <2>1, <2>3 DEF Reads, Grows
    <3>2. opp[o].version \in Nat /\ txn[u].version \in Nat
      BY <3>1, <2>1, RowDomains DEF CrmInv, Opportunity, Txn
    <3>3. /\ txn[u].version <= opp[o].version
          /\ txn[u].version = opp[o].version =>
               /\ \A n \in txn[u].known + 1 .. changes[o] : <<o, n>> \in silent
               /\ txn[u].op # "look" => txn[u].stage = opp[o].stage
      BY <3>1, <2>1, <2>3 DEF Seen
    <3>4. /\ \/ opp'[o].version = opp[o].version + 1
             \/ /\ opp'[o].version = opp[o].version /\ opp'[o].stage = opp[o].stage
                /\ Counted(o)
          /\ silent \subseteq silent'
      BY <3>1, <2>3 DEF Grows
    <3>5. changes[o] \in Nat /\ txn[u].known \in Nat
      BY <3>1, <2>1, RowDomains DEF CrmInv, TypeOK, Txn
    <3> HIDE DEF o
    <3>6. ASSUME txn[u].version = opp'[o].version
          PROVE  /\ \A n \in txn[u].known + 1 .. changes'[o] : <<o, n>> \in silent'
                 /\ txn[u].op # "look" => txn[u].stage = opp'[o].stage
      <4>1. /\ opp'[o].version = opp[o].version /\ opp'[o].stage = opp[o].stage /\ Counted(o)
            /\ txn[u].version = opp[o].version
        BY <3>2, <3>3, <3>4, <3>6
      <4>2. \A n \in txn[u].known + 1 .. changes[o] : <<o, n>> \in silent'
        BY <3>3, <3>4, <4>1
      <4>3. ASSUME NEW n \in txn[u].known + 1 .. changes'[o] PROVE <<o, n>> \in silent'
        <5>1. n \in txn[u].known + 1 .. changes[o] \/ (n = changes[o] + 1 /\ changes'[o] = n)
          BY <3>5, <4>1 DEF Counted
        <5> QED
          BY <3>5, <4>1, <4>2, <5>1 DEF Counted
      <4> QED
        BY <3>3, <4>1, <4>3
    <3> QED
      BY <3>2, <3>3, <3>4, <3>6 DEF o
  <2> QED
    BY <1>2, <2>2, <2>3 DEF Seen
<1> QED
  BY <1>1, <1>2

LEMMA ContactAdded ==
    ASSUME CrmInv, NEW new \in Person, new.state = "LIVE", Len(contact) < MaxContacts,
           contact' = Append(contact, new), stale' = stale
    PROVE  /\ contact' \in Seq(Person) /\ Len(contact') <= MaxContacts
           /\ DOMAIN contact' = DOMAIN contact \cup {Len(contact) + 1}
           /\ \A c \in DOMAIN contact : contact'[c] = contact[c]
           /\ (\A c \in DOMAIN contact \ stale : Emptied(c))'
<1>1. contact \in Seq(Person) /\ Len(contact) \in Nat
  BY RowDomains DEF CrmInv, TypeOK
<1>2. /\ contact' \in Seq(Person) /\ Len(contact') = Len(contact) + 1
      /\ \A c \in 1 .. Len(contact) : contact'[c] = contact[c]
      /\ contact'[Len(contact) + 1] = new
  BY <1>1, AppendProperties
<1>3. /\ DOMAIN contact = 1 .. Len(contact) /\ DOMAIN contact' = 1 .. Len(contact) + 1
      /\ 1 .. Len(contact) + 1 = 1 .. Len(contact) \cup {Len(contact) + 1}
  BY <1>1, <1>2
<1>4. ASSUME NEW c \in DOMAIN contact' \ stale' PROVE Emptied(c)'
  BY <1>2, <1>3, <1>4 DEF Emptied, CrmInv
<1>5. Len(contact') <= MaxContacts
  BY <1>1, <1>2, CrmAssumption
<1> QED
  BY <1>2, <1>3, <1>4, <1>5

LEMMA ContactSaved ==
    ASSUME CrmInv, NEW c \in DOMAIN contact, NEW was \in Person, NEW new \in Person,
           contact' = Saved(c, was, new), stale' = StaleIf(c, was),
           new.state = "LIVE" \/ (new.email = None /\ new.phone = None)
    PROVE  /\ contact' \in Seq(Person) /\ Len(contact') <= MaxContacts
           /\ DOMAIN contact' = DOMAIN contact
           /\ stale' \subseteq ContactIds /\ stale \subseteq stale'
           /\ \A d \in DOMAIN contact \ {c} : contact'[d] = contact[d]
           /\ c \notin stale' => contact[c] = was /\ contact'[c] = new
           /\ (\A d \in DOMAIN contact \ stale : Emptied(d))'
<1>1. /\ contact' \in Seq(Person) /\ Len(contact') = Len(contact)
      /\ DOMAIN contact' = DOMAIN contact
      /\ \A d \in DOMAIN contact \ {c} : contact'[d] = contact[d]
      /\ contact'[c] = Written(contact[c], was, new)
  BY SavedForms DEF CrmInv
<1>2. /\ stale' \subseteq ContactIds /\ stale \subseteq stale'
      /\ c \notin stale' => contact[c] = was
  BY RowDomains DEF CrmInv, TypeOK, StaleIf
<1>3. contact[c] \in Person
  BY RowDomains DEF CrmInv
<1>4. c \notin stale' => contact'[c] = new
  BY <1>1, <1>2, <1>3, WrittenForms
<1>5. ASSUME NEW d \in DOMAIN contact' \ stale' PROVE Emptied(d)'
  <2>1. CASE d = c
    BY <2>1, <1>4, <1>5 DEF Emptied
  <2>2. CASE d # c
    BY <2>2, <1>1, <1>2, <1>5 DEF Emptied, CrmInv
  <2> QED
    BY <2>1, <2>2
<1>6. Len(contact') <= MaxContacts
  BY <1>1 DEF CrmInv, TypeOK
<1> QED
  BY <1>1, <1>2, <1>4, <1>5, <1>6

\* What is read of an opportunity is changed with others: leads stay where no row changes.
LEMMA LeadsStay ==
    ASSUME CrmInv, UNCHANGED <<opp, overtaken>>, extra \subseteq extra',
           DOMAIN contact \subseteq DOMAIN contact'
    PROVE  Leads'
<1>1. ASSUME NEW c \in DOMAIN contact' PROVE OneLead(c)'
  <2>1. OpenLeads(c)' = OpenLeads(c)
    BY DEF OpenLeads
  <2>2. CASE c \in DOMAIN contact
    BY <2>1, <2>2 DEF CrmInv, Leads, OneLead
  <2>3. CASE c \notin DOMAIN contact
    <3>1. OpenLeads(c) = {}
      BY <2>3 DEF CrmInv, Leads, OpenLeads
    <3> QED
      BY <2>1, <3>1 DEF OneLead
  <2> QED
    BY <2>2, <2>3
<1> QED
  BY <1>1 DEF CrmInv, Leads

LEMMA LeadAdded ==
    ASSUME CrmInv, NEW row \in Opportunity, Len(opp) < MaxOpps,
           opp' = Append(opp, row), overtaken' = overtaken, extra \subseteq extra',
           DOMAIN contact \subseteq DOMAIN contact', row.contact \in DOMAIN contact',
           OpenLeads(row.contact) = {} \/ row.contact \in extra'
    PROVE  /\ opp' \in Seq(Opportunity) /\ Len(opp') <= MaxOpps
           /\ DOMAIN opp \subseteq DOMAIN opp'
           /\ \A o \in DOMAIN opp : opp'[o] = opp[o]
           /\ Leads'
<1> DEFINE n == Len(opp) + 1
<1>1. opp \in Seq(Opportunity) /\ Len(opp) \in Nat
  BY RowDomains DEF CrmInv, TypeOK
<1>2. /\ opp' \in Seq(Opportunity) /\ Len(opp') = n
      /\ \A o \in 1 .. Len(opp) : opp'[o] = opp[o]
      /\ opp'[n] = row
  BY <1>1, AppendProperties
<1>3. /\ DOMAIN opp = 1 .. Len(opp) /\ DOMAIN opp' = 1 .. n
      /\ 1 .. n = 1 .. Len(opp) \cup {n} /\ n \notin 1 .. Len(opp)
  BY <1>1, <1>2
<1> HIDE DEF n
<1>4. Len(opp') <= MaxOpps
  BY <1>1, <1>2, CrmAssumption DEF n
<1>5. ASSUME NEW c \in DOMAIN contact' PROVE OneLead(c)'
  <2>1. OpenLeads(c)' = OpenLeads(c) \cup (IF row.contact = c /\ row.stage \in OpenStages
                                            THEN {n} ELSE {})
    BY <1>2, <1>3 DEF OpenLeads
  <2>2. CASE row.contact = c
    BY <2>1, <2>2 DEF OneLead
  <2>3. CASE row.contact # c /\ c \in DOMAIN contact
    <3>1. OpenLeads(c)' = OpenLeads(c)
      BY <2>1, <2>3
    <3>2. \A o \in overtaken : opp'[o] = opp[o]
      BY <1>2, <1>3 DEF CrmInv, Leads
    <3> QED
      BY <3>1, <3>2, <2>3 DEF OneLead, CrmInv, Leads
  <2>4. CASE row.contact # c /\ c \notin DOMAIN contact
    <3>1. OpenLeads(c) = {}
      BY <2>4 DEF CrmInv, Leads, OpenLeads
    <3> QED
      BY <2>1, <2>4, <3>1 DEF OneLead
  <2> QED
    BY <2>2, <2>3, <2>4
<1>6. \A o \in DOMAIN opp' : opp'[o].contact \in DOMAIN contact'
  BY <1>2, <1>3 DEF CrmInv, Leads
<1>7. overtaken' \subseteq DOMAIN opp'
  BY <1>3 DEF CrmInv, Leads
<1> QED
  BY <1>2, <1>3, <1>4, <1>5, <1>6, <1>7 DEF Leads

LEMMA LeadMoved ==
    ASSUME CrmInv, NEW r \in Txn, r.o \in DOMAIN opp, NEW row \in Opportunity, Move(r, row),
           row.contact = opp[r.o].contact, row.version = r.version + 1,
           extra \subseteq extra', contact' = contact,
           \/ row.stage \notin OpenStages
           \/ r.stage \in OpenStages
           \/ row.contact \in extra'
           \/ row.stage = opp[r.o].stage
    PROVE  /\ opp' \in Seq(Opportunity) /\ Len(opp') <= MaxOpps
           /\ changes' \in [OppIds -> Nat] /\ silent' \subseteq OppIds \X Nat
           /\ overtaken' \subseteq OppIds
           /\ DOMAIN opp' = DOMAIN opp
           /\ Leads' /\ Grows
<1> DEFINE k == r.o
<1>1. opp \in Seq(Opportunity) /\ k \in 1 .. Len(opp) /\ DOMAIN opp = 1 .. Len(opp)
  BY RowDomains DEF CrmInv, TypeOK
<1>2. /\ opp' \in Seq(Opportunity) /\ Len(opp') = Len(opp)
      /\ \A o \in 1 .. Len(opp) : opp'[o] = IF o = k THEN row ELSE opp[o]
  BY <1>1, ExceptSeq DEF Move
<1>3. DOMAIN opp' = DOMAIN opp
  BY <1>1, <1>2
<1>4. /\ changes' = [changes EXCEPT ![k] = @ + 1] /\ silent' = silent
      /\ overtaken' = overtaken \/ overtaken' = overtaken \cup {k}
      /\ overtaken' = overtaken => \/ opp[k].stage = r.stage /\ opp[k].version = r.version
                                   \/ k \in overtaken
  BY DEF Move
<1>5. /\ changes' \in [OppIds -> Nat] /\ silent' \subseteq OppIds \X Nat
      /\ overtaken' \subseteq OppIds /\ Len(opp') <= MaxOpps
  BY <1>1, <1>2, <1>4, RowDomains DEF CrmInv, TypeOK
<1>6. Grows
  <2>1. ASSUME NEW o \in DOMAIN opp, o \notin overtaken'
        PROVE  \/ opp'[o].version = opp[o].version + 1
               \/ /\ opp'[o].version = opp[o].version /\ opp'[o].stage = opp[o].stage
                  /\ changes'[o] = changes[o]
    <3>1. CASE o = k
      BY <3>1, <2>1, <1>1, <1>2, <1>4
    <3>2. CASE o # k
      <4>1. o \in OppIds
        BY RowDomains DEF CrmInv
      <4> QED
        BY <4>1, <3>2, <1>1, <1>2, <1>4 DEF CrmInv, TypeOK
    <3> QED
      BY <3>1, <3>2
  <2> QED
    BY <2>1, <1>3, <1>4 DEF Grows, Counted
<1>7. ASSUME NEW c \in DOMAIN contact' PROVE OneLead(c)'
  <2>1. OneLead(c) /\ overtaken \subseteq DOMAIN opp
    BY DEF CrmInv, Leads
  <2>2. \A o \in DOMAIN opp : opp'[o].contact = opp[o].contact
    BY <1>1, <1>2
  <2>3. CASE c \in extra' \/ \E o \in overtaken' : opp[o].contact = c
    <3>1. overtaken' \subseteq DOMAIN opp
      BY <1>1, <1>4, <2>1
    <3> QED
      BY <2>2, <2>3, <3>1 DEF OneLead
  <2>4. CASE c \notin extra' /\ ~\E o \in overtaken' : opp[o].contact = c
    <3>1. \A o, x \in OpenLeads(c) : o = x
      BY <2>1, <2>4, <1>4 DEF OneLead
    <3>2. OpenLeads(c)' \subseteq OpenLeads(c)
      <4>1. ASSUME NEW o \in OpenLeads(c)' PROVE o \in OpenLeads(c)
        <5>1. o \in DOMAIN opp /\ opp'[o].contact = c /\ opp'[o].stage \in OpenStages
          BY <4>1, <1>3 DEF OpenLeads
        <5>2. CASE o # k
          BY <5>1, <5>2, <1>1, <1>2 DEF OpenLeads
        <5>3. CASE o = k
          <6>1. opp'[k] = row /\ opp[k].contact = c
            BY <5>1, <5>3, <1>1, <1>2
          <6>2. k \notin overtaken'
            BY <2>4, <6>1
          <6>3. opp[k].stage = r.stage
            BY <6>2, <1>4
          <6>4. opp[k].stage \in OpenStages
            BY <6>1, <6>3, <5>1, <5>3, <2>4
          <6> QED
            BY <5>1, <5>3, <6>1, <6>4 DEF OpenLeads
        <5> QED
          BY <5>2, <5>3
      <4> QED
        BY <4>1
    <3> QED
      BY <3>1, <3>2 DEF OneLead
  <2> QED
    BY <2>3, <2>4
<1>8. \A o \in DOMAIN opp' : opp'[o].contact \in DOMAIN contact'
  BY <1>1, <1>2, <1>3 DEF CrmInv, Leads
<1>9. overtaken' \subseteq DOMAIN opp'
  BY <1>3, <1>4 DEF CrmInv, Leads
<1> QED
  BY <1>2, <1>3, <1>5, <1>6, <1>7, <1>8, <1>9 DEF Leads

-----------------------------------------------------------------------------
(* Commits *)

LEMMA CaptureCommitInv ==
    ASSUME CrmInv, NEW t \in Txns, CaptureCommit(t)
    PROVE  CrmInv'
<1> DEFINE r == txn[t]
           c == IF r.c = 0 THEN Len(contact) + 1 ELSE r.c
           new == Filled(r.was, r.email, r.phone)
<1>1. /\ r.op = "capture" /\ c \in ContactIds
      /\ contact' = IF r.c = 0 THEN Append(contact, new) ELSE Saved(c, r.was, new)
      /\ stale' = IF r.c = 0 THEN stale ELSE StaleIf(c, r.was)
      /\ \/ Latest(c) = 0 /\ Len(opp) < MaxOpps /\ opp' = Append(opp, NewLead(c))
         \/ Latest(c) # 0 /\ opp' = opp
      /\ txn' = [txn EXCEPT ![t] = Idle]
      /\ UNCHANGED <<changes, silent, overtaken, extra>>
  BY DEF CaptureCommit, Finish
<1>2. r \in Txn /\ Reads(r)
  BY DEF CrmInv, TypeOK
<1>3. r.c \in DOMAIN contact \cup {0} /\ r.was \in Person /\ r.was.state = "LIVE"
  BY <1>1, <1>2 DEF Reads, Txn, Nobody
<1>4. new \in Person /\ new.state = "LIVE"
  BY <1>2, <1>3, FilledForms DEF Txn
<1> HIDE DEF r, new
<1>5. /\ c \in DOMAIN contact \/ (c = Len(contact) + 1 /\ c \notin DOMAIN contact)
      /\ r.c = 0 => c = Len(contact) + 1
      /\ r.c # 0 => c = r.c /\ c \in DOMAIN contact
  <2>1. Len(contact) \in Nat /\ Len(contact) + 1 \notin DOMAIN contact
    BY RowDomains DEF CrmInv
  <2> QED
    BY <2>1, <1>3
<1> HIDE DEF c
<1>6. /\ contact' \in Seq(Person) /\ Len(contact') <= MaxContacts
      /\ stale' \subseteq ContactIds
      /\ (\A d \in DOMAIN contact \ stale : Emptied(d))'
      /\ DOMAIN contact' = DOMAIN contact \cup {c}
  <2>1. CASE r.c = 0
    <3>1. c = Len(contact) + 1
      BY <2>1, <1>5
    <3>2. Len(contact) < MaxContacts
      BY <1>1, <3>1, RowDomains, CrmAssumption DEF CrmInv, ContactIds
    <3>3. stale' \subseteq ContactIds
      BY <1>1, <2>1 DEF CrmInv, TypeOK
    <3> QED
      BY <1>1, <1>4, <2>1, <3>1, <3>2, <3>3, ContactAdded
  <2>2. CASE r.c # 0
    <3>1. c \in DOMAIN contact /\ contact' = Saved(c, r.was, new) /\ stale' = StaleIf(c, r.was)
      BY <2>2, <1>1, <1>5
    <3> QED
      BY <1>3, <1>4, <3>1, ContactSaved
  <2> QED
    BY <2>1, <2>2
<1>7. /\ opp' \in Seq(Opportunity) /\ Len(opp') <= MaxOpps
      /\ DOMAIN opp \subseteq DOMAIN opp' /\ \A o \in DOMAIN opp : opp'[o] = opp[o]
      /\ Leads'
  <2>1. CASE Latest(c) = 0
    <3>1. OpenLeads(c) = {}
      BY <2>1, LatestForms DEF CrmInv
    <3>2. NewLead(c) \in Opportunity /\ NewLead(c).contact = c
      BY <1>1 DEF NewLead, Opportunity, Stages
    <3> QED
      BY <1>1, <1>6, <2>1, <3>1, <3>2, LeadAdded
  <2>2. CASE Latest(c) # 0
    <3>1. opp' = opp
      BY <1>1, <2>2
    <3> QED
      BY <3>1, <1>1, <1>6, LeadsStay DEF CrmInv, TypeOK
  <2> QED
    BY <2>1, <2>2
<1>8. TypeOK'
  BY <1>1, <1>6, <1>7, IdleForms DEF CrmInv, TypeOK
<1>9. Grows
  BY <1>1, <1>6, <1>7 DEF Grows, Counted
<1>10. ASSUME NEW u \in Txns PROVE txn'[u] = Idle \/ txn'[u] = txn[u]
  BY <1>1 DEF CrmInv, TypeOK
<1> QED
  BY <1>6, <1>7, <1>8, <1>9, <1>10, RecordsStay DEF CrmInv

LEMMA CreateContactInv ==
    ASSUME CrmInv, NEW email \in Emails \cup {None}, NEW phone \in Phones \cup {None},
           CreateContact(email, phone)
    PROVE  CrmInv'
<1> DEFINE new == [Nobody EXCEPT !.email = email, !.phone = phone]
<1>1. /\ Len(contact) < MaxContacts /\ contact' = Append(contact, new)
      /\ UNCHANGED <<opp, txn, changes, silent, stale, overtaken, extra>>
  BY DEF CreateContact
<1>2. new \in Person /\ new.state = "LIVE"
  BY DEF Nobody, Person
<1> HIDE DEF new
<1>3. /\ contact' \in Seq(Person) /\ Len(contact') <= MaxContacts
      /\ DOMAIN contact \subseteq DOMAIN contact'
      /\ (\A d \in DOMAIN contact \ stale : Emptied(d))'
  BY <1>1, <1>2, ContactAdded
<1>4. Leads'
  BY <1>1, <1>3, LeadsStay
<1>5. TypeOK'
  BY <1>1, <1>3 DEF CrmInv, TypeOK
<1>6. Grows
  BY <1>1, <1>3 DEF Grows, Counted
<1> QED
  BY <1>1, <1>3, <1>4, <1>5, <1>6, RecordsStay DEF CrmInv

LEMMA ContactCommitInv ==
    ASSUME CrmInv, NEW t \in Txns, ContactCommit(t)
    PROVE  CrmInv'
<1> DEFINE r == txn[t]
           new == IF r.op = "erase" THEN Erased(r) ELSE Updated(r)
<1>1. /\ r.op \in {"update", "erase"}
      /\ contact' = Saved(r.c, r.was, new)
      /\ stale' = StaleIf(r.c, r.was)
      /\ txn' = [txn EXCEPT ![t] = Idle]
      /\ UNCHANGED <<opp, changes, silent, overtaken, extra>>
  BY DEF ContactCommit, Finish
<1>2. r \in Txn /\ Reads(r)
  BY DEF CrmInv, TypeOK
<1>3. r.c \in DOMAIN contact /\ r.was \in Person /\ r.was.state = "LIVE"
  BY <1>1, <1>2 DEF Reads, Txn
<1>4. new \in Person /\ (new.state = "LIVE" \/ (new.email = None /\ new.phone = None))
  BY <1>2, <1>3 DEF Txn, Erased, Updated, Person
<1> HIDE DEF r, new
<1>5. /\ contact' \in Seq(Person) /\ Len(contact') <= MaxContacts
      /\ DOMAIN contact' = DOMAIN contact /\ stale' \subseteq ContactIds
      /\ (\A d \in DOMAIN contact \ stale : Emptied(d))'
  BY <1>1, <1>3, <1>4, ContactSaved
<1>6. Leads'
  BY <1>1, <1>5, LeadsStay
<1>7. TypeOK'
  BY <1>1, <1>5, IdleForms DEF CrmInv, TypeOK
<1>8. Grows
  BY <1>1, <1>5 DEF Grows, Counted
<1>9. ASSUME NEW u \in Txns PROVE txn'[u] = Idle \/ txn'[u] = txn[u]
  BY <1>1 DEF CrmInv, TypeOK
<1> QED
  BY <1>5, <1>6, <1>7, <1>8, <1>9, RecordsStay DEF CrmInv

\* What follows for an opportunity that is made, or moved, or left.
LEMMA LeadStep ==
    ASSUME CrmInv, UNCHANGED <<contact, stale>>, NEW t,
           txn' = [txn EXCEPT ![t] = Idle] \/ txn' = txn,
           opp' \in Seq(Opportunity), Len(opp') <= MaxOpps,
           changes' \in [OppIds -> Nat], silent' \subseteq OppIds \X Nat,
           overtaken' \subseteq OppIds, extra' \subseteq ContactIds,
           Leads', Grows
    PROVE  CrmInv'
<1>1. ASSUME NEW u \in Txns PROVE txn'[u] \in Txn /\ (txn'[u] = Idle \/ txn'[u] = txn[u])
  BY IdleForms DEF CrmInv, TypeOK
<1>2. txn' \in [Txns -> Txn]
  BY IdleForms DEF CrmInv, TypeOK
<1>3. TypeOK'
  BY <1>2 DEF CrmInv, TypeOK
<1>4. (\A d \in DOMAIN contact \ stale : Emptied(d))'
  BY DEF CrmInv, Emptied
<1> QED
  BY <1>1, <1>3, <1>4, RecordsStay DEF CrmInv

LEMMA CreateOpportunityInv ==
    ASSUME CrmInv, NEW c \in ContactIds, CreateOpportunity(c)
    PROVE  CrmInv'
<1>1. /\ c \in DOMAIN contact /\ Len(opp) < MaxOpps
      /\ opp' = Append(opp, NewLead(c)) /\ extra' = extra \cup {c}
      /\ UNCHANGED <<contact, txn, changes, silent, stale, overtaken>>
  BY DEF CreateOpportunity
<1>2. NewLead(c) \in Opportunity /\ NewLead(c).contact = c
  BY DEF NewLead, Opportunity, Stages
<1>3. /\ opp' \in Seq(Opportunity) /\ Len(opp') <= MaxOpps
      /\ DOMAIN opp \subseteq DOMAIN opp' /\ \A o \in DOMAIN opp : opp'[o] = opp[o]
      /\ Leads'
  BY <1>1, <1>2, LeadAdded
<1>4. Grows
  BY <1>1, <1>3 DEF Grows, Counted
<1> QED
  BY <1>1, <1>3, <1>4, LeadStep DEF CrmInv, TypeOK

\* No customer's move leads out of a stage that is won or lost, or to WON.
LEMMA LeadTargetForms ==
    ASSUME NEW r \in Txn, r.op \in {"qualify", "event"}, Moves(r.stage, LeadTarget(r), FALSE)
    PROVE  r.stage \in OpenStages /\ LeadTarget(r) \in OpenStages
<1>1. LeadTarget(r) = r.stage \/ LeadTarget(r) \in {"QUALIFIED", "APPOINTMENT_BOOKED"}
  BY DEF LeadTarget
<1>2. r.stage \in Stages /\ LeadTarget(r) # r.stage /\ LeadTarget(r) \in Follows[r.stage]
  BY DEF Moves, Txn
<1> QED
  BY <1>1, <1>2 DEF Follows, Stages, OpenStages

LEMMA MovedForms ==
    ASSUME NEW row \in Opportunity, NEW r \in Txn, NEW to \in Stages
    PROVE  /\ Moved(row, r, to) \in Opportunity
           /\ Moved(row, r, to).contact = row.contact /\ Moved(row, r, to).stage = to
           /\ Moved(row, r, to).version = r.version + 1
<1> DEFINE v == r.version + 1
<1>1. v \in Nat
  BY DEF Txn
<1>2. Moved(row, r, to) = [row EXCEPT !.stage = to, !.version = v]
  BY DEF Moved
<1> HIDE DEF v
<1>3. Moved(row, r, to) = [contact |-> row.contact, stage |-> to, version |-> v,
                           fields |-> row.fields]
  BY <1>2 DEF Opportunity
<1> QED
  BY <1>1, <1>3 DEF v, Opportunity

LEMMA EditedForms ==
    ASSUME TypeOK, NEW row \in Opportunity, NEW o \in OppIds
    PROVE  /\ Edited(o, row) \in Opportunity
           /\ Edited(o, row).contact = row.contact /\ Edited(o, row).stage = row.stage
           /\ Edited(o, row).version = row.version
<1> DEFINE n == changes[o] + 1
<1>1. n \in Nat
  BY DEF TypeOK
<1>2. Edited(o, row) = [row EXCEPT !.fields = n]
  BY DEF Edited
<1> HIDE DEF n
<1> QED
  BY <1>1, <1>2 DEF Opportunity

LEMMA PatchedForms ==
    ASSUME TypeOK, NEW r \in Txn, r.o \in DOMAIN opp
    PROVE  /\ Patched(r) \in Opportunity /\ Patched(r).contact = opp[r.o].contact
           /\ Patched(r).stage = opp[r.o].stage /\ Patched(r).version = r.version + 1
<1> DEFINE v == r.version + 1
           row == [opp[r.o] EXCEPT !.version = v]
<1>1. v \in Nat /\ r.o \in OppIds /\ opp[r.o] \in Opportunity
  BY RowDomains DEF Txn
<1>2. Patched(r) = Edited(r.o, row)
  BY DEF Patched
<1> HIDE DEF v
<1>3. /\ row \in Opportunity /\ row.contact = opp[r.o].contact
      /\ row.stage = opp[r.o].stage /\ row.version = v
  BY <1>1 DEF Opportunity
<1> HIDE DEF row
<1> QED
  BY <1>1, <1>2, <1>3, EditedForms DEF v

\* qualify writes fields: no lead is opened, and the change is a silent one.
LEMMA LeadEdited ==
    ASSUME CrmInv, NEW k \in DOMAIN opp, Requalify(k), UNCHANGED <<contact, overtaken, extra>>
    PROVE  /\ opp' \in Seq(Opportunity) /\ Len(opp') <= MaxOpps
           /\ changes' \in [OppIds -> Nat] /\ silent' \subseteq OppIds \X Nat
           /\ Leads' /\ Grows
<1> DEFINE row == Edited(k, opp[k])
<1>1. /\ opp \in Seq(Opportunity) /\ k \in 1 .. Len(opp) /\ DOMAIN opp = 1 .. Len(opp)
      /\ k \in OppIds /\ opp[k] \in Opportunity /\ changes \in [OppIds -> Nat]
      /\ silent \subseteq OppIds \X Nat
  BY RowDomains DEF CrmInv, TypeOK
<1>2. /\ row \in Opportunity /\ row.contact = opp[k].contact /\ row.stage = opp[k].stage
      /\ row.version = opp[k].version
  BY <1>1, EditedForms DEF CrmInv
<1>3. /\ opp' = [opp EXCEPT ![k] = row]
      /\ changes' = [changes EXCEPT ![k] = @ + 1]
      /\ silent' = silent \cup {<<k, changes[k] + 1>>}
  BY DEF Requalify
<1> HIDE DEF row
<1>4. /\ opp' \in Seq(Opportunity) /\ Len(opp') = Len(opp)
      /\ \A o \in 1 .. Len(opp) : opp'[o] = IF o = k THEN row ELSE opp[o]
  BY <1>1, <1>2, <1>3, ExceptSeq
<1>5. DOMAIN opp' = DOMAIN opp
  BY <1>1, <1>4
<1>6. \A o \in DOMAIN opp : /\ opp'[o].contact = opp[o].contact /\ opp'[o].stage = opp[o].stage
                             /\ opp'[o].version = opp[o].version
  BY <1>1, <1>2, <1>4
<1>7. /\ changes' \in [OppIds -> Nat] /\ silent' \subseteq OppIds \X Nat
      /\ Len(opp') <= MaxOpps
  BY <1>1, <1>3, <1>4 DEF CrmInv, TypeOK
<1>8. ASSUME NEW c \in DOMAIN contact PROVE OneLead(c)'
  <2>1. OpenLeads(c)' = OpenLeads(c)
    BY <1>5, <1>6 DEF OpenLeads
  <2>2. \A o \in overtaken : opp'[o].contact = opp[o].contact
    BY <1>6 DEF CrmInv, Leads
  <2> QED
    BY <2>1, <2>2 DEF OneLead, CrmInv, Leads
<1>9. Leads'
  BY <1>5, <1>6, <1>8 DEF CrmInv, Leads
<1>10. Grows
  <2>1. ASSUME NEW o \in DOMAIN opp PROVE Counted(o)
    <3>1. CASE o = k
      BY <3>1, <1>1, <1>3 DEF Counted
    <3>2. CASE o # k
      BY <3>2, <1>1, <1>3, RowDomains DEF Counted, CrmInv
    <3> QED
      BY <3>1, <3>2
  <2> QED
    BY <1>3, <1>5, <1>6, <2>1 DEF Grows
<1> QED
  BY <1>4, <1>7, <1>9, <1>10

LEMMA LeadCommitInv ==
    ASSUME CrmInv, NEW t \in Txns, LeadCommit(t)
    PROVE  CrmInv'
<1> DEFINE r == txn[t]
           to == LeadTarget(r)
<1>1. /\ r.op \in {"qualify", "event"}
      /\ \/ /\ r.o = 0 /\ Len(opp) < MaxOpps
            /\ \/ opp' = Append(opp, NewLead(r.c))
               \/ /\ Moves("NEW_LEAD", to, FALSE)
                  /\ opp' = Append(opp, Moved(NewLead(r.c), r, to))
            /\ extra' = IF Latest(r.c) = 0 THEN extra ELSE extra \cup {r.c}
            /\ UNCHANGED <<changes, silent, overtaken>>
         \/ /\ r.o # 0 /\ Moves(r.stage, to, FALSE)
            /\ Move(r, IF r.op = "event" THEN Moved(opp[r.o], r, to)
                       ELSE Edited(r.o, Moved(opp[r.o], r, to)))
            /\ UNCHANGED extra
         \/ r.o # 0 /\ Requalify(r.o) /\ UNCHANGED <<overtaken, extra>>
         \/ UNCHANGED <<opp, changes, silent, overtaken, extra>>
      /\ txn' = [txn EXCEPT ![t] = Idle]
      /\ UNCHANGED <<contact, stale>>
  BY DEF LeadCommit, Finish
<1>2. r \in Txn /\ Reads(r)
  BY DEF CrmInv, TypeOK
<1>3. r.c \in DOMAIN contact /\ r.c \in ContactIds
  BY <1>1, <1>2, RowDomains DEF CrmInv, Reads
<1>4. to \in Stages
  BY <1>2 DEF LeadTarget, Stages, Txn
<1> HIDE DEF r, to
<1>5. CASE r.o = 0 /\ Len(opp) < MaxOpps
           /\ (\/ opp' = Append(opp, NewLead(r.c))
               \/ opp' = Append(opp, Moved(NewLead(r.c), r, to)))
           /\ extra' = (IF Latest(r.c) = 0 THEN extra ELSE extra \cup {r.c})
           /\ UNCHANGED <<changes, silent, overtaken>>
  <2>1. NewLead(r.c) \in Opportunity /\ NewLead(r.c).contact = r.c
    BY <1>3 DEF NewLead, Opportunity, Stages
  <2>2. PICK row \in Opportunity : row.contact = r.c /\ opp' = Append(opp, row)
    BY <1>2, <1>4, <1>5, <2>1, MovedForms
  <2>3. OpenLeads(r.c) = {} \/ r.c \in extra'
    BY <1>5, LatestForms DEF CrmInv
  <2>4. extra \subseteq extra' /\ extra' \subseteq ContactIds
    BY <1>3, <1>5 DEF CrmInv, TypeOK
  <2>5. /\ opp' \in Seq(Opportunity) /\ Len(opp') <= MaxOpps
        /\ DOMAIN opp \subseteq DOMAIN opp' /\ \A o \in DOMAIN opp : opp'[o] = opp[o]
        /\ Leads'
    BY <1>1, <1>3, <1>5, <2>2, <2>3, <2>4, LeadAdded
  <2>6. Grows
    BY <1>1, <1>5, <2>5 DEF Grows, Counted
  <2> QED
    BY <1>1, <1>5, <2>4, <2>5, <2>6, LeadStep DEF CrmInv, TypeOK
<1>6. CASE /\ r.o # 0 /\ Moves(r.stage, to, FALSE)
           /\ Move(r, IF r.op = "event" THEN Moved(opp[r.o], r, to)
                      ELSE Edited(r.o, Moved(opp[r.o], r, to)))
           /\ UNCHANGED extra
  <2>1. r.o \in DOMAIN opp /\ opp[r.o] \in Opportunity
    BY <1>2, <1>6, RowDomains DEF CrmInv, Reads
  <2>2. r.stage \in OpenStages
    BY <1>1, <1>2, <1>6, LeadTargetForms DEF to
  <2> DEFINE moved == Moved(opp[r.o], r, to)
             row == IF r.op = "event" THEN moved ELSE Edited(r.o, moved)
  <2>3. row \in Opportunity /\ row.contact = opp[r.o].contact /\ row.version = r.version + 1
    <3>1. moved \in Opportunity /\ moved.contact = opp[r.o].contact
          /\ moved.version = r.version + 1
      BY <1>2, <1>4, <2>1, MovedForms
    <3>2. r.o \in OppIds /\ TypeOK
      BY <2>1, RowDomains DEF CrmInv
    <3> HIDE DEF moved
    <3> QED
      BY <3>1, <3>2, EditedForms
  <2>4. /\ opp' \in Seq(Opportunity) /\ Len(opp') <= MaxOpps
        /\ changes' \in [OppIds -> Nat] /\ silent' \subseteq OppIds \X Nat
        /\ overtaken' \subseteq OppIds
        /\ Leads' /\ Grows
    <3> HIDE DEF row
    <3> QED
      BY <1>1, <1>2, <1>6, <2>1, <2>2, <2>3, LeadMoved DEF row
  <2> QED
    BY <1>1, <1>6, <2>4, LeadStep DEF CrmInv, TypeOK
<1>7. CASE UNCHANGED <<opp, changes, silent, overtaken, extra>>
  <2>1. Grows
    BY <1>1, <1>7 DEF Grows, Counted
  <2>2. Leads'
    BY <1>1, <1>7, LeadsStay
  <2> QED
    BY <1>1, <1>7, <2>1, <2>2, LeadStep DEF CrmInv, TypeOK
<1>8. CASE r.o # 0 /\ Requalify(r.o) /\ UNCHANGED <<overtaken, extra>>
  <2>1. r.o \in DOMAIN opp
    BY <1>2, <1>8 DEF Reads
  <2>2. /\ opp' \in Seq(Opportunity) /\ Len(opp') <= MaxOpps
        /\ changes' \in [OppIds -> Nat] /\ silent' \subseteq OppIds \X Nat
        /\ Leads' /\ Grows
    BY <1>1, <1>8, <2>1, LeadEdited
  <2> QED
    BY <1>1, <1>8, <2>2, LeadStep DEF CrmInv, TypeOK
<1> QED
  BY <1>1, <1>5, <1>6, <1>7, <1>8

LEMMA StaffCommitInv ==
    ASSUME CrmInv, NEW t \in Txns, StaffCommit(t)
    PROVE  CrmInv'
<1> DEFINE r == txn[t]
           row == IF r.op = "patch" THEN Patched(r)
                                    ELSE Moved(opp[r.o], r, r.want)
<1>1. /\ r.op \in {"patch", "stage"}
      /\ Move(r, row) \/ UNCHANGED <<opp, changes, silent, overtaken>>
      /\ extra' = IF r.op = "stage" /\ r.stage \notin OpenStages
                    THEN extra \cup {opp[r.o].contact} ELSE extra
      /\ txn' = [txn EXCEPT ![t] = Idle]
      /\ UNCHANGED <<contact, stale>>
  BY DEF StaffCommit, Finish
<1>2. r \in Txn /\ Reads(r)
  BY DEF CrmInv, TypeOK
<1>3. /\ r.o \in DOMAIN opp /\ opp[r.o] \in Opportunity
      /\ opp[r.o].contact \in ContactIds
  BY <1>1, <1>2, RowDomains DEF CrmInv, Reads, Opportunity
<1>4. /\ row \in Opportunity /\ row.contact = opp[r.o].contact
      /\ row.version = r.version + 1
      /\ r.op = "patch" => row.stage = opp[r.o].stage
  <2>1. CASE r.op = "patch"
    <3>1. row = Patched(r)
      BY <2>1
    <3> HIDE DEF row
    <3> QED
      BY <3>1, <1>2, <1>3, PatchedForms DEF CrmInv
  <2>2. CASE r.op # "patch"
    <3>1. row = Moved(opp[r.o], r, r.want) /\ r.want \in Stages
      BY <2>2, <1>2 DEF Txn
    <3> QED
      BY <2>2, <3>1, <1>2, <1>3, MovedForms
  <2> QED
    BY <2>1, <2>2
<1> HIDE DEF r, row
<1>5. extra \subseteq extra' /\ extra' \subseteq ContactIds
  BY <1>1, <1>3 DEF CrmInv, TypeOK
<1>6. CASE Move(r, row)
  <2>1. \/ r.stage \in OpenStages \/ row.contact \in extra'
        \/ row.stage = opp[r.o].stage
    BY <1>1, <1>4
  <2>2. /\ opp' \in Seq(Opportunity) /\ Len(opp') <= MaxOpps
        /\ changes' \in [OppIds -> Nat] /\ silent' \subseteq OppIds \X Nat
        /\ overtaken' \subseteq OppIds
        /\ Leads' /\ Grows
    BY <1>1, <1>2, <1>3, <1>4, <1>5, <1>6, <2>1, LeadMoved
  <2> QED
    BY <1>1, <1>5, <2>2, LeadStep
<1>7. CASE UNCHANGED <<opp, changes, silent, overtaken>>
  <2>1. Grows
    BY <1>1, <1>7 DEF Grows, Counted
  <2>2. Leads'
    BY <1>1, <1>5, <1>7, LeadsStay
  <2> QED
    BY <1>1, <1>5, <1>7, <2>1, <2>2, LeadStep DEF CrmInv, TypeOK
<1> QED
  BY <1>1, <1>6, <1>7

-----------------------------------------------------------------------------
LEMMA CrmStep == CrmInv /\ [Next]_vars => CrmInv'
<1> SUFFICES ASSUME CrmInv, [Next]_vars PROVE CrmInv'
  OBVIOUS
<1>1. ASSUME NEW t \in Txns, Customers(t) PROVE CrmInv'
  BY <1>1, CaptureReadInv, CaptureCommitInv, LeadReadInv, LeadCommitInv DEF Customers
<1>2. ASSUME NEW t \in Txns, Staff(t) PROVE CrmInv'
  <2>1. "NEW_LEAD" \in Stages /\ Wanted \subseteq Stages /\ None \in Emails \cup {None}
        /\ None \in Phones \cup {None}
    BY CrmAssumption DEF Stages
  <2> QED
    BY <1>2, <2>1, ContactReadInv, ContactCommitInv, LookInv, StaffReadInv, StageReadInv,
       StaffCommitInv DEF Staff
<1>3. ASSUME NEW t \in Txns, Rollback(t) PROVE CrmInv'
  BY <1>3, RollbackInv
<1>4. CASE \E email \in Emails \cup {None}, phone \in Phones \cup {None} :
             CreateContact(email, phone)
  BY <1>4, CreateContactInv
<1>5. CASE \E c \in ContactIds : CreateOpportunity(c)
  BY <1>5, CreateOpportunityInv
<1>6. CASE UNCHANGED vars
  <2>1. Grows
    BY <1>6 DEF vars, Grows, Counted
  <2>2. Leads'
    BY <1>6, LeadsStay DEF vars
  <2>3. txn' = txn /\ UNCHANGED <<contact, stale>>
    BY <1>6 DEF vars
  <2> QED
    BY <1>6, <2>1, <2>2, <2>3, LeadStep DEF vars, CrmInv, TypeOK
<1> QED
  BY <1>1, <1>2, <1>3, <1>4, <1>5, <1>6 DEF Next

\* An erased contact keeps neither address nor number, whatever submissions and edits are under way,
\* unless one that had read it before the erasure commits after it (soft_delete_contact and
\* capture_contact).
THEOREM ErasedStaysEmptyHolds == Spec => []ErasedStaysEmpty
<1>1. CrmInv => ErasedStaysEmpty
  BY DEF CrmInv, ErasedStaysEmpty, Emptied
<1> QED
  BY <1>1, CrmInitInv, CrmStep, PTL DEF Spec

\* However a customer comes back, a contact has one open opportunity, and staff who change one under
\* the version they have seen meet the stage they have seen and no change they have not seen, but
\* what qualify has written of its fields, unless staff opened another, lookups overlapped or a
\* change was committed over a newer row (capture_contact, qualify, update_opportunity and
\* change_stage).
THEOREM OneOpenLeadHolds == Spec => []OneOpenLead
<1>1. CrmInv => OneOpenLead
  <2> SUFFICES ASSUME CrmInv PROVE OneOpenLead
    OBVIOUS
  <2>1. ASSUME NEW c \in DOMAIN contact, c \notin extra,
               ~\E o \in overtaken : opp[o].contact = c
        PROVE  Cardinality({o \in DOMAIN opp : opp[o].contact = c
                                              /\ opp[o].stage \notin {"WON", "LOST"}}) <= 1
    <3> DEFINE S == {o \in DOMAIN opp : opp[o].contact = c /\ opp[o].stage \notin {"WON", "LOST"}}
    <3>1. S = OpenLeads(c)
      BY RowDomains DEF CrmInv, OpenLeads, OpenStages, Opportunity
    <3>2. \A o, x \in S : o = x
      BY <2>1, <3>1 DEF CrmInv, Leads, OneLead
    <3>3. S = {} \/ \E o \in S : S = {o}
      BY <3>2
    <3> HIDE DEF S
    <3>4. Cardinality(S) <= 1
      BY <3>3, FS_EmptySet, FS_Singleton
    <3> QED
      BY <3>4 DEF S
  <2>2. ASSUME NEW t \in Txns, txn[t].op \in {"patch", "stage"}
        PROVE  \/ txn[t].o \in overtaken
               \/ opp[txn[t].o].version # txn[t].version
               \/ /\ \A n \in txn[t].known + 1 .. changes[txn[t].o] : <<txn[t].o, n>> \in silent
                  /\ opp[txn[t].o].stage = txn[t].stage
    BY <2>2 DEF CrmInv, Seen
  <2> QED
    BY <2>1, <2>2 DEF OneOpenLead
<1> QED
  BY <1>1, CrmInitInv, CrmStep, PTL DEF Spec

-----------------------------------------------------------------------------
(* What customers cannot change *)

LEMMA CaptureKeepsFile ==
    ASSUME CrmInv, NEW t \in Txns, CaptureCommit(t)
    PROVE  OnFileStays
<1> DEFINE r == txn[t]
           new == Filled(r.was, r.email, r.phone)
<1>1. /\ r.op = "capture"
      /\ r.c = 0 => contact' = Append(contact, new)
      /\ r.c # 0 => contact' = Saved(r.c, r.was, new) /\ stale' = StaleIf(r.c, r.was)
  BY DEF CaptureCommit
<1>2. r \in Txn /\ r.c \in DOMAIN contact \cup {0} /\ (r.c # 0 => r.was.state = "LIVE")
  BY <1>1 DEF CrmInv, TypeOK, Reads
<1>3. /\ r.was \in Person /\ new \in Person /\ new.state = r.was.state
      /\ r.was.email # None => new.email = r.was.email
      /\ r.was.phone # None => new.phone = r.was.phone
  BY <1>2, FilledForms DEF Txn
<1> HIDE DEF r, new
<1>4. ASSUME NEW c \in DOMAIN contact, c \notin stale'
      PROVE  \A f \in {"state", "email", "phone"} :
               contact[c][f] # None => contact'[c][f] = contact[c][f]
  <2>1. CASE r.c = 0
    <3>1. contact'[c] = contact[c]
      BY <1>1, <1>3, <2>1, RowDomains, AppendProperties DEF CrmInv, TypeOK
    <3> QED
      BY <3>1
  <2>2. CASE r.c # 0
    <3>1. r.c \in DOMAIN contact /\ contact[r.c] \in Person
      BY <1>2, <2>2, RowDomains DEF CrmInv
    <3>2. /\ c # r.c => contact'[c] = contact[c]
          /\ contact'[r.c] = Written(contact[r.c], r.was, new)
      <4>1. TypeOK /\ contact' = Saved(r.c, r.was, new)
        BY <1>1, <2>2 DEF CrmInv
      <4>2. /\ \A d \in DOMAIN contact \ {r.c} : Saved(r.c, r.was, new)[d] = contact[d]
            /\ Saved(r.c, r.was, new)[r.c] = Written(contact[r.c], r.was, new)
        BY <1>3, <3>1, <4>1, SavedForms
      <4> QED
        BY <4>1, <4>2
    <3>3. c = r.c => contact[c] = r.was /\ contact'[c] = new
      BY <1>1, <1>3, <1>4, <2>2, <3>1, <3>2, WrittenForms DEF StaleIf
    <3> QED
      BY <1>3, <3>2, <3>3
  <2> QED
    BY <2>1, <2>2
<1> QED
  BY <1>4 DEF OnFileStays

\* A contact that no submission has committed to.
LEMMA OthersKeepFile ==
    ASSUME CrmInv, NEW t \in Txns, txn[t].op # "capture",
           txn' = txn \/ \E r : txn' = [txn EXCEPT ![t] = r]
    PROVE  OnFileStays
BY DEF OnFileStays, CrmInv, TypeOK

LEMMA LeadKeepsClosed ==
    ASSUME CrmInv, NEW t \in Txns, LeadCommit(t) \/ StaffCommit(t)
    PROVE  ClosedStays
<1> DEFINE r == txn[t]
<1>1. r \in Txn /\ Reads(r) /\ txn'[t].op = "idle"
  BY IdleForms DEF CrmInv, TypeOK, LeadCommit, StaffCommit, Finish
<1>2. opp \in Seq(Opportunity) /\ DOMAIN opp = 1 .. Len(opp) /\ Len(opp) \in Nat
  BY RowDomains DEF CrmInv, TypeOK
<1>3. CASE \A o \in DOMAIN opp : opp'[o] = opp[o]
  BY <1>3 DEF ClosedStays
<1>4. ASSUME NEW row \in Opportunity, Move(r, row), r.o # 0,
             row.stage # opp[r.o].stage => /\ row.stage # r.stage
                                           /\ \/ r.stage \in OpenStages
                                              \/ r.op = "stage"
                                           /\ row.stage = "WON" =>
                                                r.stage \in {"PROPOSAL", "NEGOTIATION"}
      PROVE  ClosedStays
  <2>1. r.o \in 1 .. Len(opp)
    BY <1>1, <1>2, <1>4 DEF Reads
  <2>2. \A o \in 1 .. Len(opp) : opp'[o] = IF o = r.o THEN row ELSE opp[o]
    BY <1>2, <1>4, <2>1, ExceptSeq DEF Move
  <2>3. r.o \notin overtaken' => opp[r.o].stage = r.stage
    BY <1>4 DEF Move
  <2>4. ASSUME NEW o \in DOMAIN opp, opp'[o].stage # opp[o].stage, o \notin overtaken'
        PROVE  /\ opp[o].stage \in {"WON", "LOST"} =>
                    \E u \in Txns : txn[u].op = "stage" /\ txn[u].o = o /\ txn'[u].op = "idle"
               /\ opp'[o].stage = "WON" => opp[o].stage \in {"PROPOSAL", "NEGOTIATION"}
    <3>1. o = r.o /\ opp'[o] = row /\ opp[o].stage = r.stage
      BY <1>2, <2>2, <2>3, <2>4
    <3>2. opp[o].stage \in {"WON", "LOST"} => r.op = "stage"
      BY <1>4, <2>4, <3>1 DEF OpenStages
    <3> QED
      BY <1>1, <1>4, <2>4, <3>1, <3>2
  <2> QED
    BY <2>4 DEF ClosedStays
<1>5. CASE LeadCommit(t)
  <2> DEFINE to == LeadTarget(r)
  <2>1. /\ r.op \in {"qualify", "event"}
        /\ \/ opp' = Append(opp, NewLead(r.c))
           \/ opp' = Append(opp, Moved(NewLead(r.c), r, to))
           \/ /\ r.o # 0 /\ Moves(r.stage, to, FALSE)
              /\ Move(r, IF r.op = "event" THEN Moved(opp[r.o], r, to)
                         ELSE Edited(r.o, Moved(opp[r.o], r, to)))
           \/ r.o # 0 /\ Requalify(r.o)
           \/ opp' = opp
    BY <1>5 DEF LeadCommit
  <2>2. to \in Stages
    BY <1>1 DEF LeadTarget, Stages, Txn
  <2>3. r.c \in ContactIds
    BY <1>1, <2>1, RowDomains DEF CrmInv, Reads
  <2>4. NewLead(r.c) \in Opportunity
    BY <2>3 DEF NewLead, Opportunity, Stages
  <2>5. Moved(NewLead(r.c), r, to) \in Opportunity
    BY <1>1, <2>2, <2>4, MovedForms
  <2>6. ASSUME NEW row \in Opportunity, opp' = Append(opp, row) PROVE ClosedStays
    <3>1. \A o \in DOMAIN opp : opp'[o] = opp[o]
      BY <1>2, <2>6, AppendProperties
    <3> QED
      BY <3>1, <1>3
  <2>7. CASE /\ r.o # 0 /\ Moves(r.stage, to, FALSE)
             /\ Move(r, IF r.op = "event" THEN Moved(opp[r.o], r, to)
                        ELSE Edited(r.o, Moved(opp[r.o], r, to)))
    <3> DEFINE moved == Moved(opp[r.o], r, to)
               row == IF r.op = "event" THEN moved ELSE Edited(r.o, moved)
    <3>1. opp[r.o] \in Opportunity /\ r.o \in OppIds /\ TypeOK
      BY <1>1, <2>7, RowDomains DEF CrmInv, Reads
    <3>2. row \in Opportunity /\ row.stage = to
      <4>1. moved \in Opportunity /\ moved.stage = to
        BY <1>1, <2>2, <3>1, MovedForms
      <4> HIDE DEF moved, r
      <4> QED
        BY <3>1, <4>1, EditedForms
    <3>3. r.stage \in OpenStages /\ to \in OpenStages /\ to # r.stage
      BY <1>1, <2>1, <2>7, LeadTargetForms DEF Moves
    <3> HIDE DEF row, to
    <3>4. to # "WON"
      BY <3>3 DEF OpenStages
    <3> QED
      BY <1>4, <2>7, <3>2, <3>3, <3>4 DEF row
  <2>8. CASE r.o # 0 /\ Requalify(r.o)
    <3>1. /\ r.o \in DOMAIN opp /\ r.o \in OppIds /\ TypeOK /\ opp[r.o] \in Opportunity
          /\ opp' = [opp EXCEPT ![r.o] = Edited(r.o, opp[r.o])]
      BY <1>1, <2>8, RowDomains DEF CrmInv, Reads, Requalify
    <3>2. Edited(r.o, opp[r.o]).stage = opp[r.o].stage
      BY <3>1, EditedForms
    <3> HIDE DEF r
    <3>3. \A o \in DOMAIN opp : opp'[o].stage = opp[o].stage
      BY <3>1, <3>2
    <3> QED
      BY <3>3 DEF ClosedStays
  <2> QED
    BY <1>3, <2>1, <2>4, <2>5, <2>6, <2>7, <2>8
<1>6. CASE StaffCommit(t)
  <2>1. \/ r.op = "patch" /\ Move(r, Patched(r))
        \/ r.op = "stage" /\ r.want # r.stage /\ Move(r, Moved(opp[r.o], r, r.want))
        \/ opp' = opp
    BY <1>6 DEF StaffCommit
  <2>2. CASE r.op = "patch" /\ Move(r, Patched(r))
    <3>1. r.o # 0 /\ r.o \in DOMAIN opp
      BY <1>1, <2>2, RowDomains DEF CrmInv, Reads
    <3>2. Patched(r) \in Opportunity /\ Patched(r).stage = opp[r.o].stage
      BY <1>1, <3>1, PatchedForms DEF CrmInv
    <3> QED
      BY <1>4, <2>2, <3>1, <3>2
  <2>3. CASE r.op = "stage" /\ r.want # r.stage /\ Move(r, Moved(opp[r.o], r, r.want))
    <3> DEFINE row == Moved(opp[r.o], r, r.want)
    <3>1. /\ r.o # 0 /\ opp[r.o] \in Opportunity /\ r.want \in Stages /\ r.stage \in Stages
          /\ Moves(r.stage, r.want, TRUE)
      BY <1>1, <2>3, RowDomains DEF CrmInv, Reads, Txn
    <3>2. row \in Opportunity /\ row.stage = r.want
      BY <1>1, <3>1, MovedForms
    <3>3. r.want = "WON" => r.stage \in {"PROPOSAL", "NEGOTIATION"}
      BY <3>1 DEF Moves, Follows, Stages
    <3> HIDE DEF row
    <3> QED
      BY <1>4, <2>3, <3>1, <3>2, <3>3 DEF row
  <2> QED
    BY <1>3, <2>1, <2>2, <2>3
<1> QED
  BY <1>5, <1>6

LEMMA Unmoved ==
    ASSUME opp' = opp
    PROVE  ClosedStays
BY DEF ClosedStays

LEMMA FileUnchanged ==
    ASSUME contact' = contact
    PROVE  OnFileStays
BY DEF OnFileStays

\* No submission changes what is on file of a contact, and no event of a customer moves what is won
\* or lost, unless it was decided on a row that was changed meanwhile (capture_contact and
\* _transition).
THEOREM ClosedByStaffHolds == Spec => ClosedByStaff
<1>1. ASSUME CrmInv, [Next]_vars PROVE OnFileStays /\ ClosedStays
  <2>1. CASE \E t \in Txns : CaptureCommit(t)
    <3>1. PICK t \in Txns : CaptureCommit(t)
      BY <2>1
    <3>2. opp' = opp \/ \E c \in ContactIds : opp' = Append(opp, NewLead(c))
      BY <3>1 DEF CaptureCommit
    <3>3. \A c \in ContactIds : NewLead(c) \in Opportunity
      BY DEF NewLead, Opportunity, Stages
    <3>4. \A o \in DOMAIN opp : opp'[o] = opp[o]
      <4>1. CASE opp' = opp
        BY <4>1
      <4>2. ASSUME NEW c \in ContactIds, opp' = Append(opp, NewLead(c))
            PROVE  \A o \in DOMAIN opp : opp'[o] = opp[o]
        <5>1. opp \in Seq(Opportunity) /\ DOMAIN opp = 1 .. Len(opp)
          BY <1>1, RowDomains DEF CrmInv, TypeOK
        <5> QED
          BY <3>3, <4>2, <5>1, AppendProperties
      <4> QED
        BY <3>2, <4>1, <4>2
    <3> QED
      BY <1>1, <3>1, <3>4, CaptureKeepsFile DEF ClosedStays
  <2>2. CASE \E t \in Txns : LeadCommit(t) \/ StaffCommit(t)
    BY <1>1, <2>2, LeadKeepsClosed, FileUnchanged DEF LeadCommit, StaffCommit
  <2>3. CASE \E t \in Txns : ContactCommit(t)
    BY <1>1, <2>3, OthersKeepFile, Unmoved DEF ContactCommit, Finish
  <2>4. CASE \E email \in Emails \cup {None}, phone \in Phones \cup {None} :
               CreateContact(email, phone)
    BY <1>1, <2>4, Unmoved DEF CreateContact, OnFileStays, CrmInv, TypeOK
  <2>5. CASE \E c \in ContactIds : CreateOpportunity(c)
    <3>1. PICK c \in ContactIds : CreateOpportunity(c)
      BY <2>5
    <3>2. NewLead(c) \in Opportunity
      BY DEF NewLead, Opportunity, Stages
    <3>3. \A o \in DOMAIN opp : opp'[o] = opp[o]
      <4>1. opp \in Seq(Opportunity) /\ DOMAIN opp = 1 .. Len(opp)
        BY <1>1, RowDomains DEF CrmInv, TypeOK
      <4> QED
        BY <3>1, <3>2, <4>1, AppendProperties DEF CreateOpportunity
    <3> QED
      BY <3>1, <3>3, FileUnchanged DEF CreateOpportunity, ClosedStays
  <2>6. CASE UNCHANGED <<contact, opp>>
    BY <2>6, Unmoved, FileUnchanged
  <2>7. ASSUME NEW t \in Txns, Customers(t)
        PROVE  CaptureCommit(t) \/ LeadCommit(t) \/ UNCHANGED <<contact, opp>>
    BY <2>7 DEF Customers, CaptureRead, LeadRead
  <2>8. ASSUME NEW t \in Txns, Staff(t)
        PROVE  ContactCommit(t) \/ StaffCommit(t) \/ UNCHANGED <<contact, opp>>
    BY <2>8 DEF Staff, ContactRead, Look, StaffRead, StageRead
  <2>9. ASSUME NEW t \in Txns, Rollback(t) PROVE UNCHANGED <<contact, opp>>
    BY <2>9 DEF Rollback
  <2>10. CASE UNCHANGED vars
    BY <2>6, <2>10 DEF vars
  <2> QED
    BY <1>1, <2>1, <2>2, <2>3, <2>4, <2>5, <2>6, <2>7, <2>8, <2>9, <2>10 DEF Next
<1> QED
  BY <1>1, CrmInitInv, CrmStep, PTL DEF Spec, ClosedByStaff

-----------------------------------------------------------------------------
(* WhatsApp *)

Busy(s, k) == sender[s].pc # "idle" /\ sender[s].key = k

\* A message whose every answer arrived and that no two calls sent at once.
Plain(k) == k \notin unsettled /\ k \notin crossed

\* What is known of the calls under way for key k.
Calls(k) ==
    /\ \A s, t \in Senders : Busy(s, k) /\ Busy(t, k) => s = t \/ k \in crossed
    /\ \A s \in Senders : /\ Busy(s, k) /\ sender[s].pc = "accepted" => copies[k] > 0
                          /\ Busy(s, k) /\ sender[s].pc = "posting" /\ Plain(k) => copies[k] = 0
    /\ copies[k] > 0 /\ Plain(k) =>
         \/ k \in stored
         \/ \E s \in Senders : Busy(s, k) /\ sender[s].pc = "accepted"

Delivered(k) ==
    /\ copies[k] <= 1 \/ k \in unsettled \cup crossed
    /\ k \in told \cup stored => copies[k] > 0

\* The inductive invariant.
OutboxInv ==
    /\ OutboxTypeOK
    /\ \A k \in OutKeys : Calls(k) /\ Delivered(k)

-----------------------------------------------------------------------------
(* What the steps of a call do to its record *)

LEMMA SenderForms ==
    ASSUME OutboxTypeOK, NEW s \in Senders
    PROVE  \/ sender[s] = IdleSender
           \/ /\ sender[s].pc \in {"posting", "accepted"}
              /\ sender[s].key \in OutKeys
              /\ sender[s].try \in 1..GraphTries
BY DEF OutboxTypeOK, Sender

\* The next attempt is of the same message, and there is one only while attempts are left.
LEMMA NextTryForms ==
    ASSUME OutboxTypeOK, NEW s \in Senders, sender[s].pc = "posting"
    PROVE  \/ NextTry(s) = IdleSender
           \/ /\ NextTry(s) \in Sender
              /\ NextTry(s).pc = "posting"
              /\ NextTry(s).key = sender[s].key
<1>1. sender[s] \in Sender
  BY DEF OutboxTypeOK, IdleSender
<1> QED
  BY <1>1, OutboxAssumption DEF NextTry, Sender

-----------------------------------------------------------------------------

LEMMA InitOutboxInv == OutboxInit => OutboxInv
BY OutboxAssumption
   DEF OutboxInit, OutboxInv, OutboxTypeOK, Calls, Delivered, Busy, Plain, IdleSender

\* A call that ends, or goes on to its next attempt, without a delivery.
LEMMA QuietStep ==
    ASSUME OutboxInv, NEW s \in Senders, sender[s].pc = "posting",
           \/ sender' = [sender EXCEPT ![s] = NextTry(s)]
           \/ sender' = [sender EXCEPT ![s] = IdleSender],
           UNCHANGED <<stored, copies, told, unsettled, crossed>>
    PROVE  OutboxInv'
<1>1. OutboxTypeOK'
  BY NextTryForms DEF OutboxInv, OutboxTypeOK
<1>2. \/ sender'[s].pc = "idle"
      \/ sender'[s].pc = "posting" /\ sender'[s].key = sender[s].key
  BY NextTryForms DEF OutboxInv, OutboxTypeOK, IdleSender
<1>3. \A t \in Senders : t # s => sender'[t] = sender[t]
  BY DEF OutboxInv, OutboxTypeOK
<1>4. ASSUME NEW k \in OutKeys PROVE Calls(k)' /\ Delivered(k)'
  BY <1>2, <1>3 DEF OutboxInv, Calls, Delivered, Busy, Plain
<1> QED
  BY <1>1, <1>4 DEF OutboxInv

LEMMA LookupStep ==
    ASSUME OutboxInv, NEW s \in Senders, NEW q \in OutKeys, SendLookup(s, q)
    PROVE  OutboxInv'
<1>1. CASE Known(q)
  BY <1>1 DEF OutboxInv, OutboxTypeOK, SendLookup, Known, Calls, Delivered, Busy, Plain
<1>2. CASE ~Known(q)
  <2> DEFINE new == [pc |-> "posting", key |-> q, try |-> 1]
  <2>1. new \in Sender
    BY OutboxAssumption DEF Sender
  <2>2. sender' = [sender EXCEPT ![s] = new] /\ UNCHANGED <<stored, copies, told, unsettled>>
    BY <1>2 DEF SendLookup
  <2>3. crossed' = IF \E x \in Senders : Busy(x, q) THEN crossed \cup {q} ELSE crossed
    BY <1>2 DEF SendLookup, Busy
  <2>4. OutboxTypeOK'
    BY <2>1, <2>2, <2>3 DEF OutboxInv, OutboxTypeOK
  <2>5. sender'[s] = new /\ \A t \in Senders : t # s => sender'[t] = sender[t]
    BY <2>2 DEF OutboxInv, OutboxTypeOK
  <2>6. sender[s].pc = "idle"
    BY DEF SendLookup
  <2>7. ASSUME NEW k \in OutKeys PROVE Calls(k)' /\ Delivered(k)'
    <3>1. CASE k # q
      BY <2>2, <2>3, <2>5, <2>6, <3>1 DEF OutboxInv, Calls, Delivered, Busy, Plain
    <3>2. CASE k = q /\ \E x \in Senders : Busy(x, q)
      BY <2>2, <2>3, <2>5, <2>6, <3>2 DEF OutboxInv, Calls, Delivered, Busy, Plain
    <3>3. CASE k = q /\ ~\E x \in Senders : Busy(x, q)
      <4>1. copies[k] = 0 \/ ~Plain(k)
        BY <1>2, <3>3 DEF OutboxInv, OutboxTypeOK, Calls, Known
      <4> QED
        BY <2>2, <2>3, <2>5, <2>6, <3>3, <4>1 DEF OutboxInv, Calls, Delivered, Busy, Plain
    <3> QED
      BY <3>1, <3>2, <3>3
  <2> QED
    BY <2>4, <2>7 DEF OutboxInv
<1> QED
  BY <1>1, <1>2

\* The message is delivered: for the first time, if every answer arrived so far.
LEMMA AcceptStep ==
    ASSUME OutboxInv, NEW s \in Senders, GraphAccepts(s)
    PROVE  OutboxInv'
<1> DEFINE q == sender[s].key
<1>1. sender[s].pc = "posting" /\ sender[s] \in Sender /\ q \in OutKeys
  BY DEF GraphAccepts, OutboxInv, OutboxTypeOK, IdleSender, Sender
<1>2. /\ copies'[q] = copies[q] + 1 /\ \A k \in OutKeys : k # q => copies'[k] = copies[k]
      /\ copies' \in [OutKeys -> 0..MaxCopies]
      /\ UNCHANGED <<stored, told, crossed>>
  BY <1>1, OutboxAssumption DEF GraphAccepts, OutboxInv, OutboxTypeOK
<1>3. CASE sender' = [sender EXCEPT ![s].pc = "accepted"] /\ UNCHANGED unsettled
  <2>1. [sender[s] EXCEPT !.pc = "accepted"] \in Sender
    BY <1>1 DEF Sender
  <2>2. OutboxTypeOK'
    BY <1>1, <1>2, <1>3, <2>1 DEF OutboxInv, OutboxTypeOK
  <2>3. /\ sender'[s].pc = "accepted" /\ sender'[s].key = q
        /\ \A t \in Senders : t # s => sender'[t] = sender[t]
    BY <1>1, <1>3 DEF OutboxInv, OutboxTypeOK, Sender
  <2>4. ASSUME NEW k \in OutKeys PROVE Calls(k)' /\ Delivered(k)'
    BY <1>1, <1>2, <1>3, <2>3 DEF OutboxInv, OutboxTypeOK, Calls, Delivered, Busy, Plain
  <2> QED
    BY <2>2, <2>4 DEF OutboxInv
<1>4. CASE sender' = [sender EXCEPT ![s] = NextTry(s)] /\ unsettled' = unsettled \cup {q}
  <2>1. OutboxTypeOK'
    BY <1>1, <1>2, <1>4, NextTryForms DEF OutboxInv, OutboxTypeOK
  <2>2. /\ \/ sender'[s].pc = "idle"
           \/ sender'[s].pc = "posting" /\ sender'[s].key = q
        /\ \A t \in Senders : t # s => sender'[t] = sender[t]
    BY <1>1, <1>4, NextTryForms DEF OutboxInv, OutboxTypeOK, IdleSender
  <2>3. ASSUME NEW k \in OutKeys PROVE Calls(k)' /\ Delivered(k)'
    BY <1>1, <1>2, <1>4, <2>2 DEF OutboxInv, OutboxTypeOK, Calls, Delivered, Busy, Plain
  <2> QED
    BY <2>1, <2>3 DEF OutboxInv
<1> QED
  BY <1>3, <1>4 DEF GraphAccepts

LEMMA StoreStep ==
    ASSUME OutboxInv, NEW s \in Senders, StoreKey(s)
    PROVE  OutboxInv'
<1> DEFINE q == sender[s].key
<1>1. q \in OutKeys
  BY SenderForms DEF StoreKey, OutboxInv, IdleSender
<1>2. OutboxTypeOK'
  BY <1>1 DEF StoreKey, OutboxInv, OutboxTypeOK
<1>3. sender'[s] = IdleSender /\ \A t \in Senders : t # s => sender'[t] = sender[t]
  BY DEF StoreKey, OutboxInv, OutboxTypeOK
<1>4. ASSUME NEW k \in OutKeys PROVE Calls(k)' /\ Delivered(k)'
  BY <1>1, <1>3 DEF StoreKey, OutboxInv, Calls, Delivered, Busy, Plain, IdleSender
<1> QED
  BY <1>2, <1>4 DEF OutboxInv

LEMMA CutStep ==
    ASSUME OutboxInv, NEW s \in Senders, SendCut(s)
    PROVE  OutboxInv'
<1>1. sender[s].key \in OutKeys
  BY SenderForms DEF SendCut, OutboxInv, IdleSender
<1>2. OutboxTypeOK'
  BY <1>1 DEF SendCut, OutboxInv, OutboxTypeOK
<1>3. sender'[s] = IdleSender /\ \A t \in Senders : t # s => sender'[t] = sender[t]
  BY DEF SendCut, OutboxInv, OutboxTypeOK
<1>4. ASSUME NEW k \in OutKeys PROVE Calls(k)' /\ Delivered(k)'
  BY <1>1, <1>3 DEF SendCut, OutboxInv, Calls, Delivered, Busy, Plain, IdleSender
<1> QED
  BY <1>2, <1>4 DEF OutboxInv

LEMMA NextOutboxInv == OutboxInv /\ [OutboxNext]_outboxVars => OutboxInv'
<1> SUFFICES ASSUME OutboxInv, [OutboxNext]_outboxVars PROVE OutboxInv'
  OBVIOUS
<1>1. CASE UNCHANGED outboxVars
  BY <1>1 DEF outboxVars, OutboxInv, OutboxTypeOK, Calls, Delivered, Busy, Plain
<1>2. ASSUME NEW s \in Senders, GraphRefuses(s) PROVE OutboxInv'
  BY <1>2, QuietStep DEF GraphRefuses
<1> QED
  BY <1>1, <1>2, LookupStep, AcceptStep, StoreStep, CutStep DEF OutboxNext

\* A message is delivered once, unless an answer or its storing was lost or two calls sent it at
\* once, and a caller is told that it was sent only if it was (whatsapp's send and GraphClient).
THEOREM DeliveredOnceHolds == OutboxSpec => []DeliveredOnce
<1>1. OutboxInv => DeliveredOnce
  BY DEF OutboxInv, Delivered, DeliveredOnce
<1> QED
  BY <1>1, InitOutboxInv, NextOutboxInv, PTL DEF OutboxSpec

-----------------------------------------------------------------------------
(* Access *)

(***************************************************************************)
(* What a chain of calls may do is decided by its last hop alone, whatever *)
(* principal it claims: the gateway of the staff is no service's receiver, *)
(* so that no chain from elsewhere passes it (Arrived), and the tables of  *)
(* callers and ceilings do the rest.                                       *)
(***************************************************************************)
Arrived ==
    /\ context.receiver \in ALL_SERVICES
    /\ context.route \in Routes(context.receiver)
    /\ context.caller \in internal_caller(context.receiver, context.route)
    /\ context.from # "staff" => context.caller # "api-gateway-admin"

AccessInv ==
    /\ fallen \in SAMIIR_SIDE \cup {"none"}
    /\ context # NoContext => Arrived

LEMMA CallersOfRoutes ==
    ASSUME NEW receiver \in ALL_SERVICES, NEW route \in Routes(receiver),
           NEW caller \in internal_caller(receiver, route)
    PROVE  /\ receiver # "api-gateway-admin"
           /\ route = "staff" => caller = "api-gateway-admin"
           /\ receiver \in FATMA_SIDE /\ caller # "api-gateway-admin" =>
                \/ caller \in FATMA_SIDE
                \/ caller = "api-gateway-public" /\ route = "ingest"
           /\ receiver = "fatma-soc" /\ caller # "api-gateway-admin" =>
                caller \in {"security-ingest", "scanner-controller"}
<1>1. caller \in AcceptedCallers(receiver)
  BY DEF internal_caller
<1>2. receiver # "api-gateway-admin"
  BY <1>1 DEF AcceptedCallers
<1>3. route = "staff" => caller = "api-gateway-admin"
  BY DEF internal_caller
<1>4. CASE receiver = "fatma-soc"
  <2>1. caller \in {"api-gateway-admin", "security-ingest", "scanner-controller"}
    BY <1>1, <1>4 DEF AcceptedCallers
  <2> QED
    BY <1>2, <1>3, <2>1 DEF FATMA_SIDE
<1>5. CASE receiver = "security-ingest"
  <2>1. route \in {"ingest", "staff"}
    BY <1>5 DEF Routes
  <2>2. route = "ingest" => caller = "api-gateway-public"
    BY DEF internal_caller
  <2> QED
    BY <1>3, <1>5, <2>1, <2>2
<1>6. CASE receiver = "scanner-controller"
  <2>1. route = "staff"
    BY <1>6 DEF Routes
  <2> QED
    BY <1>3, <1>6, <2>1
<1>7. CASE receiver = "approvals"
  <2>1. caller \in {"api-gateway-admin", "fatma-soc", "scanner-controller"}
    BY <1>1, <1>7 DEF AcceptedCallers
  <2> QED
    BY <1>3, <1>7, <2>1 DEF FATMA_SIDE
<1>8. CASE receiver \notin FATMA_SIDE
  BY <1>2, <1>3, <1>8 DEF FATMA_SIDE
<1> QED
  BY <1>4, <1>5, <1>6, <1>7, <1>8 DEF FATMA_SIDE

LEMMA CeilingOutsideStaff ==
    ASSUME NEW caller, caller # "api-gateway-admin"
    PROVE  ceiling_for(caller) \subseteq AllCustomer \cup {"internal:execute"}
BY Zenon DEF ceiling_for

LEMMA ToolsOfReceiver ==
    ASSUME AuthorizedTools(context) \cap DOMAIN FatmaTools # {}
    PROVE  context.receiver = "fatma-soc" /\ ~is_customer(context)
<1>1. DOMAIN SamiirTools \cap DOMAIN FatmaTools = {}
  BY DEF SamiirTools, FatmaTools
<1>2. CASE context.receiver = "samiir-agent"
  <2>1. AuthorizedTools(context) \subseteq DOMAIN SamiirTools
    BY <1>2 DEF AuthorizedTools
  <2> QED
    BY <1>1, <2>1
<1>3. CASE context.receiver # "samiir-agent" /\ ~(context.receiver = "fatma-soc" /\ ~is_customer(context))
  <2>1. AuthorizedTools(context) = {}
    BY <1>3 DEF AuthorizedTools
  <2> QED
    BY <2>1
<1> QED
  BY <1>2, <1>3

LEMMA ArrivedApart == AccessInv => SidesApart
<1> SUFFICES ASSUME AccessInv, context # NoContext, context.from # "staff"
             PROVE  /\ Allowed(context) \subseteq AllCustomer \cup {"internal:execute"}
                    /\ context.route # "staff"
                    /\ context.receiver \in FATMA_SIDE =>
                         \/ context.caller \in FATMA_SIDE
                         \/ context.caller = "api-gateway-public" /\ context.route = "ingest"
                    /\ AuthorizedTools(context) \cap DOMAIN FatmaTools # {} =>
                         /\ context.caller \in {"security-ingest", "scanner-controller"}
                         /\ ~is_customer(context)
  BY DEF SidesApart
<1>1. Arrived /\ context.caller # "api-gateway-admin"
  BY DEF AccessInv, Arrived
<1>2. Allowed(context) \subseteq ceiling_for(context.caller)
  BY DEF Allowed, effective_permissions
<1>3. Allowed(context) \subseteq AllCustomer \cup {"internal:execute"}
  BY <1>1, <1>2, CeilingOutsideStaff
<1> QED
  BY <1>1, <1>3, CallersOfRoutes, ToolsOfReceiver DEF Arrived

LEMMA ArriveKeeps ==
    ASSUME AccessInv, NEW from, NEW caller, NEW p, Arrive(from, caller, p),
           from # "staff" => caller # "api-gateway-admin"
    PROVE  AccessInv'
<1>1. PICK receiver \in ALL_SERVICES : \E route \in Routes(receiver) :
         /\ caller \in internal_caller(receiver, route)
         /\ context' = Context(from, caller, receiver, route, p)
         /\ UNCHANGED fallen
  BY DEF Arrive
<1>2. PICK route \in Routes(receiver) :
         /\ caller \in internal_caller(receiver, route)
         /\ context' = Context(from, caller, receiver, route, p)
         /\ UNCHANGED fallen
  BY <1>1
<1>3. /\ context'.receiver = receiver /\ context'.route = route
      /\ context'.caller = caller /\ context'.from = from
  BY <1>2 DEF Context
<1>4. Arrived'
  BY <1>2, <1>3 DEF Arrived
<1> QED
  BY <1>2, <1>4 DEF AccessInv

LEMMA AccessStepKeeps == AccessInv /\ [AccessNext]_accessVars => AccessInv'
<1> SUFFICES ASSUME AccessInv, [AccessNext]_accessVars PROVE AccessInv'
  OBVIOUS
<1>1. CASE UNCHANGED accessVars
  BY <1>1 DEF accessVars, AccessInv, Arrived
<1>2. CASE PublicRequest
  BY <1>2, ArriveKeeps DEF PublicRequest
<1>3. CASE StaffRequest
  BY <1>3, ArriveKeeps DEF StaffRequest
<1>4. CASE CallOn
  <2>1. PICK p : Arrive(context.from, context.receiver, p)
    BY <1>4 DEF CallOn
  <2>2. context.receiver # "api-gateway-admin"
    BY <1>4, CallersOfRoutes DEF CallOn, AccessInv, Arrived
  <2> QED
    BY <2>1, <2>2, ArriveKeeps
<1>5. CASE Forge
  <2>1. PICK p : Arrive("fallen", fallen, p)
    BY <1>5 DEF Forge
  <2>2. fallen # "api-gateway-admin"
    BY <1>5 DEF Forge, AccessInv, SAMIIR_SIDE
  <2> QED
    BY <2>1, <2>2, ArriveKeeps
<1> QED
  BY <1>1, <1>2, <1>3, <1>4, <1>5 DEF AccessNext

\* Whatever roles a visitor or a fallen service of the customers' side claims, and however long the
\* chain of calls, it exercises no permission of staff, reaches no route for staff, and the security
\* side only as events (internal_caller, ceiling_for and authorize_tool).
THEOREM SidesApartAlways == AccessSpec => []SidesApart
<1>1. AccessInit => AccessInv
  BY DEF AccessInit, AccessInv
<1>2. AccessInv /\ [AccessNext]_accessVars => AccessInv'
  BY AccessStepKeeps
<1>3. AccessInv => SidesApart
  BY ArrivedApart
<1> QED
  BY <1>1, <1>2, <1>3, PTL DEF AccessSpec
=============================================================================
