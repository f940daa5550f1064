-------------------------- MODULE Approvals_proofs --------------------------
(***************************************************************************)
(* Safety of the approval service for every set of requests, users,        *)
(* payloads and concurrent transactions, every policy and every clock.     *)
(*                                                                         *)
(* None of the properties is inductive alone.  OpenTxns adds what the      *)
(* handlers checked before they wait for their commit (the row exists, the *)
(* approver is not the requester); Sound adds, for each row, that an       *)
(* undecided request was never granted and that one no stale decision hit  *)
(* was granted at most once; Agreed, that the sweeper's last pass left     *)
(* nothing open that it met expired.  With these, every commit leaves      *)
(* every property true, stale or not.                                      *)
(***************************************************************************)
EXTENDS Approvals, TLAPS

\* What the open transactions hold has passed their handlers' checks.
OpenTxns ==
    \A s \in Sessions :
        /\ txn[s].kind # "idle" => txn[s].id \in Requests /\ row[txn[s].id].status # "ABSENT"
        /\ txn[s].kind = "decide" => /\ txn[s].verdict \in {"APPROVED", "REJECTED"}
                                     /\ txn[s].by \in Humans
                                     /\ txn[s].by # row[txn[s].id].requestedBy
        /\ txn[s].kind = "cancel" => txn[s].verdict = "CANCELLED"

\* A row q, granted g times and redeemed d times.
Sound(q, g, d) ==
    /\ q.status # "ABSENT" => q.payload \in Payloads /\ q.requestedBy \in Requesters
    /\ q.status \in {"APPROVED", "EXECUTED"} =>
         /\ q.approvedBy \in Approvers
         /\ q.approvedBy # q.requestedBy
         /\ q.approvedBy = PolicyActor => q.payload \in LowRisk
         /\ q.signature = Sign(q, q.approvedBy)
    /\ d + (IF q.status = "APPROVED" THEN 1 ELSE 0) <= g
    /\ q.status \in {"ABSENT", "PENDING"} => g = 0

\* A request that no stale decision hit was granted at most once.
GrantedOnce == \A r \in Requests : r \notin overwritten => granted[r] <= 1

\* Row q, redeemed d times, after a pass of the sweeper with clock c.
Settled(q, d, c) ==
    /\ q.status \in {"PENDING", "APPROVED"} => q.expiresAt > c
    /\ q.status = "EXECUTED" <=> d = 1

\* The sweeper's last pass lies behind, and the rest agrees with it.
Agreed ==
    /\ swept <= now
    /\ \A r \in Requests \ overwritten : Settled(row[r], redeemed[r], swept)

\* The inductive invariant.
IInv ==
    /\ TypeOK
    /\ OpenTxns
    /\ GrantedOnce
    /\ Agreed
    /\ \A r \in Requests : Sound(row[r], granted[r], redeemed[r])

-----------------------------------------------------------------------------
(* What the operations leave of one row *)

LEMMA NoRowTyped == NoRow \in Row
BY DEF NoRow, Row, Status

LEMMA IdleTyped == Idle \in Txn
BY DEF Idle, Txn

LEMMA NewRowTyped ==
    ASSUME TypeOK, NEW p \in Payloads, NEW u \in Requesters
    PROVE  /\ NewRow(p, u) \in Row
           /\ NewRow(p, u).status = "PENDING"
           /\ NewRow(p, u).payload = p
           /\ NewRow(p, u).requestedBy = u
           /\ NewRow(p, u).expiresAt > now
BY PolicyAssumption DEF NewRow, Row, Status, TypeOK

LEMMA ApprovedTyped ==
    ASSUME NEW q \in Row, NEW a \in Approvers, q.payload \in Payloads
    PROVE  /\ Approved(q, a) \in Row
           /\ Approved(q, a).status = "APPROVED"
           /\ Approved(q, a).payload = q.payload
           /\ Approved(q, a).requestedBy = q.requestedBy
           /\ Approved(q, a).expiresAt = q.expiresAt
           /\ Approved(q, a).approvedBy = a
           /\ Approved(q, a).signature = Sign(Approved(q, a), a)
BY DEF Approved, Sign, Row, Status, Signature, Approvers

\* A row that leaves the redeemable states stays sound.
LEMMA ClosedSound ==
    ASSUME NEW q \in Row, NEW p \in Row, NEW g \in Nat, NEW d \in Nat,
           Sound(q, g, d), q.status # "ABSENT",
           p.status \in {"REJECTED", "EXPIRED", "CANCELLED"},
           p.payload = q.payload, p.requestedBy = q.requestedBy,
           p.expiresAt = q.expiresAt
    PROVE  Sound(p, g, d)
BY DEF Sound

-----------------------------------------------------------------------------
(* Steps that leave every row alone *)

LEMMA QuietStep ==
    ASSUME IInv, UNCHANGED <<row, granted, redeemed, overwritten, swept>>, now <= now',
           TypeOK', OpenTxns'
    PROVE  IInv'
<1>1. Agreed'
  BY DEF IInv, TypeOK, Agreed
<1> QED
  BY <1>1 DEF IInv, GrantedOnce

\* The open transactions stay checked while rows are neither deleted nor given to another.
LEMMA OpenTxnsStable ==
    ASSUME OpenTxns,
           \A s \in Sessions : txn'[s] = txn[s] \/ txn'[s] = Idle,
           \A r \in Requests : row[r].status # "ABSENT" =>
               row'[r].status # "ABSENT" /\ row'[r].requestedBy = row[r].requestedBy
    PROVE  OpenTxns'
<1> SUFFICES ASSUME NEW s \in Sessions
             PROVE  OpenTxns!(s)'
  BY DEF OpenTxns
<1>1. CASE txn'[s] = Idle
  BY <1>1 DEF Idle
<1>2. CASE txn'[s] = txn[s]
  BY <1>2 DEF OpenTxns
<1> QED
  BY <1>1, <1>2

LEMMA TickStep == ASSUME IInv, Tick PROVE IInv'
<1>1. TypeOK'
  BY DEF IInv, TypeOK, Tick
<1>2. OpenTxns'
  BY DEF IInv, Tick, OpenTxns
<1> QED
  BY <1>1, <1>2, QuietStep DEF Tick, IInv, TypeOK

LEMMA ChangeSettingsStep ==
    ASSUME IInv, NEW P \in SUBSET LowRisk, ChangeSettings(P) PROVE IInv'
<1>1. TypeOK'
  BY DEF IInv, TypeOK, ChangeSettings
<1>2. OpenTxns'
  BY DEF IInv, ChangeSettings, OpenTxns
<1> QED
  BY <1>1, <1>2, QuietStep DEF ChangeSettings, IInv, TypeOK

\* A transaction opens with what its handler has checked.
LEMMA DecideReadStep ==
    ASSUME IInv, NEW s \in Sessions, NEW r \in Requests, NEW u \in Humans, NEW p \in Payloads,
           NEW v \in {"APPROVED", "REJECTED"}, DecideRead(s, r, u, p, v)
    PROVE  IInv'
<1>1. TypeOK'
  BY DEF IInv, TypeOK, DecideRead, Open, Txn
<1>2. OpenTxns'
  BY DEF IInv, TypeOK, DecideRead, Open, OpenTxns
<1> QED
  BY <1>1, <1>2, QuietStep DEF DecideRead, Open, IInv, TypeOK

LEMMA CancelReadStep ==
    ASSUME IInv, NEW s \in Sessions, NEW r \in Requests, NEW u \in Humans, CancelRead(s, r, u)
    PROVE  IInv'
<1>1. TypeOK'
  BY DEF IInv, TypeOK, CancelRead, Open, Txn
<1>2. OpenTxns'
  BY DEF IInv, TypeOK, CancelRead, Open, OpenTxns
<1> QED
  BY <1>1, <1>2, QuietStep DEF CancelRead, Open, IInv, TypeOK

LEMMA ConsumeReadStep ==
    ASSUME IInv, NEW s \in Sessions, NEW r \in Requests, NEW p \in Payloads,
           ConsumeRead(s, r, p)
    PROVE  IInv'
<1>1. TypeOK'
  BY DEF IInv, TypeOK, ConsumeRead, Open, Txn
<1>2. OpenTxns'
  BY DEF IInv, TypeOK, ConsumeRead, Open, OpenTxns
<1> QED
  BY <1>1, <1>2, QuietStep DEF ConsumeRead, Open, IInv, TypeOK

LEMMA RollbackStep == ASSUME IInv, NEW s \in Sessions, Rollback(s) PROVE IInv'
<1>1. TypeOK'
  BY IdleTyped DEF IInv, TypeOK, Rollback
<1>2. OpenTxns'
  BY OpenTxnsStable DEF IInv, TypeOK, Rollback
<1> QED
  BY <1>1, <1>2, QuietStep DEF Rollback, IInv, TypeOK

-----------------------------------------------------------------------------
(* Steps that write rows *)

\* Row r becomes q; it is settled, or a stale decision has hit it.
LEMMA AgreedStable ==
    ASSUME IInv, NEW r \in Requests, NEW q, NEW d,
           row' = [row EXCEPT ![r] = q], redeemed' = [redeemed EXCEPT ![r] = d],
           UNCHANGED <<now, swept>>, overwritten \subseteq overwritten',
           r \notin overwritten' => Settled(q, d, swept)
    PROVE  Agreed'
<1> SUFFICES ASSUME NEW x \in Requests \ overwritten'
             PROVE  Settled(row'[x], redeemed'[x], swept)
  BY DEF IInv, Agreed
<1>1. CASE x = r
  BY <1>1 DEF IInv, TypeOK
<1>2. CASE x # r
  BY <1>2 DEF IInv, TypeOK, Agreed
<1> QED
  BY <1>1, <1>2

LEMMA CreateStep ==
    ASSUME IInv, NEW r \in Requests, NEW p \in Payloads, NEW u \in Requesters, Create(r, p, u)
    PROVE  IInv'
<1> DEFINE q == NewRow(p, u)
<1>1. /\ q \in Row /\ q.status = "PENDING" /\ q.payload = p
      /\ q.requestedBy = u /\ q.expiresAt > now
  BY NewRowTyped DEF IInv
<1> HIDE DEF q
<1>2. row' = [row EXCEPT ![r] = q] /\ row[r].status = "ABSENT"
  BY DEF Create, q
<1>3. TypeOK'
  BY <1>1, <1>2 DEF IInv, TypeOK, Create
<1>4. OpenTxns'
  <2>1. \A x \in Requests : row[x].status # "ABSENT" => row'[x] = row[x]
    BY <1>2 DEF IInv, TypeOK
  <2> QED
    BY <2>1, OpenTxnsStable DEF IInv, Create
<1>5. Sound(q, granted[r], redeemed[r])
  BY <1>1, <1>2 DEF IInv, TypeOK, Sound
<1>6. \A x \in Requests : Sound(row'[x], granted[x], redeemed[x])
  BY <1>2, <1>5 DEF IInv, TypeOK
<1>7. Agreed'
  <2>1. swept \in Nat /\ now \in Nat /\ swept <= now /\ q.expiresAt \in Nat
    BY <1>1 DEF IInv, TypeOK, Agreed, Row
  <2>2. redeemed[r] = 0 /\ redeemed = [redeemed EXCEPT ![r] = redeemed[r]]
    BY <1>2 DEF IInv, TypeOK, Sound
  <2>3. Settled(q, redeemed[r], swept)
    BY <1>1, <2>1, <2>2 DEF Settled
  <2> QED
    BY <1>2, <2>2, <2>3, AgreedStable DEF Create
<1> QED
  BY <1>3, <1>4, <1>6, <1>7 DEF IInv, Create, GrantedOnce

LEMMA PreapproveStep ==
    ASSUME IInv, NEW r \in Requests, NEW p \in Payloads, Preapprove(r, p)
    PROVE  IInv'
<1> DEFINE n == NewRow(p, Agent)
           q == Approved(n, PolicyActor)
<1>1. n \in Row /\ n.payload = p /\ n.requestedBy = Agent /\ n.expiresAt > now
  BY NewRowTyped DEF IInv, Requesters
<1> HIDE DEF n
<1>2. /\ q \in Row /\ q.status = "APPROVED" /\ q.payload = p /\ q.requestedBy = Agent
      /\ q.expiresAt > now /\ q.approvedBy = PolicyActor
      /\ q.signature = Sign(q, PolicyActor)
  BY <1>1, ApprovedTyped DEF Approvers
<1> HIDE DEF q
<1>3. /\ row' = [row EXCEPT ![r] = q] /\ row[r].status = "ABSENT"
      /\ granted' = [granted EXCEPT ![r] = granted[r] + 1] /\ p \in LowRisk
  BY DEF Preapprove, q, n, IInv, TypeOK
<1>4. TypeOK'
  BY <1>2, <1>3 DEF IInv, TypeOK, Preapprove
<1>5. OpenTxns'
  <2>1. \A x \in Requests : row[x].status # "ABSENT" => row'[x] = row[x]
    BY <1>3 DEF IInv, TypeOK
  <2> QED
    BY <2>1, OpenTxnsStable DEF IInv, Preapprove
<1>6. granted[r] = 0 /\ redeemed[r] = 0
  BY <1>3 DEF IInv, TypeOK, Sound
<1>7. GrantedOnce'
  BY <1>3, <1>6 DEF IInv, TypeOK, GrantedOnce, Preapprove
<1>8. Sound(q, 1, 0)
  BY <1>2, <1>3, ActorAssumption DEF Sound, Approvers, Requesters
<1>9. \A x \in Requests : Sound(row'[x], granted'[x], redeemed[x])
  BY <1>3, <1>6, <1>8 DEF IInv, TypeOK
<1>10. Agreed'
  <2>1. swept \in Nat /\ now \in Nat /\ swept <= now /\ q.expiresAt \in Nat
    BY <1>2 DEF IInv, TypeOK, Agreed, Row
  <2>2. redeemed = [redeemed EXCEPT ![r] = redeemed[r]]
    BY DEF IInv, TypeOK
  <2>3. Settled(q, redeemed[r], swept)
    BY <1>2, <1>6, <2>1 DEF Settled
  <2> QED
    BY <1>3, <2>2, <2>3, AgreedStable DEF Preapprove
<1> QED
  BY <1>4, <1>5, <1>7, <1>9, <1>10 DEF IInv, Preapprove

\* The commit of a decision, by verdict.  The handler's checks still bind the approver to
\* the row, whatever status the row has reached in the meantime.
LEMMA CommitDecisionStep == ASSUME IInv, NEW s \in Sessions, CommitDecision(s) PROVE IInv'
<1> DEFINE r == txn[s].id
           v == txn[s].verdict
           u == txn[s].by
           q == row'[r]
<1>1. /\ r \in Requests /\ row[r] \in Row /\ row[r].status # "ABSENT"
      /\ row[r].payload \in Payloads
      /\ granted[r] \in Nat /\ redeemed[r] \in Nat
      /\ Sound(row[r], granted[r], redeemed[r])
  BY DEF IInv, TypeOK, OpenTxns, CommitDecision, Sound
<1>2. \/ v = "APPROVED" /\ u \in Humans /\ u # row[r].requestedBy
      \/ v = "REJECTED" /\ u \in Humans
      \/ v = "CANCELLED"
  BY DEF IInv, OpenTxns, CommitDecision
<1>3. /\ q \in Row /\ q.status \notin {"ABSENT", "EXECUTED"}
      /\ q.requestedBy = row[r].requestedBy /\ q.expiresAt = row[r].expiresAt
  <2>1. CASE v = "APPROVED"
    <3>1. q = Approved(row[r], u)
      BY <1>1, <2>1 DEF CommitDecision, IInv, TypeOK
    <3> QED
      BY <1>1, <1>2, <2>1, <3>1, ApprovedTyped DEF Approvers
  <2>2. CASE v = "REJECTED"
    <3>1. q = [row[r] EXCEPT !.status = "REJECTED", !.approvedBy = u]
      BY <1>1, <2>2 DEF CommitDecision, IInv, TypeOK
    <3> QED
      BY <1>1, <1>2, <2>2, <3>1 DEF Row, Status, Approvers
  <2>3. CASE v = "CANCELLED"
    <3>1. q = [row[r] EXCEPT !.status = "CANCELLED"]
      BY <1>1, <2>3 DEF CommitDecision, IInv, TypeOK
    <3> QED
      BY <1>1, <3>1 DEF Row, Status
  <2> QED
    BY <1>2, <2>1, <2>2, <2>3
<1>4. Sound(q, granted'[r], redeemed[r])
  <2>1. CASE v = "APPROVED"
    <3>1. q = Approved(row[r], u) /\ granted'[r] = granted[r] + 1
      BY <1>1, <2>1 DEF CommitDecision, IInv, TypeOK
    <3>2. q.status = "APPROVED" /\ q.payload \in Payloads /\ q.approvedBy = u
          /\ q.signature = Sign(q, u) /\ q.requestedBy = row[r].requestedBy
          /\ q.expiresAt = row[r].expiresAt
      BY <1>1, <1>2, <2>1, <3>1, ApprovedTyped DEF Approvers
    <3>3. u # PolicyActor /\ u \in Approvers /\ u # q.requestedBy
      BY <1>2, <2>1, <3>2, ActorAssumption DEF Approvers
    <3>4. redeemed[r] + 1 <= granted'[r]
      BY <1>1, <3>1 DEF Sound
    <3>5. q.requestedBy \in Requesters
      BY <1>1, <3>2 DEF Sound
    <3> QED
      BY <3>2, <3>3, <3>4, <3>5 DEF Sound
  <2>2. CASE v = "REJECTED"
    <3>1. q = [row[r] EXCEPT !.status = "REJECTED", !.approvedBy = u]
      BY <1>1, <2>2 DEF CommitDecision, IInv, TypeOK
    <3>2. granted'[r] = granted[r]
      BY <1>1, <2>2 DEF CommitDecision, IInv, TypeOK
    <3>3. /\ q.status = "REJECTED" /\ q.payload = row[r].payload
          /\ q.requestedBy = row[r].requestedBy /\ q.expiresAt = row[r].expiresAt
      BY <1>1, <3>1 DEF Row
    <3> QED
      BY <1>1, <1>3, <3>2, <3>3, ClosedSound
  <2>3. CASE v = "CANCELLED"
    <3>1. q = [row[r] EXCEPT !.status = "CANCELLED"]
      BY <1>1, <2>3 DEF CommitDecision, IInv, TypeOK
    <3>2. granted'[r] = granted[r]
      BY <1>1, <2>3 DEF CommitDecision, IInv, TypeOK
    <3>3. /\ q.status = "CANCELLED" /\ q.payload = row[r].payload
          /\ q.requestedBy = row[r].requestedBy /\ q.expiresAt = row[r].expiresAt
      BY <1>1, <3>1 DEF Row
    <3> QED
      BY <1>1, <1>3, <3>2, <3>3, ClosedSound
  <2> QED
    BY <1>2, <2>1, <2>2, <2>3
<1>5. \A x \in Requests : x # r => row'[x] = row[x] /\ granted'[x] = granted[x]
  BY <1>1 DEF CommitDecision, IInv, TypeOK
<1>6. \A x \in Requests : Sound(row'[x], granted'[x], redeemed[x])
  <2> TAKE x \in Requests
  <2>1. CASE x = r
    BY <1>4, <2>1
  <2>2. CASE x # r
    BY <1>5, <2>2 DEF IInv
  <2> QED
    BY <2>1, <2>2
<1>7. TypeOK'
  <2>1. row' \in [Requests -> Row]
    <3>1. \A x \in Requests : row'[x] \in Row
      BY <1>3, <1>5 DEF IInv, TypeOK
    <3>2. \E f : row' = [row EXCEPT ![r] = f]
      BY DEF CommitDecision
    <3>3. PICK f : row' = [row EXCEPT ![r] = f]
      BY <3>2
    <3> QED
      BY <1>1, <3>1, <3>3 DEF IInv, TypeOK
  <2>2. granted' \in [Requests -> Nat] /\ overwritten' \subseteq Requests
    BY <1>1 DEF CommitDecision, IInv, TypeOK
  <2>3. txn' \in [Sessions -> Txn]
    BY IdleTyped DEF CommitDecision, IInv, TypeOK
  <2> QED
    BY <2>1, <2>2, <2>3 DEF CommitDecision, IInv, TypeOK
<1>8. OpenTxns'
  <2>1. \A x \in Requests : row[x].status # "ABSENT" =>
            row'[x].status # "ABSENT" /\ row'[x].requestedBy = row[x].requestedBy
    BY <1>3, <1>5
  <2>2. \A x \in Sessions : txn'[x] = txn[x] \/ txn'[x] = Idle
    BY DEF CommitDecision, IInv, TypeOK
  <2> QED
    BY <2>1, <2>2, OpenTxnsStable DEF IInv
<1>9. GrantedOnce'
  <2>1. row[r].status = "PENDING" => granted[r] = 0
    BY <1>1 DEF Sound
  <2>2. granted'[r] <= granted[r] + 1 /\ overwritten \subseteq overwritten'
    BY <1>1 DEF CommitDecision, IInv, TypeOK
  <2>3. row[r].status # "PENDING" => r \in overwritten'
    BY DEF CommitDecision
  <2> QED
    BY <1>1, <1>5, <1>7, <2>1, <2>2, <2>3 DEF IInv, TypeOK, GrantedOnce
<1>10. Agreed'
  <2>1. /\ UNCHANGED <<now, swept, redeemed>> /\ overwritten \subseteq overwritten'
        /\ redeemed = [redeemed EXCEPT ![r] = redeemed[r]]
    BY DEF CommitDecision, IInv, TypeOK
  <2>2. ASSUME r \notin overwritten' PROVE Settled(q, redeemed[r], swept)
    <3>1. row[r].status = "PENDING" /\ r \notin overwritten
      BY <2>2 DEF CommitDecision
    <3>2. row[r].expiresAt > swept /\ redeemed[r] = 0
      BY <1>1, <3>1 DEF IInv, Agreed, Settled, Sound
    <3> QED
      BY <1>3, <3>2 DEF Settled
  <2>3. PICK f : row' = [row EXCEPT ![r] = f]
    BY DEF CommitDecision
  <2>4. row'[r] = f
    BY <1>1, <2>3 DEF IInv, TypeOK
  <2> HIDE DEF r
  <2> QED
    BY <1>1, <2>1, <2>2, <2>3, <2>4, AgreedStable
<1> QED
  BY <1>6, <1>7, <1>8, <1>9, <1>10 DEF IInv, CommitDecision

LEMMA RedeemStep == ASSUME IInv, NEW s \in Sessions, Redeem(s) PROVE IInv'
<1> DEFINE r == txn[s].id
           q == [row[r] EXCEPT !.status = "EXECUTED", !.consumedAt = txn[s].began]
<1>1. /\ r \in Requests /\ row[r] \in Row /\ row[r].status = "APPROVED"
      /\ row[r].expiresAt > txn[s].began /\ txn[s].began \in Nat
      /\ granted[r] \in Nat /\ redeemed[r] \in Nat
      /\ Sound(row[r], granted[r], redeemed[r])
  BY DEF IInv, TypeOK, OpenTxns, Redeem, Redeemable, Txn
<1>2. /\ row' = [row EXCEPT ![r] = q]
      /\ redeemed' = [redeemed EXCEPT ![r] = redeemed[r] + 1]
  BY DEF Redeem
<1>3. /\ q \in Row /\ q.status = "EXECUTED"
      /\ q.payload = row[r].payload /\ q.requestedBy = row[r].requestedBy
      /\ q.expiresAt = row[r].expiresAt /\ q.approvedBy = row[r].approvedBy
      /\ q.signature = row[r].signature
  BY <1>1 DEF Row, Status
<1> HIDE DEF q
<1>4. Sound(q, granted[r], redeemed[r] + 1)
  BY <1>1, <1>3 DEF Sound, Sign, Row
<1>5. \A x \in Requests : Sound(row'[x], granted[x], redeemed'[x])
  BY <1>2, <1>4 DEF IInv, TypeOK
<1>6. TypeOK'
  BY <1>1, <1>2, <1>3, IdleTyped DEF Redeem, IInv, TypeOK
<1>7. OpenTxns'
  <2>1. \A x \in Requests : row[x].status # "ABSENT" =>
            row'[x].status # "ABSENT" /\ row'[x].requestedBy = row[x].requestedBy
    BY <1>2, <1>3 DEF IInv, TypeOK
  <2>2. \A x \in Sessions : txn'[x] = txn[x] \/ txn'[x] = Idle
    BY DEF Redeem, IInv, TypeOK
  <2> QED
    BY <2>1, <2>2, OpenTxnsStable DEF IInv
<1>8. Agreed'
  <2>1. ASSUME r \notin overwritten PROVE redeemed[r] + 1 = 1
    BY <1>1, <2>1 DEF IInv, GrantedOnce, Sound
  <2>2. r \notin overwritten' => Settled(q, redeemed[r] + 1, swept)
    BY <1>3, <2>1 DEF Settled, Redeem
  <2> QED
    BY <1>1, <1>2, <2>2, AgreedStable DEF Redeem
<1> QED
  BY <1>5, <1>6, <1>7, <1>8 DEF IInv, Redeem, GrantedOnce

LEMMA SweepStep == ASSUME IInv, Sweep PROVE IInv'
<1>1. ASSUME NEW x \in Requests
      PROVE  /\ row'[x] \in Row
             /\ row'[x].requestedBy = row[x].requestedBy
             /\ row[x].status # "ABSENT" => row'[x].status # "ABSENT"
             /\ Sound(row'[x], granted[x], redeemed[x])
  <2>1. /\ row[x] \in Row /\ granted[x] \in Nat /\ redeemed[x] \in Nat
        /\ Sound(row[x], granted[x], redeemed[x])
    BY DEF IInv, TypeOK
  <2>2. CASE x \notin Overdue
    BY <2>1, <2>2 DEF Sweep
  <2>3. CASE x \in Overdue
    <3> DEFINE q == [row[x] EXCEPT !.status = "EXPIRED"]
    <3>1. row'[x] = q /\ row[x].status # "ABSENT"
      BY <2>3 DEF Sweep, Overdue
    <3>2. /\ q \in Row /\ q.status = "EXPIRED" /\ q.payload = row[x].payload
          /\ q.requestedBy = row[x].requestedBy /\ q.expiresAt = row[x].expiresAt
      BY <2>1 DEF Row, Status
    <3> HIDE DEF q
    <3> QED
      BY <2>1, <3>1, <3>2, ClosedSound
  <2> QED
    BY <2>2, <2>3
<1>2. TypeOK'
  BY <1>1 DEF IInv, TypeOK, Sweep
<1>3. OpenTxns'
  BY <1>1, OpenTxnsStable DEF IInv, Sweep
<1>4. Agreed'
  <2>1. swept' = now /\ now' = now /\ UNCHANGED <<redeemed, overwritten>> /\ now \in Nat
    BY DEF Sweep, IInv, TypeOK
  <2>2. ASSUME NEW x \in Requests \ overwritten PROVE Settled(row'[x], redeemed[x], now)
    <3>1. /\ row[x] \in Row /\ row[x].expiresAt \in Nat /\ granted[x] \in Nat
          /\ redeemed[x] \in Nat /\ granted[x] <= 1
          /\ Sound(row[x], granted[x], redeemed[x]) /\ Settled(row[x], redeemed[x], swept)
      BY DEF IInv, TypeOK, Agreed, GrantedOnce, Row
    <3>2. CASE x \in Overdue
      <4>1. row'[x].status = "EXPIRED" /\ row[x].status \in {"PENDING", "APPROVED"}
        BY <3>1, <3>2 DEF Sweep, Overdue, Row
      <4> QED
        BY <3>1, <4>1 DEF Settled
    <3>3. CASE x \notin Overdue
      BY <2>1, <3>1, <3>3 DEF Sweep, Overdue, Settled
    <3> QED
      BY <3>2, <3>3
  <2> QED
    BY <2>1, <2>2 DEF Agreed
<1> QED
  BY <1>1, <1>2, <1>3, <1>4 DEF IInv, Sweep, GrantedOnce

-----------------------------------------------------------------------------
(* Theorems *)

LEMMA InitIInv == Init => IInv
<1> SUFFICES ASSUME Init PROVE IInv
  OBVIOUS
<1>1. TypeOK
  BY NoRowTyped, IdleTyped, PolicyAssumption DEF Init, TypeOK
<1>2. OpenTxns /\ GrantedOnce /\ Agreed
  BY DEF Init, OpenTxns, GrantedOnce, Idle, Agreed, Settled, NoRow
<1>3. \A r \in Requests : Sound(row[r], granted[r], redeemed[r])
  BY DEF Init, Sound, NoRow
<1> QED
  BY <1>1, <1>2, <1>3 DEF IInv

LEMMA NextIInv == IInv /\ [Next]_vars => IInv'
<1> SUFFICES ASSUME IInv, [Next]_vars PROVE IInv'
  OBVIOUS
<1>1. CASE Next
  BY <1>1, TickStep, SweepStep, ChangeSettingsStep, CreateStep, PreapproveStep, DecideReadStep,
     CancelReadStep, ConsumeReadStep, CommitDecisionStep, RedeemStep, RollbackStep DEF Next
<1>2. CASE UNCHANGED vars
  <2>1. UNCHANGED <<row, granted, redeemed, overwritten, swept>> /\ now <= now'
    BY <1>2 DEF vars, IInv, TypeOK
  <2>2. TypeOK' /\ OpenTxns'
    BY <1>2 DEF vars, IInv, TypeOK, OpenTxns
  <2> QED
    BY <2>1, <2>2, QuietStep
<1> QED
  BY <1>1, <1>2

\* The inductive invariant holds in every reachable state of the service.
THEOREM Invariance == Spec => []IInv
BY InitIInv, NextIInv, PTL DEF Spec

\* Every row, open transaction and history variable keeps its type.
THEOREM TypeCorrect == Spec => []TypeOK
<1>1. IInv => TypeOK
  BY DEF IInv
<1> QED
  BY <1>1, Invariance, PTL

\* Four-eyes: no row that is or was redeemable names its requester as its approver, and none
\* that is not low-risk was approved by the tenant's policy, however decisions race.
THEOREM FourEyesHolds == Spec => []FourEyes
<1>1. IInv => FourEyes
  BY DEF IInv, FourEyes, Sound
<1> QED
  BY <1>1, Invariance, PTL

\* The signature of a redeemable or redeemed row is its recorded approver's, over its terms.
THEOREM SignatureHolds == Spec => []SignatureMatchesApprover
<1>1. IInv => SignatureMatchesApprover
  BY DEF IInv, SignatureMatchesApprover, Sound
<1> QED
  BY <1>1, Invariance, PTL

\* Redemptions never exceed grants, for every number of racing approvers and consumers.
THEOREM Backed == Spec => []RedemptionsBacked
<1>1. IInv => RedemptionsBacked
  BY DEF IInv, RedemptionsBacked, Sound
<1> QED
  BY <1>1, Invariance, PTL

\* An approval is single-use unless a decision landed on a row already decided.
THEOREM SingleUse_NoOverwrite == Spec => []SingleUseUnlessOverwritten
<1>1. IInv => SingleUseUnlessOverwritten
  <2> SUFFICES ASSUME IInv, NEW r \in Requests, r \notin overwritten
               PROVE  granted[r] <= 1 /\ redeemed[r] <= 1
    BY DEF SingleUseUnlessOverwritten
  <2>1. granted[r] <= 1
    BY DEF IInv, GrantedOnce
  <2>2. redeemed[r] <= granted[r] /\ granted[r] \in Nat /\ redeemed[r] \in Nat
    BY DEF IInv, TypeOK, Sound
  <2> QED
    BY <2>1, <2>2
<1> QED
  BY <1>1, Invariance, PTL

-----------------------------------------------------------------------------
(* Steps *)

\* Where row r is not written, or an undecided row is, no outcome is lost.
LEMMA OneRowStep ==
    ASSUME TypeOK, NEW r \in Requests, NEW f, row' = [row EXCEPT ![r] = f],
           row[r].status \notin Final \/ r \in overwritten'
    PROVE  FinalStep
<1> SUFFICES ASSUME NEW x \in Requests, row[x].status \in Final, row'[x].status # row[x].status
             PROVE  x \in overwritten'
  BY DEF FinalStep
<1>1. x = r
  BY DEF TypeOK
<1> QED
  BY <1>1

\* A final outcome changes only where a stale decision is committed over it.
THEOREM FinalHolds == Spec => FinalUnlessOverwritten
<1>1. IInv /\ [Next]_vars => [FinalStep]_vars
  <2> SUFFICES ASSUME IInv, Next PROVE FinalStep
    OBVIOUS
  <2>1. CASE UNCHANGED row
    BY <2>1 DEF FinalStep
  <2>2. ASSUME NEW r \in Requests, NEW p \in Payloads, NEW u \in Requesters, Create(r, p, u)
        PROVE  FinalStep
    BY <2>2, OneRowStep DEF Create, IInv, Final
  <2>3. ASSUME NEW r \in Requests, NEW p \in Payloads, Preapprove(r, p) PROVE FinalStep
    BY <2>3, OneRowStep DEF Preapprove, IInv, Final
  <2>4. ASSUME NEW s \in Sessions, CommitDecision(s) PROVE FinalStep
    <3>1. PICK f : row' = [row EXCEPT ![txn[s].id] = f]
      BY <2>4 DEF CommitDecision
    <3>2. txn[s].id \in Requests
      BY <2>4 DEF CommitDecision, IInv, OpenTxns
    <3>3. row[txn[s].id].status \notin Final \/ txn[s].id \in overwritten'
      BY <2>4 DEF CommitDecision, Final
    <3> QED
      BY <3>1, <3>2, <3>3, OneRowStep DEF IInv
  <2>5. ASSUME NEW s \in Sessions, Redeem(s) PROVE FinalStep
    <3>1. txn[s].id \in Requests /\ row[txn[s].id].status \notin Final
      BY <2>5 DEF Redeem, Redeemable, IInv, OpenTxns, Final
    <3>2. PICK f : row' = [row EXCEPT ![txn[s].id] = f]
      BY <2>5 DEF Redeem
    <3> QED
      BY <3>1, <3>2, OneRowStep DEF IInv
  <2>6. CASE Sweep
    BY <2>6 DEF Sweep, Overdue, FinalStep, Final
  <2> QED
    BY <2>1, <2>2, <2>3, <2>4, <2>5, <2>6
       DEF Next, Tick, ChangeSettings, DecideRead, CancelRead, ConsumeRead, Open, Rollback
<1> QED
  BY <1>1, Invariance, PTL DEF Spec, FinalUnlessOverwritten

\* Consume and the sweeper agree on every request that no stale decision hit: what a pass has met
\* expired is not redeemed any more, and what is redeemed stays executed.
THEOREM OutcomesAgreeHolds == Spec => OutcomesAgree
<1>1. IInv /\ IInv' /\ [Next]_vars => [AgreeStep]_vars
  <2> SUFFICES ASSUME IInv, IInv', Next, NEW r \in Requests \ overwritten'
               PROVE  /\ redeemed'[r] # redeemed[r] => row[r].expiresAt > swept
                      /\ row'[r].status = "EXECUTED" <=> redeemed'[r] = 1
    BY DEF AgreeStep
  <2>1. row'[r].status = "EXECUTED" <=> redeemed'[r] = 1
    BY DEF IInv, Agreed, Settled
  <2>2. CASE UNCHANGED redeemed
    BY <2>1, <2>2
  <2>3. ASSUME NEW s \in Sessions, Redeem(s), redeemed'[r] # redeemed[r]
        PROVE  row[r].expiresAt > swept
    <3>1. txn[s].id = r /\ row[r].status = "APPROVED" /\ r \notin overwritten
      BY <2>3 DEF Redeem, Redeemable, IInv, TypeOK
    <3> QED
      BY <3>1 DEF IInv, Agreed, Settled
  <2> QED
    BY <2>1, <2>2, <2>3
       DEF Next, Tick, Sweep, ChangeSettings, Create, Preapprove, DecideRead, CancelRead,
           ConsumeRead, Open, CommitDecision, Rollback
<1> QED
  BY <1>1, Invariance, PTL DEF Spec, OutcomesAgree

-----------------------------------------------------------------------------
(* Refinement *)

OpenVouchers == {r \in Requests : row[r].status = "APPROVED"}

LEMMA VoidSome ==
    ASSUME NEW R, OpenVouchers' = OpenVouchers \ (OpenVouchers \cap R),
           UNCHANGED <<granted, redeemed>>
    PROVE  V!Next
<1>1. PICK C \in SUBSET Requests : C = OpenVouchers \cap R
  BY DEF OpenVouchers
<1>2. V!Void(C)
  BY <1>1 DEF V!Void, OpenVouchers
<1> QED
  BY <1>2 DEF V!Next

\* Creating and reading touch no voucher; a rejection or cancellation over an approval, or
\* the sweeper, voids; a decision or the tenant's policy grants; the consuming UPDATE redeems.
LEMMA StepRefines == IInv /\ [Next]_vars => [V!Next]_(V!vvars)
<1> SUFFICES ASSUME IInv, [Next]_vars PROVE [V!Next]_(V!vvars)
  OBVIOUS
<1> USE DEF V!vvars
<1>1. CASE UNCHANGED <<row, granted, redeemed>>
  BY <1>1
<1>2. ASSUME NEW r \in Requests, NEW p \in Payloads, NEW u \in Requesters, Create(r, p, u)
      PROVE  [V!Next]_(V!vvars)
  <2>1. NewRow(p, u).status = "PENDING"
    BY NewRowTyped DEF IInv
  <2>2. \A x \in Requests : row'[x].status = "APPROVED" <=> row[x].status = "APPROVED"
    BY <1>2, <2>1 DEF Create, IInv, TypeOK
  <2> QED
    BY <1>2, <2>2 DEF Create
<1>3. ASSUME NEW r \in Requests, NEW p \in Payloads, Preapprove(r, p)
      PROVE  [V!Next]_(V!vvars)
  <2> DEFINE q == Approved(NewRow(p, Agent), PolicyActor)
  <2>1. q.status = "APPROVED"
    BY NewRowTyped, ApprovedTyped DEF IInv, Requesters, Approvers
  <2>2. row' = [row EXCEPT ![r] = q]
    BY <1>3 DEF Preapprove
  <2> HIDE DEF q
  <2>3. OpenVouchers' = OpenVouchers \cup {r}
    BY <2>1, <2>2 DEF OpenVouchers, IInv, TypeOK
  <2>4. V!Grant(r)
    BY <1>3, <2>3 DEF V!Grant, Preapprove, OpenVouchers
  <2> QED
    BY <2>4 DEF V!Next
<1>4. ASSUME NEW s \in Sessions, CommitDecision(s) PROVE [V!Next]_(V!vvars)
  <2>1. PICK r \in Requests : r = txn[s].id
    BY <1>4 DEF CommitDecision, IInv, OpenTxns
  <2>2. /\ r \in Requests /\ row[r] \in Row /\ row[r].payload \in Payloads
        /\ granted \in [Requests -> Nat]
    BY <1>4, <2>1 DEF CommitDecision, IInv, OpenTxns, TypeOK, Sound
  <2>3. \A x \in Requests : x # r => row'[x] = row[x]
    BY <1>4, <2>1 DEF CommitDecision, IInv, TypeOK
  <2>4. CASE txn[s].verdict = "APPROVED"
    <3>1. txn[s].by \in Approvers
      BY <1>4, <2>1, <2>4 DEF CommitDecision, IInv, OpenTxns, Approvers
    <3>2. row'[r] = Approved(row[r], txn[s].by)
      BY <1>4, <2>1, <2>2, <2>4 DEF CommitDecision, IInv, TypeOK
    <3>3. row'[r].status = "APPROVED"
      BY <2>2, <3>1, <3>2, ApprovedTyped
    <3>4. OpenVouchers' = OpenVouchers \cup {r}
      BY <2>2, <2>3, <3>3 DEF OpenVouchers
    <3>5. V!Grant(r)
      BY <1>4, <2>1, <2>4, <3>4 DEF V!Grant, CommitDecision, OpenVouchers
    <3> QED
      BY <2>2, <3>5 DEF V!Next
  <2>5. CASE txn[s].verdict \in {"REJECTED", "CANCELLED"}
    <3>1. row'[r].status # "APPROVED"
      BY <1>4, <2>1, <2>2, <2>5 DEF CommitDecision, IInv, TypeOK, Row
    <3>2. OpenVouchers' = OpenVouchers \ (OpenVouchers \cap {r})
      BY <2>2, <2>3, <3>1 DEF OpenVouchers
    <3>3. granted' = granted /\ redeemed' = redeemed
      BY <1>4, <2>1, <2>2, <2>5 DEF CommitDecision
    <3> QED
      BY <3>2, <3>3, VoidSome
  <2> QED
    BY <1>4, <2>1, <2>4, <2>5 DEF CommitDecision, IInv, OpenTxns
<1>5. ASSUME NEW s \in Sessions, Redeem(s) PROVE [V!Next]_(V!vvars)
  <2>1. PICK r \in Requests : r = txn[s].id
    BY <1>5 DEF Redeem, IInv, OpenTxns
  <2>2. r \in Requests /\ row[r] \in Row /\ row[r].status = "APPROVED"
    BY <1>5, <2>1 DEF Redeem, Redeemable, IInv, OpenTxns, TypeOK
  <2>3. row'[r].status = "EXECUTED" /\ \A x \in Requests : x # r => row'[x] = row[x]
    BY <1>5, <2>1, <2>2 DEF Redeem, IInv, TypeOK, Row
  <2>4. OpenVouchers' = OpenVouchers \ {r} /\ r \in OpenVouchers
    BY <2>2, <2>3 DEF OpenVouchers
  <2>5. V!Redeem(r)
    BY <1>5, <2>1, <2>4 DEF V!Redeem, Redeem, OpenVouchers
  <2> QED
    BY <2>2, <2>5 DEF V!Next
<1>6. CASE Sweep
  <2>1. \A x \in Requests : row'[x].status = IF x \in Overdue THEN "EXPIRED" ELSE row[x].status
    BY <1>6 DEF Sweep, IInv, TypeOK, Row
  <2>2. OpenVouchers' = OpenVouchers \ (OpenVouchers \cap Overdue)
    BY <2>1 DEF OpenVouchers
  <2>3. granted' = granted /\ redeemed' = redeemed
    BY <1>6 DEF Sweep
  <2> QED
    BY <2>2, <2>3, VoidSome
<1> QED
  BY <1>1, <1>2, <1>3, <1>4, <1>5, <1>6
     DEF Next, vars, Tick, ChangeSettings, DecideRead, CancelRead, ConsumeRead, Open, Rollback

\* The service, with its unlocked reads, implements the abstract voucher specification.
THEOREM Implements == Spec => ImplementsVoucher
<1>1. Init => V!Init
  BY DEF Init, V!Init, NoRow
<1> QED
  BY <1>1, StepRefines, Invariance, PTL DEF Spec, V!Spec, ImplementsVoucher
=============================================================================
