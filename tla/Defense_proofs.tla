--------------------------- MODULE Defense_proofs ---------------------------
(***************************************************************************)
(* RulesBacked, RulesTracked and FollowsFlow of Defense, for every set of  *)
(* actions, tickets and sessions.                                          *)
(*                                                                         *)
(* None of them is inductive.  What the rules rest on is what each open    *)
(* transaction has read and checked, so IInv adds Snapshot: which          *)
(* statuses, tickets and locks go with each point of each handler.  A rule *)
(* stays removable because the session that created it holds the row lock  *)
(* until its own commit, which makes the row ACTIVE under the rule's       *)
(* reference (or FAILED, if the answer was an error: Making, Held), and    *)
(* because whoever ends the action has removed it before (Gone).  Handlers *)
(* that were overtaken are in astray by then.                              *)
(*                                                                         *)
(* The other half of RulesTracked, that an ACTIVE action has its rule      *)
(* unless another action's end took it out, is a second invariant over     *)
(* IInv.  Remove removes by reference, so that it needs which actions go   *)
(* by the same reference (OneOwner): those of one address of a set only.   *)
(***************************************************************************)
EXTENDS Defense, FiniteSetTheorems, TLAPS

Running == {"preapprove", "execute"}
Ending  == {"revert", "expire"}

\* Rows that have been ACTIVE.
Past(a) == row[a].status \in {"ACTIVE"} \cup Ended

\* What the transaction of session s has read and checked.
Snapshot(s) ==
    LET t == txn[s] IN
    /\ t.kind # "idle" => t.act \in Actions
    /\ t.kind = "idle" => t = Idle
    /\ t.kind = "recommend" => /\ row[t.act].status = "ABSENT"
                               /\ t.pc = "read"
                               /\ \A w \in Workers \ {s} : txn[w].act # t.act
    /\ t.kind = "dismiss" => t.pc = "read"
    /\ t.kind = "request" => t.pc \in {"read", "ticketed"}
    /\ t.kind \in {"request", "preapprove", "dismiss"} => t.status = "RECOMMENDED"
    /\ t.kind \in Ending => /\ t.status = "ACTIVE"
                            /\ t.pc \in {"read", "removed"}
                            /\ t.act \notin astray => Past(t.act)
    /\ t.pc \in {"ticketed", "held"} => t.ticket \in Tickets
    /\ t.pc \in {"redeemed", "locked", "applied", "refused", "unheard"} =>
         t.kind \in Running /\ t.ticket \in Tickets /\ bound[t.ticket] = t.act
    /\ t.pc \in {"locked", "applied", "refused", "unheard"} =>
         lock[t.act] = s /\ t.status \in {"RECOMMENDED", "PENDING_APPROVAL"}
    /\ t.pc = "removed" => t.kind \in Ending

\* A row that is not there has nothing.
Absent(a) == row[a].status = "ABSENT" => row[a].ticket = None

\* Each call of the provider under ticket t has spent a redemption, or will by the same session.
Backed(t) ==
    /\ IsFiniteSet(Spending(t))
    /\ applied[t] + Cardinality(Spending(t)) <= redeemed[t]

\* Rule x was created under a ticket that names its action.
RuleBacked(x) == x.ticket \in Tickets /\ bound[x.ticket] = x.act /\ applied[x.ticket] > 0

\* Session s has created rule x and is about to say so: it commits the reference, or FAILED.
Making(s, x) ==
    /\ txn[s].act = x.act
    /\ \/ At(s, Running, "applied") /\ txn[s].ref = x.ref
       \/ At(s, Running, "unheard") /\ x.ref \in unheard

\* Row q accounts for rule x.
Held(q, x) ==
    \/ q.status = "ACTIVE" /\ q.ref = x.ref
    \/ q.status = "FAILED" /\ x.ref \in unheard

Known(x) == Held(row[x.act], x) \/ \E s \in Workers : Making(s, x)

\* What session s has removed is not in force, unless another one has put it back and not
\* committed yet.
Gone(s) ==
    At(s, Ending, "removed") /\ txn[s].act \notin astray =>
      \A x \in rules : x.act = txn[s].act /\ x.ref = txn[s].ref => \E w \in Workers : Making(w, x)

IInv ==
    /\ TypeOK
    /\ \A s \in Workers : Snapshot(s) /\ Gone(s)
    /\ \A a \in Actions : Absent(a)
    /\ \A t \in Tickets : Backed(t)
    /\ \A x \in rules : RuleBacked(x) /\ (x.act \notin astray => Known(x))

-----------------------------------------------------------------------------
(* What the parts of a handler do *)

LEMMA ConstantsApart ==
    /\ None \notin Workers /\ None \notin Actions /\ None \notin Tickets
    /\ None \notin Ref /\ Manual \notin Ref
BY ActionAssumption DEF Workers, Ref

LEMMA IdleTyped == Idle \in Txn
BY DEF Idle, Txn, Status

LEMMA NoRowTyped == NoRow \in Row
BY DEF NoRow, Row, Status

LEMMA EndEffect ==
    ASSUME TypeOK, NEW s \in Workers, End(s)
    PROVE  /\ txn'[s] = Idle
           /\ \A w \in Workers \ {s} : txn'[w] = txn[w]
           /\ \A a \in Actions : lock[a] # s => lock'[a] = lock[a]
           /\ txn' \in [Workers -> Txn]
           /\ lock' \in [Actions -> Workers \cup {None}]
BY IdleTyped DEF End, TypeOK

LEMMA ReadEffect ==
    ASSUME TypeOK, NEW s \in Workers, NEW a \in Actions, NEW k, Read(s, k, a),
           k \in {"recommend", "request", "preapprove", "execute", "revert", "expire", "dismiss"}
    PROVE  /\ txn[s] = Idle
           /\ txn'[s] = [kind |-> k, pc |-> "read", act |-> a, status |-> row[a].status,
                         ticket |-> row[a].ticket, ref |-> row[a].ref]
           /\ \A w \in Workers \ {s} : txn'[w] = txn[w]
           /\ TypeOK'
           /\ UNCHANGED <<row, lock, bound, rules, applied, redeemed, unheard, astray>>
<1> DEFINE new == [kind |-> k, pc |-> "read", act |-> a, status |-> row[a].status,
                   ticket |-> row[a].ticket, ref |-> row[a].ref]
<1>1. row[a] \in Row
  BY DEF TypeOK
<1>2. new \in Txn
  BY <1>1 DEF Row, Txn
<1>3. /\ txn[s] = Idle /\ txn' = [txn EXCEPT ![s] = new]
      /\ UNCHANGED <<row, lock, bound, open, granted, redeemed, configured, rules, used, applied,
                     unheard, undone, astray>>
  BY DEF Read, approvalVars, providerVars
<1>4. txn' \in [Workers -> Txn]
  BY <1>2, <1>3 DEF TypeOK
<1>5. TypeOK'
  BY <1>3, <1>4 DEF TypeOK
<1> QED
  BY <1>3, <1>5 DEF TypeOK

LEMMA CommitEffect ==
    ASSUME TypeOK, NEW s \in Workers, NEW q \in Row, NEW stale \in BOOLEAN, txn[s].act \in Actions,
           Commit(s, q, stale)
    PROVE  /\ Free(s)
           /\ row'[txn[s].act] = q
           /\ \A a \in Actions \ {txn[s].act} : row'[a] = row[a]
           /\ txn'[s] = Idle
           /\ \A w \in Workers \ {s} : txn'[w] = txn[w]
           /\ \A a \in Actions : lock[a] # s => lock'[a] = lock[a]
           /\ astray' = IF stale THEN astray \cup {txn[s].act} ELSE astray
           /\ UNCHANGED <<bound, rules, applied, unheard, redeemed>>
           /\ TypeOK'
<1>1. /\ row' = [row EXCEPT ![txn[s].act] = q]
      /\ astray' = IF stale THEN astray \cup {txn[s].act} ELSE astray
      /\ UNCHANGED <<bound, open, granted, redeemed, configured, rules, used, applied, unheard,
                     undone>>
      /\ End(s) /\ Free(s)
  BY DEF Commit, approvalVars, providerVars
<1>2. row' \in [Actions -> Row] /\ astray' \subseteq Actions
  BY <1>1 DEF TypeOK
<1>3. TypeOK'
  BY <1>1, <1>2, EndEffect DEF TypeOK
<1> QED
  BY <1>1, <1>3, EndEffect DEF TypeOK

-----------------------------------------------------------------------------
(* What a step of one session leaves of the others *)

Local(s) ==
    /\ TypeOK'
    /\ \A w \in Workers \ {s} : /\ txn'[w] = txn[w]
                                /\ txn[w].kind = "recommend" => txn'[s].act # txn[w].act
    /\ \A a \in Actions : /\ row'[a] = row[a] \/ a = txn[s].act
                          /\ \A w \in Workers \ {s} : lock[a] = w => lock'[a] = w
                          /\ Past(a) => Past(a)' \/ a \in astray'
    /\ \A t \in Tickets : bound[t] # None => bound'[t] = bound[t]
    /\ astray \subseteq astray' /\ unheard \subseteq unheard'
    /\ \A x \in rules' : x \in rules \/ Making(s, x)' \/ x.act \in astray'
    /\ \A x \in rules : Making(s, x) /\ Past(x.act) => Making(s, x)' \/ x.act \in astray'

LEMMA OthersKept ==
    ASSUME IInv, NEW s \in Workers, Local(s), NEW w \in Workers \ {s}
    PROVE  Snapshot(w)' /\ Gone(w)'
<1>1. txn'[w] = txn[w] /\ w \in Workers
  BY DEF Local
<1>2. Snapshot(w)'
  <2>1. txn[w].kind # "idle" => txn[w].act \in Actions
    BY DEF IInv, Snapshot
  <2>2. txn[w].kind = "recommend" => txn[w].act # txn[s].act /\ txn[w].act # txn'[s].act
    BY DEF IInv, Snapshot, Local
  <2>3. txn[w].kind = "recommend" =>
          row'[txn[w].act].status = "ABSENT" /\ \A v \in Workers \ {w} : txn'[v].act # txn'[w].act
    BY <1>1, <2>1, <2>2 DEF IInv, Snapshot, Local
  <2>4. txn[w].kind \in Ending /\ txn[w].act \notin astray' => Past(txn[w].act)'
    BY <2>1 DEF IInv, Snapshot, Local, Ending
  <2>5. txn[w].pc \in {"redeemed", "locked", "applied", "refused", "unheard"} =>
          bound'[txn[w].ticket] = txn[w].act
    BY <2>1, ConstantsApart DEF IInv, Snapshot, Local, Running
  <2>6. txn[w].pc \in {"locked", "applied", "refused", "unheard"} => lock'[txn[w].act] = w
    BY <1>1, <2>1 DEF IInv, Snapshot, Local, Running
  <2>7. Snapshot(w)
    BY DEF IInv
  <2> QED
    BY <1>1, <2>1, <2>3, <2>4, <2>5, <2>6, <2>7 DEF Snapshot, Past
<1>3. Gone(w)'
  <2> SUFFICES ASSUME At(w, Ending, "removed"), txn[w].act \notin astray',
                      NEW x \in rules', x.act = txn[w].act, x.ref = txn[w].ref
               PROVE  \E v \in Workers : Making(v, x)'
    BY <1>1 DEF Gone, At
  <2>1. CASE x \in rules
    <3>1. PICK v \in Workers : Making(v, x)
      BY <2>1 DEF IInv, Gone, Local
    <3>2. Past(x.act)
      BY DEF IInv, Snapshot, Local, At
    <3>3. CASE v # s
      BY <3>1, <3>3 DEF Local, Making, At
    <3>4. CASE v = s
      BY <2>1, <3>1, <3>2, <3>4 DEF Local
    <3> QED
      BY <3>3, <3>4
  <2>2. CASE x \notin rules
    BY <2>2 DEF Local
  <2> QED
    BY <2>1, <2>2
<1> QED
  BY <1>2, <1>3

\* Steps that spend nothing new leave every ticket backed.
LEMMA BackedKept ==
    ASSUME IInv, UNCHANGED applied,
           \A t \in Tickets : redeemed'[t] \in Nat /\ redeemed'[t] >= redeemed[t],
           \A w \in Workers : txn'[w].kind \in Running /\ txn'[w].pc \in {"redeemed", "locked"} =>
             /\ txn[w].kind \in Running /\ txn[w].pc \in {"redeemed", "locked"}
             /\ txn'[w].ticket = txn[w].ticket
    PROVE  \A t \in Tickets : Backed(t)'
<1> SUFFICES ASSUME NEW t \in Tickets PROVE Backed(t)'
  OBVIOUS
<1>1. Spending(t)' \subseteq Spending(t)
  BY DEF Spending, At, Running
<1>2. IsFiniteSet(Spending(t)') /\ Cardinality(Spending(t)') <= Cardinality(Spending(t))
  BY <1>1, FS_Subset DEF IInv, Backed
<1>3. Cardinality(Spending(t)) \in Nat /\ Cardinality(Spending(t)') \in Nat
  BY <1>2, FS_CardinalityType DEF IInv, Backed
<1>4. applied[t] \in Nat /\ redeemed[t] \in Nat
  BY DEF IInv, TypeOK
<1> QED
  BY <1>2, <1>3, <1>4 DEF IInv, Backed

\* Rules stay as they are when the rows do and session s was not about to store a reference.
LEMMA RulesKept ==
    ASSUME IInv, NEW s \in Workers, Local(s), UNCHANGED <<row, rules, applied>>,
           txn[s].pc \notin {"applied", "unheard"}
    PROVE  \A x \in rules' : RuleBacked(x)' /\ (x.act \notin astray' => Known(x)')
<1> SUFFICES ASSUME NEW x \in rules PROVE RuleBacked(x)' /\ (x.act \notin astray' => Known(x)')
  OBVIOUS
<1>1. x.act \in Actions
  BY DEF IInv, TypeOK, Rule
<1>2. RuleBacked(x)'
  BY <1>1, ConstantsApart DEF IInv, RuleBacked, Local
<1>3. ASSUME x.act \notin astray' PROVE Known(x)'
  <2>1. Known(x)
    BY <1>3 DEF IInv, Local
  <2>2. ASSUME NEW w \in Workers, Making(w, x) PROVE Making(w, x)'
    BY <2>2 DEF Local, Making, At, Running
  <2> QED
    BY <2>1, <2>2 DEF Known, Held, Local
<1> QED
  BY <1>2, <1>3

-----------------------------------------------------------------------------
(* Each step *)

LEMMA InitIInv == Init => IInv
<1> SUFFICES ASSUME Init PROVE IInv
  OBVIOUS
<1>1. TypeOK
  BY IdleTyped, NoRowTyped DEF Init, TypeOK, V!Init
<1>2. ASSUME NEW s \in Workers PROVE Snapshot(s) /\ Gone(s)
  BY DEF Init, Snapshot, Gone, At, Idle, Ending
<1>3. ASSUME NEW a \in Actions PROVE Absent(a)
  BY DEF Init, Absent, NoRow
<1>4. ASSUME NEW t \in Tickets PROVE Backed(t)
  <2>1. Spending(t) = {}
    BY DEF Init, Spending, At, Idle
  <2> QED
    BY <2>1, FS_EmptySet DEF Init, Backed, V!Init
<1> QED
  BY <1>1, <1>2, <1>3, <1>4 DEF IInv, Init

LEMMA ReadStep ==
    ASSUME IInv, NEW s \in Workers, NEW a \in Actions, NEW k, Read(s, k, a),
           k \in {"recommend", "request", "preapprove", "execute", "revert", "expire", "dismiss"},
           k = "recommend" => \A w \in Workers : txn[w].act # a,
           k = "recommend" <=> row[a].status = "ABSENT",
           k \in {"request", "preapprove", "dismiss"} => row[a].status = "RECOMMENDED",
           k \in Ending => row[a].status = "ACTIVE"
    PROVE  IInv'
<1>1. /\ txn[s] = Idle
      /\ txn'[s] = [kind |-> k, pc |-> "read", act |-> a, status |-> row[a].status,
                    ticket |-> row[a].ticket, ref |-> row[a].ref]
      /\ \A w \in Workers \ {s} : txn'[w] = txn[w]
      /\ TypeOK'
      /\ UNCHANGED <<row, lock, bound, rules, applied, redeemed, unheard, astray>>
  BY ReadEffect DEF IInv
<1>2. \A w \in Workers \ {s} : txn[w].kind = "recommend" => txn[w].act # a
  BY <1>1 DEF IInv, Snapshot
<1>3. Local(s)
  BY <1>1, <1>2 DEF Local, Past, Making, At, Idle
<1>4. Snapshot(s)' /\ Gone(s)'
  BY <1>1 DEF Snapshot, Gone, At, Ending, Running, Past
<1>5. \A t \in Tickets : Backed(t)'
  <2>1. \A t \in Tickets : redeemed'[t] \in Nat /\ redeemed'[t] >= redeemed[t]
    BY <1>1 DEF IInv, TypeOK
  <2> QED
    BY <1>1, <2>1, BackedKept
<1>6. \A x \in rules' : RuleBacked(x)' /\ (x.act \notin astray' => Known(x)')
  BY <1>1, <1>3, RulesKept DEF At, Idle, Running
<1>7. \A b \in Actions : Absent(b)'
  BY <1>1 DEF IInv, Absent
<1> QED
  BY <1>1, <1>3, <1>4, <1>5, <1>6, <1>7, OthersKept DEF IInv

LEMMA ReadSteps ==
    ASSUME IInv, NEW s \in Sessions, NEW a \in Actions,
           \/ RecommendRead(s, a) \/ RequestRead(s, a) \/ PreapproveRead(s, a)
           \/ ExecuteRead(s, a) \/ RevertRead(s, a) \/ DismissRead(s, a)
    PROVE  IInv'
<1> s \in Workers
  BY DEF Workers
<1>1. CASE RecommendRead(s, a)
  BY <1>1, ReadStep DEF RecommendRead, Ending
<1>2. CASE RequestRead(s, a)
  BY <1>2, ReadStep DEF RequestRead, Ending
<1>3. CASE PreapproveRead(s, a)
  BY <1>3, ReadStep DEF PreapproveRead, Ending
<1>4. CASE ExecuteRead(s, a)
  <2>1. row[a].status # "ABSENT"
    BY <1>4 DEF ExecuteRead, IInv, Absent
  <2> QED
    BY <1>4, <2>1, ReadStep DEF ExecuteRead, Ending
<1>5. CASE RevertRead(s, a)
  BY <1>5, ReadStep DEF RevertRead, Ending
<1>6. CASE DismissRead(s, a)
  BY <1>6, ReadStep DEF DismissRead, Ending
<1> QED
  BY <1>1, <1>2, <1>3, <1>4, <1>5, <1>6

LEMMA ExpireReadStep ==
    ASSUME IInv, NEW a \in Actions, ExpireRead(a)
    PROVE  IInv'
BY ReadStep DEF ExpireRead, Ending, Workers

\* A step that only moves its own session on, and may bind a ticket or take its row's lock.
LEMMA MoveStep ==
    ASSUME IInv, NEW s \in Workers, TypeOK',
           UNCHANGED <<row, rules, applied, unheard, astray>>,
           txn'[s].act = txn[s].act, txn[s].kind # "recommend",
           \A w \in Workers \ {s} : txn'[w] = txn[w],
           \A a \in Actions, w \in Workers \ {s} : lock[a] = w => lock'[a] = w,
           \A t \in Tickets : bound[t] # None => bound'[t] = bound[t],
           txn[s].pc \notin {"applied", "unheard"},
           Snapshot(s)', Gone(s)', \A t \in Tickets : Backed(t)'
    PROVE  IInv'
<1>1. txn[s].act \in Actions \cup {None}
  BY DEF IInv, TypeOK, Txn
<1>2. \A w \in Workers \ {s} : txn[w].kind = "recommend" => txn[w].act # txn[s].act
  BY DEF IInv, Snapshot
<1>3. Local(s)
  BY <1>2 DEF Local, Past, Making, At
<1>4. \A x \in rules' : RuleBacked(x)' /\ (x.act \notin astray' => Known(x)')
  BY <1>3, RulesKept DEF At
<1>5. \A b \in Actions : Absent(b)'
  BY DEF IInv, Absent
<1> QED
  BY <1>3, <1>4, <1>5, OthersKept DEF IInv

LEMMA RequestCreateStep ==
    ASSUME IInv, NEW s \in Workers, NEW t \in Tickets, RequestCreate(s, t)
    PROVE  IInv'
<1>1. /\ txn[s].kind = "request" /\ txn[s].pc = "read" /\ txn[s] \in Txn
      /\ txn' = [txn EXCEPT ![s] = [txn[s] EXCEPT !.pc = "ticketed", !.ticket = t]]
      /\ bound[t] = None /\ bound' = [bound EXCEPT ![t] = txn[s].act]
      /\ UNCHANGED <<row, lock, open, granted, redeemed, configured, rules, used, applied,
                     unheard, undone,
                     astray>>
  BY DEF RequestCreate, At, providerVars, IInv, TypeOK
<1>2. [txn[s] EXCEPT !.pc = "ticketed", !.ticket = t] \in Txn
  BY <1>1 DEF Txn
<1>3. TypeOK'
  <2>1. txn' \in [Workers -> Txn]
    BY <1>1, <1>2 DEF IInv, TypeOK
  <2>2. bound' \in [Tickets -> Actions \cup {None}]
    BY <1>1 DEF IInv, TypeOK, Txn
  <2> QED
    BY <1>1, <2>1, <2>2 DEF IInv, TypeOK
<1>4. /\ txn'[s].kind = "request" /\ txn'[s].pc = "ticketed" /\ txn'[s].act = txn[s].act
      /\ txn'[s].ticket = t /\ txn'[s].status = txn[s].status
      /\ \A w \in Workers \ {s} : txn'[w] = txn[w]
  BY <1>1 DEF IInv, TypeOK, Txn
<1>5. Snapshot(s)' /\ Gone(s)'
  BY <1>1, <1>4 DEF IInv, Snapshot, Gone, At, Ending, Running
<1>6. \A u \in Tickets : Backed(u)'
  <2>1. \A u \in Tickets : redeemed'[u] \in Nat /\ redeemed'[u] >= redeemed[u]
    BY <1>1 DEF IInv, TypeOK
  <2> QED
    BY <1>1, <1>4, <2>1, BackedKept
<1>7. \A u \in Tickets : bound[u] # None => bound'[u] = bound[u]
  BY <1>1 DEF IInv, TypeOK
<1> QED
  BY <1>1, <1>3, <1>4, <1>5, <1>6, <1>7, MoveStep

LEMMA PreapproveGrantStep ==
    ASSUME IInv, NEW s \in Workers, NEW t \in Tickets, PreapproveGrant(s, t)
    PROVE  IInv'
<1>1. /\ txn[s].kind = "preapprove" /\ txn[s].pc = "read" /\ txn[s] \in Txn
      /\ txn' = [txn EXCEPT ![s] = [txn[s] EXCEPT !.pc = "ticketed", !.ticket = t]]
      /\ bound[t] = None /\ bound' = [bound EXCEPT ![t] = txn[s].act]
      /\ open' = open \cup {t} /\ granted' = [granted EXCEPT ![t] = @ + 1]
      /\ UNCHANGED <<row, lock, redeemed, configured, rules, used, applied, unheard, undone,
                     astray>>
  BY DEF PreapproveGrant, V!Grant, At, providerVars, IInv, TypeOK
<1>2. [txn[s] EXCEPT !.pc = "ticketed", !.ticket = t] \in Txn
  BY <1>1 DEF Txn
<1>3. TypeOK'
  <2>1. txn' \in [Workers -> Txn]
    BY <1>1, <1>2 DEF IInv, TypeOK
  <2>2. bound' \in [Tickets -> Actions \cup {None}] /\ granted' \in [Tickets -> Nat]
    BY <1>1 DEF IInv, TypeOK, Txn
  <2> QED
    BY <1>1, <2>1, <2>2 DEF IInv, TypeOK
<1>4. /\ txn'[s].kind = "preapprove" /\ txn'[s].pc = "ticketed" /\ txn'[s].act = txn[s].act
      /\ txn'[s].ticket = t /\ txn'[s].status = txn[s].status
      /\ \A w \in Workers \ {s} : txn'[w] = txn[w]
  BY <1>1 DEF IInv, TypeOK, Txn
<1>5. Snapshot(s)' /\ Gone(s)'
  BY <1>1, <1>4 DEF IInv, Snapshot, Gone, At, Ending, Running
<1>6. \A u \in Tickets : Backed(u)'
  <2>1. \A u \in Tickets : redeemed'[u] \in Nat /\ redeemed'[u] >= redeemed[u]
    BY <1>1 DEF IInv, TypeOK
  <2> QED
    BY <1>1, <1>4, <2>1, BackedKept
<1>7. \A u \in Tickets : bound[u] # None => bound'[u] = bound[u]
  BY <1>1 DEF IInv, TypeOK
<1> QED
  BY <1>1, <1>3, <1>4, <1>5, <1>6, <1>7, MoveStep

\* Session s moves to another pc of its handler; it may take the lock of its row.
LEMMA GotoEffect ==
    ASSUME TypeOK, NEW s \in Workers, NEW pc, Goto(s, pc),
           pc \in {"held", "redeemed", "locked", "refused", "unheard", "removed"}
    PROVE  /\ txn' \in [Workers -> Txn]
           /\ txn'[s] = [txn[s] EXCEPT !.pc = pc]
           /\ txn'[s].kind = txn[s].kind /\ txn'[s].pc = pc /\ txn'[s].act = txn[s].act
           /\ txn'[s].ticket = txn[s].ticket /\ txn'[s].status = txn[s].status
           /\ txn'[s].ref = txn[s].ref
           /\ \A w \in Workers \ {s} : txn'[w] = txn[w]
<1>1. txn[s] \in Txn /\ txn' = [txn EXCEPT ![s] = [txn[s] EXCEPT !.pc = pc]]
  BY DEF Goto, TypeOK
<1>2. [txn[s] EXCEPT !.pc = pc] \in Txn
  BY <1>1 DEF Txn
<1> QED
  BY <1>1, <1>2 DEF TypeOK, Txn

LEMMA LockEffect ==
    ASSUME TypeOK, NEW s \in Workers, Free(s), txn[s].act \in Actions,
           lock' = [lock EXCEPT ![txn[s].act] = s]
    PROVE  /\ lock' \in [Actions -> Workers \cup {None}]
           /\ lock'[txn[s].act] = s
           /\ \A a \in Actions, w \in Workers \ {s} : lock[a] = w => lock'[a] = w
BY ConstantsApart DEF TypeOK, Free

LEMMA PreapproveFlushStep ==
    ASSUME IInv, NEW s \in Workers, PreapproveFlush(s)
    PROVE  IInv'
<1>1. /\ txn[s].kind = "preapprove" /\ txn[s].pc = "ticketed" /\ txn[s].act \in Actions
      /\ Free(s) /\ Goto(s, "held") /\ lock' = [lock EXCEPT ![txn[s].act] = s]
      /\ UNCHANGED <<row, bound, open, granted, redeemed, configured, rules, used, applied,
                     unheard, undone,
                     astray>>
  BY DEF PreapproveFlush, At, approvalVars, providerVars, IInv, Snapshot
<1>2. TypeOK'
  BY <1>1, GotoEffect, LockEffect DEF IInv, TypeOK
<1>3. /\ txn'[s].kind = "preapprove" /\ txn'[s].pc = "held" /\ txn'[s].act = txn[s].act
      /\ txn'[s].ticket = txn[s].ticket /\ txn'[s].status = txn[s].status
      /\ \A w \in Workers \ {s} : txn'[w] = txn[w]
  BY <1>1, GotoEffect DEF IInv
<1>4. Snapshot(s)' /\ Gone(s)'
  BY <1>1, <1>3 DEF IInv, Snapshot, Gone, At, Ending, Running
<1>5. \A u \in Tickets : Backed(u)'
  <2>1. \A u \in Tickets : redeemed'[u] \in Nat /\ redeemed'[u] >= redeemed[u]
    BY <1>1 DEF IInv, TypeOK
  <2> QED
    BY <1>1, <1>3, <2>1, BackedKept
<1>6. \A a \in Actions, w \in Workers \ {s} : lock[a] = w => lock'[a] = w
  BY <1>1, LockEffect DEF IInv
<1> QED
  BY <1>1, <1>2, <1>3, <1>4, <1>5, <1>6, MoveStep

\* The ticket of a session that redeems is bound to its action.
LEMMA RedeemsEffect ==
    ASSUME IInv, NEW s \in Workers, Redeems(s)
    PROVE  /\ txn[s].kind \in Running /\ txn[s].pc \in {"held", "read"}
           /\ txn[s].act \in Actions
           /\ txn[s].ticket \in Tickets /\ bound[txn[s].ticket] = txn[s].act
           /\ open' = open \ {txn[s].ticket} /\ UNCHANGED granted
           /\ redeemed' = [redeemed EXCEPT ![txn[s].ticket] = @ + 1]
BY DEF Redeems, V!Redeem, At, Running, IInv, TypeOK, Snapshot

LEMMA ConsumeStep ==
    ASSUME IInv, NEW s \in Workers, Consume(s)
    PROVE  IInv'
<1> DEFINE t == txn[s].ticket
<1>1. /\ Redeems(s) /\ Goto(s, "redeemed")
      /\ UNCHANGED <<row, lock, bound, configured, rules, used, applied, unheard, undone,
                     astray>>
  BY DEF Consume, providerVars
<1>2. /\ txn[s].kind \in Running /\ txn[s].pc \in {"held", "read"}
      /\ txn[s].act \in Actions
      /\ t \in Tickets /\ bound[t] = txn[s].act
      /\ open' = open \ {t} /\ UNCHANGED granted
      /\ redeemed' = [redeemed EXCEPT ![t] = @ + 1]
  BY <1>1, RedeemsEffect
<1>3. /\ txn' \in [Workers -> Txn]
      /\ txn'[s].kind = txn[s].kind /\ txn'[s].pc = "redeemed" /\ txn'[s].act = txn[s].act
      /\ txn'[s].ticket = t /\ txn'[s].status = txn[s].status
      /\ \A w \in Workers \ {s} : txn'[w] = txn[w]
  BY <1>1, GotoEffect DEF IInv
<1>4. TypeOK'
  BY <1>1, <1>2, <1>3 DEF IInv, TypeOK
<1>5. Snapshot(s)' /\ Gone(s)'
  BY <1>1, <1>2, <1>3 DEF IInv, Snapshot, Gone, At, Ending, Running
<1>6. \A u \in Tickets : Backed(u)'
  <2> SUFFICES ASSUME NEW u \in Tickets PROVE Backed(u)'
    OBVIOUS
  <2>1. applied[u] \in Nat /\ redeemed[u] \in Nat /\ Cardinality(Spending(u)) \in Nat
    BY FS_CardinalityType DEF IInv, TypeOK, Backed
  <2>2. CASE u = t
    <3>1. Spending(u)' = Spending(u) \cup {s} /\ s \notin Spending(u)
      BY <1>2, <1>3, <2>2 DEF Spending, At, Running
    <3>2. IsFiniteSet(Spending(u)') /\ Cardinality(Spending(u)') = Cardinality(Spending(u)) + 1
      BY <3>1, FS_AddElement DEF IInv, Backed
    <3>3. redeemed'[u] = redeemed[u] + 1
      BY <1>2, <2>2 DEF IInv, TypeOK
    <3> QED
      BY <1>1, <2>1, <3>2, <3>3 DEF IInv, Backed
  <2>3. CASE u # t
    <3>1. Spending(u)' = Spending(u)
      BY <1>2, <1>3, <2>3 DEF Spending, At, Running
    <3>2. redeemed'[u] = redeemed[u]
      BY <1>2, <2>3 DEF IInv, TypeOK
    <3> QED
      BY <1>1, <3>1, <3>2 DEF IInv, Backed
  <2> QED
    BY <2>2, <2>3
<1> QED
  BY <1>1, <1>2, <1>3, <1>4, <1>5, <1>6, MoveStep DEF Running

LEMMA ExecuteFlushStep ==
    ASSUME IInv, NEW s \in Workers, ExecuteFlush(s)
    PROVE  IInv'
<1>1. /\ txn[s].kind \in Running /\ txn[s].pc = "redeemed" /\ txn[s].act \in Actions
      /\ txn[s].kind = "preapprove" \/ txn[s].status = "PENDING_APPROVAL"
      /\ Free(s) /\ Goto(s, "locked") /\ lock' = [lock EXCEPT ![txn[s].act] = s]
      /\ UNCHANGED <<row, bound, open, granted, redeemed, configured, rules, used, applied,
                     unheard, undone,
                     astray>>
  BY DEF ExecuteFlush, At, approvalVars, providerVars, IInv, Snapshot, Running
<1>2. TypeOK'
  BY <1>1, GotoEffect, LockEffect DEF IInv, TypeOK
<1>3. /\ txn'[s].kind = txn[s].kind /\ txn'[s].pc = "locked" /\ txn'[s].act = txn[s].act
      /\ txn'[s].ticket = txn[s].ticket /\ txn'[s].status = txn[s].status
      /\ \A w \in Workers \ {s} : txn'[w] = txn[w]
  BY <1>1, GotoEffect DEF IInv
<1>4. lock'[txn[s].act] = s /\ \A a \in Actions, w \in Workers \ {s} : lock[a] = w => lock'[a] = w
  BY <1>1, LockEffect DEF IInv
<1>5. Snapshot(s)' /\ Gone(s)'
  BY <1>1, <1>3, <1>4 DEF IInv, Snapshot, Gone, At, Ending, Running
<1>6. \A u \in Tickets : Backed(u)'
  <2>1. \A u \in Tickets : redeemed'[u] \in Nat /\ redeemed'[u] >= redeemed[u]
    BY <1>1 DEF IInv, TypeOK
  <2> QED
    BY <1>1, <1>3, <2>1, BackedKept
<1> QED
  BY <1>1, <1>2, <1>3, <1>4, <1>5, <1>6, MoveStep DEF Running

LEMMA ApplyManualStep ==
    ASSUME IInv, NEW s \in Workers, ApplyManual(s)
    PROVE  IInv'
<1>1. /\ txn[s].kind \in Running /\ txn[s].pc = "locked" /\ txn[s] \in Txn
      /\ txn' = [txn EXCEPT ![s] = [txn[s] EXCEPT !.pc = "applied", !.ref = Manual]]
      /\ UNCHANGED <<row, lock, bound, open, granted, redeemed, configured, rules, used, applied,
                     unheard, undone, astray>>
  BY DEF ApplyManual, At, approvalVars, providerVars, IInv, TypeOK, Running
<1>2. [txn[s] EXCEPT !.pc = "applied", !.ref = Manual] \in Txn
  BY <1>1 DEF Txn
<1>3. TypeOK'
  BY <1>1, <1>2 DEF IInv, TypeOK
<1>4. /\ txn'[s].kind = txn[s].kind /\ txn'[s].pc = "applied" /\ txn'[s].act = txn[s].act
      /\ txn'[s].ticket = txn[s].ticket /\ txn'[s].status = txn[s].status
      /\ \A w \in Workers \ {s} : txn'[w] = txn[w]
  BY <1>1 DEF IInv, TypeOK, Txn
<1>5. Snapshot(s)' /\ Gone(s)'
  BY <1>1, <1>4 DEF IInv, Snapshot, Gone, At, Ending, Running
<1>6. \A u \in Tickets : Backed(u)'
  <2>1. \A u \in Tickets : redeemed'[u] \in Nat /\ redeemed'[u] >= redeemed[u]
    BY <1>1 DEF IInv, TypeOK
  <2> QED
    BY <1>1, <1>4, <2>1, BackedKept
<1> QED
  BY <1>1, <1>3, <1>4, <1>5, <1>6, MoveStep DEF Running

LEMMA ApplyRefusedStep ==
    ASSUME IInv, NEW s \in Workers, ApplyRefused(s)
    PROVE  IInv'
<1>1. /\ txn[s].kind \in Running /\ txn[s].pc = "locked" /\ Goto(s, "refused")
      /\ UNCHANGED <<row, lock, bound, open, granted, redeemed, configured, rules, used, applied,
                     unheard, undone, astray>>
  BY DEF ApplyRefused, At, approvalVars, providerVars, Running
<1>2. TypeOK'
  BY <1>1, GotoEffect DEF IInv, TypeOK
<1>3. /\ txn'[s].kind = txn[s].kind /\ txn'[s].pc = "refused" /\ txn'[s].act = txn[s].act
      /\ txn'[s].ticket = txn[s].ticket /\ txn'[s].status = txn[s].status
      /\ \A w \in Workers \ {s} : txn'[w] = txn[w]
  BY <1>1, GotoEffect DEF IInv
<1>4. Snapshot(s)' /\ Gone(s)'
  BY <1>1, <1>3 DEF IInv, Snapshot, Gone, At, Ending, Running
<1>5. \A u \in Tickets : Backed(u)'
  <2>1. \A u \in Tickets : redeemed'[u] \in Nat /\ redeemed'[u] >= redeemed[u]
    BY <1>1 DEF IInv, TypeOK
  <2> QED
    BY <1>1, <1>3, <2>1, BackedKept
<1> QED
  BY <1>1, <1>2, <1>3, <1>4, <1>5, MoveStep DEF Running

\* A session ends without a commit.
LEMMA EndStep ==
    ASSUME IInv, NEW s \in Workers, End(s), TypeOK',
           UNCHANGED <<row, rules, applied, bound, unheard>>,
           \A t \in Tickets : redeemed'[t] >= redeemed[t],
           astray \subseteq astray', txn[s].pc \in {"applied", "unheard"} => txn[s].act \in astray'
    PROVE  IInv'
<1>1. /\ txn'[s] = Idle /\ \A w \in Workers \ {s} : txn'[w] = txn[w]
      /\ \A a \in Actions : lock[a] # s => lock'[a] = lock[a]
  BY EndEffect DEF IInv
<1>2. \A w \in Workers \ {s} : txn[w].kind = "recommend" => txn'[s].act # txn[w].act
  BY <1>1, ConstantsApart DEF IInv, Snapshot, Idle
<1>3. Local(s)
  BY <1>1, <1>2 DEF Local, Past, Making, At
<1>4. Snapshot(s)' /\ Gone(s)'
  BY <1>1 DEF Snapshot, Gone, At, Ending, Running, Idle
<1>5. \A t \in Tickets : Backed(t)'
  <2>1. \A t \in Tickets : redeemed'[t] \in Nat
    BY DEF TypeOK
  <2> QED
    BY <1>1, <2>1, BackedKept DEF Idle, Running
<1>6. ASSUME NEW x \in rules' PROVE RuleBacked(x)' /\ (x.act \notin astray' => Known(x)')
  <2>1. RuleBacked(x)'
    BY DEF IInv, RuleBacked
  <2>2. ASSUME x.act \notin astray' PROVE Known(x)'
    <3>1. Known(x)
      BY <2>2 DEF IInv
    <3>2. ASSUME NEW w \in Workers, Making(w, x) PROVE Making(w, x)'
      BY <1>1, <2>2, <3>2 DEF Making, At
    <3> QED
      BY <3>1, <3>2 DEF Known, Held
  <2> QED
    BY <2>1, <2>2
<1>7. \A b \in Actions : Absent(b)'
  BY DEF IInv, Absent
<1> QED
  BY <1>3, <1>4, <1>5, <1>6, <1>7, OthersKept DEF IInv

LEMMA ConsumeLostStep ==
    ASSUME IInv, NEW s \in Workers, ConsumeLost(s)
    PROVE  IInv'
<1>1. /\ Redeems(s) /\ End(s)
      /\ UNCHANGED <<row, bound, configured, rules, used, applied, unheard, undone,
                     astray>>
  BY DEF ConsumeLost, providerVars
<1>2. TypeOK'
  BY <1>1, RedeemsEffect, EndEffect DEF IInv, TypeOK
<1>3. \A t \in Tickets : redeemed'[t] >= redeemed[t]
  BY <1>1, RedeemsEffect DEF IInv, TypeOK
<1>4. txn[s].pc \notin {"applied", "unheard"}
  BY <1>1, RedeemsEffect
<1> QED
  BY <1>1, <1>2, <1>3, <1>4, EndStep

LEMMA AbortStep ==
    ASSUME IInv, NEW s \in Workers, Abort(s)
    PROVE  IInv'
<1>1. /\ End(s) /\ txn[s] # Idle
      /\ astray' = IF txn[s].pc \in {"applied", "unheard", "removed"} THEN astray \cup {txn[s].act}
                                                                  ELSE astray
      /\ UNCHANGED <<row, bound, open, granted, redeemed, configured, rules, used, applied,
                     unheard, undone>>
  BY DEF Abort, approvalVars, providerVars
<1>2. txn[s].act \in Actions
  BY <1>1 DEF IInv, Snapshot
<1>3. TypeOK'
  BY <1>1, <1>2, EndEffect DEF IInv, TypeOK
<1>4. \A t \in Tickets : redeemed'[t] >= redeemed[t]
  BY <1>1 DEF IInv, TypeOK
<1> QED
  BY <1>1, <1>3, <1>4, EndStep

\* What the provider's creation of a rule does.
LEMMA CreatesEffect ==
    ASSUME IInv, NEW s \in Workers, NEW r \in Ref, CreatesRule(s, r)
    PROVE  /\ txn[s].kind \in Running /\ txn[s].pc = "locked" /\ txn[s].act \in Actions
           /\ txn[s].ticket \in Tickets /\ bound[txn[s].ticket] = txn[s].act
           /\ rules' = rules \cup {[ref |-> r, act |-> txn[s].act, ticket |-> txn[s].ticket]}
           /\ rules' \subseteq Rule
           /\ used \subseteq used' /\ used' \subseteq RuleIds
           /\ applied' \in [Tickets -> Nat]
           /\ applied'[txn[s].ticket] = applied[txn[s].ticket] + 1
           /\ \A t \in Tickets \ {txn[s].ticket} : applied'[t] = applied[t]
           /\ UNCHANGED <<row, bound, open, granted, redeemed, configured, undone>>
<1>1. /\ txn[s].kind \in Running /\ txn[s].pc = "locked"
      /\ rules' = rules \cup {[ref |-> r, act |-> txn[s].act, ticket |-> txn[s].ticket]}
      /\ used' = used \cup ({r} \cap RuleIds)
      /\ applied' = [applied EXCEPT ![txn[s].ticket] = @ + 1]
      /\ UNCHANGED <<row, bound, open, granted, redeemed, configured, undone>>
  BY DEF CreatesRule, At, Running, approvalVars
<1>2. txn[s].act \in Actions /\ txn[s].ticket \in Tickets /\ bound[txn[s].ticket] = txn[s].act
  BY <1>1 DEF IInv, Snapshot, Running
<1>3. rules' \subseteq Rule
  BY <1>1, <1>2 DEF IInv, TypeOK, Rule
<1>4. /\ applied' \in [Tickets -> Nat]
      /\ applied'[txn[s].ticket] = applied[txn[s].ticket] + 1
      /\ \A t \in Tickets \ {txn[s].ticket} : applied'[t] = applied[t]
  BY <1>1, <1>2 DEF IInv, TypeOK
<1>5. used' \subseteq RuleIds
  BY <1>1 DEF IInv, TypeOK
<1> QED
  BY <1>1, <1>2, <1>3, <1>4, <1>5

\* The session that has created a rule stops spending its ticket.
LEMMA CreatesBacked ==
    ASSUME IInv, NEW s \in Workers, NEW r \in Ref, CreatesRule(s, r),
           txn'[s].pc \notin {"redeemed", "locked"},
           \A w \in Workers \ {s} : txn'[w] = txn[w]
    PROVE  /\ \A t \in Tickets : Backed(t)'
           /\ \A x \in rules' : RuleBacked(x)'
<1> DEFINE t == txn[s].ticket
<1>1. /\ txn[s].kind \in Running /\ txn[s].pc = "locked" /\ t \in Tickets
      /\ bound[t] = txn[s].act
      /\ rules' = rules \cup {[ref |-> r, act |-> txn[s].act, ticket |-> t]}
      /\ applied'[t] = applied[t] + 1
      /\ \A u \in Tickets \ {t} : applied'[u] = applied[u]
      /\ UNCHANGED <<redeemed, bound>>
  BY CreatesEffect
<1>2. ASSUME NEW u \in Tickets PROVE Backed(u)'
  <2>1. applied[u] \in Nat /\ redeemed[u] \in Nat /\ Cardinality(Spending(u)) \in Nat
    BY FS_CardinalityType DEF IInv, TypeOK, Backed
  <2>2. CASE u = t
    <3>1. Spending(u)' = Spending(u) \ {s} /\ s \in Spending(u)
      BY <1>1, <2>2 DEF Spending, At, Running
    <3>2. IsFiniteSet(Spending(u)') /\ Cardinality(Spending(u)') = Cardinality(Spending(u)) - 1
      BY <3>1, FS_RemoveElement DEF IInv, Backed
    <3> QED
      BY <1>1, <2>1, <2>2, <3>2 DEF IInv, Backed
  <2>3. CASE u # t
    <3>1. Spending(u)' = Spending(u)
      BY <1>1, <2>3 DEF Spending, At, Running
    <3> QED
      BY <1>1, <2>3, <3>1 DEF IInv, Backed
  <2> QED
    BY <2>2, <2>3
<1>3. ASSUME NEW x \in rules' PROVE RuleBacked(x)'
  <2>1. applied[t] \in Nat
    BY <1>1 DEF IInv, TypeOK
  <2>2. CASE x \in rules
    BY <1>1, <2>1, <2>2 DEF IInv, RuleBacked, TypeOK
  <2>3. CASE x = [ref |-> r, act |-> txn[s].act, ticket |-> t]
    BY <1>1, <2>1, <2>3 DEF RuleBacked
  <2> QED
    BY <1>1, <2>2, <2>3
<1> QED
  BY <1>2, <1>3

LEMMA ApplyStep ==
    ASSUME IInv, NEW s \in Workers, Apply(s)
    PROVE  IInv'
<1>1. PICK r \in Ref : CreatesRule(s, r) /\ txn' = [txn EXCEPT ![s].pc = "applied", ![s].ref = r]
  BY DEF Apply
<1> DEFINE new == [ref |-> r, act |-> txn[s].act, ticket |-> txn[s].ticket]
<1>2. /\ txn[s].kind \in Running /\ txn[s].pc = "locked" /\ txn[s].act \in Actions
      /\ rules' = rules \cup {new}
      /\ UNCHANGED <<row, bound, lock, unheard, astray>>
  BY <1>1, CreatesEffect DEF Apply
<1>3. /\ txn' \in [Workers -> Txn]
      /\ txn'[s].kind = txn[s].kind /\ txn'[s].pc = "applied" /\ txn'[s].act = txn[s].act
      /\ txn'[s].ticket = txn[s].ticket /\ txn'[s].status = txn[s].status /\ txn'[s].ref = r
      /\ \A w \in Workers \ {s} : txn'[w] = txn[w]
  <2>1. txn[s] \in Txn /\ txn' = [txn EXCEPT ![s] = [txn[s] EXCEPT !.pc = "applied", !.ref = r]]
    BY <1>1 DEF IInv, TypeOK
  <2>2. [txn[s] EXCEPT !.pc = "applied", !.ref = r] \in Txn
    BY <2>1 DEF Txn
  <2> QED
    BY <2>1, <2>2 DEF IInv, TypeOK, Txn
<1>4. TypeOK'
  BY <1>1, <1>2, <1>3, CreatesEffect DEF IInv, TypeOK
<1>5. Making(s, new)'
  BY <1>2, <1>3 DEF Making, At, Running
<1>6. Local(s)
  <2>1. \A w \in Workers \ {s} : txn[w].kind = "recommend" => txn'[s].act # txn[w].act
    BY <1>3 DEF IInv, Snapshot
  <2>2. \A x \in rules : ~Making(s, x)
    BY <1>2 DEF Making, At
  <2> QED
    BY <1>2, <1>3, <1>4, <1>5, <2>1, <2>2 DEF Local, Past
<1>7. Snapshot(s)' /\ Gone(s)'
  BY <1>2, <1>3 DEF IInv, Snapshot, Gone, At, Ending, Running
<1>8. /\ \A t \in Tickets : Backed(t)'
      /\ \A x \in rules' : RuleBacked(x)'
  BY <1>1, <1>3, CreatesBacked
<1>9. ASSUME NEW x \in rules', x.act \notin astray' PROVE Known(x)'
  <2>1. CASE x = new
    BY <1>2, <1>3, <2>1 DEF Known, Held, Making, At, Running
  <2>2. CASE x \in rules
    <3>1. Known(x)
      BY <1>2, <1>9, <2>2 DEF IInv
    <3>2. ASSUME NEW w \in Workers, Making(w, x) PROVE Making(w, x)'
      BY <1>2, <1>3, <3>2 DEF Making, At
    <3> QED
      BY <1>2, <3>1, <3>2 DEF Known, Held
  <2> QED
    BY <1>2, <2>1, <2>2
<1>10. \A b \in Actions : Absent(b)'
  BY <1>2 DEF IInv, Absent
<1> QED
  BY <1>4, <1>6, <1>7, <1>8, <1>9, <1>10, OthersKept DEF IInv

\* A session that has had its rule created and was answered with an error is about to say FAILED.
LEMMA ApplyUnheardStep ==
    ASSUME IInv, NEW s \in Workers, ApplyUnheard(s)
    PROVE  IInv'
<1>1. PICK r \in RuleIds : CreatesRule(s, r) /\ unheard' = unheard \cup {r}
  BY DEF ApplyUnheard
<1> DEFINE new == [ref |-> r, act |-> txn[s].act, ticket |-> txn[s].ticket]
<1> r \in Ref
  BY DEF Ref
<1>2. /\ txn[s].kind \in Running /\ txn[s].pc = "locked" /\ txn[s].act \in Actions
      /\ rules' = rules \cup {new}
      /\ UNCHANGED <<row, bound, lock, astray>>
  BY <1>1, CreatesEffect DEF ApplyUnheard
<1>3. /\ txn' \in [Workers -> Txn]
      /\ txn'[s].kind = txn[s].kind /\ txn'[s].pc = "unheard" /\ txn'[s].act = txn[s].act
      /\ txn'[s].ticket = txn[s].ticket /\ txn'[s].status = txn[s].status
      /\ \A w \in Workers \ {s} : txn'[w] = txn[w]
  BY GotoEffect DEF ApplyUnheard, IInv
<1>4. TypeOK'
  BY <1>1, <1>2, <1>3, CreatesEffect DEF IInv, TypeOK
<1>5. Making(s, new)'
  BY <1>1, <1>2, <1>3 DEF Making, At, Running
<1>6. Local(s)
  <2>1. \A w \in Workers \ {s} : txn[w].kind = "recommend" => txn'[s].act # txn[w].act
    BY <1>3 DEF IInv, Snapshot
  <2>2. \A x \in rules : ~Making(s, x)
    BY <1>2 DEF Making, At
  <2> QED
    BY <1>1, <1>2, <1>3, <1>4, <1>5, <2>1, <2>2 DEF Local, Past
<1>7. Snapshot(s)' /\ Gone(s)'
  BY <1>2, <1>3 DEF IInv, Snapshot, Gone, At, Ending, Running
<1>8. /\ \A t \in Tickets : Backed(t)'
      /\ \A x \in rules' : RuleBacked(x)'
  BY <1>1, <1>3, CreatesBacked
<1>9. ASSUME NEW x \in rules', x.act \notin astray' PROVE Known(x)'
  <2>1. CASE x = new
    BY <1>1, <1>2, <1>3, <2>1 DEF Known, Making, At, Running
  <2>2. CASE x \in rules
    <3>1. Known(x)
      BY <1>2, <1>9, <2>2 DEF IInv
    <3>2. ASSUME NEW w \in Workers, Making(w, x) PROVE Making(w, x)'
      BY <1>1, <1>2, <1>3, <3>2 DEF Making, At
    <3> QED
      BY <1>1, <1>2, <3>1, <3>2 DEF Known, Held
  <2> QED
    BY <1>2, <2>1, <2>2
<1>10. \A b \in Actions : Absent(b)'
  BY <1>2 DEF IInv, Absent
<1> QED
  BY <1>4, <1>6, <1>7, <1>8, <1>9, <1>10, OthersKept DEF IInv

LEMMA ApplyLostStep ==
    ASSUME IInv, NEW s \in Workers, ApplyLost(s)
    PROVE  IInv'
<1>1. PICK r \in Ref : CreatesRule(s, r)
  BY DEF ApplyLost
<1> DEFINE new == [ref |-> r, act |-> txn[s].act, ticket |-> txn[s].ticket]
<1>2. /\ txn[s].kind \in Running /\ txn[s].pc = "locked" /\ txn[s].act \in Actions
      /\ rules' = rules \cup {new}
      /\ astray' = astray \cup {txn[s].act}
      /\ UNCHANGED <<row, bound, unheard>>
  BY <1>1, CreatesEffect DEF ApplyLost
<1>3. /\ txn'[s] = Idle /\ \A w \in Workers \ {s} : txn'[w] = txn[w]
      /\ \A a \in Actions : lock[a] # s => lock'[a] = lock[a]
      /\ txn' \in [Workers -> Txn] /\ lock' \in [Actions -> Workers \cup {None}]
  BY EndEffect DEF ApplyLost, IInv
<1>4. TypeOK'
  BY <1>1, <1>2, <1>3, CreatesEffect DEF IInv, TypeOK
<1>5. Local(s)
  <2>1. \A w \in Workers \ {s} : txn[w].kind = "recommend" => txn'[s].act # txn[w].act
    BY <1>3, ConstantsApart DEF IInv, Snapshot, Idle
  <2>2. \A x \in rules : ~Making(s, x)
    BY <1>2 DEF Making, At
  <2> QED
    BY <1>2, <1>3, <1>4, <2>1, <2>2 DEF Local, Past
<1>6. Snapshot(s)' /\ Gone(s)'
  BY <1>3 DEF Snapshot, Gone, At, Ending, Running, Idle
<1>7. /\ \A t \in Tickets : Backed(t)'
      /\ \A x \in rules' : RuleBacked(x)'
  BY <1>1, <1>3, CreatesBacked DEF Idle
<1>8. ASSUME NEW x \in rules', x.act \notin astray' PROVE Known(x)'
  <2>1. x \in rules /\ Known(x)
    BY <1>2, <1>8 DEF IInv
  <2>2. ASSUME NEW w \in Workers, Making(w, x) PROVE Making(w, x)'
    BY <1>2, <1>3, <2>2 DEF Making, At
  <2> QED
    BY <1>2, <2>1, <2>2 DEF Known, Held
<1>9. \A b \in Actions : Absent(b)'
  BY <1>2 DEF IInv, Absent
<1> QED
  BY <1>4, <1>5, <1>6, <1>7, <1>8, <1>9, OthersKept DEF IInv

\* Session s commits q.  What it must have checked: a row that has been ACTIVE is not taken back,
\* and no rule of the action is lost, unless the commit is stale.
LEMMA CommitStep ==
    ASSUME IInv, NEW s \in Workers, NEW q \in Row, NEW stale \in BOOLEAN, Commit(s, q, stale),
           txn[s].act \in Actions, q.status # "ABSENT",
           stale \/ q.status \in {"ACTIVE"} \cup Ended \/ ~Past(txn[s].act),
           txn[s].pc \in {"applied", "unheard"} => stale \/ ~Past(txn[s].act),
           \A x \in rules : x.act = txn[s].act /\ x.act \notin astray /\ ~stale /\ Known(x) =>
             Held(q, x) \/ \E w \in Workers \ {s} : Making(w, x)
    PROVE  IInv'
<1> DEFINE a == txn[s].act
<1>1. /\ row'[a] = q
      /\ \A b \in Actions \ {a} : row'[b] = row[b]
      /\ txn'[s] = Idle
      /\ \A w \in Workers \ {s} : txn'[w] = txn[w]
      /\ \A b \in Actions : lock[b] # s => lock'[b] = lock[b]
      /\ astray' = IF stale THEN astray \cup {a} ELSE astray
      /\ UNCHANGED <<bound, rules, applied, unheard, redeemed>>
      /\ TypeOK'
  BY CommitEffect DEF IInv
<1>2. \A w \in Workers \ {s} : txn[w].kind = "recommend" => txn'[s].act # txn[w].act
  BY <1>1, ConstantsApart DEF IInv, Snapshot, Idle
<1>3. \A b \in Actions : Past(b) => Past(b)' \/ b \in astray'
  BY <1>1 DEF Past
<1>4. \A x \in rules : Making(s, x) /\ Past(x.act) => x.act \in astray'
  BY <1>1 DEF Making, At
<1>5. Local(s)
  BY <1>1, <1>2, <1>3, <1>4 DEF Local
<1>6. Snapshot(s)' /\ Gone(s)'
  BY <1>1 DEF Snapshot, Gone, At, Ending, Running, Idle
<1>7. \A t \in Tickets : Backed(t)'
  <2>1. \A t \in Tickets : redeemed'[t] \in Nat /\ redeemed'[t] >= redeemed[t]
    BY <1>1 DEF IInv, TypeOK
  <2> QED
    BY <1>1, <2>1, BackedKept DEF Idle, Running
<1>8. ASSUME NEW x \in rules' PROVE RuleBacked(x)' /\ (x.act \notin astray' => Known(x)')
  <2>1. x \in rules /\ x.act \in Actions
    BY <1>1 DEF IInv, TypeOK, Rule
  <2>2. RuleBacked(x)'
    BY <1>1, <2>1 DEF IInv, RuleBacked
  <2>3. ASSUME x.act \notin astray' PROVE Known(x)'
    <3>1. Known(x) /\ x.act \notin astray
      BY <1>1, <2>1, <2>3 DEF IInv
    <3>2. \A w \in Workers \ {s} : Making(w, x) => Making(w, x)'
      BY <1>1 DEF Making, At
    <3>3. CASE x.act # a
      <4>1. ~Making(s, x)
        BY <3>3 DEF Making
      <4> QED
        BY <1>1, <2>1, <3>1, <3>2, <3>3, <4>1 DEF Known, Held
    <3>4. CASE x.act = a
      <4>1. ~stale
        BY <1>1, <2>3, <3>4
      <4>2. Held(q, x) \/ \E w \in Workers \ {s} : Making(w, x)
        BY <2>1, <3>1, <3>4, <4>1
      <4> QED
        BY <1>1, <3>2, <3>4, <4>2 DEF Known, Held
    <3> QED
      BY <3>3, <3>4
  <2> QED
    BY <2>2, <2>3
<1>9. \A b \in Actions : Absent(b)'
  BY <1>1 DEF IInv, Absent
<1> QED
  BY <1>1, <1>5, <1>6, <1>7, <1>8, <1>9, OthersKept DEF IInv

LEMMA RecommendCommitStep ==
    ASSUME IInv, NEW s \in Workers, NEW auto \in BOOLEAN, RecommendCommit(s, auto)
    PROVE  IInv'
<1> DEFINE q == [NoRow EXCEPT !.status = "RECOMMENDED", !.auto = auto, !.waf = configured]
<1>1. /\ txn[s].kind = "recommend" /\ txn[s].pc = "read" /\ txn[s].act \in Actions
      /\ row[txn[s].act].status = "ABSENT"
      /\ Commit(s, q, FALSE)
  BY DEF RecommendCommit, At, IInv, Snapshot
<1>2. q \in Row /\ q.status = "RECOMMENDED"
  BY DEF NoRow, Row, Status, IInv, TypeOK
<1>3. ~Past(txn[s].act)
  BY <1>1 DEF Past, Ended
<1>4. ASSUME NEW x \in rules, x.act = txn[s].act, Known(x)
      PROVE  \E w \in Workers \ {s} : Making(w, x)
  BY <1>1, <1>4 DEF Known, Held, Making, At
<1> QED
  BY <1>1, <1>2, <1>3, <1>4, CommitStep

\* Rules of an action are tracked by others while its row is neither ACTIVE nor FAILED.
LEMMA KnownElsewhere ==
    ASSUME NEW s \in Workers, NEW x, Known(x), row[x.act].status \notin {"ACTIVE", "FAILED"},
           txn[s].pc \notin {"applied", "unheard"}
    PROVE  \E w \in Workers \ {s} : Making(w, x)
BY DEF Known, Held, Making, At

LEMMA RequestCommitStep ==
    ASSUME IInv, NEW s \in Workers, RequestCommit(s)
    PROVE  IInv'
<1> DEFINE a == txn[s].act
           q == [row[a] EXCEPT !.status = "PENDING_APPROVAL", !.auto = FALSE,
                               !.ticket = txn[s].ticket]
<1>1. /\ txn[s].kind = "request" /\ txn[s].pc = "ticketed" /\ a \in Actions
      /\ txn[s].status = "RECOMMENDED" /\ txn[s].ticket \in Tickets
      /\ Commit(s, q, Stale(s)) /\ Stale(s) \in BOOLEAN
  BY DEF RequestCommit, At, IInv, Snapshot, Stale
<1>2. row[a] \in Row /\ q \in Row /\ q.status = "PENDING_APPROVAL"
  <2>1. row[a] \in Row
    BY <1>1 DEF IInv, TypeOK
  <2> QED
    BY <1>1, <2>1 DEF Row, Status
<1>3. ~Stale(s) => row[a].status = "RECOMMENDED"
  BY <1>1 DEF Stale
<1>4. Stale(s) \/ ~Past(a)
  BY <1>3 DEF Past, Ended
<1>5. \A x \in rules : x.act = a /\ ~Stale(s) /\ Known(x) => \E w \in Workers \ {s} : Making(w, x)
  BY <1>1, <1>3, KnownElsewhere
<1> HIDE DEF q
<1> QED
  BY <1>1, <1>2, <1>4, <1>5, CommitStep

LEMMA DismissCommitStep ==
    ASSUME IInv, NEW s \in Workers, DismissCommit(s)
    PROVE  IInv'
<1> DEFINE a == txn[s].act
           q == [row[a] EXCEPT !.status = "DISMISSED"]
<1>1. /\ txn[s].kind = "dismiss" /\ txn[s].pc = "read" /\ a \in Actions
      /\ txn[s].status = "RECOMMENDED"
      /\ Commit(s, q, Stale(s)) /\ Stale(s) \in BOOLEAN
  BY DEF DismissCommit, At, IInv, Snapshot, Stale
<1>2. row[a] \in Row /\ q \in Row /\ q.status = "DISMISSED"
  BY <1>1 DEF IInv, TypeOK, Row, Status, Ended
<1>3. ~Stale(s) => row[a].status = "RECOMMENDED"
  BY <1>1 DEF Stale
<1>4. \A x \in rules : x.act = a /\ ~Stale(s) /\ Known(x) => \E w \in Workers \ {s} : Making(w, x)
  BY <1>1, <1>3, KnownElsewhere
<1> HIDE DEF q
<1> QED
  BY <1>1, <1>2, <1>4, CommitStep DEF Ended

\* What ends an action that is not stale has removed its rule, or waits for who put it back.
LEMMA RevertCommitStep ==
    ASSUME IInv, NEW s \in Workers, RevertCommit(s)
    PROVE  IInv'
<1> DEFINE a == txn[s].act
           q == [row[a] EXCEPT !.status = IF txn[s].kind = "expire" THEN "EXPIRED" ELSE "REVERTED"]
<1>1. /\ At(s, Ending, "removed") /\ a \in Actions /\ txn[s].status = "ACTIVE"
      /\ Commit(s, q, Stale(s)) /\ Stale(s) \in BOOLEAN
  BY DEF RevertCommit, At, IInv, Snapshot, Stale, Ending
<1>2. row[a] \in Row /\ q \in Row /\ q.status \in Ended
  <2>1. row[a] \in Row
    BY <1>1 DEF IInv, TypeOK
  <2> QED
    BY <2>1 DEF Row, Status, Ended
<1>3. ASSUME NEW x \in rules, x.act = a, x.act \notin astray, ~Stale(s), Known(x)
      PROVE  \E w \in Workers \ {s} : Making(w, x)
  <2>1. row[a].ref = txn[s].ref /\ row[a].status = "ACTIVE"
    BY <1>1, <1>3 DEF Stale
  <2>2. \E w \in Workers : Making(w, x)
    BY <1>1, <1>3, <2>1 DEF IInv, Gone, Known, Held
  <2> QED
    BY <1>1, <2>2 DEF Making, At
<1>4. txn[s].pc \notin {"applied", "unheard"} /\ q.status # "ABSENT"
  BY <1>1, <1>2 DEF At, Ended
<1> HIDE DEF q
<1> QED
  BY <1>1, <1>2, <1>3, <1>4, CommitStep

LEMMA ExecuteCommitStep ==
    ASSUME IInv, NEW s \in Workers, ExecuteCommit(s)
    PROVE  IInv'
<1> DEFINE a == txn[s].act
           p == row[a]
           st == IF txn[s].kind = "preapprove" THEN [p EXCEPT !.ticket = txn[s].ticket] ELSE p
           stale == p.status # txn[s].status
           q1 == [st EXCEPT !.status = "ACTIVE", !.ref = txn[s].ref, !.due = FALSE]
           q2 == [st EXCEPT !.status = "FAILED"]
<1>1. /\ txn[s].kind \in Running /\ a \in Actions
      /\ txn[s].status \in {"RECOMMENDED", "PENDING_APPROVAL"}
      /\ \/ txn[s].pc = "applied" /\ Commit(s, q1, stale)
         \/ txn[s].pc \in {"refused", "unheard"} /\ Commit(s, q2, stale)
  BY DEF ExecuteCommit, Failing, At, IInv, Snapshot, Running
<1>2. p \in Row /\ txn[s].ticket \in Tickets \cup {None} /\ txn[s].ref \in Ref \cup {None, Manual}
  BY <1>1 DEF IInv, TypeOK, Txn
<1>3. st \in Row
  BY <1>2 DEF Row
<1>4. /\ q1 \in Row /\ q1.status = "ACTIVE" /\ q1.ref = txn[s].ref
      /\ q2 \in Row /\ q2.status = "FAILED"
  <2> HIDE DEF st
  <2>1. q1 \in Row /\ q1.status = "ACTIVE" /\ q1.ref = txn[s].ref
    BY <1>2, <1>3 DEF Row, Status
  <2>2. q2 \in Row /\ q2.status = "FAILED"
    BY <1>3 DEF Row, Status, Ended
  <2> QED
    BY <2>1, <2>2
<1>5. stale \/ ~Past(a)
  BY <1>1 DEF Past, Ended
<1>6. ~stale => p.status \notin {"ACTIVE", "FAILED"}
  BY <1>1
<1>7. CASE txn[s].pc = "applied" /\ Commit(s, q1, stale)
  <2>1. ASSUME NEW x \in rules, x.act = a, ~stale, Known(x)
        PROVE  Held(q1, x) \/ \E w \in Workers \ {s} : Making(w, x)
    <3> HIDE DEF q1, st
    <3> QED
      BY <1>4, <1>6, <1>7, <2>1 DEF Known, Held, Making, At
  <2> HIDE DEF q1, st
  <2> QED
    BY <1>1, <1>4, <1>5, <1>7, <2>1, CommitStep
<1>8. CASE txn[s].pc \in {"refused", "unheard"} /\ Commit(s, q2, stale)
  <2>1. ASSUME NEW x \in rules, x.act = a, ~stale, Known(x)
        PROVE  Held(q2, x) \/ \E w \in Workers \ {s} : Making(w, x)
    BY <1>4, <1>6, <1>8, <2>1 DEF Known, Held, Making, At
  <2> HIDE DEF q2, st
  <2> QED
    BY <1>1, <1>4, <1>5, <1>8, <2>1, CommitStep DEF Ended
<1> QED
  BY <1>1, <1>7, <1>8

LEMMA RemoveStep ==
    ASSUME IInv, NEW s \in Workers, Remove(s)
    PROVE  IInv'
<1> DEFINE a == txn[s].act
<1>1. /\ txn[s].kind \in Ending /\ txn[s].pc = "read" /\ a \in Actions
      /\ rules' = IF Automated(a) THEN {x \in rules : x.ref # txn[s].ref} ELSE rules
      /\ astray' = IF txn[s].ref \in Ref /\ ~Automated(a) THEN astray \cup {a} ELSE astray
      /\ Goto(s, "removed")
      /\ UNCHANGED <<row, lock, bound, open, granted, redeemed, configured, used, applied, unheard>>
  BY DEF Remove, Removes, At, Ending, approvalVars, IInv, Snapshot
<1>2. /\ txn' \in [Workers -> Txn]
      /\ txn'[s].kind = txn[s].kind /\ txn'[s].pc = "removed" /\ txn'[s].act = a
      /\ txn'[s].ticket = txn[s].ticket /\ txn'[s].status = txn[s].status
      /\ txn'[s].ref = txn[s].ref
      /\ \A w \in Workers \ {s} : txn'[w] = txn[w]
  BY <1>1, GotoEffect DEF IInv
<1>3. /\ rules' \subseteq rules /\ astray \subseteq astray' /\ astray' \subseteq Actions
      /\ undone' \subseteq Actions
  <2>1. undone' = undone \cup ({x.act : x \in rules \ rules'} \ {a})
    BY DEF Remove, Removes
  <2>2. \A x \in rules : x.act \in Actions
    BY DEF IInv, TypeOK, Rule
  <2> QED
    BY <1>1, <2>1, <2>2 DEF IInv, TypeOK
<1>4. TypeOK'
  BY <1>1, <1>2, <1>3 DEF IInv, TypeOK
<1>5. Local(s)
  <2>1. \A w \in Workers \ {s} : txn[w].kind = "recommend" => txn'[s].act # txn[w].act
    BY <1>2 DEF IInv, Snapshot
  <2>2. \A x \in rules : ~Making(s, x)
    BY <1>1 DEF Making, At
  <2> QED
    BY <1>1, <1>2, <1>3, <1>4, <2>1, <2>2 DEF Local, Past
<1>6. Snapshot(s)'
  BY <1>1, <1>2, <1>3 DEF IInv, Snapshot, Ending, Running, Past
<1>7. Gone(s)'
  <2>1. \A x \in rules : x.ref \in Ref
    BY DEF IInv, TypeOK, Rule
  <2> QED
    BY <1>1, <1>2, <2>1 DEF Gone
<1>8. \A t \in Tickets : Backed(t)'
  <2>1. \A t \in Tickets : redeemed'[t] \in Nat /\ redeemed'[t] >= redeemed[t]
    BY <1>1 DEF IInv, TypeOK
  <2> QED
    BY <1>1, <1>2, <2>1, BackedKept DEF Ending, Running
<1>9. ASSUME NEW x \in rules' PROVE RuleBacked(x)' /\ (x.act \notin astray' => Known(x)')
  <2>1. RuleBacked(x)'
    BY <1>1, <1>3 DEF IInv, RuleBacked
  <2>2. ASSUME x.act \notin astray' PROVE Known(x)'
    <3>1. Known(x)
      BY <1>3, <2>2 DEF IInv
    <3>2. ASSUME NEW w \in Workers, Making(w, x) PROVE Making(w, x)'
      BY <1>1, <1>2, <3>2 DEF Making, At
    <3> QED
      BY <1>1, <3>1, <3>2 DEF Known, Held
  <2> QED
    BY <2>1, <2>2
<1>10. \A b \in Actions : Absent(b)'
  BY <1>1 DEF IInv, Absent
<1> QED
  BY <1>4, <1>5, <1>6, <1>7, <1>8, <1>9, <1>10, OthersKept DEF IInv

\* Steps of the environment, and stuttering: rows keep status, ticket and reference.
LEMMA EnvStep ==
    ASSUME IInv, TypeOK',
           UNCHANGED <<lock, txn, bound, redeemed, rules, applied, unheard, astray>>,
           \A a \in Actions : /\ row'[a].status = row[a].status
                              /\ row'[a].ticket = row[a].ticket
                              /\ row'[a].ref = row[a].ref
    PROVE  IInv'
<1>1. ASSUME NEW s \in Workers PROVE Snapshot(s)' /\ Gone(s)'
  <2>1. Snapshot(s) /\ Gone(s)
    BY DEF IInv
  <2>2. \A x : Making(s, x)' <=> Making(s, x)
    BY DEF Making, At
  <2>3. Snapshot(s)'
    BY <2>1 DEF Snapshot, Past, Running, Ending
  <2>4. Gone(s)'
    BY <2>1, <2>2 DEF Gone, At, Making
  <2> QED
    BY <2>3, <2>4
<1>2. ASSUME NEW a \in Actions PROVE Absent(a)'
  BY DEF IInv, Absent
<1>3. \A t \in Tickets : Backed(t)'
  <2>1. \A t \in Tickets : redeemed'[t] \in Nat /\ redeemed'[t] >= redeemed[t]
    BY DEF IInv, TypeOK
  <2> QED
    BY <2>1, BackedKept
<1>4. ASSUME NEW x \in rules PROVE RuleBacked(x)' /\ (x.act \notin astray => Known(x)')
  <2>1. x.act \in Actions /\ RuleBacked(x) /\ (x.act \notin astray => Known(x))
    BY DEF IInv, TypeOK, Rule
  <2> QED
    BY <2>1 DEF RuleBacked, Known, Held, Making, At
<1> QED
  BY <1>1, <1>2, <1>3, <1>4 DEF IInv

LEMMA EnvSteps ==
    ASSUME IInv,
           \/ \E t \in Tickets : Approve(t) \/ CloseTicket(t)
           \/ Configure
           \/ \E a \in Actions : Elapse(a)
           \/ UNCHANGED vars
    PROVE  IInv'
<1> USE DEF approvalVars, providerVars
<1>1. ASSUME NEW t \in Tickets, Approve(t) PROVE IInv'
  <2>1. TypeOK'
    BY <1>1 DEF Approve, V!Grant, IInv, TypeOK
  <2> QED
    BY <1>1, <2>1, EnvStep DEF Approve, V!Grant
<1>2. ASSUME NEW t \in Tickets, CloseTicket(t) PROVE IInv'
  <2>1. TypeOK'
    BY <1>2 DEF CloseTicket, V!Void, IInv, TypeOK
  <2> QED
    BY <1>2, <2>1, EnvStep DEF CloseTicket, V!Void
<1>3. CASE Configure
  <2>1. TypeOK'
    BY <1>3 DEF Configure, IInv, TypeOK
  <2> QED
    BY <1>3, <2>1, EnvStep DEF Configure
<1>4. ASSUME NEW a \in Actions, Elapse(a) PROVE IInv'
  <2>1. row[a] \in Row /\ row' = [row EXCEPT ![a] = [row[a] EXCEPT !.due = TRUE]]
    BY <1>4 DEF Elapse, IInv, TypeOK
  <2>2. [row[a] EXCEPT !.due = TRUE] \in Row
    BY <2>1 DEF Row
  <2>3. TypeOK'
    BY <1>4, <2>1, <2>2 DEF Elapse, IInv, TypeOK
  <2>4. \A b \in Actions : /\ row'[b].status = row[b].status
                           /\ row'[b].ticket = row[b].ticket
                           /\ row'[b].ref = row[b].ref
    BY <2>1 DEF IInv, TypeOK, Row
  <2> QED
    BY <1>4, <2>3, <2>4, EnvStep DEF Elapse
<1>5. CASE UNCHANGED vars
  <2>1. TypeOK'
    BY <1>5 DEF vars, IInv, TypeOK
  <2> QED
    BY <1>5, <2>1, EnvStep DEF vars
<1> QED
  BY <1>1, <1>2, <1>3, <1>4, <1>5

LEMMA NextIInv == IInv /\ [Next]_vars => IInv'
<1> SUFFICES ASSUME IInv, [Next]_vars PROVE IInv'
  OBVIOUS
<1>1. ASSUME NEW s \in Workers, Proceed(s) PROVE IInv'
  BY <1>1, RecommendCommitStep, RequestCreateStep, PreapproveGrantStep, RequestCommitStep,
     PreapproveFlushStep, ConsumeStep, ConsumeLostStep, ExecuteFlushStep, ApplyStep, ApplyLostStep,
     ApplyManualStep, ApplyRefusedStep, ApplyUnheardStep, ExecuteCommitStep, RemoveStep,
     RevertCommitStep, DismissCommitStep, AbortStep DEF Proceed
<1> QED
  BY <1>1, ReadSteps, ExpireReadStep, EnvSteps DEF Next

LEMMA Invariance == Spec => []IInv
BY InitIInv, NextIInv, PTL DEF Spec

-----------------------------------------------------------------------------
(* What follows *)

\* The provider is called at most once for each redemption of an approval, and every rule in
\* force was created under a redeemed approval of its own action (DefenseService.execute).
THEOREM RulesBackedHolds == Spec => []RulesBacked
<1>1. IInv => RulesBacked
  BY DEF IInv, Backed, RuleBacked, RulesBacked
<1> QED
  BY <1>1, Invariance, PTL

\* Every commit is along the flow, or stale, and makes a row ACTIVE only under the reference that
\* its own session was given.
Along(s) ==
    \E q \in Row, stale \in BOOLEAN :
        /\ Commit(s, q, stale) /\ txn[s].act \in Actions
        /\ stale \/ <<row[txn[s].act].status, q.status>> \in Flow
        /\ q.ref \in {row[txn[s].act].ref, txn[s].ref, None}
        /\ q.status = "ACTIVE" => At(s, Running, "applied") /\ q.ref = txn[s].ref
        /\ At(s, Ending, "removed") => q.status \in {"REVERTED", "EXPIRED"}

LEMMA CommitsAlong ==
    ASSUME IInv, NEW s \in Workers,
           \/ \E auto \in BOOLEAN : RecommendCommit(s, auto)
           \/ RequestCommit(s) \/ DismissCommit(s) \/ RevertCommit(s) \/ ExecuteCommit(s)
    PROVE  Along(s)
<1> DEFINE t == txn[s]
           p == row[t.act]
<1>1. t.kind # "idle" => t.act \in Actions /\ p \in Row
  BY DEF IInv, Snapshot, TypeOK
<1>2. t \in Txn /\ Snapshot(s) /\ configured \in BOOLEAN
  BY DEF IInv, TypeOK
<1>3. ASSUME NEW auto \in BOOLEAN, RecommendCommit(s, auto) PROVE Along(s)
  <2> DEFINE q == [NoRow EXCEPT !.status = "RECOMMENDED", !.auto = auto, !.waf = configured]
  <2>1. q \in Row /\ q.status = "RECOMMENDED" /\ q.ref = None
    BY <1>2 DEF NoRow, Row, Status
  <2>2. /\ t.act \in Actions /\ p.status = "ABSENT" /\ Commit(s, q, FALSE)
        /\ ~At(s, Ending, "removed")
    BY <1>1, <1>2, <1>3 DEF RecommendCommit, At, Snapshot
  <2> HIDE DEF q
  <2> QED
    BY <2>1, <2>2 DEF Along, Flow
<1>4. CASE RequestCommit(s)
  <2> DEFINE q == [p EXCEPT !.status = "PENDING_APPROVAL", !.auto = FALSE, !.ticket = t.ticket]
  <2>1. /\ t.act \in Actions /\ p \in Row /\ t.status = "RECOMMENDED" /\ Commit(s, q, Stale(s))
        /\ ~At(s, Ending, "removed")
    BY <1>1, <1>2, <1>4 DEF RequestCommit, At, Snapshot
  <2>2. q \in Row /\ q.status = "PENDING_APPROVAL" /\ q.ref = p.ref
    BY <1>2, <2>1 DEF Row, Status, Txn
  <2>3. Stale(s) \in BOOLEAN /\ (Stale(s) \/ p.status = "RECOMMENDED")
    BY <2>1 DEF Stale
  <2> HIDE DEF q
  <2> QED
    BY <2>1, <2>2, <2>3 DEF Along, Flow
<1>5. CASE DismissCommit(s)
  <2> DEFINE q == [p EXCEPT !.status = "DISMISSED"]
  <2>1. /\ t.act \in Actions /\ p \in Row /\ t.status = "RECOMMENDED" /\ Commit(s, q, Stale(s))
        /\ ~At(s, Ending, "removed")
    BY <1>1, <1>2, <1>5 DEF DismissCommit, At, Snapshot
  <2>2. q \in Row /\ q.status = "DISMISSED" /\ q.ref = p.ref
    BY <2>1 DEF Row, Status, Ended
  <2>3. Stale(s) \in BOOLEAN /\ (Stale(s) \/ p.status = "RECOMMENDED")
    BY <2>1 DEF Stale
  <2> HIDE DEF q
  <2> QED
    BY <2>1, <2>2, <2>3 DEF Along, Flow
<1>6. CASE RevertCommit(s)
  <2> DEFINE q == [p EXCEPT !.status = IF t.kind = "expire" THEN "EXPIRED" ELSE "REVERTED"]
  <2>1. t.act \in Actions /\ p \in Row /\ t.status = "ACTIVE" /\ Commit(s, q, Stale(s))
    BY <1>1, <1>2, <1>6 DEF RevertCommit, At, Snapshot, Ending
  <2>2. q \in Row /\ q.status \in {"EXPIRED", "REVERTED"} /\ q.ref = p.ref
    BY <2>1 DEF Row, Status, Ended
  <2>3. Stale(s) \in BOOLEAN /\ (Stale(s) \/ p.status = "ACTIVE")
    BY <2>1 DEF Stale
  <2> HIDE DEF q
  <2> QED
    BY <2>1, <2>2, <2>3 DEF Along, Flow
<1>7. CASE ExecuteCommit(s)
  <2> DEFINE st == IF t.kind = "preapprove" THEN [p EXCEPT !.ticket = t.ticket] ELSE p
             stale == p.status # t.status
             q1 == [st EXCEPT !.status = "ACTIVE", !.ref = t.ref, !.due = FALSE]
             q2 == [st EXCEPT !.status = "FAILED"]
  <2>1. /\ t.act \in Actions /\ p \in Row /\ t.status \in {"RECOMMENDED", "PENDING_APPROVAL"}
        /\ \/ Commit(s, q1, stale) /\ At(s, Running, "applied")
           \/ Commit(s, q2, stale)
        /\ ~At(s, Ending, "removed")
    BY <1>1, <1>2, <1>7 DEF ExecuteCommit, Failing, At, Snapshot, Running
  <2>2. st \in Row
    BY <1>2, <2>1 DEF Row, Txn
  <2>3. /\ q1 \in Row /\ q1.status = "ACTIVE" /\ q1.ref = t.ref
        /\ q2 \in Row /\ q2.status = "FAILED" /\ q2.ref = p.ref
    <3>1. t.ref \in Ref \cup {None, Manual} /\ st.ref = p.ref
      BY <1>2, <2>1 DEF Row, Txn
    <3> HIDE DEF st
    <3>2. q1 \in Row /\ q1.status = "ACTIVE" /\ q1.ref = t.ref
      BY <2>2, <3>1 DEF Row, Status
    <3>3. q2 \in Row /\ q2.status = "FAILED" /\ q2.ref = p.ref
      BY <2>2, <3>1 DEF Row, Status, Ended
    <3> QED
      BY <3>2, <3>3
  <2>4. stale \in BOOLEAN /\ (stale \/ p.status \in {"RECOMMENDED", "PENDING_APPROVAL"})
    BY <2>1
  <2> HIDE DEF q1, q2, st, stale
  <2> QED
    BY <2>1, <2>3, <2>4 DEF Along, Flow
<1> QED
  BY <1>3, <1>4, <1>5, <1>6, <1>7

\* A row leaves the flow of the runbook only by a commit that found another row than it read.
THEOREM FollowsFlowHolds == Spec => FollowsFlow
<1>1. ASSUME IInv, [Next]_vars PROVE FlowStep
  <2> SUFFICES ASSUME NEW a \in Actions, row'[a].status # row[a].status
               PROVE  <<row[a].status, row'[a].status>> \in Flow \/ a \in astray'
    BY DEF FlowStep
  <2>1. ASSUME NEW s \in Workers, Along(s)
        PROVE  <<row[a].status, row'[a].status>> \in Flow \/ a \in astray'
    <3>1. PICK q \in Row, stale \in BOOLEAN :
            /\ Commit(s, q, stale) /\ txn[s].act \in Actions
            /\ stale \/ <<row[txn[s].act].status, q.status>> \in Flow
      BY <2>1 DEF Along
    <3>2. /\ row'[txn[s].act] = q
          /\ \A b \in Actions \ {txn[s].act} : row'[b] = row[b]
          /\ astray' = IF stale THEN astray \cup {txn[s].act} ELSE astray
      BY <1>1, <3>1, CommitEffect DEF IInv
    <3> QED
      BY <3>1, <3>2
  <2>2. ASSUME NEW s \in Workers, Proceed(s) PROVE UNCHANGED row \/ Along(s)
    BY <1>1, <2>2, CommitsAlong
       DEF Proceed, RequestCreate, PreapproveGrant, PreapproveFlush, Consume, ConsumeLost,
           ExecuteFlush, Apply, ApplyLost, CreatesRule, ApplyManual, ApplyRefused,
           ApplyUnheard, Remove, Removes, Abort
  <2>3. ASSUME NEW b \in Actions, Elapse(b) PROVE row'[a].status = row[a].status
    BY <1>1, <2>3 DEF Elapse, IInv, TypeOK, Row
  <2>4. ASSUME NEW s \in Workers, NEW k, NEW b \in Actions, Read(s, k, b) PROVE UNCHANGED row
    BY <2>4 DEF Read
  <2>5. ASSUME NEW s \in Sessions, NEW b \in Actions,
               \/ RecommendRead(s, b) \/ RequestRead(s, b) \/ PreapproveRead(s, b)
               \/ ExecuteRead(s, b) \/ RevertRead(s, b) \/ DismissRead(s, b)
        PROVE  UNCHANGED row
    BY <2>4, <2>5 DEF RecommendRead, RequestRead, PreapproveRead, ExecuteRead, RevertRead,
                      DismissRead, Workers
  <2>6. ASSUME NEW b \in Actions, ExpireRead(b) PROVE UNCHANGED row
    BY <2>4, <2>6 DEF ExpireRead, Workers
  <2>7. ASSUME NEW t \in Tickets, Approve(t) \/ CloseTicket(t) PROVE UNCHANGED row
    BY <2>7 DEF Approve, CloseTicket
  <2>8. Configure \/ UNCHANGED vars => UNCHANGED row
    BY DEF Configure, vars
  <2> QED
    BY <1>1, <2>1, <2>2, <2>3, <2>5, <2>6, <2>7, <2>8 DEF Next
<1> QED
  BY <1>1, Invariance, PTL DEF FollowsFlow, Spec

-----------------------------------------------------------------------------
(* Rules in force: what an ACTIVE row says is so *)

\* Action a goes by reference r: in its row, in a transaction, or at the provider.
GoesBy(a, r) ==
    \/ row[a].ref = r
    \/ \E s \in Workers : txn[s].act = a /\ txn[s].ref = r
    \/ \E x \in rules : x.act = a /\ x.ref = r

\* A reference is an element of a set, or was given out for one action.
OneOwner ==
    \A r \in Ref, a \in Actions : GoesBy(a, r) =>
        IF a \in InSet THEN r = Address[a]
        ELSE r \in used /\ \A b \in Actions : GoesBy(b, r) => a = b

\* An ACTIVE action that names a rule has it in force, or is about to be ended.
InForce(a) ==
    row[a].status = "ACTIVE" /\ row[a].ref \in Ref /\ a \notin astray \cup undone =>
      \/ \E x \in rules : x.act = a /\ x.ref = row[a].ref
      \/ \E s \in Workers : txn[s].act = a /\ At(s, Ending, "removed")

\* So does a session that is about to make its action ACTIVE, unless its commit will be stale.
Made(s) ==
    At(s, Running, "applied") /\ txn[s].ref \in Ref /\ txn[s].act \notin astray \cup undone =>
      (\E x \in rules : x.act = txn[s].act /\ x.ref = txn[s].ref) \/ Past(txn[s].act)

\* The invariant of RulesTracked, over IInv.
ForceInv ==
    /\ OneOwner
    /\ \A a \in Actions : InForce(a)
    /\ \A s \in Workers : Made(s)
    /\ \A a \in undone : \E b \in Actions : Undoes(b, a)

LEMMA InitForceInv == Init => ForceInv
<1> SUFFICES ASSUME Init PROVE ForceInv
  OBVIOUS
<1>1. \A r \in Ref, a \in Actions : ~GoesBy(a, r)
  BY ConstantsApart DEF Init, NoRow, Idle, GoesBy
<1> QED
  BY <1>1 DEF Init, ForceInv, OneOwner, InForce, Made, NoRow, Idle, At

LEMMA SameOwners ==
    ASSUME ForceInv, used \subseteq used', \A a \in Actions, r \in Ref : GoesBy(a, r)' => GoesBy(a, r)
    PROVE  OneOwner'
BY DEF ForceInv, OneOwner

\* A new rule: its reference is fresh, or the address of its action.
LEMMA NewOwner ==
    ASSUME IInv, ForceInv, NEW s \in Workers, NEW r \in Ref, CreatesRule(s, r),
           \A w \in Workers, b \in Actions, q \in Ref :
             txn'[w].act = b /\ txn'[w].ref = q => GoesBy(b, q) \/ (b = txn[s].act /\ q = r)
    PROVE  OneOwner'
<1> DEFINE a == txn[s].act
<1>1. /\ a \in Actions /\ used \subseteq used' /\ UNCHANGED row
      /\ rules' = rules \cup {[ref |-> r, act |-> a, ticket |-> txn[s].ticket]}
  BY CreatesEffect
<1>2. \A b \in Actions, q \in Ref : GoesBy(b, q)' => GoesBy(b, q) \/ (b = a /\ q = r)
  BY <1>1 DEF GoesBy
<1>3. IF a \in InSet THEN r = Address[a] ELSE r \in RuleIds \ used /\ r \in used'
  BY DEF CreatesRule
<1>4. \A c \in Actions, q \in Ref : GoesBy(c, q) => IF c \in InSet THEN q = Address[c] ELSE q \in used
  BY DEF ForceInv, OneOwner
<1>5. used \subseteq RuleIds /\ \A c \in Actions : Address[c] \notin RuleIds
  BY ActionAssumption DEF IInv, TypeOK
<1> SUFFICES ASSUME NEW q \in Ref, NEW b \in Actions, GoesBy(b, q)'
             PROVE  IF b \in InSet THEN q = Address[b]
                    ELSE q \in used' /\ \A c \in Actions : GoesBy(c, q)' => b = c
  BY DEF OneOwner
<1>6. CASE b \in InSet
  BY <1>2, <1>3, <1>4, <1>6
<1>7. CASE b \notin InSet
  <2>1. q \in used'
    BY <1>1, <1>2, <1>3, <1>4, <1>7
  <2>2. ASSUME NEW c \in Actions, GoesBy(c, q)' PROVE b = c
    <3>1. CASE GoesBy(b, q) /\ GoesBy(c, q)
      BY <1>7, <3>1 DEF ForceInv, OneOwner
    <3>2. CASE GoesBy(b, q) /\ c = a /\ q = r
      BY <1>3, <1>4, <1>5, <1>7, <3>2
    <3>3. CASE b = a /\ q = r /\ GoesBy(c, q)
      BY <1>3, <1>4, <1>5, <1>7, <3>3
    <3> QED
      BY <1>2, <2>2, <3>1, <3>2, <3>3
  <2> QED
    BY <1>7, <2>1, <2>2
<1> QED
  BY <1>6, <1>7

\* Whose end took a rule out stays ended, or goes astray.
LEMMA StaysUndone ==
    ASSUME NEW a \in Actions, NEW b \in Actions, Undoes(b, a), astray \subseteq astray',
           row'[b].status = row[b].status \/ b \in astray'
             \/ row[b].status \notin {"REVERTED", "EXPIRED"},
           \A s \in Workers : txn[s].act = b /\ At(s, Ending, "removed") =>
             \/ b \in astray' \/ row'[b].status \in {"REVERTED", "EXPIRED"}
             \/ At(s, Ending, "removed")' /\ txn'[s].act = b
    PROVE  Undoes(b, a)'
BY DEF Undoes, Ending

\* A step that takes no rule away and changes nothing of what a row says of them.
LEMMA QuietForce ==
    ASSUME ForceInv, OneOwner', rules \subseteq rules', UNCHANGED undone, astray \subseteq astray',
           undone \subseteq Actions,
           \A a \in Actions : row'[a].status = row[a].status /\ row'[a].ref = row[a].ref,
           \A s \in Workers : At(s, Ending, "removed") =>
             txn[s].act \in astray' \/ (At(s, Ending, "removed")' /\ txn'[s].act = txn[s].act),
           \A s \in Workers : At(s, Running, "applied")' =>
             \/ txn'[s].ref \notin Ref
             \/ At(s, Running, "applied") /\ txn'[s].ref = txn[s].ref /\ txn'[s].act = txn[s].act,
           \A s \in Workers : txn[s].kind # "idle" => txn[s].act \in Actions
    PROVE  ForceInv'
<1>1. ASSUME NEW a \in Actions PROVE InForce(a)'
  BY DEF ForceInv, InForce
<1>2. ASSUME NEW s \in Workers PROVE Made(s)'
  <2> SUFFICES ASSUME At(s, Running, "applied")', txn'[s].ref \in Ref,
                      txn'[s].act \notin astray' \cup undone'
               PROVE  \/ \E x \in rules' : x.act = txn'[s].act /\ x.ref = txn'[s].ref
                      \/ Past(txn[s].act)'
    BY DEF Made
  <2>1. /\ At(s, Running, "applied") /\ txn'[s].ref = txn[s].ref /\ txn'[s].act = txn[s].act
        /\ txn[s].act \in Actions
    BY DEF At, Running
  <2>2. (\E x \in rules : x.act = txn[s].act /\ x.ref = txn[s].ref) \/ Past(txn[s].act)
    BY <2>1 DEF ForceInv, Made
  <2> QED
    BY <2>1, <2>2 DEF Past
<1>3. ASSUME NEW a \in undone' PROVE \E b \in Actions : Undoes(b, a)'
  <2>1. PICK b \in Actions : Undoes(b, a)
    BY <1>3 DEF ForceInv
  <2>2. Undoes(b, a)'
    BY <1>3, <2>1, StaysUndone
  <2> QED
    BY <2>2
<1> QED
  BY <1>1, <1>2, <1>3 DEF ForceInv

\* The steps of a session that neither commit, nor remove, nor create a rule that is stored.
LEMMA QuietSteps ==
    ASSUME IInv, ForceInv, NEW s \in Workers,
           \/ \E a \in Actions : \E k : Read(s, k, a)
           \/ \E t \in Tickets : RequestCreate(s, t) \/ PreapproveGrant(s, t)
           \/ PreapproveFlush(s) \/ Consume(s) \/ ConsumeLost(s) \/ ExecuteFlush(s)
           \/ ApplyLost(s) \/ ApplyManual(s) \/ ApplyRefused(s) \/ ApplyUnheard(s) \/ Abort(s)
    PROVE  ForceInv'
<1> USE DEF approvalVars, providerVars
<1>1. \A w \in Workers : txn[w].kind # "idle" => txn[w].act \in Actions
  BY DEF IInv, Snapshot
<1>2. \A w \in Workers, a \in Actions, r \in Ref : txn[w].act = a /\ txn[w].ref = r => GoesBy(a, r)
  BY DEF GoesBy
<1>3. txn \in [Workers -> Txn] /\ undone \subseteq Actions
  BY DEF IInv, TypeOK
<1>4. ASSUME \A w \in Workers \ {s} : txn'[w] = txn[w],
             UNCHANGED <<row, rules, used, undone, astray>>,
             ~At(s, Ending, "removed"), txn'[s].pc # "applied" \/ txn'[s].ref \notin Ref,
             \A a \in Actions, r \in Ref : txn'[s].act = a /\ txn'[s].ref = r => GoesBy(a, r)
      PROVE  ForceInv'
  <2>1. \A w \in Workers, a \in Actions, r \in Ref :
          txn'[w].act = a /\ txn'[w].ref = r => GoesBy(a, r)
    BY <1>2, <1>4
  <2>2. \A a \in Actions, r \in Ref : GoesBy(a, r)' => GoesBy(a, r)
    BY <1>4, <2>1 DEF GoesBy
  <2>3. OneOwner'
    BY <1>4, <2>2, SameOwners
  <2> QED
    BY <1>1, <1>3, <1>4, <2>3, QuietForce DEF At
<1>5. ASSUME NEW k, NEW a \in Actions, Read(s, k, a) PROVE ForceInv'
  <2>1. txn'[s] = [kind |-> k, pc |-> "read", act |-> a, status |-> row[a].status,
                   ticket |-> row[a].ticket, ref |-> row[a].ref]
        /\ \A w \in Workers \ {s} : txn'[w] = txn[w]
        /\ txn[s] = Idle
    BY <1>3, <1>5 DEF Read
  <2> QED
    BY <1>4, <1>5, <2>1 DEF Read, Idle, At, GoesBy
<1>6. ASSUME txn' = [txn EXCEPT ![s] = Idle], rules \subseteq rules',
             UNCHANGED <<row, undone>>, astray \subseteq astray',
             OneOwner' \/ UNCHANGED <<rules, used>>,
             At(s, Ending, "removed") => txn[s].act \in astray'
      PROVE  ForceInv'
  <2>1. txn'[s] = Idle /\ \A w \in Workers \ {s} : txn'[w] = txn[w]
    BY <1>3, <1>6
  <2>2. \A w \in Workers, a \in Actions, r \in Ref :
          txn'[w].act = a /\ txn'[w].ref = r => GoesBy(a, r)
    BY <1>2, <2>1, ConstantsApart DEF Idle
  <2>3. OneOwner'
    <3>1. CASE UNCHANGED <<rules, used>>
      <4>1. \A a \in Actions, r \in Ref : GoesBy(a, r)' => GoesBy(a, r)
        BY <1>6, <2>2, <3>1 DEF GoesBy
      <4> QED
        BY <3>1, <4>1, SameOwners
    <3> QED
      BY <1>6, <3>1
  <2> QED
    BY <1>1, <1>3, <1>6, <2>1, <2>3, QuietForce DEF At, Idle
<1>7. CASE ConsumeLost(s)
  <2>1. txn[s].pc # "removed"
    BY <1>7, RedeemsEffect DEF ConsumeLost
  <2> QED
    BY <1>6, <1>7, <2>1 DEF ConsumeLost, End, At
<1>8. CASE ApplyLost(s)
  <2>1. PICK r \in Ref : CreatesRule(s, r)
    BY <1>8 DEF ApplyLost
  <2>2. txn[s].pc = "locked" /\ rules \subseteq rules' /\ UNCHANGED <<row, undone>>
    BY <2>1, CreatesEffect DEF CreatesRule
  <2>3. txn' = [txn EXCEPT ![s] = Idle] /\ astray \subseteq astray'
    BY <1>8 DEF ApplyLost, End
  <2>4. ~At(s, Ending, "removed")
    BY <2>2 DEF At
  <2>5. OneOwner'
    <3>1. \A w \in Workers, b \in Actions, q \in Ref :
            txn'[w].act = b /\ txn'[w].ref = q => GoesBy(b, q)
      BY <1>2, <1>3, <2>3, ConstantsApart DEF Idle
    <3> QED
      BY <2>1, <3>1, NewOwner
  <2> QED
    BY <1>6, <2>2, <2>3, <2>4, <2>5
<1>9. CASE Abort(s)
  BY <1>6, <1>9 DEF Abort, End, At
<1>10. ASSUME NEW t \in Tickets, RequestCreate(s, t) \/ PreapproveGrant(s, t) PROVE ForceInv'
  <2>1. /\ txn'[s].act = txn[s].act /\ txn'[s].ref = txn[s].ref /\ txn'[s].pc = "ticketed"
        /\ \A w \in Workers \ {s} : txn'[w] = txn[w]
        /\ txn[s].pc = "read"
        /\ UNCHANGED <<row, rules, used, undone, astray>>
    BY <1>3, <1>10 DEF RequestCreate, PreapproveGrant, At, Txn
  <2> QED
    BY <1>2, <1>4, <2>1 DEF At
<1>11. ASSUME NEW pc \in {"held", "redeemed", "locked", "refused"}, Goto(s, pc),
              UNCHANGED <<row, rules, used, undone, astray>>, txn[s].pc # "removed"
       PROVE  ForceInv'
  <2>1. /\ txn'[s].act = txn[s].act /\ txn'[s].ref = txn[s].ref /\ txn'[s].pc = pc
        /\ \A w \in Workers \ {s} : txn'[w] = txn[w]
    BY <1>11, GotoEffect DEF IInv
  <2> QED
    BY <1>2, <1>4, <1>11, <2>1 DEF At
<1>12. CASE Consume(s)
  <2>1. txn[s].pc # "removed"
    BY <1>12, RedeemsEffect DEF Consume
  <2> QED
    BY <1>11, <1>12, <2>1 DEF Consume
<1>13. CASE PreapproveFlush(s) \/ ExecuteFlush(s) \/ ApplyRefused(s)
  BY <1>11, <1>13 DEF PreapproveFlush, ExecuteFlush, ApplyRefused, At
<1>14. CASE ApplyManual(s)
  <2>1. /\ txn'[s].act = txn[s].act /\ txn'[s].ref = Manual
        /\ \A w \in Workers \ {s} : txn'[w] = txn[w]
        /\ txn[s].pc = "locked"
        /\ UNCHANGED <<row, rules, used, undone, astray>>
    BY <1>3, <1>14 DEF ApplyManual, At, Txn
  <2> QED
    BY <1>4, <2>1, ConstantsApart DEF At
<1>15. CASE ApplyUnheard(s)
  <2>1. PICK r \in RuleIds : CreatesRule(s, r)
    BY <1>15 DEF ApplyUnheard
  <2>2. r \in Ref
    BY DEF Ref
  <2>3. /\ txn[s].pc = "locked" /\ rules \subseteq rules'
        /\ UNCHANGED <<row, undone, astray>>
    BY <1>15, <2>1, <2>2, CreatesEffect DEF ApplyUnheard
  <2>4. /\ txn'[s].act = txn[s].act /\ txn'[s].ref = txn[s].ref /\ txn'[s].pc = "unheard"
        /\ \A w \in Workers \ {s} : txn'[w] = txn[w]
    BY <1>15, GotoEffect DEF ApplyUnheard, IInv
  <2>5. OneOwner'
    <3>1. \A w \in Workers, b \in Actions, q \in Ref :
            txn'[w].act = b /\ txn'[w].ref = q => GoesBy(b, q)
      BY <1>2, <2>4
    <3> QED
      BY <2>1, <2>2, <3>1, NewOwner
  <2> QED
    BY <1>1, <1>3, <2>3, <2>4, <2>5, QuietForce DEF At
<1> QED
  BY <1>5, <1>7, <1>8, <1>9, <1>10, <1>12, <1>13, <1>14, <1>15

\* A session that has its rule created is about to store its reference.
LEMMA ApplyForce ==
    ASSUME IInv, ForceInv, NEW s \in Workers, Apply(s)
    PROVE  ForceInv'
<1> DEFINE a == txn[s].act
<1>1. PICK r \in Ref : CreatesRule(s, r) /\ txn' = [txn EXCEPT ![s].pc = "applied", ![s].ref = r]
  BY DEF Apply
<1>2. /\ txn[s].kind \in Running /\ txn[s].pc = "locked" /\ a \in Actions
      /\ rules' = rules \cup {[ref |-> r, act |-> a, ticket |-> txn[s].ticket]}
      /\ UNCHANGED <<row, undone, astray>>
  BY <1>1, CreatesEffect DEF Apply, CreatesRule
<1>3. /\ txn'[s].kind = txn[s].kind /\ txn'[s].act = a /\ txn'[s].ref = r
      /\ txn'[s].pc = "applied"
      /\ \A w \in Workers \ {s} : txn'[w] = txn[w]
  BY <1>1 DEF IInv, TypeOK, Txn
<1>4. OneOwner'
  <2>1. \A w \in Workers, b \in Actions, q \in Ref :
          txn'[w].act = b /\ txn'[w].ref = q => GoesBy(b, q) \/ (b = a /\ q = r)
    BY <1>3 DEF GoesBy
  <2> QED
    BY <1>1, <2>1, NewOwner
<1>5. \A w \in Workers : At(w, Ending, "removed") => At(w, Ending, "removed")' /\ txn'[w] = txn[w]
  BY <1>2, <1>3 DEF At
<1>6. ASSUME NEW b \in Actions PROVE InForce(b)'
  BY <1>2, <1>5 DEF ForceInv, InForce
<1>7. ASSUME NEW w \in Workers PROVE Made(w)'
  <2>1. CASE w = s
    <3> DEFINE x == [ref |-> r, act |-> a, ticket |-> txn[s].ticket]
    <3>1. x \in rules' /\ x.act = a /\ x.ref = r
      BY <1>2
    <3>2. txn'[w].act = a /\ txn'[w].ref = r
      BY <1>3, <2>1
    <3> HIDE DEF x
    <3> QED
      BY <3>1, <3>2 DEF Made
  <2>2. CASE w # s
    BY <1>2, <1>3, <2>2 DEF ForceInv, Made, At, Past
  <2> QED
    BY <2>1, <2>2
<1>8. ASSUME NEW b \in undone' PROVE \E c \in Actions : Undoes(c, b)'
  <2>1. b \in undone /\ b \in Actions
    BY <1>2, <1>8 DEF IInv, TypeOK
  <2>2. PICK c \in Actions : Undoes(c, b)
    BY <2>1 DEF ForceInv
  <2>3. Undoes(c, b)'
    BY <1>2, <1>5, <2>1, <2>2, StaysUndone
  <2> QED
    BY <2>3
<1> QED
  BY <1>4, <1>6, <1>7, <1>8 DEF ForceInv

\* What is removed goes by the reference of the action that is being ended: it is its own, or of
\* an action with the same address in a set.
LEMMA RemoveForce ==
    ASSUME IInv, ForceInv, NEW s \in Workers, Remove(s)
    PROVE  ForceInv'
<1> DEFINE a == txn[s].act
<1>1. /\ txn[s].kind \in Ending /\ txn[s].pc = "read" /\ a \in Actions
      /\ rules' \subseteq rules
      /\ \A x \in rules : x \in rules' \/ x.ref = txn[s].ref
      /\ undone' = undone \cup ({x.act : x \in rules \ rules'} \ {a})
      /\ astray \subseteq astray' /\ Goto(s, "removed")
      /\ UNCHANGED <<row, used>>
      /\ a \in astray \/ Past(a)
  BY DEF Remove, Removes, At, Ending, IInv, Snapshot
<1>2. /\ txn'[s].kind = txn[s].kind /\ txn'[s].pc = "removed" /\ txn'[s].act = a
      /\ txn'[s].ref = txn[s].ref
      /\ \A w \in Workers \ {s} : txn'[w] = txn[w]
  BY <1>1, GotoEffect DEF IInv
<1>3. OneOwner'
  <2>1. \A b \in Actions, q \in Ref : GoesBy(b, q)' => GoesBy(b, q)
    BY <1>1, <1>2 DEF GoesBy
  <2> QED
    BY <1>1, <2>1, SameOwners
<1>4. \A x \in rules : x.act \in Actions /\ x.ref \in Ref
  BY DEF IInv, TypeOK, Rule
<1>5. \A x \in rules : x \in rules' \/ x.act = a \/ x.act \in undone'
  BY <1>1
<1>6. \A w \in Workers : At(w, Ending, "removed") => At(w, Ending, "removed")' /\ txn'[w] = txn[w]
  BY <1>1, <1>2 DEF At
<1>7. ASSUME NEW b \in Actions PROVE InForce(b)'
  <2> SUFFICES ASSUME row[b].status = "ACTIVE", row[b].ref \in Ref, b \notin astray' \cup undone'
               PROVE  \/ \E x \in rules' : x.act = b /\ x.ref = row[b].ref
                      \/ \E w \in Workers : txn'[w].act = b /\ At(w, Ending, "removed")'
    BY <1>1 DEF InForce
  <2>1. CASE b = a
    BY <1>1, <1>2, <2>1 DEF At
  <2>2. CASE b # a
    <3>1. \/ \E x \in rules : x.act = b /\ x.ref = row[b].ref
          \/ \E w \in Workers : txn[w].act = b /\ At(w, Ending, "removed")
      BY <1>1 DEF ForceInv, InForce
    <3> QED
      BY <1>5, <1>6, <2>2, <3>1
  <2> QED
    BY <2>1, <2>2
<1>8. ASSUME NEW w \in Workers PROVE Made(w)'
  <2> SUFFICES ASSUME At(w, Running, "applied")', txn'[w].ref \in Ref,
                      txn'[w].act \notin astray' \cup undone'
               PROVE  \/ \E x \in rules' : x.act = txn'[w].act /\ x.ref = txn'[w].ref
                      \/ Past(txn[w].act)'
    BY DEF Made
  <2>1. w # s /\ txn'[w] = txn[w] /\ At(w, Running, "applied") /\ txn[w].act \in Actions
    BY <1>2 DEF At, Running, IInv, Snapshot
  <2>2. \/ \E x \in rules : x.act = txn[w].act /\ x.ref = txn[w].ref
        \/ Past(txn[w].act)
    BY <1>1, <2>1 DEF ForceInv, Made
  <2>3. CASE txn[w].act = a
    BY <1>1, <2>1, <2>3 DEF Past
  <2>4. CASE txn[w].act # a
    BY <1>1, <1>5, <2>1, <2>2, <2>4 DEF Past
  <2> QED
    BY <2>3, <2>4
<1>9. ASSUME NEW b \in undone' PROVE \E c \in Actions : Undoes(c, b)'
  <2>1. CASE b \in undone
    <3>1. b \in Actions
      BY <2>1 DEF IInv, TypeOK
    <3>2. PICK c \in Actions : Undoes(c, b)
      BY <2>1 DEF ForceInv
    <3>3. Undoes(c, b)'
      BY <1>1, <1>6, <3>1, <3>2, StaysUndone
    <3> QED
      BY <3>3
  <2>2. CASE b \notin undone
    <3>1. PICK x \in rules : x \notin rules' /\ x.act = b /\ b # a
      BY <1>1, <1>9, <2>2
    <3>2. b \in Actions /\ x.ref \in Ref /\ x.ref = txn[s].ref
      BY <1>1, <1>4, <3>1
    <3>3. GoesBy(b, x.ref) /\ GoesBy(a, x.ref)
      BY <3>1, <3>2 DEF GoesBy
    <3>4. {a, b} \subseteq InSet /\ Address[a] = Address[b]
      BY <1>1, <3>1, <3>2, <3>3 DEF ForceInv, OneOwner
    <3>5. txn'[s].act = a /\ At(s, Ending, "removed")'
      BY <1>1, <1>2 DEF At
    <3>6. \A c \in Actions : c = a => Undoes(c, b)'
      BY <3>1, <3>4, <3>5 DEF Undoes, Ending
    <3> QED
      BY <1>1, <3>6
  <2> QED
    BY <2>1, <2>2
<1> QED
  BY <1>3, <1>7, <1>8, <1>9 DEF ForceInv

\* A commit makes a row ACTIVE only under a reference that is in force, or is stale.
LEMMA CommitForce ==
    ASSUME IInv, ForceInv, NEW s \in Workers, Along(s)
    PROVE  ForceInv'
<1> DEFINE a == txn[s].act
<1>1. PICK q \in Row, stale \in BOOLEAN :
        /\ Commit(s, q, stale) /\ a \in Actions
        /\ stale \/ <<row[a].status, q.status>> \in Flow
        /\ q.ref \in {row[a].ref, txn[s].ref, None}
        /\ q.status = "ACTIVE" => At(s, Running, "applied") /\ q.ref = txn[s].ref
        /\ At(s, Ending, "removed") => q.status \in {"REVERTED", "EXPIRED"}
  BY DEF Along
<1>2. /\ row'[a] = q
      /\ \A b \in Actions \ {a} : row'[b] = row[b]
      /\ txn'[s] = Idle
      /\ \A w \in Workers \ {s} : txn'[w] = txn[w]
      /\ astray' = IF stale THEN astray \cup {a} ELSE astray
      /\ UNCHANGED <<rules, used, undone>>
  <2>1. UNCHANGED <<used, undone>>
    BY <1>1 DEF Commit, providerVars
  <2> QED
    BY <1>1, <2>1, CommitEffect DEF IInv
<1>3. OneOwner'
  <2>1. \A b \in Actions, r \in Ref : GoesBy(b, r)' => GoesBy(b, r)
    <3> SUFFICES ASSUME NEW b \in Actions, NEW r \in Ref, GoesBy(b, r)' PROVE GoesBy(b, r)
      OBVIOUS
    <3>1. CASE row'[b].ref = r
      <4>1. CASE b = a
        BY <1>1, <1>2, <3>1, <4>1, ConstantsApart DEF GoesBy
      <4>2. CASE b # a
        BY <1>2, <3>1, <4>2 DEF GoesBy
      <4> QED
        BY <4>1, <4>2
    <3>2. CASE \E w \in Workers : txn'[w].act = b /\ txn'[w].ref = r
      BY <1>2, <3>2, ConstantsApart DEF GoesBy, Idle
    <3>3. CASE \E x \in rules' : x.act = b /\ x.ref = r
      BY <1>2, <3>3 DEF GoesBy
    <3> QED
      BY <3>1, <3>2, <3>3 DEF GoesBy
  <2> QED
    BY <1>2, <2>1, SameOwners
<1>4. ASSUME NEW b \in Actions PROVE InForce(b)'
  <2>1. CASE b # a
    BY <1>2, <2>1 DEF ForceInv, InForce, At
  <2>2. CASE b = a
    <3> SUFFICES ASSUME q.status = "ACTIVE", q.ref \in Ref, a \notin astray' \cup undone
                 PROVE  \E x \in rules : x.act = a /\ x.ref = q.ref
      BY <1>2, <2>2 DEF InForce
    <3>1. ~stale /\ a \notin astray
      BY <1>2
    <3>2. <<row[a].status, "ACTIVE">> \in Flow
      BY <1>1, <3>1
    <3>3. ~Past(a)
      BY <3>2 DEF Past, Flow, Ended
    <3> QED
      BY <1>1, <3>1, <3>3 DEF ForceInv, Made
  <2> QED
    BY <2>1, <2>2
<1>5. ASSUME NEW w \in Workers PROVE Made(w)'
  <2> SUFFICES ASSUME At(w, Running, "applied")', txn'[w].ref \in Ref,
                      txn'[w].act \notin astray' \cup undone'
               PROVE  \/ \E x \in rules' : x.act = txn'[w].act /\ x.ref = txn'[w].ref
                      \/ Past(txn[w].act)'
    BY DEF Made
  <2>1. w # s /\ txn'[w] = txn[w] /\ At(w, Running, "applied") /\ txn[w].act \in Actions
    BY <1>2 DEF At, Running, Idle, IInv, Snapshot
  <2>2. \/ \E x \in rules : x.act = txn[w].act /\ x.ref = txn[w].ref
        \/ Past(txn[w].act)
    BY <1>2, <2>1 DEF ForceInv, Made
  <2>3. Past(txn[w].act) => Past(txn[w].act)'
    <3>1. CASE txn[w].act # a
      BY <1>2, <2>1, <3>1 DEF Past
    <3>2. CASE txn[w].act = a
      <4>1. <<row[a].status, q.status>> \in Flow
        BY <1>1, <1>2, <2>1, <3>2
      <4> QED
        BY <1>2, <2>1, <3>2, <4>1 DEF Past, Flow, Ended
    <3> QED
      BY <3>1, <3>2
  <2> QED
    BY <1>2, <2>1, <2>2, <2>3
<1>6. ASSUME NEW b \in undone' PROVE \E c \in Actions : Undoes(c, b)'
  <2>1. b \in undone /\ b \in Actions
    BY <1>2, <1>6 DEF IInv, TypeOK
  <2>2. PICK c \in Actions : Undoes(c, b)
    BY <2>1 DEF ForceInv
  <2>3. row'[c].status = row[c].status \/ c \in astray' \/ row[c].status \notin {"REVERTED", "EXPIRED"}
    BY <1>1, <1>2 DEF Flow
  <2>4. ASSUME NEW w \in Workers, txn[w].act = c, At(w, Ending, "removed")
        PROVE  row'[c].status \in {"REVERTED", "EXPIRED"} \/ (At(w, Ending, "removed")' /\ txn'[w].act = c)
    <3>1. CASE w = s
      BY <1>1, <1>2, <2>4, <3>1
    <3>2. CASE w # s
      BY <1>2, <2>4, <3>2 DEF At
    <3> QED
      BY <3>1, <3>2
  <2>5. Undoes(c, b)'
    BY <1>2, <2>1, <2>2, <2>3, <2>4, StaysUndone
  <2> QED
    BY <2>5
<1> QED
  BY <1>3, <1>4, <1>5, <1>6 DEF ForceInv

\* A handler other than the six above writes neither rules nor rows.
LEMMA NextForceInv == IInv /\ ForceInv /\ [Next]_vars => ForceInv'
<1> SUFFICES ASSUME IInv, ForceInv, [Next]_vars PROVE ForceInv'
  OBVIOUS
<1> USE DEF approvalVars, providerVars
<1>1. ASSUME NEW s \in Workers, Proceed(s) PROVE ForceInv'
  <2>1. CASE \/ \E auto \in BOOLEAN : RecommendCommit(s, auto)
             \/ RequestCommit(s) \/ DismissCommit(s) \/ RevertCommit(s) \/ ExecuteCommit(s)
    BY <2>1, CommitsAlong, CommitForce
  <2>2. CASE Apply(s)
    BY <2>2, ApplyForce
  <2>3. CASE Remove(s)
    BY <2>3, RemoveForce
  <2>4. CASE \/ \E t \in Tickets : RequestCreate(s, t) \/ PreapproveGrant(s, t)
             \/ PreapproveFlush(s) \/ Consume(s) \/ ConsumeLost(s) \/ ExecuteFlush(s)
             \/ ApplyLost(s) \/ ApplyManual(s) \/ ApplyRefused(s) \/ ApplyUnheard(s) \/ Abort(s)
    BY <2>4, QuietSteps
  <2> QED
    BY <1>1, <2>1, <2>2, <2>3, <2>4 DEF Proceed
<1>2. ASSUME NEW s \in Sessions, NEW a \in Actions,
             \/ RecommendRead(s, a) \/ RequestRead(s, a) \/ PreapproveRead(s, a)
             \/ ExecuteRead(s, a) \/ RevertRead(s, a) \/ DismissRead(s, a)
      PROVE  ForceInv'
  <2>1. s \in Workers /\ \E k : Read(s, k, a)
    BY <1>2 DEF RecommendRead, RequestRead, PreapproveRead, ExecuteRead, RevertRead, DismissRead,
                Workers
  <2> QED
    BY <2>1, QuietSteps
<1>3. ASSUME NEW a \in Actions, ExpireRead(a) PROVE ForceInv'
  <2>1. Sweeper \in Workers /\ Read(Sweeper, "expire", a)
    BY <1>3 DEF ExpireRead, Workers
  <2> QED
    BY <2>1, QuietSteps
<1>4. ASSUME UNCHANGED <<txn, rules, used, undone, astray>>,
             \A a \in Actions : row'[a].status = row[a].status /\ row'[a].ref = row[a].ref
      PROVE  ForceInv'
  <2>1. (\A s \in Workers : txn[s].kind # "idle" => txn[s].act \in Actions) /\ undone \subseteq Actions
    BY DEF IInv, Snapshot, TypeOK
  <2>2. \A a \in Actions, r \in Ref : GoesBy(a, r)' => GoesBy(a, r)
    BY <1>4 DEF GoesBy
  <2>3. OneOwner'
    BY <1>4, <2>2, SameOwners
  <2> QED
    BY <1>4, <2>1, <2>3, QuietForce DEF At
<1>5. ASSUME NEW a \in Actions, Elapse(a) PROVE ForceInv'
  <2>1. \A b \in Actions : row'[b].status = row[b].status /\ row'[b].ref = row[b].ref
    BY <1>5 DEF Elapse, IInv, TypeOK, Row
  <2> QED
    BY <1>4, <1>5, <2>1 DEF Elapse
<1>6. ASSUME NEW t \in Tickets, Approve(t) \/ CloseTicket(t) PROVE ForceInv'
  BY <1>4, <1>6 DEF Approve, CloseTicket
<1>7. CASE Configure \/ UNCHANGED vars
  BY <1>4, <1>7 DEF Configure, vars
<1> QED
  BY <1>1, <1>2, <1>3, <1>5, <1>6, <1>7 DEF Next

\* Unless a handler was cut off, overtaken or had no provider to call, every rule in force can
\* still be removed, or was created and answered with an error and its action says FAILED; and an
\* ACTIVE action that names a rule has it in force, or has lost it to the end of another action on
\* the same address of a set (AwsWafProvider._update takes out what revert is given).
THEOREM RulesTrackedHolds == Spec => []RulesTracked
<1>1. IInv /\ ForceInv => RulesTracked
  <2> SUFFICES ASSUME IInv, ForceInv PROVE RulesTracked
    OBVIOUS
  <2>1. \A x \in rules : x.act \notin astray => Tracked(x) \/ Reported(x)
    BY DEF IInv, Known, Held, Making, Tracked, Storing, Reported, Running
  <2>2. \A a \in Actions : InForce(a)
    BY DEF ForceInv
  <2>3. \A a \in undone : \E b \in Actions : Undoes(b, a)
    BY DEF ForceInv
  <2> QED
    BY <2>1, <2>2, <2>3 DEF RulesTracked, InForce, Ending
<1>2. Init => ForceInv
  BY InitForceInv
<1>3. IInv /\ ForceInv /\ [Next]_vars => ForceInv'
  BY NextForceInv
<1> QED
  BY <1>1, <1>2, <1>3, Invariance, PTL DEF Spec
=============================================================================
