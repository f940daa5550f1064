---------------------------- MODULE Scans_proofs ----------------------------
(***************************************************************************)
(* ScansBacked, JobsHaveWorkflows and FinalUnlessStale of Scans, for any   *)
(* number of jobs, tickets, sessions and workers.                          *)
(*                                                                         *)
(* That a job has a workflow is decided before the workflow is there: by   *)
(* the start that makes the job QUEUED, and by the cancel that takes the   *)
(* workflow's id from the row it read.  Fresh says in what order the row,  *)
(* its handlers, its workflow and the activities come, for a job whose row *)
(* was never written by a transaction that had read another one: it is     *)
(* started once, a cancellation is on its way to the workflow only when    *)
(* the row says so, and what an activity has read is not older than the    *)
(* end of the job.                                                         *)
(***************************************************************************)
EXTENDS Scans, FiniteSetTheorems, TLAPS

\* Handlers between their commit and their call to Temporal.
Started(s, j)   == txn[s].job = j /\ In(s, {"start"}, "committed")
Canceling(s, j) == txn[s].job = j /\ In(s, {"cancel"}, "committed")

\* What a handler has read and checked.
Snapshot(s) ==
    LET t == txn[s] IN
    /\ t.kind = "idle" => t = Idle
    /\ t.kind # "idle" => t.job \in Jobs
    /\ t.kind \in {"request", "retry"} => t.pc \in {"read", "ticketed"}
    /\ t.kind = "start" => /\ t.pc \in {"read", "redeemed", "committed"}
                           /\ t.seen.status = "PENDING_APPROVAL"
                           /\ t.pc # "read" => t.seen.approval \in Tickets
    /\ t.kind = "cancel" => /\ t.pc \in {"read", "committed"}
                            /\ t.seen.status \in {"PENDING_APPROVAL"} \cup Active

\* The points a workflow comes to.
Sound(p) ==
    /\ p.phase = "none" => p = NotStarted
    /\ p.phase = "closed" => p = Closed
    /\ p.phase = "status" => p.value \in {"RUNNING", "FAILED", "TIMED_OUT", "CANCELLED"}
    /\ p.phase = "persist" => p.value \in {"SUCCEEDED", "FAILED"}

Underway(w) ==
    act[w] # Resting => /\ act[w].job \in Jobs
                        /\ act[w].point.phase \in {"status", "persist"}
                        /\ Sound(act[w].point)

Backed(t) ==
    /\ IsFiniteSet(Starting(t))
    /\ launches[t] + Cardinality(Starting(t)) <= redeemed[t]

\* The order of things for a job on which nothing stale was written.
Fresh(j) ==
    /\ job[j].status \in {"ABSENT", "PENDING_APPROVAL"} =>
         wf[j] = NotStarted /\ ~job[j].launched
    /\ wf[j] # NotStarted => job[j].launched
    /\ \A s \in Sessions : Started(s, j) =>
         /\ job[j].launched /\ wf[j] = NotStarted
         /\ \A r \in Sessions : Started(r, j) => r = s
    /\ j \in asked => wf[j] # NotStarted
    /\ j \in asked \/ (\E s \in Sessions : Canceling(s, j)) => job[j].status \in Terminal
    /\ \A w \in Workers : act[w] # Resting /\ act[w].job = j =>
         /\ wf[j] # NotStarted
         /\ act[w].seen \in Terminal => job[j].status \in Terminal
         /\ act[w].point = At("status", "CANCELLED") => wf[j] \in {act[w].point, Closed}

\* The two halves of JobsHaveWorkflows.
Held(j) ==
    job[j].status \in Active => Running(j) \/ \E s \in Sessions : Started(s, j)

Stopping(j) ==
    job[j].status = "CANCELLED" /\ (Running(j) \/ \E s \in Sessions : Started(s, j)) =>
      \/ j \in asked
      \/ wf[j].phase = "status" /\ wf[j].value # "RUNNING"
      \/ \E s \in Sessions : Canceling(s, j)

IInv ==
    /\ TypeOK
    /\ \A s \in Sessions : Snapshot(s)
    /\ \A t \in Tickets : Backed(t)
    /\ \A j \in Jobs : Sound(wf[j])
    /\ \A w \in Workers : Underway(w)
    /\ \A j \in Jobs \ stale : Fresh(j)
    /\ \A j \in Jobs \ (stale \cup missed) : Held(j) /\ Stopping(j)

-----------------------------------------------------------------------------
(* Lemmas *)

LEMMA IdleTyped == Idle \in Txn /\ NoJob \in Job
BY DEF Idle, NoJob, Txn, Job, Status

LEMMA RestingTyped == Resting \in Execution /\ Sound(NotStarted) /\ Sound(Closed)
BY DEF Resting, Execution, Point, NotStarted, Closed, At, Status, Sound

\* At most one more session is between the redemption and the start of its workflow.
LEMMA StartingKept ==
    ASSUME TypeOK, NEW t \in Tickets, Backed(t), launches'[t] = launches[t],
           redeemed'[t] \in Nat, redeemed[t] <= redeemed'[t], Starting(t)' \subseteq Starting(t)
    PROVE  Backed(t)'
<1>1. IsFiniteSet(Starting(t)') /\ Cardinality(Starting(t)') <= Cardinality(Starting(t))
  BY FS_Subset DEF Backed
<1>2. Cardinality(Starting(t)) \in Nat /\ Cardinality(Starting(t)') \in Nat
  BY <1>1, FS_CardinalityType DEF Backed
<1> QED
  BY <1>1, <1>2 DEF Backed, TypeOK

\* A step of session s, or of no session, that neither redeems nor starts a workflow.
LEMMA BackedKept ==
    ASSUME TypeOK, \A t \in Tickets : Backed(t), UNCHANGED <<launches, redeemed>>,
           \A s \in Sessions : \/ txn'[s] = txn[s]
                               \/ txn'[s].kind # "start"
                               \/ txn'[s].pc = "read"
                               \/ /\ In(s, {"start"}, "redeemed") /\ txn'[s].kind = "start"
                                  /\ txn'[s].seen = txn[s].seen
    PROVE  \A t \in Tickets : Backed(t)'
<1> SUFFICES ASSUME NEW t \in Tickets PROVE Backed(t)'
  OBVIOUS
<1>1. Starting(t)' \subseteq Starting(t)
  BY DEF Starting, In
<1>2. redeemed'[t] \in Nat /\ redeemed[t] <= redeemed'[t]
  BY DEF TypeOK
<1> QED
  BY <1>1, <1>2, StartingKept

\* What IInv says of rows, handlers, workflows and activities.
Order ==
    /\ \A s \in Sessions : Snapshot(s)
    /\ \A j \in Jobs : Sound(wf[j])
    /\ \A w \in Workers : Underway(w)
    /\ \A j \in Jobs \ stale : Fresh(j)
    /\ \A j \in Jobs \ (stale \cup missed) : Held(j) /\ Stopping(j)

\* A step of one handler that writes no row and reaches no workflow.
LEMMA HandlerKeepsOrder ==
    ASSUME TypeOK, Order, UNCHANGED <<job, wf, asked, act, stale>>, missed \subseteq missed',
           NEW s \in Sessions, \A r \in Sessions \ {s} : txn'[r] = txn[r],
           txn'[s].pc # "committed", Snapshot(s)',
           txn[s].pc = "committed" /\ txn[s].kind \in {"start", "cancel"} => txn[s].job \in missed'
    PROVE  Order'
<1>1. \A r \in Sessions : Snapshot(r)'
  BY DEF Order, Snapshot
<1>2. \A j \in Jobs, r \in Sessions :
        /\ Started(r, j)' => Started(r, j)
        /\ Canceling(r, j)' => Canceling(r, j)
        /\ Started(r, j) => Started(r, j)' \/ j \in missed'
        /\ Canceling(r, j) => Canceling(r, j)' \/ j \in missed'
  BY DEF Started, Canceling, In
<1>3. ASSUME NEW j \in Jobs \ stale PROVE Fresh(j)'
  BY <1>2 DEF Order, Fresh
<1>4. ASSUME NEW j \in Jobs \ (stale' \cup missed') PROVE Held(j)' /\ Stopping(j)'
  BY <1>2 DEF Order, Held, Stopping, Running
<1>5. \A w \in Workers : Underway(w)'
  BY DEF Order, Underway
<1> QED
  BY <1>1, <1>3, <1>4, <1>5 DEF Order, Sound

\* A step of the environment.
LEMMA QuietKeepsOrder ==
    ASSUME Order, UNCHANGED <<job, txn, wf, asked, act, stale, missed>>
    PROVE  Order'
BY DEF Order, Snapshot, Sound, Underway, Fresh, Held, Stopping, Started, Canceling, In, Running

LEMMA InitIInv == Init => IInv
<1> SUFFICES ASSUME Init PROVE IInv
  OBVIOUS
<1>1. TypeOK
  BY IdleTyped, RestingTyped DEF Init, TypeOK, V!Init, Point, Execution, Resting, NotStarted, At, Status
<1>2. ASSUME NEW t \in Tickets PROVE Backed(t)
  <2>1. Starting(t) = {}
    BY DEF Init, Starting, In, Idle
  <2> QED
    BY <2>1, FS_EmptySet DEF Init, Backed, V!Init
<1>3. \A s \in Sessions : Snapshot(s)
  BY DEF Init, Snapshot, Idle
<1>4. \A j \in Jobs : Sound(wf[j]) /\ Fresh(j) /\ Held(j) /\ Stopping(j)
  BY RestingTyped DEF Init, Fresh, Held, Stopping, Started, Canceling, In, Idle, NoJob, Active, Running,
      NotStarted, At
<1>5. \A w \in Workers : Underway(w)
  BY DEF Init, Underway
<1> QED
  BY <1>1, <1>2, <1>3, <1>4, <1>5 DEF IInv

-----------------------------------------------------------------------------
(* The handlers *)

LEMMA ReadStep ==
    ASSUME IInv, NEW s \in Sessions, NEW j \in Jobs, NEW k, Read(s, k, j),
           k \in {"request", "retry", "start", "cancel"},
           k = "start" => job[j].status = "PENDING_APPROVAL",
           k = "cancel" => job[j].status \in {"PENDING_APPROVAL"} \cup Active
    PROVE  IInv'
<1> DEFINE new == [kind |-> k, pc |-> "read", job |-> j, seen |-> job[j], ticket |-> None]
<1>1. /\ txn[s] = Idle /\ txn' = [txn EXCEPT ![s] = new]
      /\ UNCHANGED <<cleared, job, bound, open, granted, redeemed, wf, asked, act, run, launches,
                     stale, missed>>
  BY DEF Read, approvalVars, workflowVars
<1>2. new \in Txn
  BY DEF IInv, TypeOK, Txn
<1>3. txn'[s] = new /\ \A r \in Sessions \ {s} : txn'[r] = txn[r]
  BY <1>1 DEF IInv, TypeOK
<1>4. TypeOK'
  BY <1>1, <1>2 DEF IInv, TypeOK
<1>5. \A t \in Tickets : Backed(t)'
  BY <1>1, <1>3, BackedKept DEF IInv
<1>6. Snapshot(s)'
  BY <1>1, <1>3 DEF Snapshot
<1>7. Order'
  BY <1>1, <1>3, <1>6, HandlerKeepsOrder DEF IInv, Order, Idle
<1> QED
  BY <1>4, <1>5, <1>7 DEF IInv, Order

LEMMA ReadSteps ==
    ASSUME IInv, NEW s \in Sessions, NEW j \in Jobs,
           \/ RequestRead(s, j) \/ StartRead(s, j) \/ CancelRead(s, j)
           \/ \E old \in Jobs : RetryRead(s, old, j)
    PROVE  IInv'
BY ReadStep DEF RequestRead, StartRead, CancelRead, RetryRead

LEMMA RequestCreateStep ==
    ASSUME IInv, NEW s \in Sessions, NEW t \in Tickets, RequestCreate(s, t)
    PROVE  IInv'
<1>1. txn[s] \in Txn /\ txn[s].job \in Jobs /\ txn[s].kind \in {"request", "retry"}
  BY DEF RequestCreate, In, IInv, TypeOK, Snapshot
<1> DEFINE new == [txn[s] EXCEPT !.pc = "ticketed", !.ticket = t]
<1>2. new \in Txn /\ new.kind = txn[s].kind /\ new.pc = "ticketed" /\ new.job = txn[s].job
  BY <1>1 DEF Txn
<1>3. /\ txn' = [txn EXCEPT ![s] = new]
      /\ bound' = [bound EXCEPT ![t] = txn[s].job]
      /\ UNCHANGED <<cleared, job, open, granted, redeemed, wf, asked, act, run, launches,
                     stale, missed>>
  BY DEF RequestCreate, workflowVars
<1>4. txn'[s] = new /\ \A r \in Sessions \ {s} : txn'[r] = txn[r]
  BY <1>3 DEF IInv, TypeOK
<1>5. TypeOK'
  BY <1>1, <1>2, <1>3 DEF IInv, TypeOK
<1> HIDE DEF new
<1>6. \A u \in Tickets : Backed(u)'
  BY <1>1, <1>2, <1>3, <1>4, BackedKept DEF IInv
<1>7. Snapshot(s)'
  BY <1>1, <1>2, <1>4 DEF Snapshot
<1>8. Order'
  BY <1>1, <1>2, <1>3, <1>4, <1>7, HandlerKeepsOrder DEF IInv, Order
<1> QED
  BY <1>5, <1>6, <1>8 DEF IInv, Order

\* Session s gives up, having redeemed or not.
LEMMA EndStep ==
    ASSUME IInv, NEW s \in Sessions, End(s),
           UNCHANGED <<cleared, job, bound, wf, asked, act, run, launches, stale>>,
           open' \subseteq Tickets, granted' \in [Tickets -> Nat], redeemed' \in [Tickets -> Nat],
           \A t \in Tickets : redeemed[t] <= redeemed'[t],
           missed \subseteq missed', missed' \subseteq Jobs,
           txn[s].pc = "committed" => txn[s].job \in missed'
    PROVE  IInv'
<1>1. txn'[s] = Idle /\ \A r \in Sessions \ {s} : txn'[r] = txn[r]
  BY DEF End, IInv, TypeOK
<1>2. TypeOK'
  BY IdleTyped DEF End, IInv, TypeOK
<1>3. ASSUME NEW t \in Tickets PROVE Backed(t)'
  <2>1. Starting(t)' \subseteq Starting(t)
    BY <1>1 DEF Starting, In, Idle
  <2> QED
    BY <2>1, StartingKept DEF IInv
<1>4. Snapshot(s)'
  BY <1>1 DEF Snapshot, Idle
<1>5. Order'
  BY <1>1, <1>4, HandlerKeepsOrder DEF IInv, Order, Idle
<1> QED
  BY <1>2, <1>3, <1>5 DEF IInv, Order

LEMMA RedeemsEffect ==
    ASSUME TypeOK, NEW s \in Sessions, Redeems(s)
    PROVE  LET t == txn[s].seen.approval IN
           /\ t \in Tickets
           /\ open' \subseteq Tickets /\ UNCHANGED granted
           /\ redeemed' \in [Tickets -> Nat] /\ redeemed'[t] = redeemed[t] + 1
           /\ \A u \in Tickets \ {t} : redeemed'[u] = redeemed[u]
           /\ txn[s].kind = "start" /\ txn[s].pc = "read"
BY DEF Redeems, In, V!Redeem, TypeOK

LEMMA ConsumeStep ==
    ASSUME IInv, NEW s \in Sessions, Consume(s)
    PROVE  IInv'
<1> DEFINE t == txn[s].seen.approval
           new == [txn[s] EXCEPT !.pc = "redeemed"]
<1>1. /\ t \in Tickets
      /\ open' \subseteq Tickets /\ UNCHANGED granted
      /\ redeemed' \in [Tickets -> Nat] /\ redeemed'[t] = redeemed[t] + 1
      /\ \A u \in Tickets \ {t} : redeemed'[u] = redeemed[u]
      /\ txn[s].kind = "start" /\ txn[s].pc = "read"
      /\ UNCHANGED <<cleared, job, bound, wf, asked, act, run, launches, stale, missed>>
  BY RedeemsEffect DEF Consume, IInv, workflowVars
<1>2. txn[s] \in Txn /\ txn' = [txn EXCEPT ![s] = new]
  BY DEF Consume, IInv, TypeOK
<1>3. new \in Txn /\ new.kind = "start" /\ new.pc = "redeemed" /\ new.job = txn[s].job
      /\ new.seen = txn[s].seen
  BY <1>1, <1>2 DEF Txn
<1>4. txn'[s] = new /\ \A r \in Sessions \ {s} : txn'[r] = txn[r]
  BY <1>2 DEF IInv, TypeOK
<1>5. TypeOK'
  BY <1>1, <1>2, <1>3 DEF IInv, TypeOK
<1> HIDE DEF new
<1>6. ASSUME NEW u \in Tickets PROVE Backed(u)'
  <2>1. CASE u = t
    <3>1. Starting(u)' = Starting(u) \cup {s} /\ s \notin Starting(u)
      BY <1>1, <1>3, <1>4, <2>1 DEF Starting, In
    <3>2. IsFiniteSet(Starting(u)) /\ Cardinality(Starting(u)) \in Nat
      BY FS_CardinalityType DEF IInv, Backed
    <3>3. IsFiniteSet(Starting(u)') /\ Cardinality(Starting(u)') = Cardinality(Starting(u)) + 1
      BY <3>1, <3>2, FS_AddElement
    <3> QED
      BY <1>1, <2>1, <3>2, <3>3 DEF IInv, Backed, TypeOK
  <2>2. CASE u # t
    <3>1. Starting(u)' \subseteq Starting(u)
      BY <1>3, <1>4, <2>2 DEF Starting, In
    <3> QED
      BY <1>1, <2>2, <3>1, StartingKept DEF IInv, TypeOK
  <2> QED
    BY <2>1, <2>2
<1>7. Snapshot(s)'
  BY <1>1, <1>3, <1>4 DEF Snapshot, IInv
<1>8. Order'
  BY <1>1, <1>3, <1>4, <1>7, HandlerKeepsOrder DEF IInv, Order
<1> QED
  BY <1>5, <1>6, <1>8 DEF IInv, Order

LEMMA ConsumeLostStep ==
    ASSUME IInv, NEW s \in Sessions, ConsumeLost(s)
    PROVE  IInv'
<1>1. /\ UNCHANGED <<cleared, job, bound, granted, wf, asked, act, run, launches, stale, missed>>
      /\ End(s) /\ open' \subseteq Tickets /\ redeemed' \in [Tickets -> Nat]
      /\ \A t \in Tickets : redeemed[t] <= redeemed'[t]
      /\ txn[s].pc = "read"
  BY RedeemsEffect DEF ConsumeLost, IInv, workflowVars, TypeOK
<1> QED
  BY <1>1, EndStep DEF IInv, TypeOK

LEMMA AbortStep ==
    ASSUME IInv, NEW s \in Sessions, Abort(s)
    PROVE  IInv'
<1>1. /\ UNCHANGED <<cleared, job, bound, open, granted, redeemed, wf, asked, act, run, launches,
                     stale>>
      /\ End(s) /\ missed \subseteq missed' /\ missed' \subseteq missed \cup {txn[s].job}
      /\ txn[s].pc = "committed" => txn[s].job \in missed'
      /\ txn[s].job \in Jobs
  BY DEF Abort, approvalVars, workflowVars, IInv, Snapshot
<1> QED
  BY <1>1, EndStep DEF IInv, TypeOK

\* request and retry leave a job PENDING_APPROVAL only where they found none.
LEMMA RequestCommitStep ==
    ASSUME IInv, NEW s \in Sessions, RequestCommit(s)
    PROVE  IInv'
<1> DEFINE j == txn[s].job
           st == IF txn[s].seen.status = "ABSENT" THEN "PENDING_APPROVAL" ELSE job[j].status
           q == [job[j] EXCEPT !.status = st, !.approval = txn[s].ticket]
<1>1. txn[s] \in Txn /\ j \in Jobs /\ job[j] \in Job /\ txn[s].pc = "ticketed"
      /\ txn[s].kind \in {"request", "retry"}
  BY DEF RequestCommit, In, IInv, TypeOK, Snapshot
<1>2. /\ q \in Job /\ q.launched = job[j].launched
      /\ \/ q.status = job[j].status
         \/ q.status = "PENDING_APPROVAL" /\ txn[s].seen.status = "ABSENT"
  <2>1. st \in Status /\ txn[s].ticket \in Tickets \cup {None}
    BY <1>1 DEF Job, Txn, Status
  <2> HIDE DEF st
  <2>2. q \in Job /\ q.launched = job[j].launched /\ q.status = st
    BY <1>1, <2>1 DEF Job
  <2> QED
    BY <2>2 DEF st
<1>3. /\ job' = [job EXCEPT ![j] = q] /\ txn' = [txn EXCEPT ![s] = Idle]
      /\ stale' = IF job[j].status \notin {txn[s].seen.status, q.status} THEN stale \cup {j} ELSE stale
      /\ UNCHANGED <<cleared, bound, open, granted, redeemed, wf, asked, act, run, launches, missed>>
  BY DEF RequestCommit, Commit, Store, End, approvalVars, workflowVars
<1> HIDE DEF q
<1>4. /\ txn'[s] = Idle /\ \A r \in Sessions \ {s} : txn'[r] = txn[r]
      /\ job'[j] = q /\ \A i \in Jobs \ {j} : job'[i] = job[i]
  BY <1>1, <1>3 DEF IInv, TypeOK
<1>5. TypeOK'
  BY <1>1, <1>2, <1>3, IdleTyped DEF IInv, TypeOK
<1>6. \A t \in Tickets : Backed(t)'
  BY <1>3, <1>4, BackedKept DEF IInv, Idle
<1>7. \A r \in Sessions : Snapshot(r)'
  BY <1>4 DEF IInv, Snapshot, Idle
<1>8. \A i \in Jobs, r \in Sessions : /\ Started(r, i)' <=> Started(r, i)
                                      /\ Canceling(r, i)' <=> Canceling(r, i)
  BY <1>1, <1>4 DEF Started, Canceling, In, Idle
<1>9. \A i \in Jobs : \/ i \in stale'
                      \/ /\ i \notin stale /\ job'[i].launched = job[i].launched
                         /\ \/ job'[i].status = job[i].status
                            \/ job'[i].status = "PENDING_APPROVAL" /\ job[i].status = "ABSENT"
  BY <1>2, <1>3, <1>4
<1>10. ASSUME NEW i \in Jobs \ stale' PROVE Fresh(i)'
  <2>1. Fresh(i)
    BY <1>9 DEF IInv
  <2> QED
    BY <1>3, <1>8, <1>9, <2>1 DEF Fresh, Terminal
<1>11. ASSUME NEW i \in Jobs \ (stale' \cup missed') PROVE Held(i)' /\ Stopping(i)'
  BY <1>3, <1>8, <1>9 DEF IInv, Held, Stopping, Running, Active
<1>12. \A w \in Workers : Underway(w)'
  BY <1>3 DEF IInv, Underway
<1> QED
  BY <1>3, <1>5, <1>6, <1>7, <1>10, <1>11, <1>12 DEF IInv, Sound

\* Only the first start of a job commits on what it read.
LEMMA StartCommitStep ==
    ASSUME IInv, NEW s \in Sessions, StartCommit(s)
    PROVE  IInv'
<1> DEFINE j == txn[s].job
           q == [job[j] EXCEPT !.status = "QUEUED", !.launched = TRUE]
           new == [txn[s] EXCEPT !.pc = "committed"]
<1>1. txn[s] \in Txn /\ j \in Jobs /\ job[j] \in Job /\ txn[s].pc = "redeemed"
      /\ txn[s].kind = "start" /\ txn[s].seen.status = "PENDING_APPROVAL"
  BY DEF StartCommit, In, IInv, TypeOK, Snapshot
<1>2. /\ q \in Job /\ q.launched /\ q.status = "QUEUED"
      /\ new \in Txn /\ new.pc = "committed" /\ new.kind = "start" /\ new.job = j
      /\ new.seen = txn[s].seen
  BY <1>1 DEF Job, Txn, Status, Active
<1>3. /\ job' = [job EXCEPT ![j] = q] /\ txn' = [txn EXCEPT ![s] = new]
      /\ stale' = IF job[j].status = "PENDING_APPROVAL" THEN stale ELSE stale \cup {j}
      /\ UNCHANGED <<cleared, bound, open, granted, redeemed, wf, asked, act, run, launches, missed>>
  BY <1>1 DEF StartCommit, approvalVars, workflowVars, IInv, TypeOK
<1> HIDE DEF q, new
<1>4. /\ txn'[s] = new /\ \A r \in Sessions \ {s} : txn'[r] = txn[r]
      /\ job'[j] = q /\ \A i \in Jobs \ {j} : job'[i] = job[i]
  BY <1>1, <1>3 DEF IInv, TypeOK
<1>5. TypeOK'
  BY <1>1, <1>2, <1>3 DEF IInv, TypeOK
<1>6. \A t \in Tickets : Backed(t)'
  BY <1>1, <1>2, <1>3, <1>4, BackedKept DEF IInv, In
<1>7. \A r \in Sessions : Snapshot(r)'
  BY <1>1, <1>2, <1>4 DEF IInv, Snapshot
<1>8. \A i \in Jobs, r \in Sessions : /\ Started(r, i)' <=> (Started(r, i) \/ (r = s /\ i = j))
                                      /\ Canceling(r, i)' <=> Canceling(r, i)
  BY <1>1, <1>2, <1>4 DEF Started, Canceling, In
<1>9. ASSUME j \notin stale'
      PROVE  /\ job[j].status = "PENDING_APPROVAL" /\ wf[j] = NotStarted /\ j \notin stale
             /\ \A r \in Sessions : ~Started(r, j)
             /\ j \notin asked /\ \A r \in Sessions : ~Canceling(r, j)
             /\ \A w \in Workers : act[w] # Resting => act[w].job # j
  BY <1>1, <1>3, <1>9 DEF IInv, Fresh, Terminal
<1>10. ASSUME NEW i \in Jobs \ stale' PROVE Fresh(i)'
  <2>1. i \notin stale /\ Fresh(i)
    BY <1>3 DEF IInv
  <2>2. CASE i = j
    BY <1>2, <1>3, <1>4, <1>8, <1>9, <2>2 DEF Fresh
  <2>3. CASE i # j
    BY <1>3, <1>4, <1>8, <2>1, <2>3 DEF Fresh
  <2> QED
    BY <2>2, <2>3
<1>11. ASSUME NEW i \in Jobs \ (stale' \cup missed') PROVE Held(i)' /\ Stopping(i)'
  <2>1. CASE i = j
    BY <1>2, <1>4, <1>8, <2>1 DEF Held, Stopping
  <2>2. CASE i # j
    BY <1>3, <1>4, <1>8, <2>2 DEF IInv, Held, Stopping, Running
  <2> QED
    BY <2>1, <2>2
<1>12. \A w \in Workers : Underway(w)'
  BY <1>3 DEF IInv, Underway
<1> QED
  BY <1>3, <1>5, <1>6, <1>7, <1>10, <1>11, <1>12 DEF IInv, Sound

\* The workflow of a job is started once, and a job that was cancelled before is about to tell it.
LEMMA LaunchStep ==
    ASSUME IInv, NEW s \in Sessions, Launch(s)
    PROVE  IInv'
<1> DEFINE j == txn[s].job
           t == txn[s].seen.approval
           new == At("status", "RUNNING")
<1>1. /\ j \in Jobs /\ t \in Tickets /\ txn[s].pc = "committed" /\ txn[s].kind = "start"
      /\ wf' = [wf EXCEPT ![j] = new] /\ txn' = [txn EXCEPT ![s] = Idle]
      /\ asked' = asked \ {j} /\ run' = [run EXCEPT ![j] = @ + 1]
      /\ launches' = [launches EXCEPT ![t] = @ + 1]
      /\ UNCHANGED <<cleared, job, bound, open, granted, redeemed, act, stale, missed>>
  BY DEF Launch, In, End, approvalVars, IInv, Snapshot
<1>2. new \in Point /\ new.phase = "status" /\ new.value = "RUNNING" /\ Sound(new) /\ new # NotStarted
  BY DEF At, Point, Status, Active, Sound, NotStarted
<1> HIDE DEF new
<1>3. /\ txn'[s] = Idle /\ \A r \in Sessions \ {s} : txn'[r] = txn[r]
      /\ wf'[j] = new /\ \A i \in Jobs \ {j} : wf'[i] = wf[i]
  BY <1>1 DEF IInv, TypeOK
<1>4. TypeOK'
  BY <1>1, <1>2, IdleTyped DEF IInv, TypeOK
<1>5. ASSUME NEW u \in Tickets PROVE Backed(u)'
  <2>1. IsFiniteSet(Starting(u)) /\ Cardinality(Starting(u)) \in Nat
    BY FS_CardinalityType DEF IInv, Backed
  <2>2. CASE u = t
    <3>1. Starting(u)' = Starting(u) \ {s} /\ s \in Starting(u)
      BY <1>1, <1>3, <2>2 DEF Starting, In, Idle
    <3>2. IsFiniteSet(Starting(u)') /\ Cardinality(Starting(u)') = Cardinality(Starting(u)) - 1
      BY <2>1, <3>1, FS_RemoveElement
    <3> QED
      BY <1>1, <2>1, <2>2, <3>2 DEF IInv, Backed, TypeOK
  <2>3. CASE u # t
    <3>1. Starting(u)' \subseteq Starting(u)
      BY <1>3 DEF Starting, In, Idle
    <3> QED
      BY <1>1, <2>3, <3>1, StartingKept DEF IInv, TypeOK
  <2> QED
    BY <2>2, <2>3
<1>6. \A r \in Sessions : Snapshot(r)'
  BY <1>3 DEF IInv, Snapshot, Idle
<1>7. \A i \in Jobs, r \in Sessions : /\ Started(r, i)' <=> (Started(r, i) /\ r # s)
                                      /\ Canceling(r, i)' <=> Canceling(r, i)
                                      /\ Started(s, i) => i = j
  BY <1>1, <1>3 DEF Started, Canceling, In, Idle
<1>8. Started(s, j)
  BY <1>1 DEF Started, In
<1>9. ASSUME NEW i \in Jobs \ stale' PROVE Fresh(i)'
  <2>1. Fresh(i)
    BY <1>1 DEF IInv
  <2>2. CASE i = j
    BY <1>1, <1>2, <1>3, <1>7, <1>8, <2>1, <2>2 DEF Fresh
  <2>3. CASE i # j
    BY <1>1, <1>3, <1>7, <2>1, <2>3 DEF Fresh
  <2> QED
    BY <2>2, <2>3
<1>10. ASSUME NEW i \in Jobs \ (stale' \cup missed') PROVE Held(i)' /\ Stopping(i)'
  <2>1. Fresh(i) /\ Held(i) /\ Stopping(i)
    BY <1>1 DEF IInv
  <2>2. CASE i = j
    <3>1. Held(i)'
      BY <1>2, <1>3, <2>2 DEF Held, Running
    <3>2. job[i].status = "CANCELLED" => \E r \in Sessions : Canceling(r, i)
      BY <1>8, <2>1, <2>2 DEF Fresh, Stopping, NotStarted, At
    <3>3. Stopping(i)'
      BY <1>1, <1>7, <1>8, <2>1, <2>2, <3>2 DEF Stopping, Fresh
    <3> QED
      BY <3>1, <3>3
  <2>3. CASE i # j
    BY <1>1, <1>3, <1>7, <2>1, <2>3 DEF Held, Stopping, Running
  <2> QED
    BY <2>2, <2>3
<1>11. \A w \in Workers : Underway(w)'
  BY <1>1 DEF IInv, Underway
<1> QED
  BY <1>2, <1>3, <1>4, <1>5, <1>6, <1>9, <1>10, <1>11 DEF IInv, Sound

LEMMA CancelWorkflowStep ==
    ASSUME IInv, NEW s \in Sessions, CancelWorkflow(s)
    PROVE  IInv'
<1> DEFINE j == txn[s].job
<1>1. /\ j \in Jobs /\ txn[s].pc = "committed" /\ txn[s].kind = "cancel" /\ wf[j] # NotStarted
      /\ txn' = [txn EXCEPT ![s] = Idle] /\ asked' = asked \cup {j}
      /\ UNCHANGED <<cleared, job, bound, open, granted, redeemed, wf, act, run, launches, stale,
                     missed>>
  BY DEF CancelWorkflow, In, End, approvalVars, IInv, Snapshot
<1>2. txn'[s] = Idle /\ \A r \in Sessions \ {s} : txn'[r] = txn[r]
  BY <1>1 DEF IInv, TypeOK
<1>3. TypeOK'
  BY <1>1, IdleTyped DEF IInv, TypeOK
<1>4. \A t \in Tickets : Backed(t)'
  BY <1>1, <1>2, BackedKept DEF IInv, Idle
<1>5. \A r \in Sessions : Snapshot(r)'
  BY <1>2 DEF IInv, Snapshot, Idle
<1>6. \A i \in Jobs, r \in Sessions : /\ Started(r, i)' <=> Started(r, i)
                                      /\ Canceling(r, i) <=> (Canceling(r, i)' \/ (r = s /\ i = j))
  BY <1>1, <1>2 DEF Started, Canceling, In, Idle
<1>7. ASSUME NEW i \in Jobs \ stale' PROVE Fresh(i)'
  BY <1>1, <1>6 DEF IInv, Fresh
<1>8. ASSUME NEW i \in Jobs \ (stale' \cup missed') PROVE Held(i)' /\ Stopping(i)'
  BY <1>1, <1>6 DEF IInv, Held, Stopping, Running
<1>9. \A w \in Workers : Underway(w)'
  BY <1>1 DEF IInv, Underway
<1> QED
  BY <1>1, <1>3, <1>4, <1>5, <1>7, <1>8, <1>9 DEF IInv, Sound

\* A cancellation that finds a workflow its read did not see is missed.
LEMMA CancelCommitStep ==
    ASSUME IInv, NEW s \in Sessions, CancelCommit(s)
    PROVE  IInv'
<1> DEFINE j == txn[s].job
           q == [job[j] EXCEPT !.status = "CANCELLED"]
           new == IF txn[s].seen.launched THEN [txn[s] EXCEPT !.pc = "committed"] ELSE Idle
<1>1. txn[s] \in Txn /\ j \in Jobs /\ job[j] \in Job /\ txn[s].pc = "read"
      /\ txn[s].kind = "cancel" /\ txn[s].seen.status \in {"PENDING_APPROVAL"} \cup Active
  BY DEF CancelCommit, In, IInv, TypeOK, Snapshot
<1>2. q \in Job /\ q.launched = job[j].launched /\ q.status = "CANCELLED"
  BY <1>1 DEF Job, Status, Terminal
<1>3. /\ new \in Txn
      /\ \/ new = Idle
         \/ /\ new.pc = "committed" /\ new.kind = "cancel" /\ new.job = j
            /\ new.seen = txn[s].seen
  BY <1>1, IdleTyped DEF Txn
<1>4. /\ job' = [job EXCEPT ![j] = q] /\ txn' = [txn EXCEPT ![s] = new]
      /\ stale \subseteq stale' /\ stale' \subseteq stale \cup {j}
      /\ missed \subseteq missed' /\ missed' \subseteq missed \cup {j}
      /\ job[j].launched /\ j \notin missed' => new # Idle
      /\ UNCHANGED <<cleared, bound, open, granted, redeemed, wf, asked, act, run, launches>>
  BY <1>1 DEF CancelCommit, Commit, Store, End, approvalVars, workflowVars, IInv, TypeOK, Idle
<1> HIDE DEF q, new
<1>5. /\ txn'[s] = new /\ \A r \in Sessions \ {s} : txn'[r] = txn[r]
      /\ job'[j] = q /\ \A i \in Jobs \ {j} : job'[i] = job[i]
  BY <1>1, <1>4 DEF IInv, TypeOK
<1>6. TypeOK'
  BY <1>1, <1>2, <1>3, <1>4 DEF IInv, TypeOK
<1>7. \A t \in Tickets : Backed(t)'
  BY <1>3, <1>4, <1>5, BackedKept DEF IInv, Idle
<1>8. \A r \in Sessions : Snapshot(r)'
  BY <1>1, <1>3, <1>5 DEF IInv, Snapshot, Idle
<1>9. \A i \in Jobs, r \in Sessions :
        /\ Started(r, i)' <=> Started(r, i)
        /\ Canceling(r, i) => Canceling(r, i)'
        /\ Canceling(r, i)' => Canceling(r, i) \/ i = j
  BY <1>1, <1>3, <1>5 DEF Started, Canceling, In, Idle
<1>10. ASSUME NEW i \in Jobs \ stale' PROVE Fresh(i)'
  <2>1. Fresh(i)
    BY <1>4 DEF IInv
  <2>2. CASE i = j
    BY <1>2, <1>4, <1>5, <1>9, <2>1, <2>2 DEF Fresh, Terminal
  <2>3. CASE i # j
    BY <1>4, <1>5, <1>9, <2>1, <2>3 DEF Fresh
  <2> QED
    BY <2>2, <2>3
<1>11. ASSUME NEW i \in Jobs \ (stale' \cup missed') PROVE Held(i)' /\ Stopping(i)'
  <2>1. Fresh(i) /\ Held(i) /\ Stopping(i)
    BY <1>4 DEF IInv
  <2>2. CASE i = j
    <3>1. Held(i)'
      BY <1>2, <1>5, <2>2 DEF Held, Active
    <3>2. Running(i) \/ (\E r \in Sessions : Started(r, i)) => job[i].launched
      BY <2>1 DEF Fresh, Running, NotStarted, At
    <3>3. job[i].launched => Canceling(s, i)'
      BY <1>3, <1>4, <1>5, <2>2 DEF Canceling, In
    <3> QED
      BY <1>4, <1>9, <3>1, <3>2, <3>3 DEF Stopping, Running
  <2>3. CASE i # j
    BY <1>4, <1>5, <1>9, <2>1, <2>3 DEF Held, Stopping, Running
  <2> QED
    BY <2>2, <2>3
<1>12. \A w \in Workers : Underway(w)'
  BY <1>4 DEF IInv, Underway
<1> QED
  BY <1>4, <1>6, <1>7, <1>8, <1>10, <1>11, <1>12 DEF IInv, Sound

-----------------------------------------------------------------------------
(* The workflow and its activities *)

\* A workflow that runs goes on to point p: it keeps its request to stop, reports, or closes
\* when the job has ended or the report failed for good.
LEMMA WorkflowStep ==
    ASSUME IInv, NEW j \in Jobs, NEW p \in Point, Sound(p), wf' = [wf EXCEPT ![j] = p],
           UNCHANGED <<cleared, job, txn, bound, open, granted, redeemed, act, run, launches, stale>>,
           asked \ {j} \subseteq asked', asked' \subseteq asked,
           missed \subseteq missed', missed' \subseteq Jobs,
           wf[j].phase \in {"status", "scan", "persist"}, p # NotStarted,
           wf[j] = At("status", "CANCELLED") => p = Closed,
           \/ wf[j].phase = "scan" /\ p.phase = "persist" /\ UNCHANGED asked
           \/ p.phase = "status" /\ p.value # "RUNNING"
           \/ p = Closed /\ (j \in missed' \/ j \in asked)
    PROVE  IInv'
<1>1. wf'[j] = p /\ \A i \in Jobs \ {j} : wf'[i] = wf[i]
  BY DEF IInv, TypeOK
<1>2. TypeOK'
  BY DEF IInv, TypeOK
<1>3. \A t \in Tickets : Backed(t)'
  BY BackedKept DEF IInv
<1>4. \A i \in Jobs, r \in Sessions : /\ Started(r, i)' <=> Started(r, i)
                                      /\ Canceling(r, i)' <=> Canceling(r, i)
  BY DEF Started, Canceling, In
<1>5. ASSUME NEW i \in Jobs \ stale' PROVE Fresh(i)'
  <2>1. Fresh(i)
    BY DEF IInv
  <2>2. CASE i = j
    <3>1. wf[i] # NotStarted /\ wf[i] # Closed /\ wf'[i] # NotStarted
      BY <1>1, <2>2 DEF NotStarted, Closed, At
    <3> QED
      BY <1>1, <1>4, <2>1, <2>2, <3>1 DEF Fresh
  <2>3. CASE i # j
    BY <1>1, <1>4, <2>1, <2>3 DEF Fresh
  <2> QED
    BY <2>2, <2>3
<1>6. ASSUME NEW i \in Jobs \ (stale' \cup missed') PROVE Held(i)' /\ Stopping(i)'
  <2>1. Fresh(i) /\ Held(i) /\ Stopping(i)
    BY DEF IInv
  <2>2. CASE i = j
    <3>1. ~ \E r \in Sessions : Started(r, i)'
      BY <1>4, <2>1, <2>2 DEF Fresh, NotStarted, At
    <3>2. CASE wf[j].phase = "scan" /\ p.phase = "persist" /\ UNCHANGED asked
      BY <1>1, <1>4, <2>1, <2>2, <3>1, <3>2 DEF Held, Stopping, Running
    <3>3. CASE p.phase = "status" /\ p.value # "RUNNING"
      BY <1>1, <2>2, <3>3 DEF Held, Stopping, Running
    <3>4. CASE p = Closed /\ i \in asked
      BY <1>1, <2>1, <2>2, <3>1, <3>4
         DEF Held, Stopping, Running, Fresh, Closed, At, Active, Terminal
    <3> QED
      BY <2>2, <3>2, <3>3, <3>4
  <2>3. CASE i # j
    BY <1>1, <1>4, <2>1, <2>3 DEF Held, Stopping, Running
  <2> QED
    BY <2>2, <2>3
<1>7. \A r \in Sessions : Snapshot(r)'
  BY DEF IInv, Snapshot
<1>8. (\A i \in Jobs : Sound(wf[i])') /\ \A w \in Workers : Underway(w)'
  BY <1>1 DEF IInv, Sound, Underway
<1> QED
  BY <1>2, <1>3, <1>5, <1>6, <1>7, <1>8 DEF IInv

LEMMA WorkflowSteps ==
    ASSUME IInv, NEW j \in Jobs, Scanned(j) \/ GiveUp(j) \/ Cancelled(j)
    PROVE  IInv'
<1> USE DEF approvalVars
<1>1. \A v \in Status : At("status", v) \in Point /\ At("persist", v) \in Point
  BY DEF At, Point
<1>2. Closed \in Point /\ Closed # NotStarted /\ Sound(Closed)
  BY RestingTyped DEF Closed, NotStarted, At, Point, Status
<1>3. \A v \in {"FAILED", "TIMED_OUT", "CANCELLED"} :
        /\ At("status", v) \in Point /\ Sound(At("status", v)) /\ At("status", v) # NotStarted
        /\ At("status", v).phase = "status" /\ At("status", v).value = v
  BY <1>1 DEF At, Sound, NotStarted, Status, Terminal
<1>4. \A v \in {"SUCCEEDED", "FAILED"} :
        /\ At("persist", v) \in Point /\ Sound(At("persist", v)) /\ At("persist", v) # NotStarted
        /\ At("persist", v).phase = "persist"
  BY <1>1 DEF At, Sound, NotStarted, Status, Terminal
<1>5. missed \subseteq Jobs
  BY DEF IInv, TypeOK
<1>6. wf[j].phase # "status" \/ wf[j].value # "CANCELLED" => wf[j] # At("status", "CANCELLED")
  BY DEF At
<1>7. CASE Scanned(j)
  <2>1. PICK p : /\ wf' = [wf EXCEPT ![j] = p] /\ wf[j].phase = "scan"
                 /\ \/ \E v \in {"SUCCEEDED", "FAILED"} : p = At("persist", v)
                    \/ \E v \in {"FAILED", "TIMED_OUT"} : p = At("status", v)
    BY <1>7 DEF Scanned, Goto
  <2>2. UNCHANGED <<cleared, job, txn, bound, open, granted, redeemed, asked, act, run, launches,
                    stale, missed>>
    BY <1>7 DEF Scanned, Goto
  <2>3. /\ p \in Point /\ Sound(p) /\ p # NotStarted
        /\ p.phase = "persist" \/ (p.phase = "status" /\ p.value # "RUNNING")
    BY <1>3, <1>4, <2>1
  <2> QED
    BY <1>5, <1>6, <2>1, <2>2, <2>3, WorkflowStep
<1>8. CASE GiveUp(j)
  <2>1. CASE wf[j].phase = "persist"
    <3>1. PICK v \in {"FAILED", "TIMED_OUT"} : Goto(j, At("status", v)) /\ UNCHANGED missed
      BY <1>8, <2>1 DEF GiveUp
    <3> QED
      BY <1>3, <1>5, <1>6, <2>1, <3>1, WorkflowStep DEF Goto
  <2>2. CASE wf[j].phase = "status"
    <3>1. Goto(j, Closed) /\ missed' = missed \cup {j}
      BY <1>8, <2>2 DEF GiveUp
    <3> QED
      BY <1>2, <1>5, <2>2, <3>1, WorkflowStep DEF Goto
  <2> QED
    BY <1>8, <2>1, <2>2 DEF GiveUp
<1>9. CASE Cancelled(j)
  <2>1. /\ UNCHANGED <<cleared, job, txn, bound, open, granted, redeemed, act, run, launches, stale,
                       missed>>
        /\ j \in asked /\ asked' = asked \ {j}
    BY <1>9 DEF Cancelled
  <2>2. CASE wf[j].phase \in {"scan", "persist"}
    <3>1. PICK v \in {"CANCELLED", "FAILED"} : wf' = [wf EXCEPT ![j] = At("status", v)]
      BY <1>9, <2>2 DEF Cancelled
    <3> QED
      BY <1>3, <1>5, <1>6, <2>1, <2>2, <3>1, WorkflowStep
  <2>3. CASE wf[j].phase = "status"
    <3>1. wf' = [wf EXCEPT ![j] = Closed] /\ wf[j].value # "CANCELLED"
      BY <1>9, <2>3 DEF Cancelled
    <3> QED
      BY <1>2, <1>5, <1>6, <2>1, <2>3, <3>1, WorkflowStep
  <2> QED
    BY <1>9, <2>2, <2>3 DEF Cancelled
<1> QED
  BY <1>7, <1>8, <1>9

\* An activity begins or fails: it has written nothing.
LEMMA ExecuteFailStep ==
    ASSUME IInv, NEW w \in Workers, (\E j \in Jobs : Execute(w, j)) \/ Fail(w)
    PROVE  IInv'
<1>1. UNCHANGED <<cleared, job, txn, bound, open, granted, redeemed, wf, asked, run, launches, stale,
                  missed>>
  BY DEF Execute, Fail, approvalVars
<1>2. PICK e \in Execution :
        /\ act' = [act EXCEPT ![w] = e]
        /\ \/ e = Resting
           \/ /\ e.job \in Jobs /\ wf[e.job].phase \in {"status", "persist"}
              /\ e.point = wf[e.job] /\ e.seen = job[e.job].status
  <2>1. CASE Fail(w)
    BY <2>1, RestingTyped DEF Fail
  <2>2. ASSUME NEW j \in Jobs, Execute(w, j)
        PROVE  \E e \in Execution :
                 /\ act' = [act EXCEPT ![w] = e]
                 /\ e.job \in Jobs /\ wf[e.job].phase \in {"status", "persist"}
                 /\ e.point = wf[e.job] /\ e.seen = job[e.job].status
    <3> DEFINE e == [job |-> j, run |-> run[j], point |-> wf[j], seen |-> job[j].status]
    <3>1. e \in Execution
      BY DEF IInv, TypeOK, Execution, Job
    <3>2. act' = [act EXCEPT ![w] = e] /\ wf[j].phase \in {"status", "persist"}
      BY <2>2 DEF Execute
    <3> QED
      BY <3>1, <3>2
  <2> QED
    BY <2>1, <2>2
<1>3. act'[w] = e /\ \A v \in Workers \ {w} : act'[v] = act[v]
  BY <1>2 DEF IInv, TypeOK
<1>4. TypeOK'
  BY <1>1, <1>2 DEF IInv, TypeOK
<1>5. \A t \in Tickets : Backed(t)'
  BY <1>1, BackedKept DEF IInv
<1>6. \A i \in Jobs, r \in Sessions : /\ Started(r, i)' <=> Started(r, i)
                                      /\ Canceling(r, i)' <=> Canceling(r, i)
  BY <1>1 DEF Started, Canceling, In
<1>7. \A v \in Workers : Underway(v)'
  BY <1>2, <1>3 DEF IInv, Underway
<1>8. ASSUME NEW i \in Jobs \ stale' PROVE Fresh(i)'
  <2>1. Fresh(i)
    BY <1>1 DEF IInv
  <2>2. e # Resting /\ e.job = i => wf[i] # NotStarted
    BY <1>2 DEF NotStarted, At
  <2> QED
    BY <1>1, <1>2, <1>3, <1>6, <2>1, <2>2 DEF Fresh
<1>9. ASSUME NEW i \in Jobs \ (stale' \cup missed') PROVE Held(i)' /\ Stopping(i)'
  BY <1>1, <1>6 DEF IInv, Held, Stopping, Running
<1>10. (\A r \in Sessions : Snapshot(r)') /\ \A i \in Jobs : Sound(wf[i])'
  BY <1>1 DEF IInv, Snapshot, Sound
<1> QED
  BY <1>4, <1>5, <1>7, <1>8, <1>9, <1>10 DEF IInv

\* An answer stores what a job that has not ended may become; one that closes the workflow leaves
\* the job ended.
LEMMA AnswerStep ==
    ASSUME IInv, NEW w \in Workers, Answer(w)
    PROVE  IInv'
<1> DEFINE e == act[w]
           j == e.job
           v == e.point.value
<1>1. /\ e # Resting /\ e \in Execution /\ j \in Jobs /\ e.point.phase \in {"status", "persist"}
      /\ Sound(e.point) /\ job[j] \in Job /\ v \in Status
      /\ act' = [act EXCEPT ![w] = Resting]
      /\ UNCHANGED <<cleared, txn, bound, open, granted, redeemed, asked, run, launches, missed>>
  BY DEF Answer, approvalVars, IInv, TypeOK, Underway, Execution, Point
<1>2. /\ act'[w] = Resting /\ \A u \in Workers \ {w} : act'[u] = act[u]
      /\ act' \in [Workers -> Execution]
  BY <1>1, RestingTyped DEF IInv, TypeOK
\* what it stores
<1>3. /\ job' \in [Jobs -> Job] /\ \A i \in Jobs \ {j} : job'[i] = job[i]
      /\ job'[j].launched = job[j].launched
      /\ job'[j].status = IF Stores(e) THEN v ELSE job[j].status
      /\ stale' = IF Stores(e) /\ job[j].status \notin {e.seen, v} THEN stale \cup {j} ELSE stale
  <2>1. CASE Stores(e)
    <3> DEFINE q == [job[j] EXCEPT !.status = v]
    <3>1. q \in Job /\ q.status = v /\ q.launched = job[j].launched
      BY <1>1 DEF Job
    <3>2. /\ job' = [job EXCEPT ![j] = q]
          /\ stale' = IF job[j].status \notin {e.seen, q.status} THEN stale \cup {j} ELSE stale
      BY <2>1 DEF Answer, Store
    <3> HIDE DEF q
    <3> QED
      BY <1>1, <2>1, <3>1, <3>2 DEF IInv, TypeOK
  <2>2. CASE ~Stores(e)
    BY <1>1, <2>2 DEF Answer, IInv, TypeOK
  <2> QED
    BY <2>1, <2>2
\* where the workflow goes
<1>4. After(e.point) \in Point /\ Sound(After(e.point)) /\ After(e.point) # NotStarted
      /\ IF v = "RUNNING" THEN After(e.point).phase = "scan" ELSE After(e.point) = Closed
  <2>1. e.point = At("status", "RUNNING") <=> v = "RUNNING"
    BY <1>1 DEF At, Execution, Point, Sound
  <2>2. /\ At("scan", "ABSENT") \in Point /\ Sound(At("scan", "ABSENT"))
        /\ At("scan", "ABSENT") # NotStarted /\ At("scan", "ABSENT").phase = "scan"
        /\ Closed \in Point /\ Sound(Closed) /\ Closed # NotStarted
    BY DEF At, Closed, NotStarted, Sound, Point, Status
  <2> QED
    BY <2>1, <2>2 DEF After
<1>5. \/ UNCHANGED wf
      \/ wf[j] = e.point /\ wf' = [wf EXCEPT ![j] = After(e.point)]
  BY DEF Answer
<1>6. /\ wf' \in [Jobs -> Point] /\ \A i \in Jobs \ {j} : wf'[i] = wf[i]
      /\ wf'[j] = wf[j] \/ (wf[j] = e.point /\ wf'[j] = After(e.point))
  BY <1>1, <1>4, <1>5 DEF IInv, TypeOK
<1>7. TypeOK'
  BY <1>1, <1>2, <1>3, <1>6 DEF IInv, TypeOK
<1>8. \A t \in Tickets : Backed(t)'
  BY <1>1, BackedKept DEF IInv
<1>9. \A i \in Jobs, r \in Sessions : /\ Started(r, i)' <=> Started(r, i)
                                      /\ Canceling(r, i)' <=> Canceling(r, i)
  BY <1>1 DEF Started, Canceling, In
<1>10. v = "RUNNING" \/ v \in Terminal
  BY <1>1 DEF Sound, Terminal
\* a job on which nothing stale was written has not left its end
<1>11. ASSUME j \notin stale'
       PROVE  /\ Fresh(j) /\ wf[j] # NotStarted /\ wf'[j] # NotStarted
              /\ job[j].status \in Active \cup Terminal
              /\ job'[j].status \in Active \cup Terminal
              /\ job[j].status \in Terminal => job'[j].status \in Terminal
              /\ job'[j].status \in Active => job[j].status \in Active
              /\ v # "RUNNING" => job'[j].status \in Terminal
  <2>1. j \notin stale /\ (Stores(e) => job[j].status \in {e.seen, v})
    BY <1>3, <1>11
  <2>2. Fresh(j) /\ wf[j] # NotStarted
    BY <1>1, <2>1 DEF IInv, Fresh
  <2>3. job[j].status \in Active \cup Terminal
    BY <1>1, <2>2 DEF Fresh, Job, Status
  <2>4. e.seen \in Terminal => job[j].status \in Terminal
    BY <1>1, <2>2 DEF Fresh
  <2>5. v = "RUNNING" => e.point.phase = "status"
    BY <1>1 DEF Sound
  <2>6. CASE v = "RUNNING"
    BY <1>3, <1>4, <1>6, <2>1, <2>2, <2>3, <2>5, <2>6 DEF Stores, Active, Terminal
  <2>7. CASE v \in Terminal
    <3>1. ~Stores(e) => e.seen \in Terminal
      BY <2>7 DEF Stores
    <3> QED
      BY <1>3, <1>4, <1>6, <2>2, <2>3, <2>4, <2>7, <3>1 DEF Active, Terminal
  <2> QED
    BY <1>10, <2>6, <2>7
<1>12. \A u \in Workers : Underway(u)'
  BY <1>2 DEF IInv, Underway
<1>13. ASSUME NEW i \in Jobs \ stale' PROVE Fresh(i)'
  <2>1. Fresh(i)
    BY <1>3 DEF IInv
  <2>2. CASE i = j
    <3>1. /\ job'[i].status \notin {"ABSENT", "PENDING_APPROVAL"}
          /\ wf'[i] # NotStarted /\ wf[i] # NotStarted /\ job'[i].launched
          /\ job[i].status \in Terminal => job'[i].status \in Terminal
      BY <1>3, <1>11, <2>2 DEF Fresh, Active, Terminal
    <3>2. \A r \in Sessions : ~Started(r, i)'
      BY <1>9, <2>1, <3>1 DEF Fresh
    <3>3. \A p : p = At("status", "CANCELLED") /\ wf[i] \in {p, Closed} => wf'[i] \in {p, Closed}
      BY <1>1, <1>4, <1>6, <2>2 DEF At, Closed
    <3> QED
      BY <1>1, <1>2, <1>9, <2>1, <3>1, <3>2, <3>3 DEF Fresh
  <2>3. CASE i # j
    BY <1>1, <1>2, <1>3, <1>6, <1>9, <2>1, <2>3 DEF Fresh
  <2> QED
    BY <2>2, <2>3
<1>14. ASSUME NEW i \in Jobs \ (stale' \cup missed') PROVE Held(i)' /\ Stopping(i)'
  <2>1. Fresh(i) /\ Held(i) /\ Stopping(i)
    BY <1>1, <1>3 DEF IInv
  <2>2. CASE i = j
    <3>1. \A r \in Sessions : ~Started(r, i) /\ ~Started(r, i)'
      BY <1>9, <1>11, <2>2 DEF Fresh
    <3>2. Held(i)'
      <4> SUFFICES ASSUME job'[i].status \in Active PROVE Running(i)'
        BY DEF Held
      <4>1. Running(i)
        BY <1>11, <2>1, <2>2, <3>1 DEF Held
      <4>2. v = "RUNNING"
        BY <1>11, <2>2 DEF Active, Terminal
      <4> QED
        BY <1>4, <1>6, <2>2, <4>1, <4>2 DEF Running
    <3>3. Stopping(i)'
      <4> SUFFICES ASSUME job'[i].status = "CANCELLED", Running(i)'
                   PROVE  \/ i \in asked
                          \/ wf'[i].phase = "status" /\ wf'[i].value # "RUNNING"
                          \/ \E r \in Sessions : Canceling(r, i)
        BY <1>1, <1>9, <3>1 DEF Stopping
      <4>1. Running(i)
        BY <1>1, <1>6, <2>2 DEF Running
      <4>2. CASE job[i].status = "CANCELLED"
        BY <1>4, <1>6, <2>1, <2>2, <4>1, <4>2 DEF Stopping, Running, Closed, At
      <4>3. CASE job[i].status # "CANCELLED"
        <5>1. v = "CANCELLED" /\ e.point.phase = "status"
          BY <1>1, <1>3, <2>2, <4>3 DEF Sound
        <5>2. e.point = At("status", "CANCELLED")
          BY <1>1, <5>1 DEF At, Execution, Point
        <5>3. wf[i] \in {e.point, Closed}
          BY <1>1, <2>1, <2>2, <5>2 DEF Fresh
        <5> QED
          BY <1>4, <1>6, <2>2, <4>1, <5>1, <5>2, <5>3 DEF Running, Closed, At
      <4> QED
        BY <4>2, <4>3
    <3> QED
      BY <3>2, <3>3
  <2>3. CASE i # j
    BY <1>1, <1>3, <1>6, <1>9, <2>1, <2>3 DEF Held, Stopping, Running
  <2> QED
    BY <2>2, <2>3
<1>15. (\A r \in Sessions : Snapshot(r)') /\ \A i \in Jobs : Sound(wf[i])'
  BY <1>1, <1>4, <1>6 DEF IInv, Snapshot, Sound
<1> QED
  BY <1>7, <1>8, <1>12, <1>13, <1>14, <1>15 DEF IInv

-----------------------------------------------------------------------------
(* The theorems *)

\* Persons and the clock change the asset and the tickets only.
LEMMA EnvironmentStep ==
    ASSUME IInv, \/ Clear \/ Lapse \/ UNCHANGED vars
                 \/ \E t \in Tickets : Approve(t) \/ CloseTicket(t)
    PROVE  IInv'
<1>1. UNCHANGED <<job, txn, redeemed, wf, asked, act, run, launches, stale, missed>>
  BY DEF Clear, Lapse, Approve, CloseTicket, approvalVars, workflowVars, vars, V!Grant, V!Void
<1>2. TypeOK'
  <2>1. /\ bound' \in [Tickets -> Jobs \cup {None}] /\ open' \subseteq Tickets
        /\ granted' \in [Tickets -> Nat] /\ cleared' \in BOOLEAN
    <3>1. CASE Clear \/ Lapse \/ UNCHANGED vars
      BY <3>1 DEF Clear, Lapse, approvalVars, vars, IInv, TypeOK
    <3>2. ASSUME NEW t \in Tickets, Approve(t)
          PROVE  /\ granted' = [granted EXCEPT ![t] = @ + 1] /\ open' = open \cup {t}
                 /\ UNCHANGED <<bound, cleared>>
      BY <3>2 DEF Approve, V!Grant
    <3>3. ASSUME NEW t \in Tickets, CloseTicket(t)
          PROVE  open' \subseteq open /\ UNCHANGED <<bound, granted, cleared>>
      BY <3>3 DEF CloseTicket, V!Void
    <3> QED
      BY <3>1, <3>2, <3>3 DEF IInv, TypeOK
  <2> QED
    BY <1>1, <2>1 DEF IInv, TypeOK
<1>3. \A t \in Tickets : Backed(t)'
  BY <1>1, BackedKept DEF IInv
<1>4. Order'
  BY <1>1, QuietKeepsOrder DEF IInv, Order
<1> QED
  BY <1>2, <1>3, <1>4 DEF IInv, Order

LEMMA NextIInv == IInv /\ [Next]_vars => IInv'
<1> SUFFICES ASSUME IInv, [Next]_vars PROVE IInv'
  OBVIOUS
<1>1. ASSUME NEW s \in Sessions, Handler(s) PROVE IInv'
  BY <1>1, RequestCreateStep, RequestCommitStep, ConsumeStep, ConsumeLostStep, StartCommitStep,
     LaunchStep, CancelCommitStep, CancelWorkflowStep, AbortStep DEF Handler
<1>2. ASSUME NEW w \in Workers, Worker(w) PROVE IInv'
  BY <1>2, ExecuteFailStep, AnswerStep DEF Worker
<1>3. ASSUME NEW j \in Jobs, Scanned(j) \/ GiveUp(j) \/ Cancelled(j) PROVE IInv'
  BY <1>3, WorkflowSteps
<1> QED
  BY <1>1, <1>2, <1>3, ReadSteps, EnvironmentStep DEF Next

LEMMA Invariance == Spec => []IInv
<1>1. Init => IInv
  BY InitIInv
<1>2. IInv /\ [Next]_vars => IInv'
  BY NextIInv
<1> QED
  BY <1>1, <1>2, PTL DEF Spec

\* No scan runs without an approval of its own: in every state, the workflows started under a
\* ticket and the sessions about to start one are no more than its redemptions.
THEOREM ScansBackedHolds == Spec => []ScansBacked
<1>1. IInv => ScansBacked
  BY DEF IInv, Backed, ScansBacked
<1> QED
  BY <1>1, Invariance, PTL

\* A job that takes up capacity has a workflow that will end it or a handler that is about to
\* start one, and a cancelled one does not go on unasked, unless a call failed for good or a
\* handler wrote over a row it had not read.
THEOREM JobsHaveWorkflowsHolds == Spec => []JobsHaveWorkflows
<1>1. IInv => JobsHaveWorkflows
  <2> SUFFICES ASSUME IInv, NEW j \in Jobs \ (stale \cup missed)
               PROVE  /\ job[j].status \in Active =>
                           \/ Running(j)
                           \/ \E s \in Sessions : txn[s].job = j /\ In(s, {"start"}, "committed")
                      /\ job[j].status = "CANCELLED" /\ Running(j) =>
                           \/ j \in asked
                           \/ wf[j].phase = "status" /\ wf[j].value # "RUNNING"
                           \/ \E s \in Sessions : txn[s].job = j /\ In(s, {"cancel"}, "committed")
    BY DEF JobsHaveWorkflows
  <2>1. Held(j) /\ Stopping(j)
    BY DEF IInv
  <2> QED
    BY <2>1 DEF Held, Stopping, Started, Canceling
<1> QED
  BY <1>1, Invariance, PTL

\* What a scan has come to stays, but for findings that arrive late and for a handler that writes
\* over a row it had not read.
THEOREM FinalUnlessStaleHolds == Spec => FinalUnlessStale
<1>1. ASSUME IInv, [Next]_vars PROVE FinalStep
  <2> SUFFICES ASSUME NEW j \in Jobs, job[j].status \in Terminal, job'[j].status # job[j].status
               PROVE  j \in stale' \/ job'[j].status \in {"SUCCEEDED", "FAILED"}
    BY DEF FinalStep
  <2>1. ASSUME NEW s \in Sessions, RequestCommit(s) PROVE j \in stale'
    <3> DEFINE st == IF txn[s].seen.status = "ABSENT" THEN "PENDING_APPROVAL"
                                                      ELSE job[txn[s].job].status
               q == [job[txn[s].job] EXCEPT !.status = st, !.approval = txn[s].ticket]
    <3>1. /\ job' = [job EXCEPT ![txn[s].job] = q]
          /\ stale' = IF job[txn[s].job].status \notin {txn[s].seen.status, q.status}
                        THEN stale \cup {txn[s].job} ELSE stale
      BY <2>1 DEF RequestCommit, Commit, Store
    <3>2. q.status = st /\ job \in [Jobs -> Job]
      BY <1>1, <2>1 DEF IInv, TypeOK, RequestCommit, In, Snapshot, Job
    <3> HIDE DEF q
    <3> QED
      BY <3>1, <3>2 DEF Terminal
  <2>2. ASSUME NEW s \in Sessions, StartCommit(s) PROVE j \in stale'
    <3>1. txn[s].seen.status = "PENDING_APPROVAL" /\ job \in [Jobs -> Job]
      BY <1>1, <2>2 DEF IInv, TypeOK, StartCommit, In, Snapshot
    <3> QED
      BY <2>2, <3>1 DEF StartCommit, Terminal
  <2>3. ASSUME NEW s \in Sessions, CancelCommit(s) PROVE j \in stale'
    <3> DEFINE q == [job[txn[s].job] EXCEPT !.status = "CANCELLED"]
    <3>1. /\ job' = [job EXCEPT ![txn[s].job] = q]
          /\ stale' = IF job[txn[s].job].status \notin {txn[s].seen.status, q.status}
                        THEN stale \cup {txn[s].job} ELSE stale
      BY <2>3 DEF CancelCommit, Commit, Store
    <3>2. /\ q.status = "CANCELLED" /\ job \in [Jobs -> Job]
          /\ txn[s].seen.status \in {"PENDING_APPROVAL"} \cup Active
      BY <1>1, <2>3 DEF IInv, TypeOK, CancelCommit, In, Snapshot, Job
    <3> HIDE DEF q
    <3> QED
      BY <3>1, <3>2 DEF Terminal, Active
  <2>4. ASSUME NEW w \in Workers, Answer(w)
        PROVE  j \in stale' \/ job'[j].status \in {"SUCCEEDED", "FAILED"}
    <3> DEFINE e == act[w]
               q == [job[e.job] EXCEPT !.status = e.point.value]
    <3>1. Stores(e) /\ job' = [job EXCEPT ![e.job] = q]
          /\ stale' = IF job[e.job].status \notin {e.seen, q.status} THEN stale \cup {e.job} ELSE stale
      BY <2>4 DEF Answer, Store
    <3>2. /\ e.job \in Jobs /\ job \in [Jobs -> Job] /\ Sound(e.point)
          /\ e.point.phase \in {"status", "persist"}
      BY <1>1, <2>4 DEF IInv, TypeOK, Answer, Underway
    <3>3. q.status = e.point.value
      BY <3>2 DEF Job
    <3>4. e.job = j /\ job'[j] = q
      BY <3>1, <3>2
    <3> HIDE DEF q
    <3> QED
      BY <3>1, <3>2, <3>3, <3>4 DEF Stores, Sound
  <2>5. \/ UNCHANGED job
        \/ \E s \in Sessions : RequestCommit(s) \/ StartCommit(s) \/ CancelCommit(s)
        \/ \E w \in Workers : Answer(w)
    BY <1>1 DEF Next, vars, Handler, Worker, Clear, Lapse, RequestRead, RetryRead, StartRead, CancelRead,
                Read, RequestCreate, Consume, ConsumeLost, Launch, CancelWorkflow, Abort, Scanned,
                GiveUp, Cancelled, Goto, Execute, Fail, Approve, CloseTicket
  <2> QED
    BY <2>1, <2>2, <2>3, <2>4, <2>5
<1> QED
  BY <1>1, Invariance, PTL DEF FinalUnlessStale, Spec
=============================================================================
