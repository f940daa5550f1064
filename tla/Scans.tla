------------------------------- MODULE Scans -------------------------------
(***************************************************************************)
(* Vulnerability scans: rows of scan_jobs that scanner-controller writes   *)
(* in HTTP handlers, the ScanWorkflow that Temporal runs for a started     *)
(* job, and the activities by which the workflow writes the row back.      *)
(*                                                                         *)
(* A handler or activity is one READ COMMITTED transaction that reads its  *)
(* row without a lock and writes it at commit.  Calls to the approval      *)
(* service fall inside a transaction, calls to Temporal after it: neither  *)
(* is atomic with the commit.  An activity may be executed again while an  *)
(* earlier execution still runs, and its answer may be lost.               *)
(*                                                                         *)
(* A job stands for its idempotency key, which is unique in scan_jobs; all *)
(* jobs are of one asset, profile and requester.  A ticket is an approval  *)
(* id; its payload names the job.                                          *)
(***************************************************************************)
EXTENDS Naturals, FiniteSets

CONSTANTS
    Jobs,           \* idempotency keys
    Tickets,        \* approval ids
    Sessions,       \* requests served at once
    Workers,        \* activities executed at once
    None,           \* SQL NULL
    MaxConcurrent,  \* max_concurrent_scans
    MaxGrants       \* bound: approvals of one ticket

\* What the constants must satisfy; a module that instantiates Scans assumes it.
ScanAssumption == MaxConcurrent \in Nat /\ MaxGrants \in Nat

VARIABLES
    cleared,     \* the asset is verified, authorized by the customer and allowlisted now
    job,         \* scan_jobs, as committed
    txn,         \* the open handler of each session
    bound,       \* the job each ticket was created for
    open, granted, redeemed,   \* the approval service
    wf,          \* where the workflow of each job is
    asked,       \* jobs whose workflow was asked to cancel and has not noticed
    act,         \* the activity each worker executes
    run,         \* the run of each job's workflow, so far
    launches,    \* history: workflows started under each ticket
    stale,       \* history: jobs on which a stale transaction was committed
    missed       \* history: jobs for which a call to or from the workflow failed for good

approvalVars == <<bound, open, granted, redeemed>>
workflowVars == <<wf, asked, act, run, launches>>
vars == <<cleared, job, txn, approvalVars, workflowVars, stale, missed>>

V == INSTANCE Voucher WITH Requests <- Tickets

Active   == {"QUEUED", "RUNNING"}
Terminal == {"SUCCEEDED", "FAILED", "CANCELLED", "TIMED_OUT"}
Status   == {"ABSENT", "PENDING_APPROVAL"} \cup Active \cup Terminal

\* launched: workflow_id is set.
Job == [status : Status, approval : Tickets \cup {None}, launched : BOOLEAN]

NoJob == [status |-> "ABSENT", approval |-> None, launched |-> FALSE]

\* seen is the row as read; ticket is the approval the handler creates.
Txn == [kind   : {"idle", "request", "retry", "start", "cancel"},
        pc     : {"read", "ticketed", "redeemed", "committed"},
        job    : Jobs \cup {None},
        seen   : Job,
        ticket : Tickets \cup {None}]

Idle == [kind |-> "idle", pc |-> "read", job |-> None, seen |-> NoJob, ticket |-> None]

\* status: the workflow awaits update_scan_status(value); scan: a scanner;
\* persist: persist_findings, which will store value.
Point == [phase : {"none", "status", "scan", "persist", "closed"}, value : Status]

At(phase, value) == [phase |-> phase, value |-> value]

NotStarted == At("none", "ABSENT")
Closed     == At("closed", "ABSENT")

\* What a worker executes for a job, and the status it has read.
Execution == [job : Jobs \cup {None}, run : Nat, point : Point, seen : Status]

Resting == [job |-> None, run |-> 0, point |-> NotStarted, seen |-> "ABSENT"]

TypeOK ==
    /\ cleared \in BOOLEAN
    /\ job \in [Jobs -> Job]
    /\ txn \in [Sessions -> Txn]
    /\ bound \in [Tickets -> Jobs \cup {None}]
    /\ open \subseteq Tickets
    /\ granted \in [Tickets -> Nat] /\ redeemed \in [Tickets -> Nat]
    /\ wf \in [Jobs -> Point]
    /\ asked \subseteq Jobs
    /\ act \in [Workers -> Execution]
    /\ run \in [Jobs -> Nat]
    /\ launches \in [Tickets -> Nat]
    /\ stale \subseteq Jobs /\ missed \subseteq Jobs

Init ==
    /\ cleared = FALSE
    /\ job = [j \in Jobs |-> NoJob]
    /\ txn = [s \in Sessions |-> Idle]
    /\ bound = [t \in Tickets |-> None]
    /\ V!Init
    /\ wf = [j \in Jobs |-> NotStarted]
    /\ asked = {}
    /\ act = [w \in Workers |-> Resting]
    /\ run = [j \in Jobs |-> 0]
    /\ launches = [t \in Tickets |-> 0]
    /\ stale = {} /\ missed = {}

-----------------------------------------------------------------------------
(* The asset *)

\* The last of: check_verification finds the challenge, update_asset records a customer
\* authorization, allowlist lists the asset (which needs the other two).
Clear ==
    /\ cleared' = TRUE
    /\ UNCHANGED <<job, txn, approvalVars, workflowVars, stale, missed>>

\* The first of: verified_until or customer_authorization_expires_at passes, update_asset
\* withdraws the authorization, allowlist takes the asset off.
Lapse ==
    /\ cleared' = FALSE
    /\ UNCHANGED <<job, txn, approvalVars, workflowVars, stale, missed>>

-----------------------------------------------------------------------------
(* Handlers *)

\* Session s begins a transaction on the row of j.
Read(s, kind, j) ==
    /\ txn[s] = Idle
    /\ txn' = [txn EXCEPT ![s] = [kind |-> kind, pc |-> "read", job |-> j, seen |-> job[j],
                                  ticket |-> None]]
    /\ UNCHANGED <<cleared, job, approvalVars, workflowVars, stale, missed>>

In(s, kinds, pc) == txn[s].kind \in kinds /\ txn[s].pc = pc

End(s) == txn' = [txn EXCEPT ![s] = Idle]

\* q becomes the row of j, by a transaction that has read status seen.
Store(j, q, seen) ==
    /\ job' = [job EXCEPT ![j] = q]
    /\ stale' = IF job[j].status \notin {seen, q.status} THEN stale \cup {j} ELSE stale

\* Session s commits q as the row of its job.
Commit(s, q) == Store(txn[s].job, q, txn[s].seen.status)

\* create_job inserts a row; another insert of the key waits for it and then fails.
Insertable(j) ==
    /\ job[j].status = "ABSENT"
    /\ cleared
    /\ \A s \in Sessions : txn[s].job = j => txn[s].seen.status # "ABSENT"

\* request_scan; for a key that exists it changes nothing.
RequestRead(s, j) == Insertable(j) /\ Read(s, "request", j)

\* retry_scan of old under key j, which may exist, whatever its status.
RetryRead(s, old, j) ==
    /\ job[old].status \in {"FAILED", "TIMED_OUT", "CANCELLED"}
    /\ job[j].status # "ABSENT" \/ Insertable(j)
    /\ Read(s, "retry", j)

\* Both create an approval over HTTP and then store its id.
RequestCreate(s, t) ==
    /\ In(s, {"request", "retry"}, "read")
    /\ bound[t] = None
    /\ bound' = [bound EXCEPT ![t] = txn[s].job]
    /\ txn' = [txn EXCEPT ![s].pc = "ticketed", ![s].ticket = t]
    /\ UNCHANGED <<cleared, job, open, granted, redeemed, workflowVars, stale, missed>>

RequestCommit(s) ==
    LET q == job[txn[s].job]
    IN  /\ In(s, {"request", "retry"}, "ticketed")
        /\ Commit(s, [q EXCEPT !.status = IF txn[s].seen.status = "ABSENT"
                                          THEN "PENDING_APPROVAL" ELSE @,
                               !.approval = txn[s].ticket])
        /\ End(s)
        /\ UNCHANGED <<cleared, approvalVars, workflowVars, missed>>

\* ensure_capacity.
HasCapacity == Cardinality({j \in Jobs : job[j].status \in Active}) < MaxConcurrent

\* start_scan, up to the redemption of the approval.
StartRead(s, j) ==
    /\ job[j].status = "PENDING_APPROVAL"
    /\ cleared
    /\ HasCapacity
    /\ Read(s, "start", j)

\* Mutant of Redeems: a Conflict of the approval service is taken for a repeated answer.
RedeemsOrRepeats(s) ==
    /\ In(s, {"start"}, "read")
    /\ bound[txn[s].seen.approval] = txn[s].job
    /\ \/ V!Redeem(txn[s].seen.approval)
       \/ redeemed[txn[s].seen.approval] > 0 /\ UNCHANGED <<open, granted, redeemed>>

\* The POST that redeems the ticket for the payload of this very job.
Redeems(s) ==
    /\ In(s, {"start"}, "read")
    /\ bound[txn[s].seen.approval] = txn[s].job
    /\ V!Redeem(txn[s].seen.approval)

Consume(s) ==
    /\ Redeems(s)
    /\ txn' = [txn EXCEPT ![s].pc = "redeemed"]
    /\ UNCHANGED <<cleared, job, bound, workflowVars, stale, missed>>

\* The ticket is redeemed but the answer is lost.
ConsumeLost(s) ==
    /\ Redeems(s)
    /\ End(s)
    /\ UNCHANGED <<cleared, job, bound, workflowVars, stale, missed>>

\* A start that another one has overtaken is stale, although it finds what it writes.
StartCommit(s) ==
    LET j == txn[s].job
    IN  /\ In(s, {"start"}, "redeemed")
        /\ job' = [job EXCEPT ![j].status = "QUEUED", ![j].launched = TRUE]
        /\ stale' = IF job[j].status = txn[s].seen.status THEN stale ELSE stale \cup {j}
        /\ txn' = [txn EXCEPT ![s].pc = "committed"]
        /\ UNCHANGED <<cleared, approvalVars, workflowVars, missed>>

\* start_workflow, after the commit: Temporal runs one workflow per id at a time.
Launch(s) ==
    LET j == txn[s].job
    IN  /\ In(s, {"start"}, "committed")
        /\ wf[j] \in {NotStarted, Closed}
        /\ wf' = [wf EXCEPT ![j] = At("status", "RUNNING")]
        /\ asked' = asked \ {j}
        /\ run' = [run EXCEPT ![j] = @ + 1]
        /\ launches' = [launches EXCEPT ![txn[s].seen.approval] = @ + 1]
        /\ End(s)
        /\ UNCHANGED <<cleared, job, approvalVars, act, stale, missed>>

\* cancel_scan.
CancelRead(s, j) ==
    /\ job[j].status \in {"PENDING_APPROVAL"} \cup Active
    /\ Read(s, "cancel", j)

\* The commit of cancel_scan; a workflow_id that its read did not see is not told anything.
CancelCommit(s) ==
    LET j == txn[s].job
    IN  /\ In(s, {"cancel"}, "read")
        /\ Commit(s, [job[j] EXCEPT !.status = "CANCELLED"])
        /\ IF txn[s].seen.launched
             THEN txn' = [txn EXCEPT ![s].pc = "committed"] /\ UNCHANGED missed
             ELSE End(s) /\ missed' = IF job[j].launched THEN missed \cup {j} ELSE missed
        /\ UNCHANGED <<cleared, approvalVars, workflowVars>>

\* cancel_workflow, after the commit.
CancelWorkflow(s) ==
    LET j == txn[s].job
    IN  /\ In(s, {"cancel"}, "committed")
        /\ wf[j] \notin {NotStarted, Closed}
        /\ asked' = asked \cup {j}
        /\ End(s)
        /\ UNCHANGED <<cleared, job, approvalVars, wf, act, run, launches, stale, missed>>

\* A handler raises or is cut off.  After the commit this loses a call to Temporal: there is
\* no such workflow, or one that still runs, or Temporal is not reached.
Abort(s) ==
    /\ txn[s] # Idle
    /\ missed' = IF txn[s].pc = "committed" THEN missed \cup {txn[s].job} ELSE missed
    /\ End(s)
    /\ UNCHANGED <<cleared, job, approvalVars, workflowVars, stale>>

-----------------------------------------------------------------------------
(* ScanWorkflow and its activities *)

Goto(j, point) ==
    /\ wf' = [wf EXCEPT ![j] = point]
    /\ UNCHANGED <<cleared, job, txn, approvalVars, asked, act, run, launches, stale>>

\* The scanners are done, with or without errors of their own; or an activity failed.
Scanned(j) ==
    /\ wf[j].phase = "scan"
    /\ \/ \E v \in {"SUCCEEDED", "FAILED"} : Goto(j, At("persist", v))
       \/ \E v \in {"FAILED", "TIMED_OUT"} : Goto(j, At("status", v))
    /\ UNCHANGED missed

\* The last attempt of an activity failed: only an error of a scanner or of persist_findings
\* is caught and reported.
GiveUp(j) ==
    \/ /\ wf[j].phase = "persist"
       /\ \E v \in {"FAILED", "TIMED_OUT"} : Goto(j, At("status", v))
       /\ UNCHANGED missed
    \/ /\ wf[j].phase = "status"
       /\ Goto(j, Closed)
       /\ missed' = missed \cup {j}

\* The request is delivered where the workflow waits: as CancelledError, or as the
\* ActivityError of the activity that is cancelled with it.  Outside the try block either one
\* ends the workflow; the report of a CancelledError is shielded.
Cancelled(j) ==
    /\ j \in asked
    /\ \/ /\ wf[j].phase \in {"scan", "persist"}
          /\ \E v \in {"CANCELLED", "FAILED"} : wf' = [wf EXCEPT ![j] = At("status", v)]
       \/ /\ wf[j].phase = "status" /\ wf[j].value # "CANCELLED"
          /\ wf' = [wf EXCEPT ![j] = Closed]
    /\ asked' = asked \ {j}
    /\ UNCHANGED <<cleared, job, txn, approvalVars, act, run, launches, stale, missed>>

\* Worker w starts an execution of the activity that workflow j waits for.
Execute(w, j) ==
    /\ act[w] = Resting
    /\ wf[j].phase \in {"status", "persist"}
    /\ act' = [act EXCEPT ![w] = [job |-> j, run |-> run[j], point |-> wf[j],
                                  seen |-> job[j].status]]
    /\ UNCHANGED <<cleared, job, txn, approvalVars, wf, asked, run, launches, stale, missed>>

\* Mutants of Stores: findings do not end the job; a terminal status is not spared; a
\* timeout is not stored.
StoresReports(e)    == e.point.phase = "status" /\ e.point.value # e.seen /\ e.seen \notin Terminal
StoresAlways(e)     == e.point.value # e.seen
StoresButTimeout(e) ==
    /\ e.point.value \notin {e.seen, "TIMED_OUT"}
    /\ e.point.phase = "status" => e.seen \notin Terminal

\* The status an execution stores: set_status spares a terminal one, persist_findings does
\* not.  A value equal to the one read is not written.
Stores(e) ==
    /\ e.point.value # e.seen
    /\ e.point.phase = "status" => e.seen \notin Terminal

\* Where the workflow goes when the activity it waits for is done.
After(point) == IF point = At("status", "RUNNING") THEN At("scan", "ABSENT") ELSE Closed

\* Worker w commits and answers; the answer is lost, or late.
Answer(w) ==
    LET e == act[w]
        j == e.job
    IN  /\ e # Resting
        /\ act' = [act EXCEPT ![w] = Resting]
        /\ IF Stores(e)
             THEN Store(j, [job[j] EXCEPT !.status = e.point.value], e.seen)
             ELSE UNCHANGED <<job, stale>>
        /\ \/ /\ run[j] = e.run /\ wf[j] = e.point
              /\ wf' = [wf EXCEPT ![j] = After(e.point)]
           \/ UNCHANGED wf
        /\ UNCHANGED <<cleared, txn, approvalVars, asked, run, launches, missed>>

\* An execution fails and is rolled back.
Fail(w) ==
    /\ act[w] # Resting
    /\ act' = [act EXCEPT ![w] = Resting]
    /\ UNCHANGED <<cleared, job, txn, approvalVars, wf, asked, run, launches, stale, missed>>

-----------------------------------------------------------------------------
(* The approval service *)

Approve(t) ==
    /\ bound[t] # None
    /\ granted[t] < MaxGrants
    /\ V!Grant(t)
    /\ UNCHANGED <<cleared, job, txn, bound, workflowVars, stale, missed>>

CloseTicket(t) ==
    /\ t \in open
    /\ V!Void({t})
    /\ UNCHANGED <<cleared, job, txn, bound, workflowVars, stale, missed>>

Handler(s) ==
    \/ \E t \in Tickets : RequestCreate(s, t)
    \/ RequestCommit(s) \/ Consume(s) \/ ConsumeLost(s) \/ StartCommit(s) \/ Launch(s)
    \/ CancelCommit(s) \/ CancelWorkflow(s) \/ Abort(s)

Worker(w) == (\E j \in Jobs : Execute(w, j)) \/ Answer(w) \/ Fail(w)

Next ==
    \/ Clear \/ Lapse
    \/ \E s \in Sessions, j \in Jobs :
         \/ RequestRead(s, j) \/ StartRead(s, j) \/ CancelRead(s, j)
         \/ \E old \in Jobs : RetryRead(s, old, j)
    \/ \E s \in Sessions : Handler(s)
    \/ \E j \in Jobs : Scanned(j) \/ GiveUp(j) \/ Cancelled(j)
    \/ \E w \in Workers : Worker(w)
    \/ \E t \in Tickets : Approve(t) \/ CloseTicket(t)

Spec == Init /\ [][Next]_vars

\* An execution for j is answered in time.
Answered(j) == \E w \in Workers : act[w].job = j /\ Answer(w) /\ wf'[j] # wf[j]

\* Open handlers and executions end (timeouts cut them off), Temporal retries an activity
\* until it answers or its attempts are used up, and every scanner has a timeout.
Fairness ==
    /\ \A s \in Sessions : WF_vars(Handler(s))
    /\ \A w \in Workers : WF_vars(Answer(w) \/ Fail(w))
    /\ \A j \in Jobs : /\ WF_vars(Scanned(j))
                      /\ WF_vars(\E w \in Workers : Execute(w, j))
                      /\ SF_vars(GiveUp(j) \/ Answered(j))

FairSpec == Spec /\ Fairness

-----------------------------------------------------------------------------
(* Properties *)

\* Sessions that have redeemed ticket t and not yet started its workflow.
Starting(t) ==
    {s \in Sessions : /\ txn[s].seen.approval = t
                      /\ \E pc \in {"redeemed", "committed"} : In(s, {"start"}, pc)}

\* README, "No scan runs without all seven gates", of gate 6: every workflow is started under
\* an approval of its own, redeemed for its very job, whatever starts, retries and cancels
\* of the job overlap.
ScansBacked ==
    /\ TypeOK
    /\ \A t \in Tickets : launches[t] + Cardinality(Starting(t)) <= redeemed[t]

\* The workflow of j is running.
Running(j) == wf[j].phase \in {"status", "scan", "persist"}

\* A job is QUEUED or RUNNING, and takes up capacity, only while a workflow runs that will
\* end it or a handler is about to start one; unless a call to or from the workflow failed
\* for good, an older version of the row was written back or two starts of the job were
\* committed.  And the workflow of a CANCELLED one has been asked to stop, or is about to be,
\* or already reports its end.
JobsHaveWorkflows ==
    \A j \in Jobs \ (stale \cup missed) :
        /\ job[j].status \in Active =>
             \/ Running(j)
             \/ \E s \in Sessions : txn[s].job = j /\ In(s, {"start"}, "committed")
        /\ job[j].status = "CANCELLED" /\ Running(j) =>
             \/ j \in asked
             \/ wf[j].phase = "status" /\ wf[j].value # "RUNNING"
             \/ \E s \in Sessions : txn[s].job = j /\ In(s, {"cancel"}, "committed")

\* A job that has ended stays as it is, except that findings that arrive late still make it
\* SUCCEEDED or FAILED, and that an older version of the row may be written back.
FinalStep ==
    \A j \in Jobs : job[j].status \in Terminal /\ job'[j].status # job[j].status =>
        j \in stale' \/ job'[j].status \in {"SUCCEEDED", "FAILED"}

FinalUnlessStale == [][FinalStep]_vars

\* A started scan ends, with the same exceptions.
StartedEnds ==
    \A j \in Jobs : job[j].status \in Active ~>
        job[j].status \in Terminal \/ j \in stale \cup missed
=============================================================================
