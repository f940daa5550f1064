----------------------------- MODULE Approvals -----------------------------
(***************************************************************************)
(* The approval service (services/approvals): one row of approval_requests *)
(* per request, written by HTTP handlers that run concurrently, each in    *)
(* one READ COMMITTED transaction, and by the expiry sweeper.              *)
(*                                                                         *)
(* decide and cancel load the row without a lock, check it in Python and   *)
(* write it when the transaction commits: two steps here, the read and the *)
(* commit, and whatever other transactions commit in between is            *)
(* overwritten.  consume and the sweeper are one conditional UPDATE each,  *)
(* which PostgreSQL re-evaluates on the newest row version: one step, but  *)
(* consume compares with now(), the time at which its transaction began.   *)
(*                                                                         *)
(* A payload stands for what payload_hash covers: tenant, action type,     *)
(* target and parameters.  Times are ticks of a shared clock.              *)
(***************************************************************************)
EXTENDS Naturals, FiniteSets

CONSTANTS
    Requests,     \* primary keys of approval_requests
    Payloads,     \* what can be asked for
    LowRisk,      \* payloads that a tenant policy can pre-approve
    Ttl,          \* Payloads -> lifetime of a request, by its action's policy
    Humans,       \* users who request, decide and cancel
    Agent,        \* requested_by of a request no human stands behind
    PolicyActor,  \* approved_by of a pre-approved request
    None,         \* SQL NULL
    Sessions,     \* transactions that can be open at once
    MaxTime       \* bound of the clock

ASSUME PolicyAssumption ==
    /\ LowRisk \subseteq Payloads
    /\ Ttl \in [Payloads -> Nat \ {0}]
    /\ MaxTime \in Nat

ASSUME ActorAssumption ==
    /\ Agent \notin Humans
    /\ PolicyActor \notin Humans \cup {Agent}
    /\ None \notin Humans \cup {Agent, PolicyActor} \cup Requests \cup Payloads \cup Nat

VARIABLES
    now,          \* the clock
    settings,     \* payloads the tenant's settings pre-approve
    row,          \* approval_requests
    txn,          \* the open transaction of each session
    granted,      \* history: committed approvals of each request
    redeemed,     \* history: successful consumptions of each request
    overwritten,  \* history: requests on which a stale decision landed
    swept         \* history: the clock of the sweeper's last pass

vars == <<now, settings, row, txn, granted, redeemed, overwritten, swept>>

-----------------------------------------------------------------------------
(* Types *)

Status == {"ABSENT", "PENDING", "APPROVED", "REJECTED", "EXPIRED", "EXECUTED", "CANCELLED"}
Final  == {"REJECTED", "EXPIRED", "EXECUTED", "CANCELLED"}

Requesters == Humans \cup {Agent}
Approvers  == Humans \cup {PolicyActor}

Signature == [payload : Payloads, expiresAt : Nat, approvedBy : Approvers]

Row == [status      : Status,
        payload     : Payloads \cup {None},
        requestedBy : Requesters \cup {None},
        expiresAt   : Nat,
        approvedBy  : Approvers \cup {None},
        signature   : Signature \cup {None},
        consumedAt  : Nat \cup {None}]

NoRow == [status |-> "ABSENT", payload |-> None, requestedBy |-> None, expiresAt |-> 0,
          approvedBy |-> None, signature |-> None, consumedAt |-> None]

\* What a handler carries from its read to its commit.
Txn == [kind    : {"idle", "decide", "cancel", "consume"},
        id      : Requests \cup {None},
        by      : Humans \cup {None},
        verdict : {"APPROVED", "REJECTED", "CANCELLED"} \cup {None},
        began   : Nat]

Idle == [kind |-> "idle", id |-> None, by |-> None, verdict |-> None, began |-> 0]

TypeOK ==
    /\ now \in Nat
    /\ settings \subseteq LowRisk
    /\ row \in [Requests -> Row]
    /\ txn \in [Sessions -> Txn]
    /\ granted \in [Requests -> Nat]
    /\ redeemed \in [Requests -> Nat]
    /\ overwritten \subseteq Requests
    /\ swept \in Nat

-----------------------------------------------------------------------------
(* Operations *)

\* ApprovalService._sign of a request as approver a would sign it.
Sign(req, a) == [payload |-> req.payload, expiresAt |-> req.expiresAt, approvedBy |-> a]

\* A freshly inserted row.
NewRow(p, u) ==
    [status |-> "PENDING", payload |-> p, requestedBy |-> u, expiresAt |-> now + Ttl[p],
     approvedBy |-> None, signature |-> None, consumedAt |-> None]

\* Mutant of Approved: a row that is signed already is not signed again.
ApprovedSignedOnce(req, a) ==
    [req EXCEPT !.status = "APPROVED", !.approvedBy = a,
                !.signature = IF @ = None THEN Sign(req, a) ELSE @]

\* The row an approval leaves: status, approver and signature are set together.
Approved(req, a) == [req EXCEPT !.status = "APPROVED", !.approvedBy = a,
                                !.signature = Sign(req, a)]

Init ==
    /\ now = 0
    /\ settings = {}
    /\ row = [r \in Requests |-> NoRow]
    /\ txn = [s \in Sessions |-> Idle]
    /\ granted = [r \in Requests |-> 0]
    /\ redeemed = [r \in Requests |-> 0]
    /\ overwritten = {}
    /\ swept = 0

Tick ==
    /\ now < MaxTime
    /\ now' = now + 1
    /\ UNCHANGED <<settings, row, txn, granted, redeemed, overwritten, swept>>

\* The tenant's administrator edits fatma_mode and preapproved_actions.
ChangeSettings(P) ==
    /\ settings' = P
    /\ UNCHANGED <<now, row, txn, granted, redeemed, overwritten, swept>>

\* POST /internal/approvals, for a human or for the calling service itself.
Create(r, p, u) ==
    /\ row[r].status = "ABSENT"
    /\ now + Ttl[p] <= MaxTime
    /\ row' = [row EXCEPT ![r] = NewRow(p, u)]
    /\ UNCHANGED <<now, settings, txn, granted, redeemed, overwritten, swept>>

\* POST /internal/approvals/preapproved: created and approved in one transaction.
Preapprove(r, p) ==
    /\ row[r].status = "ABSENT"
    /\ p \in settings
    /\ now + Ttl[p] <= MaxTime
    /\ row' = [row EXCEPT ![r] = Approved(NewRow(p, Agent), PolicyActor)]
    /\ granted' = [granted EXCEPT ![r] = @ + 1]
    /\ UNCHANGED <<now, settings, txn, redeemed, overwritten, swept>>

\* A transaction of session s opens and holds what its handler will write.
Open(s, t) ==
    /\ txn[s] = Idle
    /\ txn' = [txn EXCEPT ![s] = t]
    /\ UNCHANGED <<now, settings, row, granted, redeemed, overwritten, swept>>

\* Mutant of DecideRead: the requester may decide.
DecideReadOwn(s, r, u, p, verdict) ==
    /\ row[r].status = "PENDING"
    /\ row[r].expiresAt > now
    /\ p = row[r].payload
    /\ Open(s, [kind |-> "decide", id |-> r, by |-> u, verdict |-> verdict, began |-> now])

\* decide, up to its last check: approver u reviewed payload p, whose hash is echoed.
DecideRead(s, r, u, p, verdict) ==
    /\ row[r].status = "PENDING"
    /\ row[r].expiresAt > now
    /\ p = row[r].payload
    /\ u # row[r].requestedBy
    /\ Open(s, [kind |-> "decide", id |-> r, by |-> u, verdict |-> verdict, began |-> now])

\* cancel, up to its last check.
CancelRead(s, r, u) ==
    /\ row[r].status = "PENDING"
    /\ row[r].requestedBy = u
    /\ Open(s, [kind |-> "cancel", id |-> r, by |-> u, verdict |-> "CANCELLED", began |-> now])

\* The commit of a decide or cancel: UPDATE ... WHERE id, whatever the row has become.
CommitDecision(s) ==
    LET t == txn[s]
        r == txn[s].id
    IN  /\ t.kind \in {"decide", "cancel"}
        /\ row' = [row EXCEPT ![r] =
                     CASE t.verdict = "APPROVED"  -> Approved(@, t.by)
                       [] t.verdict = "REJECTED"  -> [@ EXCEPT !.status = "REJECTED",
                                                               !.approvedBy = t.by]
                       [] t.verdict = "CANCELLED" -> [@ EXCEPT !.status = "CANCELLED"]]
        /\ granted' = [granted EXCEPT ![r] = @ + (IF t.verdict = "APPROVED" THEN 1 ELSE 0)]
        /\ overwritten' = IF row[r].status = "PENDING" THEN overwritten ELSE overwritten \cup {r}
        /\ txn' = [txn EXCEPT ![s] = Idle]
        /\ UNCHANGED <<now, settings, redeemed, swept>>

\* consume, up to its UPDATE: the caller's payload p must hash to the stored value.
ConsumeRead(s, r, p) ==
    /\ row[r].status # "ABSENT"
    /\ p = row[r].payload
    /\ Open(s, [kind |-> "consume", id |-> r, by |-> None, verdict |-> None, began |-> now])

\* Mutants of Redeemable: the status is checked before the UPDATE only; the status check is a
\* check against rejection.
RedeemableAgain(t)     == row[t.id].status \in {"APPROVED", "EXECUTED"} /\ row[t.id].expiresAt > t.began
RedeemableUndecided(t) == row[t.id].status \in {"PENDING", "APPROVED"} /\ row[t.id].expiresAt > t.began

\* The row satisfies the WHERE clause of the consuming UPDATE of transaction t.
Redeemable(t) == row[t.id].status = "APPROVED" /\ row[t.id].expiresAt > t.began

\* The atomic UPDATE ... RETURNING and its commit.
Redeem(s) ==
    LET t == txn[s]
    IN  /\ t.kind = "consume"
        /\ Redeemable(t)
        /\ row' = [row EXCEPT ![t.id] = [@ EXCEPT !.status = "EXECUTED",
                                                  !.consumedAt = t.began]]
        /\ redeemed' = [redeemed EXCEPT ![t.id] = @ + 1]
        /\ txn' = [txn EXCEPT ![s] = Idle]
        /\ UNCHANGED <<now, settings, granted, overwritten, swept>>

\* A transaction ends without effect: the UPDATE matched no row (Conflict), or the
\* handler was cut off (timeout, crash, lost connection) and PostgreSQL rolled it back.
Rollback(s) ==
    /\ txn[s] # Idle
    /\ txn' = [txn EXCEPT ![s] = Idle]
    /\ UNCHANGED <<now, settings, row, granted, redeemed, overwritten, swept>>

\* Mutants of Overdue: whatever the status; approved requests stay.
OverdueAny      == {r \in Requests : row[r].status \notin {"ABSENT", "EXPIRED"} /\ row[r].expiresAt <= now}
OverduePending  == {r \in Requests : row[r].status = "PENDING" /\ row[r].expiresAt <= now}

\* The rows app_expire_approvals() updates.
Overdue == {r \in Requests : row[r].status \in {"PENDING", "APPROVED"} /\ row[r].expiresAt <= now}

\* One pass of the sweeper.
Sweep ==
    /\ row' = [r \in Requests |-> IF r \in Overdue THEN [row[r] EXCEPT !.status = "EXPIRED"]
                                                   ELSE row[r]]
    /\ swept' = now
    /\ UNCHANGED <<now, settings, txn, granted, redeemed, overwritten>>

Next ==
    \/ Tick
    \/ Sweep
    \/ \E P \in SUBSET LowRisk : ChangeSettings(P)
    \/ \E r \in Requests, p \in Payloads :
         \/ \E u \in Requesters : Create(r, p, u)
         \/ Preapprove(r, p)
    \/ \E s \in Sessions, r \in Requests :
         \/ \E u \in Humans, p \in Payloads, v \in {"APPROVED", "REJECTED"} :
              DecideRead(s, r, u, p, v)
         \/ \E u \in Humans : CancelRead(s, r, u)
         \/ \E p \in Payloads : ConsumeRead(s, r, p)
    \/ \E s \in Sessions : CommitDecision(s) \/ Redeem(s) \/ Rollback(s)

Spec == Init /\ [][Next]_vars

\* The clock advances and the sweeper keeps running: its loop catches every exception and
\* sleeps expiry_sweep_seconds.  People and their requests are not fair.
Fairness == WF_vars(Tick) /\ WF_vars(Sweep)

FairSpec == Spec /\ Fairness

-----------------------------------------------------------------------------
(* Properties *)

\* Nobody approves what they asked for, only a low-risk payload can be approved without a
\* human, and the approver on record is one who can approve: on every row that is or was
\* redeemable, in spite of decisions that overwrite one another.
FourEyes ==
    \A r \in Requests : row[r].status \in {"APPROVED", "EXECUTED"} =>
        /\ row[r].approvedBy \in Approvers
        /\ row[r].approvedBy # row[r].requestedBy
        /\ row[r].approvedBy = PolicyActor => row[r].payload \in LowRisk

\* The signature on a redeemable or redeemed row is the one of the approver on record, for
\* the stored payload and expiry: racing decisions never leave one approver's name over the
\* other's signature.
SignatureMatchesApprover ==
    \A r \in Requests : row[r].status \in {"APPROVED", "EXECUTED"} =>
        row[r].signature = Sign(row[r], row[r].approvedBy)

\* The sweeper and consume, each with a clock of its own, agree on every request that no stale
\* decision hit: nothing is redeemed that a pass of the sweeper met expired, not even by a
\* transaction that began before; and it is on record as executed exactly if it was redeemed.
AgreeStep ==
    \A r \in Requests \ overwritten' :
        /\ redeemed'[r] # redeemed[r] => row[r].expiresAt > swept
        /\ row'[r].status = "EXECUTED" <=> redeemed'[r] = 1

OutcomesAgree == [][AgreeStep]_vars

\* Each redemption uses up one committed approval, and an open approval is one not used yet.
RedemptionsBacked ==
    \A r \in Requests :
        redeemed[r] + (IF row[r].status = "APPROVED" THEN 1 ELSE 0) <= granted[r]

\* Unless a decision landed on a row that had already been decided, an approval is granted
\* at most once and redeemed at most once.
SingleUseUnlessOverwritten ==
    \A r \in Requests : r \notin overwritten => granted[r] <= 1 /\ redeemed[r] <= 1

\* The promise of consume ("only once") and of the README, with no exception.
SingleUse == \A r \in Requests : redeemed[r] <= 1

\* A rejected, expired, executed or cancelled request stays so, except where a decision
\* read before that outcome commits after it.
FinalStep ==
    \A r \in Requests :
        row[r].status \in Final /\ row'[r].status # row[r].status => r \in overwritten'

FinalUnlessOverwritten == [][FinalStep]_vars

\* The sweeper settles every request that people leave open or approve and never redeem.
EveryRequestSettles ==
    \A r \in Requests : row[r].status \in {"PENDING", "APPROVED"} ~> row[r].status \in Final

-----------------------------------------------------------------------------
(* Refinement *)

\* A row is an open voucher while a consuming UPDATE can still match it.
V == INSTANCE Voucher WITH open <- {r \in Requests : row[r].status = "APPROVED"}

\* The service implements its abstract specification: whatever transactions interleave,
\* each step grants one voucher, redeems one open voucher, voids some, or changes nothing
\* a caller can redeem.
ImplementsVoucher == V!Spec
=============================================================================
