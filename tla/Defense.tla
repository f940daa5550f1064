------------------------------ MODULE Defense ------------------------------
(***************************************************************************)
(* Defensive actions of fatma-soc: rows of waf_actions that are            *)
(* recommended, approved, executed against a WAF provider and reverted or  *)
(* expired.  Every handler is one READ COMMITTED transaction that calls    *)
(* the approval service and the provider while it is open: neither call is *)
(* undone when the transaction rolls back.                                 *)
(*                                                                         *)
(* A handler reads its row without a lock, decides on that snapshot, and   *)
(* writes at commit.  A flush before the commit (try_preapproved,          *)
(* DefenseService.execute) takes the row lock, which holds up the commits  *)
(* of other handlers on the row but none of their reads.                   *)
(*                                                                         *)
(* The approval service is seen through Voucher, which Approvals           *)
(* implements.  A ticket is an approval id; its payload names the action.  *)
(***************************************************************************)
EXTENDS Integers, FiniteSets

CONSTANTS
    Actions,      \* primary keys of waf_actions
    LowRisk,      \* those of a low-risk action type
    Timed,        \* those with a ttl_seconds
    Automatable,  \* those of a type the provider has a rule for
    Key,          \* Actions -> (action type, target), what recommend deduplicates by
    Address,      \* Actions -> the target as an element of an AWS IP set
    InSet,        \* those whose provider keeps a set of addresses (AWS), not a rule per call
                  \* (Cloudflare)
    Tickets,      \* approval ids
    Sessions,     \* requests served at once
    Sweeper,      \* the background sweep
    None,         \* SQL NULL
    RuleIds,      \* references a provider gives to new rules
    Manual,       \* "manual-runbook", the reference of an action left to a human
    MaxGrants     \* bound: approvals of one ticket

ASSUME ActionAssumption ==
    /\ LowRisk \subseteq Actions /\ Timed \subseteq Actions /\ Automatable \subseteq Actions
    /\ InSet \subseteq Actions
    /\ LowRisk \subseteq Timed   \* recommend gives every low-risk action a ttl
    /\ MaxGrants \in Nat
    /\ None \notin Actions \cup Tickets \cup Sessions \cup {Sweeper}   \* NULL is no id
    \* a reference names a rule, or is NULL, or is that of the runbook
    /\ {None, Manual} \cap (RuleIds \cup {Address[a] : a \in Actions}) = {}
    /\ RuleIds \cap {Address[a] : a \in Actions} = {}

VARIABLES
    row,         \* waf_actions, as committed
    lock,        \* the session that holds each row's lock
    txn,         \* the open transaction of each session
    bound,       \* the action each ticket was created for
    open, granted, redeemed,   \* the approval service
    configured,  \* an active integration for the provider exists
    rules,       \* what is in force at the provider
    used,        \* history: references the provider has given out
    applied,     \* history: rules created under each ticket
    unheard,     \* history: references of rules whose creation was answered with an error
    undone,      \* history: actions whose rule the removal of another action's took out
    astray       \* history: actions a handler was cut off on, or wrote over, or ended blindly

approvalVars == <<bound, open, granted, redeemed>>
providerVars == <<configured, rules, used, applied, unheard, undone>>
vars == <<row, lock, txn, approvalVars, providerVars, astray>>

V == INSTANCE Voucher WITH Requests <- Tickets

Workers == Sessions \cup {Sweeper}
Ref     == RuleIds \cup {Address[a] : a \in Actions}

Ended    == {"EXPIRED", "FAILED", "REVERTED", "DISMISSED"}
Status   == {"ABSENT", "RECOMMENDED", "PENDING_APPROVAL", "ACTIVE"} \cup Ended
\* The statuses in which recommend finds an existing row.
Existing == {"RECOMMENDED", "PENDING_APPROVAL", "ACTIVE"}

\* auto: mode is preapproved_low_risk.  waf: the provider column names one.
\* due: expires_at has passed.
Row == [status : Status, ticket : Tickets \cup {None}, ref : Ref \cup {None, Manual},
        auto : BOOLEAN, waf : BOOLEAN, due : BOOLEAN]

NoRow == [status |-> "ABSENT", ticket |-> None, ref |-> None,
          auto |-> FALSE, waf |-> FALSE, due |-> FALSE]

\* status, ticket and ref start as the snapshot and become what the handler will write.
Txn == [kind   : {"idle", "recommend", "request", "preapprove", "execute", "revert", "expire",
                  "dismiss"},
        pc     : {"read", "ticketed", "held", "redeemed", "locked", "applied", "refused",
                  "unheard", "removed"},
        act    : Actions \cup {None},
        status : Status,
        ticket : Tickets \cup {None},
        ref    : Ref \cup {None, Manual}]

Idle == [kind |-> "idle", pc |-> "read", act |-> None, status |-> "ABSENT",
         ticket |-> None, ref |-> None]

Rule == [ref : Ref, act : Actions, ticket : Tickets]

TypeOK ==
    /\ row \in [Actions -> Row]
    /\ lock \in [Actions -> Workers \cup {None}]
    /\ txn \in [Workers -> Txn]
    /\ bound \in [Tickets -> Actions \cup {None}]
    /\ open \subseteq Tickets
    /\ granted \in [Tickets -> Nat] /\ redeemed \in [Tickets -> Nat]
    /\ configured \in BOOLEAN
    /\ rules \subseteq Rule
    /\ used \subseteq RuleIds
    /\ applied \in [Tickets -> Nat]
    /\ unheard \subseteq RuleIds
    /\ undone \subseteq Actions
    /\ astray \subseteq Actions

Init ==
    /\ row = [a \in Actions |-> NoRow]
    /\ lock = [a \in Actions |-> None]
    /\ txn = [s \in Workers |-> Idle]
    /\ bound = [t \in Tickets |-> None]
    /\ V!Init
    /\ configured = TRUE
    /\ rules = {} /\ used = {}
    /\ applied = [t \in Tickets |-> 0]
    /\ unheard = {}
    /\ undone = {}
    /\ astray = {}

-----------------------------------------------------------------------------
(* Transactions *)

\* Session s begins a transaction and loads the row of a.
Read(s, kind, a) ==
    /\ txn[s] = Idle
    /\ txn' = [txn EXCEPT ![s] = [kind |-> kind, pc |-> "read", act |-> a,
                                  status |-> row[a].status, ticket |-> row[a].ticket,
                                  ref |-> row[a].ref]]
    /\ UNCHANGED <<row, lock, approvalVars, providerVars, astray>>

At(s, kinds, pc) == txn[s].kind \in kinds /\ txn[s].pc = pc

Goto(s, pc) == txn' = [txn EXCEPT ![s].pc = pc]

\* The row is not locked by another transaction.
Free(s) == lock[txn[s].act] \in {None, s}

\* Session s ends, and with it its row lock.
End(s) ==
    /\ txn' = [txn EXCEPT ![s] = Idle]
    /\ lock' = [a \in Actions |-> IF lock[a] = s THEN None ELSE lock[a]]

\* The row is no longer the one the handler read.
Stale(s) == row[txn[s].act].status # txn[s].status \/ row[txn[s].act].ref # txn[s].ref

\* Session s commits q as its row; a stale commit sends the action astray.
Commit(s, q, stale) ==
    /\ Free(s)
    /\ row' = [row EXCEPT ![txn[s].act] = q]
    /\ astray' = IF stale THEN astray \cup {txn[s].act} ELSE astray
    /\ End(s)
    /\ UNCHANGED <<approvalVars, providerVars>>

\* Session s is cut off or raises: the database rolls back, the provider does not.
Abort(s) ==
    /\ txn[s] # Idle
    /\ astray' = IF txn[s].pc \in {"applied", "unheard", "removed"} THEN astray \cup {txn[s].act}
                                                                   ELSE astray
    /\ End(s)
    /\ UNCHANGED <<row, approvalVars, providerVars>>

-----------------------------------------------------------------------------
(* Handlers *)

\* DefenseService.recommend finds no open row with the same type and target ...
RecommendRead(s, a) ==
    /\ row[a].status = "ABSENT"
    /\ ~ \E b \in Actions : Key[b] = Key[a] /\ row[b].status \in Existing
    /\ ~ \E w \in Workers : txn[w].act = a     \* the key is fresh
    /\ Read(s, "recommend", a)

\* ... and inserts one, with the tenant's mode and provider of that moment.
RecommendCommit(s, auto) ==
    LET a == txn[s].act
    IN  /\ At(s, {"recommend"}, "read")
        /\ auto => a \in LowRisk
        /\ Commit(s, [NoRow EXCEPT !.status = "RECOMMENDED", !.auto = auto, !.waf = configured],
                  FALSE)

\* request_approval: checks the row, creates the approval over HTTP, then stores its id.
RequestRead(s, a) == row[a].status = "RECOMMENDED" /\ Read(s, "request", a)

RequestCreate(s, t) ==
    /\ At(s, {"request"}, "read")
    /\ bound[t] = None
    /\ bound' = [bound EXCEPT ![t] = txn[s].act]
    /\ txn' = [txn EXCEPT ![s].pc = "ticketed", ![s].ticket = t]
    /\ UNCHANGED <<row, lock, open, granted, redeemed, providerVars, astray>>

RequestCommit(s) ==
    /\ At(s, {"request"}, "ticketed")
    /\ Commit(s, [row[txn[s].act] EXCEPT !.status = "PENDING_APPROVAL", !.auto = FALSE,
                                         !.ticket = txn[s].ticket], Stale(s))

\* try_preapproved: the tenant's policy grants the ticket, or refuses (Abort) ...
PreapproveRead(s, a) ==
    /\ row[a].status = "RECOMMENDED" /\ row[a].auto /\ a \in LowRisk
    /\ Read(s, "preapprove", a)

PreapproveGrant(s, t) ==
    /\ At(s, {"preapprove"}, "read")
    /\ bound[t] = None
    /\ bound' = [bound EXCEPT ![t] = txn[s].act]
    /\ V!Grant(t)
    /\ txn' = [txn EXCEPT ![s].pc = "ticketed", ![s].ticket = t]
    /\ UNCHANGED <<row, lock, providerVars, astray>>

\* ... and the flush of APPROVED takes the row lock before the approval is consumed.
PreapproveFlush(s) ==
    /\ At(s, {"preapprove"}, "ticketed")
    /\ Free(s)
    /\ lock' = [lock EXCEPT ![txn[s].act] = s]
    /\ Goto(s, "held")
    /\ UNCHANGED <<row, approvalVars, providerVars, astray>>

\* execute_action, for a row that has an approval.
ExecuteRead(s, a) == row[a].ticket # None /\ Read(s, "execute", a)

\* Mutant of Redeems: a Conflict of the approval service is taken for a repeated answer.
RedeemsOrRepeats(s) ==
    /\ At(s, {"preapprove"}, "held") \/ At(s, {"execute"}, "read")
    /\ bound[txn[s].ticket] = txn[s].act
    /\ \/ V!Redeem(txn[s].ticket)
       \/ redeemed[txn[s].ticket] > 0 /\ UNCHANGED <<open, granted, redeemed>>

\* The POST that redeems the ticket for the payload of this very action.
Redeems(s) ==
    /\ At(s, {"preapprove"}, "held") \/ At(s, {"execute"}, "read")
    /\ bound[txn[s].ticket] = txn[s].act
    /\ V!Redeem(txn[s].ticket)

Consume(s) ==
    /\ Redeems(s)
    /\ Goto(s, "redeemed")
    /\ UNCHANGED <<row, lock, bound, providerVars, astray>>

\* The ticket is redeemed but the answer is lost, or the approval service fails to audit it.
ConsumeLost(s) ==
    /\ Redeems(s)
    /\ End(s)
    /\ UNCHANGED <<row, bound, providerVars, astray>>

\* DefenseService.execute: the status of the snapshot is checked (try_preapproved has just
\* set it to APPROVED); the flush of EXECUTING takes the row lock.
ExecuteFlush(s) ==
    /\ At(s, {"preapprove", "execute"}, "redeemed")
    /\ txn[s].kind = "preapprove" \/ txn[s].status = "PENDING_APPROVAL"
    /\ Free(s)
    /\ lock' = [lock EXCEPT ![txn[s].act] = s]
    /\ Goto(s, "locked")
    /\ UNCHANGED <<row, approvalVars, providerVars, astray>>

\* DefenseService.provider finds a provider for the row, and it has a rule for the type.
Automated(a) == row[a].waf /\ configured /\ a \in Automatable

\* The provider creates a rule for the action of session s, which waits with ref r.
CreatesRule(s, r) ==
    LET t == txn[s] IN
    /\ At(s, {"preapprove", "execute"}, "locked")
    /\ Automated(t.act)
    /\ IF t.act \in InSet THEN r = Address[t.act] ELSE r \in RuleIds \ used
    /\ used' = used \cup ({r} \cap RuleIds)
    /\ rules' = rules \cup {[ref |-> r, act |-> t.act, ticket |-> t.ticket]}
    /\ applied' = [applied EXCEPT ![t.ticket] = @ + 1]
    /\ UNCHANGED <<row, approvalVars, configured, undone>>

Apply(s) ==
    /\ \E r \in Ref : CreatesRule(s, r) /\ txn' = [txn EXCEPT ![s].pc = "applied", ![s].ref = r]
    /\ UNCHANGED <<lock, unheard, astray>>

\* The rule is created but the call raises (timeout, lost answer, unreadable body).
ApplyLost(s) ==
    /\ \E r \in Ref : CreatesRule(s, r)
    /\ astray' = astray \cup {txn[s].act}
    /\ End(s)
    /\ UNCHANGED unheard

\* No automation: a human will follow the runbook.
ApplyManual(s) ==
    /\ At(s, {"preapprove", "execute"}, "locked")
    /\ ~Automated(txn[s].act)
    /\ txn' = [txn EXCEPT ![s].pc = "applied", ![s].ref = Manual]
    /\ UNCHANGED <<row, lock, approvalVars, providerVars, astray>>

\* The provider answers with an error and has created nothing: UpstreamUnavailable.
ApplyRefused(s) ==
    /\ At(s, {"preapprove", "execute"}, "locked")
    /\ Automated(txn[s].act)
    /\ Goto(s, "refused")
    /\ UNCHANGED <<row, lock, approvalVars, providerVars, astray>>

\* The same, but it has created the rule (a 5xx of what stands before it, say).  With an IP set
\* nothing is reported as UpstreamUnavailable that could have changed the set.
ApplyUnheard(s) ==
    /\ txn[s].act \notin InSet
    /\ \E r \in RuleIds : CreatesRule(s, r) /\ unheard' = unheard \cup {r}
    /\ Goto(s, "unheard")
    /\ UNCHANGED <<lock, astray>>

\* Session s has caught UpstreamUnavailable.
Failing(s) == \E pc \in {"refused", "unheard"} : At(s, {"preapprove", "execute"}, pc)

\* Mutant of ExecuteCommit: provider_ref is not stored.
ExecuteCommitWithoutRef(s) ==
    LET t == txn[s]
        q == row[t.act]
    IN  \/ /\ At(s, {"preapprove", "execute"}, "applied")
           /\ Commit(s, [q EXCEPT !.status = "ACTIVE", !.ticket = t.ticket, !.due = FALSE],
                     q.status # t.status)
        \/ /\ Failing(s)
           /\ Commit(s, [q EXCEPT !.status = "FAILED"], q.status # t.status)

\* The commit of execute or try_preapproved: ACTIVE with a new expires_at, or FAILED.
ExecuteCommit(s) ==
    LET t == txn[s]
        q == row[t.act]
        stored == IF t.kind = "preapprove" THEN [q EXCEPT !.ticket = t.ticket] ELSE q
        stale == q.status # t.status
    IN  \/ /\ At(s, {"preapprove", "execute"}, "applied")
           /\ Commit(s, [stored EXCEPT !.status = "ACTIVE", !.ref = t.ref, !.due = FALSE], stale)
        \/ /\ Failing(s)
           /\ Commit(s, [stored EXCEPT !.status = "FAILED"], stale)

\* revert_action, and the sweeper for a row that is due.
RevertRead(s, a) == row[a].status = "ACTIVE" /\ Read(s, "revert", a)

\* Mutant of ExpireRead: what no provider applied is not the sweeper's business.
ExpireReadAutomated(a) ==
    row[a].status = "ACTIVE" /\ row[a].due /\ Automated(a) /\ Read(Sweeper, "expire", a)

ExpireRead(a) == row[a].status = "ACTIVE" /\ row[a].due /\ Read(Sweeper, "expire", a)

\* The provider removes what provider_ref names, if there is a provider and it names a rule.
Removes(s) ==
    LET t == txn[s]
        blind == t.ref \in Ref /\ ~Automated(t.act)
    IN  /\ At(s, {"revert", "expire"}, "read")
        /\ rules' = IF Automated(t.act) THEN {x \in rules : x.ref # t.ref} ELSE rules
        /\ undone' = undone \cup ({x.act : x \in rules \ rules'} \ {t.act})
        /\ astray' = IF blind THEN astray \cup {t.act} ELSE astray
        /\ UNCHANGED <<row, approvalVars, configured, used, applied, unheard>>

Remove(s) == Removes(s) /\ Goto(s, "removed") /\ UNCHANGED lock

RevertCommit(s) ==
    /\ At(s, {"revert", "expire"}, "removed")
    /\ Commit(s, [row[txn[s].act] EXCEPT !.status = IF txn[s].kind = "expire" THEN "EXPIRED"
                                                                              ELSE "REVERTED"],
              Stale(s))

\* Mutant of DismissRead: whatever the status.
DismissReadAny(s, a) == row[a].status # "ABSENT" /\ Read(s, "dismiss", a)

\* dismiss_action.
DismissRead(s, a) == row[a].status = "RECOMMENDED" /\ Read(s, "dismiss", a)

DismissCommit(s) ==
    /\ At(s, {"dismiss"}, "read")
    /\ Commit(s, [row[txn[s].act] EXCEPT !.status = "DISMISSED"], Stale(s))

-----------------------------------------------------------------------------
(* The environment *)

\* A person approves a ticket.
Approve(t) ==
    /\ bound[t] # None
    /\ granted[t] < MaxGrants
    /\ V!Grant(t)
    /\ UNCHANGED <<row, lock, txn, bound, providerVars, astray>>

\* A ticket expires, or is rejected or cancelled.
CloseTicket(t) ==
    /\ t \in open
    /\ V!Void({t})
    /\ UNCHANGED <<row, lock, txn, bound, providerVars, astray>>

\* An administrator disables the integration, or creates one.
Configure ==
    /\ configured' = ~configured
    /\ UNCHANGED <<row, lock, txn, approvalVars, rules, used, applied, unheard, undone, astray>>

\* The ttl of an active action runs out.
Elapse(a) ==
    /\ a \in Timed /\ row[a].status = "ACTIVE" /\ ~row[a].due
    /\ row' = [row EXCEPT ![a].due = TRUE]
    /\ UNCHANGED <<lock, txn, approvalVars, providerVars, astray>>

\* What a session does next with the transaction it has open.
Proceed(s) ==
    \/ \E auto \in BOOLEAN : RecommendCommit(s, auto)
    \/ \E t \in Tickets : RequestCreate(s, t) \/ PreapproveGrant(s, t)
    \/ RequestCommit(s) \/ PreapproveFlush(s)
    \/ Consume(s) \/ ConsumeLost(s) \/ ExecuteFlush(s)
    \/ Apply(s) \/ ApplyLost(s) \/ ApplyManual(s) \/ ApplyRefused(s) \/ ApplyUnheard(s)
    \/ ExecuteCommit(s) \/ Remove(s) \/ RevertCommit(s) \/ DismissCommit(s) \/ Abort(s)

Next ==
    \/ \E s \in Sessions, a \in Actions :
         \/ RecommendRead(s, a) \/ RequestRead(s, a) \/ PreapproveRead(s, a)
         \/ ExecuteRead(s, a) \/ RevertRead(s, a) \/ DismissRead(s, a)
    \/ \E a \in Actions : ExpireRead(a) \/ Elapse(a)
    \/ \E s \in Workers : Proceed(s)
    \/ \E t \in Tickets : Approve(t) \/ CloseTicket(t)
    \/ Configure

Spec == Init /\ [][Next]_vars

\* Clocks run, an open transaction ends (timeouts cut it off), and the sweeper looks again
\* and again.  That its provider call and commit succeed if tried again and again is the
\* environment's share.
Fairness ==
    /\ \A a \in Actions : WF_vars(Elapse(a)) /\ SF_vars(ExpireRead(a))
    /\ \A s \in Workers : WF_vars(Proceed(s))
    /\ SF_vars(Remove(Sweeper)) /\ SF_vars(RevertCommit(Sweeper))

FairSpec == Spec /\ Fairness

-----------------------------------------------------------------------------
(* Properties *)

\* Sessions between the redemption of ticket t and the provider's answer.
Spending(t) ==
    {s \in Workers : /\ txn[s].ticket = t
                     /\ \E pc \in {"redeemed", "locked"} : At(s, {"preapprove", "execute"}, pc)}

\* README, "No defensive action runs without an approval whose hash matches the exact
\* payload": the provider is called at most once for each redemption of a ticket, every rule
\* in force was created under a redeemed ticket that names the rule's own action, and two
\* handlers that redeem, wait for the row lock, fail or are cut off never share one.
RulesBacked ==
    /\ TypeOK
    /\ \A t \in Tickets : applied[t] + Cardinality(Spending(t)) <= redeemed[t]
    /\ \A x \in rules : bound[x.ticket] = x.act /\ applied[x.ticket] > 0

\* Session s has created rule x and is about to commit its reference.
Storing(s, x) ==
    At(s, {"preapprove", "execute"}, "applied") /\ txn[s].act = x.act /\ txn[s].ref = x.ref

\* A later revert finds rule x.
Tracked(x) ==
    \/ row[x.act].status = "ACTIVE" /\ row[x.act].ref = x.ref
    \/ \E s \in Workers : Storing(s, x)

\* Every rule in force is one that the platform can still remove: docs/threat-model.md, "every
\* action is reversible through `revert`".
EveryRuleReversible == \A x \in rules : Tracked(x)

\* Of rule x no reference is known, since its creation was answered with an error; the action says
\* FAILED, or the session is about to say so.
Reported(x) ==
    /\ x.ref \in unheard
    /\ \/ row[x.act].status = "FAILED"
       \/ \E s \in Workers : txn[s].act = x.act /\ At(s, {"preapprove", "execute"}, "unheard")

\* Action b shares its element of the provider's set with action a, and was ended, or is being
\* ended, or has gone astray.
Undoes(b, a) ==
    /\ {a, b} \subseteq InSet /\ a # b /\ Address[a] = Address[b]
    /\ \/ row[b].status \in {"REVERTED", "EXPIRED"} \/ b \in astray
       \/ \E s \in Workers : txn[s].act = b /\ At(s, {"revert", "expire"}, "removed")

\* Unless a handler was cut off, overtaken or had no provider to call, every rule in force
\* is one that the platform can still remove: its action is ACTIVE under the rule's own
\* reference, or the session that created it is about to say so; or it is one that the provider
\* created and answered with an error, and then its action says FAILED.  And an ACTIVE action that
\* names a rule has that rule in force, until a session has removed it and is about to end
\* the action.  An action loses its rule to another one only where both are one address of a
\* set, and only to the other one's end.
RulesTracked ==
    /\ \A x \in rules : x.act \notin astray => Tracked(x) \/ Reported(x)
    /\ \A a \in Actions \ (astray \cup undone) : row[a].status = "ACTIVE" /\ row[a].ref \in Ref =>
         \/ \E x \in rules : x.act = a /\ x.ref = row[a].ref
         \/ \E s \in Workers : txn[s].act = a /\ At(s, {"revert", "expire"}, "removed")
    /\ \A a \in undone : \E b \in Actions : Undoes(b, a)

\* The runbook's flow, one edge per handler.
Flow ==
    {<<"ABSENT", "RECOMMENDED">>, <<"RECOMMENDED", "PENDING_APPROVAL">>,
     <<"RECOMMENDED", "DISMISSED">>, <<"ACTIVE", "EXPIRED">>, <<"ACTIVE", "REVERTED">>}
    \cup ({"RECOMMENDED", "PENDING_APPROVAL"} \X {"ACTIVE", "FAILED"})

\* A row moves along the flow of the runbook only, and an ended action stays ended, except
\* where a handler commits what it decided on an older version of the row.
FlowStep ==
    \A a \in Actions : row'[a].status # row[a].status =>
        <<row[a].status, row'[a].status>> \in Flow \/ a \in astray'

FollowsFlow == [][FlowStep]_vars

\* A time-boxed action does not stay ACTIVE: the sweeper tries again after every failure.
TimedEnds == \A a \in Timed : row[a].status = "ACTIVE" ~> row[a].status # "ACTIVE"
=============================================================================
