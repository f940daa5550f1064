# Formal models of SOOMSUITE-AGENT

TLA+ models of the services in `src/`, the TLC runs that check them on small instances, and
TLAPS proofs for all instances where a proof exists. Every definition is translated from the
source; `PROJECT.json` names the lines of each (`map`).

Contents: [the system](#the-system) · [modules](#modules-and-their-code) ·
[runs](#runs-and-what-they-show) · [fairness](#fairness) · [proofs](#proofs) ·
[divergences](#what-the-code-does-differently-from-what-it-says) ·
[not modelled](#what-is-not-modelled) · [plan](#plan)

## The system

A multi-tenant platform of FastAPI services over one PostgreSQL database, with Redis for
locks and caches and Temporal for long-running work. SAMIIR is a sales agent (WhatsApp,
knowledge base, appointments, CRM); FATMA is a security agent (events, incidents, scans,
defensive actions). What either may *do* goes through deterministic services, and whatever is
dangerous through approvals. Services call each other over HTTP (`ServiceClient`: a POST is
retried only when it carries an idempotency key or says so) while their own database
transaction is open or after it; the sweepers in the services' `main.py` run beside the
handlers.

Three facts of the platform shape every model:

- **Transactions** (`platform_core/db/engine.py`, `tenant_session`): a handler is one READ
  COMMITTED transaction. Most handlers load a row *without* a lock, check it in Python, and the
  ORM writes `UPDATE ... WHERE id` at flush or commit. Between the two, others commit. Only a
  few places use `FOR UPDATE`, an advisory lock, or a conditional `UPDATE`.
- **Calls inside transactions**: a call to another service or a provider is not undone when the
  transaction rolls back, and its answer can be lost.
- **Calls after the commit** (Temporal, notifications, audit): the commit stands when the call
  fails.

| component | state | operations | what makes it correct | hard behaviour |
|---|---|---|---|---|
| approvals | `approval_requests` | create, preapprove, decide, cancel, consume, expire | four eyes; signature and approver agree; redeemed in time, once per approval; settled | unlocked decide/cancel; sweeper; clock |
| fatma-soc: defense | `waf_actions`, the WAF provider's rules | recommend, request_approval, try_preapproved, execute, revert, dismiss, sweep | each rule backed by a redeemed approval; each rule can be reverted; timed actions end | three systems, no atomic commit; lost answers; overlapping handlers |
| scanner-controller: scans | `scan_jobs`, Temporal workflows | request, retry, start, cancel; `ScanWorkflow`; set_status, persist_findings | each workflow backed by an approval; no orphaned active job; cancelled scans stop; results stay; gates | calls to Temporal after the commit; repeated and late activities |
| fatma-soc: incidents | `incidents`, `security_events`, links | process, upsert, transition, confirm, sweep | one open incident per correlation key; events counted once; only a human confirms | no row to lock on first insert; sweep against ingest |
| security-ingest | `security_events`, Kafka or HTTP hand-over | store_events, forward | no event lost, none stored twice | forward fails after the store |
| scheduling | `appointments`, the calendar provider, signed offers | availability, book, reschedule, cancel | no double booking; one booking per idempotency key; calendar and table agree; what is offered is free and what is free can be offered | provider call inside the transaction; wall clocks that are changed |
| notifications | `notifications` | enqueue, claim, deliver, cancel_related | no reminder for a cancelled appointment; sent once; bounded retries | enqueue after the booking's commit; worker crash between claim and deliver |
| knowledge | `knowledge_documents`, chunks | create, edit, submit, approve, archive | one approved version per lineage; approved content is what an approver saw; chunks match it | unlocked edit against approve |
| scanner-controller: assets | `assets`, `asset_verifications` | update, start and check a verification, allowlist | what may be scanned was proved, for as long as the proof is valid | a check asks the domain between two transactions; unlocked rows |
| security-ingest, scanner-worker: malware | `malware_results`, quarantine blobs, Temporal workflow | submit, analyze, persist_verdict, destroy | every ended analysis has judged its file; bad files are reported; a failed scan is not a clean one | activities attempted again after half of their effects |
| samiir-agent | `conversations`, `messages`, the context of a conversation | chat, tools, form, escalate, human reply, status | a message is answered once; bookings are remembered; people keep what they took over | a turn works on its own copy of the context for as long as a model answers |
| whatsapp | Redis keys | receive, send | a message is handled at most once, a send delivered once | background tasks, lost answers of the Graph API |
| crm | `contacts`, `opportunities` | capture, qualify, stage events, update, erase, change stage | erased data stays erased; one open opportunity; only staff close | unlocked lookups; lost updates |
| audit | `audit_logs`, hash chain, SIEM queue | record, append, verify, forward | no gap, no fork; what was answered as done is in the trail | concurrent appends, retried POSTs without a key |
| api-gateway: staff | `users`, `user_roles`, sessions in Redis | login, requests, logout, create, set_roles, disable | a tenant keeps an administrator; sessions end | roles of the login, sessions written back |
| api-gateway: widget | sessions in Redis, rate limiter | open, message | limits hold in every window | counter read and written around the limiter |
| identity and policy | tokens, replay cache; tables of roles, callers, ceilings, tools | mint, verify; check, authorize_tool | tokens are used once; the two agents' sides stay apart | chains of calls; expiry; a full cache |
| database | roles, grants, policies, functions, triggers; pooled connections | tenant_session, system_session, any statement | a transaction reaches its tenant's rows only | settings of a pooled connection |
| web console, infrastructure, scripts | — | — | — | not modelled |

`PROJECT.json` lists every component with its files and status, and every hazard with its line
and the properties that cover it.

## Modules and their code

| module | what it is |
|---|---|
| `Approvals` | the approval service, operation by operation |
| `Voucher` | what callers of the approval service rely on, without rows, clocks or transactions |
| `Defense` | defensive actions: `waf_actions`, handlers, sweeper, provider; uses `Voucher` |
| `Scans` | scan jobs, handlers, `ScanWorkflow` and its activities; uses `Voucher` |
| `Assets` | an asset's verification, authorization and allowlist: what the gates of a scan ask |
| `Bookings` | appointments and their calendar events: book, reschedule, cancel |
| `Slots` | the slots that are offered, across a change of the clock, and bookings from offers |
| `Notifications` | the notification queue and its workers |
| `Reminders` | `Bookings` and `Notifications` composed: the calls a request makes after its commit |
| `Knowledge` | one lineage of a knowledge document: edit, submit, approve, archive, and what is served |
| `Incidents` | security events, their hand-over and sweep, the incidents they are grouped into |
| `Samples` | malware samples: quarantine, analysis, verdict, event, destruction |
| `Conversations` | a conversation with SAMIIR: WhatsApp and web messages, turns with their tools, staff |
| `Outbox` | WhatsApp sends with their idempotency keys |
| `Crm` | contacts and opportunities under overlapping requests of customers and staff |
| `Audit` | handlers that record, the chain of hashes, the SIEM queue |
| `Staff` | accounts, roles and sessions at the admin gateway |
| `Widget` | the public widget's sessions and rate limits |
| `Access` | roles, caller tables, ceilings, routes and tools along a chain of calls |
| `Tokens` | the tokens of service calls and the replay cache |
| `Tenancy` | pooled connections, grants, row-level policies, lookup functions and triggers |
| `Approvals_proofs` | TLAPS: the safety of `Approvals` and that it implements `Voucher` |
| `Defense_proofs` | TLAPS: `RulesBacked`, `RulesTracked`, `FollowsFlow` |
| `Scans_proofs`, `Actions_proofs` | TLAPS: `ScansBacked`, `JobsHaveWorkflows`, `FinalUnlessStale`, of `Scans` and of its instance in `MCActions` |
| `Records_proofs` | TLAPS: `Samples`, `Knowledge`, `Audit`, `Bookings`, `Slots`, `Notifications` and `Reminders` |
| `Gates_proofs` | TLAPS: `Tokens`, `Staff`, `Widget`, `Assets`, `Tenancy` and `Conversations` |
| `Customers_proofs` | TLAPS: `Crm`, `Outbox` and `Access` |
| `Incidents_proofs` | TLAPS: `EventsCounted`, `IncidentKept` |
| `MCApprovals`, `MCReminders`, `MCIncidents`, `MCConversations`, `MCCrm` | instances for TLC of one system |
| `MCActions` | instances of `Defense` and `Scans`; `MCDefense`: of `Defense` alone |
| `MCPlatform` | instances of `Bookings`, `Slots`, `Knowledge`, `Samples`, `Audit`, `Outbox` |
| `MCGates` | instances of `Staff`, `Access`, `Tokens`, `Widget`, `Assets`, `Tenancy` |

`MCActions`, `MCPlatform` and `MCGates` each put several parts that share no state into one run:
a variable `part` picks one in the initial state, and only that part moves. The run is as many
checks as it has parts, one after the other; it is not a statement about their composition, which
`Reminders` (bookings with notifications) and `Voucher` (approvals with its callers) are for.

`Defense` and `Scans` compose with the approval service through `INSTANCE Voucher`: they grant,
redeem and void vouchers with its actions, and `Approvals` is shown to implement it, so the two
callers are checked against what the service really guarantees (a voucher can be granted again
after it was used) and not against what its docstring says.

### Approvals (`services/approvals`)

`row` is `approval_requests`; `txn[s]` is the transaction of session `s` between its read and
its commit. A **payload** stands for all that `payload_hash` covers (tenant, action, target,
parameters); hashes and HMAC signatures are modelled by what they cover (`Sign`), so that two
are equal exactly when their inputs are.

- `Create`, `Preapprove`: one insert each; a request's ttl comes from its action's policy.
- `DecideRead`/`CancelRead` then `CommitDecision`: the unlocked read with every check of the
  handler, and the commit that overwrites whatever the row has become. A commit over a row that
  is no longer PENDING puts the request into the history variable `overwritten`.
- `ConsumeRead` then `Redeem`: the conditional `UPDATE`, evaluated on the newest row but with
  the transaction's own `now()`.
- `Sweep`: `app_expire_approvals()`, with its own `now()`, which the history variable `swept`
  keeps. `Rollback`: a Conflict, a timeout, a crash.

A decision on an expired request sets EXPIRED and then raises, which rolls the assignment back:
no change, as in the model.

### Defense (`services/fatma-soc`)

`row` is `waf_actions` as committed; the in-transaction statuses APPROVED and EXECUTING are
never committed, so they are values of `txn[s].pc`. A flush before the commit takes the row
lock (`lock`). `rules` is what is in force at the provider, and which action it is for: each call
creates a rule with a reference of its own (Cloudflare), except for the actions `InSet`, whose
address becomes a member of one IP set (AWS WAF). `Approve` and `CloseTicket` are the approval service and its users.

- `RecommendRead`/`RecommendCommit`, `RequestRead`/`RequestCreate`/`RequestCommit`,
  `PreapproveRead`/`Grant`/`Flush`, `ExecuteRead`, `Consume`, `ExecuteFlush`, `Apply...`,
  `ExecuteCommit`, `RevertRead` or `ExpireRead`, `Remove`, `RevertCommit`,
  `DismissRead`/`DismissCommit`: the handlers, cut where another process can run.
- `ConsumeLost`, `ApplyLost`, `Abort`: a redeemed approval or a created rule whose answer is
  lost, and a handler that raises or is cut off anywhere.
- `ApplyRefused`, `ApplyUnheard`: the provider answers with an error, which the handler commits as
  FAILED without a reference, and has created no rule, or has (`unheard`, a history variable): a
  status other than 200 or 201 does not say which (`defense.py:126`).
- `astray` is a history variable: actions on which a handler was cut off after it had changed
  the provider, committed over a newer row, or reverted with no provider to ask. So is `undone`:
  actions whose rule the removal of another action's took out.

### Scans (`services/scanner-controller`, `scanner-worker`, `workflows/scan.py`)

`job` is `scan_jobs`; a job stands for its idempotency key. `cleared` says whether the gates
that depend on the asset hold now; the other gates depend on the request only and are its
payload. `wf[j]` is where the workflow of `j` waits, `act[w]` what a worker executes for it.

- Handlers: `RequestRead`/`RetryRead`/`RequestCreate`/`RequestCommit`, `StartRead`, `Consume`,
  `StartCommit`, `Launch` (after the commit), `CancelRead`, `CancelCommit`, `CancelWorkflow`
  (after the commit). `Abort` after a commit loses the call to Temporal (`missed`).
- Workflow: `Scanned`, `GiveUp` (last attempt failed), `Cancelled` (the request arrives where
  the workflow waits, as `CancelledError` or as the `ActivityError` of the cancelled activity).
- Activities: `Execute` reads, `Answer` commits and answers (or the answer is lost or late),
  `Fail` rolls back. An activity may be executed again while an earlier execution runs.
- `stale` is a history variable: jobs on which a transaction was committed over a status it had
  not read, or a second start was overtaken by a first one and launches all the same.

### Bookings, Notifications, Reminders (`services/scheduling`, `services/notifications`)

`appt` is `appointments`; an appointment stands for its **idempotency key**, which callers
derive from the slot, or from the old appointment and the slot, so that a key determines both
(`Slot`, `From`). `calendar` holds the provider's events, each one attempt of one key, because
the id of an event is drawn anew for each row. `txn[s]` is the request that session `s` serves,
`calendarLock` the advisory lock and `rowLock` the row locks that flushes take.

- `BookRead`, `Insert` (lock, checks and flush), `CreateEvent`, `BookCommit`: `book`.
- `RescheduleRead`, `RescheduleFlush`, then `Insert` and `CreateEvent` as in `book` (or the key
  is found and they are not needed), `RemoveEvent`, `EndCommit`: `reschedule`.
- `CancelRead`, `RemoveEvent`, `EndCommit`: `cancel`.
- `CreateLost`, `Abort`: the provider creates the event and the call raises, or a request is cut
  off before its commit. The calendar is not rolled back: `astray`.
- `overtaken` is a history variable: appointments ended by a commit that found them ended.

`Notifications` is the queue by itself: `Enqueue`, `CancelRelated` for the callers; `Claim` (one
`UPDATE ... SKIP LOCKED`, committed before the deliveries), `Send`, then `Delivered`, `Skipped`
or `Refused` with its backoff, `CutOff` (a worker dies, or an exception that `deliver` does not
catch ends the iteration), `Report` (the status of a message from the WhatsApp service).
`unsure` is a history variable: notes handed over to a channel without being recorded as sent.

`Reminders` puts the two together. After its commit a request makes the calls `Calls(s)`, one
step each: stop the reminders of the old appointment, then `_after_change`. `CallFails` and
`CallsLost` are what makes one of them, or all that are left, not happen. `Notes` are the
appointments whose reminders are looked at, one note for all reminders of one appointment.
Confirmations are due at once and never cancelled; they are left out. A tenant without a
provider has no events, which is the same system without `CreateEvent` and `RemoveEvent`, and
its overlaps are excluded by `_db_busy` as here; it is left out.

### Knowledge (`services/knowledge`)

`doc` is `knowledge_documents`, the versions of one lineage; lineages share no rows. A **content**
stands for everything an editor can change (text, title, prices, visibility, dates), so that an
edit writes another content or none. `chunks` is the search index, by the content it was built
from. `edits[s]` is a request between its read and its commit.

- `Create`; `EditRead`/`EditCommit` in place, `AddRead`/`AddVersion` for a document that is
  approved or archived (the next version number is unique in the lineage); `SubmitRead`/
  `SubmitCommit`; `ArchiveRead`/`ArchiveCommit`.
- `ApproveRead` reads and checks, and then waits for the embedding service; `ApproveArchive` is
  the UPDATE that archives what is approved and keeps it locked (`olds`); `ApproveCommit` writes
  the row and the index, if `uq_knowledge_one_approved` (`OneApproved`) admits it.
- `stale` is a history variable: versions on which a commit found another row than was read.

### Incidents (`services/fatma-soc`, `services/security-ingest`)

`event` is `security_events` (NEW while `risk` is NULL), `pushed` the batches that
security-ingest has stored and hands over, `inc` is `incidents`, `links` the events linked by
`incident_events`. What a detector finds in a batch is its events' keys (`KeyOf`) and any others
(the detectors that look back in time); how risky a candidate is, is left open (`r`).

- `Store`, `ForwardFails`: `store_events` with its unique dedupe key, and the hand-over.
- `Receive`, `SweepRead`, `FindingsRead` begin a transaction of `process_events` or
  `findings_ingested`; `UpsertOpen` (the row lock and the update), `UpsertNone` then `Insert` (no
  row to lock; `uq_incidents_open_correlation` is `Unique`), `ProcessCommit`.
- `Alert`, `AlertFails`: the calls of `notify_incident` after the commit.
- `MoveRead`/`MoveCommit`, `ConfirmRead`/`ConfirmCommit`, `AnalyzeRead`/`AnalyzeCommit`:
  transition, confirm, and the merge that ends `analyze_incident`. `Abort` is any failure.
- `again` (events that two transactions have processed), `missed` (incidents of which an alert
  was not sent) and `overtaken` (a commit found another row than was read) are history variables.

The sweep's two transactions, one that reads the ids and one that processes them, are one step:
`process` asks for nothing that could have changed between them.

### Assets (`services/scanner-controller`)

`asset` is the row of one asset, with the columns that decide (`Columns`); `admin[a]` is a request
between its read and its commit, which writes the columns it has changed (`Saved`), and fails if
the row is then allowlisted without being VERIFIED (`Admitted`, the table's CHECK). `expiry` is of
each challenge; the status of a challenge's own row is read by nobody and left out.

- `UpdateRead` (update_asset: the customer's authorization), `AllowlistRead`, `ChallengeRead`
  (start_verification), each followed by `SaveAsset` or `CutAdmin`.
- `CheckRead` is the first transaction of a check, `CheckFinds` or `CheckFails` the answer of the
  domain, `CheckAgain` and `SaveAsset` the second transaction.
- `proved` (when a valid token was last found), `delay` (between that and its commit) and `demoted`
  (a commit took back a verification it had not read) are history variables.

`Scans` leaves open when the gates hold (`Clear`, `Lapse`); `Assets` says what they then mean.

### Slots (`services/scheduling`, `slots.py`)

Times are whole units of UTC; `Wall` and `Utc` convert to and from the business's wall clock, which
is set forward or back once (`zone`): a time in the gap is taken as one of before the change, an
ambiguous one as the first, as `zoneinfo` does with `fold=0`. `Candidates` is
`candidate_slots`: the places that its three loops visit (a day, a window of the day, a number of
steps) and admit. The list that it returns is the set of their slots, in the order in which the loops
find them (`Order`, a slot twice in the list at its first place). `Spread` is `spread`: its two passes
take the foremost of the first slots of the days, then of the rest. `Availability` fetches what the
diary has until the horizon and signs offers; `BookOffer` checks the offer's expiry and the widened
slot. What overlaps with it inside the service is the matter of `Bookings`: here a booking is one step.
`AllFree` is the reference definition that the candidates are compared with: the docstring's "all
free slots inside working hours, respecting notice, horizon, buffers", as a set, without days,
loops or first day; `OnItsDay` says which of them a change of the clock may cost.

### Samples (`services/security-ingest`, `services/scanner-worker`, `workflows/malware.py`)

`sample` is `malware_results`, `blob` the quarantine's object, `analysis` the workflow with the
attempts of its two activities, `reports` the malware events of a sample, which never meet each
other's dedupe key. `Seal`, `InsertSample`, `StartAnalysis` (or `SubmitFails` between them) are a
submission; `Analyze` takes any result of the engines and applies `verdict_for`; `Persist` and
`StoreEvent` are one activity, whose attempts can end anywhere (`AttemptFails`); `DestroyCommit`
and `Overwrite` are destroy. `cut`, `kept` and `again` are history variables.

### Conversations and Outbox (`services/samiir-agent`, `services/whatsapp`)

`conv` is one row of `conversations` with its context: whether a contact is known, the slots on
offer, the one that waits for the form, and the appointments booked. `turn[w]` is a request of the
customer; after `Inbound` (the only transaction that locks the row) it works on a copy, `ctx`,
until `Store` writes that copy back. A slot stands for its signed token, and so for the key and the
appointment it is booked under.

- `Receive`, `SeenExpires`, `TaskEnds`: WhatsApp's deduplication and background task.
- `Tool`: any tool that changes something, in any order (`CheckAvailability`, `CaptureContact`,
  `Book`, `Reschedule`, `Cancel`), as a model may call them, or none; `BookLost` and
  `RescheduleLost` when scheduling has committed and its answer is lost. `Form...`: the contact form and the booking that waited for it.
- `Store`, `Reply`, `ReplyRetried`, `ReplyFails`: the answer stored, and handed to the Graph API.
- `EscalateRead`/`EscalateCommit`, `ReplyRead`, `StatusRead`, `StaffCommit`: the status.
- `unsure`, `dropped`, `overtaken` are history variables.

`Outbox` is `send` by itself: `SendLookup`, the Graph API's attempts (`GraphAccepts` with an answer
that may be lost, `GraphRefuses`), `StoreKey`; callers repeat a send whose answer they miss.

### Crm (`services/crm`)

`contact` and `opp` are the tables; an e-mail or a phone stands for its blind index, and a phone
for the WhatsApp identity too. `txn[t]` is a handler between its read and its commit, which writes
the columns it has changed (`Saved`) under the unique index (`EmailFree`). `CaptureRead`/`Commit`,
`LeadRead`/`LeadCommit` (qualify and stage events), `ContactRead`/`ContactCommit` (update and
erase), `Look`, `StageRead` and `StaffCommit` (staff look at an opportunity, and change it with or
without its version), `CreateContact`, `CreateOpportunity`. An opportunity's `fields` (its title,
service interest and qualification) are the number of the change that wrote them last: staff write
them under a new version (`Patched`), `qualify` without one (`Requalify`). `changes`, `silent`,
`stale`, `overtaken` and `extra` are history variables; `silent` has the changes of `qualify` that
left the version as it was.

### Audit (`services/audit`, `platform_core/audit.py`)

`handler` is an operation that changes something and then records it; `append` the audit service's
transaction of each attempt, which waits for the tenant's advisory lock (`Lock`), reads the end of
the chain and inserts (`InsertEntry`). A client that misses an answer sends again (`Retry`) while
the first append may still run. A hash is the value it is made of, so that two never collide.
`Submit`, `Forward`: the bounded SIEM queue, which loses what it holds in `AuditCrash`.

### Staff, Widget (`services/api-gateway`)

`account` is `users` with `user_roles`, `session` the session store; a `call` loads its session,
writes it back with a new time (`Admit`) and acts on the roles it has read. `SetRoles` and
`RolesCommit` are the two statements of set_roles, of which the first deletes what it sees.
`AdministratorLeft` and `SessionsEnd` have their exceptions in `outdated`, `mixed`, `revived`.

`visit` is the widget's sessions, `hits` the limiter's log of each key, a set of times with numbers
that keep equal times apart (the sorted set of the Lua script), `expires` its time to live. For each
of its limits, the tenant's and the session's, a message reads the clock (`ReadClock`) and then has
the script run with it (`Limit`): scripts can run in another order than their clocks were read.
`belated` has the admissions that one with a later clock came before, or that found their log
expired though it had held later ones. A message then counts repetitions (`Counted`) and puts the session back
(`PutVisit`). The limit per address is one more key and left out.

### Access, Tokens, Tenancy (`platform_core/security`, `packages/database`)

`Access` holds the tables of `rbac.py`, `service_acl.py` and `policy.py` as they are and follows a
call from its first sender through every service that accepts it (`CallOn`): with the principal it
was called with, or with its own. `fallen` is a SAMIIR-side service whose key signs anything.

`Tokens` is one receiver's `ServiceTokenVerifier`, between the decoding of a token and its
`first_use`, with the in-memory cache that is bounded. `evicted` and `late` are its exceptions.

`Tenancy` has the grants of `0002_service_roles.py`, the policies and triggers of
`0001_core_schema.py`, and connections with the settings `app.tenant_id` and `app.actor`, set for
one transaction and left empty, not NULL, after it (`Left`). A handler's statements are left open:
any, on any rows, as of a handler without a WHERE clause. The tables of `Tables` are examples of
each rule: business data, agents' data, what a lookup function updates, the audit trail, roles.

## Runs and what they show

| run | instance | shows |
|---|---|---|
| `approvals` | 1 request, 2 payloads (low- and high-risk, lives of 2 and 1 ticks), 2 humans, agent, policy, 2 transactions, clock to 2 | all properties of `Approvals`, liveness and the refinement of `Voucher` |
| `approvals_single_use` | 3 humans, 3 transactions | finding: one request redeemed twice |
| `actions` | 1 action with a rule of its own, 2 approvals, 2 handlers and the sweeper, 2 rule references, or 2 actions on one address of a set, 2 approvals, 1 handler and the sweeper; or 1 job with 2 approvals or with one that is granted twice, 2 handlers, 1 activity worker | safety of defensive actions and of scans |
| `actions_live` | 2 actions on one address, shared set, 1 handler and the sweeper; or 1 job, 1 approval, 2 handlers, 1 worker | a timed action ends; a started scan ends |
| `defense_reversible` | 1 action, 1 handler | finding: a rule nobody can revert |
| `reminders` | a chain of 3 keys, the reminder of the middle one, 2 sessions, 2 workers, 2 tries | the queue, reminders against bookings, and that a reminder ends |
| `incidents` | 1 event, 1 key, 2 incidents, 2 processes of which one sweeps, 2 risk levels | counting, alerts, incidents people work on, and that events are assessed |
| `incidents_replicas` | 1 event, 2 sweepers | finding: replicas count an event twice |
| `conversations` | 2 messages, 2 slots, 2 turns, 1 person, either channel | deduplication, remembered bookings, people against turns |
| `crm` | 2 e-mail addresses, 1 phone, 2 contacts, 2 opportunities, 2 handlers, 3 wanted stages, 3 versions | erasure, one open opportunity, staff against customers |
| `platform` | six parts: 4 booking keys with 2 sessions; slots of 3 days in 2 zones; 2 versions of a document; 1 sample; 2 audited operations; 2 sends | what each part's data promises |
| `gates` | six parts: 2 persons with 2 sessions; every principal and service; 3 tokens; 2 visitors; 1 asset with 2 challenges; 2 tenants, 2 connections, 5 services | who gets in, and how far |

**Why the bounds are enough.** Rows of the same table interact only through `recommend`'s
deduplication, the shared IP set and `ensure_capacity`; each handler touches one row. One row
with two overlapping transactions and a background process has every pairwise race of the code:
read before read, commit over commit, sweep between read and commit. Two approvals per row let
a re-request or retry swap the approval under a running handler. A job's approval can also be
granted twice (`ScanGrants`), which is how two overlapping starts of one job both redeem it; since
the two ways to a second redemption do not help each other, an instance has one or the other
(`ScanBound`). For an action one grant each (`MaxGrants`) is enough: its two approvals bring two
overlapping executions about as well, and the proofs are for any number of grants. The clock's bound lets a request be created, decided
before, redeemed at and swept after its expiry, and no request outlives it, so the bound never
stands in for the sweeper. Two transactions suffice for the double redemption, because sessions
are reused: one commits the first decision and consumes while the other still holds its stale
one; the finding's run has three so that its trace is direct. The proofs remove these bounds for
`Approvals`, `Defense`, `Scans`, `Samples`, `Knowledge`, `Audit`, `Bookings`, `Tokens`, `Staff`,
`Widget`, `Crm` and `Outbox`.

For `Bookings`, two keys compete for overlapping slots, two requests reschedule one appointment
under different keys, and each can be cancelled meanwhile; two sessions give every overlap of
two requests. `MaxAttempts` is 1 and never stands in the way: the event of an attempt that did
not commit stays in the calendar, `provider.busy` reports it, and a second attempt is refused
before it reaches the provider. In `reminders` the middle of a chain is an appointment that is
itself made by a rescheduling and then rescheduled or cancelled, which is every way a request
can touch a reminder; two workers overlap in claiming, and two tries are the first and the last.
States that differ only in `astray`, which nothing in `Reminders` reads, are one (`VIEW`).

For `Slots`, a day of 6 units has a day with one window from 1 to the end, a day without and a day
with two windows that touch; the clock is changed by one unit, forward or back, inside the last
window, in a zone ahead of UTC and in one behind it, or by three units up to midnight in a third
zone; slots take 2, the buffer and the step 1, and
requests ask for 2 days or for more than the horizon of 3 allows, with and without an earliest time.
Requests are made at two or three times (`MaxAsks`, `MaxMinute`), with and without a meeting that
touches a slot and one beyond.

For `Knowledge`, two versions can both be pending and approved by overlapping requests, or one be
approved while the other is served, and each can be edited meanwhile; a third version meets the
same races with one of them. In `incidents` one event can be handed over and swept at the same
time, be processed before and after its incident is closed (`MaxClosed` 1: a second incident
takes its place, and the first can ask to be reopened), and detectors and findings touch its key
without it. People ask for two of the seven statuses (`Wanted`), one that closes and one that
reopens; the others differ in nothing but their row of the table. Two processes overlap in every
pair of requests, sweeps included.

In `conversations` two turns overlap in every way, with a message each or one that is delivered
again; two slots let a booking be moved or a second one be forgotten. In `crm` two addresses and one
phone make every way two contacts can be matched, and two handlers overlap; three versions are
enough for a stale one to be compared. For `Audit` two operations of two attempts give four appends,
which race for the lock and for the queue of one place. For `Tokens` three tokens overfill a cache of
two. For `Widget` two sessions of a tenant meet its limit of 3 and their own of 2 in a window of 2;
four moments (`MaxMoment`) let a window end between the clock that a message reads and its script.
For `Staff` two persons can each be the other's last administrator, and both of their sessions
outlive a change of roles. For `Assets` two requests overlap, one of which may hold an answer of the
domain back for as long as the clock runs. For `Tenancy` two connections are used one after the other
and at once by transactions of two tenants and of none; rows are there from the start or inserted,
and a transaction changes one (`MaxWrites`), since every row is checked by itself.

**The properties**, by what can go wrong:

- *Approvals.* `FourEyes`, `SignatureMatchesApprover`, `RedemptionsBacked`
  hold without exception in spite of overwritten decisions. `OutcomesAgree`: the sweeper and consume,
  each with its own clock, agree: what a pass met expired is not redeemed after it, not even by a
  transaction that began before, and a request is EXECUTED exactly if it was redeemed. `SingleUseUnlessOverwritten` and
  `FinalUnlessOverwritten` say that a stale decision is the *only* way to a second use or to a
  resurrected request. `EveryRequestSettles`: the sweeper ends what people leave open.
- *Defense.* `RulesBacked`: the provider is called at most once per redemption, for the
  action the approval names. `RulesTracked`: every rule in force can still be removed, or
  was answered with an error and its action says FAILED, and what is ACTIVE with a reference is in force, except on actions in `astray`, or in `undone` by the end of
  another action on the same address of a set. `FollowsFlow`: statuses move
  along the runbook's flow. `TimedEnds`: liveness of the sweep.
- *Scans.* `ScansBacked`: one workflow per redemption. `JobsHaveWorkflows`: no job occupies
  capacity without a workflow, and a cancelled job's workflow is asked to stop.
  `FinalUnlessStale`: results stay. `StartedEnds`: liveness of a started scan.
- *Assets.* `AssetsHold`: where the gates hold, the owner has shown a token within the validity (and
  the time an answer was held back); a proof is not taken back but by a challenge begun before it.
- *Bookings.* `BookingsHold`: no two booked appointments are closer than the buffer, between which
  and the table's exclusion constraint (which knows no buffer) stands the advisory lock alone;
  calendar and table, two systems without an atomic commit, agree; an appointment ends once.
- *Slots.* `SlotsHold`: the candidates are the free slots of the reference definition, no more and, but
  for one that the clock moves off its day, no fewer; the choice among them is spread over the days, and what is booked from an offer is apart from what was
  there, as long as promised, and not at shorter notice than the offer's life explains.
- *Reminders.* `RemindersFollow`: a reminder neither outlives its appointment nor is cancelled while
  it is booked, and is sent once. `RemindersSettle`: liveness of the delivery.
- *Knowledge.* `KnowledgeKept`: at most one version is served, and what is served, from the row and
  from the index, is what its approver was shown; approved content is immutable, an approval leaves
  no gap, and versions take the moves of the flow.
- *Incidents.* `EventsCounted`: no event lost, none counted twice, one open incident per key, and the
  team hears of risky ones. `IncidentKept`: transitions, risk, counts, confirmations and the sign of
  a successful attack. `EventsAssessed`: liveness of the sweep.
- *Samples.* `SamplesJudged`: an analysis that ended has judged its file, bad files are reported,
  ClamAV's failure is never "clean", and destroyed means gone.
- *Conversations, Outbox.* `HandledOnce`, `DeliveredOnce`: messages in and out. `BookingsKnown`: what
  SAMIIR booked it can still move. `PeopleKeep`: a conversation that people took over.
- *Crm.* `ErasedStaysEmpty`, `ClosedByStaff`. `OneOpenLead`: also that a change staff make under the
  version they have seen meets no change they have not, but for the fields that `qualify` wrote
  without a new version (`silent`): those a PATCH overwrites, in plain sequence.
- *Audit.* `TrailHolds`: the chain verifies in every state, and would not if a row but the last were
  removed, swapped or changed; what was answered as done is in it.
- *Staff, Widget.* `AdministratorLeft`, `SessionsEnd`. `WidgetHeld`: no window holds more than
  its limit, `belated` admissions not counted, which is how far the limits go when posts overlap.
- *Access, Tokens, Tenancy.* `SidesApart`: no chain of calls carries a visitor, or a SAMIIR-side
  service that signs what it likes, to a permission of staff or to FATMA's tools. `UsedOnce`: replay.
  `TenantsApart`: whatever statements run, a transaction reaches its tenant's rows only, agents their
  own only, only a transaction of a person confirms an incident, and audit rows stay.

Properties that hold of a state and of a step together are one property of the form
`[][Inv' /\ Step]_vars`. Each exception (`overwritten`, `astray`, `stale`, `missed`, `overtaken`,
`unsure`, `again`, ...) is a history variable set only by the step that is the exception, so a
property with an exception is also the statement that no other step breaks it. Each property has
a mutant in `PROJECT.json`: a plausible bug of the code under which its run fails. The mutants
stand in the modules, beside what they mutate. Type invariants are conjuncts of a property of
their module or, for `Approvals`, of the inductive invariant; TLAPS proves those of the modules it
proves about.

`CHECK_DEADLOCK` is FALSE in `reminders` and `platform`: once every key is used up and every
appointment over, no request is left to make. So it is in `gates` (clocks and visits end), in `crm`
(rows and versions are used up) and in `incidents_replicas` (sweepers and no people). Requests that
wait for each other's locks do not stop the system: each can be cut off (`Abort`), as PostgreSQL
does with one of two transactions in a deadlock. Elsewhere the check is on: handlers, clocks and
administrators can always do something.

## Fairness

- `Approvals`: weak fairness of the clock and of `Sweep`. `main.py:20-27` runs the sweep in a
  loop that catches every exception and sleeps a fixed time. People are not fair.
- `Defense`: open transactions end (weak fairness of `Proceed`, which contains `Abort`: time-outs
  cut them off), clocks run, and the sweeper looks at a due row again and again
  (`fatma_soc/main.py:24-43`). Strong fairness of the sweeper's provider call and commit is an
  assumption on the *environment*: if they are tried again and again they succeed at times.
- `Scans`: handlers and executions end, Temporal executes a pending activity, each activity has
  a timeout and at most five attempts, hence strong fairness of "answered in time, or given up"
  (`workflows/scan.py`, the retry policies). No fairness of cancellation or of people.
- `Reminders`: the time of a reminder comes, and each worker claims and delivers again and again
  (weak fairness each: `run_worker` catches every exception and goes on, and the channels have
  timeouts). `CutOff` is always possible, so that liveness says "or forgotten". No fairness of
  requests, nor of the calls they make.
- `Incidents`: transactions end, and a sweeper sweeps again and again when it is free and events
  are left (strong fairness: in the code its loop waits for no request, in the model it may share
  a process with them). `SweepsSucceed` is an assumption on the environment: of the sweeps that
  begin again and again, some commit. Without it people could close, and findings reopen, the
  incident in step with the sweep's failures for ever. No fairness of people or of the hand-over.
- The other modules state no fairness and no liveness: what happens there is begun by people or
  by messages, and the code promises no end to it (a failed analysis of a sample stays pending, a
  conversation that nobody answers stays as it is). Their properties are safety.

## Proofs

TLAPS checks the following for every value of the constants: any number of rows, keys, users,
overlapping transactions, attempts and ticks of a clock. Only `Incidents`, which counts events, assumes
that they and their keys are finitely many.

| module | theorem | states |
|---|---|---|
| `Approvals_proofs` | `TypeCorrect` | `TypeOK` |
| | `FourEyesHolds`, `SignatureHolds`, `Backed` | the three unconditional invariants |
| | `OutcomesAgreeHolds` | `OutcomesAgree` |
| | `SingleUse_NoOverwrite`, `FinalHolds` | `SingleUseUnlessOverwritten`, `FinalUnlessOverwritten` |
| | `Implements` | `ImplementsVoucher`: every step is one of `Voucher` or a stutter |
| `Defense_proofs` | `RulesBackedHolds`, `RulesTrackedHolds`, `FollowsFlowHolds` | `RulesBacked`, `RulesTracked`, `FollowsFlow` |
| `Scans_proofs`, `Actions_proofs` | `ScansBacked...`, `JobsHaveWorkflows...`, `FinalUnlessStale...` | the properties of that name, of `Scans` (`Holds`) and of the instance that the run checks (`Here`) |
| `Records_proofs` | `SamplesJudgedHolds`, `KnowledgeKeptHolds`, `TrailHoldsAlways`, `BookingsHoldAlways` | `SamplesJudged`, `KnowledgeKept`, `TrailHolds`, `BookingsHold` |
| | `RemindersFollowHolds`, `SlotsHoldAlways` | `RemindersFollow`, `SlotsHold` |
| `Gates_proofs` | `UsedOnceHolds`, `AdministratorLeftHolds`, `SessionsEndHolds`, `WidgetHeldAlways` | `UsedOnce`, `AdministratorLeft`, `SessionsEnd`, `WidgetHeld` |
| | `AssetsHoldAlways`, `TenantsApartAlways` | `AssetsHold`, `TenantsApart` |
| | `HandledOnceHolds`, `BookingsKnownHolds`, `PeopleKeepHolds` | `HandledOnce`, `BookingsKnown`, `PeopleKeep` |
| `Customers_proofs` | `ErasedStaysEmptyHolds`, `OneOpenLeadHolds`, `ClosedByStaffHolds` | `ErasedStaysEmpty`, `OneOpenLead`, `ClosedByStaff` |
| | `DeliveredOnceHolds`, `SidesApartAlways` | `DeliveredOnce`, `SidesApart` |
| `Incidents_proofs` | `EventsCountedHolds`, `IncidentKeptHolds` | `EventsCounted`, `IncidentKept` |

**Assumptions.** Each module names its own (`ASSUME ...Assumption`), and TLC evaluates them in the
runs. They say that bounds, limits and times are numbers; that NULL, and what else stands for
nothing, is no id; that every policy has a positive ttl (`PolicyAssumption`); that `recommend` gives
every low-risk action a ttl, and that references of rules, addresses and NULL differ (`ActionAssumption`); that a
key determines its slot and what it replaces (`BookingAssumption`); that days, durations and steps are
positive, that windows are of times of a day, on finitely many days, and that a clock is not changed by
more than a day (`SlotsAssumption`); that sets of roles are of roles (`AccessAssumption`); that the services are those with
grants, and no tenant is named by NULL or by the empty string (`TenancyAssumption`). No
theorem has a hypothesis beyond them. Hashes and signatures are
what they are made of, so they never collide. The clocks of processes are one clock.

**Arguments.** None of the properties is inductive, and nearly always for one reason: whether a
commit is right was decided when its row was read, and the row may have changed since. Each
inductive invariant therefore says what is known of every open transaction, and the rest follows
by one lemma per action.

- *Approvals* (`IInv`). A stale decision keeps four eyes only because the requester of a row never
  changes after it was compared (`OpenTxns`). Redemptions are backed since an undecided request was
  never granted, and single since one that no stale decision hit is granted once (`GrantedOnce`).
  Outcomes agree since such a request is open only while no pass has met it expired (`Settled`).
  The refinement maps each action to a step of `Voucher` by what it does to the APPROVED rows.
- *Defense* (`IInv`, `ForceInv`). `Snapshot` says which statuses, tickets and locks go with each
  point of each handler. A rule stays removable because the session that created it holds the row
  lock until its commit makes the row ACTIVE under that reference, or FAILED if the answer was an
  error (`Making`, `Held`), and because whoever ends an action
  has removed its rule before (`Gone`). That an ACTIVE row has its rule in force, unless
  it is in `undone`, also needs which other actions go by its reference (`OneOwner`): those on the same
  address of a set. Calls of the provider are counted against
  redemptions together with those about to be made (`Backed`), by cardinality.
- *Scans* (`IInv`). `Backed` as in `Defense`. `Fresh` is the order in which row, handlers, workflow
  and activities come for a job nothing stale was written to: started once, cancelled in the row
  before it is in the workflow. `Actions_proofs` carries the theorems over to the instance: a
  behaviour of `MCActions`, seen through the variables of `Scans`, is one of `Scans`. Proving
  `Fresh` showed that an overtaken second start had to count as stale: it writes what it finds, and
  yet launches a second workflow.
- *Samples* (`SamplesInv`): a verdict is stored only from an analysis that has found it. *Knowledge*
  (`KnowledgeInv`): what a request has read stays there with its author (`ReadBy`), so that the check
  of the author is still good at the commit. *Audit* (`TrailInv`): who holds the tenant's lock has
  read the end of the chain (`Tip`), a committed append has its row (`Placed`), and an event whose
  attempts were all answered has one (`Single`); that tampering shows is a lemma about
  `verify_rows` (`TamperingShows`). *Bookings* (`BookingInv`): who has inserted a row holds the
  advisory lock until its commit (`Locked`), so that a buffer checked under it is still there, and
  every event belongs to a row or to a request (`EventKnown`, `EventThere`).
- *Reminders* (`ReminderInv`) has `BookingInv` and, for the queue, that a message was handed over less
  often than its note was claimed (`QueueInv`). The calls of a request follow its commit, so that
  what they stop is over (`Over`) and what is over has a request on its way to stop it (`Stops`). The
  second call of a rescheduling stops the reminder of the appointment that it has just booked. That one
  has a note before the third call only if another rescheduling booked the same, and then one of the two
  found the old appointment ended (`Second`, `Both`, `Replaced`): hence the exception for `overtaken`.
- *Slots* (`SlotsInv`). That the candidates are the free slots rests on arithmetic: a place of the loops
  is a time that begins a slot and the other way round (`CursorsAreBegins`, `BeginsAreCursors`), and the
  loops do not begin too late, for an earlier time is not shown as a later day (`ShownBefore`,
  `FirstDayReached`). What is offered is counted by numbering a strict order (`RankNumbers`: the
  number of elements before one is a bijection), so that the foremost n of a set are n, or all
  (`ForemostAreSome`), and every set has a first (`HasFirst`). A booking keeps what was promised since
  its offer was of a candidate (`OffersPromised`) and what is booked is in the calendar.
- *Tokens* (`TokensInv`): the cache keeps a token at least as long as it is current (`Remembered`).
  *Staff* (`StaffInv`): of a session, the login it is of (`SessionBorn`); of roles being set, which
  ones will go (`Setting`). *Widget* (`WidgetInv`): what was admitted after the latest clock a script
  ran with, less a window (`CutAt`), is still in the limiter's log, which is smaller than the limit when one more is let in; the counter of
  repetitions follows the texts while messages come one by one (`Steady`, `Counts`). *Assets*
  (`AssetsInv`): a request that would take a verification back has not read it and changes nothing
  else (`AdminRead`), so that the CHECK of the table stops it while the asset is allowlisted.
  *Tenancy* (`TenancyInv`): what a connection keeps of an earlier transaction's settings is no tenant
  (`Settled`), so that without settings the policies show nothing; and a change that the triggers let
  pass stays one that its transaction may commit (`Changes`).
- *Conversations* (`TalkInv`): a message is stored by one turn, which alone answers it (`OneTurnEach`,
  `TurnOK`), so that what other turns read of the row does not matter for answers. The copy of the
  context that a turn works on holds every appointment of the stored one until another turn has stored
  its own (`TurnOK`); only who is `behind` writes over anything, and that is in `dropped`. A conversation
  in HUMAN_HANDLING has an assignee as long as no commit went over a newer row (`HasAssignee`): whoever
  sets that status sees to an assignee, and only a change to OPEN takes one away.
- *Crm* (`CrmInv`): what a handler has read of a row (`Reads`), and that whoever has seen the version
  of an opportunity has seen its last change (`Seen`). *Outbox* (`OutboxInv`): while a call tries, a
  message whose answers all arrived and that no other call sent was not delivered (`Calls`).
- *Access* (`AccessInv`): what a chain of calls may do is decided by its last hop. No service accepts
  calls to the staff's gateway, so that a chain from elsewhere never leaves from it (`Arrived`); every
  other caller has a ceiling of what customers and services may do (`CeilingOutsideStaff`), and is on no
  route for staff (`CallersOfRoutes`). The run takes some sets of roles (`MCRoleSets`), the proof any.
- *Incidents* (`IInv`). What an incident will count is settled when a transaction writes its row, long
  before the commit. `Written` says that the row is the committed one with the events of the batch
  added; it stays true since the row is locked. `Covered` says that each key of the batch has one such
  row or is still to be upserted, so that no event is left out. `OneKey` extends "one open incident per
  key" to the rows not yet committed: `UniqueKey` is what the unique index gives for it. Events are
  linked once because whoever links one also marks it assessed, and `again` has those that were.

Induction over data is out of the prover's reach; what the proofs need of it, that a set of numbers
has a least one, is derived for concrete sets from the library's theorem on well-founded relations
(`LeastNatural`), and counting from its theorems on finite sets. Definitions that the proofs expand
use sets and positions in place of `SelectSeq` and folds for the same reason.

**Only model-checked.**

- Liveness (`EveryRequestSettles`, `TimedEnds`, `StartedEnds`, `RemindersSettle`, `EventsAssessed`):
  the prover cannot reason about `ENABLED`, on which fairness rests.

## What the code does differently from what it says

Findings, each with a run that shows it:

1. **Single use** (`approvals/service.py:109`). consume promises "only once"; two decisions that
   overlap can approve one request twice and have it redeemed twice.
2. **Reversibility** (`fatma_soc/defense.py:255`). The threat model promises that every action
   can be reverted; a rule whose creation was not answered, or was answered with an error
   (`defense.py:126`, `256`), or whose transaction did not commit, cannot.
3. **Replicas of the sweeper** (`fatma_soc/main.py:32`). The deployment guide says that the
   fatma-soc sweeper uses `FOR UPDATE SKIP LOCKED`, so that replicas are safe; its sweep of events
   uses neither, and two replicas count an event twice.

Observations without a run of their own:

- With the shared AWS set (`defense.py:162`) reverting one action on an address takes another
  ACTIVE one out of force. `RulesTracked` says that this takes two actions on one address and the
  end of the other one (`Undoes`); without `undone` in it, TLC finds it violated in this way.
- `docs/soc-runbook.md` asks for two distinct approvers for some actions; the code asks for one
  approver who is not the requester.
- A rejected or expired approval leaves its action in PENDING_APPROVAL (`fatma_soc/api.py:621`);
  `recommend` then finds that row and proposes nothing new for the target.
- A high-risk action recommended without a ttl never expires (`defense.py:263`).
- README.md:99 says "No scan runs without all seven gates." They are evaluated when a scan is
  started (`scanner_controller/api.py:272`), up to 30 days before the scanners run, and not again.
- `ensure_capacity` counts without a lock (`scanner_controller/service.py:116`); two overlapping
  starts can exceed the limit.
- Two overlapping starts of one job under an approval that was granted twice both redeem it, and
  both start a workflow, the second once the first has closed, also when the job was cancelled or
  has ended meanwhile (`scanner_controller/api.py:272`): `FinalUnlessStale` and `JobsHaveWorkflows` have `stale` for it.
- The comment at `scheduling/service.py:175-176` has the deterministic id of the event make a
  retry idempotent. The id is drawn for each new row, and `provider.busy` finds the event of the
  failed attempt: the retry is refused as a conflict, and the slot stays blocked (`astray`).
- Two overlapping reschedulings of one appointment under different keys leave two booked
  successors, and a cancellation that overlaps a rescheduling leaves a booked one: `BookingsHold`
  fails without its exception for `overtaken`.
- `_after_change` (`scheduling/api.py:53-54`) calls replays after a partial failure safe. A
  booking that is replayed makes no calls at all, since its key is found; a rescheduling that is
  repeated while the first is under way cancels the reminder of the booked successor and then
  finds its key in the queue: `RemindersFollow` fails without its exception.
- `cancel_related` leaves a reminder alone that is due or being sent; one whose delivery then
  fails goes back to SCHEDULED and is sent later for an ended appointment (`missed`).
- Errors of the transport in `post_slack` are neither `PlatformError` nor `OSError`: they end the
  worker's iteration, and what it had claimed stays SENDING (`Forgotten`); nothing claims it again.
- "Approved content is immutable" (`knowledge_service/service.py:132`): an edit that has read a
  DRAFT, which is then submitted and approved, commits its content into the APPROVED row. `pricing`
  serves that row and `search` the chunks of what was approved: `KnowledgeKept` fails
  without `stale`. A stale submit or edit can also take the approved version out of service.
- "The author cannot approve their own document" compares with `created_by`; whoever edited the
  draft since then can approve it.
- The hand-over and the sweep can process one event twice also without replicas, and a second time
  into a new incident if the first was closed: `EventsCounted` fails without `again`.
- `analyze_incident` merges into the analysis it has read and can drop the sources and the sign of
  a successful attack that an overlapping batch adds (`fatma_soc/agent.py:473`): later scores are
  lower. Two overlapping confirmations leave the evidence of the second. Incidents from scanner
  findings never alert, nor does a later batch that finds the risk as high as they made it.
- `confirm` does not ask for the status: a closed or false-positive incident can be confirmed.
- FATMA's tool for recommendations answers "Nothing has been changed." (`fatma_soc/agent.py:288`),
  also when `try_preapproved` has just executed the action.
- Scans and assets: a verification that is started while a check is under way takes VERIFIED back to
  PENDING (unless the asset is allowlisted, when its commit fails). The status of a challenge's row
  is read by nobody: a used or failed one can be checked again until it expires. Withdrawing the
  customer's authorization leaves the asset allowlisted.
- Slots: "all free slots inside working hours" (`slots.py:60`) leaves out the slots of a time that the
  wall clock skips when what it shows instead is the next day and the request begins there:
  `SlotsHold` fails without `OnItsDay`. Around a change of the clock a slot of 30 minutes can last an hour more or less; one that
  would end before it begins is refused by the CHECK of the table. Events just beyond the horizon
  are not fetched, so that a slot within the buffer of one is offered and then refused. `_db_busy`
  is never given what it could exclude: who reschedules is not offered times near their own
  appointment. Working hours and notice are not looked at again when an offer is booked.
- Samples: retried deliveries are to be idempotent by a stable dedupe key (`normalizers.py:7`), but
  that of a malware result has the present time in it: a repeated `persist` stores its event again. A failure
  of YARA counts as no match. An analysis that fails, or never starts, leaves its sample pending.
- Conversations: an answer to a WhatsApp message whose turn failed after it was stored is never
  delivered, and the message stays seen. A CLOSED conversation is answered. `cancel` leaves the
  appointment in the list, so that an earlier one cannot be cancelled by chat. A staff member's reply
  outside WhatsApp's 24 hours is stored before it is refused.
- CRM: `_after_change` of scheduling calls each of its calls idempotent by a key of the appointment;
  those to the CRM carry none. `qualify` writes title, service interest and qualification without
  raising the version (`crm_service/service.py:278-280`): a PATCH with the version that staff have
  seen overwrites them (`OneOpenLead` has `silent`). `change_stage` without a version compares nothing. Overlapping
  handlers reopen WON and LOST (`ClosedByStaff` has `overtaken`), and a capture that overlaps an
  erasure leaves personal data (`ErasedStaysEmpty` has `stale`). A capture whose phone is one
  contact's and whose e-mail is another's fails on the unique index, each time.
- Audit: "must be audited or must not happen" (`platform_core/audit.py`) does not hold of handlers
  that commit before they record. The removal of the last rows of a chain is not detected.
- Staff: a session keeps the roles of its login, and works on after its user is disabled until
  it ends; overlapping set_roles leave the union; a request that overlaps a
  logout puts the session back; two administrators can demote each other (`outdated`, `mixed`,
  `revived`).
- Widget: the limiter reads its clock before it calls its script (`ratelimit.py:50-52`). A script that
  runs with a later clock drops what an earlier one would have counted, and a window can then hold
  more than its limit: `WidgetHeld` fails without `belated`.
- Tokens: one that expires between its decoding and `first_use` can be accepted twice (`late`).
- Tenancy: the trigger that guards confirmation compares with `NOT LIKE`, which is NULL and does not
  raise for a session without an actor; the row-level policies alone protect the row then.

## What is not modelled

- Cryptography, hashing, parsing, templates and rendering: abstracted to what they cover.
- Language-model calls, embeddings, detection rules and risk scores: data whose outcome the
  models leave open; what they may cause is an action of a model.
- Tenants, in the other modules: `Tenancy` shows them apart, and every other model is of one.
- The web console and the gateway's pages: they call what is modelled and keep no state.
- FATMA's tools that only read or summarize, and the review of findings (assign, false positive,
  accept): one row and one write each, of the pattern `Incidents` has in `MoveRead`/`MoveCommit`.
- Contacts' notes, tasks and companies in `crm`: inserts and updates that no other row depends on.
- `IdempotencyStore` (`platform_core/security/idempotency.py`): nothing in `src/` calls it.
- Normalizers of events and the signatures of webhooks: pure functions of their input.
- `ensure_capacity` counts without a lock: with one job in the instance it is never exceeded, so
  nothing is claimed of it (an observation above). The widget's limit per address.
- Deployment, seeds and the scripts: configuration.
- Crashes of PostgreSQL, Redis and Temporal themselves: they keep what they acknowledged.
- The clocks of replicas, which may differ, and a collision of the limiter's member, the time in
  milliseconds and a number that each process counts by itself (`ratelimit.py:47-55`): two replicas
  can count two messages as one.

## Plan

Done: the modules of the table above. Each component of the system that changes state has a module,
with the exceptions of the section before.

Every safety property of the passing runs is a theorem; liveness is not (see "Only model-checked").

Of the models, what would add most: the hand-over of scan results and sample verdicts to `Incidents`
(composed, as `Reminders` composes bookings and the queue), FATMA's reviews of findings, and
`IdempotencyStore` once it has a caller.
