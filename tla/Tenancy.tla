------------------------------- MODULE Tenancy -------------------------------
(***************************************************************************)
(* What a service can reach in the shared database, whatever statements it *)
(* runs: the transactions of platform_core's Database on the connections   *)
(* of its pool, and the privileges, row-level policies, lookup functions   *)
(* and triggers that the migrations install.                               *)
(*                                                                         *)
(* Which statements a handler runs is left open: any, on any rows, as of a *)
(* handler that has forgotten its WHERE clause.                            *)
(***************************************************************************)
EXTENDS Naturals, FiniteSets

CONSTANTS
    Tenants,
    Services,       \* those that are looked at
    Tables,         \* and the tables
    Conns,          \* connections of the pool
    Null,           \* SQL NULL: of a setting, that the connection has never had it
    MaxWrites       \* bound: rows changed by one transaction

VARIABLES
    service,    \* whose pool it is
    present,    \* rows, as committed
    changed,    \* and those that were changed: an incident, that was confirmed
    conn        \* connections

tenancyVars == <<service, present, changed, conn>>

-----------------------------------------------------------------------------
(* Privileges *)

Privileges == [r   |-> {"SELECT"},
               ri  |-> {"SELECT", "INSERT"},
               ru  |-> {"SELECT", "UPDATE"},
               rw  |-> {"SELECT", "INSERT", "UPDATE"},
               rwd |-> {"SELECT", "INSERT", "UPDATE", "DELETE"}]

Nothing == [p \in DOMAIN Privileges |-> {}]

GRANTS == [
    svc_gateway_admin |->
        [Nothing EXCEPT !.r = {"roles", "permissions", "role_permissions"}, !.ru = {"tenants"},
                        !.rw = {"users", "integrations", "widget_sites"}, !.rwd = {"user_roles"}],
    svc_samiir |->
        [Nothing EXCEPT !.r = {"tenants"}, !.ri = {"tool_calls"},
                        !.rw = {"conversations", "messages", "agent_runs"}],
    svc_crm |->
        [Nothing EXCEPT !.r = {"tenants", "users", "conversations"}, !.ri = {"crm_activities"},
                        !.rw = {"companies", "contacts", "opportunities", "crm_notes", "crm_tasks"}],
    svc_scheduling |->
        [Nothing EXCEPT !.r = {"tenants", "integrations"}, !.rw = {"appointment_types", "appointments"}],
    svc_knowledge |->
        [Nothing EXCEPT !.r = {"tenants"}, !.rw = {"knowledge_documents"}, !.rwd = {"knowledge_chunks"}],
    svc_notifications |->
        [Nothing EXCEPT !.r = {"tenants", "users", "user_roles", "roles"}, !.rw = {"notifications"}],
    svc_whatsapp |-> [Nothing EXCEPT !.r = {"tenants", "integrations"}],
    svc_fatma |->
        [Nothing EXCEPT !.r = {"tenants", "users", "assets", "scan_jobs", "malware_results", "integrations"},
                        !.ri = {"incident_events", "tool_calls"}, !.ru = {"security_events", "findings"},
                        !.rw = {"incidents", "waf_actions", "agent_runs"}],
    svc_security_ingest |->
        [Nothing EXCEPT !.r = {"tenants", "assets", "integrations"}, !.ri = {"security_events"},
                        !.rw = {"malware_results", "findings"}],
    svc_scanner_controller |->
        [Nothing EXCEPT !.r = {"tenants"}, !.rw = {"assets", "asset_verifications", "scan_jobs", "findings"}],
    svc_approvals |-> [Nothing EXCEPT !.r = {"tenants"}, !.rw = {"approval_requests"}],
    svc_audit |-> [Nothing EXCEPT !.r = {"tenants"}, !.ri = {"audit_logs"}]]

Granted(role, verb, table) ==
    \E p \in DOMAIN Privileges : verb \in Privileges[p] /\ table \in GRANTS[role][p]

\* What the functions' owner, app_lookup, may do.
LOOKUP_TABLE_ACCESS ==
    [Nothing EXCEPT !.r = {"widget_sites", "tenants", "integrations", "users", "user_roles",
                           "roles", "waf_actions"},
                    !.ru = {"notifications", "approval_requests"}]

\* Each lookup function: the tables it reads, or updates, and the services that may call it.
Lookups == {
    [reads |-> {"widget_sites", "tenants"}, updates |-> {}, by |-> {"svc_samiir"}],
    [reads |-> {"integrations", "tenants"}, updates |-> {}, by |-> {"svc_whatsapp", "svc_security_ingest"}],
    [reads |-> {"users", "tenants", "user_roles", "roles"}, updates |-> {}, by |-> {"svc_gateway_admin"}],
    [reads |-> {}, updates |-> {"notifications"}, by |-> {"svc_notifications"}],
    [reads |-> {}, updates |-> {"approval_requests"}, by |-> {"svc_approvals"}],
    [reads |-> {"waf_actions"}, updates |-> {}, by |-> {"svc_fatma"}],
    [reads |-> {"tenants"}, updates |-> {},
     by |-> {"svc_fatma", "svc_scanner_controller", "svc_audit", "svc_notifications"}]}

-----------------------------------------------------------------------------
(* Rows and connections *)

AgentTables == {"agent_runs", "tool_calls"}

AgentOf == [r \in {"svc_samiir", "svc_fatma"} |-> IF r = "svc_samiir" THEN "SAMIIR" ELSE "FATMA"]

\* A row of each kind: of a tenant, and in the agents' tables of an agent.
Rows == {r \in [table : Tables, tenant : Tenants, agent : {"SAMIIR", "FATMA", "none"}] :
            (r.table \in AgentTables) = (r.agent # "none")}

Actors == {"user", "agent", ""}

ASSUME TenancyAssumption ==
    /\ Services \subseteq DOMAIN GRANTS
    /\ Tenants \cap {Null, ""} = {} /\ Null \notin Actors

\* tenant and actor: the settings app.tenant_id and app.actor.  kind, for and as: of the
\* transaction, the tenant it was opened for, and its actor.  writes: its changes.
NoConn == [kind |-> "none", tenant |-> Null, actor |-> Null, for |-> Null, as |-> Null,
           seen |-> {}, writes |-> {}]

TenancyInit ==
    /\ service \in Services
    /\ present \in {{}, Rows}
    /\ changed = {}
    /\ conn = [c \in Conns |-> NoConn]

\* Mutant of Left: the settings outlive their transaction.
LeftForSession(set) == set

\* What is left of a setting that was set by set_config(..., true), after the transaction: it is
\* empty, and no more NULL.
Left(set) == IF set = Null THEN Null ELSE ""

\* tenant_session: settings first.
TenantSession(c, t, actor) ==
    /\ conn[c].kind = "none"
    /\ conn' = [conn EXCEPT ![c] = [@ EXCEPT !.kind = "tenant", !.tenant = t, !.actor = actor,
                                             !.for = t, !.as = actor]]
    /\ UNCHANGED <<service, present, changed>>

\* system_session: whatever settings the connection has.
SystemSession(c) ==
    /\ conn[c].kind = "none"
    /\ conn' = [conn EXCEPT ![c].kind = "system"]
    /\ UNCHANGED <<service, present, changed>>

\* The connection goes back to the pool.
Released(k) ==
    [NoConn EXCEPT !.tenant = Left(k.tenant), !.actor = Left(k.actor)]

\* A row as it is committed, and as the transaction sees it, with its own changes.
Committed(r) == IF r \in changed THEN "changed" ELSE IF r \in present THEN "new" ELSE "absent"

Now(c, r) ==
    IF \E w \in conn[c].writes : w.row = r
    THEN (CHOOSE w \in conn[c].writes : w.row = r).to
    ELSE Committed(r)

CommitSession(c) ==
    /\ conn[c].kind # "none"
    /\ present' = {r \in Rows : Now(c, r) # "absent"}
    /\ changed' = {r \in Rows : Now(c, r) = "changed"}
    /\ conn' = [conn EXCEPT ![c] = Released(@)]
    /\ UNCHANGED service

\* An exception: of the handler's, or a statement's that is refused.
RollbackSession(c) ==
    /\ conn[c].kind # "none"
    /\ conn' = [conn EXCEPT ![c] = Released(@)]
    /\ UNCHANGED <<service, present, changed>>

\* The connection breaks, or is recycled: the pool makes a new one.
Reconnect(c) ==
    /\ conn[c] # NoConn
    /\ conn' = [conn EXCEPT ![c] = NoConn]
    /\ UNCHANGED <<service, present, changed>>

-----------------------------------------------------------------------------
(* Statements *)

\* app_current_tenant: nullif(current_setting('app.tenant_id', true), '').
CurrentTenant(c) == IF conn[c].tenant = "" THEN Null ELSE conn[c].tenant

\* The policies: tenant_isolation, and restrictive agent_scope.
Policies(c, r) ==
    /\ r.tenant = CurrentTenant(c)
    /\ r.table \in AgentTables /\ service \in DOMAIN AgentOf => r.agent = AgentOf[service]

\* Rows of another transaction's changes are locked.
Locked(c, r) == \E d \in Conns \ {c} : \E w \in conn[d].writes : w.row = r

Select(c, table) ==
    /\ conn[c].kind # "none"
    /\ Granted(service, "SELECT", table)
    /\ conn' = [conn EXCEPT ![c].seen = {r \in Rows : r.table = table /\ Policies(c, r)
                                                      /\ Now(c, r) # "absent"}]
    /\ UNCHANGED <<service, present, changed>>

Writes(c, rows, to) ==
    /\ \A r \in rows : ~Locked(c, r)
    /\ Cardinality({w.row : w \in conn[c].writes} \cup rows) <= MaxWrites
    /\ conn' = [conn EXCEPT ![c].writes =
                    {w \in @ : w.row \notin rows} \cup {[row |-> r, to |-> to] : r \in rows}]
    /\ UNCHANGED <<service, present, changed>>

\* A trigger refuses to insert an incident that is confirmed: it is new.
InsertRow(c, r) ==
    /\ conn[c].kind # "none"
    /\ Granted(service, "INSERT", r.table)
    /\ Policies(c, r)
    /\ Now(c, r) = "absent"
    /\ Writes(c, {r}, "new")

\* The triggers on updates: app_audit_immutable, and app_incident_claim_guard, whose comparison
\* with a NULL actor is not true and does not raise.
Triggers(c, r) ==
    /\ r.table # "audit_logs"
    /\ r.table = "incidents" => conn[c].actor \in {"user", Null}

UpdateRow(c, r) ==
    /\ conn[c].kind # "none"
    /\ Granted(service, "UPDATE", r.table)
    /\ Policies(c, r)
    /\ Now(c, r) # "absent"
    /\ Triggers(c, r)
    /\ Writes(c, {r}, "changed")

DeleteRow(c, r) ==
    /\ conn[c].kind # "none"
    /\ Granted(service, "DELETE", r.table)
    /\ Policies(c, r)
    /\ Now(c, r) # "absent"
    /\ r.table # "audit_logs"
    /\ Writes(c, {r}, "absent")

\* A lookup function, as app_lookup, whom the policy lookup_all shows all rows of its tables.
Lookup(c, f) ==
    LET there(tables) == {r \in Rows : r.table \in tables /\ Now(c, r) # "absent"}
        mine == LOOKUP_TABLE_ACCESS
    IN  /\ conn[c].kind = "system"
        /\ service \in f.by
        /\ f.reads \subseteq mine.r \cup mine.ru /\ f.updates \subseteq mine.ru
        /\ \/ /\ f.updates = {}
              /\ conn' = [conn EXCEPT ![c].seen = there(f.reads)]
              /\ UNCHANGED <<service, present, changed>>
           \/ /\ f.updates # {}
              /\ \E rows \in SUBSET there(f.updates) : Writes(c, rows, "changed")

Statement(c) ==
    \/ \E table \in Tables : Select(c, table)
    \/ \E r \in Rows : InsertRow(c, r) \/ UpdateRow(c, r) \/ DeleteRow(c, r)
    \/ \E f \in Lookups : Lookup(c, f)

TenancyNext ==
    \E c \in Conns :
        \/ \E t \in Tenants, actor \in Actors : TenantSession(c, t, actor)
        \/ SystemSession(c) \/ Statement(c)
        \/ CommitSession(c) \/ RollbackSession(c) \/ Reconnect(c)

TenancySpec == TenancyInit /\ [][TenancyNext]_tenancyVars

-----------------------------------------------------------------------------
(* Properties *)

TenancyTypeOK ==
    /\ service \in Services
    /\ changed \subseteq present /\ present \subseteq Rows
    /\ \A c \in Conns : /\ conn[c].kind \in {"none", "tenant", "system"}
                        /\ conn[c].tenant \in Tenants \cup {"", Null}
                        /\ conn[c].for \in Tenants \cup {Null}
                        /\ conn[c].seen \subseteq Rows

Reached(c) == conn[c].seen \cup {w.row : w \in conn[c].writes}

\* "Forgetting a WHERE clause cannot leak cross-tenant rows": a transaction reaches rows of its
\* tenant only, and an agent its own rows only; and one without a tenant reaches what a lookup
\* function of its service shows, and none of the tenants' business.
ReachesOwn ==
    /\ TenancyTypeOK
    /\ \A c \in Conns : \A r \in Reached(c) :
         CASE conn[c].kind = "tenant" ->
                /\ r.tenant = conn[c].for
                /\ r.agent # "none" => r.agent = AgentOf[service]
           [] conn[c].kind = "system" ->
                \E f \in Lookups : service \in f.by /\ r.table \in f.reads \cup f.updates
           [] OTHER -> FALSE

\* And "only a human security engineer may confirm an incident", in a transaction of the incident's
\* tenant; and "audit_logs is append-only".
TenantsApart ==
    [][/\ ReachesOwn'
       /\ \A r \in Rows :
            /\ r.table = "incidents" /\ r \in changed' \ changed =>
                 \E c \in Conns : conn[c].for = r.tenant /\ conn[c].as = "user"
            /\ r.table = "audit_logs" /\ r \in present => r \in present' \ changed']_tenancyVars
=============================================================================
