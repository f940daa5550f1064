------------------------------- MODULE Access -------------------------------
(***************************************************************************)
(* Who may do what on whose behalf: roles, services that call each other,  *)
(* and the tools of the two agents.                                        *)
(*                                                                         *)
(* A behaviour is a chain of calls.  Each service passes on the principal  *)
(* it was given or acts as itself, to any service that accepts it.  One    *)
(* service of the SAMIIR side may have fallen: it claims any principal.    *)
(* Everything happens in one tenant.                                       *)
(***************************************************************************)
EXTENDS Naturals, FiniteSets

CONSTANT RoleSets   \* the roles that a principal may have together

VARIABLES
    fallen,     \* a compromised service, or "none"
    context     \* RequestContext of the last call of the chain

accessVars == <<fallen, context>>

Role == {"anonymous_customer", "authenticated_customer", "sales_agent", "support_agent",
         "security_analyst", "security_engineer", "tenant_admin", "platform_admin",
         "system_service"}

CUSTOMER_ROLES == {"anonymous_customer", "authenticated_customer"}

ASSUME AccessAssumption == RoleSets \subseteq SUBSET Role

SECURITY_SIDE == {"security_analyst", "security_engineer", "tenant_admin", "platform_admin"}

-----------------------------------------------------------------------------
(* rbac.py *)

CustomerSet == {"samiir:chat", "contact:submit", "appointment:request"}

CrmReadSet == {"crm:read", "conversation:read", "appointment:read", "knowledge:read",
               "channel:read"}

SecReadSet == {"security:event:read", "incident:read", "asset:read", "finding:read",
               "scan:read", "malware:read", "defense:read", "approval:read"}

AnalystSet == SecReadSet \cup {"incident:triage", "malware:submit", "fatma:ask"}

RolePermissions == [
    anonymous_customer |-> CustomerSet,
    authenticated_customer |->
        CustomerSet \cup {"appointment:own:manage", "customer:own:read"},
    sales_agent |->
        CrmReadSet \cup {"crm:write", "appointment:manage", "conversation:manage"},
    support_agent |-> CrmReadSet \cup {"conversation:manage", "appointment:manage"},
    security_analyst |-> AnalystSet,
    security_engineer |->
        AnalystSet \cup {"incident:confirm", "asset:manage", "finding:review", "scan:request",
                         "scan:approve", "defense:request", "defense:approve",
                         "defense:execute"},
    tenant_admin |->
        CrmReadSet \cup {"knowledge:write", "knowledge:approve", "tenant:user:manage",
                         "tenant:integration:manage", "tenant:settings:manage", "audit:read",
                         "agent:config:manage", "approval:policy:manage", "approval:read",
                         "defense:approve", "asset:read", "asset:manage"},
    platform_admin |-> {"platform:operate", "platform:tenant:manage", "audit:read"},
    system_service |-> {"internal:execute"}]

MFA_REQUIRED == {"incident:confirm", "asset:manage", "scan:request", "scan:approve",
                 "defense:request", "defense:approve", "defense:execute", "tenant:user:manage",
                 "tenant:integration:manage", "tenant:settings:manage", "agent:config:manage",
                 "approval:policy:manage", "knowledge:approve", "platform:operate",
                 "platform:tenant:manage"}

permissions_for(roles) == UNION {RolePermissions[r] : r \in roles}

-----------------------------------------------------------------------------
(* service_acl.py *)

SAMIIR_SIDE == {"api-gateway-public", "samiir-agent", "crm", "scheduling", "knowledge", "whatsapp"}

FATMA_SIDE == {"fatma-soc", "security-ingest", "scanner-controller", "approvals"}

ALL_SERVICES == SAMIIR_SIDE \cup FATMA_SIDE \cup {"api-gateway-admin", "notifications", "audit"}

AcceptedCallers(receiver) ==
    CASE receiver = "samiir-agent" -> {"api-gateway-public", "api-gateway-admin", "whatsapp"}
      [] receiver = "crm" -> {"samiir-agent", "api-gateway-admin", "scheduling", "notifications"}
      [] receiver \in {"scheduling", "knowledge"} -> {"samiir-agent", "api-gateway-admin"}
      [] receiver = "notifications" ->
            {"samiir-agent", "scheduling", "fatma-soc", "api-gateway-admin", "whatsapp"}
      [] receiver = "whatsapp" ->
            {"api-gateway-public", "notifications", "api-gateway-admin", "samiir-agent"}
      [] receiver = "fatma-soc" -> {"api-gateway-admin", "security-ingest", "scanner-controller"}
      [] receiver = "security-ingest" ->
            {"api-gateway-public", "api-gateway-admin", "scanner-controller"}
      [] receiver = "scanner-controller" -> {"api-gateway-admin", "fatma-soc"}
      [] receiver = "approvals" -> {"api-gateway-admin", "fatma-soc", "scanner-controller"}
      [] receiver = "audit" -> ALL_SERVICES \ {"audit"}
      [] OTHER -> {}

\* The routes of a service that change things, by the callers they are narrowed to: "service" is
\* narrowed no further than the table above, or to callers that are on the same side.
Routes(receiver) ==
    CASE receiver = "security-ingest" -> {"ingest", "staff"}
      [] receiver = "fatma-soc" -> {"candidates", "staff"}
      [] receiver = "approvals" -> {"request", "staff"}
      [] receiver \in {"crm", "knowledge", "samiir-agent", "scheduling", "notifications",
                       "whatsapp"} -> {"service", "staff"}
      [] receiver = "scanner-controller" -> {"staff"}
      [] OTHER -> {"service"}

\* Mutant of internal_caller: a route takes every caller its service accepts.
internal_callerAny(receiver, route) == AcceptedCallers(receiver)

internal_caller(receiver, route) ==
    AcceptedCallers(receiver) \cap
        CASE route = "staff" -> {"api-gateway-admin"}
          [] route = "ingest" -> {"api-gateway-public"}
          [] route = "candidates" -> {"security-ingest", "scanner-controller"}
          [] route = "request" -> {"fatma-soc", "scanner-controller"}
          [] route = "service" -> ALL_SERVICES

AllCustomer == RolePermissions.anonymous_customer \cup RolePermissions.authenticated_customer

ceiling_for(caller) ==
    CASE caller = "api-gateway-public" -> AllCustomer
      [] caller \in {"whatsapp", "samiir-agent", "scheduling"} ->
            AllCustomer \cup {"internal:execute"}
      [] caller = "api-gateway-admin" -> permissions_for(Role) \ {"internal:execute"}
      [] caller \in {"notifications", "fatma-soc", "security-ingest", "scanner-controller",
                     "approvals", "crm"} -> {"internal:execute"}
      [] OTHER -> {}

-----------------------------------------------------------------------------
(* policy.py *)

SamiirTools == [
    knowledge_search |-> {"samiir:chat"}, pricing_lookup |-> {"samiir:chat"},
    crm_capture_contact |-> {"contact:submit"}, crm_qualify_lead |-> {"contact:submit"},
    check_availability |-> {"appointment:request"},
    book_appointment |-> {"appointment:request"},
    reschedule_appointment |-> {"appointment:request"},
    cancel_appointment |-> {"appointment:request"},
    escalate_to_human |-> {"samiir:chat"}]

FatmaTools == [
    query_events |-> {"security:event:read", "internal:execute"},
    incidents_get |-> {"incident:read", "internal:execute"},
    list_open |-> {"incident:read", "internal:execute"},
    findings_list |-> {"finding:read", "internal:execute"},
    assets_get |-> {"asset:read", "internal:execute"},
    add_note |-> {"incident:triage", "internal:execute"},
    recommend_action |-> {"incident:triage", "internal:execute"},
    notify_security_team |-> {"incident:triage", "internal:execute"}]

effective_permissions(c) == permissions_for(c.roles) \cap ceiling_for(c.caller)

is_customer(c) == c.roles \cap CUSTOMER_ROLES # {}

\* Permissions that require grants in a context.
Allowed(c) ==
    {p \in effective_permissions(c) : p \in MFA_REQUIRED /\ c.actor = "user" => c.mfa}

\* authorize_tool, in the service that a call has reached.
AuthorizedTools(c) ==
    CASE c.receiver = "samiir-agent" ->
            {t \in DOMAIN SamiirTools : SamiirTools[t] \cap effective_permissions(c) # {}}
      [] c.receiver = "fatma-soc" /\ ~is_customer(c) ->
            {t \in DOMAIN FatmaTools : FatmaTools[t] \cap effective_permissions(c) # {}}
      [] OTHER -> {}

-----------------------------------------------------------------------------
(* Chains of calls *)

Principals == [actor : {"customer", "user", "agent", "service"}, mfa : BOOLEAN, roles : RoleSets]

System == [actor |-> "service", mfa |-> TRUE, roles |-> {"system_service"}]

\* from: what the chain started from.
Context(from, caller, receiver, route, p) ==
    [from |-> from, caller |-> caller, receiver |-> receiver, route |-> route,
     actor |-> p.actor, mfa |-> p.mfa, roles |-> p.roles]

NoContext == [receiver |-> "none"]

AccessInit ==
    /\ fallen \in SAMIIR_SIDE \cup {"none"}
    /\ context = NoContext

\* verify: a call arrives on a route of a service.
Arrive(from, caller, p) ==
    \E receiver \in ALL_SERVICES : \E route \in Routes(receiver) :
        /\ caller \in internal_caller(receiver, route)
        /\ context' = Context(from, caller, receiver, route, p)
        /\ UNCHANGED fallen

\* The public gateway: a visitor's widget session, or the edge for webhooks.
PublicRequest ==
    /\ context = NoContext
    /\ \E p \in {[actor |-> "customer", mfa |-> FALSE, roles |-> {"anonymous_customer"}],
                 [System EXCEPT !.mfa = FALSE]} :
         Arrive("public", "api-gateway-public", p)

\* proxy: who has no role of the security side stays on the other one.
StaffRequest ==
    /\ context = NoContext
    /\ \E p \in Principals :
         /\ p.actor = "user" /\ p.roles \cap (CUSTOMER_ROLES \cup {"system_service"}) = {}
         /\ Arrive("staff", "api-gateway-admin", p)
         /\ p.roles \cap SECURITY_SIDE = {} => context'.receiver \notin FATMA_SIDE \cup {"audit"}

\* The service that a call has reached calls another one.
CallOn ==
    /\ context # NoContext
    /\ \E p \in {System, [actor |-> context.actor, mfa |-> context.mfa, roles |-> context.roles]} :
         Arrive(context.from, context.receiver, p)

\* A fallen service signs with its own key whatever it likes, whatever it was called with.
Forge ==
    /\ context = NoContext /\ fallen # "none"
    /\ \E p \in Principals : Arrive("fallen", fallen, p)

AccessNext == PublicRequest \/ StaffRequest \/ CallOn \/ Forge

AccessSpec == AccessInit /\ [][AccessNext]_accessVars

-----------------------------------------------------------------------------
(* Properties *)

\* Visitors, and a SAMIIR-side service that has fallen, exercise no permission of staff anywhere,
\* get at the FATMA side only as events and through services of that side, never on a route for
\* staff, and FATMA's tools run for none of them but for a service that brings events or findings.
SidesApart ==
    context # NoContext /\ context.from # "staff" =>
        /\ Allowed(context) \subseteq AllCustomer \cup {"internal:execute"}
        /\ context.route # "staff"
        /\ context.receiver \in FATMA_SIDE =>
             \/ context.caller \in FATMA_SIDE
             \/ context.caller = "api-gateway-public" /\ context.route = "ingest"
        /\ AuthorizedTools(context) \cap DOMAIN FatmaTools # {} =>
             /\ context.caller \in {"security-ingest", "scanner-controller"}
             /\ ~is_customer(context)
=============================================================================
