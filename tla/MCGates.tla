----------------------------- MODULE MCGates -----------------------------
(***************************************************************************)
(* Instances of components that share no state with each other: each       *)
(* behaviour is one of a single part, chosen in the initial state, in      *)
(* which the others stay as they are.  The states of the parts add up.     *)
(*                                                                         *)
(* Who is let in: staff with their sessions, the chain of services and its *)
(* tokens, visitors of the widget, assets that may be scanned, and what a  *)
(* service reaches in the database.                                        *)
(***************************************************************************)
EXTENDS Staff, Access, Tokens, Widget, Assets, Tenancy, TLC

CONSTANTS v1, v2, t1, t2, p1, p2

VARIABLE part

\* One role, those of the security side, or all.
MCRoleSets == {{r} : r \in Role} \cup {SECURITY_SIDE, Role}

Parts == {"staff", "access", "tokens", "widget", "assets", "tenancy"}

\* What the parts but p are made of stays as it is.
Others(p) ==
    /\ UNCHANGED part
    /\ IF p = "staff" THEN TRUE ELSE UNCHANGED staffVars
    /\ IF p = "access" THEN TRUE ELSE UNCHANGED accessVars
    /\ IF p = "tokens" THEN TRUE ELSE UNCHANGED tokenVars
    /\ IF p = "widget" THEN TRUE ELSE UNCHANGED widgetVars
    /\ IF p = "assets" THEN TRUE ELSE UNCHANGED assetVars
    /\ IF p = "tenancy" THEN TRUE ELSE UNCHANGED tenancyVars

GatesInit ==
    /\ part \in Parts
    /\ StaffInit /\ AccessInit /\ TokensInit
    /\ WidgetInit /\ AssetsInit /\ TenancyInit
    /\ part = "access" \/ fallen = "none"
    /\ part = "staff" \/ \A u \in Persons : account[u].status = "active"
    /\ part = "tenancy" \/ (service = "svc_audit" /\ present = {})

GatesNext ==
    \/ part = "staff" /\ StaffNext /\ Others("staff")
    \/ part = "access" /\ AccessNext /\ Others("access")
    \/ part = "tokens" /\ TokensNext /\ Others("tokens")
    \/ part = "widget" /\ WidgetNext /\ Others("widget")
    \/ part = "assets" /\ AssetsNext /\ Others("assets")
    \/ part = "tenancy" /\ TenancyNext /\ Others("tenancy")

GatesSpec ==
    GatesInit /\ [][GatesNext]_<<part, staffVars, accessVars, tokenVars, widgetVars, assetVars,
                                  tenancyVars>>

\* Bounds of Staff: sessions meet each other and changes of accounts while no time passes and no
\* session is logged out, and one by one after roles were set by two at once; or one session, of
\* one administrator who stays, is used as time passes.
StaffBound ==
    \/ /\ time = 0 /\ left = {} /\ ~outdated
       /\ mixed = {} \/ \E c \in Calls : call[c].pc = "idle"
    \/ /\ \E i \in Sids : \A j \in Sids \ {i} : session[j] = NoSession /\ login[j] = NoSession
       /\ Cardinality(left) <= 1
       /\ mixed = {} /\ ~outdated
       /\ \A u \in Persons : /\ account[u].roles = given[u] /\ given[u] \subseteq {TenantAdmin}
                             /\ account[u].status # "disabled"
       /\ \A c \in Calls : call[c].pc # "setting"

\* Bounds of Widget: one visitor repeats texts; or messages of a session overlap and are handed on
\* at one moment, or pass the limits, with clocks read at any; or two visitors send one text in turn.
WidgetBound ==
    /\ Len(admitted["tenant"]) <= 4
    /\ \/ ~visit[v2].open /\ post[p2] = IdlePost /\ moment <= 2
       \/ /\ ~visit[v2].open /\ (moment = 0 \/ visit[v1].last_text = NoText)
          /\ \A p \in Posts : post[p] # IdlePost => post[p].text = t1
       \/ /\ post[p2] = IdlePost /\ moment <= 2
          /\ \A p \in Posts : post[p] # IdlePost => post[p].text = t1
          /\ \A v \in Visits : visit[v].last_text # t2

\* Bound of Tokens: presented three times.
TokensBound == \A j \in Jtis : uses[j] <= 2

\* Bound of Assets: while one administrator changes the authorization, or waits for the domain,
\* another does not change anything, or ask.
AssetsBound ==
    \A a \in Admins : \A b \in Admins \ {a} :
        /\ admin[a].pc = "read" /\ admin[a].new.authorized_until # admin[a].seen.authorized_until
             => admin[b].pc = "idle"
        /\ admin[a].pc = "asking" => admin[b].pc \notin {"asking", "found"}

\* Bound of Tenancy: one transaction at a time has reached something.
TenancyBound == \A c \in Conns : \A d \in Conns \ {c} : Reached(c) # {} => Reached(d) = {}

Bound == StaffBound /\ WidgetBound /\ TokensBound /\ AssetsBound /\ TenancyBound

\* Sets of different parts share model values, so that few permutations serve all parts.
Symmetry == Permutations(Persons) \cup Permutations(Sids) \cup Permutations(Calls)
=============================================================================
