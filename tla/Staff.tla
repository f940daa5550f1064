-------------------------------- MODULE Staff --------------------------------
(***************************************************************************)
(* Staff accounts of a tenant and their sessions at the admin gateway.     *)
(*                                                                         *)
(* A session holds the roles its user had at login.  A request reads it,   *)
(* writes it back with a new time, and acts on what it has read; requests  *)
(* of all users overlap.  Every session has passed multi-factor login.     *)
(***************************************************************************)
EXTENDS Naturals, FiniteSets

CONSTANTS
    Persons,        \* who has or may get an account
    TenantAdmin, Roles,     \* the role that manages users; all roles that can be assigned
    Sids,           \* session ids
    Calls,          \* requests served at once
    IdleTime, AbsoluteTime, \* admin_session_idle_seconds, admin_session_absolute_seconds
    Nobody,
    MaxTime         \* bound on the clock

ASSUME StaffAssumption ==
    /\ TenantAdmin \in Roles /\ Nobody \notin Persons \cup Sids
    /\ IdleTime \in Nat /\ AbsoluteTime \in Nat /\ MaxTime \in Nat

VARIABLES
    account,    \* users and user_roles
    login,      \* logins between their lookup and the creation of the session, by sid
    session,    \* the session store
    call,       \* requests
    time,
    born,       \* history: when a session was created
    left,       \* history: sessions that were logged out
    revived,    \* history: sessions that a request wrote back after that
    given,      \* history: the roles that the last request to set them gave a user
    mixed,      \* history: users whose roles were set by overlapping requests
    outdated    \* history: accounts were changed by someone who was no administrator any more

staffVars == <<account, login, session, call, time, born, left, revived, given, mixed, outdated>>

Account == [status : {"absent", "active", "disabled"}, roles : SUBSET Roles]

Session == [user : Persons \cup {Nobody}, roles : SUBSET Roles, created : 0..MaxTime,
            seen : 0..MaxTime]

NoSession == [user |-> Nobody, roles |-> {}, created |-> 0, seen |-> 0]

\* data: the session as read.  whom, new: the account to change and its new roles.
\* doomed: the roles that the open transaction has deleted.
Call == [pc : {"idle", "loading", "admitted", "setting"}, sid : Sids \cup {Nobody},
         data : Session, whom : Persons \cup {Nobody}, new : SUBSET Roles, doomed : SUBSET Roles]

NoCall == [pc |-> "idle", sid |-> Nobody, data |-> NoSession, whom |-> Nobody, new |-> {},
           doomed |-> {}]

StaffTypeOK ==
    /\ account \in [Persons -> Account]
    /\ login \in [Sids -> Session] /\ session \in [Sids -> Session]
    /\ call \in [Calls -> Call]
    /\ time \in 0..MaxTime
    /\ born \in [Sids -> 0..MaxTime]
    /\ left \subseteq Sids /\ revived \subseteq Sids
    /\ given \in [Persons -> SUBSET Roles] /\ mixed \subseteq Persons
    /\ outdated \in BOOLEAN

Administers(a) == a.status = "active" /\ TenantAdmin \in a.roles

\* Some accounts exist, one of an administrator (seed) at least.
StaffInit ==
    /\ account \in {f \in [Persons -> {[status |-> "absent", roles |-> {}],
                                       [status |-> "active", roles |-> {TenantAdmin}]}] :
                      \E u \in Persons : Administers(f[u])}
    /\ login = [i \in Sids |-> NoSession] /\ session = [i \in Sids |-> NoSession]
    /\ call = [c \in Calls |-> NoCall]
    /\ time = 0
    /\ born = [i \in Sids |-> 0] /\ left = {} /\ revived = {}
    /\ given = [u \in Persons |-> account[u].roles] /\ mixed = {}
    /\ outdated = FALSE

StaffTick ==
    /\ time < MaxTime
    /\ time' = time + 1
    /\ UNCHANGED <<account, login, session, call, born, left, revived, given, mixed, outdated>>

-----------------------------------------------------------------------------
(* Logging in and out *)

Unused(i) == login[i] = NoSession /\ session[i] = NoSession /\ i \notin left /\ born[i] = 0
               /\ \A c \in Calls : call[c].sid # i

\* callback or dev_login, as far as _login_lookup.
LoginLookup(i, u) ==
    /\ Unused(i) /\ account[u].status = "active"
    /\ login' = [login EXCEPT ![i] = [NoSession EXCEPT !.user = u, !.roles = account[u].roles]]
    /\ UNCHANGED <<account, session, call, time, born, left, revived, given, mixed, outdated>>

\* _create_session
CreateSession(i) ==
    /\ login[i] # NoSession
    /\ session' = [session EXCEPT ![i] = [login[i] EXCEPT !.created = time, !.seen = time]]
    /\ login' = [login EXCEPT ![i] = NoSession]
    /\ born' = [born EXCEPT ![i] = time]
    /\ UNCHANGED <<account, call, time, left, revived, given, mixed, outdated>>

Deleted(i) == [session EXCEPT ![i] = NoSession]

Logout(i) ==
    /\ session[i] # NoSession
    /\ session' = Deleted(i)
    /\ left' = left \cup {i}
    /\ UNCHANGED <<account, login, call, time, born, revived, given, mixed, outdated>>

-----------------------------------------------------------------------------
(* _load_session *)

Over(data) == time - data.created > AbsoluteTime \/ time - data.seen > IdleTime

\* Mutant of Touched: a session that is used starts again.
TouchedAnew(data) == [data EXCEPT !.seen = time, !.created = time]

Touched(data) == [data EXCEPT !.seen = time]

LoadSession(c, i) ==
    /\ call[c].pc = "idle" /\ session[i] # NoSession
    /\ IF Over(session[i])
       THEN session' = [session EXCEPT ![i] = NoSession] /\ UNCHANGED call
       ELSE /\ call' = [call EXCEPT ![c] = [NoCall EXCEPT !.pc = "loading", !.sid = i,
                                                          !.data = Touched(session[i])]]
            /\ UNCHANGED session
    /\ UNCHANGED <<account, login, time, born, left, revived, given, mixed, outdated>>

\* The session is written back, and the request admitted.
Admit(c) ==
    LET i == call[c].sid
    IN /\ call[c].pc = "loading"
       /\ session' = [session EXCEPT ![i] = call[c].data]
       /\ revived' = IF session[i] = NoSession THEN revived \cup {i} ELSE revived
       /\ call' = [call EXCEPT ![c] = IF @.data.roles = {} THEN NoCall
                                      ELSE [@ EXCEPT !.pc = "admitted"]]
       /\ UNCHANGED <<account, login, time, born, left, given, mixed, outdated>>

-----------------------------------------------------------------------------
(* Requests *)

\* TENANT_USER_MANAGE, judged by the session.
ManagesUsers(c) == call[c].pc = "admitted" /\ TenantAdmin \in call[c].data.roles

\* Whether the user behind a session is an administrator still.
Outdated(c) == outdated \/ ~Administers(account[call[c].data.user])

\* A request of another kind, or one that is refused.
Finish(c) ==
    /\ call[c].pc = "admitted"
    /\ call' = [call EXCEPT ![c] = NoCall]
    /\ UNCHANGED <<account, login, session, time, born, left, revived, given, mixed, outdated>>

CreateUser(c, u, roles) ==
    /\ ManagesUsers(c) /\ roles # {} /\ account[u].status = "absent"
    /\ account' = [account EXCEPT ![u] = [status |-> "active", roles |-> roles]]
    /\ given' = [given EXCEPT ![u] = roles]
    /\ outdated' = Outdated(c)
    /\ call' = [call EXCEPT ![c] = NoCall]
    /\ UNCHANGED <<login, session, time, born, left, revived, mixed>>

\* Mutant of KeepsSelf: an administrator may resign.
KeepsSelfNot(c, u, roles) == TRUE

KeepsSelf(c, u, roles) == u # call[c].data.user \/ TenantAdmin \in roles

\* set_roles: the stored roles are deleted; those another transaction has deleted are waited for.
SetRoles(c, u, roles) ==
    /\ ManagesUsers(c) /\ KeepsSelf(c, u, roles) /\ account[u].status # "absent"
    /\ call' = [call EXCEPT ![c] = [pc |-> "setting", sid |-> @.sid, data |-> @.data, whom |-> u,
                                     new |-> roles, doomed |-> account[u].roles]]
    /\ UNCHANGED <<account, login, session, time, born, left, revived, given, mixed, outdated>>

\* Roles of a user that a transaction has not deleted: given by another one since.
Kept(c, u) == account[u].roles \ call[c].doomed

\* The new roles are committed.  A role that is still there is there twice: the commit fails.
RolesCommit(c) ==
    LET u == call[c].whom
        others == {x \in Calls \ {c} : call[x].pc = "setting" /\ call[x].whom = u}
    IN /\ call[c].pc = "setting"
       /\ IF call[c].new \cap Kept(c, u) # {}
          THEN UNCHANGED <<account, given, mixed, outdated>> /\ call' = [call EXCEPT ![c] = NoCall]
          ELSE /\ account' = [account EXCEPT ![u].roles = Kept(c, u) \cup call[c].new]
               /\ given' = [given EXCEPT ![u] = call[c].new]
               /\ mixed' = IF others # {} THEN mixed \cup {u}
                            ELSE IF Kept(c, u) = {} THEN mixed \ {u} ELSE mixed
               /\ outdated' = Outdated(c)
               /\ call' = [x \in Calls |->
                             IF x = c THEN NoCall
                             ELSE IF x \in others
                             THEN [call[x] EXCEPT !.doomed = @ \ call[c].doomed]
                             ELSE call[x]]
       /\ UNCHANGED <<login, session, time, born, left, revived>>

\* disable_user: the account's sessions stay.
DisableUser(c, u) ==
    /\ ManagesUsers(c) /\ u # call[c].data.user /\ account[u].status # "absent"
    /\ account' = [account EXCEPT ![u].status = "disabled"]
    /\ outdated' = Outdated(c)
    /\ call' = [call EXCEPT ![c] = NoCall]
    /\ UNCHANGED <<login, session, time, born, left, revived, given, mixed>>

StaffNext ==
    \/ StaffTick
    \/ \E i \in Sids :
        \/ CreateSession(i) \/ Logout(i)
        \/ \E u \in Persons : LoginLookup(i, u)
        \/ \E c \in Calls : LoadSession(c, i)
    \/ \E c \in Calls :
        \/ Admit(c) \/ Finish(c) \/ RolesCommit(c)
        \/ \E u \in Persons :
            \/ DisableUser(c, u)
            \/ \E roles \in SUBSET Roles : CreateUser(c, u, roles) \/ SetRoles(c, u, roles)

StaffSpec == StaffInit /\ [][StaffNext]_staffVars

-----------------------------------------------------------------------------
(* Properties *)

\* Administrators cannot lock their tenant out: one that is active is left, unless accounts were
\* changed on the strength of a session whose user was no administrator any more.  And a user has
\* the roles that one request gave, unless requests that set them overlapped.
AdministratorLeft ==
    /\ StaffTypeOK
    /\ (\E u \in Persons : Administers(account[u])) \/ outdated
    /\ \A u \in Persons : account[u].roles = given[u] \/ u \in mixed

\* No request is admitted later than AbsoluteTime after the login, however often the session is
\* used; and a session that is logged out is gone, unless a request that had read it before wrote
\* it back.
SessionsEnd ==
    /\ \A c \in Calls : call[c].pc # "idle" =>
                           call[c].data.seen <= born[call[c].sid] + AbsoluteTime
    /\ \A i \in left : session[i] = NoSession \/ i \in revived
=============================================================================
