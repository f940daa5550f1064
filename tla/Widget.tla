------------------------------- MODULE Widget -------------------------------
(***************************************************************************)
(* The public gateway's chat widget: sessions of visitors of one site,     *)
(* rate limits, and the refusal of repeated messages.                      *)
(*                                                                         *)
(* A message reads its session, passes the limits, writes the session back *)
(* and is handed on; messages of one session overlap.  Each limit is one   *)
(* atomic script (Redis) over a sliding window, which is called with a     *)
(* clock that the gateway has read before: scripts may run in another      *)
(* order than their clocks were read.                                      *)
(***************************************************************************)
EXTENDS Integers, Sequences, FiniteSets

CONSTANTS
    Visits,                     \* widget sessions
    Posts,                      \* messages served at once
    Texts, NoText,              \* normalized texts, and that of a new session
    MaxRepeat,                  \* how often a text may be repeated, 3 in the code
    TenantLimit, VisitLimit,    \* messages per window of a tenant, of a session
    Window,
    MaxMoment                   \* bound on the clock

ASSUME WidgetAssumption ==
    /\ NoText \notin Texts /\ "tenant" \notin Visits
    /\ MaxRepeat \in Nat /\ TenantLimit \in Nat /\ VisitLimit \in Nat
    /\ Window \in Nat /\ MaxMoment \in Nat

VARIABLES
    moment,
    visit,      \* the store of widget sessions
    post,       \* messages
    hits,       \* the limiter's log of each key: moments, each with a number of its own
    expires,    \* when the log of each key expires
    admitted,   \* history: for each key, the clocks that were admitted
    cut,        \* history: for each key, the latest clock its script has run with, or the time its
                \* log had expired at when it ran
    belated,       \* history: admissions, by number, of clocks before that
    streak,     \* history: how often the last text was handed on in a row, by session
    tangled     \* history: sessions in which messages overlapped

limitVars == <<hits, expires, admitted, cut, belated>>
widgetVars == <<moment, visit, post, limitVars, streak, tangled>>

LimitKeys == Visits \cup {"tenant"}

LimitOf(key) == IF key = "tenant" THEN TenantLimit ELSE VisitLimit

Visit == [open : BOOLEAN, last_text : Texts \cup {NoText}, repeat : Nat]

NoTime == -1

\* at: the clock as read for the next limit.
Post == [pc : {"read", "tenant", "passed", "put"}, visit : Visits, text : Texts, data : Visit,
         at : 0..MaxMoment \cup {NoTime}]

IdlePost == [pc |-> "idle"]

WidgetTypeOK ==
    /\ moment \in 0..MaxMoment
    /\ visit \in [Visits -> Visit]
    /\ \A p \in Posts : post[p] = IdlePost \/ post[p] \in Post
    /\ \A key \in LimitKeys : Cardinality(hits[key]) <= LimitOf(key)
    /\ belated \subseteq LimitKeys \X Nat
    /\ tangled \subseteq Visits

WidgetInit ==
    /\ moment = 0
    /\ visit = [v \in Visits |-> [open |-> FALSE, last_text |-> NoText, repeat |-> 0]]
    /\ post = [p \in Posts |-> IdlePost]
    /\ hits = [key \in LimitKeys |-> {}]
    /\ expires = [key \in LimitKeys |-> 0]
    /\ admitted = [key \in LimitKeys |-> <<>>]
    /\ cut = [key \in LimitKeys |-> 0] /\ belated = {}
    /\ streak = [v \in Visits |-> [text |-> NoText, n |-> 0]]
    /\ tangled = {}

MomentPasses ==
    /\ moment < MaxMoment
    /\ moment' = moment + 1
    /\ UNCHANGED <<visit, post, limitVars, streak, tangled>>

\* widget_session: of a site that is active and an origin it allows.
OpenVisit(v) ==
    /\ ~visit[v].open
    /\ visit' = [visit EXCEPT ![v].open = TRUE]
    /\ UNCHANGED <<moment, post, limitVars, streak, tangled>>

\* widget_message: _session.
ReadVisit(p, v, text) ==
    /\ post[p].pc = "idle" /\ visit[v].open
    /\ post' = [post EXCEPT ![p] = [pc |-> "read", visit |-> v, text |-> text, data |-> visit[v],
                                    at |-> NoTime]]
    /\ tangled' = IF \E x \in Posts : post[x] # IdlePost /\ post[x].visit = v
                  THEN tangled \cup {v} ELSE tangled
    /\ UNCHANGED <<moment, visit, limitVars, streak>>

\* hit: the clock is read, for the tenant's limit and then for the session's.
ReadClock(p) ==
    /\ post[p].pc \in {"read", "tenant"} /\ post[p].at = NoTime
    /\ post' = [post EXCEPT ![p].at = moment]
    /\ UNCHANGED <<moment, visit, limitVars, streak, tangled>>

\* PEXPIRE: a window after the last admission.
Gone(key) == moment > expires[key]

Log(key) == IF Gone(key) THEN {} ELSE hits[key]

\* Mutant of Recent: the log is emptied when its oldest entry leaves the window.
RecentReset(key, now) == IF \E e \in Log(key) : e[1] <= now - Window THEN {} ELSE Log(key)

\* Entries that the script leaves in the log.
Recent(key, now) == {e \in Log(key) : e[1] > now - Window}

\* Before this, what the log of the key holds is not all that a window has admitted.
CutAt(key) == IF Gone(key) /\ expires[key] > cut[key] THEN expires[key] ELSE cut[key]

\* The script of a limit runs.
Limit(p) ==
    LET key == IF post[p].pc = "read" THEN "tenant" ELSE post[p].visit
        now == post[p].at
        next == IF post[p].pc = "read" THEN "tenant" ELSE "passed"
        n == Len(admitted[key]) + 1
    IN /\ post[p].pc \in {"read", "tenant"} /\ now # NoTime
       /\ IF Cardinality(Recent(key, now)) >= LimitOf(key)
          THEN /\ hits' = [hits EXCEPT ![key] = Recent(key, now)]
               /\ post' = [post EXCEPT ![p] = IdlePost]
               /\ UNCHANGED <<expires, admitted, belated>>
          ELSE /\ hits' = [hits EXCEPT ![key] = Recent(key, now) \cup {<<now, n>>}]
               /\ expires' = [expires EXCEPT ![key] = moment + Window]
               /\ post' = [post EXCEPT ![p] = [@ EXCEPT !.pc = next, !.at = NoTime]]
               /\ admitted' = [admitted EXCEPT ![key] = Append(@, now)]
               /\ belated' = IF now < CutAt(key) THEN belated \cup {<<key, n>>} ELSE belated
       /\ cut' = [cut EXCEPT ![key] = IF now > CutAt(key) THEN now ELSE CutAt(key)]
       /\ UNCHANGED <<moment, visit, streak, tangled>>

Counted(data, text) ==
    [data EXCEPT !.repeat = IF text = data.last_text THEN @ + 1 ELSE 0, !.last_text = text]

\* The honeypot is empty and the session not younger than 0.8 s: the session is written back.
PutVisit(p) ==
    LET data == Counted(post[p].data, post[p].text)
    IN /\ post[p].pc = "passed"
       /\ visit' = [visit EXCEPT ![post[p].visit] = data]
       /\ post' = [post EXCEPT ![p] = [@ EXCEPT !.pc = "put", !.data = data]]
       /\ UNCHANGED <<moment, limitVars, streak, tangled>>

\* The message is rejected as a bot's.
RejectPost(p) ==
    /\ post[p].pc = "passed"
    /\ post' = [post EXCEPT ![p] = IdlePost]
    /\ UNCHANGED <<moment, visit, limitVars, streak, tangled>>

\* It is handed on to SAMIIR, or refused as a repetition.
HandOn(p) ==
    LET v == post[p].visit
        text == post[p].text
    IN /\ post[p].pc = "put"
       /\ streak' = IF post[p].data.repeat >= MaxRepeat THEN streak
                    ELSE [streak EXCEPT ![v] =
                            [text |-> text, n |-> IF text = @.text THEN @.n + 1 ELSE 1]]
       /\ post' = [post EXCEPT ![p] = IdlePost]
       /\ UNCHANGED <<moment, visit, limitVars, tangled>>

WidgetNext ==
    \/ MomentPasses
    \/ \E v \in Visits : OpenVisit(v) \/ \E p \in Posts, text \in Texts : ReadVisit(p, v, text)
    \/ \E p \in Posts : ReadClock(p) \/ Limit(p) \/ PutVisit(p) \/ RejectPost(p) \/ HandOn(p)

WidgetSpec == WidgetInit /\ [][WidgetNext]_widgetVars

-----------------------------------------------------------------------------
(* Properties *)

\* Messages of a key that were admitted in the window that begins at a moment, but for belated ones.
Within(key, t) ==
    Cardinality({i \in DOMAIN admitted[key] : /\ admitted[key][i] \in t..(t + Window - 1)
                                              /\ <<key, i>> \notin belated})

\* No window, wherever it begins, holds more messages than its limit, those not counted whose script
\* ran after one with a later clock, or after the log that it would have met had expired; and no
\* text is handed on more than MaxRepeat times in a row, unless messages of its session overlapped.
WidgetHeld ==
    /\ WidgetTypeOK
    /\ \A key \in LimitKeys, t \in 0..MaxMoment : Within(key, t) <= LimitOf(key)
    /\ \A v \in Visits : streak[v].n <= MaxRepeat \/ v \in tangled
=============================================================================
