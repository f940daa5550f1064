---------------------------- MODULE Gates_proofs ----------------------------
(***************************************************************************)
(* What the gates of the platform let through, for any number of callers:  *)
(* the tokens that authenticate calls between services, the accounts and   *)
(* sessions of staff, the limits of the public widget, what a scan asks of *)
(* an asset, what a transaction reaches in the shared database, and who    *)
(* answers in a conversation.                                              *)
(***************************************************************************)
EXTENDS Tokens, Staff, Widget, Assets, Tenancy, Conversations, FiniteSetTheorems,
        SequenceTheorems, WellFoundedInduction, TLAPS

\* A set of naturals has a least one: induction, for the sets that the proofs below need.
LEMMA LeastNatural ==
    ASSUME NEW T \in SUBSET Nat, T # {}
    PROVE  \E n \in T : \A m \in T : n <= m
<1> DEFINE R == {p \in Nat \X Nat : p[1] < p[2]}
<1>1. IsWellFoundedOn(R, Nat)
  BY NatLessThanWellFounded, Zenon DEF OpToRel
<1> HIDE DEF R
<1>2. PICK n \in T : \A m \in T : ~(<<m, n>> \in R)
  BY <1>1, WFMin
<1>3. ASSUME NEW m \in T PROVE n <= m
  <2>1. m \in Nat /\ n \in Nat
    OBVIOUS
  <2>2. m < n => <<m, n>> \in R
    BY <2>1 DEF R
  <2>3. ~(m < n)
    BY <1>2, <2>2
  <2> QED
    BY <2>1, <2>3
<1> QED
  BY <1>3

-----------------------------------------------------------------------------
(* Tokens *)

(***************************************************************************)
(* A token is remembered as long as it is current, for the cache keeps it  *)
(* until its expiry and the leeway after it (Remembered): a token accepted *)
(* before is then found, unless it was pushed out or is current no more.   *)
(***************************************************************************)
Item == [jti : Jtis, expires : Int]

Remembered ==
    \A i \in DOMAIN cache : /\ token[cache[i].jti] # 0
                            /\ cache[i].expires >= token[cache[i].jti] + Leeway

Made(j) == token[j] # 0

TokensInv ==
    /\ UsedOnce
    /\ now > 0
    /\ cache \in Seq(Item)
    /\ Remembered
    /\ \A j \in Jtis : j \in verifying \/ uses[j] > 0 => Made(j)

\* Those that are popped are not live, or there is no room.
NoRoom(i) == Len(cache) - (i - 1) >= Capacity

LEMMA PoppedForms ==
    ASSUME TokensInv
    PROVE  /\ Popped \in 0 .. Len(cache)
           /\ Popped < Len(cache) => ~NoRoom(Popped + 1)
<1> DEFINE lives(i) == cache[i].expires > now /\ Len(cache) - (i - 1) < Capacity
           len == Len(cache)
           T == {n \in 0 .. len : n < len => lives(n + 1)}
<1>1. len \in Nat
  BY DEF TokensInv
<1> HIDE DEF lives
<1>2. len \in T /\ T \subseteq Nat
  BY <1>1
<1>3. PICK n \in T : \A m \in T : n <= m
  BY <1>2, LeastNatural
<1>4. n \in 0 .. len /\ (n < len => lives(n + 1))
  OBVIOUS
<1>5. ASSUME NEW i \in 1 .. n PROVE ~lives(i)
  <2>1. i - 1 \in 0 .. len /\ i - 1 < len /\ ~(n <= i - 1)
    BY <1>1, <1>4
  <2>2. i - 1 \notin T
    BY <1>3, <2>1
  <2> QED
    BY <2>1, <2>2
<1> DEFINE P(m) == /\ \A i \in 1 .. m : ~lives(i)
                   /\ m < len => lives(m + 1)
<1>6. Popped = CHOOSE m \in 0 .. len : P(m)
  BY DEF Popped, lives
<1>7. \E m \in 0 .. len : P(m)
  BY <1>4, <1>5
<1> HIDE DEF P
<1>8. Popped \in 0 .. len /\ P(Popped)
  BY <1>6, <1>7
<1> QED
  BY <1>1, <1>8, TokenAssumption DEF P, lives, NoRoom

\* A current token is forgotten by first_use only when it is pushed out.
LEMMA FirstUseKeeps ==
    ASSUME TokensInv, NEW j \in Jtis, FirstUse(j)
    PROVE  TokensInv'
<1> DEFINE n == Popped
           len == Len(cache)
           rest == SubSeq(cache, n + 1, len)
           item == [jti |-> j, expires |-> now + UseTtl(j)]
           used == \E i \in DOMAIN rest : rest[i].jti = j
<1>1. /\ n \in 0 .. len /\ len \in Nat /\ len <= Capacity
      /\ n < len => len - n < Capacity
  BY PoppedForms, TokenAssumption DEF TokensInv, UsedOnce, TokensTypeOK, NoRoom
<1>2. /\ j \in verifying /\ verifying' = verifying \ {j}
      /\ cache' = IF used THEN rest ELSE Append(rest, item)
      /\ uses' = IF used THEN uses ELSE [uses EXCEPT ![j] = @ + 1]
      /\ evicted' = evicted \cup {cache[i].jti : i \in {x \in 1 .. n : cache[x].expires > now}}
      /\ late' = IF Current(j) THEN late ELSE late \cup {j}
      /\ UNCHANGED <<now, token>>
  BY DEF FirstUse
<1> HIDE DEF n
<1>3. /\ now \in Nat /\ now > 0 /\ Made(j) /\ token \in [Jtis -> Nat]
      /\ cache \in Seq(Item) /\ Remembered
      /\ uses \in [Jtis -> Nat]
  BY <1>2, TokenAssumption DEF TokensInv, UsedOnce, TokensTypeOK
<1>4. /\ rest \in Seq(Item) /\ Len(rest) = len - n
      /\ \A i \in 1 .. len - n : rest[i] = cache[n + i]
  <2>1. \A i \in n + 1 .. len : cache[i] \in Item
    BY <1>1, <1>3
  <2>2. /\ rest \in Seq(Item)
        /\ Len(rest) = IF n + 1 <= len THEN len - (n + 1) + 1 ELSE 0
        /\ \A i \in 1 .. len - (n + 1) + 1 : rest[i] = cache[n + 1 + i - 1]
    BY <2>1, <1>1, SubSeqProperties
  <2>3. \A i \in 1 .. len - n : n + 1 + i - 1 = n + i
    BY <1>1
  <2> QED
    BY <2>2, <2>3, <1>1
<1>5. item \in Item /\ item.jti = j /\ item.expires >= token[j] + Leeway /\ item.expires > now
  BY <1>3, TokenAssumption DEF UseTtl, Item
<1> HIDE DEF rest, item, used
<1>6. /\ cache' \in Seq(Item) /\ Len(cache') <= Capacity
      /\ \A i \in DOMAIN rest : i \in DOMAIN cache' /\ cache'[i] = rest[i]
      /\ \A i \in DOMAIN cache' : \/ i \in DOMAIN rest /\ cache'[i] = rest[i]
                                  \/ ~used /\ cache'[i] = item
      /\ ~used => \E i \in DOMAIN cache' : cache'[i] = item
  <2>1. CASE used
    <3>1. cache' = rest
      BY <2>1, <1>2
    <3>2. Len(rest) <= Capacity
      BY <1>1, <1>4, TokenAssumption
    <3> QED
      BY <3>1, <3>2, <2>1, <1>4
  <2>2. CASE ~used
    <3>1. /\ cache' \in Seq(Item) /\ Len(cache') = Len(rest) + 1
          /\ \A i \in 1 .. Len(rest) : cache'[i] = rest[i]
          /\ cache'[Len(rest) + 1] = item
      BY <2>2, <1>2, <1>4, <1>5, AppendProperties
    <3>2. Len(rest) + 1 <= Capacity
      BY <1>1, <1>4, TokenAssumption
    <3>3. DOMAIN cache' = 1 .. Len(rest) + 1 /\ DOMAIN rest = 1 .. Len(rest) /\ Len(rest) \in Nat
      BY <3>1, <1>4
    <3> QED
      BY <3>1, <3>2, <3>3, <2>2
  <2> QED
    BY <2>1, <2>2
<1>7. ASSUME NEW i \in DOMAIN cache, cache[i].expires > now, cache[i].jti \notin evicted'
      PROVE  \E k \in DOMAIN cache' : cache'[k] = cache[i]
  <2>1. i \in 1 .. len /\ i \notin 1 .. n
    BY <1>2, <1>3, <1>7
  <2>2. i - n \in DOMAIN rest /\ rest[i - n] = cache[i]
    <3>1. i - n \in 1 .. len - n /\ n + (i - n) = i
      BY <2>1, <1>1
    <3> QED
      BY <3>1, <1>4
  <2> QED
    BY <2>2, <1>6
<1>8. Remembered'
  <2>1. \A i \in DOMAIN rest : /\ token[rest[i].jti] # 0
                               /\ rest[i].expires >= token[rest[i].jti] + Leeway
    <3>1. \A i \in DOMAIN rest : n + i \in DOMAIN cache /\ rest[i] = cache[n + i]
      <4>1. DOMAIN rest = 1 .. len - n /\ DOMAIN cache = 1 .. len
        BY <1>3, <1>4
      <4>2. \A i \in 1 .. len - n : n + i \in 1 .. len
        BY <1>1
      <4> QED
        BY <4>1, <4>2, <1>4
    <3> QED
      BY <3>1, <1>3 DEF Remembered
  <2> QED
    BY <2>1, <1>2, <1>3, <1>5, <1>6 DEF Remembered, Made
<1>9. ASSUME NEW k \in Jtis \ evicted'
      PROVE  /\ uses'[k] <= 1 \/ k \in late'
             /\ uses'[k] > 0 /\ Current(k)' =>
                  \E i \in DOMAIN cache' : cache'[i].jti = k /\ cache'[i].expires > now'
  <2>1. k \notin evicted /\ (Current(k)' <=> Current(k)) /\ now' = now
    BY <1>2 DEF Current
  <2>2. uses[k] > 0 /\ Current(k) =>
          \E i \in DOMAIN cache' : cache'[i].jti = k /\ cache'[i].expires > now
    <3>1. uses[k] > 0 /\ Current(k) =>
            \E i \in DOMAIN cache : cache[i].jti = k /\ cache[i].expires > now
      BY <2>1 DEF TokensInv, UsedOnce
    <3> QED
      BY <3>1, <1>7
  <2>3. uses[k] <= 1 \/ k \in late
    BY <2>1 DEF TokensInv, UsedOnce
  <2>4. CASE used \/ k # j
    BY <2>1, <2>2, <2>3, <2>4, <1>2, <1>3
  <2>5. CASE ~used /\ k = j
    <3>1. Current(j) => uses[j] = 0
      <4>1. SUFFICES ASSUME Current(j), uses[j] > 0 PROVE FALSE
        BY <1>3
      <4>2. PICK i \in DOMAIN cache : cache[i].jti = j /\ cache[i].expires > now
        BY <4>1, <2>1, <2>5 DEF TokensInv, UsedOnce
      <4>3. i \in 1 .. len /\ i \notin 1 .. n
        BY <4>2, <1>2, <1>3, <2>5
      <4>4. i - n \in 1 .. len - n /\ n + (i - n) = i
        BY <4>3, <1>1
      <4> QED
        BY <4>2, <4>4, <1>4, <2>5 DEF used
    <3>2. uses'[k] = uses[k] + 1 /\ uses[k] \in Nat
      BY <2>5, <1>2, <1>3
    <3>3. uses'[k] <= 1 \/ k \in late'
      BY <3>1, <3>2, <2>5, <1>2
    <3>4. \E i \in DOMAIN cache' : cache'[i].jti = k /\ cache'[i].expires > now
      BY <1>5, <1>6, <2>5
    <3> QED
      BY <2>1, <3>3, <3>4
  <2> QED
    BY <2>4, <2>5
<1>10. TokensTypeOK'
  <2>1. {cache[i].jti : i \in {x \in 1 .. n : cache[x].expires > now}} \subseteq Jtis
    <3>1. \A i \in 1 .. n : cache[i] \in Item
      BY <1>1, <1>3
    <3> QED
      BY <3>1 DEF Item
  <2>2. uses' \in [Jtis -> Nat] /\ now' = now /\ token' = token
    BY <1>2, <1>3
  <2>3. evicted' \subseteq Jtis /\ late' \subseteq Jtis /\ verifying' \subseteq Jtis
    BY <2>1, <1>2 DEF TokensInv, UsedOnce, TokensTypeOK
  <2> QED
    BY <2>2, <2>3, <1>6 DEF TokensInv, UsedOnce, TokensTypeOK
<1>11. \A k \in Jtis : k \in verifying' \/ uses'[k] > 0 => Made(k)'
  BY <1>2, <1>3 DEF TokensInv, Made
<1> QED
  BY <1>2, <1>3, <1>6, <1>8, <1>9, <1>10, <1>11 DEF TokensInv, UsedOnce

LEMMA TokensStep == TokensInv /\ [TokensNext]_tokenVars => TokensInv'
<1> SUFFICES ASSUME TokensInv, [TokensNext]_tokenVars PROVE TokensInv'
  OBVIOUS
<1>1. /\ now \in 1 .. MaxNow /\ MaxNow \in Nat /\ Ttl \in Nat /\ Leeway \in Nat
      /\ token \in [Jtis -> 0 .. MaxNow + Ttl] /\ cache \in Seq(Item)
  BY TokenAssumption DEF TokensInv, UsedOnce, TokensTypeOK
<1>2. \A i \in DOMAIN cache : cache[i].jti \in Jtis /\ cache[i].expires \in Int
  <2>1. \A i \in DOMAIN cache : cache[i] \in Item
    BY <1>1
  <2> QED
    BY <2>1 DEF Item
<1>3. CASE UNCHANGED tokenVars
  BY <1>3 DEF tokenVars, TokensInv, UsedOnce, TokensTypeOK, Remembered, Made, Current
<1>4. CASE TokenTick
  <2>1. now' = now + 1 /\ now < MaxNow /\ UNCHANGED <<token, cache, verifying, uses, evicted, late>>
    BY <1>4 DEF TokenTick
  <2>2. ASSUME NEW j \in Jtis, Current(j)' PROVE Current(j)
    BY <2>1, <2>2, <1>1 DEF Current
  <2>3. ASSUME NEW i \in DOMAIN cache, Current(cache[i].jti)' PROVE cache[i].expires > now'
    BY <2>1, <2>3, <1>1, <1>2 DEF Current, TokensInv, Remembered
  <2> QED
    BY <2>1, <2>2, <2>3, <1>1 DEF TokensInv, UsedOnce, TokensTypeOK, Remembered, Made
<1>5. ASSUME NEW j \in Jtis, Mint(j) PROVE TokensInv'
  <2>1. /\ token[j] = 0 /\ token' = [token EXCEPT ![j] = now + Ttl]
        /\ UNCHANGED <<now, cache, verifying, uses, evicted, late>>
    BY <1>5 DEF Mint
  <2>2. now + Ttl \in 1 .. MaxNow + Ttl
    BY <1>1
  <2>3. uses[j] = 0 /\ j \notin verifying
    BY <2>1 DEF TokensInv, Made, UsedOnce, TokensTypeOK
  <2>4. Remembered'
    BY <2>1, <1>1, <1>2 DEF TokensInv, Remembered
  <2>5. \A k \in Jtis : k # j => (Current(k)' <=> Current(k)) /\ (Made(k)' <=> Made(k))
    BY <2>1, <1>1 DEF Current, Made
  <2>6. Made(j)' /\ token' \in [Jtis -> 0 .. MaxNow + Ttl]
    BY <2>1, <2>2, <1>1 DEF Made
  <2> QED
    BY <2>1, <2>3, <2>4, <2>5, <2>6 DEF TokensInv, UsedOnce, TokensTypeOK
<1>6. ASSUME NEW j \in Jtis, Decode(j) PROVE TokensInv'
  BY <1>6 DEF Decode, TokensInv, UsedOnce, TokensTypeOK, Remembered, Made, Current
<1>7. ASSUME NEW j \in Jtis, FirstUse(j) PROVE TokensInv'
  BY <1>7, FirstUseKeeps
<1> QED
  BY <1>3, <1>4, <1>5, <1>6, <1>7 DEF TokensNext

\* A token is accepted once, whoever presents it, however often and however late, unless the cache
\* was full or the token ran out while it was verified.
THEOREM UsedOnceHolds == TokensSpec => []UsedOnce
<1>1. TokensInit => TokensInv
  BY TokenAssumption DEF TokensInit, TokensInv, UsedOnce, TokensTypeOK, Remembered, Made, Item
<1>2. TokensInv => UsedOnce
  BY DEF TokensInv
<1> QED
  BY <1>1, <1>2, TokensStep, PTL DEF TokensSpec

-----------------------------------------------------------------------------
(* Staff *)

(***************************************************************************)
(* A session is that of one login (Born), also while a request holds it,   *)
(* and an id is not in use again while a login under it is on its way      *)
(* (Coming).  While roles are set, the account exists and those it has are *)
(* the ones that will go, or its roles are mixed (Setting).                *)
(***************************************************************************)
OfLogin(data, i) == data.user \in Persons /\ data.created = born[i]

SessionBorn(i) == session[i] # NoSession => OfLogin(session[i], i)

Coming(i) ==
    login[i] # NoSession =>
        /\ login[i].user \in Persons
        /\ session[i] = NoSession /\ i \notin left
        /\ \A c \in Calls : call[c].sid # i

InTime(c) ==
    call[c].pc # "idle" =>
        /\ call[c].sid \in Sids
        /\ OfLogin(call[c].data, call[c].sid)
        /\ call[c].data.seen <= born[call[c].sid] + AbsoluteTime

Setting(c) ==
    call[c].pc = "setting" =>
        /\ call[c].whom \in Persons /\ account[call[c].whom].status # "absent"
        /\ KeepsSelf(c, call[c].whom, call[c].new)
        /\ call[c].whom \in mixed \/ account[call[c].whom].roles \subseteq call[c].doomed

AccountsInv ==
    /\ AdministratorLeft
    /\ \A u \in Persons : account[u].status = "absent" => account[u].roles = {}
    /\ \A c \in Calls : Setting(c)

SessionsInv ==
    /\ StaffTypeOK
    /\ \A i \in Sids : SessionBorn(i) /\ Coming(i)
    /\ \A c \in Calls : InTime(c)
    /\ \A i \in left : session[i] = NoSession \/ i \in revived

StaffInv == AccountsInv /\ SessionsInv

LEMMA StaffInitInv == StaffInit => StaffInv
<1> SUFFICES ASSUME StaffInit PROVE StaffInv
  OBVIOUS
<1> USE StaffAssumption
<1>1. 0 \in 0 .. MaxTime
  OBVIOUS
<1>2. NoSession \in Session
  BY <1>1 DEF NoSession, Session
<1>3. NoCall \in Call
  BY <1>2 DEF NoCall, Call
<1>4. account \in [Persons -> Account]
  BY DEF StaffInit, Account
<1>5. StaffTypeOK
  BY <1>1, <1>2, <1>3, <1>4 DEF StaffInit, StaffTypeOK, Account
<1>6. AccountsInv
  BY <1>5 DEF StaffInit, AccountsInv, AdministratorLeft, Setting, NoCall
<1>7. SessionsInv
  BY <1>5 DEF StaffInit, SessionsInv, SessionBorn, Coming, InTime, NoCall
<1> QED
  BY <1>6, <1>7 DEF StaffInv

-----------------------------------------------------------------------------
(* Records that the steps make *)

LEMMA NoSessionForms == NoSession \in Session /\ NoSession.user = Nobody /\ NoSession.roles = {}
<1>1. 0 \in 0 .. MaxTime
  BY StaffAssumption
<1> QED
  BY <1>1 DEF NoSession, Session

LEMMA NoCallForms ==
    /\ NoCall \in Call /\ NoCall.pc = "idle" /\ NoCall.sid = Nobody
    /\ NoCall.data = NoSession
BY NoSessionForms DEF NoCall, Call

LEMMA LoginForms ==
    ASSUME NEW u \in Persons, NEW roles \in SUBSET Roles
    PROVE  LET l == [NoSession EXCEPT !.user = u, !.roles = roles]
           IN  l \in Session /\ l.user = u
<1> DEFINE m == [NoSession EXCEPT !.user = u]
<1>1. m \in Session /\ m.user = u
  BY NoSessionForms DEF Session
<1> HIDE DEF m
<1>2. [m EXCEPT !.roles = roles] \in Session /\ [m EXCEPT !.roles = roles].user = u
  BY <1>1 DEF Session
<1> QED
  BY <1>2 DEF m

LEMMA CreatedForms ==
    ASSUME NEW l \in Session, NEW t \in 0 .. MaxTime
    PROVE  LET d == [l EXCEPT !.created = t, !.seen = t]
           IN  d \in Session /\ d.user = l.user /\ d.created = t /\ d.seen = t
<1> DEFINE m == [l EXCEPT !.created = t]
<1>1. m \in Session /\ m.user = l.user /\ m.created = t
  BY DEF Session
<1> HIDE DEF m
<1>2. LET d == [m EXCEPT !.seen = t]
      IN  d \in Session /\ d.user = l.user /\ d.created = t /\ d.seen = t
  BY <1>1 DEF Session
<1> QED
  BY <1>2 DEF m

LEMMA LoadedForms ==
    ASSUME NEW i \in Sids, NEW data \in Session
    PROVE  LET d == [NoCall EXCEPT !.pc = "loading", !.sid = i, !.data = data]
           IN  d \in Call /\ d.pc = "loading" /\ d.sid = i /\ d.data = data
<1> DEFINE m == [NoCall EXCEPT !.pc = "loading"]
           n == [m EXCEPT !.sid = i]
<1>1. m \in Call /\ m.pc = "loading"
  BY NoCallForms DEF Call
<1> HIDE DEF m
<1>2. n \in Call /\ n.pc = "loading" /\ n.sid = i
  BY <1>1 DEF Call
<1> HIDE DEF n
<1>3. LET d == [n EXCEPT !.data = data]
      IN  d \in Call /\ d.pc = "loading" /\ d.sid = i /\ d.data = data
  BY <1>2 DEF Call
<1> QED
  BY <1>3 DEF m, n

-----------------------------------------------------------------------------
(* Steps that leave accounts and calls alone, or end a call *)

\* Calls are as before, or over.
LEMMA AccountsStay ==
    ASSUME AccountsInv, StaffTypeOK', UNCHANGED <<account, given, mixed, outdated>>,
           \A c \in Calls : call'[c].pc = "setting" => call'[c] = call[c]
    PROVE  AccountsInv'
BY DEF AccountsInv, AdministratorLeft, Setting, KeepsSelf

LEMMA TickKeeps == StaffInv /\ StaffTick => StaffInv'
<1> SUFFICES ASSUME StaffInv, StaffTick PROVE StaffInv'
  OBVIOUS
<1>1. StaffTypeOK'
  BY StaffAssumption DEF StaffInv, SessionsInv, StaffTypeOK, StaffTick
<1>2. AccountsInv'
  BY <1>1, AccountsStay DEF StaffInv, StaffTick
<1>3. SessionsInv'
  BY <1>1 DEF StaffInv, SessionsInv, StaffTick, SessionBorn, Coming, InTime, OfLogin
<1> QED
  BY <1>2, <1>3 DEF StaffInv

LEMMA LoginKeeps ==
    ASSUME StaffInv, NEW i \in Sids, NEW u \in Persons, LoginLookup(i, u)
    PROVE  StaffInv'
<1> DEFINE l == [NoSession EXCEPT !.user = u, !.roles = account[u].roles]
<1>1. StaffTypeOK
  BY DEF StaffInv, SessionsInv
<1>2. l \in Session /\ l.user = u
  <2>1. account[u].roles \in SUBSET Roles
    BY <1>1 DEF StaffTypeOK, Account
  <2> QED
    BY <2>1, LoginForms
<1>3. login' = [login EXCEPT ![i] = l] /\ Unused(i)
      /\ UNCHANGED <<account, session, call, time, born, left, revived, given, mixed, outdated>>
  BY DEF LoginLookup
<1> HIDE DEF l
<1>4. StaffTypeOK'
  BY <1>1, <1>2, <1>3 DEF StaffTypeOK
<1>5. AccountsInv'
  BY <1>3, <1>4, AccountsStay DEF StaffInv
<1>6. ASSUME NEW j \in Sids PROVE Coming(j)'
  BY <1>1, <1>2, <1>3, <1>6 DEF StaffInv, SessionsInv, StaffTypeOK, Coming, Unused
<1>7. SessionsInv'
  BY <1>3, <1>4, <1>6 DEF StaffInv, SessionsInv, SessionBorn, InTime, OfLogin
<1> QED
  BY <1>5, <1>7 DEF StaffInv

LEMMA CreateSessionKeeps ==
    ASSUME StaffInv, NEW i \in Sids, CreateSession(i)
    PROVE  StaffInv'
<1> DEFINE d == [login[i] EXCEPT !.created = time, !.seen = time]
<1>1. StaffTypeOK
  BY DEF StaffInv, SessionsInv
<1>2. d \in Session /\ d.user = login[i].user /\ d.created = time
  BY <1>1, CreatedForms DEF StaffTypeOK
<1>3. /\ login[i] # NoSession /\ session' = [session EXCEPT ![i] = d]
      /\ login' = [login EXCEPT ![i] = NoSession] /\ born' = [born EXCEPT ![i] = time]
      /\ UNCHANGED <<account, call, time, left, revived, given, mixed, outdated>>
  BY DEF CreateSession
<1> HIDE DEF d
<1>4. StaffTypeOK'
  BY <1>1, <1>2, <1>3, NoSessionForms DEF StaffTypeOK
<1>5. AccountsInv'
  BY <1>3, <1>4, AccountsStay DEF StaffInv
<1>6. login[i].user \in Persons /\ i \notin left /\ \A c \in Calls : call[c].sid # i
  BY <1>3 DEF StaffInv, SessionsInv, Coming
<1>7. ASSUME NEW j \in Sids PROVE SessionBorn(j)' /\ Coming(j)'
  <2>1. SessionBorn(j) /\ Coming(j)
    BY DEF StaffInv, SessionsInv
  <2>2. CASE j = i
    BY <1>1, <1>2, <1>3, <1>6, <2>2 DEF SessionBorn, Coming, OfLogin, StaffTypeOK
  <2>3. CASE j # i
    BY <1>1, <1>3, <2>1, <2>3 DEF SessionBorn, Coming, OfLogin, StaffTypeOK
  <2> QED
    BY <2>2, <2>3
<1>8. ASSUME NEW c \in Calls PROVE InTime(c)'
  BY <1>1, <1>3, <1>6 DEF StaffInv, SessionsInv, StaffTypeOK, InTime, OfLogin
<1>9. \A j \in left' : session'[j] = NoSession \/ j \in revived'
  BY <1>1, <1>3, <1>6 DEF StaffInv, SessionsInv, StaffTypeOK
<1> QED
  BY <1>4, <1>5, <1>7, <1>8, <1>9 DEF StaffInv, SessionsInv

LEMMA LogoutKeeps ==
    ASSUME StaffInv, NEW i \in Sids, Logout(i)
    PROVE  StaffInv'
<1>1. StaffTypeOK
  BY DEF StaffInv, SessionsInv
<1>2. /\ session[i] # NoSession /\ session' = [session EXCEPT ![i] = NoSession]
      /\ left' = left \cup {i}
      /\ UNCHANGED <<account, login, call, time, born, revived, given, mixed, outdated>>
  BY DEF Logout, Deleted
<1>3. StaffTypeOK'
  BY <1>1, <1>2, NoSessionForms DEF StaffTypeOK
<1>4. AccountsInv'
  BY <1>2, <1>3, AccountsStay DEF StaffInv
<1>5. ASSUME NEW j \in Sids PROVE SessionBorn(j)' /\ Coming(j)'
  BY <1>1, <1>2, <1>5 DEF StaffInv, SessionsInv, StaffTypeOK, SessionBorn, Coming, OfLogin
<1>6. SessionsInv'
  BY <1>1, <1>2, <1>3, <1>5 DEF StaffInv, SessionsInv, StaffTypeOK, InTime, OfLogin
<1> QED
  BY <1>4, <1>6 DEF StaffInv

-----------------------------------------------------------------------------
(* Steps of calls *)

\* Calls that go on keep the session they have read.
LEMMA CallsStay ==
    ASSUME StaffInv, StaffTypeOK',
           UNCHANGED <<login, session, time, born, left, revived>>,
           \A c \in Calls : \/ call'[c] = NoCall
                            \/ /\ call[c].pc # "idle"
                               /\ call'[c].sid = call[c].sid /\ call'[c].data = call[c].data
                            \/ call'[c] = call[c]
    PROVE  SessionsInv'
<1>1. ASSUME NEW c \in Calls PROVE InTime(c)'
  BY NoCallForms DEF StaffInv, SessionsInv, InTime, OfLogin
<1>2. ASSUME NEW i \in Sids PROVE SessionBorn(i)' /\ Coming(i)'
  <2>1. NoCall.sid # i
    BY NoCallForms, StaffAssumption
  <2> QED
    BY <2>1 DEF StaffInv, SessionsInv, SessionBorn, Coming, OfLogin
<1> QED
  BY <1>1, <1>2 DEF StaffInv, SessionsInv

LEMMA LoadKeeps ==
    ASSUME StaffInv, NEW c \in Calls, NEW i \in Sids, LoadSession(c, i)
    PROVE  StaffInv'
<1>1. StaffTypeOK /\ SessionBorn(i) /\ session[i] # NoSession
  BY DEF StaffInv, SessionsInv, LoadSession
<1>2. UNCHANGED <<account, login, time, born, left, revived, given, mixed, outdated>>
  BY DEF LoadSession
<1>3. CASE Over(session[i])
  <2>1. session' = [session EXCEPT ![i] = NoSession] /\ UNCHANGED call
    BY <1>3 DEF LoadSession
  <2>2. StaffTypeOK'
    BY <1>1, <1>2, <2>1, NoSessionForms DEF StaffTypeOK
  <2>3. AccountsInv'
    BY <1>2, <2>1, <2>2, AccountsStay DEF StaffInv
  <2>4. ASSUME NEW j \in Sids PROVE SessionBorn(j)' /\ Coming(j)'
    BY <1>1, <1>2, <2>1 DEF StaffInv, SessionsInv, StaffTypeOK, SessionBorn, Coming, OfLogin
  <2>5. SessionsInv'
    BY <1>1, <1>2, <2>1, <2>2, <2>4 DEF StaffInv, SessionsInv, StaffTypeOK, InTime, OfLogin
  <2> QED
    BY <2>3, <2>5 DEF StaffInv
<1>4. CASE ~Over(session[i])
  <2> DEFINE data == Touched(session[i])
             d == [NoCall EXCEPT !.pc = "loading", !.sid = i, !.data = data]
  <2>1. call' = [call EXCEPT ![c] = d] /\ UNCHANGED session
    BY <1>4 DEF LoadSession
  <2>2. /\ data \in Session /\ data.user = session[i].user
        /\ data.created = session[i].created /\ data.seen = time
    BY <1>1 DEF Touched, Session, StaffTypeOK
  <2>3. d \in Call /\ d.pc = "loading" /\ d.sid = i /\ d.data = data
    BY <2>2, LoadedForms
  <2>4. data.user \in Persons /\ data.created = born[i] /\ data.seen <= born[i] + AbsoluteTime
    <3>1. data.user \in Persons /\ data.created = born[i]
      BY <1>1, <2>2 DEF SessionBorn, OfLogin
    <3>2. ~(time - born[i] > AbsoluteTime)
      BY <1>4, <2>2, <3>1 DEF Over
    <3>3. time \in Int /\ born[i] \in Int
      BY <1>1 DEF StaffTypeOK
    <3> QED
      BY <2>2, <3>1, <3>2, <3>3, StaffAssumption
  <2> HIDE DEF d, data
  <2>5. call' \in [Calls -> Call] /\ call'[c] = d /\ \A x \in Calls \ {c} : call'[x] = call[x]
    BY <1>1, <2>1, <2>3 DEF StaffTypeOK
  <2>6. StaffTypeOK'
    BY <1>1, <1>2, <2>1, <2>5 DEF StaffTypeOK
  <2>7. AccountsInv'
    BY <1>2, <2>3, <2>5, <2>6, AccountsStay DEF StaffInv
  <2>8. ASSUME NEW x \in Calls PROVE InTime(x)'
    <3>1. CASE x = c
      BY <1>2, <2>3, <2>4, <2>5, <3>1 DEF InTime, OfLogin
    <3>2. CASE x # c
      BY <1>2, <2>5, <3>2 DEF StaffInv, SessionsInv, InTime, OfLogin
    <3> QED
      BY <3>1, <3>2
  <2>9. ASSUME NEW j \in Sids PROVE SessionBorn(j)' /\ Coming(j)'
    <3>1. SessionBorn(j) /\ Coming(j) /\ SessionBorn(j)'
      BY <1>2, <2>1 DEF StaffInv, SessionsInv, SessionBorn, OfLogin
    <3>2. login[j] # NoSession => j # i
      BY <1>1, <3>1 DEF Coming
    <3>3. login[j] # NoSession => \A x \in Calls : call'[x].sid # j
      BY <2>3, <2>5, <3>1, <3>2 DEF Coming
    <3>4. Coming(j)'
      BY <1>2, <2>1, <3>1, <3>3 DEF Coming
    <3> QED
      BY <3>1, <3>4
  <2> QED
    BY <1>2, <2>1, <2>6, <2>7, <2>8, <2>9 DEF StaffInv, SessionsInv
<1> QED
  BY <1>3, <1>4

LEMMA AdmitKeeps ==
    ASSUME StaffInv, NEW c \in Calls, Admit(c)
    PROVE  StaffInv'
<1> DEFINE i == call[c].sid
           d == IF call[c].data.roles = {} THEN NoCall ELSE [call[c] EXCEPT !.pc = "admitted"]
<1>1. /\ call[c].pc = "loading"
      /\ session' = [session EXCEPT ![i] = call[c].data]
      /\ revived' = IF session[i] = NoSession THEN revived \cup {i} ELSE revived
      /\ call' = [call EXCEPT ![c] = d]
      /\ UNCHANGED <<account, login, time, born, left, given, mixed, outdated>>
  BY DEF Admit
<1>2. StaffTypeOK /\ InTime(c) /\ call[c] \in Call
  BY DEF StaffInv, SessionsInv, StaffTypeOK
<1>3. i \in Sids /\ OfLogin(call[c].data, i) /\ call[c].data \in Session
  BY <1>1, <1>2 DEF InTime, Call
<1>4. /\ d \in Call
      /\ d = NoCall \/ (d.pc = "admitted" /\ d.sid = i /\ d.data = call[c].data)
  BY <1>2, NoCallForms DEF Call
<1> HIDE DEF d
<1>5. call' \in [Calls -> Call] /\ call'[c] = d /\ \A x \in Calls \ {c} : call'[x] = call[x]
  BY <1>1, <1>2, <1>4 DEF StaffTypeOK
<1>6. StaffTypeOK'
  BY <1>1, <1>2, <1>3, <1>5 DEF StaffTypeOK
<1>7. AccountsInv'
  BY <1>1, <1>4, <1>5, <1>6, AccountsStay, NoCallForms DEF StaffInv
<1>8. ASSUME NEW x \in Calls PROVE InTime(x)'
  <2>1. InTime(x)
    BY DEF StaffInv, SessionsInv
  <2> QED
    BY <1>1, <1>2, <1>4, <1>5, <2>1, NoCallForms DEF InTime, OfLogin
<1>9. ASSUME NEW j \in Sids PROVE SessionBorn(j)' /\ Coming(j)'
  <2>1. SessionBorn(j) /\ Coming(j)
    BY DEF StaffInv, SessionsInv
  <2>2. CASE j = i
    <3>1. login[j] = NoSession
      BY <2>1, <2>2 DEF Coming
    <3> QED
      BY <1>1, <1>2, <1>3, <2>2, <3>1 DEF SessionBorn, Coming, OfLogin, StaffTypeOK
  <2>3. CASE j # i
    <3>1. session'[j] = session[j] /\ login'[j] = login[j] /\ born' = born /\ left' = left
      BY <1>1, <1>2, <2>3 DEF StaffTypeOK
    <3>2. NoCall.sid # j
      BY NoCallForms, StaffAssumption
    <3>3. login[j] # NoSession => \A x \in Calls : call'[x].sid # j
      BY <1>4, <1>5, <2>1, <2>3, <3>2 DEF Coming
    <3> QED
      BY <2>1, <3>1, <3>3 DEF SessionBorn, Coming, OfLogin
  <2> QED
    BY <2>2, <2>3
<1>10. \A j \in left' : session'[j] = NoSession \/ j \in revived'
  <2>1. \A j \in left : j \in Sids /\ (session[j] = NoSession \/ j \in revived)
    BY <1>2 DEF StaffInv, SessionsInv, StaffTypeOK
  <2> QED
    BY <1>1, <1>2, <1>3, <2>1 DEF StaffTypeOK
<1> QED
  BY <1>6, <1>7, <1>8, <1>9, <1>10 DEF StaffInv, SessionsInv

LEMMA FinishKeeps ==
    ASSUME StaffInv, NEW c \in Calls, Finish(c)
    PROVE  StaffInv'
<1>1. /\ call' = [call EXCEPT ![c] = NoCall]
      /\ UNCHANGED <<account, login, session, time, born, left, revived, given, mixed, outdated>>
  BY DEF Finish
<1>2. StaffTypeOK
  BY DEF StaffInv, SessionsInv
<1>3. \A x \in Calls : call'[x] = NoCall \/ call'[x] = call[x]
  BY <1>1, <1>2 DEF StaffTypeOK
<1>4. StaffTypeOK'
  BY <1>1, <1>2, NoCallForms DEF StaffTypeOK
<1> QED
  BY <1>1, <1>3, <1>4, AccountsStay, CallsStay, NoCallForms DEF StaffInv

-----------------------------------------------------------------------------
(* Changes of accounts *)

\* Who changes accounts is known, and is an administrator unless accounts are outdated then.
LEMMA ManagerForms ==
    ASSUME StaffInv, NEW c \in Calls, call[c].pc # "idle"
    PROVE  call[c] \in Call /\ call[c].data.user \in Persons
BY DEF StaffInv, SessionsInv, StaffTypeOK, InTime, OfLogin

LEMMA CreateUserKeeps ==
    ASSUME StaffInv, NEW c \in Calls, NEW u \in Persons, NEW roles \in SUBSET Roles,
           CreateUser(c, u, roles)
    PROVE  StaffInv'
<1> DEFINE row == [status |-> "active", roles |-> roles]
           w == call[c].data.user
<1>1. /\ ManagesUsers(c) /\ account[u].status = "absent"
      /\ account' = [account EXCEPT ![u] = row] /\ given' = [given EXCEPT ![u] = roles]
      /\ outdated' = (outdated \/ ~Administers(account[w]))
      /\ call' = [call EXCEPT ![c] = NoCall]
      /\ UNCHANGED <<login, session, time, born, left, revived, mixed>>
  BY DEF CreateUser, Outdated
<1>2. StaffTypeOK /\ w \in Persons
  BY <1>1, ManagerForms DEF StaffInv, SessionsInv, ManagesUsers
<1>3. row \in Account
  BY DEF Account
<1>4. /\ account' \in [Persons -> Account] /\ account'[u] = row
      /\ \A v \in Persons \ {u} : account'[v] = account[v]
  BY <1>1, <1>2, <1>3 DEF StaffTypeOK
<1>5. call'[c] = NoCall /\ \A x \in Calls \ {c} : call'[x] = call[x]
  BY <1>1, <1>2 DEF StaffTypeOK
<1>6. StaffTypeOK'
  BY <1>1, <1>2, <1>4, NoCallForms DEF StaffTypeOK
<1>7. SessionsInv'
  BY <1>1, <1>5, <1>6, CallsStay
<1>8. (\E v \in Persons : Administers(account'[v])) \/ outdated'
  <2>1. Administers(account[w]) => w # u
    BY <1>1 DEF Administers
  <2> QED
    BY <1>1, <1>2, <1>4, <2>1
<1>9. \A v \in Persons : account'[v].roles = given'[v] \/ v \in mixed'
  BY <1>1, <1>2, <1>4 DEF StaffInv, AccountsInv, AdministratorLeft, StaffTypeOK
<1>10. \A v \in Persons : account'[v].status = "absent" => account'[v].roles = {}
  BY <1>4 DEF StaffInv, AccountsInv
<1>11. ASSUME NEW x \in Calls PROVE Setting(x)'
  BY <1>1, <1>4, <1>5, NoCallForms DEF StaffInv, AccountsInv, Setting, KeepsSelf
<1> QED
  BY <1>6, <1>7, <1>8, <1>9, <1>10, <1>11 DEF StaffInv, AccountsInv, AdministratorLeft

LEMMA SetRolesKeeps ==
    ASSUME StaffInv, NEW c \in Calls, NEW u \in Persons, NEW roles \in SUBSET Roles,
           SetRoles(c, u, roles)
    PROVE  StaffInv'
<1> DEFINE d == [pc |-> "setting", sid |-> call[c].sid, data |-> call[c].data, whom |-> u,
                 new |-> roles, doomed |-> account[u].roles]
<1>1. /\ ManagesUsers(c) /\ KeepsSelf(c, u, roles) /\ account[u].status # "absent"
      /\ call' = [call EXCEPT ![c] = d]
      /\ UNCHANGED <<account, login, session, time, born, left, revived, given, mixed, outdated>>
  BY DEF SetRoles
<1>2. StaffTypeOK /\ call[c] \in Call /\ call[c].pc # "idle"
  BY <1>1, ManagerForms DEF StaffInv, SessionsInv, ManagesUsers
<1>3. /\ d \in Call /\ d.pc = "setting" /\ d.sid = call[c].sid /\ d.data = call[c].data
      /\ d.whom = u /\ d.new = roles /\ d.doomed = account[u].roles
  <2>1. account[u].roles \in SUBSET Roles
    BY <1>2 DEF StaffTypeOK, Account
  <2> QED
    BY <1>2, <2>1 DEF Call
<1> HIDE DEF d
<1>4. call' \in [Calls -> Call] /\ call'[c] = d /\ \A x \in Calls \ {c} : call'[x] = call[x]
  BY <1>1, <1>2, <1>3 DEF StaffTypeOK
<1>5. StaffTypeOK'
  BY <1>1, <1>2, <1>4 DEF StaffTypeOK
<1>6. SessionsInv'
  BY <1>1, <1>2, <1>3, <1>4, <1>5, CallsStay
<1>7. ASSUME NEW x \in Calls PROVE Setting(x)'
  BY <1>1, <1>3, <1>4 DEF StaffInv, AccountsInv, Setting, KeepsSelf
<1> QED
  BY <1>1, <1>5, <1>6, <1>7 DEF StaffInv, AccountsInv, AdministratorLeft

LEMMA DisableUserKeeps ==
    ASSUME StaffInv, NEW c \in Calls, NEW u \in Persons, DisableUser(c, u)
    PROVE  StaffInv'
<1> DEFINE w == call[c].data.user
<1>1. /\ ManagesUsers(c) /\ u # w /\ account[u].status # "absent"
      /\ account' = [account EXCEPT ![u].status = "disabled"]
      /\ outdated' = (outdated \/ ~Administers(account[w]))
      /\ call' = [call EXCEPT ![c] = NoCall]
      /\ UNCHANGED <<login, session, time, born, left, revived, given, mixed>>
  BY DEF DisableUser, Outdated
<1>2. StaffTypeOK /\ w \in Persons
  BY <1>1, ManagerForms DEF StaffInv, SessionsInv, ManagesUsers
<1>3. /\ account' \in [Persons -> Account]
      /\ account'[u].status = "disabled" /\ account'[u].roles = account[u].roles
      /\ \A v \in Persons \ {u} : account'[v] = account[v]
  BY <1>1, <1>2 DEF StaffTypeOK, Account
<1>4. call'[c] = NoCall /\ \A x \in Calls \ {c} : call'[x] = call[x]
  BY <1>1, <1>2 DEF StaffTypeOK
<1>5. StaffTypeOK'
  BY <1>1, <1>2, <1>3, NoCallForms DEF StaffTypeOK
<1>6. SessionsInv'
  BY <1>1, <1>4, <1>5, CallsStay
<1>7. (\E v \in Persons : Administers(account'[v])) \/ outdated'
  BY <1>1, <1>2, <1>3
<1>8. \A v \in Persons : account'[v].roles = given'[v] \/ v \in mixed'
  BY <1>1, <1>3 DEF StaffInv, AccountsInv, AdministratorLeft
<1>9. \A v \in Persons : account'[v].status = "absent" => account'[v].roles = {}
  BY <1>3 DEF StaffInv, AccountsInv
<1>10. ASSUME NEW x \in Calls PROVE Setting(x)'
  BY <1>1, <1>3, <1>4, NoCallForms DEF StaffInv, AccountsInv, Setting, KeepsSelf
<1> QED
  BY <1>5, <1>6, <1>7, <1>8, <1>9, <1>10 DEF StaffInv, AccountsInv, AdministratorLeft

\* Requests that set the roles of one user at once leave them mixed; one that is alone leaves
\* what it gives, unless they were mixed before.
LEMMA RolesCommitKeeps ==
    ASSUME StaffInv, NEW c \in Calls, RolesCommit(c)
    PROVE  StaffInv'
<1> DEFINE u == call[c].whom
           w == call[c].data.user
           kept == Kept(c, u)
           others == {x \in Calls \ {c} : call[x].pc = "setting" /\ call[x].whom = u}
<1>1. call[c].pc = "setting" /\ UNCHANGED <<login, session, time, born, left, revived>>
  BY DEF RolesCommit
<1>2. /\ StaffTypeOK /\ call[c] \in Call /\ w \in Persons /\ Setting(c)
      /\ u \in Persons /\ account[u] \in Account
  BY <1>1, ManagerForms DEF StaffInv, SessionsInv, AccountsInv, Setting, StaffTypeOK
<1>3. CASE call[c].new \cap kept # {}
  <2>1. UNCHANGED <<account, given, mixed, outdated>> /\ call' = [call EXCEPT ![c] = NoCall]
    BY <1>3 DEF RolesCommit
  <2>2. \A x \in Calls : call'[x] = NoCall \/ call'[x] = call[x]
    BY <1>2, <2>1 DEF StaffTypeOK
  <2>3. StaffTypeOK'
    BY <1>1, <1>2, <2>1, NoCallForms DEF StaffTypeOK
  <2> QED
    BY <1>1, <2>1, <2>2, <2>3, AccountsStay, CallsStay, NoCallForms DEF StaffInv
<1>4. CASE ~(call[c].new \cap kept # {})
  <2>1. /\ account' = [account EXCEPT ![u].roles = kept \cup call[c].new]
        /\ given' = [given EXCEPT ![u] = call[c].new]
        /\ mixed' = IF others # {} THEN mixed \cup {u}
                    ELSE IF kept = {} THEN mixed \ {u} ELSE mixed
        /\ outdated' = (outdated \/ ~Administers(account[w]))
        /\ call' = [x \in Calls |->
                      IF x = c THEN NoCall
                      ELSE IF x \in others THEN [call[x] EXCEPT !.doomed = @ \ call[c].doomed]
                      ELSE call[x]]
    BY <1>4 DEF RolesCommit, Outdated
  <2>2. kept \subseteq Roles /\ call[c].new \subseteq Roles
    BY <1>2 DEF Kept, Account, Call
  <2>3. /\ account' \in [Persons -> Account]
        /\ account'[u].status = account[u].status
        /\ account'[u].roles = kept \cup call[c].new
        /\ \A v \in Persons \ {u} : account'[v] = account[v]
    BY <1>2, <2>1, <2>2 DEF StaffTypeOK, Account
  <2>4. ASSUME NEW x \in Calls
        PROVE  /\ call'[x] \in Call
               /\ x = c => call'[x] = NoCall
               /\ x \in others => /\ call'[x].pc = call[x].pc /\ call'[x].sid = call[x].sid
                                  /\ call'[x].data = call[x].data /\ call'[x].whom = u
                                  /\ call'[x].new = call[x].new
               /\ x # c /\ x \notin others => call'[x] = call[x]
    <3>1. call[x] \in Call
      BY <1>2 DEF StaffTypeOK
    <3>2. call'[x] = IF x = c THEN NoCall
                     ELSE IF x \in others THEN [call[x] EXCEPT !.doomed = @ \ call[c].doomed]
                     ELSE call[x]
      BY <2>1
    <3>3. LET d == [call[x] EXCEPT !.doomed = @ \ call[c].doomed]
          IN  /\ d \in Call /\ d.pc = call[x].pc /\ d.sid = call[x].sid
              /\ d.data = call[x].data /\ d.whom = call[x].whom /\ d.new = call[x].new
      BY <3>1 DEF Call
    <3> QED
      BY <3>1, <3>2, <3>3, NoCallForms
  <2>5. StaffTypeOK'
    <3>1. call' \in [Calls -> Call]
      BY <2>1, <2>4
    <3>2. given' \in [Persons -> SUBSET Roles] /\ mixed' \subseteq Persons /\ outdated' \in BOOLEAN
      BY <1>2, <2>1, <2>2 DEF StaffTypeOK
    <3> QED
      BY <1>1, <1>2, <2>3, <3>1, <3>2 DEF StaffTypeOK
  <2>6. SessionsInv'
    <3>1. ASSUME NEW x \in Calls
          PROVE  \/ call'[x] = NoCall
                 \/ /\ call[x].pc # "idle"
                    /\ call'[x].sid = call[x].sid /\ call'[x].data = call[x].data
                 \/ call'[x] = call[x]
      BY <2>4
    <3> QED
      BY <1>1, <2>5, <3>1, CallsStay
  <2>7. (\E v \in Persons : Administers(account'[v])) \/ outdated'
    <3>1. w = u => TenantAdmin \in call[c].new
      BY <1>1, <1>2 DEF Setting, KeepsSelf
    <3>2. Administers(account[w]) => Administers(account'[w])
      BY <1>2, <2>3, <3>1 DEF Administers
    <3> QED
      BY <1>2, <2>1, <3>2
  <2>8. ASSUME NEW v \in Persons PROVE account'[v].roles = given'[v] \/ v \in mixed'
    <3>1. account[v].roles = given[v] \/ v \in mixed
      BY DEF StaffInv, AccountsInv, AdministratorLeft
    <3>2. CASE v # u
      BY <1>2, <2>1, <2>3, <3>1, <3>2 DEF StaffTypeOK
    <3>3. CASE v = u /\ kept = {}
      BY <1>2, <2>1, <2>3, <3>3 DEF StaffTypeOK
    <3>4. CASE v = u /\ kept # {}
      BY <1>1, <1>2, <2>1, <3>4 DEF Setting, Kept
    <3> QED
      BY <3>2, <3>3, <3>4
  <2>9. \A v \in Persons : account'[v].status = "absent" => account'[v].roles = {}
    BY <1>1, <1>2, <2>3 DEF StaffInv, AccountsInv, Setting
  <2>10. ASSUME NEW x \in Calls PROVE Setting(x)'
    <3>1. Setting(x)
      BY DEF StaffInv, AccountsInv
    <3>2. CASE x = c
      BY <2>4, <3>2, NoCallForms DEF Setting
    <3>3. CASE x \in others
      <4>1. call[x].pc = "setting" /\ call[x].whom = u /\ KeepsSelf(x, u, call[x].new)
        BY <3>1, <3>3 DEF Setting
      <4>2. /\ call'[x].pc = "setting" /\ call'[x].whom = u /\ call'[x].new = call[x].new
            /\ call'[x].data = call[x].data
        BY <2>4, <3>3, <4>1
      <4>3. u \in mixed'
        BY <2>1, <3>3
      <4>4. account'[u].status # "absent"
        BY <1>1, <1>2, <2>3 DEF Setting
      <4>5. u # call'[x].data.user \/ TenantAdmin \in call'[x].new
        BY <4>1, <4>2 DEF KeepsSelf
      <4> HIDE DEF u, w, kept, others
      <4> QED
        BY <1>2, <4>2, <4>3, <4>4, <4>5 DEF Setting, KeepsSelf
    <3>4. CASE x # c /\ x \notin others
      BY <2>1, <2>3, <2>4, <3>1, <3>4 DEF Setting, KeepsSelf
    <3> QED
      BY <3>2, <3>3, <3>4
  <2> QED
    BY <2>5, <2>6, <2>7, <2>8, <2>9, <2>10 DEF StaffInv, AccountsInv, AdministratorLeft
<1> QED
  BY <1>3, <1>4

LEMMA StaffStep == StaffInv /\ [StaffNext]_staffVars => StaffInv'
<1> SUFFICES ASSUME StaffInv, [StaffNext]_staffVars PROVE StaffInv'
  OBVIOUS
<1>1. CASE UNCHANGED staffVars
  BY <1>1 DEF staffVars, StaffInv, AccountsInv, AdministratorLeft, StaffTypeOK, Setting, KeepsSelf,
              SessionsInv, SessionBorn, Coming, InTime, OfLogin
<1> QED
  BY <1>1, TickKeeps, LoginKeeps, CreateSessionKeeps, LogoutKeeps, LoadKeeps, AdmitKeeps,
     FinishKeeps, CreateUserKeeps, SetRolesKeeps, RolesCommitKeeps, DisableUserKeeps DEF StaffNext

\* Whatever administrators do at once, one that is active is left, unless accounts were changed on
\* a session whose user was none any more; and a user has the roles that one request gave, unless
\* such requests overlapped (set_roles, create_user and disable_user of the gateway).
THEOREM AdministratorLeftHolds == StaffSpec => []AdministratorLeft
<1>1. StaffInv => AdministratorLeft
  BY DEF StaffInv, AccountsInv
<1> QED
  BY <1>1, StaffInitInv, StaffStep, PTL DEF StaffSpec

\* No session is used later than the absolute time after its login, by any number of requests; and
\* one that is logged out is gone, unless a request that had read it wrote it back (_load_session
\* and logout of the gateway).
THEOREM SessionsEndHolds == StaffSpec => []SessionsEnd
<1>1. StaffInv => SessionsEnd
  BY DEF StaffInv, SessionsInv, InTime, SessionsEnd
<1> QED
  BY <1>1, StaffInitInv, StaffStep, PTL DEF StaffSpec

-----------------------------------------------------------------------------
(* The widget: limits *)

(***************************************************************************)
(* The script of a limit has last run with a clock, or after its log       *)
(* expired at a time (cut): the log holds every message that was admitted  *)
(* less than a window before that (Logged), so that a message admitted     *)
(* with a later clock finds all with which it shares a window.             *)
(***************************************************************************)
Moments == 0 .. MaxMoment

Logged(key) ==
    /\ IsFiniteSet(hits[key])
    /\ \A e \in hits[key] : \E i \in DOMAIN admitted[key] : e = <<admitted[key][i], i>>
    /\ \A i \in DOMAIN admitted[key] :
         /\ admitted[key][i] <= moment /\ admitted[key][i] + Window <= expires[key]
         /\ admitted[key][i] > cut[key] - Window => <<admitted[key][i], i>> \in hits[key]

LimitHeld(key) == \A t \in Moments : Within(key, t) <= LimitOf(key)

LimitsTyped ==
    /\ moment \in Moments
    /\ admitted \in [LimitKeys -> Seq(Moments)]
    /\ hits = [key \in LimitKeys |-> hits[key]]
    /\ expires \in [LimitKeys -> Nat] /\ cut \in [LimitKeys -> Nat]
    /\ belated \subseteq LimitKeys \X Nat

LimitInv(key) ==
    /\ Logged(key) /\ LimitHeld(key) /\ Cardinality(hits[key]) <= LimitOf(key)
    /\ \A i \in Nat : <<key, i>> \in belated => i <= Len(admitted[key])

LimitsInv == LimitsTyped /\ \A key \in LimitKeys : LimitInv(key)

LEMMA LimitsNat == \A key \in LimitKeys : LimitOf(key) \in Nat
BY WidgetAssumption DEF LimitOf

LEMMA AddOne ==
    ASSUME NEW S, NEW x, IsFiniteSet(S)
    PROVE  /\ IsFiniteSet(S \cup {x}) /\ Cardinality(S \cup {x}) \in Nat
           /\ Cardinality(S \cup {x}) <= Cardinality(S) + 1
<1>1. Cardinality(S \cup {x}) = IF x \in S THEN Cardinality(S) ELSE Cardinality(S) + 1
  BY FS_AddElement
<1>2. IsFiniteSet(S \cup {x})
  BY FS_AddElement
<1>3. Cardinality(S) \in Nat /\ Cardinality(S \cup {x}) \in Nat
  BY <1>2, FS_CardinalityType
<1> QED
  BY <1>1, <1>2, <1>3

\* What the script finds in the log is small, and all that it could have to count.
LEMMA RecentForms ==
    ASSUME LimitsInv, NEW key \in LimitKeys, NEW clock \in Moments
    PROVE  /\ IsFiniteSet(Recent(key, clock)) /\ Cardinality(Recent(key, clock)) \in Nat
           /\ Cardinality(Recent(key, clock)) <= LimitOf(key)
           /\ \A e \in Recent(key, clock) : e \in hits[key]
<1>1. IsFiniteSet(hits[key]) /\ Recent(key, clock) \in SUBSET hits[key]
  BY DEF LimitsInv, LimitInv, Logged, Recent, Log
<1>2. IsFiniteSet(Recent(key, clock)) /\ Cardinality(Recent(key, clock)) <= Cardinality(hits[key])
  BY <1>1, FS_Subset
<1>3. Cardinality(Recent(key, clock)) \in Nat /\ Cardinality(hits[key]) \in Nat
  BY <1>1, <1>2, FS_CardinalityType
<1> QED
  BY <1>1, <1>2, <1>3, LimitsNat DEF LimitsInv, LimitInv

LEMMA CutForms ==
    ASSUME LimitsInv, NEW key \in LimitKeys, NEW clock \in Moments
    PROVE  LET c == IF clock > CutAt(key) THEN clock ELSE CutAt(key)
           IN  /\ CutAt(key) \in Nat /\ c \in Nat /\ c >= clock /\ c >= CutAt(key)
               /\ \A i \in DOMAIN admitted[key] :
                    admitted[key][i] > c - Window
                        => <<admitted[key][i], i>> \in Recent(key, clock)
<1> USE WidgetAssumption
<1> DEFINE c == IF clock > CutAt(key) THEN clock ELSE CutAt(key)
<1>1. /\ expires[key] \in Nat /\ cut[key] \in Nat /\ moment \in Nat /\ clock \in Nat
      /\ Logged(key) /\ admitted[key] \in Seq(Moments)
  BY DEF LimitsInv, LimitsTyped, LimitInv, Moments
<1>2. /\ CutAt(key) \in Nat /\ CutAt(key) >= cut[key]
      /\ Gone(key) => CutAt(key) >= expires[key]
  BY <1>1 DEF CutAt
<1>3. c \in Nat /\ c >= clock /\ c >= CutAt(key)
  BY <1>1, <1>2
<1> HIDE DEF c
<1>4. ASSUME NEW i \in DOMAIN admitted[key], admitted[key][i] > c - Window
      PROVE  <<admitted[key][i], i>> \in Recent(key, clock)
  <2> DEFINE a == admitted[key][i]
  <2>1. a \in Nat
    BY <1>1 DEF Moments
  <2>2. a + Window <= expires[key] /\ (a > cut[key] - Window => <<a, i>> \in hits[key])
    BY <1>1 DEF Logged
  <2> HIDE DEF a
  <2>3. a > c - Window
    BY <1>4 DEF a
  <2>4. ~Gone(key)
    BY <1>1, <1>2, <1>3, <2>1, <2>2, <2>3
  <2>5. a > cut[key] - Window /\ a > clock - Window
    BY <1>1, <1>2, <1>3, <2>1, <2>3
  <2>6. <<a, i>> \in Recent(key, clock)
    BY <2>2, <2>4, <2>5 DEF Recent, Log
  <2> QED
    BY <2>6 DEF a
<1> QED
  BY <1>2, <1>3, <1>4 DEF c

\* A limit touches its own key only.
LEMMA OtherKeys ==
    ASSUME LimitsInv, NEW key \in LimitKeys, NEW k \in LimitKeys \ {key},
           hits'[k] = hits[k], admitted'[k] = admitted[k], expires'[k] = expires[k],
           cut'[k] = cut[k], \A i \in Nat : <<k, i>> \in belated' => <<k, i>> \in belated,
           belated \subseteq belated', UNCHANGED moment
    PROVE  LimitInv(k)'
<1>1. LimitInv(k) /\ \A i \in Nat : <<k, i>> \in belated' <=> <<k, i>> \in belated
  BY DEF LimitsInv
<1>2. Logged(k)'
  BY <1>1 DEF LimitInv, Logged
<1>3. \A t \in Moments : Within(k, t)' = Within(k, t)
  <2>1. \A i \in DOMAIN admitted[k] : i \in Nat
    BY DEF LimitsInv, LimitsTyped
  <2> QED
    BY <1>1, <2>1 DEF Within
<1>4. LimitHeld(k)'
  BY <1>1, <1>3 DEF LimitInv, LimitHeld, LimitOf
<1> QED
  BY <1>1, <1>2, <1>4 DEF LimitInv, LimitOf

\* A message is refused, and its key's old entries are dropped.
LEMMA RefuseKeeps ==
    ASSUME LimitsInv, NEW key \in LimitKeys, NEW clock \in Moments, clock <= moment,
           hits' = [hits EXCEPT ![key] = Recent(key, clock)],
           cut' = [cut EXCEPT ![key] = IF clock > CutAt(key) THEN clock ELSE CutAt(key)],
           UNCHANGED <<moment, admitted, expires, belated>>
    PROVE  LimitsInv'
<1> DEFINE c == IF clock > CutAt(key) THEN clock ELSE CutAt(key)
<1>2. /\ c \in Nat
      /\ \A i \in DOMAIN admitted[key] :
           admitted[key][i] > c - Window => <<admitted[key][i], i>> \in Recent(key, clock)
  BY CutForms
<1>c. cut' = [cut EXCEPT ![key] = c]
  OBVIOUS
<1> HIDE DEF c
<1>1. /\ hits' = [k \in LimitKeys |-> hits'[k]] /\ hits'[key] = Recent(key, clock)
      /\ \A k \in LimitKeys \ {key} : hits'[k] = hits[k] /\ cut'[k] = cut[k]
      /\ cut' \in [LimitKeys -> Nat] /\ cut'[key] = c
  BY <1>2, <1>c DEF LimitsInv, LimitsTyped
<1>3. Logged(key) /\ LimitHeld(key)
  BY DEF LimitsInv, LimitInv
<1>4. Logged(key)'
  <2>1. IsFiniteSet(hits'[key]) /\ \A e \in hits'[key] : e \in hits[key]
    BY <1>1, RecentForms
  <2> QED
    BY <1>1, <1>2, <1>3, <2>1 DEF Logged
<1>5. LimitHeld(key)'
  BY <1>3 DEF LimitHeld, Within, LimitOf
<1>6. LimitInv(key)'
  BY <1>1, <1>4, <1>5, RecentForms DEF LimitsInv, LimitInv, LimitOf
<1>7. \A k \in LimitKeys \ {key} : LimitInv(k)'
  BY <1>1, OtherKeys
<1>8. LimitsTyped'
  BY <1>1 DEF LimitsInv, LimitsTyped
<1> QED
  BY <1>6, <1>7, <1>8 DEF LimitsInv, LimitKeys

\* A message is admitted: unless it is belated, every window that contains it begins after
\* everything that its script has not found.
LEMMA AdmitKeepsLimits ==
    ASSUME LimitsInv, NEW key \in LimitKeys, NEW clock \in Moments, clock <= moment,
           Cardinality(Recent(key, clock)) < LimitOf(key),
           hits' = [hits EXCEPT ![key] = Recent(key, clock)
                                             \cup {<<clock, Len(admitted[key]) + 1>>}],
           expires' = [expires EXCEPT ![key] = moment + Window],
           admitted' = [admitted EXCEPT ![key] = Append(admitted[key], clock)],
           belated' = IF clock < CutAt(key) THEN belated \cup {<<key, Len(admitted[key]) + 1>>}
                      ELSE belated,
           cut' = [cut EXCEPT ![key] = IF clock > CutAt(key) THEN clock ELSE CutAt(key)],
           UNCHANGED moment
    PROVE  LimitsInv'
<1> USE WidgetAssumption
<1> DEFINE old == admitted[key]
           n == Len(old) + 1
           e == <<clock, n>>
           c == IF clock > CutAt(key) THEN clock ELSE CutAt(key)
<1>1. /\ old \in Seq(Moments) /\ Len(old) \in Nat /\ DOMAIN old = 1 .. Len(old)
      /\ moment \in Moments /\ moment \in Nat /\ clock \in Nat
  BY DEF LimitsInv, LimitsTyped, Moments
<1>2. /\ admitted' \in [LimitKeys -> Seq(Moments)] /\ admitted'[key] = Append(old, clock)
      /\ \A k \in LimitKeys \ {key} : admitted'[k] = admitted[k]
  BY <1>1, AppendProperties DEF LimitsInv, LimitsTyped
<1>c. cut' = [cut EXCEPT ![key] = c] /\ c \in Nat
  BY CutForms
<1>4. /\ \A i \in DOMAIN old : old[i] > c - Window => <<old[i], i>> \in Recent(key, clock)
      /\ c \in Nat /\ CutAt(key) \in Nat /\ (~(clock < CutAt(key)) => c = clock)
  <2>1. clock \in Int /\ CutAt(key) \in Nat
    BY <1>1, CutForms
  <2> QED
    BY <2>1, CutForms
<1> HIDE DEF c
<1>3. /\ hits' = [k \in LimitKeys |-> hits'[k]] /\ hits'[key] = Recent(key, clock) \cup {e}
      /\ \A k \in LimitKeys \ {key} : /\ hits'[k] = hits[k] /\ expires'[k] = expires[k]
                                      /\ cut'[k] = cut[k]
      /\ expires' \in [LimitKeys -> Nat] /\ expires'[key] = moment + Window
      /\ cut' \in [LimitKeys -> Nat] /\ cut'[key] = c
  <2>1. /\ hits' = [k \in LimitKeys |-> hits'[k]] /\ hits'[key] = Recent(key, clock) \cup {e}
        /\ \A k \in LimitKeys \ {key} : hits'[k] = hits[k]
    BY DEF LimitsInv, LimitsTyped
  <2>2. /\ \A k \in LimitKeys \ {key} : expires'[k] = expires[k]
        /\ expires' \in [LimitKeys -> Nat] /\ expires'[key] = moment + Window
    BY <1>1 DEF LimitsInv, LimitsTyped
  <2>3. /\ \A k \in LimitKeys \ {key} : cut'[k] = cut[k]
        /\ cut' \in [LimitKeys -> Nat] /\ cut'[key] = c
    BY <1>c DEF LimitsInv, LimitsTyped
  <2> QED
    BY <2>1, <2>2, <2>3
<1>5. /\ DOMAIN admitted'[key] = 1 .. n /\ Len(admitted'[key]) = n
      /\ admitted'[key][n] = clock
      /\ \A i \in DOMAIN old : i \in 1 .. n /\ admitted'[key][i] = old[i]
      /\ \A i \in 1 .. n : i = n \/ i \in DOMAIN old
  <2>1. Len(admitted'[key]) = n /\ admitted'[key] \in Seq(Moments)
    BY <1>1, <1>2, AppendProperties
  <2>2. \A i \in 1 .. Len(old) : admitted'[key][i] = old[i]
    BY <1>1, <1>2, AppendProperties
  <2>3. admitted'[key][n] = clock
    BY <1>1, <1>2, AppendProperties
  <2> QED
    BY <1>1, <2>1, <2>2, <2>3
<1>6. Logged(key) /\ LimitHeld(key) /\ \A i \in Nat : <<key, i>> \in belated => i <= Len(old)
  BY DEF LimitsInv, LimitInv
<1>7. /\ belated' \subseteq LimitKeys \X Nat /\ belated \subseteq belated'
      /\ \A k \in LimitKeys, i \in Nat :
           <<k, i>> \in belated' <=> \/ <<k, i>> \in belated
                                     \/ k = key /\ i = n /\ clock < CutAt(key)
  <2>1. belated \subseteq LimitKeys \X Nat /\ <<key, n>> \in LimitKeys \X Nat
    BY <1>1 DEF LimitsInv, LimitsTyped
  <2>2. CASE clock < CutAt(key)
    <3>1. belated' = belated \cup {<<key, n>>}
      BY <2>2
    <3>2. \A k \in LimitKeys, i \in Nat : <<k, i>> = <<key, n>> <=> k = key /\ i = n
      OBVIOUS
    <3> HIDE DEF n
    <3> QED
      BY <2>1, <2>2, <3>1, <3>2
  <2>3. CASE ~(clock < CutAt(key))
    <3>1. belated' = belated
      BY <2>3
    <3> QED
      BY <2>1, <2>3, <3>1
  <2> QED
    BY <2>2, <2>3
<1>8. Logged(key)'
  <2>1. IsFiniteSet(hits'[key])
    BY <1>3, RecentForms, AddOne
  <2>2. \A d \in hits'[key] : \E i \in DOMAIN admitted'[key] : d = <<admitted'[key][i], i>>
    <3> SUFFICES ASSUME NEW d \in hits'[key]
                 PROVE  \E i \in DOMAIN admitted'[key] : d = <<admitted'[key][i], i>>
      OBVIOUS
    <3>1. CASE d = e
      BY <1>1, <1>5, <3>1
    <3>2. CASE d \in Recent(key, clock)
      <4>1. PICK i \in DOMAIN old : d = <<old[i], i>>
        BY <1>6, <3>2, RecentForms DEF Logged
      <4> QED
        BY <1>5, <4>1
    <3> QED
      BY <1>3, <3>1, <3>2
  <2>3. ASSUME NEW i \in DOMAIN admitted'[key]
        PROVE  /\ admitted'[key][i] <= moment /\ admitted'[key][i] + Window <= expires'[key]
               /\ admitted'[key][i] > cut'[key] - Window
                     => <<admitted'[key][i], i>> \in hits'[key]
    <3>1. CASE i = n
      BY <1>1, <1>3, <1>5, <3>1
    <3>2. CASE i \in DOMAIN old
      <4>1. old[i] \in Nat
        BY <1>1, <3>2 DEF Moments
      <4>2. old[i] <= moment
        BY <1>6, <3>2 DEF Logged
      <4>3. admitted'[key][i] = old[i]
        BY <1>5, <3>2
      <4>4. old[i] + Window <= moment + Window
        BY <1>1, <4>1, <4>2
      <4>5. old[i] > c - Window => <<old[i], i>> \in hits'[key]
        BY <1>3, <1>4, <3>2
      <4> QED
        BY <1>3, <4>2, <4>3, <4>4, <4>5
    <3> QED
      BY <1>5, <3>1, <3>2
  <2> QED
    BY <2>1, <2>2, <2>3 DEF Logged
<1>9. LimitHeld(key)'
  <2> SUFFICES ASSUME NEW t \in Moments PROVE Within(key, t)' <= LimitOf(key)
    BY DEF LimitHeld, LimitOf
  <2> DEFINE W == {i \in 1 .. n : /\ admitted'[key][i] \in t .. (t + Window - 1)
                                  /\ <<key, i>> \notin belated'}
             V == {i \in DOMAIN old : /\ old[i] \in t .. (t + Window - 1)
                                      /\ <<key, i>> \notin belated}
  <2>1. Within(key, t)' = Cardinality(W) /\ Within(key, t) = Cardinality(V)
    BY <1>5 DEF Within
  <2>2. \A i \in DOMAIN old : i \in Nat /\ i # n
    BY <1>1
  <2>3. CASE n \notin W
    <3>1. W = V
      BY <1>1, <1>5, <1>7, <2>2, <2>3
    <3> QED
      BY <1>6, <2>1, <3>1 DEF LimitHeld
  <2>4. CASE n \in W
    <3> DEFINE f == [i \in W |-> <<admitted'[key][i], i>>]
               T == Recent(key, clock) \cup {e}
    <3>1. clock \in t .. (t + Window - 1) /\ c = clock
      BY <1>1, <1>4, <1>5, <1>7, <2>4
    <3>2. ASSUME NEW i \in W PROVE f[i] \in T
      <4>1. CASE i = n
        BY <1>5, <4>1
      <4>2. CASE i \in DOMAIN old
        <5>1. old[i] \in t .. (t + Window - 1) /\ old[i] \in Int
          BY <1>1, <1>5, <4>2 DEF Moments
        <5>2. old[i] > clock - Window
          BY <1>1, <3>1, <5>1 DEF Moments
        <5>3. <<old[i], i>> \in Recent(key, clock)
          BY <1>4, <3>1, <4>2, <5>2
        <5> QED
          BY <1>5, <4>2, <5>3
      <4> QED
        BY <1>5, <4>1, <4>2
    <3>3. f \in Injection(W, T)
      <4>1. \A i, j \in W : f[i] = f[j] => i = j
        OBVIOUS
      <4>2. f \in [W -> T]
        BY <3>2
      <4> HIDE DEF f, W, T
      <4> QED
        BY <4>1, <4>2 DEF Injection, IsInjective
    <3>4. /\ IsFiniteSet(T) /\ Cardinality(T) <= Cardinality(Recent(key, clock)) + 1
          /\ Cardinality(T) \in Nat /\ Cardinality(Recent(key, clock)) \in Nat
      BY RecentForms, AddOne
    <3> HIDE DEF f, W, T
    <3>5. Cardinality(W) <= Cardinality(T) /\ IsFiniteSet(W)
      BY <3>3, <3>4, FS_Injection
    <3>6. Cardinality(W) \in Nat
      BY <3>5, FS_CardinalityType
    <3> QED
      BY <2>1, <3>4, <3>5, <3>6, LimitsNat
  <2> QED
    BY <2>3, <2>4
<1>10. Cardinality(hits'[key]) <= LimitOf(key)
  <2>1. /\ Cardinality(hits'[key]) <= Cardinality(Recent(key, clock)) + 1
        /\ Cardinality(hits'[key]) \in Nat
    BY <1>3, RecentForms, AddOne
  <2> QED
    BY <2>1, RecentForms, LimitsNat
<1>11. LimitInv(key)'
  BY <1>1, <1>5, <1>6, <1>7, <1>8, <1>9, <1>10 DEF LimitInv, LimitOf
<1>12. \A k \in LimitKeys \ {key} : LimitInv(k)'
  <2> SUFFICES ASSUME NEW k \in LimitKeys \ {key} PROVE LimitInv(k)'
    OBVIOUS
  <2>1. \A i \in Nat : <<k, i>> \in belated' => <<k, i>> \in belated
    BY <1>7
  <2> QED
    BY <1>2, <1>3, <1>7, <2>1, OtherKeys
<1>13. LimitsTyped'
  BY <1>1, <1>2, <1>3, <1>7 DEF LimitsTyped
<1> QED
  BY <1>11, <1>12, <1>13 DEF LimitsInv, LimitKeys

\* Time passes.
LEMMA PassingKeeps ==
    ASSUME LimitsInv, moment' = moment + 1, moment < MaxMoment, UNCHANGED limitVars
    PROVE  LimitsInv'
<1> USE WidgetAssumption
<1>1. /\ UNCHANGED hits /\ UNCHANGED admitted /\ UNCHANGED expires /\ UNCHANGED cut
      /\ UNCHANGED belated
  BY DEF limitVars
<1>2. moment \in Moments /\ moment \in Int /\ moment' \in Moments
  BY DEF LimitsInv, LimitsTyped, Moments
<1>3. ASSUME NEW key \in LimitKeys PROVE LimitInv(key)'
  <2>1. LimitInv(key) /\ admitted[key] \in Seq(Moments)
    BY DEF LimitsInv, LimitsTyped
  <2>2. ASSUME NEW i \in DOMAIN admitted[key] PROVE admitted[key][i] <= moment'
    <3>1. admitted[key][i] \in Int
      BY <2>1 DEF Moments
    <3>2. admitted[key][i] <= moment
      BY <2>1 DEF LimitInv, Logged
    <3> QED
      BY <1>2, <3>1, <3>2
  <2>3. Logged(key)'
    BY <1>1, <2>1, <2>2 DEF LimitInv, Logged
  <2>4. LimitHeld(key)'
    BY <1>1, <2>1 DEF LimitInv, LimitHeld, Within, LimitOf
  <2> QED
    BY <1>1, <2>1, <2>3, <2>4 DEF LimitInv, LimitOf
<1> QED
  BY <1>1, <1>2, <1>3 DEF LimitsInv, LimitsTyped, LimitKeys

\* Nothing of the limits changes.
LEMMA LimitsKept == LimitsInv /\ UNCHANGED <<moment, limitVars>> => LimitsInv'
<1> SUFFICES ASSUME LimitsInv, UNCHANGED <<moment, limitVars>> PROVE LimitsInv'
  OBVIOUS
<1>1. /\ UNCHANGED moment /\ UNCHANGED hits /\ UNCHANGED admitted /\ UNCHANGED expires
      /\ UNCHANGED cut /\ UNCHANGED belated
  BY DEF limitVars
<1>2. ASSUME NEW key \in LimitKeys PROVE LimitInv(key)'
  BY <1>1 DEF LimitsInv, LimitInv, Logged, LimitHeld, Within, LimitOf
<1> QED
  BY <1>1, <1>2 DEF LimitsInv, LimitsTyped, LimitKeys

-----------------------------------------------------------------------------
(* The widget: repetitions *)

(***************************************************************************)
(* While the messages of a session come one by one, the session says how   *)
(* often the last text was handed on (Steady), or will once the message    *)
(* that has written it is handed on or refused (Counts).                   *)
(***************************************************************************)
Streak == [text : Texts \cup {NoText}, n : Nat]

Steady(v) ==
    \/ MaxRepeat = 0 /\ streak[v].n = 0
    \/ streak[v].text = visit[v].last_text /\ streak[v].n <= visit[v].repeat + 1

Counts(p) ==
    LET v == post[p].visit
    IN  /\ post[p].data.last_text = post[p].text
        /\ \/ MaxRepeat = 0 /\ streak[v].n = 0
           \/ streak[v].text = post[p].text /\ streak[v].n <= post[p].data.repeat
           \/ streak[v].text # post[p].text /\ post[p].data.repeat = 0

Of(p, v) == post[p] # IdlePost /\ post[p].visit = v

PostInv(p) ==
    /\ post[p] = IdlePost \/ post[p] \in Post
    /\ post[p] # IdlePost => /\ visit[post[p].visit].open /\ post[p].data.open
                             /\ post[p].at <= moment
    /\ post[p] # IdlePost /\ post[p].visit \notin tangled =>
         /\ post[p].data = visit[post[p].visit]
         /\ post[p].pc = "put" => Counts(p)

VisitInv(v) ==
    v \notin tangled =>
        /\ \A p, q \in Posts : Of(p, v) /\ Of(q, v) => p = q
        /\ streak[v].n <= MaxRepeat
        /\ Steady(v) \/ \E p \in Posts : Of(p, v) /\ post[p].pc = "put"

VisitsInv ==
    /\ visit \in [Visits -> Visit] /\ streak \in [Visits -> Streak] /\ tangled \subseteq Visits
    /\ post = [p \in Posts |-> post[p]]
    /\ \A p \in Posts : PostInv(p)
    /\ \A v \in Visits : VisitInv(v)

WidgetInv == LimitsInv /\ VisitsInv

LEMMA WidgetInvHeld == WidgetInv => WidgetHeld
BY DEF WidgetInv, LimitsInv, LimitsTyped, LimitInv, VisitsInv, PostInv, VisitInv, WidgetHeld,
       WidgetTypeOK, LimitHeld, Moments

LEMMA WidgetInitInv == WidgetInit => WidgetInv
<1> SUFFICES ASSUME WidgetInit PROVE WidgetInv
  OBVIOUS
<1> USE WidgetAssumption
<1>1. LimitsInv
  <2>1. /\ moment \in Moments /\ hits = [key \in LimitKeys |-> hits[key]] /\ belated = {}
        /\ expires \in [LimitKeys -> Nat] /\ cut \in [LimitKeys -> Nat]
        /\ \A key \in LimitKeys : hits[key] = {} /\ admitted[key] = <<>>
    BY DEF WidgetInit, Moments
  <2>2. admitted \in [LimitKeys -> Seq(Moments)]
    <3>1. <<>> \in Seq(Moments)
      OBVIOUS
    <3> QED
      BY <3>1 DEF WidgetInit
  <2>3. ASSUME NEW key \in LimitKeys PROVE LimitInv(key)
    <3>1. IsFiniteSet(hits[key]) /\ Cardinality(hits[key]) = 0 /\ LimitOf(key) \in Nat
      BY <2>1, FS_EmptySet, LimitsNat
    <3>2. DOMAIN admitted[key] = {}
      BY <2>1
    <3>3. ASSUME NEW t \in Moments PROVE Within(key, t) = 0
      <4> DEFINE W == {i \in DOMAIN admitted[key] : /\ admitted[key][i] \in t .. (t + Window - 1)
                                                    /\ <<key, i>> \notin belated}
      <4>1. W = {}
        BY <3>2
      <4>2. Cardinality(W) = 0
        BY <4>1, FS_EmptySet
      <4> QED
        BY <4>2 DEF Within
    <3> QED
      BY <2>1, <3>1, <3>2, <3>3 DEF LimitInv, Logged, LimitHeld
  <2> QED
    BY <2>1, <2>2, <2>3 DEF LimitsInv, LimitsTyped
<1>2. VisitsInv
  BY DEF WidgetInit, VisitsInv, PostInv, VisitInv, Steady, Visit, Streak, Of
<1> QED
  BY <1>1, <1>2 DEF WidgetInv

-----------------------------------------------------------------------------
(* Steps of the widget *)

LEMMA OpenKeeps ==
    ASSUME WidgetInv, NEW v \in Visits, OpenVisit(v)
    PROVE  WidgetInv'
<1>1. /\ ~visit[v].open /\ visit' = [visit EXCEPT ![v].open = TRUE]
      /\ UNCHANGED <<moment, post, limitVars, streak, tangled>>
  BY DEF OpenVisit
<1>2. LimitsInv'
  BY <1>1, LimitsKept DEF WidgetInv
<1>3. visit[v] \in Visit /\ visit \in [Visits -> Visit]
  BY DEF WidgetInv, VisitsInv
<1>4. /\ visit' \in [Visits -> Visit] /\ visit'[v].open
      /\ visit'[v].last_text = visit[v].last_text /\ visit'[v].repeat = visit[v].repeat
      /\ \A w \in Visits \ {v} : visit'[w] = visit[w]
  BY <1>1, <1>3 DEF Visit
<1>5. ASSUME NEW p \in Posts PROVE PostInv(p)'
  <2>1. PostInv(p)
    BY DEF WidgetInv, VisitsInv
  <2>2. post[p] # IdlePost => post[p].visit \in Visits \ {v}
    BY <1>1, <2>1 DEF PostInv, Post
  <2> QED
    BY <1>1, <1>4, <2>1, <2>2 DEF PostInv, Counts
<1>6. ASSUME NEW w \in Visits PROVE VisitInv(w)'
  BY <1>1, <1>4 DEF WidgetInv, VisitsInv, VisitInv, Steady, Of
<1> QED
  BY <1>1, <1>2, <1>4, <1>5, <1>6 DEF WidgetInv, VisitsInv

LEMMA ReadKeepsVisits ==
    ASSUME WidgetInv, NEW p \in Posts, NEW v \in Visits, NEW text \in Texts, ReadVisit(p, v, text)
    PROVE  WidgetInv'
<1> DEFINE d == [pc |-> "read", visit |-> v, text |-> text, data |-> visit[v], at |-> NoTime]
<1>1. /\ post[p].pc = "idle" /\ visit[v].open
      /\ post' = [post EXCEPT ![p] = d]
      /\ tangled' = IF \E x \in Posts : Of(x, v) THEN tangled \cup {v} ELSE tangled
      /\ UNCHANGED <<moment, visit, limitVars, streak>>
  BY DEF ReadVisit, Of
<1>2. LimitsInv'
  BY <1>1, LimitsKept DEF WidgetInv
<1>3. visit[v] \in Visit /\ PostInv(p)
  BY DEF WidgetInv, VisitsInv
<1>4. d \in Post /\ d # IdlePost /\ post[p] = IdlePost
  <2>1. d \in Post
    BY <1>3, WidgetAssumption DEF Post, NoTime
  <2>2. d.pc = "read" /\ IdlePost.pc = "idle"
    BY DEF IdlePost
  <2>3. post[p] = IdlePost
    BY <1>1, <1>3 DEF PostInv, Post
  <2> QED
    BY <2>1, <2>2, <2>3
<1>5. post'[p] = d /\ (\A x \in Posts \ {p} : post'[x] = post[x]) /\ tangled \subseteq tangled'
  BY <1>1 DEF WidgetInv, VisitsInv
<1>6. post' = [x \in Posts |-> post'[x]] /\ tangled' \subseteq Visits
  BY <1>1 DEF WidgetInv, VisitsInv
<1>7. ASSUME NEW x \in Posts PROVE PostInv(x)'
  <2>1. CASE x = p
    <3>1. d.at <= moment /\ d.data = visit[v] /\ d.visit = v /\ d.pc = "read"
      BY DEF NoTime, WidgetInv, LimitsInv, LimitsTyped, Moments
    <3> HIDE DEF d
    <3> QED
      BY <1>1, <1>4, <1>5, <2>1, <3>1 DEF PostInv
  <2>2. CASE x # p
    BY <1>1, <1>5, <2>2 DEF WidgetInv, VisitsInv, PostInv, Counts
  <2> QED
    BY <2>1, <2>2
<1>8. ASSUME NEW w \in Visits PROVE VisitInv(w)'
  <2> SUFFICES ASSUME w \notin tangled' PROVE VisitInv(w)'
    BY DEF VisitInv
  <2>1. VisitInv(w) /\ w \notin tangled
    BY <1>5 DEF WidgetInv, VisitsInv
  <2>2. \A x \in Posts : Of(x, w)' <=> Of(x, w) \/ (x = p /\ w = v)
    BY <1>4, <1>5 DEF Of
  <2>3. w = v => \A x \in Posts : ~Of(x, v)
    BY <1>1
  <2>4. \A x, y \in Posts : Of(x, w)' /\ Of(y, w)' => x = y
    BY <2>1, <2>2, <2>3 DEF VisitInv
  <2>5. Steady(w)' \/ \E x \in Posts : Of(x, w)' /\ post'[x].pc = "put"
    <3>1. CASE Steady(w)
      BY <1>1, <3>1 DEF Steady
    <3>2. CASE ~Steady(w)
      <4>1. PICK x \in Posts : Of(x, w) /\ post[x].pc = "put"
        BY <2>1, <3>2 DEF VisitInv
      <4>2. x # p
        BY <1>4, <4>1 DEF Of
      <4> QED
        BY <1>5, <2>2, <4>1, <4>2
    <3> QED
      BY <3>1, <3>2
  <2> QED
    BY <1>1, <2>1, <2>4, <2>5 DEF VisitInv
<1> QED
  BY <1>1, <1>2, <1>6, <1>7, <1>8 DEF WidgetInv, VisitsInv

\* Message p goes on with its session as read, before it has written the session back, or is over.
LEMMA PostKeeps ==
    ASSUME WidgetInv, NEW p \in Posts, NEW d, post[p] \in Post, post[p].pc # "put",
           post' = [post EXCEPT ![p] = d], UNCHANGED <<moment, visit, streak, tangled>>,
           \/ d = IdlePost
           \/ /\ d \in Post /\ d.pc # "put" /\ d.at <= moment
              /\ d.visit = post[p].visit /\ d.data = post[p].data
    PROVE  VisitsInv'
<1>1. post'[p] = d /\ \A x \in Posts \ {p} : post'[x] = post[x]
  BY DEF WidgetInv, VisitsInv
<1>2. PostInv(p) /\ post[p] # IdlePost
  <2>1. PostInv(p)
    BY DEF WidgetInv, VisitsInv
  <2>2. post[p].pc # "idle" /\ IdlePost.pc = "idle"
    BY DEF Post, IdlePost
  <2> QED
    BY <2>1, <2>2
<1>3. ASSUME NEW x \in Posts PROVE PostInv(x)'
  BY <1>1, <1>2 DEF WidgetInv, VisitsInv, PostInv, Counts
<1>4. ASSUME NEW w \in Visits PROVE VisitInv(w)'
  <2>1. VisitInv(w)
    BY DEF WidgetInv, VisitsInv
  <2>2. \A x \in Posts : Of(x, w)' => Of(x, w)
    BY <1>1, <1>2 DEF Of
  <2>3. \A x \in Posts : Of(x, w) /\ post[x].pc = "put" => Of(x, w)' /\ post'[x].pc = "put"
    BY <1>1 DEF Of
  <2> QED
    BY <2>1, <2>2, <2>3 DEF VisitInv, Steady
<1>5. post' = [x \in Posts |-> post'[x]]
  BY DEF WidgetInv, VisitsInv
<1> QED
  BY <1>3, <1>4, <1>5 DEF WidgetInv, VisitsInv

LEMMA PostForms ==
    ASSUME WidgetInv, NEW p \in Posts, post[p].pc # "idle"
    PROVE  /\ post[p] \in Post /\ post[p] # IdlePost /\ PostInv(p)
           /\ post[p].visit \in Visits /\ post[p].text \in Texts /\ post[p].data \in Visit
BY DEF WidgetInv, VisitsInv, PostInv, IdlePost, Post

\* The clock is read: it is not later than now.
LEMMA ReadClockKeeps ==
    ASSUME WidgetInv, NEW p \in Posts, ReadClock(p)
    PROVE  WidgetInv'
<1> USE WidgetAssumption
<1> DEFINE d == [post[p] EXCEPT !.at = moment]
<1>1. /\ post[p].pc \in {"read", "tenant"} /\ post' = [post EXCEPT ![p] = d]
      /\ UNCHANGED <<moment, visit, limitVars, streak, tangled>>
  BY DEF ReadClock
<1>2. LimitsInv'
  BY <1>1, LimitsKept DEF WidgetInv
<1>3. post[p] \in Post /\ moment \in 0..MaxMoment
  BY <1>1, PostForms DEF WidgetInv, LimitsInv, LimitsTyped, Moments
<1>4. /\ d \in Post /\ d.pc # "put" /\ d.at = moment
      /\ d.visit = post[p].visit /\ d.data = post[p].data
  BY <1>1, <1>3 DEF Post
<1>5. d.at <= moment
  BY <1>3, <1>4
<1> HIDE DEF d
<1>6. VisitsInv'
  BY <1>1, <1>3, <1>4, <1>5, PostKeeps
<1> QED
  BY <1>2, <1>6 DEF WidgetInv

LEMMA LimitKeeps ==
    ASSUME WidgetInv, NEW p \in Posts, Limit(p)
    PROVE  WidgetInv'
<1> DEFINE key == IF post[p].pc = "read" THEN "tenant" ELSE post[p].visit
           clock == post[p].at
           step == IF post[p].pc = "read" THEN "tenant" ELSE "passed"
           d == [post[p] EXCEPT !.pc = step, !.at = NoTime]
<1>1. /\ post[p].pc \in {"read", "tenant"} /\ clock # NoTime
      /\ UNCHANGED <<moment, visit, streak, tangled>>
  BY DEF Limit
<1>7. cut' = [cut EXCEPT ![key] = IF clock > CutAt(key) THEN clock ELSE CutAt(key)]
  BY DEF Limit
<1>2. post[p] \in Post /\ post[p] # IdlePost /\ PostInv(p) /\ key \in LimitKeys
  BY <1>1, PostForms DEF LimitKeys
<1>3. clock \in Moments /\ clock <= moment
  BY <1>1, <1>2 DEF Post, PostInv, Moments
<1>4. /\ d \in Post /\ d.pc # "put" /\ d.visit = post[p].visit /\ d.data = post[p].data
      /\ d.at <= moment
  <2>1. step \in {"tenant", "passed"} /\ NoTime <= moment
    BY DEF NoTime, WidgetInv, LimitsInv, LimitsTyped, Moments
  <2> HIDE DEF step
  <2> QED
    BY <1>2, <2>1 DEF Post
<1>5. CASE Cardinality(Recent(key, clock)) >= LimitOf(key)
  <2>1. /\ hits' = [hits EXCEPT ![key] = Recent(key, clock)]
        /\ UNCHANGED <<expires, admitted, belated>>
        /\ post' = [post EXCEPT ![p] = IdlePost]
    BY <1>5 DEF Limit
  <2> HIDE DEF key, clock, d
  <2>2. LimitsInv'
    BY <1>1, <1>2, <1>3, <1>7, <2>1, RefuseKeeps DEF WidgetInv
  <2>3. VisitsInv'
    BY <1>1, <1>2, <2>1, PostKeeps
  <2> QED
    BY <2>2, <2>3 DEF WidgetInv
<1>6. CASE ~(Cardinality(Recent(key, clock)) >= LimitOf(key))
  <2>1. /\ hits' = [hits EXCEPT ![key] = Recent(key, clock)
                                           \cup {<<clock, Len(admitted[key]) + 1>>}]
        /\ expires' = [expires EXCEPT ![key] = moment + Window]
        /\ admitted' = [admitted EXCEPT ![key] = Append(admitted[key], clock)]
        /\ belated' = IF clock < CutAt(key) THEN belated \cup {<<key, Len(admitted[key]) + 1>>}
                      ELSE belated
    BY <1>6 DEF Limit
  <2>5. post' = [post EXCEPT ![p] = d]
    BY <1>6 DEF Limit
  <2> HIDE DEF key, clock, d
  <2>2. Cardinality(Recent(key, clock)) < LimitOf(key)
    BY <1>2, <1>3, <1>6, RecentForms, LimitsNat DEF WidgetInv
  <2>3. LimitsInv'
    BY <1>1, <1>2, <1>3, <1>7, <2>1, <2>2, AdmitKeepsLimits DEF WidgetInv
  <2>4. VisitsInv'
    BY <1>1, <1>2, <1>4, <2>5, PostKeeps
  <2> QED
    BY <2>3, <2>4 DEF WidgetInv
<1> QED
  BY <1>5, <1>6

LEMMA RejectKeeps ==
    ASSUME WidgetInv, NEW p \in Posts, RejectPost(p)
    PROVE  WidgetInv'
<1>1. /\ post[p].pc = "passed" /\ post' = [post EXCEPT ![p] = IdlePost]
      /\ UNCHANGED <<moment, visit, limitVars, streak, tangled>>
  BY DEF RejectPost
<1>2. LimitsInv'
  BY <1>1, LimitsKept DEF WidgetInv
<1>3. VisitsInv'
  BY <1>1, PostForms, PostKeeps
<1> QED
  BY <1>2, <1>3 DEF WidgetInv

\* The session is written back, with the text and how often it has been repeated.
LEMMA CountedForms ==
    ASSUME NEW data \in Visit, NEW text \in Texts
    PROVE  LET d == Counted(data, text)
           IN  /\ d \in Visit /\ d.open = data.open /\ d.last_text = text
               /\ d.repeat = IF text = data.last_text THEN data.repeat + 1 ELSE 0
<1> DEFINE n == IF text = data.last_text THEN data.repeat + 1 ELSE 0
           m == [data EXCEPT !.repeat = n]
<1>1. n \in Nat
  BY DEF Visit
<1> HIDE DEF n
<1>2. m \in Visit /\ m.open = data.open /\ m.repeat = n
  BY <1>1 DEF Visit
<1> HIDE DEF m
<1>3. LET d == [m EXCEPT !.last_text = text]
      IN  d \in Visit /\ d.open = data.open /\ d.last_text = text /\ d.repeat = n
  BY <1>2 DEF Visit
<1> QED
  BY <1>3 DEF m, n, Counted

LEMMA PutKeeps ==
    ASSUME WidgetInv, NEW p \in Posts, PutVisit(p)
    PROVE  WidgetInv'
<1> USE WidgetAssumption
<1> DEFINE v == post[p].visit
           text == post[p].text
           data == Counted(post[p].data, text)
           m == [post[p] EXCEPT !.pc = "put"]
           d == [m EXCEPT !.data = data]
<1>1. /\ post[p].pc = "passed"
      /\ visit' = [visit EXCEPT ![v] = data] /\ post' = [post EXCEPT ![p] = d]
      /\ UNCHANGED <<moment, limitVars, streak, tangled>>
  BY DEF PutVisit
<1>2. LimitsInv'
  BY <1>1, LimitsKept DEF WidgetInv
<1>3. /\ post[p] \in Post /\ post[p] # IdlePost /\ PostInv(p)
      /\ v \in Visits /\ text \in Texts /\ post[p].data \in Visit
  BY <1>1, PostForms
<1>4. /\ data \in Visit /\ data.open = post[p].data.open /\ data.last_text = text
      /\ data.repeat = IF text = post[p].data.last_text THEN post[p].data.repeat + 1 ELSE 0
  BY <1>3, CountedForms
<1> HIDE DEF data
<1>5. /\ m \in Post /\ m.pc = "put" /\ m.visit = v /\ m.text = text /\ m.at = post[p].at
  BY <1>3 DEF Post
<1> HIDE DEF m
<1>6. /\ d \in Post /\ d.pc = "put" /\ d.visit = v /\ d.text = text /\ d.data = data
      /\ d.at = post[p].at /\ d # IdlePost
  BY <1>4, <1>5 DEF Post, IdlePost
<1> HIDE DEF d
<1>7. /\ post'[p] = d /\ \A x \in Posts \ {p} : post'[x] = post[x]
      /\ post' = [x \in Posts |-> post'[x]]
      /\ visit' \in [Visits -> Visit] /\ visit'[v] = data
      /\ \A w \in Visits \ {v} : visit'[w] = visit[w]
  BY <1>1, <1>3, <1>4 DEF WidgetInv, VisitsInv
<1>8. VisitInv(v)
  BY <1>3 DEF WidgetInv, VisitsInv
<1>9. v \notin tangled => /\ post[p].data = visit[v] /\ Steady(v)
                          /\ \A x \in Posts \ {p} : ~Of(x, v)
  <2> SUFFICES ASSUME v \notin tangled
               PROVE  post[p].data = visit[v] /\ Steady(v) /\ \A x \in Posts \ {p} : ~Of(x, v)
    OBVIOUS
  <2>1. post[p].data = visit[v]
    BY <1>3 DEF PostInv
  <2>2. Of(p, v)
    BY <1>3 DEF Of
  <2>3. \A x \in Posts \ {p} : ~Of(x, v)
    BY <1>8, <2>2 DEF VisitInv
  <2> QED
    BY <1>1, <1>8, <2>1, <2>3 DEF VisitInv
<1>10. v \notin tangled => Counts(p)'
  <2> SUFFICES ASSUME v \notin tangled
               PROVE  \/ MaxRepeat = 0 /\ streak[v].n = 0
                      \/ streak[v].text = text /\ streak[v].n <= data.repeat
                      \/ streak[v].text # text /\ data.repeat = 0
    BY <1>1, <1>4, <1>6, <1>7 DEF Counts
  <2>1. streak[v].n \in Nat /\ visit[v].repeat \in Nat
    BY <1>3 DEF WidgetInv, VisitsInv, Streak, Visit
  <2>2. Steady(v) /\ post[p].data = visit[v]
    BY <1>9
  <2>3. CASE MaxRepeat = 0 /\ streak[v].n = 0
    BY <2>3
  <2>4. CASE streak[v].text = visit[v].last_text /\ streak[v].n <= visit[v].repeat + 1
    BY <1>4, <2>1, <2>2, <2>4
  <2> QED
    BY <2>2, <2>3, <2>4 DEF Steady
<1>11. ASSUME NEW x \in Posts PROVE PostInv(x)'
  <2>1. CASE x = p
    BY <1>1, <1>3, <1>4, <1>6, <1>7, <1>10, <2>1 DEF PostInv
  <2>2. CASE x # p
    <3>1. PostInv(x)
      BY DEF WidgetInv, VisitsInv
    <3>2. post[x] # IdlePost => post[x].visit \in Visits
      BY <3>1 DEF PostInv, Post
    <3>3. post[x] # IdlePost /\ post[x].visit = v => v \in tangled
      BY <1>9, <2>2 DEF Of
    <3>4. visit'[v].open
      BY <1>3, <1>4, <1>7 DEF PostInv
    <3> QED
      BY <1>1, <1>7, <2>2, <3>1, <3>2, <3>3, <3>4 DEF PostInv, Counts
  <2> QED
    BY <2>1, <2>2
<1>12. ASSUME NEW w \in Visits PROVE VisitInv(w)'
  <2>1. VisitInv(w)
    BY DEF WidgetInv, VisitsInv
  <2>2. \A x \in Posts : Of(x, w)' <=> Of(x, w)
    BY <1>3, <1>6, <1>7 DEF Of
  <2>3. CASE w = v
    BY <1>1, <1>3, <1>6, <1>7, <2>1, <2>2, <2>3 DEF VisitInv, Of
  <2>4. CASE w # v
    <3>1. \A x \in Posts : Of(x, w) => post'[x].pc = post[x].pc
      BY <1>7, <2>4 DEF Of
    <3> QED
      BY <1>1, <1>7, <2>1, <2>2, <2>4, <3>1 DEF VisitInv, Steady
  <2> QED
    BY <2>3, <2>4
<1> QED
  BY <1>1, <1>2, <1>7, <1>11, <1>12 DEF WidgetInv, VisitsInv

LEMMA HandOnKeeps ==
    ASSUME WidgetInv, NEW p \in Posts, HandOn(p)
    PROVE  WidgetInv'
<1> USE WidgetAssumption
<1> DEFINE v == post[p].visit
           text == post[p].text
           row == [text |-> text, n |-> IF text = streak[v].text THEN streak[v].n + 1 ELSE 1]
<1>1. /\ post[p].pc = "put"
      /\ streak' = IF post[p].data.repeat >= MaxRepeat THEN streak
                   ELSE [streak EXCEPT ![v] = row]
      /\ post' = [post EXCEPT ![p] = IdlePost]
      /\ UNCHANGED <<moment, visit, limitVars, tangled>>
  BY DEF HandOn
<1>2. LimitsInv'
  BY <1>1, LimitsKept DEF WidgetInv
<1>3. /\ post[p] \in Post /\ post[p] # IdlePost /\ PostInv(p)
      /\ v \in Visits /\ text \in Texts /\ post[p].data \in Visit
      /\ streak[v] \in Streak /\ visit[v] \in Visit
  BY <1>1, PostForms DEF WidgetInv, VisitsInv
<1>4. row \in Streak /\ row.text = text
      /\ row.n = IF text = streak[v].text THEN streak[v].n + 1 ELSE 1
  BY <1>3 DEF Streak
<1> HIDE DEF row
<1>5. /\ post'[p] = IdlePost /\ \A x \in Posts \ {p} : post'[x] = post[x]
      /\ post' = [x \in Posts |-> post'[x]]
      /\ streak' \in [Visits -> Streak] /\ \A w \in Visits \ {v} : streak'[w] = streak[w]
      /\ streak'[v] = IF post[p].data.repeat >= MaxRepeat THEN streak[v] ELSE row
  BY <1>1, <1>3, <1>4 DEF WidgetInv, VisitsInv
<1>6. VisitInv(v) /\ Of(p, v)
  BY <1>3 DEF WidgetInv, VisitsInv, Of
<1>7. ASSUME NEW w \in Visits \ tangled, w = v PROVE streak'[w].n <= MaxRepeat /\ Steady(w)'
  <2>1. /\ Counts(p) /\ post[p].data = visit[v] /\ streak[v].n <= MaxRepeat
        /\ visit[v].last_text = text
        /\ streak[v].n \in Nat /\ visit[v].repeat \in Nat
    BY <1>1, <1>3, <1>6, <1>7 DEF PostInv, VisitInv, Counts, Streak, Visit
  <2>2. \/ MaxRepeat = 0 /\ streak[v].n = 0
        \/ streak[v].text = text /\ streak[v].n <= visit[v].repeat
        \/ streak[v].text # text /\ visit[v].repeat = 0
    BY <2>1 DEF Counts
  <2>3. CASE visit[v].repeat >= MaxRepeat
    BY <1>1, <1>5, <1>7, <2>1, <2>2, <2>3 DEF Steady
  <2>4. CASE ~(visit[v].repeat >= MaxRepeat)
    BY <1>1, <1>4, <1>5, <1>7, <2>1, <2>2, <2>4 DEF Steady
  <2> QED
    BY <2>3, <2>4
<1>8. v \notin tangled => \A x \in Posts \ {p} : ~Of(x, v)
  BY <1>6 DEF VisitInv
<1>9. ASSUME NEW x \in Posts PROVE PostInv(x)'
  <2>1. CASE x = p
    BY <1>5, <2>1 DEF PostInv
  <2>2. CASE x # p
    <3>1. PostInv(x)
      BY DEF WidgetInv, VisitsInv
    <3>2. post[x] # IdlePost => post[x].visit \in Visits
      BY <3>1 DEF PostInv, Post
    <3>3. post[x] # IdlePost /\ post[x].visit = v => v \in tangled
      BY <1>8, <2>2 DEF Of
    <3> QED
      BY <1>1, <1>5, <2>2, <3>1, <3>2, <3>3 DEF PostInv, Counts
  <2> QED
    BY <2>1, <2>2
<1>10. ASSUME NEW w \in Visits PROVE VisitInv(w)'
  <2>1. VisitInv(w)
    BY DEF WidgetInv, VisitsInv
  <2>2. \A x \in Posts : Of(x, w)' <=> x # p /\ Of(x, w)
    BY <1>5 DEF Of
  <2>3. CASE w = v
    BY <1>1, <1>7, <2>1, <2>2, <2>3 DEF VisitInv
  <2>4. CASE w # v
    <3>1. \A x \in Posts : Of(x, w) => x # p /\ post'[x] = post[x]
      BY <1>5, <2>4 DEF Of
    <3> QED
      BY <1>1, <1>5, <2>1, <2>2, <2>4, <3>1 DEF VisitInv, Steady
  <2> QED
    BY <2>3, <2>4
<1> QED
  BY <1>1, <1>2, <1>5, <1>9, <1>10 DEF WidgetInv, VisitsInv

LEMMA WidgetStep == WidgetInv /\ [WidgetNext]_widgetVars => WidgetInv'
<1> SUFFICES ASSUME WidgetInv, [WidgetNext]_widgetVars PROVE WidgetInv'
  OBVIOUS
<1>1. CASE UNCHANGED widgetVars
  <2>1. LimitsInv'
    BY <1>1, LimitsKept DEF widgetVars, WidgetInv
  <2>2. VisitsInv'
    BY <1>1 DEF widgetVars, WidgetInv, VisitsInv, PostInv, Counts, VisitInv, Steady, Of
  <2> QED
    BY <2>1, <2>2 DEF WidgetInv
<1>2. CASE MomentPasses
  <2>1. /\ moment' = moment + 1 /\ moment < MaxMoment /\ moment \in Nat
        /\ UNCHANGED <<visit, post, limitVars, streak, tangled>>
    BY <1>2 DEF MomentPasses, WidgetInv, LimitsInv, LimitsTyped, Moments
  <2>2. LimitsInv'
    BY <2>1, PassingKeeps DEF WidgetInv
  <2>3. ASSUME NEW p \in Posts PROVE PostInv(p)'
    <3>1. PostInv(p) /\ (post[p] # IdlePost => post[p].at <= moment')
      <4>1. PostInv(p)
        BY DEF WidgetInv, VisitsInv
      <4>2. post[p] \in Post => post[p].at \in Int
        BY WidgetAssumption DEF Post, NoTime
      <4> QED
        BY <2>1, <4>1, <4>2 DEF PostInv
    <3> QED
      BY <2>1, <3>1 DEF PostInv, Counts
  <2>4. VisitsInv'
    BY <2>1, <2>3 DEF WidgetInv, VisitsInv, VisitInv, Steady, Of
  <2> QED
    BY <2>2, <2>4 DEF WidgetInv
<1> QED
  BY <1>1, <1>2, OpenKeeps, ReadKeepsVisits, ReadClockKeeps, LimitKeeps, PutKeeps, RejectKeeps,
     HandOnKeeps DEF WidgetNext

\* However many visitors post, and whenever a window begins, no more messages of a tenant or a
\* session are let through in it than its limit, but for those whose script runs after one with a
\* later clock, or after the log it would have met has expired; and no text is handed on more often
\* in a row than allowed, unless messages of its session overlapped (widget_message and hit).
THEOREM WidgetHeldAlways == WidgetSpec => []WidgetHeld
BY WidgetInitInv, WidgetStep, WidgetInvHeld, PTL DEF WidgetSpec

-----------------------------------------------------------------------------
(* Assets *)

(***************************************************************************)
(* A row is VERIFIED only by a check that found a token (Proven), until a  *)
(* date that the delay of its answer bounds, and allowlisted only while it *)
(* is VERIFIED (the constraint).  Of an open request (AdminRead): it takes *)
(* VERIFIED back only if it has not read it, and then changes nothing      *)
(* else.                                                                   *)
(***************************************************************************)
ReadTyped == [pc : {"read"}, seen : Asset, new : Asset, challenge : SUBSET Challenges, at : Nat]

AdminRead(t) ==
    /\ t.at <= date
    /\ t.challenge = {} => t.at <= proved
    /\ t.new.verification_status # t.seen.verification_status =>
         IF t.new.verification_status = "VERIFIED"
         THEN t.challenge = {} /\ t.at > 0
         ELSE /\ t.seen.verification_status # "VERIFIED"
              /\ t.new.allowlisted = t.seen.allowlisted
    /\ t.new.verified_until # t.seen.verified_until =>
         t.challenge = {} /\ t.at > 0 /\ t.new.verified_until <= date + Validity

AdminTyped(t) ==
    \/ t.pc \in {"idle", "asking"}
    \/ t.pc = "found" /\ t.at \in Nat /\ t.at > 0 /\ t.at <= proved
    \/ t \in ReadTyped /\ AdminRead(t)

Proven ==
    /\ asset.verification_status = "VERIFIED" => proved > 0
    /\ asset.verified_until > 0 => asset.verified_until <= proved + Validity + delay
    /\ Admitted(asset)

AssetsInv ==
    /\ AssetsTypeOK
    /\ proved \in Nat /\ proved <= date /\ delay \in Nat
    /\ DOMAIN admin = Admins /\ \A a \in Admins : AdminTyped(admin[a])
    /\ Proven

LEMMA SavedForms ==
    ASSUME NEW t \in ReadTyped, asset \in Asset
    PROVE  /\ Saved(t) \in Asset
           /\ Saved(t).verification_status =
                IF t.new.verification_status # t.seen.verification_status
                THEN t.new.verification_status ELSE asset.verification_status
           /\ Saved(t).verified_until =
                IF t.new.verified_until # t.seen.verified_until
                THEN t.new.verified_until ELSE asset.verified_until
           /\ Saved(t).allowlisted =
                IF t.new.allowlisted # t.seen.allowlisted
                THEN t.new.allowlisted ELSE asset.allowlisted
BY DEF Saved, Asset, Columns, ReadTyped

\* What is known of the others' requests is still true later.
LEMMA AdminLater ==
    ASSUME AssetsInv, date' \in Nat, date' >= date, proved' \in Nat, proved' >= proved,
           NEW t, AdminTyped(t)
    PROVE  AdminTyped(t)'
<1>1. date \in Nat /\ Validity \in Nat /\ proved \in Nat
  BY AssetsAssumption DEF AssetsInv, AssetsTypeOK
<1>2. CASE t \in ReadTyped /\ AdminRead(t)
  <2>1. t.at \in Nat /\ t.new.verified_until \in Nat
    BY <1>2 DEF ReadTyped, Asset
  <2>2. t.at <= date' /\ (t.challenge = {} => t.at <= proved')
    BY <1>1, <1>2, <2>1 DEF AdminRead
  <2>3. t.new.verified_until # t.seen.verified_until =>
          t.challenge = {} /\ t.at > 0 /\ t.new.verified_until <= date' + Validity
    BY <1>1, <1>2, <2>1 DEF AdminRead
  <2> QED
    BY <1>2, <2>2, <2>3 DEF AdminTyped, AdminRead
<1>3. CASE t.pc = "found" /\ t.at \in Nat /\ t.at > 0 /\ t.at <= proved
  BY <1>1, <1>3 DEF AdminTyped
<1> QED
  BY <1>2, <1>3 DEF AdminTyped

\* A request goes on; the row stays.
LEMMA AdminStep ==
    ASSUME AssetsInv, UNCHANGED <<date, asset, expiry, delay>>,
           proved' \in Nat, proved' >= proved, proved' <= date,
           NEW a \in Admins, NEW t, admin' = [admin EXCEPT ![a] = t], AdminTyped(t)'
    PROVE  AssetsInv' /\ ProofStays
<1>1. date \in Nat /\ asset \in Asset /\ Validity \in Nat
  BY AssetsAssumption DEF AssetsInv, AssetsTypeOK
<1>2. DOMAIN admin' = Admins /\ \A b \in Admins : AdminTyped(admin[b])'
  <2>1. ASSUME NEW b \in Admins PROVE AdminTyped(admin[b])'
    <3>1. CASE b = a
      BY <3>1 DEF AssetsInv
    <3>2. CASE b # a
      <4>1. admin'[b] = admin[b] /\ AdminTyped(admin[b])
        BY <3>2 DEF AssetsInv
      <4>2. PICK u : u = admin[b]
        OBVIOUS
      <4>3. AdminTyped(u)'
        BY <1>1, <4>1, <4>2, AdminLater
      <4> QED
        BY <4>1, <4>2, <4>3
    <3> QED
      BY <3>1, <3>2
  <2> QED
    BY <2>1 DEF AssetsInv
<1>3. Proven'
  BY <1>1 DEF AssetsInv, Proven, Admitted, Asset
<1> QED
  BY <1>1, <1>2, <1>3 DEF AssetsInv, AssetsTypeOK, ProofStays

LEMMA LoadsKeeps ==
    ASSUME AssetsInv, NEW a \in Admins, NEW new \in Asset, NEW challenge \in SUBSET Challenges,
           NEW at \in Nat, Loads(a, new, challenge, at),
           at <= date, challenge = {} => at <= proved,
           new.verification_status # asset.verification_status =>
             IF new.verification_status = "VERIFIED"
             THEN challenge = {} /\ at > 0
             ELSE /\ asset.verification_status # "VERIFIED"
                  /\ new.allowlisted = asset.allowlisted,
           new.verified_until # asset.verified_until =>
             challenge = {} /\ at > 0 /\ new.verified_until <= date + Validity
    PROVE  AssetsInv' /\ ProofStays
<1> DEFINE t == [pc |-> "read", seen |-> asset, new |-> new, challenge |-> challenge, at |-> at]
<1>1. /\ admin' = [admin EXCEPT ![a] = t]
      /\ UNCHANGED <<date, asset, expiry, proved, delay, demoted>>
  BY DEF Loads
<1>2. PICK u : u = t
  OBVIOUS
<1>3. u \in ReadTyped /\ AdminRead(u)
  BY <1>2 DEF AssetsInv, AssetsTypeOK, ReadTyped, AdminRead
<1>4. AdminTyped(u)'
  BY <1>1, <1>3 DEF AdminTyped, AdminRead
<1>5. proved' \in Nat /\ proved' >= proved /\ proved' <= date
  BY <1>1 DEF AssetsInv
<1>6. admin' = [admin EXCEPT ![a] = u]
  BY <1>1, <1>2
<1> HIDE DEF t
<1> QED
  BY <1>1, <1>4, <1>5, <1>6, AdminStep

LEMMA SaveKeeps ==
    ASSUME AssetsInv, NEW a \in Admins, SaveAsset(a)
    PROVE  AssetsInv' /\ ProofStays
<1> DEFINE t == admin[a]
<1>1. /\ t.pc = "read" /\ Admitted(Saved(t)) /\ asset' = Saved(t)
      /\ expiry' = [c \in Challenges |->
                       IF c \in t.challenge THEN t.at + ChallengeTtl ELSE expiry[c]]
      /\ delay' = IF t.challenge = {} /\ t.at > 0 /\ date - t.at > delay THEN date - t.at ELSE delay
      /\ demoted' = (demoted \/ (asset.verification_status = "VERIFIED"
                                 /\ t.seen.verification_status # "VERIFIED"
                                 /\ asset'.verification_status # "VERIFIED"))
      /\ admin' = [admin EXCEPT ![a] = IdleAdmin]
      /\ UNCHANGED <<date, proved>>
  BY DEF SaveAsset
<1>2. t \in ReadTyped /\ AdminRead(t)
  BY <1>1 DEF AssetsInv, AdminTyped
<1>3. /\ date \in Nat /\ date <= MaxDate /\ MaxDate \in Nat /\ asset \in Asset
      /\ Validity \in Nat /\ ChallengeTtl \in Nat
      /\ proved \in Nat /\ delay \in Nat /\ Proven /\ t.at \in Nat /\ t.at <= date
      /\ t.new \in Asset /\ t.seen \in Asset
  BY <1>2, AssetsAssumption DEF AssetsInv, AssetsTypeOK, ReadTyped, AdminRead
<1>4. /\ asset' \in Asset
      /\ asset'.verification_status =
           IF t.new.verification_status # t.seen.verification_status
           THEN t.new.verification_status ELSE asset.verification_status
      /\ asset'.verified_until =
           IF t.new.verified_until # t.seen.verified_until
           THEN t.new.verified_until ELSE asset.verified_until
      /\ asset'.allowlisted =
           IF t.new.allowlisted # t.seen.allowlisted
           THEN t.new.allowlisted ELSE asset.allowlisted
  BY <1>1, <1>2, <1>3, SavedForms
<1>5. DOMAIN admin' = Admins /\ \A b \in Admins : AdminTyped(admin[b])'
  <2>1. ASSUME NEW b \in Admins PROVE AdminTyped(admin[b])'
    <3>1. CASE b = a
      BY <1>1, <3>1 DEF AssetsInv, AdminTyped, IdleAdmin
    <3>2. CASE b # a
      <4>1. admin'[b] = admin[b] /\ AdminTyped(admin[b])
        BY <1>1, <3>2 DEF AssetsInv
      <4>2. PICK u : u = admin[b]
        OBVIOUS
      <4>3. AdminTyped(u)'
        BY <1>1, <1>3, <4>1, <4>2, AdminLater
      <4> QED
        BY <4>1, <4>2, <4>3
    <3> QED
      BY <3>1, <3>2
  <2> QED
    BY <1>1, <2>1 DEF AssetsInv
<1> HIDE DEF t
<1>6. expiry' \in [Challenges -> 0 .. MaxDate + ChallengeTtl]
  BY <1>1, <1>3 DEF AssetsInv, AssetsTypeOK
<1>7. delay' \in Nat /\ delay' >= delay
  BY <1>1, <1>3
<1>8. Proven'
  <2>1. asset'.verification_status = "VERIFIED" => proved > 0
    BY <1>2, <1>3, <1>4 DEF AdminRead, Proven
  <2>2. asset'.verified_until > 0 => asset'.verified_until <= proved + Validity + delay'
    <3>1. CASE t.new.verified_until # t.seen.verified_until
      <4>1. /\ t.challenge = {} /\ t.at > 0 /\ t.at <= proved
            /\ t.new.verified_until <= date + Validity /\ t.new.verified_until \in Nat
        BY <1>2, <1>3, <3>1 DEF AdminRead, Asset
      <4>2. date - t.at <= delay'
        BY <1>1, <1>3, <4>1
      <4> QED
        BY <1>3, <1>4, <1>7, <3>1, <4>1, <4>2
    <3>2. CASE ~(t.new.verified_until # t.seen.verified_until)
      <4>1. asset.verified_until \in Nat /\ asset'.verified_until = asset.verified_until
        BY <1>3, <1>4, <3>2 DEF Asset
      <4> QED
        BY <1>3, <1>7, <4>1 DEF Proven
    <3> QED
      BY <3>1, <3>2
  <2> QED
    BY <1>1, <2>1, <2>2 DEF Proven, Admitted
<1>9. ProofStays
  <2> SUFFICES ASSUME asset.verification_status = "VERIFIED",
                      asset'.verification_status # "VERIFIED"
               PROVE  demoted' /\ ~asset.allowlisted
    BY DEF ProofStays
  <2>1. t.seen.verification_status # "VERIFIED" /\ t.new.allowlisted = t.seen.allowlisted
    BY <1>2, <1>4 DEF AdminRead
  <2>2. asset'.allowlisted = asset.allowlisted
    BY <1>4, <2>1
  <2> QED
    BY <1>1, <2>1, <2>2 DEF Admitted
<1> QED
  BY <1>1, <1>3, <1>4, <1>5, <1>6, <1>7, <1>8, <1>9 DEF AssetsInv, AssetsTypeOK

LEMMA AssetsStep ==
    ASSUME AssetsInv, AssetsNext
    PROVE  AssetsInv' /\ ProofStays
<1>1. /\ date \in Nat /\ asset \in Asset /\ Validity \in Nat /\ proved \in Nat /\ proved <= date
      /\ MaxDate \in Nat /\ date > 0
  BY AssetsAssumption DEF AssetsInv, AssetsTypeOK
<1>2. CASE DatePasses
  <2>1. /\ date' = date + 1 /\ date < MaxDate
        /\ UNCHANGED <<asset, expiry, admin, proved, delay, demoted>>
    BY <1>2 DEF DatePasses
  <2>2. ASSUME NEW b \in Admins PROVE AdminTyped(admin[b])'
    <3>1. PICK u : u = admin[b]
      OBVIOUS
    <3>2. AdminTyped(u)'
      BY <1>1, <2>1, <3>1, AdminLater DEF AssetsInv
    <3> QED
      BY <2>1, <3>1, <3>2
  <2> QED
    BY <1>1, <2>1, <2>2 DEF AssetsInv, AssetsTypeOK, Proven, Admitted, ProofStays
<1>3. ASSUME NEW a \in Admins, NEW until \in Expiries, UpdateRead(a, until)
      PROVE  AssetsInv' /\ ProofStays
  <2> DEFINE new == [asset EXCEPT !.authorized_until = until]
  <2>1. Loads(a, new, {}, 0)
    BY <1>3 DEF UpdateRead
  <2>2. /\ new \in Asset /\ new.verification_status = asset.verification_status
        /\ new.verified_until = asset.verified_until
    BY <1>1, AssetsAssumption DEF Asset
  <2> HIDE DEF new
  <2> QED
    BY <1>1, <2>1, <2>2, LoadsKeeps
<1>4. ASSUME NEW a \in Admins, NEW listed \in BOOLEAN, AllowlistRead(a, listed)
      PROVE  AssetsInv' /\ ProofStays
  <2> DEFINE new == [asset EXCEPT !.allowlisted = listed]
  <2>1. Loads(a, new, {}, 0)
    BY <1>4 DEF AllowlistRead
  <2>2. /\ new \in Asset /\ new.verification_status = asset.verification_status
        /\ new.verified_until = asset.verified_until
    BY <1>1 DEF Asset
  <2> HIDE DEF new
  <2> QED
    BY <1>1, <2>1, <2>2, LoadsKeeps
<1>5. ASSUME NEW a \in Admins, NEW c \in Challenges, ChallengeRead(a, c)
      PROVE  AssetsInv' /\ ProofStays
  <2>1. PICK new : new = Challenged(asset)
    OBVIOUS
  <2>2. Loads(a, new, {c}, date)
    BY <1>5, <2>1 DEF ChallengeRead
  <2>3. /\ new \in Asset /\ new.verified_until = asset.verified_until
        /\ new.allowlisted = asset.allowlisted
        /\ new.verification_status # asset.verification_status =>
             asset.verification_status # "VERIFIED" /\ new.verification_status = "PENDING"
    BY <1>1, <2>1 DEF Challenged, Asset
  <2> QED
    BY <1>1, <2>2, <2>3, LoadsKeeps
<1>6. ASSUME NEW a \in Admins, CheckAgain(a) PROVE AssetsInv' /\ ProofStays
  <2>1. PICK new : new = Verified(asset)
    OBVIOUS
  <2>2. PICK at : at = admin[a].at
    OBVIOUS
  <2>3. Loads(a, new, {}, at) /\ at \in Nat /\ at > 0 /\ at <= proved
    BY <1>6, <2>1, <2>2 DEF CheckAgain, AssetsInv, AdminTyped, ReadTyped
  <2>4. /\ new \in Asset /\ new.verified_until = date + Validity
        /\ new.verification_status = "VERIFIED"
    <3>1. PICK until \in Nat : until = date + Validity
      BY <1>1
    <3>2. new = [asset EXCEPT !.verification_status = "VERIFIED", !.verified_until = until]
      BY <2>1, <3>1 DEF Verified
    <3> QED
      BY <1>1, <3>1, <3>2 DEF Asset
  <2> QED
    BY <1>1, <2>3, <2>4, LoadsKeeps
<1>7. ASSUME NEW a \in Admins, NEW c \in Challenges, CheckRead(a, c)
      PROVE  AssetsInv' /\ ProofStays
  <2>1. PICK t : t = [pc |-> "asking", challenge |-> c]
    OBVIOUS
  <2>2. /\ admin' = [admin EXCEPT ![a] = t] /\ AdminTyped(t)'
        /\ UNCHANGED <<date, asset, expiry, proved, delay>>
    BY <1>7, <2>1 DEF CheckRead, AdminTyped
  <2>3. proved' \in Nat /\ proved' >= proved /\ proved' <= date
    BY <1>1, <2>2
  <2> QED
    BY <2>2, <2>3, AdminStep
<1>8. ASSUME NEW a \in Admins, CheckFinds(a) PROVE AssetsInv' /\ ProofStays
  <2>1. PICK t : t = [pc |-> "found", at |-> date]
    OBVIOUS
  <2>2. /\ admin' = [admin EXCEPT ![a] = t] /\ proved' = date
        /\ UNCHANGED <<date, asset, expiry, delay>>
    BY <1>8, <2>1 DEF CheckFinds
  <2>3. AdminTyped(t)'
    BY <1>1, <2>1, <2>2 DEF AdminTyped
  <2>4. proved' \in Nat /\ proved' >= proved /\ proved' <= date
    BY <1>1, <2>2
  <2> QED
    BY <2>2, <2>3, <2>4, AdminStep
<1>9. ASSUME NEW a \in Admins, CheckFails(a) \/ CutAdmin(a) PROVE AssetsInv' /\ ProofStays
  <2>1. /\ admin' = [admin EXCEPT ![a] = IdleAdmin] /\ AdminTyped(IdleAdmin)'
        /\ UNCHANGED <<date, asset, expiry, proved, delay>>
    BY <1>9 DEF CheckFails, CutAdmin, AdminTyped, IdleAdmin
  <2>2. proved' \in Nat /\ proved' >= proved /\ proved' <= date
    BY <1>1, <2>1
  <2> QED
    BY <2>1, <2>2, AdminStep
<1> QED
  BY <1>2, <1>3, <1>4, <1>5, <1>6, <1>7, <1>8, <1>9, SaveKeeps DEF AssetsNext

\* Where the gates let a scan pass, the owner has shown a token within the validity and the longest
\* delay of an answer; a proof is not taken back, except by a challenge begun before it, and never
\* from an asset on the allowlist.
THEOREM AssetsHoldAlways == AssetsSpec => AssetsHold
<1>1. AssetsInit => AssetsInv
  <2> SUFFICES ASSUME AssetsInit PROVE AssetsInv
    OBVIOUS
  <2>1. MaxDate \in Nat /\ MaxDate > 0 /\ ChallengeTtl \in Nat
    BY AssetsAssumption
  <2> QED
    BY <2>1 DEF AssetsInit, AssetsInv, AssetsTypeOK, AdminTyped, Proven, Admitted, Asset, IdleAdmin
<1>2. AssetsInv /\ UNCHANGED assetVars => AssetsInv'
  BY DEF assetVars, AssetsInv, AssetsTypeOK, AdminTyped, AdminRead, Proven, Admitted
<1>3. AssetsInv => GatesProven
  <2> SUFFICES ASSUME AssetsInv PROVE GatesProven
    OBVIOUS
  <2>1. /\ date \in Nat /\ asset.verified_until \in Nat /\ Validity \in Nat /\ proved \in Nat
        /\ delay \in Nat
    BY AssetsAssumption DEF AssetsInv, AssetsTypeOK, Asset
  <2>2. asset.allowlisted => proved > 0
    BY DEF AssetsInv, Proven, Admitted
  <2>3. ASSUME Gates PROVE proved > 0 /\ date < proved + Validity + delay
    <3>1. asset.verified_until > date /\ asset.verification_status = "VERIFIED"
      BY <2>3 DEF Gates, IsVerified
    <3> QED
      BY <2>1, <3>1 DEF AssetsInv, Proven
  <2> QED
    BY <2>2, <2>3 DEF AssetsInv, GatesProven
<1>4. AssetsInv /\ [AssetsNext]_assetVars =>
        AssetsInv' /\ [GatesProven' /\ ProofStays]_assetVars
  <2>1. AssetsInv' => GatesProven'
    BY <1>3, PTL
  <2> QED
    BY <1>2, <2>1, AssetsStep
<1> QED
  BY <1>1, <1>4, PTL DEF AssetsSpec, AssetsHold

-----------------------------------------------------------------------------
(* Tenancy *)

\* Of all services, only the agents' have privileges on the agents' tables.
LEMMA AgentGrants ==
    ASSUME NEW s \in Services, NEW verb, NEW table \in AgentTables, Granted(s, verb, table)
    PROVE  s \in DOMAIN AgentOf
<1>1. PICK p \in DOMAIN Privileges : table \in GRANTS[s][p]
  BY DEF Granted
<1>2. /\ table \notin GRANTS["svc_gateway_admin"][p] /\ table \notin GRANTS["svc_crm"][p]
      /\ table \notin GRANTS["svc_scheduling"][p] /\ table \notin GRANTS["svc_knowledge"][p]
      /\ table \notin GRANTS["svc_notifications"][p] /\ table \notin GRANTS["svc_whatsapp"][p]
      /\ table \notin GRANTS["svc_security_ingest"][p]
      /\ table \notin GRANTS["svc_scanner_controller"][p]
      /\ table \notin GRANTS["svc_approvals"][p] /\ table \notin GRANTS["svc_audit"][p]
  BY DEF GRANTS, Nothing, Privileges, AgentTables
<1>3. s \in {"svc_gateway_admin", "svc_samiir", "svc_crm", "svc_scheduling", "svc_knowledge",
             "svc_notifications", "svc_whatsapp", "svc_fatma", "svc_security_ingest",
             "svc_scanner_controller", "svc_approvals", "svc_audit"}
  BY TenancyAssumption DEF GRANTS
<1>4. s \in {"svc_samiir", "svc_fatma"}
  BY <1>1, <1>2, <1>3
<1> QED
  BY <1>4 DEF AgentOf

\* No lookup function changes an incident or an audit row.
LEMMA LookupTables ==
    ASSUME NEW f \in Lookups
    PROVE  "audit_logs" \notin f.updates /\ "incidents" \notin f.updates
BY DEF Lookups

(***************************************************************************)
(* Each transaction stays within what the policies of its settings show,   *)
(* and its settings are those it was opened with, since what a connection  *)
(* has left of earlier ones is no tenant (Settled).  Its changes keep what *)
(* the triggers ask of them until the commit (Changes).                    *)
(***************************************************************************)
Change == [row : Rows, to : {"new", "changed", "absent"}]

Conn == [kind : {"none", "tenant", "system"}, tenant : Tenants \cup {"", Null},
         actor : Actors \cup {Null}, for : Tenants \cup {Null}, as : Actors \cup {Null},
         seen : SUBSET Rows, writes : SUBSET Change]

Settled(k) ==
    IF k.kind = "tenant"
    THEN k.tenant = k.for /\ k.for \in Tenants /\ k.actor = k.as /\ k.as \in Actors
    ELSE /\ k.tenant \in {"", Null}
         /\ k.kind = "none" => k.seen = {} /\ k.writes = {}

\* The rows that a transaction k may reach.
Reachable(k, r) ==
    CASE k.kind = "tenant" ->
           /\ r.tenant = k.for
           /\ r.agent # "none" => r.agent = AgentOf[service]
      [] k.kind = "system" ->
           \E f \in Lookups : service \in f.by /\ r.table \in f.reads \cup f.updates
      [] OTHER -> FALSE

Changes(k) ==
    \A w \in k.writes :
      /\ w.row.table = "incidents" /\ w.to = "changed" => k.for = w.row.tenant /\ k.as = "user"
      /\ w.row.table = "audit_logs" => w.to = "new"

Confined(k) ==
    /\ k \in Conn /\ Settled(k) /\ Changes(k)
    /\ \A r \in k.seen : Reachable(k, r)
    /\ \A w \in k.writes : Reachable(k, w.row)

TenancyInv ==
    /\ service \in Services
    /\ changed \subseteq present /\ present \subseteq Rows
    /\ DOMAIN conn = Conns /\ \A c \in Conns : Confined(conn[c])
    /\ \A r \in changed : r.table # "audit_logs"

LEMMA NoConnForms ==
    /\ NoConn \in Conn /\ NoConn.kind = "none" /\ NoConn.seen = {} /\ NoConn.writes = {}
    /\ NoConn.tenant = Null
BY DEF NoConn, Conn, Rows, Change

LEMMA NoConnConfined == Confined(NoConn)
BY NoConnForms DEF Confined, Settled, Changes

LEMMA ReleasedConfined ==
    ASSUME NEW k \in Conn
    PROVE  Confined(Released(k))
<1> DEFINE tenant == Left(k.tenant)
           actor == Left(k.actor)
<1>1. tenant \in {"", Null} /\ actor \in Actors \cup {Null}
  BY DEF Left, Actors
<1>2. PICK u : u = Released(k)
  OBVIOUS
<1>3. u = [NoConn EXCEPT !.tenant = tenant, !.actor = actor]
  BY <1>2 DEF Released
<1> HIDE DEF tenant, actor
<1>4. /\ u \in Conn /\ u.kind = "none" /\ u.seen = {} /\ u.writes = {} /\ u.tenant = tenant
  BY <1>1, <1>3, NoConnForms DEF Conn
<1>5. Confined(u)
  BY <1>1, <1>4 DEF Confined, Settled, Changes
<1> QED
  BY <1>2, <1>5

\* What a transaction sees of a row with changes is one of them.
LEMMA NowIs ==
    ASSUME TenancyInv, NEW c \in Conns, NEW r \in Rows
    PROVE  \/ Now(c, r) = Committed(r)
           \/ \E w \in conn[c].writes : w.row = r /\ w.to = Now(c, r)
<1>1. CASE \E w \in conn[c].writes : w.row = r
  BY <1>1 DEF Now
<1>2. CASE ~\E w \in conn[c].writes : w.row = r
  BY <1>2 DEF Now
<1> QED
  BY <1>1, <1>2

\* What a commit may make of rows.
RowsStep ==
    \A r \in Rows :
      /\ r.table = "incidents" /\ r \in changed' \ changed =>
           \E c \in Conns : conn[c].for = r.tenant /\ conn[c].as = "user"
      /\ r.table = "audit_logs" /\ r \in present => r \in present' \ changed'

\* A transaction goes on, and the rows stay.
LEMMA ConnStep ==
    ASSUME TenancyInv, UNCHANGED <<service, present, changed>>, NEW c \in Conns, NEW k,
           conn' = [conn EXCEPT ![c] = k], Confined(k)
    PROVE  TenancyInv' /\ RowsStep
<1>1. \A d \in Conns : Confined(conn'[d])
  BY DEF TenancyInv
<1>2. \A d \in Conns : Confined(conn[d])'
  <2> SUFFICES ASSUME NEW d \in Conns PROVE Confined(conn[d])'
    OBVIOUS
  <2>1. PICK u : u = conn'[d]
    OBVIOUS
  <2>2. Confined(u)'
    BY <1>1, <2>1 DEF Confined, Reachable
  <2> QED
    BY <2>1, <2>2
<1> QED
  BY <1>2 DEF TenancyInv, RowsStep

\* Where the policies show a row to a statement that the service may run, it is the tenant's and
\* the agent's.
LEMMA PoliciesReach ==
    ASSUME TenancyInv, NEW c \in Conns, NEW r \in Rows, NEW verb, conn[c].kind # "none",
           Granted(service, verb, r.table), Policies(c, r)
    PROVE  conn[c].kind = "tenant" /\ Reachable(conn[c], r)
<1>1. /\ conn[c] \in Conn /\ Settled(conn[c]) /\ service \in Services
      /\ r.tenant \in Tenants /\ r.tenant # Null /\ r.tenant # ""
      /\ r.tenant = CurrentTenant(c)
  BY TenancyAssumption DEF TenancyInv, Confined, Rows, Policies
<1>2. conn[c].kind = "tenant"
  BY <1>1 DEF Settled, CurrentTenant, Conn
<1>3. r.tenant = conn[c].for
  BY <1>1, <1>2 DEF Settled, CurrentTenant
<1>4. ASSUME r.agent # "none" PROVE r.agent = AgentOf[service]
  <2>1. r.table \in AgentTables
    BY <1>4 DEF Rows
  <2> QED
    BY <1>1, <2>1, AgentGrants DEF Policies
<1> QED
  BY <1>2, <1>3, <1>4 DEF Reachable

LEMMA SelectKeeps ==
    ASSUME TenancyInv, NEW c \in Conns, NEW rows \in SUBSET Rows,
           conn' = [conn EXCEPT ![c].seen = rows], UNCHANGED <<service, present, changed>>,
           conn[c].kind # "none", \A r \in rows : Reachable(conn[c], r)
    PROVE  TenancyInv' /\ RowsStep
<1> DEFINE k == [conn[c] EXCEPT !.seen = rows]
<1>1. conn[c] \in Conn /\ Confined(conn[c])
  BY DEF TenancyInv, Confined
<1>2. /\ k \in Conn /\ k.kind = conn[c].kind /\ k.tenant = conn[c].tenant
      /\ k.actor = conn[c].actor /\ k.for = conn[c].for /\ k.as = conn[c].as
      /\ k.seen = rows /\ k.writes = conn[c].writes
  BY <1>1 DEF Conn
<1>3. conn' = [conn EXCEPT ![c] = k]
  BY DEF TenancyInv
<1> HIDE DEF k
<1>4. Settled(k) /\ Changes(k)
  BY <1>1, <1>2 DEF Confined, Settled, Changes
<1>5. \A r \in Rows : Reachable(conn[c], r) => Reachable(k, r)
  BY <1>2 DEF Reachable
<1>6. \A w \in k.writes : w.row \in Rows
  BY <1>2 DEF Conn, Change
<1>7. Confined(k)
  BY <1>1, <1>2, <1>4, <1>5, <1>6 DEF Confined
<1> QED
  BY <1>3, <1>7, ConnStep

LEMMA WritesKeep ==
    ASSUME TenancyInv, NEW c \in Conns, NEW rows \in SUBSET Rows,
           NEW to \in {"new", "changed", "absent"}, Writes(c, rows, to),
           conn[c].kind # "none",
           \A r \in rows :
             /\ Reachable(conn[c], r)
             /\ r.table = "incidents" /\ to = "changed" =>
                  conn[c].for = r.tenant /\ conn[c].as = "user"
             /\ r.table = "audit_logs" => to = "new"
    PROVE  TenancyInv' /\ RowsStep
<1> DEFINE added == {[row |-> r, to |-> to] : r \in rows}
           writes == {w \in conn[c].writes : w.row \notin rows} \cup added
           k == [conn[c] EXCEPT !.writes = writes]
<1>1. conn[c] \in Conn /\ Confined(conn[c]) /\ conn[c].writes \subseteq Change
  BY DEF TenancyInv, Confined, Conn
<1>2. \A w \in added : w \in Change /\ w.row \in rows /\ w.to = to
  BY DEF Change
<1>3. writes \subseteq Change
  BY <1>1, <1>2
<1>4. /\ conn' = [conn EXCEPT ![c] = k]
      /\ UNCHANGED <<service, present, changed>>
  BY DEF Writes, TenancyInv
<1>5. \A w \in writes : w \in conn[c].writes \/ (w.row \in rows /\ w.to = to)
  BY <1>2
<1> HIDE DEF writes, added
<1>6. /\ k \in Conn /\ k.kind = conn[c].kind /\ k.tenant = conn[c].tenant
      /\ k.actor = conn[c].actor /\ k.for = conn[c].for /\ k.as = conn[c].as
      /\ k.seen = conn[c].seen /\ k.writes = writes
  BY <1>1, <1>3 DEF Conn
<1> HIDE DEF k
<1>7. Settled(k)
  BY <1>1, <1>6 DEF Confined, Settled
<1>8. Changes(k)
  BY <1>1, <1>5, <1>6 DEF Confined, Changes
<1>9. \A r \in Rows : Reachable(conn[c], r) => Reachable(k, r)
  BY <1>6 DEF Reachable
<1>10. /\ \A r \in k.seen : r \in Rows
       /\ \A w \in k.writes : w.row \in Rows
  BY <1>6 DEF Conn, Change
<1>11. Confined(k)
  BY <1>1, <1>5, <1>6, <1>7, <1>8, <1>9, <1>10 DEF Confined
<1> QED
  BY <1>4, <1>11, ConnStep

LEMMA StatementKeeps ==
    ASSUME TenancyInv, NEW c \in Conns, Statement(c)
    PROVE  TenancyInv' /\ RowsStep
<1>1. ASSUME NEW table \in Tables, Select(c, table) PROVE TenancyInv' /\ RowsStep
  <2> DEFINE rows == {r \in Rows : r.table = table /\ Policies(c, r) /\ Now(c, r) # "absent"}
  <2>1. /\ conn[c].kind # "none" /\ Granted(service, "SELECT", table)
        /\ conn' = [conn EXCEPT ![c].seen = rows] /\ UNCHANGED <<service, present, changed>>
    BY <1>1 DEF Select
  <2>2. rows \in SUBSET Rows /\ \A r \in rows : Reachable(conn[c], r)
    BY <2>1, PoliciesReach
  <2> HIDE DEF rows
  <2> QED
    BY <2>1, <2>2, SelectKeeps
<1>2. ASSUME NEW r \in Rows, InsertRow(c, r) PROVE TenancyInv' /\ RowsStep
  <2>1. /\ conn[c].kind # "none" /\ Writes(c, {r}, "new") /\ {r} \in SUBSET Rows
        /\ Granted(service, "INSERT", r.table) /\ Policies(c, r)
    BY <1>2 DEF InsertRow
  <2>2. Reachable(conn[c], r)
    BY <2>1, PoliciesReach
  <2> QED
    BY <2>1, <2>2, WritesKeep
<1>3. ASSUME NEW r \in Rows, UpdateRow(c, r) PROVE TenancyInv' /\ RowsStep
  <2>1. /\ conn[c].kind # "none" /\ Writes(c, {r}, "changed") /\ {r} \in SUBSET Rows
        /\ Granted(service, "UPDATE", r.table) /\ Policies(c, r) /\ Triggers(c, r)
    BY <1>3 DEF UpdateRow
  <2>2. conn[c].kind = "tenant" /\ Reachable(conn[c], r)
    BY <2>1, PoliciesReach
  <2>3. r.table # "audit_logs" /\ (r.table = "incidents" => conn[c].as = "user")
    BY <2>1, <2>2, TenancyAssumption DEF Triggers, TenancyInv, Confined, Settled
  <2>4. r.tenant = conn[c].for
    BY <2>2 DEF Reachable
  <2> QED
    BY <2>1, <2>2, <2>3, <2>4, WritesKeep
<1>4. ASSUME NEW r \in Rows, DeleteRow(c, r) PROVE TenancyInv' /\ RowsStep
  <2>1. /\ conn[c].kind # "none" /\ Writes(c, {r}, "absent") /\ {r} \in SUBSET Rows
        /\ Granted(service, "DELETE", r.table) /\ Policies(c, r) /\ r.table # "audit_logs"
    BY <1>4 DEF DeleteRow
  <2>2. Reachable(conn[c], r)
    BY <2>1, PoliciesReach
  <2> QED
    BY <2>1, <2>2, WritesKeep
<1>5. ASSUME NEW f \in Lookups, Lookup(c, f) PROVE TenancyInv' /\ RowsStep
  <2> DEFINE there(tables) == {r \in Rows : r.table \in tables /\ Now(c, r) # "absent"}
  <2>1. conn[c].kind = "system" /\ service \in f.by
    BY <1>5 DEF Lookup
  <2>2. \A r \in Rows : r.table \in f.reads \cup f.updates => Reachable(conn[c], r)
    BY <2>1 DEF Reachable
  <2>3. CASE /\ conn' = [conn EXCEPT ![c].seen = there(f.reads)]
             /\ UNCHANGED <<service, present, changed>>
    <3>1. there(f.reads) \in SUBSET Rows /\ \A r \in there(f.reads) : Reachable(conn[c], r)
      BY <2>2
    <3> HIDE DEF there
    <3> QED
      BY <2>1, <2>3, <3>1, SelectKeeps
  <2>4. CASE \E rows \in SUBSET there(f.updates) : Writes(c, rows, "changed")
    <3>1. PICK rows \in SUBSET there(f.updates) : Writes(c, rows, "changed")
      BY <2>4
    <3>2. rows \in SUBSET Rows /\ \A r \in rows : r.table \in f.updates
      BY <3>1
    <3>3. \A r \in rows : /\ Reachable(conn[c], r)
                          /\ r.table # "incidents" /\ r.table # "audit_logs"
      BY <2>2, <3>2, LookupTables
    <3> HIDE DEF there
    <3> QED
      BY <2>1, <3>1, <3>2, <3>3, WritesKeep
  <2> QED
    BY <1>5, <2>3, <2>4 DEF Lookup
<1> QED
  BY <1>1, <1>2, <1>3, <1>4, <1>5 DEF Statement

LEMMA SessionKeeps ==
    ASSUME TenancyInv, NEW c \in Conns,
           SystemSession(c) \/ \E t \in Tenants, actor \in Actors : TenantSession(c, t, actor)
    PROVE  TenancyInv' /\ RowsStep
<1>1. /\ conn[c] \in Conn /\ conn[c].kind = "none" /\ Settled(conn[c])
      /\ conn[c].seen = {} /\ conn[c].writes = {} /\ conn[c].tenant \in {"", Null}
      /\ UNCHANGED <<service, present, changed>>
  BY DEF TenancyInv, Confined, Settled, SystemSession, TenantSession
<1>2. CASE SystemSession(c)
  <2>1. PICK k : k = [conn[c] EXCEPT !.kind = "system"]
    OBVIOUS
  <2>2. conn' = [conn EXCEPT ![c] = k]
    BY <1>2, <2>1 DEF SystemSession
  <2>3. /\ k \in Conn /\ k.kind = "system" /\ k.seen = {} /\ k.writes = {}
        /\ k.tenant \in {"", Null}
    BY <1>1, <2>1 DEF Conn
  <2>4. Confined(k)
    BY <2>3 DEF Confined, Settled, Changes
  <2> QED
    BY <1>1, <2>2, <2>4, ConnStep
<1>3. ASSUME NEW t \in Tenants, NEW actor \in Actors, TenantSession(c, t, actor)
      PROVE  TenancyInv' /\ RowsStep
  <2>1. PICK h : h = [conn[c] EXCEPT !.kind = "tenant", !.tenant = t, !.actor = actor]
    OBVIOUS
  <2>2. PICK k : k = [h EXCEPT !.for = t, !.as = actor]
    OBVIOUS
  <2>3. conn' = [conn EXCEPT ![c] = k]
    BY <1>3, <2>1, <2>2 DEF TenantSession
  <2>4. /\ h \in Conn /\ h.kind = "tenant" /\ h.tenant = t /\ h.actor = actor
        /\ h.seen = {} /\ h.writes = {}
    BY <1>1, <2>1 DEF Conn
  <2>5. /\ k \in Conn /\ k.kind = "tenant" /\ k.tenant = t /\ k.actor = actor
        /\ k.for = t /\ k.as = actor /\ k.seen = {} /\ k.writes = {}
    BY <2>2, <2>4 DEF Conn
  <2>6. Confined(k)
    BY <2>5 DEF Confined, Settled, Changes
  <2> QED
    BY <1>1, <2>3, <2>6, ConnStep
<1> QED
  BY <1>2, <1>3

LEMMA EndKeeps ==
    ASSUME TenancyInv, NEW c \in Conns, RollbackSession(c) \/ Reconnect(c)
    PROVE  TenancyInv' /\ RowsStep
<1>1. CASE RollbackSession(c)
  <2>1. PICK k : k = Released(conn[c])
    OBVIOUS
  <2>2. conn' = [conn EXCEPT ![c] = k] /\ UNCHANGED <<service, present, changed>>
    BY <1>1, <2>1 DEF RollbackSession
  <2>3. Confined(k)
    BY <2>1, ReleasedConfined DEF TenancyInv, Confined
  <2> QED
    BY <2>2, <2>3, ConnStep
<1>2. CASE Reconnect(c)
  <2>1. PICK k : k = NoConn
    OBVIOUS
  <2>2. conn' = [conn EXCEPT ![c] = k] /\ UNCHANGED <<service, present, changed>> /\ Confined(k)
    BY <1>2, <2>1, NoConnConfined DEF Reconnect
  <2> QED
    BY <2>2, ConnStep
<1> QED
  BY <1>1, <1>2

LEMMA CommitSessionKeeps ==
    ASSUME TenancyInv, NEW c \in Conns, CommitSession(c)
    PROVE  TenancyInv' /\ RowsStep
<1>1. /\ present' = {r \in Rows : Now(c, r) # "absent"}
      /\ changed' = {r \in Rows : Now(c, r) = "changed"}
      /\ conn' = [conn EXCEPT ![c] = Released(@)] /\ service' = service
  BY DEF CommitSession
<1>2. ASSUME NEW r \in Rows
      PROVE  /\ r.table = "incidents" /\ r \in changed' \ changed =>
                  conn[c].for = r.tenant /\ conn[c].as = "user"
             /\ r.table = "audit_logs" => Now(c, r) # "changed"
             /\ r.table = "audit_logs" /\ r \in present => Now(c, r) = "new"
  <2>1. /\ Now(c, r) = "changed" => r \in changed \/
             \E w \in conn[c].writes : w.row = r /\ w.to = "changed"
        /\ Now(c, r) = Committed(r) \/ \E w \in conn[c].writes : w.row = r /\ w.to = Now(c, r)
    BY NowIs DEF Committed
  <2>2. Changes(conn[c])
    BY DEF TenancyInv, Confined
  <2> QED
    BY <1>1, <2>1, <2>2 DEF Changes, TenancyInv, Committed
<1>3. RowsStep
  BY <1>1, <1>2 DEF RowsStep
<1>4. \A d \in Conns : Confined(conn[d])'
  <2> SUFFICES ASSUME NEW d \in Conns PROVE Confined(conn[d])'
    OBVIOUS
  <2>1. PICK u : u = conn'[d]
    OBVIOUS
  <2>2. Confined(u)
    BY <1>1, <2>1, ReleasedConfined DEF TenancyInv, Confined
  <2>3. Confined(u)'
    BY <1>1, <2>2 DEF Confined, Reachable
  <2> QED
    BY <2>1, <2>3
<1>5. DOMAIN conn' = Conns
  BY <1>1 DEF TenancyInv
<1>6. changed' \subseteq present' /\ present' \subseteq Rows
  BY <1>1
<1>7. \A r \in changed' : r.table # "audit_logs"
  BY <1>1, <1>2
<1> QED
  BY <1>1, <1>3, <1>4, <1>5, <1>6, <1>7 DEF TenancyInv

\* A transaction reaches the rows of its tenant and its agent only, or what a lookup function of its
\* service shows; a person's transaction of the tenant confirms an incident; audit rows stay as
\* they are.
THEOREM TenantsApartAlways == TenancySpec => TenantsApart
<1>1. TenancyInit => TenancyInv
  <2> SUFFICES ASSUME TenancyInit PROVE TenancyInv
    OBVIOUS
  <2>1. \A c \in Conns : Confined(conn[c])
    BY NoConnConfined DEF TenancyInit
  <2> QED
    BY <2>1 DEF TenancyInit, TenancyInv
<1>2. TenancyInv => ReachesOwn
  <2> SUFFICES ASSUME TenancyInv PROVE ReachesOwn
    OBVIOUS
  <2>1. ASSUME NEW c \in Conns
        PROVE  /\ conn[c].kind \in {"none", "tenant", "system"}
               /\ conn[c].tenant \in Tenants \cup {"", Null}
               /\ conn[c].for \in Tenants \cup {Null}
               /\ conn[c].seen \subseteq Rows
               /\ \A r \in Reached(c) : Reachable(conn[c], r)
    BY DEF TenancyInv, Confined, Conn, Reached
  <2> QED
    BY <2>1 DEF TenancyInv, ReachesOwn, TenancyTypeOK, Reachable
<1>3. ASSUME TenancyInv, TenancyNext PROVE TenancyInv' /\ RowsStep
  BY <1>3, SessionKeeps, StatementKeeps, CommitSessionKeeps, EndKeeps DEF TenancyNext
<1>4. ASSUME TenancyInv, UNCHANGED tenancyVars PROVE TenancyInv'
  <2>1. ASSUME NEW c \in Conns PROVE Confined(conn[c])'
    <3>1. PICK u : u = conn[c]
      OBVIOUS
    <3>2. Confined(u)'
      BY <1>4, <3>1 DEF tenancyVars, TenancyInv, Confined, Reachable
    <3> QED
      BY <1>4, <3>1, <3>2 DEF tenancyVars
  <2> QED
    BY <1>4, <2>1 DEF tenancyVars, TenancyInv
<1>5. TenancyInv /\ [TenancyNext]_tenancyVars =>
        TenancyInv' /\ [ReachesOwn' /\ RowsStep]_tenancyVars
  <2>1. TenancyInv' => ReachesOwn'
    BY <1>2, PTL
  <2> QED
    BY <1>3, <1>4, <2>1
<1> QED
  BY <1>1, <1>5, PTL DEF TenancySpec, TenantsApart, RowsStep

-----------------------------------------------------------------------------
(* Conversations *)

(***************************************************************************)
(* A turn's message is stored and not yet answered until its Store, since  *)
(* the row of the message is inserted once (OneTurnEach): what the turn    *)
(* reads of it stays true without a lock.  The copy of the context that a  *)
(* turn works on holds every appointment of the stored one, as long as no  *)
(* other turn has stored another since (behind); what a turn that is       *)
(* behind writes over goes to dropped (TurnOK).                            *)
(***************************************************************************)

\* The button for a person: it has read no context, and stores none.
Asks(t) == t.pc \in {"escalate", "escalating"} /\ t.msg = None

Reads(t) == t.pc \in {"running", "form", "pending", "escalate", "escalating", "store"}

TurnOK(t) ==
    /\ t.pc \in {"queued", "running", "reply"} => t.msg \in Msgs
    /\ t.pc \in {"idle", "form", "pending"} => t.msg = None
    /\ t.pc \notin {"idle", "queued"} => conv.status # "ABSENT"
    /\ t.pc \notin {"idle", "queued"} /\ t.msg # None => t.msg \in stored
    /\ Reads(t) /\ t.msg # None => answers[t.msg] = 0
    /\ t.pc = "reply" => told[t.msg] < answers[t.msg] \/ t.msg \in unsure
    /\ t.pc = "pending" => t.ctx.pending \in t.ctx.offered
    /\ t.pc = "escalating" => t.status \notin WithPeople
    /\ Asks(t) => t.ctx.appts = <<>>
    /\ Reads(t) /\ ~t.behind /\ ~Asks(t) => Contents(conv.ctx.appts) \subseteq Contents(t.ctx.appts)

\* Who answers m.
Answers(t) == t.msg # None /\ t.pc # "queued"

OneTurnEach ==
    \A v, w \in Turns : v # w /\ Answers(turn[v]) /\ Answers(turn[w]) => turn[v].msg # turn[w].msg

ToldOnce ==
    \A m \in Msgs : /\ answers[m] > 0 => m \in stored
                    /\ answers[m] <= 1
                    /\ told[m] <= answers[m] \/ m \in unsure

HasAssignee == conv.status = "HUMAN_HANDLING" => overtaken \/ conv.assigned

StaffFound == \A p \in People : person[p].op # "idle" => conv.status # "ABSENT"

TalkInv ==
    /\ TypeOK
    /\ \A w \in Turns : TurnOK(turn[w])
    /\ OneTurnEach
    /\ ToldOnce
    /\ BookingsKnown
    /\ HasAssignee
    /\ StaffFound

LEMMA TurnForms ==
    ASSUME TalkInv, NEW w \in Turns
    PROVE  /\ turn[w] \in Turn
           /\ turn[w].ctx \in Context
           /\ TurnOK(turn[w])
           /\ HasRead(w) = Reads(turn[w])
           /\ conv \in Conversation /\ conv.ctx \in Context
BY DEF TalkInv, TypeOK, Turn, Conversation, HasRead, Reads

LEMMA ContextForms ==
    /\ NoContext \in Context /\ NoContext.appts = <<>>
    /\ IdleTurn \in Turn /\ IdlePerson \in Person
    /\ Contents(<<>>) = {}
BY DEF NoContext, Context, IdleTurn, Turn, IdlePerson, Person, Statuses, Contents

LEMMA Appended ==
    ASSUME NEW q \in Seq(Slots), NEW s \in Slots
    PROVE  Append(q, s) \in Seq(Slots) /\ Contents(Append(q, s)) = Contents(q) \cup {s}
<1> DEFINE a == Append(q, s)
<1>1. /\ a \in Seq(Slots) /\ Len(a) = Len(q) + 1
      /\ \A i \in 1 .. Len(q) : a[i] = q[i]
      /\ a[Len(q) + 1] = s
  BY AppendProperties
<1>2. Len(q) \in Nat /\ DOMAIN q = 1 .. Len(q) /\ DOMAIN a = 1 .. Len(q) + 1
  BY <1>1, LenProperties
<1> HIDE DEF a
<1>3. \A i \in DOMAIN a : i \in DOMAIN q \/ i = Len(q) + 1
  BY <1>2
<1>4. DOMAIN q \subseteq DOMAIN a /\ Len(q) + 1 \in DOMAIN a
  BY <1>2
<1>5. Contents(a) = Contents(q) \cup {s}
  BY <1>1, <1>2, <1>3, <1>4 DEF Contents
<1> QED
  BY <1>1, <1>5 DEF a

LEMMA TalkInitInv == Init => TalkInv
<1> SUFFICES ASSUME Init PROVE TalkInv
  OBVIOUS
<1>1. \A w \in Turns : turn[w] = IdleTurn
  BY DEF Init
<1>2. TypeOK
  <2>1. conv \in Conversation
    <3>1. PICK c \in {"web", "whatsapp"} :
            conv = [channel |-> c, status |-> "ABSENT", assigned |-> FALSE, ctx |-> NoContext]
      BY DEF Init
    <3> QED
      BY <3>1, ContextForms DEF Conversation
  <2>2. turn \in [Turns -> Turn] /\ person \in [People -> Person]
    BY ContextForms DEF Init
  <2> QED
    BY <2>1, <2>2 DEF Init, TypeOK
<1>3. \A w \in Turns : TurnOK(turn[w])
  BY <1>1 DEF TurnOK, IdleTurn, Reads, Asks
<1>4. OneTurnEach
  BY <1>1 DEF OneTurnEach, Answers, IdleTurn
<1>5. ToldOnce /\ BookingsKnown /\ HasAssignee /\ StaffFound
  BY DEF Init, ToldOnce, BookingsKnown, HasAssignee, StaffFound, IdlePerson
<1> QED
  BY <1>2, <1>3, <1>4, <1>5 DEF TalkInv

(***************************************************************************)
(* A step that changes one turn, and nothing that is stored.               *)
(***************************************************************************)
LEMMA TurnMoves ==
    ASSUME TalkInv, NEW w \in Turns, NEW t \in Turn,
           turn' = [turn EXCEPT ![w] = t], TurnOK(t),
           Answers(t) => Answers(turn[w]) /\ t.msg = turn[w].msg,
           UNCHANGED <<conv, stored, answers, told, person, overtaken, unsure>>,
           appt' \in [Slots -> {"NONE", "BOOKED", "OVER"}],
           issued' \subseteq Slots, seen' \subseteq Msgs, dropped' \subseteq Slots,
           dropped \subseteq dropped',
           Reads(turn[w]) =>
             \/ Reads(t) /\ Contents(turn[w].ctx.appts) \subseteq Contents(t.ctx.appts)
             \/ Contents(turn[w].ctx.appts) \subseteq Contents(conv.ctx.appts) \cup dropped',
           \A s \in Slots : appt'[s] = "BOOKED" =>
             \/ appt[s] = "BOOKED"
             \/ s \in dropped'
             \/ Reads(t) /\ s \in Contents(t.ctx.appts)
    PROVE  TalkInv'
<1>1. turn' \in [Turns -> Turn] /\ turn'[w] = t /\ \A x \in Turns : x # w => turn'[x] = turn[x]
  BY DEF TalkInv, TypeOK
<1>2. TypeOK'
  BY <1>1 DEF TalkInv, TypeOK
<1>3. ASSUME NEW x \in Turns PROVE TurnOK(turn[x])'
  <2>1. TurnOK(turn'[x])
    BY <1>1 DEF TalkInv
  <2> QED
    BY <2>1 DEF TurnOK
<1>4. OneTurnEach'
  BY <1>1 DEF TalkInv, OneTurnEach, Answers
<1>5. ToldOnce' /\ HasAssignee' /\ StaffFound'
  BY DEF TalkInv, ToldOnce, HasAssignee, StaffFound
<1>6. ASSUME NEW s \in Slots, appt'[s] = "BOOKED",
             ~(s \in Contents(conv.ctx.appts) \cup dropped')
      PROVE  \E x \in Turns : HasRead(x)' /\ s \in Contents(turn'[x].ctx.appts)
  <2>1. CASE Reads(t) /\ s \in Contents(t.ctx.appts)
    BY <2>1, <1>1 DEF HasRead, Reads
  <2>2. CASE appt[s] = "BOOKED"
    <3>1. PICK x \in Turns : HasRead(x) /\ s \in Contents(turn[x].ctx.appts)
      BY <1>6, <2>2 DEF TalkInv, BookingsKnown
    <3>2. CASE x # w
      BY <3>1, <3>2, <1>1 DEF HasRead
    <3>3. CASE x = w
      BY <3>1, <3>3, <1>1, <1>6 DEF HasRead, Reads
    <3> QED
      BY <3>2, <3>3
  <2> QED
    BY <1>6, <2>1, <2>2
<1>7. BookingsKnown'
  BY <1>6 DEF BookingsKnown
<1> QED
  BY <1>2, <1>3, <1>4, <1>5, <1>7 DEF TalkInv

\* A turn is over, or never got to its transaction.
LEMMA TurnEnds ==
    ASSUME TalkInv, NEW w \in Turns,
           TaskEnds(w) \/ InboundAgain(w) \/ ReplyFails(w) \/ Cut(w)
    PROVE  TalkInv'
<1>1. /\ turn' = [turn EXCEPT ![w] = IdleTurn]
      /\ UNCHANGED <<conv, stored, answers, told, person, overtaken, unsure, appt, issued, seen>>
  BY DEF TaskEnds, InboundAgain, ReplyFails, Cut, customer, histories
<1>2. TurnOK(IdleTurn) /\ ~Answers(IdleTurn)
  BY DEF TurnOK, IdleTurn, Reads, Asks, Answers
<1>3. /\ dropped \subseteq dropped' /\ dropped' \subseteq Slots
      /\ Reads(turn[w]) => Contents(turn[w].ctx.appts) \subseteq Contents(conv.ctx.appts) \cup dropped'
  <2>1. CASE Cut(w)
    <3>1. Contents(turn[w].ctx.appts) \subseteq Slots
      BY TurnForms DEF Contents, Context
    <3> QED
      BY <2>1, <3>1 DEF Cut, TalkInv, TypeOK
  <2>2. CASE ~Cut(w)
    BY <2>2 DEF TaskEnds, InboundAgain, ReplyFails, histories, Reads, TalkInv, TypeOK
  <2> QED
    BY <2>1, <2>2
<1>4. /\ appt' \in [Slots -> {"NONE", "BOOKED", "OVER"}] /\ issued' \subseteq Slots /\ seen' \subseteq Msgs
  BY <1>1 DEF TalkInv, TypeOK
<1> QED
  BY <1>1, <1>2, <1>3, <1>4, ContextForms, TurnMoves

\* A turn begins.
LEMMA TurnBegins ==
    ASSUME TalkInv, NEW w \in Turns,
           (\E m \in Msgs : Receive(w, m)) \/ AskForPerson(w)
    PROVE  TalkInv'
<1>1. CASE AskForPerson(w)
  <2> DEFINE t == [IdleTurn EXCEPT !.pc = "escalate"]
  <2>1. t \in Turn /\ TurnOK(t) /\ ~Answers(t)
    BY <1>1, ContextForms DEF AskForPerson, TurnOK, IdleTurn, Turn, Reads, Asks, Answers
  <2>2. ~Reads(turn[w])
    BY <1>1 DEF AskForPerson, Reads
  <2>3. /\ turn' = [turn EXCEPT ![w] = t]
        /\ UNCHANGED <<conv, appt, issued, customer, person, histories>>
    BY <1>1 DEF AskForPerson
  <2> HIDE DEF t
  <2> QED
    BY <2>1, <2>2, <2>3, TurnMoves DEF customer, histories, TalkInv, TypeOK
<1>2. ASSUME NEW m \in Msgs, Receive(w, m) PROVE TalkInv'
  <2> DEFINE t == [IdleTurn EXCEPT !.pc = "queued", !.msg = m]
  <2>1. t \in Turn /\ TurnOK(t) /\ ~Answers(t)
    BY ContextForms DEF TurnOK, IdleTurn, Turn, Reads, Asks, Answers
  <2>2. ~Reads(turn[w])
    BY <1>2 DEF Receive, Reads
  <2>3. /\ turn' = [turn EXCEPT ![w] = t] /\ seen' = seen \cup {m}
        /\ UNCHANGED <<conv, appt, issued, stored, answers, told, person, histories>>
    BY <1>2 DEF Receive
  <2> HIDE DEF t
  <2> QED
    BY <2>1, <2>2, <2>3, TurnMoves DEF histories, TalkInv, TypeOK
<1> QED
  BY <1>1, <1>2

\* While the agent runs, it changes the turn's copy of the context and what is booked.
LEMMA CopyChanges ==
    ASSUME TalkInv, NEW w \in Turns, NEW c \in Context, NEW pc,
           turn' = [turn EXCEPT ![w] = [turn[w] EXCEPT !.ctx = c, !.pc = pc]],
           \/ turn[w].pc = "running" /\ pc \in {"running", "escalate", "store"}
           \/ turn[w].pc \in {"form", "pending"} /\ pc \in {"pending", "store"},
           pc = "pending" => c.pending \in c.offered,
           Contents(turn[w].ctx.appts) \subseteq Contents(c.appts),
           UNCHANGED <<conv, customer, person, overtaken, unsure>>,
           appt' \in [Slots -> {"NONE", "BOOKED", "OVER"}],
           issued' \subseteq Slots, dropped' \subseteq Slots, dropped \subseteq dropped',
           \A s \in Slots : appt'[s] = "BOOKED" =>
             appt[s] = "BOOKED" \/ s \in dropped' \cup Contents(c.appts)
    PROVE  TalkInv'
<1> DEFINE t == [turn[w] EXCEPT !.ctx = c, !.pc = pc]
<1>1. /\ t \in Turn /\ t.ctx = c /\ t.pc = pc /\ t.msg = turn[w].msg /\ t.behind = turn[w].behind
  BY TurnForms DEF Turn
<1> HIDE DEF t
<1>2. Reads(t) /\ Reads(turn[w])
  BY <1>1 DEF Reads
<1>3. ~Asks(t) /\ ~Asks(turn[w])
  BY <1>1, TurnForms, ConversationAssumption DEF Asks, TurnOK
<1>4. TurnOK(t)
  BY <1>1, <1>2, <1>3, TurnForms, ConversationAssumption DEF TurnOK
<1>5. Answers(t) => Answers(turn[w])
  BY <1>1, TurnForms, ConversationAssumption DEF TurnOK, Answers
<1>6. seen' \subseteq Msgs /\ turn' = [turn EXCEPT ![w] = t]
  BY DEF customer, TalkInv, TypeOK, t
<1>7. UNCHANGED <<conv, stored, answers, told, person, overtaken, unsure>>
  BY DEF customer
<1> QED
  BY <1>1, <1>2, <1>4, <1>5, <1>6, <1>7, TurnMoves

\* Booking takes nothing off; a new appointment is one of the turn's.
LEMMA BookedForms ==
    ASSUME TalkInv, NEW s \in Slots, NEW c \in Context
    PROVE  /\ Booked(s) \in [Slots -> {"NONE", "BOOKED", "OVER"}]
           /\ \A x \in Slots : Booked(s)[x] = "BOOKED" => appt[x] = "BOOKED" \/ x = s
           /\ Remember(c, s) \in Context
           /\ Contents(Remember(c, s).appts) = Contents(c.appts) \cup {s}
<1>1. c.appts \in Seq(Slots)
  BY DEF Context
<1>2. Remember(c, s) \in Context /\ Remember(c, s).appts = Append(c.appts, s)
  BY <1>1, Appended DEF Remember, Context
<1> QED
  BY <1>1, <1>2, Appended DEF Booked, TalkInv, TypeOK

LEMMA SameTurn ==
    ASSUME TalkInv, NEW w \in Turns
    PROVE  \A pc : turn[w].pc = pc =>
             turn = [turn EXCEPT ![w] = [turn[w] EXCEPT !.ctx = turn[w].ctx, !.pc = pc]]
<1>1. turn[w] = [turn[w] EXCEPT !.ctx = turn[w].ctx, !.pc = turn[w].pc]
  BY TurnForms DEF Turn
<1>2. turn = [turn EXCEPT ![w] = turn[w]]
  BY DEF TalkInv, TypeOK
<1> QED
  BY <1>1, <1>2

LEMMA CopySet ==
    ASSUME TalkInv, NEW w \in Turns, NEW c, turn[w].pc = "running"
    PROVE  [turn EXCEPT ![w].ctx = c]
             = [turn EXCEPT ![w] = [turn[w] EXCEPT !.ctx = c, !.pc = "running"]]
<1> DEFINE t == [turn[w] EXCEPT !.ctx = c]
           u == [turn[w] EXCEPT !.ctx = c, !.pc = "running"]
<1>1. t = u
  BY TurnForms DEF Turn
<1>2. [turn EXCEPT ![w].ctx = c] = [turn EXCEPT ![w] = t]
  OBVIOUS
<1> QED
  BY <1>1, <1>2

\* Tools that change what the copy says of the customer and of the offer.
LEMMA OfferInv ==
    ASSUME TalkInv, NEW w \in Turns,
           CheckAvailability(w) \/ CaptureContact(w) \/ (\E s \in Slots : NeedContact(w, s))
    PROVE  TalkInv'
<1>1. /\ turn[w].pc = "running"
      /\ UNCHANGED <<conv, appt, customer, person, histories>>
  BY DEF CheckAvailability, CaptureContact, NeedContact
<1>2. /\ issued' \subseteq Slots
      /\ \E c \in Context : /\ c.appts = turn[w].ctx.appts
                           /\ turn' = [turn EXCEPT ![w].ctx = c]
  <2>1. CASE CheckAvailability(w)
    <3>1. PICK T \in SUBSET (Slots \ issued) :
            turn' = [turn EXCEPT ![w].ctx.offered = T] /\ issued' = issued \cup T
      BY <2>1 DEF CheckAvailability
    <3> DEFINE c == [turn[w].ctx EXCEPT !.offered = T]
    <3>2. c \in Context /\ c.appts = turn[w].ctx.appts
      BY TurnForms DEF Context
    <3>3. turn' = [turn EXCEPT ![w].ctx = c]
      BY <3>1
    <3>4. issued' \subseteq Slots
      BY <3>1 DEF TalkInv, TypeOK
    <3> QED
      BY <3>2, <3>3, <3>4
  <2>2. CASE CaptureContact(w)
    <3> DEFINE c == [turn[w].ctx EXCEPT !.contact = TRUE]
    <3>2. c \in Context /\ c.appts = turn[w].ctx.appts
      BY TurnForms DEF Context
    <3>3. turn' = [turn EXCEPT ![w].ctx = c] /\ issued' \subseteq Slots
      BY <2>2 DEF CaptureContact, TalkInv, TypeOK
    <3> QED
      BY <3>2, <3>3
  <2>3. ASSUME NEW s \in Slots, NeedContact(w, s)
        PROVE  /\ issued' \subseteq Slots
               /\ \E c \in Context : /\ c.appts = turn[w].ctx.appts
                                    /\ turn' = [turn EXCEPT ![w].ctx = c]
    <3> DEFINE c == [turn[w].ctx EXCEPT !.pending = s]
    <3>2. c \in Context /\ c.appts = turn[w].ctx.appts
      BY TurnForms DEF Context
    <3>3. turn' = [turn EXCEPT ![w].ctx = c] /\ issued' \subseteq Slots
      BY <2>3 DEF NeedContact, TalkInv, TypeOK
    <3> QED
      BY <3>2, <3>3
  <2> QED
    BY <2>1, <2>2, <2>3
<1>3. PICK c \in Context : c.appts = turn[w].ctx.appts /\ turn' = [turn EXCEPT ![w].ctx = c]
  BY <1>2
<1>4. turn' = [turn EXCEPT ![w] = [turn[w] EXCEPT !.ctx = c, !.pc = "running"]]
  BY <1>1, <1>3, CopySet
<1> QED
  BY <1>1, <1>2, <1>3, <1>4, CopyChanges DEF TalkInv, TypeOK, histories

LEMMA BookInv ==
    ASSUME TalkInv, NEW w \in Turns, NEW s \in Slots, Book(w, s)
    PROVE  TalkInv'
<1> DEFINE c == Remember(turn[w].ctx, s)
<1>1. c \in Context /\ Contents(c.appts) = Contents(turn[w].ctx.appts) \cup {s}
  BY TurnForms, BookedForms
<1>2. turn' = [turn EXCEPT ![w] = [turn[w] EXCEPT !.ctx = c, !.pc = "running"]]
  BY TurnForms DEF Book, TalkInv, TypeOK, Turn
<1> HIDE DEF c
<1>3. appt' = Booked(s) /\ turn[w].pc = "running"
  BY DEF Book
<1>4. UNCHANGED <<conv, issued, customer, person, histories>>
  BY DEF Book
<1> QED
  <2>1. \A x \in Slots : appt'[x] = "BOOKED" =>
          appt[x] = "BOOKED" \/ x \in dropped' \cup Contents(c.appts)
    BY <1>1, <1>3, TurnForms, BookedForms
  <2>2. appt' \in [Slots -> {"NONE", "BOOKED", "OVER"}]
    BY <1>3, TurnForms, BookedForms
  <2>3. /\ issued' \subseteq Slots /\ dropped' \subseteq Slots /\ dropped \subseteq dropped'
        /\ UNCHANGED <<conv, customer, person, overtaken, unsure>>
    BY <1>4 DEF TalkInv, TypeOK, histories
  <2>4. Contents(turn[w].ctx.appts) \subseteq Contents(c.appts)
    BY <1>1
  <2> QED
    BY <1>1, <1>2, <1>3, <2>1, <2>2, <2>3, <2>4, CopyChanges

LEMMA BookLostInv ==
    ASSUME TalkInv, NEW w \in Turns, NEW s \in Slots, BookLost(w, s)
    PROVE  TalkInv'
<1> DEFINE c == turn[w].ctx
<1>1. c \in Context
  BY TurnForms
<1>2. turn' = [turn EXCEPT ![w] = [turn[w] EXCEPT !.ctx = c, !.pc = "running"]]
  BY SameTurn DEF BookLost
<1>3. appt' = Booked(s) /\ turn[w].pc = "running" /\ dropped' = dropped \cup {s}
  BY DEF BookLost
<1>4. UNCHANGED <<conv, issued, customer, person, unsure, overtaken>>
  BY DEF BookLost
<1> QED
  <2>1. \A x \in Slots : appt'[x] = "BOOKED" =>
          appt[x] = "BOOKED" \/ x \in dropped' \cup Contents(c.appts)
    BY <1>1, <1>3, BookedForms
  <2>2. appt' \in [Slots -> {"NONE", "BOOKED", "OVER"}]
    BY <1>1, <1>3, BookedForms
  <2>3. /\ issued' \subseteq Slots /\ dropped' \subseteq Slots /\ dropped \subseteq dropped'
        /\ UNCHANGED <<conv, customer, person, overtaken, unsure>>
    BY <1>3, <1>4 DEF TalkInv, TypeOK
  <2> QED
    BY <1>1, <1>2, <1>3, <2>1, <2>2, <2>3, CopyChanges

LEMMA RescheduleLostInv ==
    ASSUME TalkInv, NEW w \in Turns, NEW s \in Slots, RescheduleLost(w, s)
    PROVE  TalkInv'
<1> DEFINE c == turn[w].ctx
<1>1. c \in Context
  BY TurnForms
<1>2. turn' = [turn EXCEPT ![w] = [turn[w] EXCEPT !.ctx = c, !.pc = "running"]]
  BY SameTurn DEF RescheduleLost, Rescheduled
<1>3. /\ appt' \in [Slots -> {"NONE", "BOOKED", "OVER"}]
      /\ \A x \in Slots : appt'[x] = "BOOKED" => appt[x] = "BOOKED" \/ x = s
  BY DEF RescheduleLost, Rescheduled, TalkInv, TypeOK
<1>4. /\ turn[w].pc = "running" /\ dropped' = dropped \cup {s}
      /\ UNCHANGED <<conv, issued, customer, person, unsure, overtaken>>
  BY DEF RescheduleLost, Rescheduled
<1>5. /\ issued' \subseteq Slots /\ dropped' \subseteq Slots /\ dropped \subseteq dropped'
      /\ UNCHANGED <<conv, customer, person, overtaken, unsure>>
  BY <1>4 DEF TalkInv, TypeOK
<1>6. \A x \in Slots : appt'[x] = "BOOKED" =>
        appt[x] = "BOOKED" \/ x \in dropped' \cup Contents(c.appts)
  BY <1>3, <1>4
<1> QED
  BY <1>1, <1>2, <1>3, <1>4, <1>5, <1>6, CopyChanges

LEMMA MoveInv ==
    ASSUME TalkInv, NEW w \in Turns, Cancel(w) \/ (\E s \in Slots : Reschedule(w, s))
    PROVE  TalkInv'
<1>1. CASE Cancel(w)
  <2> DEFINE c == turn[w].ctx
  <2>1. c \in Context
    BY TurnForms
  <2>2. turn' = [turn EXCEPT ![w] = [turn[w] EXCEPT !.ctx = c, !.pc = "running"]]
    BY <1>1, SameTurn DEF Cancel
  <2>3. /\ appt' \in [Slots -> {"NONE", "BOOKED", "OVER"}]
        /\ \A x \in Slots : appt'[x] = "BOOKED" => appt[x] = "BOOKED"
    BY <1>1 DEF Cancel, TalkInv, TypeOK
  <2>4. turn[w].pc = "running" /\ UNCHANGED <<conv, issued, customer, person, histories>>
    BY <1>1 DEF Cancel
  <2> QED
    BY <2>1, <2>2, <2>3, <2>4, CopyChanges DEF histories, TalkInv, TypeOK
<1>2. ASSUME NEW s \in Slots, Reschedule(w, s) PROVE TalkInv'
  <2> DEFINE c == [turn[w].ctx EXCEPT !.offered = {}, !.appts = Append(@, s)]
  <2>1. c \in Context /\ Contents(c.appts) = Contents(turn[w].ctx.appts) \cup {s}
    BY TurnForms, Appended DEF Context
  <2>2. turn' = [turn EXCEPT ![w] = [turn[w] EXCEPT !.ctx = c, !.pc = "running"]]
    <3>1. turn' = [turn EXCEPT ![w].ctx = c] /\ turn[w].pc = "running"
      BY <1>2 DEF Reschedule, Rescheduled
    <3> HIDE DEF c
    <3> QED
      BY <3>1, CopySet
  <2> HIDE DEF c
  <2>3. /\ appt' \in [Slots -> {"NONE", "BOOKED", "OVER"}]
        /\ \A x \in Slots : appt'[x] = "BOOKED" => appt[x] = "BOOKED" \/ x = s
    BY <1>2 DEF Reschedule, Rescheduled, TalkInv, TypeOK
  <2>4. /\ turn[w].pc = "running"
        /\ UNCHANGED <<conv, issued, customer, person, unsure, dropped, overtaken>>
    BY <1>2 DEF Reschedule, Rescheduled, histories
  <2>5. issued' \subseteq Slots /\ dropped' \subseteq Slots
    BY <2>4 DEF TalkInv, TypeOK
  <2>6. \A x \in Slots : appt'[x] = "BOOKED" =>
          appt[x] = "BOOKED" \/ x \in dropped' \cup Contents(c.appts)
    BY <2>1, <2>3
  <2> QED
    BY <2>1, <2>2, <2>3, <2>4, <2>5, <2>6, CopyChanges
<1> QED
  BY <1>1, <1>2

\* The agent's run ends; the form is filled in, and the choice that waited for it booked.
LEMMA EndsInv ==
    ASSUME TalkInv, NEW w \in Turns, RunEnds(w) \/ FormCapture(w) \/ FormBook(w)
    PROVE  TalkInv'
<1>1. CASE RunEnds(w)
  <2>1. PICK next \in {"escalate", "store"} : turn' = [turn EXCEPT ![w].pc = next]
    BY <1>1 DEF RunEnds
  <2>2. turn' = [turn EXCEPT ![w] = [turn[w] EXCEPT !.ctx = turn[w].ctx, !.pc = next]]
    BY <2>1, TurnForms DEF TalkInv, TypeOK, Turn
  <2>3. turn[w].pc = "running" /\ UNCHANGED <<conv, appt, issued, customer, person, histories>>
    BY <1>1 DEF RunEnds
  <2> QED
    BY <2>2, <2>3, TurnForms, CopyChanges DEF histories, TalkInv, TypeOK
<1>2. CASE FormCapture(w)
  <2> DEFINE c == [turn[w].ctx EXCEPT !.contact = TRUE]
  <2>1. c \in Context /\ c.appts = turn[w].ctx.appts
        /\ c.pending = turn[w].ctx.pending /\ c.offered = turn[w].ctx.offered
    BY TurnForms DEF Context
  <2>2. turn[w].pc = "form" /\ UNCHANGED <<conv, appt, issued, customer, person, histories>>
    BY <1>2 DEF FormCapture
  <2>3. CASE turn' = [turn EXCEPT ![w].pc = "store"]
    <3>1. turn' = [turn EXCEPT ![w] = [turn[w] EXCEPT !.ctx = turn[w].ctx, !.pc = "store"]]
      BY <2>3, TurnForms DEF TalkInv, TypeOK, Turn
    <3> QED
      BY <3>1, <2>2, TurnForms, CopyChanges DEF histories, TalkInv, TypeOK
  <2>4. CASE turn' # [turn EXCEPT ![w].pc = "store"]
    <3> DEFINE pc == IF turn[w].ctx.pending \in turn[w].ctx.offered THEN "pending" ELSE "store"
    <3>1. turn' = [turn EXCEPT ![w] = [turn[w] EXCEPT !.ctx = c, !.pc = pc]]
      BY <1>2, <2>4, TurnForms DEF FormCapture, TalkInv, TypeOK, Turn
    <3>2. pc \in {"pending", "store"} /\ (pc = "pending" => c.pending \in c.offered)
      BY <2>1
    <3> HIDE DEF pc, c
    <3> QED
      BY <3>1, <3>2, <2>1, <2>2, CopyChanges DEF histories, TalkInv, TypeOK
  <2> QED
    BY <2>3, <2>4
<1>3. CASE FormBook(w)
  <2> DEFINE s == turn[w].ctx.pending
             r == Remember(turn[w].ctx, s)
  <2>1. s \in Slots /\ turn[w].pc = "pending"
    BY <1>3, TurnForms DEF FormBook, TurnOK, Context
  <2>2. UNCHANGED <<conv, issued, customer, person, unsure, overtaken>>
    BY <1>3 DEF FormBook
  <2>3. r \in Context /\ Contents(r.appts) = Contents(turn[w].ctx.appts) \cup {s}
    BY <2>1, TurnForms, BookedForms
  <2>4. CASE /\ appt' = Booked(s) /\ UNCHANGED dropped
             /\ turn' = [turn EXCEPT ![w].pc = "store", ![w].ctx = Remember(@, s)]
    <3>1. turn' = [turn EXCEPT ![w] = [turn[w] EXCEPT !.ctx = r, !.pc = "store"]]
      BY <2>4, TurnForms DEF TalkInv, TypeOK, Turn
    <3> HIDE DEF r
    <3>2. \A x \in Slots : appt'[x] = "BOOKED" =>
            appt[x] = "BOOKED" \/ x \in dropped' \cup Contents(r.appts)
      BY <2>1, <2>3, <2>4, TurnForms, BookedForms
    <3>3. appt' \in [Slots -> {"NONE", "BOOKED", "OVER"}]
      BY <2>1, <2>4, TurnForms, BookedForms
    <3>4. issued' \subseteq Slots /\ dropped' \subseteq Slots /\ dropped \subseteq dropped'
      BY <2>2, <2>4 DEF TalkInv, TypeOK
    <3>5. Contents(turn[w].ctx.appts) \subseteq Contents(r.appts)
      BY <2>3
    <3>6. /\ turn[w].pc \in {"form", "pending"}
          /\ UNCHANGED <<conv, customer, person, overtaken, unsure>>
      BY <2>1, <2>2
    <3>7. r \in Context
      BY <2>3
    <3> DEFINE pc == "store"
    <3>8. turn' = [turn EXCEPT ![w] = [turn[w] EXCEPT !.ctx = r, !.pc = pc]]
      BY <3>1
    <3>9. pc \in {"pending", "store"} /\ pc # "pending"
      OBVIOUS
    <3> HIDE DEF pc, s
    <3> QED
      BY <3>2, <3>3, <3>4, <3>5, <3>6, <3>7, <3>8, <3>9, CopyChanges
  <2>5. CASE /\ appt' \in {appt, Booked(s)}
             /\ dropped' = IF appt' = appt THEN dropped ELSE dropped \cup {s}
             /\ turn' = [turn EXCEPT ![w].pc = "store"]
    <3>1. turn' = [turn EXCEPT ![w] = [turn[w] EXCEPT !.ctx = turn[w].ctx, !.pc = "store"]]
      BY <2>5, TurnForms DEF TalkInv, TypeOK, Turn
    <3>2. \A x \in Slots : appt'[x] = "BOOKED" =>
            appt[x] = "BOOKED" \/ x \in dropped' \cup Contents(turn[w].ctx.appts)
      BY <2>1, <2>5, TurnForms, BookedForms
    <3>3. appt' \in [Slots -> {"NONE", "BOOKED", "OVER"}]
      BY <2>1, <2>5, TurnForms, BookedForms DEF TalkInv, TypeOK
    <3>4. issued' \subseteq Slots /\ dropped' \subseteq Slots /\ dropped \subseteq dropped'
      BY <2>1, <2>2, <2>5 DEF TalkInv, TypeOK
    <3> HIDE DEF s
    <3> QED
      BY <3>1, <3>2, <3>3, <3>4, <2>1, <2>2, TurnForms, CopyChanges
  <2> QED
    BY <1>3, <2>4, <2>5 DEF FormBook
<1> QED
  BY <1>1, <1>2, <1>3

\* escalate reads the status without a lock.
LEMMA EscalateReadInv ==
    ASSUME TalkInv, NEW w \in Turns, EscalateRead(w)
    PROVE  TalkInv'
<1>1. turn[w].pc = "escalate" /\ UNCHANGED <<conv, appt, issued, customer, person, histories>>
  BY DEF EscalateRead
<1>2. /\ turn[w] \in Turn /\ TurnOK(turn[w]) /\ Reads(turn[w])
      /\ conv.status \in Statuses
  BY <1>1, TurnForms DEF TurnOK, Conversation, Reads
<1>3. \E t \in Turn :
        /\ turn' = [turn EXCEPT ![w] = t]
        /\ TurnOK(t)
        /\ t = IdleTurn \/ (Reads(t) /\ t.msg = turn[w].msg /\ t.ctx = turn[w].ctx)
        /\ t = IdleTurn => turn[w].ctx.appts = <<>>
  <2>1. CASE conv.status \notin WithPeople
    <3> DEFINE t == [turn[w] EXCEPT !.pc = "escalating", !.status = conv.status]
    <3>1. t \in Turn /\ turn' = [turn EXCEPT ![w] = t]
      BY <2>1, <1>2 DEF EscalateRead, Turn, TalkInv, TypeOK
    <3>2. /\ t.pc = "escalating" /\ t.msg = turn[w].msg /\ t.ctx = turn[w].ctx
          /\ t.behind = turn[w].behind /\ t.status = conv.status
      BY <1>2 DEF Turn
    <3> HIDE DEF t
    <3>3. TurnOK(t) /\ Reads(t)
      BY <1>1, <1>2, <2>1, <3>2 DEF TurnOK, Reads, Asks
    <3>4. t # IdleTurn
      BY <3>2 DEF IdleTurn
    <3> QED
      BY <3>1, <3>2, <3>3, <3>4
  <2>2. CASE conv.status \in WithPeople /\ turn[w].msg = None
    <3>1. TurnOK(IdleTurn)
      BY DEF TurnOK, IdleTurn, Reads, Asks
    <3>2. turn[w].ctx.appts = <<>>
      BY <1>1, <1>2, <2>2 DEF TurnOK, Asks
    <3> QED
      BY <2>2, <3>1, <3>2, ContextForms DEF EscalateRead, Escalated
  <2>3. CASE conv.status \in WithPeople /\ turn[w].msg # None
    <3> DEFINE t == [turn[w] EXCEPT !.pc = "store", !.status = "OPEN"]
    <3>1. t \in Turn /\ turn' = [turn EXCEPT ![w] = t]
      BY <2>3, <1>2 DEF EscalateRead, Escalated, Turn, TalkInv, TypeOK, Statuses
    <3>2. /\ t.pc = "store" /\ t.msg = turn[w].msg /\ t.ctx = turn[w].ctx
          /\ t.behind = turn[w].behind
      BY <1>2 DEF Turn
    <3> HIDE DEF t
    <3>3. TurnOK(t) /\ Reads(t)
      BY <1>1, <1>2, <2>3, <3>2 DEF TurnOK, Reads, Asks
    <3>4. t # IdleTurn
      BY <3>2 DEF IdleTurn
    <3> QED
      BY <3>1, <3>2, <3>3, <3>4
  <2> QED
    BY <2>1, <2>2, <2>3
<1>4. PICK t \in Turn :
        /\ turn' = [turn EXCEPT ![w] = t]
        /\ TurnOK(t)
        /\ t = IdleTurn \/ (Reads(t) /\ t.msg = turn[w].msg /\ t.ctx = turn[w].ctx)
        /\ t = IdleTurn => turn[w].ctx.appts = <<>>
  BY <1>3
<1>5. Answers(t) => Answers(turn[w]) /\ t.msg = turn[w].msg
  BY <1>1, <1>4 DEF Answers, IdleTurn
<1>6. \/ Reads(t) /\ Contents(turn[w].ctx.appts) \subseteq Contents(t.ctx.appts)
      \/ Contents(turn[w].ctx.appts) \subseteq Contents(conv.ctx.appts) \cup dropped'
  BY <1>4, ContextForms
<1>7. UNCHANGED <<conv, stored, answers, told, person, overtaken, unsure, appt, issued, seen, dropped>>
  BY <1>1 DEF customer, histories
<1>8. /\ appt' \in [Slots -> {"NONE", "BOOKED", "OVER"}] /\ issued' \subseteq Slots
      /\ seen' \subseteq Msgs /\ dropped' \subseteq Slots
  BY <1>7 DEF TalkInv, TypeOK
<1> QED
  BY <1>4, <1>5, <1>6, <1>7, <1>8, TurnMoves

(***************************************************************************)
(* Steps that change the row of the conversation, not its context.         *)
(***************************************************************************)
LEMMA RowChanges ==
    ASSUME TalkInv, NEW st \in Statuses, NEW a \in BOOLEAN,
           conv' = [conv EXCEPT !.status = st, !.assigned = a],
           st = "HUMAN_HANDLING" => overtaken' \/ a,
           overtaken' \in BOOLEAN,
           UNCHANGED <<appt, issued, customer, turn, unsure, dropped>>,
           person' \in [People -> Person]
    PROVE  TalkInv'
<1>1. conv' \in Conversation /\ conv'.ctx = conv.ctx /\ conv'.status = st /\ conv'.assigned = a
  BY DEF TalkInv, TypeOK, Conversation
<1>2. TypeOK'
  BY <1>1 DEF TalkInv, TypeOK, customer
<1>3. ASSUME NEW x \in Turns PROVE TurnOK(turn[x])'
  <2>1. TurnOK(turn[x])
    BY DEF TalkInv
  <2>2. conv'.status # "ABSENT"
    BY <1>1 DEF Statuses
  <2> QED
    BY <1>1, <2>1, <2>2 DEF TurnOK, customer
<1>4. OneTurnEach' /\ ToldOnce' /\ HasAssignee' /\ StaffFound'
  BY <1>1 DEF TalkInv, OneTurnEach, ToldOnce, HasAssignee, StaffFound, Statuses, customer
<1>5. BookingsKnown'
  BY <1>1 DEF TalkInv, BookingsKnown, HasRead
<1> QED
  BY <1>2, <1>3, <1>4, <1>5 DEF TalkInv

\* As TurnMoves, for the steps that lock the row first, or write its status.
LEMMA RowMoves ==
    ASSUME TalkInv, NEW w \in Turns,
           conv' \in Conversation, conv'.ctx = conv.ctx, conv'.status # "ABSENT",
           HasAssignee', overtaken' \in BOOLEAN,
           turn' \in [Turns -> Turn], \A x \in Turns \ {w} : turn'[x] = turn[x],
           TurnOK(turn[w])',
           Answers(turn'[w]) => \/ Answers(turn[w]) /\ turn'[w].msg = turn[w].msg
                                \/ turn'[w].msg \notin stored,
           \/ ~Reads(turn[w])
           \/ turn[w].ctx.appts = <<>>
           \/ Reads(turn'[w]) /\ turn'[w].ctx = turn[w].ctx,
           stored \subseteq stored', stored' \subseteq Msgs,
           UNCHANGED <<appt, issued, seen, answers, told, person, unsure, dropped>>
    PROVE  TalkInv'
<1>1. TypeOK'
  BY DEF TalkInv, TypeOK
<1>2. ASSUME NEW x \in Turns PROVE TurnOK(turn[x])'
  <2>1. CASE x # w
    <3>1. TurnOK(turn[x]) /\ turn'[x] = turn[x]
      BY <2>1 DEF TalkInv
    <3> QED
      BY <3>1 DEF TurnOK
  <2> QED
    BY <2>1
<1>3. ASSUME NEW x \in Turns, x # w, Answers(turn'[x]), Answers(turn'[w])
      PROVE  turn'[x].msg # turn'[w].msg
  <2>1. turn'[x] = turn[x] /\ TurnOK(turn[x])
    BY <1>3 DEF TalkInv
  <2>2. turn[x].msg \in stored
    BY <1>3, <2>1 DEF TurnOK, Answers
  <2>3. Answers(turn[w]) => turn[x].msg # turn[w].msg
    BY <1>3, <2>1 DEF TalkInv, OneTurnEach
  <2> QED
    BY <1>3, <2>1, <2>2, <2>3
<1>4. OneTurnEach'
  <2>1. \A v, x \in Turns \ {w} : v # x /\ Answers(turn'[v]) /\ Answers(turn'[x]) =>
          turn'[v].msg # turn'[x].msg
    BY DEF TalkInv, OneTurnEach
  <2>2. \A v, x \in Turns : v # x /\ Answers(turn'[v]) /\ Answers(turn'[x]) =>
          turn'[v].msg # turn'[x].msg
    BY <1>3, <2>1
  <2> QED
    BY <2>2 DEF OneTurnEach, Answers
<1>5. ToldOnce' /\ StaffFound'
  BY DEF TalkInv, ToldOnce, StaffFound
<1>6. ASSUME NEW s \in Slots, appt[s] = "BOOKED",
             ~(s \in Contents(conv.ctx.appts) \cup dropped)
      PROVE  \E x \in Turns : HasRead(x)' /\ s \in Contents(turn'[x].ctx.appts)
  <2>1. PICK x \in Turns : HasRead(x) /\ s \in Contents(turn[x].ctx.appts)
    BY <1>6 DEF TalkInv, BookingsKnown
  <2>2. Reads(turn'[x]) /\ turn'[x].ctx = turn[x].ctx
    BY <2>1, ContextForms DEF HasRead, Reads
  <2> QED
    BY <2>1, <2>2 DEF HasRead, Reads
<1>7. BookingsKnown'
  BY <1>6 DEF BookingsKnown
<1> QED
  BY <1>1, <1>2, <1>4, <1>5, <1>7 DEF TalkInv

\* The row after it was locked, or made.
LEMMA OpenedForms ==
    ASSUME TalkInv
    PROVE  /\ Opened \in Conversation /\ Opened.ctx = conv.ctx /\ Opened.status # "ABSENT"
           /\ Opened.assigned = conv.assigned
           /\ Opened.status = "HUMAN_HANDLING" => conv.status = "HUMAN_HANDLING"
BY DEF Opened, Conversation, TalkInv, TypeOK, Statuses

LEMMA InboundInv ==
    ASSUME TalkInv, NEW w \in Turns, Inbound(w)
    PROVE  TalkInv'
<1> DEFINE m == turn[w].msg
           pc == IF conv.status \in WithPeople THEN "store" ELSE "running"
           t == [turn[w] EXCEPT !.pc = pc, !.ctx = conv.ctx]
<1>1. /\ turn[w].pc = "queued" /\ m \in Msgs /\ m \notin stored /\ m # None
      /\ conv' = Opened /\ stored' = stored \cup {m}
      /\ UNCHANGED <<appt, issued, seen, answers, told, person, histories>>
  BY TurnForms, ConversationAssumption DEF Inbound, Duplicate, TurnOK
<1>2. /\ t \in Turn /\ t.pc \in {"store", "running"} /\ t.ctx = conv.ctx /\ t.msg = m
      /\ t.behind = turn[w].behind
  BY TurnForms DEF Turn
<1>3. turn' = [turn EXCEPT ![w] = t]
  BY TurnForms DEF Inbound, TalkInv, TypeOK, Turn
<1> HIDE DEF t
<1>4. /\ turn' \in [Turns -> Turn] /\ turn'[w] = t /\ \A x \in Turns \ {w} : turn'[x] = turn[x]
  BY <1>2, <1>3 DEF TalkInv, TypeOK
<1>5. answers[m] = 0
  BY <1>1 DEF TalkInv, ToldOnce, TypeOK
<1>6. TurnOK(turn[w])'
  BY <1>1, <1>2, <1>4, <1>5, OpenedForms DEF TurnOK, Reads, Asks
<1>7. HasAssignee'
  BY <1>1, OpenedForms DEF TalkInv, HasAssignee, histories
<1>8. ~Reads(turn[w])
  BY <1>1 DEF Reads
<1>9. /\ UNCHANGED <<appt, issued, seen, answers, told, person, unsure, dropped>>
      /\ overtaken' \in BOOLEAN /\ stored \subseteq stored' /\ stored' \subseteq Msgs
  BY <1>1 DEF histories, TalkInv, TypeOK
<1>10. conv' \in Conversation /\ conv'.ctx = conv.ctx /\ conv'.status # "ABSENT"
  BY <1>1, OpenedForms
<1>11. turn'[w].msg \notin stored
  BY <1>1, <1>2, <1>4
<1> QED
  BY <1>4, <1>6, <1>7, <1>8, <1>9, <1>10, <1>11, RowMoves

LEMMA FormInv ==
    ASSUME TalkInv, NEW w \in Turns, Form(w)
    PROVE  TalkInv'
<1> DEFINE t == [IdleTurn EXCEPT !.pc = "form", !.ctx = conv.ctx]
<1>1. /\ turn[w].pc = "idle" /\ conv' = Opened
      /\ turn' = [turn EXCEPT ![w] = t]
      /\ UNCHANGED <<appt, issued, customer, person, histories>>
  BY DEF Form
<1>2. t \in Turn /\ t.pc = "form" /\ t.ctx = conv.ctx /\ t.msg = None /\ t.behind = FALSE
  BY TurnForms DEF Turn, IdleTurn, Statuses
<1> HIDE DEF t
<1>4. /\ turn' \in [Turns -> Turn] /\ turn'[w] = t /\ \A x \in Turns \ {w} : turn'[x] = turn[x]
  BY <1>1, <1>2 DEF TalkInv, TypeOK
<1>6. TurnOK(turn[w])'
  BY <1>1, <1>2, <1>4, OpenedForms DEF TurnOK, Reads, Asks
<1>7. HasAssignee'
  BY <1>1, OpenedForms DEF TalkInv, HasAssignee, histories
<1>8. ~Reads(turn[w]) /\ ~Answers(turn'[w])
  BY <1>1, <1>2, <1>4 DEF Reads, Answers
<1>9. /\ UNCHANGED <<appt, issued, seen, stored, answers, told, person, unsure, dropped>>
      /\ overtaken' \in BOOLEAN /\ stored' \subseteq Msgs
  BY <1>1 DEF histories, customer, TalkInv, TypeOK
<1>10. conv' \in Conversation /\ conv'.ctx = conv.ctx /\ conv'.status # "ABSENT"
  BY <1>1, OpenedForms
<1> QED
  BY <1>4, <1>6, <1>7, <1>8, <1>9, <1>10, RowMoves

LEMMA EscalateCommitInv ==
    ASSUME TalkInv, NEW w \in Turns, EscalateCommit(w)
    PROVE  TalkInv'
<1>1. /\ turn[w].pc = "escalating" /\ turn[w] \in Turn /\ TurnOK(turn[w]) /\ Reads(turn[w])
      /\ turn' = Escalated(w) /\ conv' = [conv EXCEPT !.status = "ESCALATED"]
      /\ UNCHANGED <<appt, issued, customer, person, unsure, dropped>>
      /\ overtaken' \in BOOLEAN
  BY TurnForms DEF EscalateCommit, Reads, TalkInv, TypeOK
<1>2. conv' \in Conversation /\ conv'.ctx = conv.ctx /\ conv'.status = "ESCALATED"
  BY <1>1, TurnForms DEF Conversation, Statuses
<1>3. HasAssignee' /\ conv'.status # "ABSENT"
  BY <1>2 DEF HasAssignee
<1>4. UNCHANGED <<appt, issued, seen, stored, answers, told, person, unsure, dropped>>
      /\ stored' \subseteq Msgs
  BY <1>1 DEF customer, TalkInv, TypeOK
<1>5. CASE turn[w].msg = None
  <2>1. /\ turn' \in [Turns -> Turn] /\ turn'[w] = IdleTurn
        /\ \A x \in Turns \ {w} : turn'[x] = turn[x]
    BY <1>1, <1>5, ContextForms DEF Escalated, TalkInv, TypeOK
  <2>2. TurnOK(turn[w])' /\ ~Answers(turn'[w])
    BY <2>1 DEF TurnOK, IdleTurn, Reads, Asks, Answers
  <2>3. turn[w].ctx.appts = <<>>
    BY <1>1, <1>5 DEF TurnOK, Asks
  <2> QED
    BY <1>1, <1>2, <1>3, <1>4, <2>1, <2>2, <2>3, RowMoves
<1>6. CASE turn[w].msg # None
  <2> DEFINE t == [turn[w] EXCEPT !.pc = "store", !.status = "OPEN"]
  <2>1. /\ t \in Turn /\ t.pc = "store" /\ t.msg = turn[w].msg /\ t.ctx = turn[w].ctx
        /\ t.behind = turn[w].behind
    BY <1>1 DEF Turn, Statuses
  <2>2. turn' = [turn EXCEPT ![w] = t]
    BY <1>1, <1>6 DEF Escalated, TalkInv, TypeOK, Turn
  <2> HIDE DEF t
  <2>3. /\ turn' \in [Turns -> Turn] /\ turn'[w] = t
        /\ \A x \in Turns \ {w} : turn'[x] = turn[x]
    BY <2>1, <2>2 DEF TalkInv, TypeOK
  <2>4. TurnOK(turn[w])'
    BY <1>1, <1>2, <1>4, <1>6, <2>1, <2>3 DEF TurnOK, Reads, Asks
  <2>5. Reads(turn'[w]) /\ turn'[w].ctx = turn[w].ctx
    BY <2>1, <2>3 DEF Reads
  <2>6. Answers(turn[w]) /\ turn'[w].msg = turn[w].msg
    BY <1>1, <1>6, <2>1, <2>3 DEF Answers
  <2> QED
    BY <1>1, <1>2, <1>3, <1>4, <2>3, <2>4, <2>5, <2>6, RowMoves
<1> QED
  BY <1>5, <1>6

(***************************************************************************)
(* The copy replaces the context: what an overlapping turn had booked and  *)
(* the copy lacks is in dropped, and every turn that read before is        *)
(* behind, unless nothing has changed.                                     *)
(***************************************************************************)
LEMMA StoreForms ==
    ASSUME TalkInv, NEW w \in Turns, Store(w)
    PROVE  /\ turn[w].pc = "store" /\ Reads(turn[w]) /\ ~Asks(turn[w])
           /\ turn[w].msg \in Msgs \cup {None}
           /\ turn' \in [Turns -> Turn]
           /\ turn[w].msg = None => turn'[w] = IdleTurn
           /\ turn[w].msg # None => turn'[w] = [IdleTurn EXCEPT !.pc = "reply", !.msg = turn[w].msg]
           /\ \A x \in Turns \ {w} :
                /\ turn'[x].pc = turn[x].pc /\ turn'[x].msg = turn[x].msg
                /\ turn'[x].ctx = turn[x].ctx /\ turn'[x].status = turn[x].status
                /\ Reads(turn[x]) /\ ~turn'[x].behind => turn[w].ctx = conv.ctx /\ ~turn[x].behind
<1>1. turn[w].pc = "store" /\ turn[w] \in Turn
  BY TurnForms DEF Store
<1>2. \A x \in Turns : turn'[x] =
        IF x = w THEN IF turn[w].msg = None THEN IdleTurn
                      ELSE [IdleTurn EXCEPT !.pc = "reply", !.msg = turn[w].msg]
        ELSE IF HasRead(x) THEN [turn[x] EXCEPT !.behind = @ \/ turn[w].ctx # conv.ctx]
        ELSE turn[x]
  BY DEF Store
<1>3. DOMAIN turn' = Turns /\ turn' = [x \in Turns |-> turn'[x]]
  BY DEF Store
<1>4. [IdleTurn EXCEPT !.pc = "reply", !.msg = turn[w].msg] \in Turn
  BY <1>1, ContextForms DEF Turn
<1>5. ASSUME NEW x \in Turns, x # w
      PROVE  /\ turn'[x] \in Turn
             /\ turn'[x].pc = turn[x].pc /\ turn'[x].msg = turn[x].msg
             /\ turn'[x].ctx = turn[x].ctx /\ turn'[x].status = turn[x].status
             /\ Reads(turn[x]) /\ ~turn'[x].behind => turn[w].ctx = conv.ctx /\ ~turn[x].behind
  <2>1. turn[x] \in Turn /\ HasRead(x) = Reads(turn[x])
    BY TurnForms
  <2>2. CASE HasRead(x)
    <3>1. turn'[x] = [turn[x] EXCEPT !.behind = turn[x].behind \/ turn[w].ctx # conv.ctx]
      BY <1>2, <1>5, <2>2
    <3>2. (turn[x].behind \/ turn[w].ctx # conv.ctx) \in BOOLEAN /\ turn[x].behind \in BOOLEAN
      BY <2>1 DEF Turn
    <3>3. turn'[x].behind = (turn[x].behind \/ turn[w].ctx # conv.ctx)
      BY <2>1, <3>1 DEF Turn
    <3>4. /\ turn'[x] \in Turn
          /\ turn'[x].pc = turn[x].pc /\ turn'[x].msg = turn[x].msg
          /\ turn'[x].ctx = turn[x].ctx /\ turn'[x].status = turn[x].status
      BY <2>1, <3>1, <3>2 DEF Turn
    <3> QED
      BY <3>2, <3>3, <3>4
  <2>3. CASE ~HasRead(x)
    BY <1>2, <1>5, <2>1, <2>3
  <2> QED
    BY <2>2, <2>3
<1>6. turn' \in [Turns -> Turn]
  BY <1>2, <1>3, <1>4, <1>5, ContextForms
<1> QED
  BY <1>1, <1>2, <1>5, <1>6, TurnForms DEF Reads, Asks, Turn

LEMMA StoreInv ==
    ASSUME TalkInv, NEW w \in Turns, Store(w)
    PROVE  TalkInv'
<1> DEFINE m == turn[w].msg
           new == turn[w].ctx
<1>1. /\ conv' = [conv EXCEPT !.ctx = new]
      /\ answers' = IF m = None THEN answers ELSE [answers EXCEPT ![m] = @ + 1]
      /\ dropped' = IF turn[w].behind THEN dropped \cup (Contents(conv.ctx.appts) \ Contents(new.appts))
                    ELSE dropped
      /\ UNCHANGED <<appt, issued, seen, stored, told, person, unsure, overtaken>>
  BY DEF Store
<1>2. /\ conv' \in Conversation /\ conv'.ctx = new /\ conv'.status = conv.status
      /\ conv'.assigned = conv.assigned
  BY <1>1, TurnForms DEF Conversation
<1>3. Contents(conv.ctx.appts) \subseteq Slots
  BY TurnForms DEF Contents, Context
<1>4. TurnOK(turn[w]) /\ Reads(turn[w]) /\ ~Asks(turn[w]) /\ turn[w].pc = "store"
  BY StoreForms, TurnForms
<1>5. m # None => m \in Msgs /\ m \in stored /\ answers[m] = 0
  <2>1. m \in Msgs \cup {None}
    BY StoreForms
  <2> QED
    BY <1>4, <2>1 DEF TurnOK
<1>6. /\ answers' \in [Msgs -> Nat] /\ told \in [Msgs -> Nat]
      /\ \A k \in Msgs : k # m => answers'[k] = answers[k]
      /\ m # None => answers'[m] = 1
  <2>1. answers \in [Msgs -> Nat] /\ told \in [Msgs -> Nat]
    BY DEF TalkInv, TypeOK
  <2>2. CASE m = None
    BY <1>1, <2>1, <2>2
  <2>3. CASE m # None
    <3>1. answers' = [answers EXCEPT ![m] = answers[m] + 1]
      BY <1>1, <2>3
    <3> HIDE DEF m
    <3> QED
      BY <1>5, <2>1, <2>3, <3>1
  <2> QED
    BY <2>2, <2>3
<1>7. TypeOK'
  BY <1>1, <1>2, <1>3, <1>6, StoreForms DEF TalkInv, TypeOK
<1>8. ToldOnce'
  BY <1>1, <1>5, <1>6 DEF TalkInv, ToldOnce, TypeOK
<1>9. HasAssignee' /\ StaffFound'
  BY <1>1, <1>2 DEF TalkInv, HasAssignee, StaffFound
<1>10. ASSUME NEW x \in Turns \ {w} PROVE TurnOK(turn[x])'
  <2>1. TurnOK(turn[x])
    BY DEF TalkInv
  <2>2. /\ turn'[x].pc = turn[x].pc /\ turn'[x].msg = turn[x].msg
        /\ turn'[x].ctx = turn[x].ctx /\ turn'[x].status = turn[x].status
        /\ Reads(turn[x]) /\ ~turn'[x].behind => new = conv.ctx /\ ~turn[x].behind
        /\ turn[x].msg \in Msgs \cup {None}
    <3>1. turn[x].msg \in Msgs \cup {None}
      BY TurnForms DEF Turn
    <3>2. /\ turn'[x].pc = turn[x].pc /\ turn'[x].msg = turn[x].msg
          /\ turn'[x].ctx = turn[x].ctx /\ turn'[x].status = turn[x].status
          /\ Reads(turn[x]) /\ ~turn'[x].behind => turn[w].ctx = conv.ctx /\ ~turn[x].behind
      BY StoreForms
    <3> QED
      BY <3>1, <3>2
  <2>3. turn[x].pc \notin {"idle", "queued"} /\ turn[x].msg # None => turn[x].msg # m
    BY <1>4 DEF TalkInv, OneTurnEach, Answers
  <2>4. Reads(turn[x]) /\ turn[x].msg # None => answers'[turn[x].msg] = 0
    BY <1>6, <2>1, <2>2, <2>3 DEF TurnOK, Reads
  <2>5. turn[x].pc = "reply" => answers'[turn[x].msg] = answers[turn[x].msg]
    BY <1>6, <2>1, <2>2, <2>3, ConversationAssumption DEF TurnOK
  <2>6. /\ Reads(turn'[x]) = Reads(turn[x]) /\ Asks(turn'[x]) = Asks(turn[x])
    BY <2>2 DEF Reads, Asks
  <2>7. Reads(turn'[x]) /\ ~turn'[x].behind /\ ~Asks(turn'[x]) =>
          Contents(new.appts) \subseteq Contents(turn'[x].ctx.appts)
    BY <2>1, <2>2, <2>6 DEF TurnOK
  <2> QED
    BY <1>1, <1>2, <2>1, <2>2, <2>4, <2>5, <2>6, <2>7 DEF TurnOK, Asks, Reads
<1>11. TurnOK(turn[w])'
  <2>1. CASE m = None
    <3>1. turn'[w] = IdleTurn
      BY <2>1, StoreForms
    <3>2. turn'[w].pc = "idle" /\ turn'[w].msg = None
      BY <3>1 DEF IdleTurn
    <3> QED
      BY <3>2 DEF TurnOK, Reads, Asks
  <2>2. CASE m # None
    <3>1. turn'[w].pc = "reply" /\ turn'[w].msg = m
      BY <2>2, StoreForms DEF IdleTurn
    <3>2. told'[m] < answers'[m] \/ m \in unsure'
      <4>1. told[m] <= answers[m] \/ m \in unsure
        BY <1>5, <2>2 DEF TalkInv, ToldOnce
      <4>2. told[m] \in Nat
        BY <1>5, <1>6, <2>2
      <4> QED
        BY <1>1, <1>5, <1>6, <2>2, <4>1, <4>2
    <3>3. conv'.status # "ABSENT"
      BY <1>2, <1>4 DEF TurnOK
    <3>4. m \in Msgs /\ m \in stored'
      BY <1>1, <1>5, <2>2
    <3> HIDE DEF m
    <3> QED
      BY <3>1, <3>2, <3>3, <3>4 DEF TurnOK, Reads, Asks
  <2> QED
    BY <2>1, <2>2
<1>12. \A x \in Turns : Answers(turn'[x]) => Answers(turn[x]) /\ turn'[x].msg = turn[x].msg
  <2>1. ASSUME NEW x \in Turns, x # w, Answers(turn'[x])
        PROVE  Answers(turn[x]) /\ turn'[x].msg = turn[x].msg
    BY <2>1, StoreForms DEF Answers
  <2>2. ASSUME Answers(turn'[w])
        PROVE  Answers(turn[w]) /\ turn'[w].msg = turn[w].msg
    <3>1. m # None
      <4>1. SUFFICES ASSUME m = None PROVE FALSE
        OBVIOUS
      <4>2. turn'[w] = IdleTurn
        BY <4>1, StoreForms
      <4> QED
        BY <2>2, <4>2 DEF Answers, IdleTurn
    <3>2. turn'[w].msg = m
      BY <3>1, StoreForms DEF IdleTurn
    <3> QED
      BY <1>4, <3>1, <3>2 DEF Answers
  <2> QED
    BY <2>1, <2>2
<1>13. OneTurnEach'
  BY <1>12 DEF TalkInv, OneTurnEach, Answers
<1>14. ASSUME NEW s \in Slots, appt[s] = "BOOKED", ~(s \in Contents(new.appts) \cup dropped')
      PROVE  \E x \in Turns : HasRead(x)' /\ s \in Contents(turn'[x].ctx.appts)
  <2>1. ~(s \in Contents(conv.ctx.appts))
    BY <1>1, <1>4, <1>14 DEF TurnOK
  <2>2. PICK x \in Turns : HasRead(x) /\ s \in Contents(turn[x].ctx.appts)
    BY <1>1, <1>14, <2>1 DEF TalkInv, BookingsKnown
  <2>3. x # w
    BY <1>14, <2>2
  <2> QED
    BY <2>2, <2>3, StoreForms DEF HasRead
<1>15. BookingsKnown'
  BY <1>1, <1>2, <1>14 DEF BookingsKnown
<1> QED
  BY <1>7, <1>8, <1>9, <1>10, <1>11, <1>13, <1>15 DEF TalkInv

\* The reply is handed over.
LEMMA ReplyInv ==
    ASSUME TalkInv, NEW w \in Turns, Reply(w) \/ ReplyRetried(w)
    PROVE  TalkInv'
<1> DEFINE m == turn[w].msg
<1>1. /\ turn[w].pc = "reply" /\ told' = [told EXCEPT ![m] = @ + 1]
      /\ UNCHANGED <<conv, appt, issued, seen, stored, answers, person, dropped, overtaken>>
  BY DEF Reply, ReplyRetried, histories
<1>2. /\ unsure \subseteq unsure' /\ unsure' \subseteq unsure \cup {m}
      /\ \/ turn' = [turn EXCEPT ![w] = IdleTurn]
         \/ turn' = turn /\ m \in unsure'
  BY DEF Reply, ReplyRetried, histories
<1>3. /\ m \in Msgs /\ TurnOK(turn[w]) /\ ~Reads(turn[w]) /\ m # None
      /\ told[m] < answers[m] \/ m \in unsure
  BY <1>1, TurnForms, ConversationAssumption DEF TurnOK, Reads
<1>4. /\ told' \in [Msgs -> Nat] /\ told \in [Msgs -> Nat] /\ answers \in [Msgs -> Nat]
      /\ told'[m] = told[m] + 1 /\ \A k \in Msgs \ {m} : told'[k] = told[k]
  BY <1>1, <1>3 DEF TalkInv, TypeOK
<1>5. /\ turn' \in [Turns -> Turn]
      /\ \A x \in Turns : turn'[x] = turn[x] \/ (turn'[x] = IdleTurn /\ ~Reads(turn[x]))
  BY <1>2, <1>3, ContextForms DEF TalkInv, TypeOK
<1>6. TypeOK'
  BY <1>1, <1>2, <1>3, <1>4, <1>5 DEF TalkInv, TypeOK
<1>7. ToldOnce'
  <2>1. answers' = answers /\ stored' = stored
    BY <1>1
  <2>2. told'[m] <= answers[m] \/ m \in unsure'
    BY <1>2, <1>3, <1>4
  <2> QED
    BY <1>2, <1>4, <2>1, <2>2 DEF TalkInv, ToldOnce
<1>8. ASSUME NEW x \in Turns PROVE TurnOK(turn[x])'
  <2>1. CASE turn'[x] = IdleTurn
    BY <2>1 DEF TurnOK, IdleTurn, Reads, Asks
  <2>2. CASE turn'[x] = turn[x] /\ turn'[x] # IdleTurn
    <3>1. TurnOK(turn[x])
      BY DEF TalkInv
    <3>2. turn[x].pc = "reply" => told'[turn[x].msg] < answers[turn[x].msg] \/ turn[x].msg \in unsure'
      <4>1. CASE x = w
        BY <1>2, <2>2, <4>1 DEF TalkInv, TypeOK
      <4>2. CASE x # w /\ turn[x].pc = "reply"
        <5>1. turn[x].msg \in Msgs /\ turn[x].msg # m
          BY <1>1, <1>3, <3>1, <4>2, ConversationAssumption DEF TalkInv, OneTurnEach, Answers, TurnOK
        <5> QED
          BY <1>2, <1>4, <3>1, <4>2, <5>1 DEF TurnOK
      <4> QED
        BY <4>1, <4>2
    <3> QED
      BY <1>1, <2>2, <3>1, <3>2 DEF TurnOK
  <2> QED
    BY <1>5, <2>1, <2>2
<1>9. OneTurnEach'
  <2>1. \A x \in Turns : Answers(turn'[x]) => turn'[x] = turn[x]
    BY <1>5 DEF Answers, IdleTurn
  <2> QED
    BY <2>1 DEF TalkInv, OneTurnEach, Answers
<1>10. HasAssignee' /\ StaffFound'
  BY <1>1 DEF TalkInv, HasAssignee, StaffFound
<1>11. BookingsKnown'
  BY <1>1, <1>5 DEF TalkInv, BookingsKnown, HasRead, Reads
<1> QED
  BY <1>6, <1>7, <1>8, <1>9, <1>10, <1>11 DEF TalkInv

\* Steps of people, and the expiry of a mark.
LEMMA PeopleInv ==
    ASSUME TalkInv, NEW p \in People,
           ReplyRead(p) \/ StatusRead(p) \/ StaffCommit(p) \/ StaffFails(p)
    PROVE  TalkInv'
<1>1. CASE StaffCommit(p)
  <2> DEFINE q == person[p]
             st == IF q.want = q.status THEN conv.status ELSE q.want
  <2>1. q \in Person /\ q.op # "idle"
    BY <1>1 DEF StaffCommit, TalkInv, TypeOK
  <2>2. PICK a \in AssignedAfter(q) : conv' = [conv EXCEPT !.status = st, !.assigned = a]
    BY <1>1 DEF StaffCommit
  <2>3. /\ overtaken' = (overtaken \/ conv.status # q.status \/ conv.assigned # q.assigned)
        /\ person' = [person EXCEPT ![p] = IdlePerson]
        /\ UNCHANGED <<appt, issued, customer, turn, unsure, dropped>>
    BY <1>1 DEF StaffCommit
  <2>4. /\ conv.status \in Statuses /\ conv.assigned \in BOOLEAN
        /\ q.want \in Statuses /\ q.status \in Statuses /\ q.assigned \in BOOLEAN
    BY <2>1, TurnForms DEF Person, TalkInv, TypeOK, Conversation, StaffFound
  <2>5. st \in Statuses /\ a \in BOOLEAN
    BY <2>2, <2>4 DEF AssignedAfter
  <2>6. st = "HUMAN_HANDLING" => overtaken' \/ a
    <3>1. SUFFICES ASSUME st = "HUMAN_HANDLING", ~overtaken' PROVE a
      OBVIOUS
    <3>2. conv.status = q.status /\ conv.assigned = q.assigned
      BY <2>3, <3>1
    <3>3. q.want = "HUMAN_HANDLING"
      BY <3>1, <3>2
    <3> QED
      BY <2>2, <2>4, <3>2, <3>3 DEF AssignedAfter, Assigns
  <2>7. person' \in [People -> Person] /\ overtaken' \in BOOLEAN
    BY <2>3, <2>4, ContextForms DEF TalkInv, TypeOK
  <2> HIDE DEF st
  <2> QED
    BY <2>2, <2>3, <2>5, <2>6, <2>7, RowChanges
<1>2. CASE ~StaffCommit(p)
  <2>1. /\ UNCHANGED <<conv, appt, issued, seen, stored, answers, told, turn, unsure, dropped, overtaken>>
        /\ person' \in [People -> Person]
        /\ \A x \in People : person'[x].op # "idle" => person[x].op # "idle" \/ conv.status # "ABSENT"
    <3>1. CASE StaffFails(p)
      BY <3>1, ContextForms DEF StaffFails, customer, histories, TalkInv, TypeOK, IdlePerson
    <3>2. ASSUME NEW op \in {"reply", "status"}, NEW want \in Statuses, StaffRead(p, op, want)
          PROVE  /\ UNCHANGED <<conv, appt, issued, seen, stored, answers, told, turn, unsure, dropped, overtaken>>
                 /\ person' \in [People -> Person]
                 /\ \A x \in People : person'[x].op # "idle" =>
                      person[x].op # "idle" \/ conv.status # "ABSENT"
      <4> DEFINE r == [op |-> op, want |-> want, status |-> conv.status, assigned |-> conv.assigned]
      <4>1. r \in Person /\ conv.status # "ABSENT"
        BY <3>2 DEF StaffRead, Person, TalkInv, TypeOK, Conversation
      <4>2. person' = [person EXCEPT ![p] = r]
        BY <3>2 DEF StaffRead
      <4>3. UNCHANGED <<conv, appt, issued, seen, stored, answers, told, turn, unsure, dropped, overtaken>>
        BY <3>2 DEF StaffRead, customer, histories
      <4> HIDE DEF r
      <4> QED
        BY <4>1, <4>2, <4>3 DEF TalkInv, TypeOK
    <3> QED
      BY <1>2, <3>1, <3>2, ConversationAssumption DEF ReplyRead, StatusRead, Statuses
  <2>2. TypeOK'
    BY <2>1 DEF TalkInv, TypeOK
  <2>3. \A w \in Turns : TurnOK(turn[w])'
    BY <2>1 DEF TalkInv, TurnOK
  <2>4. OneTurnEach' /\ ToldOnce' /\ HasAssignee' /\ StaffFound'
    BY <2>1 DEF TalkInv, OneTurnEach, ToldOnce, HasAssignee, StaffFound
  <2>5. BookingsKnown'
    BY <2>1 DEF TalkInv, BookingsKnown, HasRead
  <2> QED
    BY <2>2, <2>3, <2>4, <2>5 DEF TalkInv
<1> QED
  BY <1>1, <1>2

LEMMA ExpiryInv ==
    ASSUME TalkInv, NEW m \in Msgs, SeenExpires(m)
    PROVE  TalkInv'
<1>1. /\ UNCHANGED <<conv, appt, issued, stored, answers, told, turn, person, unsure, dropped, overtaken>>
      /\ seen' \subseteq Msgs
  BY DEF SeenExpires, histories, TalkInv, TypeOK
<1>2. TypeOK'
  BY <1>1 DEF TalkInv, TypeOK
<1>3. \A w \in Turns : TurnOK(turn[w])'
  BY <1>1 DEF TalkInv, TurnOK
<1>4. OneTurnEach' /\ ToldOnce' /\ HasAssignee' /\ StaffFound'
  BY <1>1 DEF TalkInv, OneTurnEach, ToldOnce, HasAssignee, StaffFound
<1>5. BookingsKnown'
  BY <1>1 DEF TalkInv, BookingsKnown, HasRead
<1> QED
  BY <1>2, <1>3, <1>4, <1>5 DEF TalkInv

LEMMA TalkStep == TalkInv /\ [Next]_vars => TalkInv'
<1> SUFFICES ASSUME TalkInv, [Next]_vars PROVE TalkInv'
  OBVIOUS
<1>1. CASE UNCHANGED vars
  BY <1>1 DEF vars, TalkInv, TypeOK, TurnOK, OneTurnEach, ToldOnce, BookingsKnown, HasAssignee,
              StaffFound, HasRead
<1>2. ASSUME NEW w \in Turns,
             (\E m \in Msgs : Receive(w, m)) \/ Form(w) \/ AskForPerson(w) \/ ReplyRetried(w)
      PROVE  TalkInv'
  BY <1>2, TurnBegins, FormInv, ReplyInv
<1>3. ASSUME NEW w \in Turns, Tool(w) PROVE TalkInv'
  BY <1>3, OfferInv, BookInv, BookLostInv, RescheduleLostInv, MoveInv DEF Tool
<1>4. ASSUME NEW w \in Turns, Proceed(w) PROVE TalkInv'
  BY <1>4, TurnEnds, InboundInv, EndsInv, EscalateReadInv, EscalateCommitInv, StoreInv, ReplyInv
     DEF Proceed
<1>5. ASSUME NEW m \in Msgs, SeenExpires(m) PROVE TalkInv'
  BY <1>5, ExpiryInv
<1>6. ASSUME NEW p \in People, ReplyRead(p) \/ StatusRead(p) \/ StaffCommit(p) \/ StaffFails(p)
      PROVE  TalkInv'
  BY <1>6, PeopleInv
<1> QED
  BY <1>1, <1>2, <1>3, <1>4, <1>5, <1>6 DEF Next

LEMMA TalkInvariance == Spec => []TalkInv
BY TalkInitInv, TalkStep, PTL DEF Spec

\* A message has one turn and one answer, whatever the channel delivers again and however turns
\* overlap, and the customer is told what is stored: receive and process of whatsapp, the unique
\* message id and _store of ChatService, for any numbers of messages, turns and people.
THEOREM HandledOnceHolds == Spec => []HandledOnce
<1>1. TalkInv => HandledOnce
  <2> SUFFICES ASSUME TalkInv PROVE HandledOnce
    OBVIOUS
  <2>1. ASSUME NEW v \in Turns, NEW w \in Turns, v # w, turn[v].msg # None,
               turn[v].msg = turn[w].msg
        PROVE  turn[v].pc = "queued" \/ turn[w].pc = "queued"
    BY <2>1 DEF TalkInv, OneTurnEach, Answers
  <2> QED
    BY <2>1 DEF TalkInv, ToldOnce, HandledOnce
<1> QED
  BY <1>1, TalkInvariance, PTL

\* What is booked for a conversation is in its context or in a turn's copy of it, unless another
\* turn wrote over it: the tools of SAMIIR and the write of the context at the end of a turn.
THEOREM BookingsKnownHolds == Spec => []BookingsKnown
<1>1. TalkInv => BookingsKnown
  BY DEF TalkInv
<1> QED
  BY <1>1, TalkInvariance, PTL

\* The row's status, as the steps of turns leave it.
LEMMA StatusKept ==
    ASSUME TalkInv, [Next]_vars, conv.status = "HUMAN_HANDLING", conv'.status # conv.status
    PROVE  overtaken' \/ \E p \in People : StaffCommit(p)
<1>1. ASSUME NEW w \in Turns, EscalateCommit(w) PROVE overtaken'
  <2>1. turn[w].status # "HUMAN_HANDLING"
    BY <1>1, TurnForms DEF EscalateCommit, TurnOK, WithPeople
  <2> QED
    BY <1>1, <2>1 DEF EscalateCommit
<1>2. ASSUME NEW w \in Turns, Inbound(w) \/ Form(w) \/ Store(w) PROVE FALSE
  <2>1. CASE Store(w)
    <3>1. conv'.status = conv.status
      BY <2>1, TurnForms DEF Store, Conversation
    <3> QED
      BY <3>1
  <2>2. CASE Inbound(w) \/ Form(w)
    <3>1. conv' = Opened
      BY <2>2 DEF Inbound, Form
    <3>2. Opened.status = conv.status
      BY TurnForms DEF Opened, Conversation
    <3> QED
      BY <3>1, <3>2
  <2> QED
    BY <1>2, <2>1, <2>2
<1>3. ASSUME NEW w \in Turns, Tool(w) PROVE UNCHANGED conv
  BY <1>3 DEF Tool, CheckAvailability, CaptureContact, Cancel, NeedContact, Book, BookLost, Reschedule,
    RescheduleLost
<1>4. ASSUME NEW w \in Turns, Proceed(w), ~Inbound(w), ~Store(w), ~EscalateCommit(w) PROVE UNCHANGED conv
  BY <1>4 DEF Proceed, TaskEnds, InboundAgain, RunEnds, FormCapture, FormBook, EscalateRead, Reply,
              ReplyFails, Cut
<1>5. ASSUME NEW w \in Turns, (\E m \in Msgs : Receive(w, m)) \/ AskForPerson(w) \/ ReplyRetried(w)
      PROVE  UNCHANGED conv
  BY <1>5 DEF Receive, AskForPerson, ReplyRetried
<1>6. ASSUME NEW m \in Msgs, SeenExpires(m) PROVE UNCHANGED conv
  BY <1>6 DEF SeenExpires
<1>7. ASSUME NEW p \in People, ReplyRead(p) \/ StatusRead(p) \/ StaffFails(p) PROVE UNCHANGED conv
  BY <1>7 DEF ReplyRead, StatusRead, StaffFails, StaffRead
<1>8. CASE UNCHANGED vars
  BY <1>8 DEF vars
<1> QED
  BY <1>1, <1>2, <1>3, <1>4, <1>5, <1>6, <1>7, <1>8 DEF Next

\* A conversation that people handle leaves them by one of them only, and is assigned to someone,
\* unless a commit found another row than was read: _escalate, human_reply and set_status.
THEOREM PeopleKeepHolds == Spec => PeopleKeep
<1>1. TalkInv /\ [Next]_vars =>
        [/\ conv.status = "HUMAN_HANDLING" /\ conv'.status # conv.status =>
              overtaken' \/ \E p \in People : StaffCommit(p)
         /\ conv'.status = "HUMAN_HANDLING" => overtaken' \/ conv'.assigned]_vars
  <2> SUFFICES ASSUME TalkInv, [Next]_vars
               PROVE  /\ conv.status = "HUMAN_HANDLING" /\ conv'.status # conv.status =>
                            overtaken' \/ \E p \in People : StaffCommit(p)
                      /\ conv'.status = "HUMAN_HANDLING" => overtaken' \/ conv'.assigned
    OBVIOUS
  <2>1. HasAssignee'
    BY TalkStep DEF TalkInv
  <2> QED
    BY <2>1, StatusKept DEF HasAssignee
<1> QED
  BY <1>1, TalkInvariance, PTL DEF Spec, PeopleKeep

=============================================================================
