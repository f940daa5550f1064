------------------------------- MODULE Tokens -------------------------------
(***************************************************************************)
(* The tokens that authenticate calls between services: made for one call, *)
(* short-lived, and accepted once.                                         *)
(*                                                                         *)
(* A receiver remembers each token it has accepted as long as the token    *)
(* could be accepted again: in memory, or in Redis, where nothing is        *)
(* pushed out but other requests run between the decoding and the SET.     *)
(* Clocks agree.  All tokens here are of callers that the receiver accepts *)
(* (see Access).                                                           *)
(***************************************************************************)
EXTENDS Integers, Sequences, FiniteSets

CONSTANTS
    Jtis,       \* ids of tokens
    Ttl,        \* ttl_seconds of ServiceIdentity
    Leeway,     \* LEEWAY_SECONDS
    Capacity,   \* max_items of InMemoryReplayCache
    MaxNow      \* bound on the clock

ASSUME TokenAssumption ==
    /\ Ttl \in Nat /\ Leeway \in Nat /\ Capacity \in Nat \ {0}
    /\ MaxNow \in Nat \ {0}

VARIABLES
    now,
    token,      \* exp of each token, 0 before it is made
    cache,      \* InMemoryReplayCache._items: keys with their expiry, oldest first
    verifying,  \* tokens decoded, before first_use
    uses,       \* history: how often each token was accepted
    evicted,    \* history: keys dropped before their expiry
    late        \* history: tokens that ran out between their decoding and their first_use

tokenVars == <<now, token, cache, verifying, uses, evicted, late>>

TokensTypeOK ==
    /\ now \in 0..MaxNow
    /\ token \in [Jtis -> 0..(MaxNow + Ttl)]
    /\ verifying \subseteq Jtis /\ evicted \subseteq Jtis
    /\ late \subseteq Jtis
    /\ Len(cache) <= Capacity
    /\ uses \in [Jtis -> Nat]

TokensInit ==
    /\ now = 1
    /\ token = [j \in Jtis |-> 0]
    /\ cache = <<>> /\ verifying = {} /\ uses = [j \in Jtis |-> 0] /\ evicted = {}
    /\ late = {}

TokenTick ==
    /\ now < MaxNow
    /\ now' = now + 1
    /\ UNCHANGED <<token, cache, verifying, uses, evicted, late>>

\* mint
Mint(j) ==
    /\ token[j] = 0
    /\ token' = [token EXCEPT ![j] = now + Ttl]
    /\ UNCHANGED <<now, cache, verifying, uses, evicted, late>>

\* jwt.decode: exp with leeway.
Current(j) == token[j] > now - Leeway

\* verify, as far as the replay cache: a request with a token, whoever sends it and however often.
Decode(j) ==
    /\ token[j] # 0 /\ Current(j) /\ j \notin verifying
    /\ verifying' = verifying \cup {j}
    /\ UNCHANGED <<now, token, cache, uses, evicted, late>>

\* Mutant of UseTtl: the leeway is forgotten.
UseTtlShort(j) == token[j] - now

\* How long a token is remembered: it may have expired since it was decoded.
UseTtl(j) == LET left == token[j] - now + Leeway IN IF left < 1 THEN 1 ELSE left

\* How many of the oldest items go: those that have expired, and one if there is no room.
Popped ==
    LET lives(i) == cache[i].expires > now /\ Len(cache) - (i - 1) < Capacity
    IN CHOOSE n \in 0..Len(cache) :
         /\ \A i \in 1..n : ~lives(i)
         /\ n < Len(cache) => lives(n + 1)

\* first_use
FirstUse(j) ==
    LET rest == SubSeq(cache, Popped + 1, Len(cache))
        used == \E i \in DOMAIN rest : rest[i].jti = j
    IN /\ j \in verifying
       /\ verifying' = verifying \ {j}
       /\ cache' = IF used THEN rest ELSE Append(rest, [jti |-> j, expires |-> now + UseTtl(j)])
       /\ uses' = IF used THEN uses ELSE [uses EXCEPT ![j] = @ + 1]
       /\ evicted' = evicted \cup {cache[i].jti : i \in {x \in 1..Popped : cache[x].expires > now}}
       /\ late' = IF Current(j) THEN late ELSE late \cup {j}
       /\ UNCHANGED <<now, token>>

TokensNext == TokenTick \/ \E j \in Jtis : Mint(j) \/ Decode(j) \/ FirstUse(j)

TokensSpec == TokensInit /\ [][TokensNext]_tokenVars

-----------------------------------------------------------------------------
(* Properties *)

\* A token is accepted once, unless it was pushed out of a cache that was full, or ran out while
\* it was being verified; and one that was accepted and is current still is in the cache.
UsedOnce ==
    /\ TokensTypeOK
    /\ \A j \in Jtis \ evicted :
         /\ uses[j] <= 1 \/ j \in late
         /\ uses[j] > 0 /\ Current(j) =>
              \E i \in DOMAIN cache : cache[i].jti = j /\ cache[i].expires > now
=============================================================================
