----------------------------- MODULE MCDefense -----------------------------
(***************************************************************************)
(* An instance of Defense alone: actions on one target, against a provider *)
(* with a rule per call (Cloudflare).                                      *)
(***************************************************************************)
EXTENDS Defense, TLC

CONSTANTS a1, a2, ip

\* Two recommendations of the same type for the same address.
OneTarget == [a \in Actions |-> ip]

Symmetry == Permutations(Sessions) \cup Permutations(Tickets) \cup Permutations(RuleIds)
=============================================================================
