---------------------------- MODULE MCApprovals ----------------------------
(***************************************************************************)
(* Instances of Approvals: a low-risk and a high-risk payload whose        *)
(* requests live one and two ticks, and a request created in the last tick *)
(* of the clock never outlives it.                                         *)
(***************************************************************************)
EXTENDS Approvals, TLC

CONSTANTS lo, hi

MCPayloads == {lo, hi}
MCLowRisk  == {lo}
MCTtl      == (lo :> 2) @@ (hi :> 1)

Symmetry == Permutations(Requests) \cup Permutations(Humans) \cup Permutations(Sessions)
=============================================================================
