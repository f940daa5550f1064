------------------------------- MODULE MCCrm -------------------------------
(***************************************************************************)
(* Instances of Crm: two handlers overlap.                                 *)
(***************************************************************************)
EXTENDS Crm, TLC

\* Bound: two contacts are kept and erased while their opportunities are new, or the opportunities
\* of one contact move; while an open one does the others are as they were made.  qualify writes fields
\* alone once, of one opportunity.  A behaviour ends where the properties make an exception for overlaps.
Bound ==
    /\ stale = {} /\ overtaken = {}
    /\ \/ /\ \A o \in DOMAIN opp : opp[o].stage = "NEW_LEAD" /\ opp[o].version = 1
          /\ \A t \in Txns : txn[t].op # "look"
          /\ extra = {} /\ silent = {}
       \/ /\ Len(contact) <= 1
          /\ silent = {} \/ (Cardinality(silent) = 1 /\ Len(opp) = 1)
          /\ \A c \in DOMAIN contact : contact[c].phone = None
          /\ \A t \in Txns : txn[t].op \notin {"update", "erase"} /\ txn[t].phone = None
          /\ \A o, x \in DOMAIN opp :
               o # x /\ opp[o].version > 1 /\ opp[o].stage \in OpenStages => opp[x].version = 1

Symmetry == Permutations(Txns) \cup Permutations(Emails)
=============================================================================
