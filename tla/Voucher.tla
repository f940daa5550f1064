------------------------------ MODULE Voucher ------------------------------
(***************************************************************************)
(* What the approval service promises its callers, with no rows, clocks    *)
(* or transactions: an approval is an open voucher, redeeming closes it,   *)
(* and there are never more redemptions than grants.  A voucher may be     *)
(* granted again after it was closed; Approvals says when the code lets    *)
(* that happen.                                                            *)
(***************************************************************************)
EXTENDS Naturals

CONSTANT Requests

VARIABLES
    open,       \* vouchers that can be redeemed
    granted,    \* how often each was granted
    redeemed    \* how often each was redeemed

vvars == <<open, granted, redeemed>>

Init ==
    /\ open = {}
    /\ granted = [r \in Requests |-> 0]
    /\ redeemed = [r \in Requests |-> 0]

\* A person or the tenant's policy approves.
Grant(r) ==
    /\ open' = open \cup {r}
    /\ granted' = [granted EXCEPT ![r] = @ + 1]
    /\ UNCHANGED redeemed

\* The one use of an open voucher.
Redeem(r) ==
    /\ r \in open
    /\ open' = open \ {r}
    /\ redeemed' = [redeemed EXCEPT ![r] = @ + 1]
    /\ UNCHANGED granted

\* Vouchers expire, or are rejected or cancelled after all.
Void(R) ==
    /\ R \subseteq open
    /\ open' = open \ R
    /\ UNCHANGED <<granted, redeemed>>

Next ==
    \/ \E r \in Requests : Grant(r) \/ Redeem(r)
    \/ \E R \in SUBSET Requests : Void(R)

Spec == Init /\ [][Next]_vvars

\* Every redemption uses up a grant of the same voucher, and an open voucher is a grant
\* that no redemption used.
Backed ==
    \A r \in Requests : redeemed[r] + (IF r \in open THEN 1 ELSE 0) <= granted[r]
=============================================================================
