-------------------------- MODULE MCConversations --------------------------
(***************************************************************************)
(* Instances of Conversations: two turns overlap with each other and with  *)
(* a person.                                                               *)
(***************************************************************************)
EXTENDS Conversations, TLC

\* Bound: in the widget's conversation a message meets the contact form and there is room for
\* moving appointments; in the one on WhatsApp two messages meet, people take it over, and either
\* a booking or a delivery is lost, not both.
Bound ==
    \/ /\ conv.channel = "web" /\ Cardinality(seen) <= 1
       /\ \A p \in People : person[p] = IdlePerson
    \/ /\ conv.channel = "whatsapp" /\ Cardinality(issued) <= 1
       /\ dropped = {} \/ unsure = {}

Symmetry == Permutations(Msgs) \cup Permutations(Slots) \cup Permutations(Turns)
=============================================================================
