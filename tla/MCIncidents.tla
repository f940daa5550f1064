---------------------------- MODULE MCIncidents ----------------------------
(* Instances of Incidents for TLC. *)
EXTENDS Incidents, TLC

CONSTANTS e1, k1

OneEvent == e1 :> k1
=============================================================================
