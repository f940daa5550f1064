--------------------------- MODULE Actions_proofs ---------------------------
(***************************************************************************)
(* What is proved of Scans holds of the instance that TLC checks it in:    *)
(* the part of a behaviour of MCActions that Scans sees is one of Scans,   *)
(* which stays as it is while Defense moves.                               *)
(***************************************************************************)
EXTENDS MCActions, TLAPS

LEMMA ActionsAreScans == ActionsSpec => S!Spec
<1>1. ActionsInit => S!Init
  BY DEF ActionsInit
<1>2. [ActionsNext]_<<part, vars, scanVars>> => [S!Next]_(S!vars)
  BY DEF ActionsNext, scanVars, S!vars, S!approvalVars, S!workflowVars
<1> QED
  BY <1>1, <1>2, PTL DEF ActionsSpec, S!Spec

\* As ScansBacked of Scans: every scan's workflow is backed by an approval of its own.
THEOREM ScansBackedHere == ActionsSpec => []ScansBacked
<1>1. S!Spec => []S!ScansBacked
  BY S!ScansBackedHolds
<1> QED
  BY <1>1, ActionsAreScans DEF ScansBacked

\* As JobsHaveWorkflows of Scans: a job that looks active has a workflow that will end it, or is
\* about to have one, and a cancelled workflow has been told, or is about to be.
THEOREM JobsHaveWorkflowsHere == ActionsSpec => []JobsHaveWorkflows
<1>1. S!Spec => []S!JobsHaveWorkflows
  BY S!JobsHaveWorkflowsHolds
<1> QED
  BY <1>1, ActionsAreScans DEF JobsHaveWorkflows

\* As FinalUnlessStale of Scans: what a scan has come to stays, with the exceptions of Scans.
THEOREM FinalUnlessStaleHere == ActionsSpec => FinalUnlessStale
<1>1. S!Spec => S!FinalUnlessStale
  BY S!FinalUnlessStaleHolds
<1> QED
  BY <1>1, ActionsAreScans DEF FinalUnlessStale
=============================================================================
