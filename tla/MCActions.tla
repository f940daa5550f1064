------------------------------ MODULE MCActions ------------------------------
(***************************************************************************)
(* Instances of Defense and of Scans, which redeem approvals in the same   *)
(* way and share no state: each behaviour is one of a single part, chosen  *)
(* in the initial state, in which the other stays as it is.  No action     *)
(* that fairness is about is enabled in the other's initial state, so its  *)
(* fairness says nothing.                                                  *)
(*                                                                         *)
(* Scans comes with its theorems, so that Actions_proofs can cite them of  *)
(* this instance.                                                          *)
(***************************************************************************)
EXTENDS Defense, TLC

CONSTANTS a1, a2, a3, ip, Jobs, Handlers, Activities, MaxConcurrent, ScanGrants

VARIABLES
    part,
    cleared, job, handler, jobOf, opened, approvals, redemptions, wf, asked, act, run,
    launches, stale, missed

S == INSTANCE Scans_proofs WITH txn <- handler, bound <- jobOf, open <- opened, granted <- approvals,
                         redeemed <- redemptions, Sessions <- Handlers, Workers <- Activities,
                         MaxGrants <- ScanGrants

scanVars == <<cleared, job, handler, jobOf, opened, approvals, redemptions, wf, asked, act, run,
              launches, stale, missed>>

ASSUME ScanConstants == S!ScanAssumption

OneTarget == [a \in Actions |-> ip]

\* A challenge and a block of the same address: two keys, one member of the IP set.
OwnKeys == [a \in Actions |-> a]

\* The actions that have a row or will have one.
Begun == {a \in Actions : row[a] # NoRow \/ \E s \in Workers : txn[s].act = a}

\* Bound of Defense: those that share an address overlap with each other, in one request at once
\* beside the sweeper; another one is alone, in as many requests as there are.
DefenseBound ==
    Begun \cap InSet # {} => Begun \subseteq InSet /\ \E s \in Sessions : txn[s] = Idle

ActionsInit == part \in {"defense", "scans"} /\ Init /\ S!Init

ActionsNext ==
    \/ part = "defense" /\ Next /\ UNCHANGED <<part, scanVars>>
    \/ part = "scans" /\ S!Next /\ UNCHANGED <<part, vars>>

ActionsSpec == ActionsInit /\ [][ActionsNext]_<<part, vars, scanVars>>

\* Fairness of Scans, spelled out over scanVars for TLC.
ScanFairness ==
    /\ \A s \in Handlers : WF_scanVars(S!Handler(s))
    /\ \A w \in Activities : WF_scanVars(S!Answer(w) \/ S!Fail(w))
    /\ \A j \in Jobs : /\ WF_scanVars(S!Scanned(j))
                      /\ WF_scanVars(\E w \in Activities : S!Execute(w, j))
                      /\ SF_scanVars(S!GiveUp(j) \/ S!Answered(j))

\* Bound of Scans: a job has two approvals, or one that is approved twice.
ScanBound ==
    \A t \in Tickets : approvals[t] > 1 => \A u \in Tickets \ {t} : jobOf[u] = None

LiveSpec == ActionsSpec /\ Fairness /\ ScanFairness

Symmetry == Permutations(Sessions) \cup Permutations(Tickets) \cup Permutations(RuleIds)

-----------------------------------------------------------------------------

\* Every scan's workflow is backed by an approval, as in Scans.
ScansBacked == S!ScansBacked

\* A job that looks active has a workflow, as in Scans.
JobsHaveWorkflows == S!JobsHaveWorkflows

\* A result of a scan stays, with the exceptions of Scans.
FinalUnlessStale == S!FinalUnlessStale

\* A started scan ends, with the exceptions of Scans.
StartedEnds == S!StartedEnds
=============================================================================
