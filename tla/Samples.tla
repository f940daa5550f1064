------------------------------- MODULE Samples -------------------------------
(***************************************************************************)
(* Malware samples: a file is sealed in quarantine, a workflow has it      *)
(* analysed by the isolated worker and the verdict stored, a bad verdict   *)
(* becomes a security event, and staff destroy the file.                   *)
(*                                                                         *)
(* An activity that times out or whose worker dies is attempted again;     *)
(* what it has done until then stays.                                      *)
(***************************************************************************)
EXTENDS Naturals

CONSTANTS
    Samples,
    AnalyzeTries, PersistTries      \* maximum_attempts of the two activities

VARIABLES
    sample,     \* malware_results: rows
    blob,       \* the quarantine's objects
    analysis,   \* the workflows
    destroyer,  \* destroy between its commit and the overwriting, by sample
    reports,    \* security_events: malware events of each sample
    cut,        \* history: submissions cut off before their workflow was started
    kept,       \* history: overwritings that have failed
    again       \* history: samples whose verdict was stored by more than one attempt

sampleVars == <<sample, blob, analysis, destroyer, reports, cut, kept, again>>

Bad == {"malicious", "suspicious"}

Verdicts == Bad \cup {"clean", "error"}

\* What the engines say of a file: clamd's result, the severest YARA hit, and whether something
\* else about it (its archive, its type) is suspicious.
Clam == {"infected", "clean", "error", "not_configured"}
Yara == {"high", "medium", "none"}

\* Mutant of verdict_for: a scan that failed counts as one that found nothing.
verdict_forOpen(clam, yara, odd) ==
    IF clam = "infected" \/ yara = "high" THEN "malicious"
    ELSE IF odd \/ yara = "medium" THEN "suspicious"
    ELSE "clean"

\* verdict_for.  A YARA scan that fails reports an informational hit, as none here.
verdict_for(clam, yara, odd) ==
    IF clam = "infected" \/ yara = "high" THEN "malicious"
    ELSE IF odd \/ yara = "medium" THEN "suspicious"
    ELSE IF clam = "error" THEN "error"
    ELSE "clean"

Sample == [status : {"ABSENT", "QUARANTINED", "DESTROYED"}, verdict : Verdicts \cup {"pending"}]

\* clam: what ClamAV said when the verdict was found, "unread" if the file could not be read.
Analysis == [pc : {"none", "analyze", "persist", "events", "done", "failed"}, tries : Nat,
             verdict : Verdicts \cup {"pending"}, clam : Clam \cup {"unread"}]

SamplesTypeOK ==
    /\ sample \in [Samples -> Sample]
    /\ blob \in [Samples -> {"none", "sealed", "empty"}]
    /\ analysis \in [Samples -> Analysis]
    /\ destroyer \in [Samples -> BOOLEAN]
    /\ reports \in [Samples -> Nat]
    /\ cut \subseteq Samples /\ kept \subseteq Samples /\ again \subseteq Samples

SamplesInit ==
    /\ sample = [s \in Samples |-> [status |-> "ABSENT", verdict |-> "pending"]]
    /\ blob = [s \in Samples |-> "none"]
    /\ analysis = [s \in Samples |-> [pc |-> "none", tries |-> 0, verdict |-> "pending",
                                      clam |-> "unread"]]
    /\ destroyer = [s \in Samples |-> FALSE]
    /\ reports = [s \in Samples |-> 0]
    /\ cut = {} /\ kept = {} /\ again = {}

-----------------------------------------------------------------------------
(* submit_sample *)

Seal(s) ==
    /\ blob[s] = "none"
    /\ blob' = [blob EXCEPT ![s] = "sealed"]
    /\ UNCHANGED <<sample, analysis, destroyer, reports, cut, kept, again>>

InsertSample(s) ==
    /\ blob[s] = "sealed" /\ sample[s].status = "ABSENT" /\ s \notin cut
    /\ sample' = [sample EXCEPT ![s].status = "QUARANTINED"]
    /\ UNCHANGED <<blob, analysis, destroyer, reports, cut, kept, again>>

\* start_analysis.
StartAnalysis(s) ==
    /\ sample[s].status # "ABSENT" /\ analysis[s].pc = "none" /\ s \notin cut
    /\ analysis' = [analysis EXCEPT ![s].pc = "analyze"]
    /\ UNCHANGED <<sample, blob, destroyer, reports, cut, kept, again>>

\* The insertion, or the call of Temporal, fails, or the process stops.
SubmitFails(s) ==
    /\ blob[s] # "none" /\ analysis[s].pc = "none"
    /\ cut' = cut \cup {s}
    /\ UNCHANGED <<sample, blob, analysis, destroyer, reports, kept, again>>

-----------------------------------------------------------------------------
(* MalwareAnalysisWorkflow *)

\* After an attempt that failed, or whose answer did not arrive in time.
Failed(a) ==
    LET tries == IF a.pc = "analyze" THEN AnalyzeTries ELSE PersistTries
    IN [a EXCEPT !.pc = IF a.tries + 1 = tries THEN "failed"
                        ELSE IF a.pc = "events" THEN "persist" ELSE a.pc,
                 !.tries = @ + 1]

\* malware.analyze: a file that cannot be read or decrypted has the verdict "error".
Analyze(s) ==
    /\ analysis[s].pc = "analyze"
    /\ \/ \E clam \in Clam, yara \in Yara, odd \in BOOLEAN :
            /\ blob[s] = "sealed"
            /\ analysis' = [analysis EXCEPT ![s] =
                 [pc |-> "persist", tries |-> 0, verdict |-> verdict_for(clam, yara, odd),
                  clam |-> clam]]
       \/ analysis' = [analysis EXCEPT ![s] =
            [pc |-> "persist", tries |-> 0, verdict |-> "error", clam |-> "unread"]]
    /\ UNCHANGED <<sample, blob, destroyer, reports, cut, kept, again>>

Judged(row, verdict) == [row EXCEPT !.verdict = verdict]

\* persist_verdict: the verdict is committed.
Persist(s) ==
    /\ analysis[s].pc = "persist"
    /\ sample' = [sample EXCEPT ![s] = Judged(@, analysis[s].verdict)]
    /\ again' = IF sample[s].verdict = "pending" THEN again ELSE again \cup {s}
    /\ analysis' = [analysis EXCEPT ![s].pc = "events"]
    /\ UNCHANGED <<blob, destroyer, reports, cut, kept>>

\* malware_result: verdicts that become events.
Reported == Bad

\* The event is stored and forwarded.  Its dedupe key holds the time of the attempt.
StoreEvent(s) ==
    /\ analysis[s].pc = "events"
    /\ reports' = IF analysis[s].verdict \in Reported THEN [reports EXCEPT ![s] = @ + 1]
                                                      ELSE reports
    /\ analysis' \in {[analysis EXCEPT ![s].pc = "done"], [analysis EXCEPT ![s] = Failed(@)]}
    /\ UNCHANGED <<sample, blob, destroyer, cut, kept, again>>

\* An attempt fails or times out.
AttemptFails(s) ==
    /\ analysis[s].pc \in {"analyze", "persist", "events"}
    /\ analysis' = [analysis EXCEPT ![s] = Failed(@)]
    /\ UNCHANGED <<sample, blob, destroyer, reports, cut, kept, again>>

-----------------------------------------------------------------------------
(* destroy *)

DestroyCommit(s) ==
    /\ sample[s].status # "ABSENT"
    /\ sample' = [sample EXCEPT ![s].status = "DESTROYED"]
    /\ destroyer' = [destroyer EXCEPT ![s] = TRUE]
    /\ UNCHANGED <<blob, analysis, reports, cut, kept, again>>

Overwrite(s) ==
    /\ destroyer[s]
    /\ \/ blob' = [blob EXCEPT ![s] = "empty"] /\ UNCHANGED kept
       \/ kept' = kept \cup {s} /\ UNCHANGED blob
    /\ destroyer' = [destroyer EXCEPT ![s] = FALSE]
    /\ UNCHANGED <<sample, analysis, reports, cut, again>>

-----------------------------------------------------------------------------
SamplesNext ==
    \E s \in Samples :
        \/ Seal(s) \/ InsertSample(s) \/ StartAnalysis(s) \/ SubmitFails(s)
        \/ Analyze(s) \/ Persist(s) \/ StoreEvent(s) \/ AttemptFails(s)
        \/ DestroyCommit(s) \/ Overwrite(s)

SamplesSpec == SamplesInit /\ [][SamplesNext]_sampleVars

-----------------------------------------------------------------------------
(* Properties *)

\* A sample whose analysis has ended without being given up is judged, whatever was attempted again;
\* what is judged bad is reported, and once unless its verdict was stored again; and no file is
\* called clean on which ClamAV has failed.  A sample that is destroyed stays so, whatever its analysis
\* writes later, and its file is gone, unless its overwriting is still to come or has failed.
SamplesJudged ==
    /\ SamplesTypeOK
    /\ \A s \in Samples :
         /\ analysis[s].pc = "done" =>
              /\ sample[s].verdict # "pending"
              /\ sample[s].verdict \in Bad <=> reports[s] > 0
         /\ reports[s] <= 1 \/ s \in again
         /\ sample[s].verdict = "clean" => analysis[s].clam \in {"clean", "not_configured"}
         /\ \/ sample[s].status = "DESTROYED" <=> blob[s] = "empty"
            \/ destroyer[s] \/ s \in kept
=============================================================================
