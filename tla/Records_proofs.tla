---------------------------- MODULE Records_proofs ----------------------------
(***************************************************************************)
(* What the records of the platform promise, for any number of them: the   *)
(* verdicts on malware samples, the knowledge that is served, the audit    *)
(* trail, the appointments with their calendar and their reminders, and    *)
(* the slots that are offered.                                             *)
(***************************************************************************)
EXTENDS Samples, Knowledge, Audit, Reminders, Slots, FiniteSetTheorems, SequenceTheorems, TLAPS

-----------------------------------------------------------------------------
(* Malware samples *)

(***************************************************************************)
(* SamplesJudged says what holds once an analysis is done.  Until then a   *)
(* verdict is stored only from an analysis that has found it, and is the   *)
(* one of that analysis whatever is attempted again; an event is sent only *)
(* for a verdict that is stored.                                           *)
(***************************************************************************)
Found(s) == analysis[s].pc \in {"persist", "events", "done"}

VerdictFound(s) ==
    /\ Found(s) => analysis[s].verdict \in Verdicts
    /\ analysis[s].verdict = "clean" => analysis[s].clam \in {"clean", "not_configured"}

VerdictStored(s) ==
    /\ sample[s].verdict # "pending" =>
         /\ sample[s].verdict = analysis[s].verdict
         /\ analysis[s].pc \in {"persist", "events", "done", "failed"}
    /\ analysis[s].pc \in {"events", "done"} => sample[s].verdict = analysis[s].verdict

ReportedVerdict(s) ==
    /\ reports[s] > 0 => sample[s].verdict \in Bad
    /\ analysis[s].pc = "done" /\ sample[s].verdict \in Bad => reports[s] > 0
    /\ s \notin again => /\ reports[s] <= 1
                         /\ analysis[s].pc = "events" => reports[s] = 0

FileKept(s) ==
    /\ blob[s] = "none" => sample[s].status = "ABSENT"
    /\ destroyer[s] \/ blob[s] = "empty" => sample[s].status = "DESTROYED"
    /\ sample[s].status = "DESTROYED" => blob[s] = "empty" \/ destroyer[s] \/ s \in kept

SampleInv(s) == VerdictFound(s) /\ VerdictStored(s) /\ ReportedVerdict(s) /\ FileKept(s)

SamplesInv == SamplesTypeOK /\ \A s \in Samples : SampleInv(s)

\* A scan that has failed is never the reason why a file is called clean.
LEMMA VerdictOfScan ==
    ASSUME NEW clam \in Clam, NEW yara \in Yara, NEW odd \in BOOLEAN
    PROVE  /\ verdict_for(clam, yara, odd) \in Verdicts
           /\ verdict_for(clam, yara, odd) = "clean" => clam \in {"clean", "not_configured"}
BY DEF verdict_for, Verdicts, Bad, Clam

LEMMA SamplesInitInv == SamplesInit => SamplesInv
BY DEF SamplesInit, SamplesInv, SamplesTypeOK, SampleInv, VerdictFound, VerdictStored, Found,
       ReportedVerdict, FileKept, Sample, Analysis, Verdicts, Bad

\* An attempt that failed leaves what its analysis has found.
LEMMA FailedForms ==
    ASSUME NEW a \in Analysis, a.pc \in {"analyze", "persist", "events"}
    PROVE  /\ Failed(a) \in Analysis
           /\ Failed(a).verdict = a.verdict /\ Failed(a).clam = a.clam
           /\ Failed(a).pc = "failed" \/ Failed(a).pc = IF a.pc = "events" THEN "persist" ELSE a.pc
<1> DEFINE on == IF a.pc = "events" THEN "persist" ELSE a.pc
           last == a.tries + 1 = IF a.pc = "analyze" THEN AnalyzeTries ELSE PersistTries
           pc == IF last THEN "failed" ELSE on
<1>1. Failed(a) = [a EXCEPT !.pc = pc, !.tries = a.tries + 1]
  BY DEF Failed
<1>2. pc \in {"failed", "analyze", "persist"} /\ (pc = "failed" \/ pc = on)
  OBVIOUS
<1> DEFINE b == [a EXCEPT !.pc = pc]
<1> HIDE DEF pc
<1>3. b \in Analysis /\ b.pc = pc /\ b.verdict = a.verdict /\ b.clam = a.clam /\ b.tries = a.tries
  BY <1>2 DEF Analysis
<1>4. Failed(a) = [b EXCEPT !.tries = a.tries + 1]
  BY <1>1
<1> HIDE DEF b
<1>5. a.tries + 1 \in Nat
  BY DEF Analysis
<1>6. /\ Failed(a) \in Analysis
      /\ Failed(a).pc = pc /\ Failed(a).verdict = a.verdict /\ Failed(a).clam = a.clam
  BY <1>3, <1>4, <1>5 DEF Analysis
<1> QED
  BY <1>2, <1>6

\* Each step is of one sample, and leaves the others.
LEMMA SamplesStep == SamplesInv /\ [SamplesNext]_sampleVars => SamplesInv'
<1> SUFFICES ASSUME SamplesInv, [SamplesNext]_sampleVars PROVE SamplesInv'
  OBVIOUS
<1> USE DEF SamplesInv, SamplesTypeOK
<1>0. CASE UNCHANGED sampleVars
  BY <1>0 DEF sampleVars, SampleInv, VerdictFound, VerdictStored, ReportedVerdict, FileKept, Found
<1>1. ASSUME NEW s \in Samples, Seal(s) PROVE SamplesInv'
  BY <1>1 DEF Seal, SampleInv, VerdictFound, VerdictStored, ReportedVerdict, FileKept, Found
<1>2. ASSUME NEW s \in Samples, InsertSample(s) PROVE SamplesInv'
  BY <1>2 DEF InsertSample, SampleInv, VerdictFound, VerdictStored, ReportedVerdict, FileKept, Found,
              Sample
<1>3. ASSUME NEW s \in Samples, StartAnalysis(s) PROVE SamplesInv'
  BY <1>3 DEF StartAnalysis, SampleInv, VerdictFound, VerdictStored, ReportedVerdict, FileKept,
              Found, Analysis
<1>4. ASSUME NEW s \in Samples, SubmitFails(s) PROVE SamplesInv'
  BY <1>4 DEF SubmitFails, SampleInv, VerdictFound, VerdictStored, ReportedVerdict, FileKept, Found
<1>5. ASSUME NEW s \in Samples, Analyze(s) PROVE SamplesInv'
  <2>1. PICK verdict \in Verdicts, clam \in Clam \cup {"unread"} :
          /\ analysis' = [analysis EXCEPT ![s] = [pc |-> "persist", tries |-> 0,
                                                  verdict |-> verdict, clam |-> clam]]
          /\ verdict = "clean" => clam \in {"clean", "not_configured"}
    <3>1. "error" \in Verdicts
      BY DEF Verdicts
    <3> QED
      BY <1>5, <3>1, VerdictOfScan DEF Analyze
  <2>2. [pc |-> "persist", tries |-> 0, verdict |-> verdict, clam |-> clam] \in Analysis
    BY DEF Analysis
  <2>3. analysis[s].pc = "analyze" /\ UNCHANGED <<sample, blob, destroyer, reports, cut, kept, again>>
    BY <1>5 DEF Analyze
  <2>4. analysis' \in [Samples -> Analysis] /\ \A r \in Samples \ {s} : analysis'[r] = analysis[r]
    BY <2>1, <2>2
  <2>5. /\ analysis'[s].pc = "persist" /\ analysis'[s].verdict = verdict
        /\ analysis'[s].clam = clam
    BY <2>1
  <2>6. SampleInv(s)'
    BY <2>1, <2>3, <2>5 DEF SampleInv, VerdictFound, VerdictStored, ReportedVerdict, FileKept, Found,
                      Verdicts, Bad
  <2>7. ASSUME NEW r \in Samples \ {s} PROVE SampleInv(r)'
    BY <2>1, <2>3, <2>4 DEF SampleInv, VerdictFound, VerdictStored, ReportedVerdict, FileKept, Found
  <2>8. ASSUME NEW r \in Samples PROVE SampleInv(r)'
    BY <2>6, <2>7
  <2> QED
    BY <2>3, <2>4, <2>8
<1>6. ASSUME NEW s \in Samples, Persist(s) PROVE SamplesInv'
  BY <1>6, SMTT(20) DEF Persist, Judged, SampleInv, VerdictFound, VerdictStored, ReportedVerdict,
              FileKept, Found, Sample, Analysis, Verdicts, Bad
<1>7. ASSUME NEW s \in Samples, StoreEvent(s) PROVE SamplesInv'
  <2>1. analysis[s].pc = "events" /\ UNCHANGED <<sample, blob, destroyer, cut, kept, again>>
    BY <1>7 DEF StoreEvent
  <2>2. PICK a \in Analysis :
          /\ analysis' = [analysis EXCEPT ![s] = a]
          /\ a.pc \in {"done", "failed", "persist"}
          /\ a.verdict = analysis[s].verdict /\ a.clam = analysis[s].clam
    <3>1. analysis[s] \in Analysis /\ [analysis[s] EXCEPT !.pc = "done"] \in Analysis
      BY DEF Analysis
    <3>2. /\ [analysis[s] EXCEPT !.pc = "done"].pc = "done"
          /\ [analysis[s] EXCEPT !.pc = "done"].verdict = analysis[s].verdict
          /\ [analysis[s] EXCEPT !.pc = "done"].clam = analysis[s].clam
      BY <3>1 DEF Analysis
    <3>3. CASE analysis' = [analysis EXCEPT ![s].pc = "done"]
      BY <3>1, <3>2, <3>3
    <3>4. CASE analysis' = [analysis EXCEPT ![s] = Failed(@)]
      BY <3>1, <3>4, <2>1, FailedForms
    <3> QED
      BY <1>7, <3>3, <3>4 DEF StoreEvent
  <2>3. reports' = [reports EXCEPT ![s] = IF analysis[s].verdict \in Bad THEN @ + 1 ELSE @]
    BY <1>7 DEF StoreEvent, Reported
  <2> QED
    BY <2>1, <2>2, <2>3 DEF SampleInv, VerdictFound, VerdictStored, ReportedVerdict, FileKept, Found
<1>8. ASSUME NEW s \in Samples, AttemptFails(s) PROVE SamplesInv'
  BY <1>8, FailedForms DEF AttemptFails, SampleInv, VerdictFound, VerdictStored,
              ReportedVerdict, FileKept, Found
<1>9. ASSUME NEW s \in Samples, DestroyCommit(s) PROVE SamplesInv'
  BY <1>9 DEF DestroyCommit, SampleInv, VerdictFound, VerdictStored, ReportedVerdict, FileKept,
              Found, Sample
<1>10. ASSUME NEW s \in Samples, Overwrite(s) PROVE SamplesInv'
  BY <1>10 DEF Overwrite, SampleInv, VerdictFound, VerdictStored, ReportedVerdict, FileKept, Found
<1> QED
  BY <1>0, <1>1, <1>2, <1>3, <1>4, <1>5, <1>6, <1>7, <1>8, <1>9, <1>10 DEF SamplesNext

LEMMA SamplesInvJudged == SamplesInv => SamplesJudged
BY DEF SamplesInv, SamplesTypeOK, SamplesJudged, SampleInv, VerdictFound, VerdictStored,
       ReportedVerdict, FileKept, Found, Sample, Analysis, Verdicts, Bad

\* A sample that is analysed is judged, reported as often as it should be, and kept or destroyed,
\* whichever attempts fail, and however often.
THEOREM SamplesJudgedHolds == SamplesSpec => []SamplesJudged
BY SamplesInitInv, SamplesStep, SamplesInvJudged, PTL DEF SamplesSpec

-----------------------------------------------------------------------------
(* Knowledge *)

(***************************************************************************)
(* ServedVetted speaks of what is approved; whether it holds is decided    *)
(* when a request reads its row, long before its commit.  ReadBy says what *)
(* a request has found there and still relies on: that a row, once there,  *)
(* stays and keeps its author.                                             *)
(***************************************************************************)
ReadBy(t) ==
    t.op # "idle" =>
        /\ t.ver \in Versions /\ Exists(t.ver)
        /\ \A v \in t.olds : Exists(v)
        /\ t.seen.content \in Contents
        /\ t.op = "edit" => /\ t.new \in Contents
                            /\ t.next = 0 => t.seen.status \in {"DRAFT", "PENDING_APPROVAL"}
                            /\ t.next # 0 => t.user \in Users
        /\ t.op = "submit" => t.seen.status = "DRAFT"
        /\ t.op \in {"approve", "approving"} =>
             /\ t.seen.status = "PENDING_APPROVAL" /\ t.user \in Users
             /\ Distinct => doc[t.ver].by # t.user

Written(d) == d.status # "ABSENT" => d.content \in Contents /\ d.by \in Users

KnowledgeInv ==
    /\ ServedVetted
    /\ \A v \in Versions : Written(doc[v])
    /\ \A s \in Editors : ReadBy(edits[s])

\* Rows that are there stay, with their authors.
RowsStay == \A v \in Versions : Exists(v) => Exists(v)' /\ doc'[v].by = doc[v].by

LEMMA ReadByStays ==
    ASSUME KnowledgeTypeOK, RowsStay, NEW t \in Edit, ReadBy(t)
    PROVE  ReadBy(t)'
BY DEF ReadBy, RowsStay, Edit, KnowledgeTypeOK

LEMMA VersionsFinite == \A S \in SUBSET Versions : IsFiniteSet(S) /\ Cardinality(S) \in Nat
<1>1. IsFiniteSet(Versions)
  BY FS_Interval, KnowledgeAssumption DEF Versions
<1> QED
  BY <1>1, FS_Subset, FS_CardinalityType

\* A version that is approved by no step leaves at most one served.
LEMMA FewerServed ==
    ASSUME Cardinality(Served) <= 1, Served' \subseteq Served
    PROVE  Cardinality(Served') <= 1
<1>1. Served \subseteq Versions /\ Served' \subseteq Versions
  BY DEF Served
<1>2. Cardinality(Served') <= Cardinality(Served) /\ Cardinality(Served') \in Nat
  BY <1>1, VersionsFinite, FS_Subset
<1> QED
  BY <1>1, <1>2, VersionsFinite

-----------------------------------------------------------------------------
(* Requests begin *)

\* A request that reads row v, when what it takes along is in t.
Begun(v, t) == [t EXCEPT !.ver = v, !.seen = Seen(v)]

LEMMA BeginEditKeeps ==
    ASSUME KnowledgeInv, NEW s \in Editors, NEW v \in Versions, NEW t, BeginEdit(s, v, t),
           Begun(v, t) \in Edit, ReadBy(Begun(v, t))
    PROVE  KnowledgeInv' /\ KnowledgeStep
<1>1. /\ edits' = [edits EXCEPT ![s] = Begun(v, t)] /\ UNCHANGED <<doc, chunks, stale>>
  BY DEF BeginEdit, Begun
<1>2. KnowledgeTypeOK'
  BY <1>1 DEF KnowledgeInv, ServedVetted, KnowledgeTypeOK
<1>3. Served' = Served
  BY <1>1 DEF Served
<1>4. ServedVetted'
  BY <1>1, <1>2, <1>3 DEF KnowledgeInv, ServedVetted
<1>5. \A r \in Editors : ReadBy(edits[r])'
  <2>1. edits \in [Editors -> Edit] /\ \A w : Exists(w)' <=> Exists(w)
    BY <1>1 DEF KnowledgeInv, ServedVetted, KnowledgeTypeOK, Exists
  <2>2. \A r \in Editors : ReadBy(edits'[r])
    BY <1>1, <2>1 DEF KnowledgeInv
  <2> QED
    BY <2>1, <2>2, <1>1 DEF ReadBy
<1> QED
  BY <1>1, <1>3, <1>4, <1>5 DEF KnowledgeInv, KnowledgeStep, Written

\* What a request finds in its row.
LEMMA SeenForms ==
    ASSUME KnowledgeInv, NEW v \in Versions, Exists(v)
    PROVE  /\ Seen(v) \in [status : Status, content : Contents \cup {Nil}]
           /\ Seen(v).status = doc[v].status /\ Seen(v).content = doc[v].content
           /\ doc[v] \in Doc /\ doc[v].content \in Contents /\ doc[v].by \in Users
           /\ doc[v].status \in Status \ {"ABSENT"}
BY DEF KnowledgeInv, ServedVetted, KnowledgeTypeOK, Doc, Seen, Exists, Written

\* The record of a request, before and after it has read its row.
Wants(op, new, user, next) ==
    [op |-> op, ver |-> 0, seen |-> [status |-> "ABSENT", content |-> Nil], new |-> new,
     user |-> user, next |-> next, olds |-> {}]

HasRead(v, op, new, user, next) ==
    [op |-> op, ver |-> v, seen |-> Seen(v), new |-> new, user |-> user, next |-> next,
     olds |-> {}]

LEMMA WantsForms ==
    ASSUME NEW c, NEW u
    PROVE  /\ [NoEdit EXCEPT !.op = "edit", !.new = c] = Wants("edit", c, Nil, 0)
           /\ [NoEdit EXCEPT !.op = "submit"] = Wants("submit", Nil, Nil, 0)
           /\ [NoEdit EXCEPT !.op = "approve", !.user = u] = Wants("approve", Nil, u, 0)
           /\ [NoEdit EXCEPT !.op = "archive"] = Wants("archive", Nil, Nil, 0)
<1>1. ASSUME NEW op PROVE [NoEdit EXCEPT !.op = op] = Wants(op, Nil, Nil, 0)
  BY DEF NoEdit, Wants
<1>2. ASSUME NEW op PROVE [Wants(op, Nil, Nil, 0) EXCEPT !.new = c] = Wants(op, c, Nil, 0)
  BY DEF Wants
<1>3. ASSUME NEW op, NEW d PROVE [Wants(op, d, Nil, 0) EXCEPT !.user = u] = Wants(op, d, u, 0)
  BY DEF Wants
<1>4. [NoEdit EXCEPT !.op = "edit", !.new = c] = Wants("edit", c, Nil, 0)
  BY <1>1, <1>2
<1>5. [NoEdit EXCEPT !.op = "approve", !.user = u] = Wants("approve", Nil, u, 0)
  BY <1>1, <1>3
<1> QED
  BY <1>1, <1>4, <1>5

LEMMA AddWants ==
    ASSUME NEW c, NEW u, NEW n
    PROVE  [NoEdit EXCEPT !.op = "edit", !.new = c, !.user = u, !.next = n] = Wants("edit", c, u, n)
<1>1. [NoEdit EXCEPT !.op = "edit", !.new = c] = Wants("edit", c, Nil, 0)
  BY WantsForms
<1>2. [Wants("edit", c, Nil, 0) EXCEPT !.user = u] = Wants("edit", c, u, 0)
  BY DEF Wants
<1>3. [Wants("edit", c, u, 0) EXCEPT !.next = n] = Wants("edit", c, u, n)
  BY DEF Wants
<1> QED
  BY <1>1, <1>2, <1>3

LEMMA HasReadForms ==
    ASSUME NEW v, NEW op, NEW c, NEW u, NEW n
    PROVE  Begun(v, Wants(op, c, u, n)) = HasRead(v, op, c, u, n)
<1> DEFINE w == [op |-> op, ver |-> v, seen |-> [status |-> "ABSENT", content |-> Nil], new |-> c,
                 user |-> u, next |-> n, olds |-> {}]
<1>1. [Wants(op, c, u, n) EXCEPT !.ver = v] = w
  BY DEF Wants
<1>2. [w EXCEPT !.seen = Seen(v)] = HasRead(v, op, c, u, n)
  BY DEF HasRead
<1> HIDE DEF w
<1> QED
  BY <1>1, <1>2 DEF Begun

LEMMA ReadsKeep ==
    ASSUME KnowledgeInv, NEW s \in Editors, NEW v \in Versions, NEW c \in Contents, NEW u \in Users,
           \/ EditRead(s, v, c) \/ AddRead(s, v, c, u)
           \/ SubmitRead(s, v) \/ ApproveRead(s, v, u) \/ ArchiveRead(s, v)
    PROVE  KnowledgeInv' /\ KnowledgeStep
<1>1. Exists(v)
  BY DEF EditRead, AddRead, SubmitRead, ApproveRead, ArchiveRead, BeginEdit
<1>2. Nil \in Contents \cup {Nil} /\ Nil \in Users \cup {Nil}
  OBVIOUS
<1>3. CASE EditRead(s, v, c)
  <2> DEFINE t == [NoEdit EXCEPT !.op = "edit", !.new = c]
  <2>1. BeginEdit(s, v, t) /\ ~AddsVersion(doc[v])
    BY <1>3 DEF EditRead
  <2>2. t = Wants("edit", c, Nil, 0)
    BY WantsForms
  <2> HIDE DEF t
  <2>3. Begun(v, t) = HasRead(v, "edit", c, Nil, 0)
    BY <2>2, HasReadForms
  <2>4. HasRead(v, "edit", c, Nil, 0) \in Edit
    BY <1>1, SeenForms DEF Edit, HasRead
  <2>5. ReadBy(HasRead(v, "edit", c, Nil, 0))
    BY <1>1, <2>1, SeenForms DEF ReadBy, HasRead, AddsVersion, Status
  <2> QED
    BY <2>1, <2>3, <2>4, <2>5, BeginEditKeeps
<1>4. CASE AddRead(s, v, c, u)
  <2>1. PICK n \in Nat \ {0} : n = NextVersion
    <3>1. Cardinality({w \in Versions : Exists(w)}) \in Nat
      BY VersionsFinite
    <3> QED
      BY <3>1 DEF NextVersion
  <2> DEFINE t == [NoEdit EXCEPT !.op = "edit", !.new = c, !.user = u, !.next = n]
  <2>2. BeginEdit(s, v, t)
    BY <1>4, <2>1 DEF AddRead
  <2>3. t = Wants("edit", c, u, n)
    BY AddWants
  <2> HIDE DEF t
  <2>4. Begun(v, t) = HasRead(v, "edit", c, u, n)
    BY <2>3, HasReadForms
  <2>5. HasRead(v, "edit", c, u, n) \in Edit
    BY <1>1, SeenForms DEF Edit, HasRead
  <2>6. ReadBy(HasRead(v, "edit", c, u, n))
    BY <1>1, SeenForms DEF ReadBy, HasRead
  <2> QED
    BY <2>2, <2>4, <2>5, <2>6, BeginEditKeeps
<1>5. CASE SubmitRead(s, v)
  <2> DEFINE t == [NoEdit EXCEPT !.op = "submit"]
  <2>1. BeginEdit(s, v, t) /\ doc[v].status = "DRAFT"
    BY <1>5 DEF SubmitRead
  <2>2. t = Wants("submit", Nil, Nil, 0)
    BY WantsForms
  <2> HIDE DEF t
  <2>3. Begun(v, t) = HasRead(v, "submit", Nil, Nil, 0)
    BY <2>2, HasReadForms
  <2>4. HasRead(v, "submit", Nil, Nil, 0) \in Edit
    BY <1>1, SeenForms DEF Edit, HasRead
  <2>5. ReadBy(HasRead(v, "submit", Nil, Nil, 0))
    BY <1>1, <2>1, SeenForms DEF ReadBy, HasRead
  <2> QED
    BY <2>1, <2>3, <2>4, <2>5, BeginEditKeeps
<1>6. CASE ApproveRead(s, v, u)
  <2> DEFINE t == [NoEdit EXCEPT !.op = "approve", !.user = u]
  <2>1. BeginEdit(s, v, t) /\ MayApprove(doc[v], u)
    BY <1>6 DEF ApproveRead
  <2>2. t = Wants("approve", Nil, u, 0)
    BY WantsForms
  <2> HIDE DEF t
  <2>3. Begun(v, t) = HasRead(v, "approve", Nil, u, 0)
    BY <2>2, HasReadForms
  <2>4. HasRead(v, "approve", Nil, u, 0) \in Edit
    BY <1>1, SeenForms DEF Edit, HasRead
  <2>5. ReadBy(HasRead(v, "approve", Nil, u, 0))
    BY <1>1, <2>1, SeenForms DEF ReadBy, HasRead, MayApprove
  <2> QED
    BY <2>1, <2>3, <2>4, <2>5, BeginEditKeeps
<1>7. CASE ArchiveRead(s, v)
  <2> DEFINE t == [NoEdit EXCEPT !.op = "archive"]
  <2>1. BeginEdit(s, v, t)
    BY <1>7 DEF ArchiveRead
  <2>2. t = Wants("archive", Nil, Nil, 0)
    BY WantsForms
  <2> HIDE DEF t
  <2>3. Begun(v, t) = HasRead(v, "archive", Nil, Nil, 0)
    BY <2>2, HasReadForms
  <2>4. HasRead(v, "archive", Nil, Nil, 0) \in Edit
    BY <1>1, SeenForms DEF Edit, HasRead
  <2>5. ReadBy(HasRead(v, "archive", Nil, Nil, 0))
    BY <1>1, SeenForms DEF ReadBy, HasRead
  <2> QED
    BY <2>1, <2>3, <2>4, <2>5, BeginEditKeeps
<1> QED
  BY <1>3, <1>4, <1>5, <1>6, <1>7

-----------------------------------------------------------------------------
(* Requests commit *)

\* A session that is done.
LEMMA NoEditForms == NoEdit \in Edit /\ NoEdit.op = "idle" /\ ReadBy(NoEdit)
BY DEF NoEdit, Edit, ReadBy, Status

LEMMA DoneKeeps ==
    ASSUME KnowledgeTypeOK, RowsStay, \A r \in Editors : ReadBy(edits[r]), NEW s \in Editors,
           edits' = [edits EXCEPT ![s] = NoEdit]
    PROVE  edits' \in [Editors -> Edit] /\ \A r \in Editors : ReadBy(edits[r])'
<1>1. edits \in [Editors -> Edit]
  BY DEF KnowledgeTypeOK
<1>2. edits' \in [Editors -> Edit] /\ edits'[s] = NoEdit
      /\ \A r \in Editors \ {s} : edits'[r] = edits[r]
  BY <1>1, NoEditForms
<1>3. \A r \in Editors \ {s} : ReadBy(edits[r])'
  <2> SUFFICES ASSUME NEW r \in Editors \ {s} PROVE ReadBy(edits[r])'
    OBVIOUS
  <2>1. PICK t \in Edit : t = edits[r]
    BY <1>1
  <2>2. ReadBy(t)'
    BY <2>1, ReadByStays
  <2> QED
    BY <1>2, <2>1, <2>2 DEF ReadBy
<1>4. ReadBy(edits[s])'
  BY <1>2, NoEditForms DEF ReadBy
<1> QED
  BY <1>2, <1>3, <1>4

\* A commit that may not approve its row, and goes the way of the row if it found it as read.
Along(s, d) ==
    LET v == edits[s].ver
    IN  /\ d \in Doc /\ Written(d) /\ d.status # "ABSENT"
        /\ d.by = doc[v].by /\ d.approver = doc[v].approver
        /\ d.status = "APPROVED" => doc[v].status = "APPROVED"
        /\ Seen(v) = edits[s].seen =>
             /\ d.status = doc[v].status \/ <<doc[v].status, d.status>> \in Moves
             /\ doc[v].status \in {"APPROVED", "ARCHIVED"} =>
                  d.content = doc[v].content /\ edits[s].op = "archive"

LEMMA CommitKeeps ==
    ASSUME KnowledgeInv, NEW s \in Editors, edits[s].op # "idle", NEW d, Commit(s, d), Along(s, d),
           UNCHANGED chunks
    PROVE  KnowledgeInv' /\ KnowledgeStep
<1> DEFINE v == edits[s].ver
<1>1. v \in Versions /\ Exists(v) /\ doc \in [Versions -> Doc] /\ stale \subseteq Versions
  BY DEF KnowledgeInv, ServedVetted, KnowledgeTypeOK, ReadBy
<1>2. /\ doc' = [doc EXCEPT ![v] = d]
      /\ stale' = IF Seen(v) = edits[s].seen \/ d = doc[v] THEN stale ELSE stale \cup {v}
      /\ edits' = [edits EXCEPT ![s] = NoEdit]
  BY DEF Commit
<1>3. /\ d \in Doc /\ Written(d) /\ d.status # "ABSENT"
      /\ d.by = doc[v].by /\ d.approver = doc[v].approver
      /\ d.status = "APPROVED" => doc[v].status = "APPROVED"
  BY DEF Along
<1>4. \/ v \in stale' \/ d = doc[v]
      \/ /\ d.status = doc[v].status \/ <<doc[v].status, d.status>> \in Moves
         /\ doc[v].status \in {"APPROVED", "ARCHIVED"} =>
              d.content = doc[v].content /\ edits[s].op = "archive"
  BY <1>2 DEF Along
<1> HIDE DEF v
<1>5. doc'[v] = d /\ (\A w \in Versions \ {v} : doc'[w] = doc[w]) /\ doc' \in [Versions -> Doc]
  BY <1>1, <1>2, <1>3
<1>6. stale \subseteq stale' /\ stale' \subseteq Versions
  BY <1>1, <1>2
<1>7. RowsStay
  BY <1>1, <1>3, <1>5 DEF RowsStay, Exists
<1>8. edits' \in [Editors -> Edit] /\ \A r \in Editors : ReadBy(edits[r])'
  BY <1>2, <1>7, DoneKeeps DEF KnowledgeInv, ServedVetted
<1>9. KnowledgeTypeOK'
  BY <1>5, <1>6, <1>8 DEF KnowledgeInv, ServedVetted, KnowledgeTypeOK
<1>10. Served' \subseteq Served
  BY <1>3, <1>5 DEF Served
<1>11. ServedVetted'
  <2>1. Cardinality(Served') <= 1
    BY <1>10, FewerServed DEF KnowledgeInv, ServedVetted
  <2>2. ASSUME NEW w \in Served'
        PROVE  /\ chunks'[w] \in Contents
               /\ doc'[w].approver # Nil /\ (Distinct => doc'[w].approver # doc'[w].by)
               /\ w \notin stale' => doc'[w].content = chunks'[w]
    <3>1. w \in Served /\ w \in Versions
      BY <1>10 DEF Served
    <3>2. CASE w # v
      BY <3>1, <3>2, <1>5, <1>6 DEF KnowledgeInv, ServedVetted
    <3>3. CASE w = v
      <4>1. w \notin stale' => d.content = doc[v].content
        BY <1>4, <3>1, <3>3 DEF Served
      <4> QED
        BY <4>1, <3>1, <3>3, <1>3, <1>5, <1>6 DEF KnowledgeInv, ServedVetted
    <3> QED
      BY <3>2, <3>3
  <2> QED
    BY <2>1, <2>2, <1>9 DEF ServedVetted
<1>12. \A w \in Versions : Written(doc[w])'
  BY <1>3, <1>5 DEF KnowledgeInv, Written
<1>13. ASSUME NEW w \in Versions \ stale'
       PROVE  /\ doc'[w].status = doc[w].status \/ <<doc[w].status, doc'[w].status>> \in Moves
              /\ doc[w].status \in {"APPROVED", "ARCHIVED"} => doc'[w].content = doc[w].content
  BY <1>4, <1>5
<1>14. ASSUME Served # {}, Served' = {}
       PROVE  v \in Served /\ (v \in stale' \/ edits[s].op = "archive")
  <2>1. v \in Served /\ doc[v].status = "APPROVED"
    BY <1>5, <1>14 DEF Served
  <2>2. d.status # "APPROVED"
    BY <1>1, <1>5, <1>14 DEF Served
  <2> QED
    BY <2>1, <2>2, <1>4
<1> QED
  BY <1>8, <1>11, <1>12, <1>13, <1>14 DEF KnowledgeInv, KnowledgeStep, v

\* A version that was not there.
LEMMA AddKeeps ==
    ASSUME KnowledgeInv, NEW n \in Versions, ~Exists(n), NEW c \in Contents, NEW u \in Users,
           doc' = [doc EXCEPT ![n] = Draft(c, u)], UNCHANGED <<chunks, stale>>,
           \/ UNCHANGED edits
           \/ \E s \in Editors : edits' = [edits EXCEPT ![s] = NoEdit]
    PROVE  KnowledgeInv' /\ KnowledgeStep
<1>1. /\ Draft(c, u) \in Doc /\ Draft(c, u).status = "DRAFT"
      /\ Draft(c, u).content = c /\ Draft(c, u).by = u
  BY DEF Draft, Doc, Status
<1>2. /\ doc'[n] = Draft(c, u) /\ doc[n].status = "ABSENT"
      /\ \A v \in Versions \ {n} : doc'[v] = doc[v]
      /\ doc' \in [Versions -> Doc]
  BY <1>1 DEF KnowledgeInv, ServedVetted, KnowledgeTypeOK, Exists
<1>3. RowsStay
  BY <1>2 DEF RowsStay, Exists
<1>4. edits' \in [Editors -> Edit] /\ \A r \in Editors : ReadBy(edits[r])'
  <2>1. CASE UNCHANGED edits
    <3>1. ASSUME NEW r \in Editors PROVE ReadBy(edits[r])'
      <4>1. PICK t \in Edit : t = edits[r]
        BY DEF KnowledgeInv, ServedVetted, KnowledgeTypeOK
      <4>2. ReadBy(t)'
        BY <1>3, <4>1, ReadByStays DEF KnowledgeInv, ServedVetted
      <4> QED
        BY <2>1, <4>1, <4>2 DEF ReadBy
    <3> QED
      BY <2>1, <3>1 DEF KnowledgeInv, ServedVetted, KnowledgeTypeOK
  <2>2. ASSUME NEW s \in Editors, edits' = [edits EXCEPT ![s] = NoEdit]
        PROVE  edits' \in [Editors -> Edit] /\ \A r \in Editors : ReadBy(edits[r])'
    BY <1>3, <2>2, DoneKeeps DEF KnowledgeInv, ServedVetted
  <2> QED
    BY <2>1, <2>2
<1>5. Served' = Served /\ n \notin Served
  BY <1>1, <1>2 DEF Served
<1>6. KnowledgeTypeOK'
  BY <1>2, <1>4 DEF KnowledgeInv, ServedVetted, KnowledgeTypeOK
<1>7. ServedVetted'
  <2>1. \A v \in Served : doc'[v] = doc[v]
    BY <1>2, <1>5 DEF Served
  <2> QED
    BY <2>1, <1>5, <1>6 DEF KnowledgeInv, ServedVetted
<1>8. \A v \in Versions : Written(doc[v])'
  BY <1>1, <1>2 DEF KnowledgeInv, Written
<1>9. <<"ABSENT", "DRAFT">> \in Moves
  BY DEF Moves
<1> QED
  BY <1>1, <1>2, <1>4, <1>5, <1>7, <1>8, <1>9 DEF KnowledgeInv, KnowledgeStep

\* The UPDATE that archives what is approved writes nothing before the commit.
LEMMA ApproveArchiveKeeps ==
    ASSUME KnowledgeInv, NEW s \in Editors, ApproveArchive(s)
    PROVE  KnowledgeInv' /\ KnowledgeStep
<1> DEFINE t == edits[s]
           e == [t EXCEPT !.op = "approving", !.olds = Served]
<1>1. /\ t.op = "approve" /\ edits' = [edits EXCEPT ![s] = e] /\ UNCHANGED <<doc, chunks, stale>>
      /\ edits \in [Editors -> Edit] /\ t \in Edit /\ ReadBy(t)
  BY DEF ApproveArchive, KnowledgeInv, ServedVetted, KnowledgeTypeOK
<1>2. \A v \in Served : v \in Versions /\ Exists(v)
  BY DEF Served, Exists
<1>3. /\ e \in Edit /\ e.op = "approving" /\ e.olds = Served
      /\ e.ver = t.ver /\ e.seen = t.seen /\ e.user = t.user
  <2> DEFINE f == [t EXCEPT !.op = "approving"]
  <2>1. f \in Edit /\ f.op = "approving" /\ f.ver = t.ver /\ f.seen = t.seen /\ f.user = t.user
    BY <1>1 DEF Edit
  <2>2. e = [f EXCEPT !.olds = Served]
    OBVIOUS
  <2> HIDE DEF f
  <2>3. Served \in SUBSET Versions
    BY <1>2
  <2> QED
    BY <2>1, <2>2, <2>3 DEF Edit
<1> HIDE DEF e
<1>4. ReadBy(e)
  BY <1>1, <1>2, <1>3 DEF ReadBy
<1>5. edits' \in [Editors -> Edit] /\ \A r \in Editors : ReadBy(edits'[r])
  BY <1>1, <1>3, <1>4 DEF KnowledgeInv
<1>6. \A v \in Versions : Exists(v)' <=> Exists(v)
  BY <1>1 DEF Exists
<1>7. \A r \in Editors : ReadBy(edits[r])'
  BY <1>1, <1>5 DEF ReadBy, Exists
<1>8. Served' = Served
  BY <1>1 DEF Served
<1> QED
  BY <1>1, <1>5, <1>7, <1>8
     DEF KnowledgeInv, KnowledgeStep, ServedVetted, KnowledgeTypeOK, Written

\* A request that writes nothing.
LEMMA EndsKeep ==
    ASSUME KnowledgeInv, NEW s \in Editors, edits' = [edits EXCEPT ![s] = NoEdit],
           UNCHANGED <<doc, chunks, stale>>
    PROVE  KnowledgeInv' /\ KnowledgeStep
<1>1. RowsStay /\ Served' = Served
  BY DEF RowsStay, Exists, Served
<1>2. edits' \in [Editors -> Edit] /\ \A r \in Editors : ReadBy(edits[r])'
  BY <1>1, DoneKeeps DEF KnowledgeInv, ServedVetted
<1> QED
  BY <1>1, <1>2 DEF KnowledgeInv, KnowledgeStep, ServedVetted, KnowledgeTypeOK, Written

\* The commit of an approval: the row and its chunks are of what its approver was shown.
LEMMA ApproveCommitKeeps ==
    ASSUME KnowledgeInv, NEW s \in Editors, ApproveCommit(s)
    PROVE  KnowledgeInv' /\ KnowledgeStep
<1> DEFINE t == edits[s]
           v == t.ver
           new == [doc[v] EXCEPT !.status = "APPROVED", !.approver = t.user]
           old(w) == [doc[w] EXCEPT !.status = "ARCHIVED"]
<1>1. /\ t.op = "approving" /\ doc' = Approved(t) /\ OneApproved(doc')
      /\ chunks' = [chunks EXCEPT ![v] = t.seen.content]
      /\ stale' = IF Seen(v) = t.seen THEN stale ELSE stale \cup {v}
      /\ edits' = [edits EXCEPT ![s] = NoEdit]
  BY DEF ApproveCommit
<1>2. /\ v \in Versions /\ Exists(v) /\ t.seen.content \in Contents
      /\ t.seen.status = "PENDING_APPROVAL" /\ t.user \in Users
      /\ Distinct => doc[v].by # t.user
      /\ \A w \in t.olds : Exists(w)
  BY <1>1 DEF KnowledgeInv, ReadBy
<1>3. /\ doc \in [Versions -> Doc] /\ chunks \in [Versions -> Contents \cup {Nil}]
      /\ edits \in [Editors -> Edit] /\ stale \subseteq Versions
  BY DEF KnowledgeInv, ServedVetted, KnowledgeTypeOK
<1>4. /\ new \in Doc /\ new.status = "APPROVED" /\ new.approver = t.user
      /\ new.content = doc[v].content /\ new.by = doc[v].by
  <2> DEFINE d == doc[v]
             d1 == [d EXCEPT !.status = "APPROVED"]
  <2>1. d \in Doc /\ t.user \in Users \cup {Nil}
    BY <1>2, <1>3
  <2> HIDE DEF d
  <2>2. d1 \in Doc /\ d1.status = "APPROVED" /\ d1.content = d.content /\ d1.by = d.by
    BY <2>1 DEF Doc, Status
  <2>3. new = [d1 EXCEPT !.approver = t.user]
    BY DEF d
  <2> HIDE DEF d1
  <2>4. /\ new \in Doc /\ new.status = "APPROVED" /\ new.approver = t.user
        /\ new.content = d.content /\ new.by = d.by
    BY <2>1, <2>2, <2>3 DEF Doc
  <2> QED
    BY <2>4 DEF d
<1>5. doc' = [w \in Versions |-> IF w = v THEN new ELSE IF w \in t.olds THEN old(w) ELSE doc[w]]
  BY <1>1 DEF Approved
<1> HIDE DEF new, old
<1>6. doc'[v] = new
  BY <1>2, <1>5
<1>7. ASSUME NEW w \in Versions, w \in t.olds, w # v
      PROVE  /\ doc'[w] \in Doc /\ doc'[w].status = "ARCHIVED"
             /\ doc'[w].content = doc[w].content /\ doc'[w].by = doc[w].by
  <2>1. doc'[w] = old(w)
    BY <1>5, <1>7
  <2>2. doc[w] \in Doc
    BY <1>3
  <2> QED
    BY <2>1, <2>2 DEF Doc, Status, old
<1>8. ASSUME NEW w \in Versions, w \notin t.olds, w # v PROVE doc'[w] = doc[w]
  BY <1>5, <1>8
<1>9. doc' \in [Versions -> Doc]
  <2>1. doc' = [w \in Versions |-> doc'[w]]
    BY <1>5
  <2>2. \A w \in Versions : doc'[w] \in Doc
    BY <1>3, <1>4, <1>6, <1>7, <1>8
  <2> QED
    BY <2>1, <2>2
<1>10. /\ chunks' \in [Versions -> Contents \cup {Nil}] /\ chunks'[v] = t.seen.content
       /\ \A w \in Versions \ {v} : chunks'[w] = chunks[w]
       /\ stale \subseteq stale' /\ stale' \subseteq Versions
       /\ v \in stale' \/ Seen(v) = t.seen
  BY <1>1, <1>2, <1>3
<1>11. Seen(v).status = doc[v].status /\ Seen(v).content = doc[v].content
  BY DEF Seen
<1> HIDE DEF t, v
<1>12. RowsStay
  BY <1>2, <1>3, <1>4, <1>6, <1>7, <1>8 DEF RowsStay, Exists
<1>13. edits' \in [Editors -> Edit] /\ \A r \in Editors : ReadBy(edits[r])'
  BY <1>1, <1>12, DoneKeeps DEF KnowledgeInv, ServedVetted
<1>14. KnowledgeTypeOK'
  BY <1>9, <1>10, <1>13 DEF KnowledgeTypeOK
<1>15. \A w \in Versions : Written(doc[w])'
  BY <1>2, <1>4, <1>6, <1>7, <1>8 DEF KnowledgeInv, Written, Exists
<1>16. v \in Served' /\ \A w \in Served' : w = v \/ (w \in Served /\ w \notin t.olds)
  BY <1>2, <1>4, <1>6, <1>7, <1>8 DEF Served
<1>17. ServedVetted'
  <2>1. Cardinality(Served') <= 1
    BY <1>1 DEF OneApproved, Served
  <2>2. ASSUME NEW w \in Served'
        PROVE  /\ chunks'[w] \in Contents
               /\ doc'[w].approver # Nil /\ (Distinct => doc'[w].approver # doc'[w].by)
               /\ w \notin stale' => doc'[w].content = chunks'[w]
    <3>1. CASE w = v
      BY <3>1, <1>2, <1>4, <1>6, <1>10, <1>11, KnowledgeAssumption
    <3>2. CASE w # v
      <4>1. w \in Served /\ w \in Versions /\ doc'[w] = doc[w] /\ chunks'[w] = chunks[w]
        BY <3>2, <1>8, <1>10, <1>16 DEF Served
      <4> QED
        BY <4>1, <1>10 DEF KnowledgeInv, ServedVetted
    <3> QED
      BY <3>1, <3>2
  <2> QED
    BY <2>1, <2>2, <1>14 DEF ServedVetted
<1>18. ASSUME NEW w \in Versions \ stale'
       PROVE  /\ doc'[w].status = doc[w].status \/ <<doc[w].status, doc'[w].status>> \in Moves
              /\ doc[w].status \in {"APPROVED", "ARCHIVED"} => doc'[w].content = doc[w].content
  <2>1. CASE w = v
    <3>1. doc[v].status = "PENDING_APPROVAL"
      BY <2>1, <1>2, <1>10, <1>11
    <3>2. <<"PENDING_APPROVAL", "APPROVED">> \in Moves
      BY DEF Moves
    <3> QED
      BY <2>1, <3>1, <3>2, <1>4, <1>6
  <2>2. CASE w # v /\ w \in t.olds
    <3>1. doc[w].status \in Status \ {"ABSENT"}
      BY <2>2, <1>2, <1>3 DEF Exists, Doc
    <3> QED
      BY <2>2, <3>1, <1>7 DEF Moves
  <2>3. CASE w # v /\ w \notin t.olds
    BY <2>3, <1>8
  <2> QED
    BY <2>1, <2>2, <2>3
<1> QED
  BY <1>13, <1>15, <1>16, <1>17, <1>18 DEF KnowledgeInv, KnowledgeStep

LEMMA KnowledgeCommits ==
    ASSUME KnowledgeInv, NEW s \in Editors,
           EditCommit(s) \/ SubmitCommit(s) \/ ArchiveCommit(s)
    PROVE  KnowledgeInv' /\ KnowledgeStep
<1> DEFINE t == edits[s]
           p == doc[t.ver]
<1>1. t.op # "idle"
  BY DEF EditCommit, SubmitCommit, ArchiveCommit
<1>2. /\ t.ver \in Versions /\ p \in Doc /\ p.status \in Status \ {"ABSENT"}
      /\ p.content \in Contents /\ p.by \in Users
      /\ Seen(t.ver).status = p.status
  BY <1>1, SeenForms DEF KnowledgeInv, ReadBy
<1>3. ASSUME NEW st \in Status, NEW c \in Contents
      PROVE  /\ [p EXCEPT !.status = st, !.content = c] \in Doc
             /\ [p EXCEPT !.status = st, !.content = c].status = st
             /\ [p EXCEPT !.status = st, !.content = c].content = c
             /\ [p EXCEPT !.status = st, !.content = c].by = p.by
             /\ [p EXCEPT !.status = st, !.content = c].approver = p.approver
  <2> DEFINE d == [p EXCEPT !.status = st]
  <2>1. /\ d \in Doc /\ d.status = st /\ d.by = p.by /\ d.approver = p.approver
    BY <1>2 DEF Doc
  <2>2. [p EXCEPT !.status = st, !.content = c] = [d EXCEPT !.content = c]
    OBVIOUS
  <2> HIDE DEF d
  <2> QED
    BY <2>1, <2>2 DEF Doc
<1>4. \A st \in Status : [p EXCEPT !.status = st] = [p EXCEPT !.status = st, !.content = p.content]
  BY <1>2 DEF Doc
<1> HIDE DEF p
<1>5. CASE EditCommit(s)
  <2>1. PICK st \in Status, c \in Contents :
          /\ Commit(s, [p EXCEPT !.status = st, !.content = c])
          /\ st = IF t.seen.status = "PENDING_APPROVAL" THEN "DRAFT" ELSE p.status
    <3>1. t.op = "edit" /\ t.new \in Contents
      BY <1>5 DEF EditCommit, KnowledgeInv, ReadBy
    <3>2. "DRAFT" \in Status /\ p.status \in Status
      BY <1>2 DEF Status
    <3> QED
      BY <1>2, <1>5, <3>1, <3>2 DEF EditCommit, p
  <2>2. t.seen.status \in {"DRAFT", "PENDING_APPROVAL"} /\ UNCHANGED chunks
    BY <1>5 DEF EditCommit, KnowledgeInv, ReadBy
  <2>3. Seen(t.ver) = t.seen => p.status = t.seen.status
    BY <1>2
  <2>4. <<"PENDING_APPROVAL", "DRAFT">> \in Moves
    BY DEF Moves
  <2> DEFINE d == [p EXCEPT !.status = st, !.content = c]
  <2>5. /\ d \in Doc /\ d.status = st /\ d.content = c /\ d.by = p.by /\ d.approver = p.approver
        /\ Commit(s, d)
    BY <1>3, <2>1, ZenonT(30)
  <2> HIDE DEF d
  <2>6. st # "ABSENT" /\ (st = "APPROVED" => p.status = "APPROVED")
    BY <1>2, <2>1
  <2>7. Seen(t.ver) = t.seen =>
          /\ st = p.status \/ <<p.status, st>> \in Moves
          /\ p.status \notin {"APPROVED", "ARCHIVED"}
    BY <2>1, <2>2, <2>3, <2>4
  <2>8. Along(s, d)
    BY <1>2, <2>5, <2>6, <2>7 DEF Along, Written, p
  <2> QED
    BY <1>1, <2>2, <2>5, <2>8, CommitKeeps
<1>6. CASE SubmitCommit(s)
  <2> DEFINE d == [p EXCEPT !.status = "PENDING_APPROVAL"]
  <2>1. Commit(s, d) /\ UNCHANGED chunks /\ t.seen.status = "DRAFT"
    BY <1>6 DEF SubmitCommit, KnowledgeInv, ReadBy, p
  <2>2. /\ d \in Doc /\ d.status = "PENDING_APPROVAL" /\ d.content = p.content /\ d.by = p.by
        /\ d.approver = p.approver
    BY <1>2 DEF Doc, Status
  <2> HIDE DEF d
  <2>3. Seen(t.ver) = t.seen => p.status = "DRAFT"
    BY <1>2, <2>1
  <2>4. <<"DRAFT", "PENDING_APPROVAL">> \in Moves
    BY DEF Moves
  <2>5. Along(s, d)
    BY <1>2, <2>2, <2>3, <2>4 DEF Along, Written, p
  <2> QED
    BY <1>1, <2>1, <2>5, CommitKeeps
<1>7. CASE ArchiveCommit(s)
  <2> DEFINE d == [p EXCEPT !.status = "ARCHIVED"]
  <2>1. UNCHANGED chunks /\ t.op = "archive"
    BY <1>7 DEF ArchiveCommit
  <2>2. CASE Commit(s, d)
    <3>1. /\ d \in Doc /\ d.status = "ARCHIVED" /\ d.content = p.content /\ d.by = p.by
          /\ d.approver = p.approver
      BY <1>2 DEF Doc, Status
    <3> HIDE DEF d
    <3>2. <<p.status, "ARCHIVED">> \in Moves
      BY <1>2 DEF Moves
    <3>3. Along(s, d)
      BY <1>2, <2>1, <3>1, <3>2 DEF Along, Written, p
    <3> QED
      BY <1>1, <2>1, <2>2, <3>3, CommitKeeps
  <2>3. CASE edits' = [edits EXCEPT ![s] = NoEdit] /\ UNCHANGED <<doc, stale>>
    BY <2>1, <2>3, EndsKeep
  <2> QED
    BY <1>7, <2>2, <2>3 DEF ArchiveCommit, p
<1> QED
  BY <1>5, <1>6, <1>7

LEMMA KnowledgeStepKeeps ==
    ASSUME KnowledgeInv, KnowledgeNext
    PROVE  KnowledgeInv' /\ KnowledgeStep
<1>1. ASSUME NEW c \in Contents, NEW u \in Users, Create(c, u)
      PROVE  KnowledgeInv' /\ KnowledgeStep
  <2>1. 1 \in Versions
    BY KnowledgeAssumption DEF Versions
  <2> QED
    BY <1>1, <2>1, AddKeeps DEF Create
<1>2. ASSUME NEW s \in Editors, NEW v \in Versions, NEW c \in Contents, EditRead(s, v, c)
      PROVE  KnowledgeInv' /\ KnowledgeStep
  <2>1. PICK u \in Users : TRUE
    BY <1>2, SeenForms DEF EditRead, BeginEdit
  <2> QED
    BY <1>2, ReadsKeep
<1>3. ASSUME NEW s \in Editors, NEW v \in Versions, NEW c \in Contents, NEW u \in Users,
             AddRead(s, v, c, u)
      PROVE  KnowledgeInv' /\ KnowledgeStep
  BY <1>3, ReadsKeep
<1>4. ASSUME NEW s \in Editors, NEW v \in Versions, NEW u \in Users,
             ApproveRead(s, v, u) \/ SubmitRead(s, v) \/ ArchiveRead(s, v)
      PROVE  KnowledgeInv' /\ KnowledgeStep
  <2>1. PICK c \in Contents : TRUE
    BY <1>4, SeenForms DEF ApproveRead, SubmitRead, ArchiveRead, BeginEdit
  <2> QED
    BY <1>4, ReadsKeep
<1>5. ASSUME NEW s \in Editors, NEW v \in Versions, SubmitRead(s, v) \/ ArchiveRead(s, v)
      PROVE  KnowledgeInv' /\ KnowledgeStep
  <2>1. PICK u \in Users : TRUE
    BY <1>5, SeenForms DEF SubmitRead, ArchiveRead, BeginEdit
  <2> QED
    BY <1>4, <1>5
<1>6. ASSUME NEW s \in Editors, EditCommit(s) \/ SubmitCommit(s) \/ ArchiveCommit(s)
      PROVE  KnowledgeInv' /\ KnowledgeStep
  BY <1>6, KnowledgeCommits
<1>7. ASSUME NEW s \in Editors, AddVersion(s)
      PROVE  KnowledgeInv' /\ KnowledgeStep
  <2>1. /\ edits[s].op = "edit" /\ edits[s].next \in Versions /\ ~Exists(edits[s].next)
        /\ edits[s].next # 0
    BY <1>7, KnowledgeAssumption DEF AddVersion, Versions
  <2>2. edits[s].new \in Contents /\ edits[s].user \in Users
    BY <2>1 DEF KnowledgeInv, ReadBy
  <2> QED
    BY <1>7, <2>1, <2>2, AddKeeps DEF AddVersion
<1>8. ASSUME NEW s \in Editors, ApproveArchive(s)
      PROVE  KnowledgeInv' /\ KnowledgeStep
  BY <1>8, ApproveArchiveKeeps
<1>9. ASSUME NEW s \in Editors, ApproveCommit(s)
      PROVE  KnowledgeInv' /\ KnowledgeStep
  BY <1>9, ApproveCommitKeeps
<1>10. ASSUME NEW s \in Editors, AbortEdit(s)
       PROVE  KnowledgeInv' /\ KnowledgeStep
  BY <1>10, EndsKeep DEF AbortEdit
<1> QED
  BY <1>1, <1>2, <1>3, <1>4, <1>5, <1>6, <1>7, <1>8, <1>9, <1>10 DEF KnowledgeNext

\* What is served was approved, by another than its author, as it is served; what is approved is
\* not changed, and a lineage that is served goes on being served.
THEOREM KnowledgeKeptHolds == KnowledgeSpec => KnowledgeKept
<1>1. KnowledgeInit => KnowledgeInv
  <2> SUFFICES ASSUME KnowledgeInit PROVE KnowledgeInv
    OBVIOUS
  <2>1. NoDoc \in Doc /\ NoDoc.status = "ABSENT"
    BY DEF NoDoc, Doc, Status
  <2>2. KnowledgeTypeOK
    BY <2>1, NoEditForms DEF KnowledgeInit, KnowledgeTypeOK
  <2>3. Served = {}
    BY <2>1 DEF KnowledgeInit, Served
  <2>4. Cardinality(Served) <= 1
    BY <2>3, FS_EmptySet
  <2> QED
    BY <2>1, <2>2, <2>3, <2>4, NoEditForms DEF KnowledgeInit, KnowledgeInv, ServedVetted, Written
<1>2. KnowledgeInv /\ UNCHANGED knowledgeVars => KnowledgeInv'
  BY DEF knowledgeVars, KnowledgeInv, ServedVetted, KnowledgeTypeOK, Served, ReadBy, Exists, Written
<1>3. KnowledgeInv /\ [KnowledgeNext]_knowledgeVars => KnowledgeInv' /\ [KnowledgeStep]_knowledgeVars
  BY <1>2, KnowledgeStepKeeps
<1> QED
  BY <1>1, <1>3, PTL DEF KnowledgeSpec, KnowledgeKept

-----------------------------------------------------------------------------
(* The audit trail *)

(***************************************************************************)
(* The chain is continued by whoever holds the tenant's lock: what it has  *)
(* read under it is the end of the log as long as it holds it (Tip).  A    *)
(* committed append says where its row is (Placed), so an answer is that   *)
(* of a row that is there; and an event of which no attempt was given up   *)
(* has only its first attempt, which has stored nothing yet (Single).      *)
(***************************************************************************)
Pairs == Events \X Tries

LogRow(H) == [seq : Nat, event : Events, prev_hash : H, entry_hash : H]

Appending(H) == [pc : {"none", "open", "locked", "committed"}, seq : Nat, prev : H]

TrailTyped ==
    /\ \E H : Genesis \in H /\ log \in Seq(LogRow(H)) /\ append \in [Pairs -> Appending(H)]
    /\ handler \in [Events -> Handler]
    /\ queue \in Seq(Nat) /\ Len(queue) <= QueueSize
    /\ doubtful \subseteq Events

TipHash == IF log = <<>> THEN Genesis ELSE log[Len(log)].entry_hash

Tip ==
    \A x \in Pairs : append[x].pc = "locked" =>
        /\ append[x].seq = Len(log) + 1 /\ append[x].prev = TipHash
        /\ \A y \in Pairs : append[y].pc = "locked" => y = x

Placed ==
    \A x \in Pairs : append[x].pc = "committed" =>
        append[x].seq \in DOMAIN log /\ log[append[x].seq].event = x[1]

InTrail(e) == \E i \in DOMAIN log : log[i].event = e

Told(e) == handler[e].pc = "recorded" \/ handler[e].answer = "created" => InTrail(e)

Started(e) ==
    InTrail(e) \/ (\E n \in Tries : append[<<e, n>>].pc # "none") => handler[e].pc \notin {"new", "changed"}

Single(e) ==
    e \notin doubtful =>
        /\ \A n \in Tries : append[<<e, n>>].pc # "none" => n = 1
        /\ \A n \in Tries : append[<<e, n>>].pc \in {"open", "locked"} => ~InTrail(e)
        /\ \A i, j \in DOMAIN log : log[i].event = e /\ log[j].event = e => i = j

PassedOn == forwarded \cup {queue[k] : k \in DOMAIN queue} \subseteq DOMAIN log

TrailInv ==
    /\ TrailTyped /\ verify_rows(log) /\ Tip /\ Placed /\ PassedOn
    /\ \A e \in Events : Told(e) /\ Started(e) /\ Single(e)

\* What verify_rows says of a row.
LEMMA RowsVerified ==
    ASSUME NEW rows, verify_rows(rows), NEW i \in DOMAIN rows
    PROVE  /\ rows[i].seq = i
           /\ rows[i].entry_hash
                = entry_hash(IF i = 1 THEN Genesis ELSE rows[i - 1].entry_hash, i, rows[i].event)
BY DEF verify_rows

\* A row that is missing, moved or changed is found.
LEMMA TamperingShows ==
    ASSUME TrailTyped, verify_rows(log), NEW i \in DOMAIN log
    PROVE  /\ verify_rows(Without(i)) => i = Len(log)
           /\ \A j \in DOMAIN log : verify_rows(Swapped(i, j)) => i = j
           /\ \A e \in Events : verify_rows([log EXCEPT ![i].event = e]) => e = log[i].event
<1>1. PICK H : Genesis \in H /\ log \in Seq(LogRow(H))
  BY DEF TrailTyped
<1>2. /\ DOMAIN log = 1 .. Len(log) /\ Len(log) \in Nat /\ i \in 1 .. Len(log)
      /\ \A k \in 1 .. Len(log) : log[k] \in LogRow(H)
  BY <1>1
<1>3. ASSUME verify_rows(Without(i)), i # Len(log) PROVE FALSE
  <2> DEFINE a == SubSeq(log, 1, i - 1)
             b == SubSeq(log, i + 1, Len(log))
             S == LogRow(H)
  <2>1. i \in 1 .. Len(log) - 1
    BY <1>2, <1>3
  <2>2. a \in Seq(S) /\ Len(a) = i - 1
    <3>1. \A k \in 1 .. i - 1 : log[k] \in S
      BY <1>2
    <3> HIDE DEF S
    <3>2. a \in Seq(S) /\ Len(a) = IF 1 <= i - 1 THEN i - 1 - 1 + 1 ELSE 0
      BY <3>1, <1>2, SubSeqProperties
    <3> QED
      BY <3>2, <2>1
  <2>3. b \in Seq(S) /\ Len(b) = Len(log) - i /\ b[1] = log[i + 1]
    <3>1. \A k \in i + 1 .. Len(log) : log[k] \in S
      BY <1>2
    <3> HIDE DEF S
    <3>2. /\ b \in Seq(S) /\ Len(b) = IF i + 1 <= Len(log) THEN Len(log) - (i + 1) + 1 ELSE 0
          /\ \A k \in 1 .. Len(log) - (i + 1) + 1 : b[k] = log[i + 1 + k - 1]
      BY <3>1, <1>2, SubSeqProperties
    <3>3. /\ 1 \in 1 .. Len(log) - (i + 1) + 1 /\ i + 1 + 1 - 1 = i + 1
          /\ Len(log) - (i + 1) + 1 = Len(log) - i /\ i + 1 <= Len(log)
      BY <2>1, <1>2
    <3> HIDE DEF b
    <3> QED
      BY <3>2, <3>3
  <2> HIDE DEF a, b, S
  <2>4. i \in DOMAIN Without(i) /\ Without(i)[i] = b[1]
    <3>1. Without(i) = a \o b
      BY DEF Without, a, b
    <3>2. /\ Len(a \o b) = Len(a) + Len(b) /\ a \o b \in Seq(S)
          /\ \A k \in 1 .. Len(a) + Len(b) : (a \o b)[k] = IF k <= Len(a) THEN a[k] ELSE b[k - Len(a)]
      BY <2>2, <2>3, ConcatProperties
    <3>3. i \in 1 .. Len(a) + Len(b) /\ ~(i <= Len(a)) /\ i - Len(a) = 1
      BY <1>2, <2>1, <2>2, <2>3
    <3> QED
      BY <3>1, <3>2, <3>3
  <2>5. b[1].seq = i
    BY <1>3, <2>4, RowsVerified
  <2>6. i + 1 \in DOMAIN log
    BY <1>2, <2>1
  <2>7. log[i + 1].seq = i + 1
    BY <2>6, RowsVerified
  <2> QED
    BY <2>3, <2>5, <2>7, <1>2
<1>4. ASSUME NEW j \in DOMAIN log, verify_rows(Swapped(i, j)) PROVE i = j
  <2>1. Swapped(i, j)[j] = log[i] /\ j \in DOMAIN Swapped(i, j)
    BY DEF Swapped
  <2> QED
    BY <2>1, <1>4, RowsVerified
<1>5. ASSUME NEW e \in Events, verify_rows([log EXCEPT ![i].event = e]) PROVE e = log[i].event
  <2> DEFINE rows == [log EXCEPT ![i].event = e]
             prev == IF i = 1 THEN Genesis ELSE log[i - 1].entry_hash
  <2>1. /\ i \in DOMAIN rows /\ rows[i].event = e /\ rows[i].entry_hash = log[i].entry_hash
        /\ i # 1 => rows[i - 1] = log[i - 1]
    BY <1>2 DEF LogRow
  <2>2. verify_rows(rows)
    BY <1>5
  <2> HIDE DEF rows
  <2>3. rows[i].entry_hash = entry_hash(prev, i, e)
    BY <2>1, <2>2, RowsVerified
  <2>4. log[i].entry_hash = entry_hash(prev, i, log[i].event)
    BY RowsVerified
  <2> HIDE DEF prev
  <2>5. <<prev, i, e>> = <<prev, i, log[i].event>>
    BY <2>1, <2>3, <2>4 DEF entry_hash
  <2> QED
    BY <2>5
<1> QED
  BY <1>3, <1>4, <1>5

\* While the log stays, and no transaction takes the lock or commits.
LEMMA LogStays ==
    ASSUME TrailInv, UNCHANGED log,
           \A x \in Pairs : append'[x].pc \in {"locked", "committed"} => append'[x] = append[x]
    PROVE  /\ verify_rows(log)' /\ Tip' /\ Placed'
           /\ \A e \in Events : InTrail(e)' <=> InTrail(e)
<1>1. verify_rows(log)'
  BY DEF TrailInv
<1>2. Tip'
  BY DEF TrailInv, Tip, TipHash
<1>3. Placed'
  BY DEF TrailInv, Placed
<1>4. \A e \in Events : InTrail(e)' <=> InTrail(e)
  BY DEF InTrail
<1> QED
  BY <1>1, <1>2, <1>3, <1>4

\* What is known of one pair.
LEMMA PairForms ==
    ASSUME TrailTyped, NEW e \in Events, NEW n \in Tries
    PROVE  /\ <<e, n>> \in Pairs /\ <<e, n>>[1] = e
           /\ append[<<e, n>>].pc \in {"none", "open", "locked", "committed"}
           /\ append[<<e, n>>].seq \in Nat
           /\ handler[e] \in Handler
BY DEF TrailTyped, Pairs, Appending

\* A handler goes on, and nothing else does.
LEMMA HandlerKeeps ==
    ASSUME TrailInv, NEW e \in Events, NEW h \in Handler, handler' = [handler EXCEPT ![e] = h],
           UNCHANGED <<log, append, queue, forwarded>>,
           doubtful' = doubtful \/ doubtful' = doubtful \cup {e},
           h.pc = "recorded" => handler[e].answer = "created",
           h.answer = "created" => handler[e].answer = "created",
           h.pc \in {"new", "changed"} => handler[e].pc \in {"new", "changed"}
    PROVE  TrailInv'
<1>1. handler \in [Events -> Handler] /\ doubtful \subseteq Events
  BY DEF TrailInv, TrailTyped
<1>2. /\ handler' \in [Events -> Handler] /\ handler'[e] = h
      /\ \A f \in Events \ {e} : handler'[f] = handler[f]
  BY <1>1
<1>3. TrailTyped'
  BY <1>1, <1>2 DEF TrailInv, TrailTyped
<1>4. /\ verify_rows(log)' /\ Tip' /\ Placed'
      /\ \A f \in Events : InTrail(f)' <=> InTrail(f)
  BY LogStays
<1>5. PassedOn'
  BY DEF TrailInv, PassedOn
<1>6. \A f \in Events : Told(f)'
  BY <1>2, <1>4 DEF TrailInv, Told
<1>7. \A f \in Events : Started(f)'
  BY <1>2, <1>4 DEF TrailInv, Started
<1>8. \A f \in Events : Single(f)'
  BY <1>4 DEF TrailInv, Single
<1> QED
  BY <1>3, <1>4, <1>5, <1>6, <1>7, <1>8 DEF TrailInv

\* An attempt is sent: the first one of an event that no transaction knows of, or another one of an
\* event that is doubtful.
LEMMA SendKeeps ==
    ASSUME TrailInv, NEW e \in Events, NEW n \in Tries, SendRecord(e, n),
           UNCHANGED <<log, queue, forwarded>>,
           \/ handler[e].pc = "changed" /\ n = 1 /\ UNCHANGED doubtful
           \/ doubtful' = doubtful \cup {e}
    PROVE  TrailInv'
<1> DEFINE h == [pc |-> "sending", try |-> n, answer |-> "none"]
<1>1. PICK pc \in {"open", "none"} :
        /\ handler' = [handler EXCEPT ![e] = h]
        /\ append' = [append EXCEPT ![<<e, n>>].pc = pc]
  BY DEF SendRecord
<1>2. PICK H : Genesis \in H /\ log \in Seq(LogRow(H)) /\ append \in [Pairs -> Appending(H)]
  BY DEF TrailInv, TrailTyped
<1>3. <<e, n>> \in Pairs
  BY PairForms DEF TrailInv
<1>4. h \in Handler /\ h.pc = "sending" /\ h.answer = "none"
  BY AuditAssumption DEF Handler, Tries
<1> HIDE DEF h
<1>5. /\ handler' \in [Events -> Handler] /\ handler'[e] = h
      /\ \A f \in Events \ {e} : handler'[f] = handler[f]
  BY <1>1, <1>4 DEF TrailInv, TrailTyped
<1>6. /\ append' \in [Pairs -> Appending(H)] /\ append'[<<e, n>>].pc = pc
      /\ \A x \in Pairs \ {<<e, n>>} : append'[x] = append[x]
  BY <1>1, <1>2, <1>3 DEF Appending
<1>7. TrailTyped'
  BY <1>2, <1>5, <1>6 DEF TrailInv, TrailTyped
<1>8. /\ verify_rows(log)' /\ Tip' /\ Placed'
      /\ \A f \in Events : InTrail(f)' <=> InTrail(f)
  BY <1>6, LogStays
<1>9. PassedOn'
  BY DEF TrailInv, PassedOn
<1>10. \A f \in Events : Told(f)'
  BY <1>4, <1>5, <1>8 DEF TrailInv, Told
<1>11. \A f \in Events \ {e}, m \in Tries : append'[<<f, m>>] = append[<<f, m>>]
  BY <1>6, PairForms DEF TrailInv
<1>12. \A f \in Events : Started(f)'
  BY <1>4, <1>5, <1>8, <1>11 DEF TrailInv, Started
<1>13. Single(e)'
  <2>1. CASE doubtful' = doubtful \cup {e}
    BY <2>1 DEF Single
  <2>2. CASE handler[e].pc = "changed" /\ n = 1
    <3>1. ~InTrail(e) /\ \A m \in Tries : append[<<e, m>>].pc = "none"
      BY <2>2 DEF TrailInv, Started
    <3>2. \A m \in Tries : m # n => append'[<<e, m>>].pc = "none"
      BY <3>1, <1>6, PairForms DEF TrailInv
    <3> QED
      BY <2>2, <3>1, <3>2, <1>8 DEF Single, InTrail
  <2> QED
    BY <2>1, <2>2
<1>14. \A f \in Events \ {e} : Single(f)'
  BY <1>8, <1>11 DEF TrailInv, Single
<1> QED
  BY <1>7, <1>8, <1>9, <1>10, <1>12, <1>13, <1>14 DEF TrailInv

\* The end of the log is read under the lock.
LEMMA LockKeeps ==
    ASSUME TrailInv, NEW e \in Events, NEW n \in Tries, Lock(e, n)
    PROVE  TrailInv'
<1> DEFINE a == [pc |-> "locked", seq |-> Len(log) + 1, prev |-> TipHash]
<1>1. /\ append[<<e, n>>].pc = "open" /\ Free
      /\ append' = [append EXCEPT ![<<e, n>>] = a]
      /\ UNCHANGED <<log, handler, queue, forwarded, doubtful>>
  BY DEF Lock, TipHash
<1>2. PICK H : Genesis \in H /\ log \in Seq(LogRow(H)) /\ append \in [Pairs -> Appending(H)]
  BY DEF TrailInv, TrailTyped
<1>3. <<e, n>> \in Pairs
  BY PairForms DEF TrailInv
<1>4. TipHash \in H
  <2>1. CASE log = <<>>
    BY <2>1, <1>2 DEF TipHash
  <2>2. CASE log # <<>>
    <3>1. Len(log) \in DOMAIN log /\ log[Len(log)] \in LogRow(H)
      BY <1>2, <2>2
    <3> QED
      BY <3>1, <2>2 DEF TipHash, LogRow
  <2> QED
    BY <2>1, <2>2
<1>5. a \in Appending(H) /\ a.pc = "locked" /\ a.seq = Len(log) + 1 /\ a.prev = TipHash
  BY <1>2, <1>4 DEF Appending
<1> HIDE DEF a
<1>6. /\ append' \in [Pairs -> Appending(H)] /\ append'[<<e, n>>] = a
      /\ \A x \in Pairs \ {<<e, n>>} : append'[x] = append[x]
  BY <1>1, <1>2, <1>3, <1>5
<1>7. TrailTyped'
  BY <1>1, <1>2, <1>6 DEF TrailInv, TrailTyped
<1>8. Tip'
  <2>1. \A x \in Pairs : append'[x].pc = "locked" => x = <<e, n>>
    BY <1>1, <1>6 DEF Free, Pairs
  <2>2. TipHash' = TipHash
    BY <1>1 DEF TipHash
  <2> QED
    BY <2>1, <2>2, <1>1, <1>5, <1>6 DEF Tip
<1>9. Placed'
  BY <1>1, <1>5, <1>6 DEF TrailInv, Placed
<1>10. verify_rows(log)' /\ PassedOn' /\ \A f \in Events : InTrail(f)' <=> InTrail(f)
  BY <1>1 DEF TrailInv, PassedOn, InTrail
<1>11. \A f \in Events : Told(f)'
  BY <1>1, <1>10 DEF TrailInv, Told
<1>12. \A f \in Events, m \in Tries :
         \/ append'[<<f, m>>] = append[<<f, m>>]
         \/ append[<<f, m>>].pc = "open" /\ append'[<<f, m>>].pc = "locked"
  BY <1>1, <1>5, <1>6, PairForms DEF TrailInv
<1>13. \A f \in Events : Started(f)'
  BY <1>1, <1>10, <1>12 DEF TrailInv, Started
<1>14. \A f \in Events : Single(f)'
  BY <1>1, <1>10, <1>12 DEF TrailInv, Single
<1> QED
  BY <1>7, <1>8, <1>9, <1>10, <1>11, <1>13, <1>14 DEF TrailInv

\* The row that is appended continues the chain.
LEMMA InsertKeeps ==
    ASSUME TrailInv, NEW e \in Events, NEW n \in Tries, InsertEntry(e, n)
    PROVE  TrailInv'
<1> DEFINE a == append[<<e, n>>]
           row == Entry(e, a)
           len == Len(log)
<1>1. /\ a.pc = "locked" /\ log' = Append(log, row)
      /\ append' = [append EXCEPT ![<<e, n>>].pc = "committed"]
      /\ UNCHANGED <<handler, queue, forwarded, doubtful>>
  BY DEF InsertEntry
<1>2. PICK H : Genesis \in H /\ log \in Seq(LogRow(H)) /\ append \in [Pairs -> Appending(H)]
  BY DEF TrailInv, TrailTyped
<1>3. <<e, n>> \in Pairs /\ <<e, n>>[1] = e
  BY PairForms DEF TrailInv
<1>4. a.seq = len + 1 /\ a.prev = TipHash /\ \A y \in Pairs : append[y].pc = "locked" => y = <<e, n>>
  BY <1>1, <1>3 DEF TrailInv, Tip
<1>5. len \in Nat /\ DOMAIN log = 1 .. len /\ a \in Appending(H)
  BY <1>2, <1>3
<1>6. PICK K : H \subseteq K /\ row \in LogRow(K)
  <2> DEFINE K == H \cup {row.entry_hash}
  <2>1. row \in LogRow(K)
    BY <1>5 DEF Entry, LogRow, Appending
  <2> QED
    BY <2>1
<1>7. row.seq = len + 1 /\ row.event = e /\ row.prev_hash = TipHash
      /\ row.entry_hash = entry_hash(TipHash, len + 1, e)
  BY <1>4 DEF Entry
<1> HIDE DEF row, a, len
<1>8. log \in Seq(LogRow(K)) /\ append \in [Pairs -> Appending(K)] /\ Genesis \in K
  <2>1. LogRow(H) \subseteq LogRow(K) /\ Appending(H) \subseteq Appending(K)
    BY <1>6 DEF LogRow, Appending
  <2>2. log \in Seq(LogRow(K))
    BY <2>1, <1>2, SeqMonotonic
  <2> QED
    BY <2>1, <2>2, <1>2, <1>6
<1>9. /\ log' \in Seq(LogRow(K)) /\ Len(log') = len + 1 /\ DOMAIN log' = 1 .. len + 1
      /\ log'[len + 1] = row
      /\ \A i \in 1 .. len : log'[i] = log[i]
  <2>1. /\ log' \in Seq(LogRow(K)) /\ Len(log') = Len(log) + 1
        /\ \A i \in 1 .. Len(log) : log'[i] = log[i]
        /\ log'[Len(log) + 1] = row
    BY <1>1, <1>6, <1>8, AppendProperties
  <2> QED
    BY <2>1 DEF len
<1>10. /\ append' \in [Pairs -> Appending(K)]
       /\ append'[<<e, n>>].pc = "committed" /\ append'[<<e, n>>].seq = len + 1
       /\ \A x \in Pairs \ {<<e, n>>} : append'[x] = append[x] /\ append[x].pc # "locked"
  <2>1. [a EXCEPT !.pc = "committed"] \in Appending(K)
        /\ [a EXCEPT !.pc = "committed"].pc = "committed"
        /\ [a EXCEPT !.pc = "committed"].seq = a.seq
    BY <1>3, <1>8 DEF Appending, a
  <2>2. append' = [append EXCEPT ![<<e, n>>] = [a EXCEPT !.pc = "committed"]]
    BY <1>1 DEF a
  <2> QED
    BY <2>1, <2>2, <1>3, <1>4, <1>8
<1>11. TrailTyped'
  BY <1>1, <1>8, <1>9, <1>10 DEF TrailInv, TrailTyped
<1>12. verify_rows(log)'
  <2> DEFINE before(rows, i) == IF i = 1 THEN Genesis ELSE rows[i - 1].entry_hash
  <2>1. ASSUME NEW i \in 1 .. len
        PROVE  /\ log'[i].seq = i /\ log'[i].prev_hash = before(log', i)
               /\ log'[i].entry_hash = entry_hash(before(log', i), log'[i].seq, log'[i].event)
    <3>1. before(log', i) = before(log, i) /\ log'[i] = log[i] /\ i \in DOMAIN log
      BY <1>5, <1>9, <2>1
    <3>2. /\ log[i].seq = i /\ log[i].prev_hash = before(log, i)
          /\ log[i].entry_hash = entry_hash(before(log, i), log[i].seq, log[i].event)
      BY <3>1 DEF TrailInv, verify_rows
    <3> QED
      BY <3>1, <3>2
  <2>2. before(log', len + 1) = TipHash
    <3>1. CASE log = <<>>
      <4>1. len = 0
        BY <3>1 DEF len
      <4> QED
        BY <3>1, <4>1 DEF TipHash
    <3>2. CASE log # <<>>
      <4>1. len # 0
        BY <3>2, <1>2 DEF len
      <4>2. len + 1 # 1 /\ len + 1 - 1 = len /\ len \in 1 .. len
        BY <4>1, <1>5
      <4> QED
        BY <3>2, <4>2, <1>9 DEF TipHash, len
    <3> QED
      BY <3>1, <3>2
  <2>3. \A i \in 1 .. len + 1 : i \in 1 .. len \/ i = len + 1
    BY <1>5
  <2>4. ASSUME NEW i \in 1 .. len + 1
        PROVE  /\ log'[i].seq = i /\ log'[i].prev_hash = before(log', i)
               /\ log'[i].entry_hash = entry_hash(before(log', i), log'[i].seq, log'[i].event)
    BY <2>1, <2>2, <2>3, <1>7, <1>9
  <2> QED
    BY <2>4, <1>9 DEF verify_rows
<1>13. Tip'
  BY <1>10 DEF Tip
<1>14. Placed'
  <2>1. ASSUME NEW x \in Pairs, append'[x].pc = "committed", x # <<e, n>>
        PROVE  append'[x].seq \in DOMAIN log' /\ log'[append'[x].seq].event = x[1]
    BY <2>1, <1>5, <1>9, <1>10 DEF TrailInv, Placed
  <2>2. len + 1 \in DOMAIN log' /\ log'[len + 1].event = e
    BY <1>5, <1>7, <1>9
  <2> QED
    BY <2>1, <2>2, <1>3, <1>10 DEF Placed
<1>15. PassedOn'
  BY <1>1, <1>5, <1>9 DEF TrailInv, PassedOn
<1>16. InTrail(e)' /\ \A f \in Events : f # e => (InTrail(f)' <=> InTrail(f))
  BY <1>5, <1>7, <1>9 DEF InTrail
<1>17. \A f \in Events : InTrail(f) => InTrail(f)'
  BY <1>16
<1>18. \A f \in Events : Told(f)'
  BY <1>1, <1>17 DEF TrailInv, Told
<1>19. \A f \in Events \ {e}, m \in Tries : append'[<<f, m>>] = append[<<f, m>>]
  BY <1>10, PairForms DEF TrailInv
<1>20. \A f \in Events : Started(f)'
  <2>1. Started(e)'
    BY <1>1 DEF TrailInv, Started, a
  <2>2. ASSUME NEW f \in Events \ {e} PROVE Started(f)'
    BY <1>1, <1>16, <1>19 DEF TrailInv, Started
  <2> QED
    BY <2>1, <2>2
<1>21. Single(e)'
  <2> SUFFICES ASSUME e \notin doubtful PROVE Single(e)'
    BY <1>1 DEF Single
  <2>1. ~InTrail(e) /\ n = 1 /\ \A m \in Tries : append[<<e, m>>].pc # "none" => m = 1
    BY <1>1 DEF TrailInv, Single, a
  <2>2. \A m \in Tries : append'[<<e, m>>].pc # "none" => m = 1
    BY <2>1, <1>10, PairForms DEF TrailInv
  <2>3. append'[<<e, n>>].pc \notin {"open", "locked"}
    BY <1>10
  <2>4. \A i \in DOMAIN log' : log'[i].event = e => i = len + 1
    BY <2>1, <1>5, <1>9 DEF InTrail
  <2> QED
    BY <2>1, <2>2, <2>3, <2>4 DEF Single
<1>22. ASSUME NEW f \in Events \ {e} PROVE Single(f)'
  <2>1. \A i \in DOMAIN log' : log'[i].event = f => i \in DOMAIN log /\ log[i].event = f
    BY <1>5, <1>7, <1>9
  <2> QED
    BY <2>1, <1>1, <1>16, <1>19 DEF TrailInv, Single
<1> QED
  BY <1>11, <1>12, <1>13, <1>14, <1>15, <1>18, <1>20, <1>21, <1>22 DEF TrailInv

\* A transaction ends: one that has committed is answered with what is in the trail.
LEMMA ReplyKeeps ==
    ASSUME TrailInv, NEW e \in Events, NEW n \in Tries, NEW reply \in {"created", "error"},
           Reply(e, n, reply), reply = "created" => InTrail(e),
           UNCHANGED <<log, forwarded, doubtful>>,
           queue' \in Seq(Nat), Len(queue') <= QueueSize,
           \A k \in DOMAIN queue' : queue'[k] \in DOMAIN log
    PROVE  TrailInv'
<1> DEFINE h == [handler[e] EXCEPT !.answer = reply]
<1>1. /\ append' = [append EXCEPT ![<<e, n>>] = NoAppend]
      /\ handler' = [handler EXCEPT ![e] = h] \/ handler' = handler
  BY DEF Reply
<1>2. PICK H : Genesis \in H /\ log \in Seq(LogRow(H)) /\ append \in [Pairs -> Appending(H)]
  BY DEF TrailInv, TrailTyped
<1>3. <<e, n>> \in Pairs /\ handler \in [Events -> Handler] /\ handler[e] \in Handler
  BY PairForms DEF TrailInv, TrailTyped
<1>4. h \in Handler /\ h.pc = handler[e].pc /\ h.answer = reply
  BY <1>3 DEF Handler
<1> HIDE DEF h
<1>5. NoAppend \in Appending(H) /\ NoAppend.pc = "none"
  BY <1>2 DEF NoAppend, Appending
<1>6. /\ append' \in [Pairs -> Appending(H)] /\ append'[<<e, n>>] = NoAppend
      /\ \A x \in Pairs \ {<<e, n>>} : append'[x] = append[x]
  BY <1>1, <1>2, <1>3, <1>5
<1>7. /\ handler' \in [Events -> Handler]
      /\ \A f \in Events : handler'[f].pc = handler[f].pc
      /\ \A f \in Events : \/ handler'[f].answer = handler[f].answer
                           \/ f = e /\ handler'[f].answer = reply
  BY <1>1, <1>3, <1>4
<1>8. TrailTyped'
  BY <1>2, <1>6, <1>7 DEF TrailInv, TrailTyped
<1>9. /\ verify_rows(log)' /\ Tip' /\ Placed'
      /\ \A f \in Events : InTrail(f)' <=> InTrail(f)
  BY <1>5, <1>6, LogStays
<1>10. PassedOn'
  BY DEF TrailInv, PassedOn
<1>11. \A f \in Events : Told(f)'
  BY <1>7, <1>9 DEF TrailInv, Told
<1>12. \A f \in Events, m \in Tries :
         append'[<<f, m>>] = append[<<f, m>>] \/ append'[<<f, m>>].pc = "none"
  BY <1>5, <1>6, PairForms DEF TrailInv
<1>13. \A f \in Events : Started(f)'
  BY <1>7, <1>9, <1>12 DEF TrailInv, Started
<1>14. \A f \in Events : Single(f)'
  BY <1>9, <1>12 DEF TrailInv, Single
<1> QED
  BY <1>8, <1>9, <1>10, <1>11, <1>13, <1>14 DEF TrailInv

LEMMA TrailStep == TrailInv /\ [AuditNext]_auditVars => TrailInv'
<1> SUFFICES ASSUME TrailInv, [AuditNext]_auditVars PROVE TrailInv'
  OBVIOUS
<1>1. /\ queue \in Seq(Nat) /\ Len(queue) <= QueueSize
      /\ \A k \in DOMAIN queue : queue[k] \in DOMAIN log
  BY DEF TrailInv, TrailTyped, PassedOn
<1>2. CASE UNCHANGED auditVars
  <2>1. UNCHANGED <<log, handler, append, queue, forwarded, doubtful>>
    BY <1>2 DEF auditVars
  <2>2. /\ verify_rows(log)' /\ Tip' /\ Placed'
        /\ \A f \in Events : InTrail(f)' <=> InTrail(f)
    BY <2>1, LogStays
  <2>3. \A f \in Events : Told(f)' /\ Started(f)' /\ Single(f)'
    BY <2>1, <2>2 DEF TrailInv, Told, Started, Single
  <2> QED
    BY <2>1, <2>2, <2>3 DEF TrailInv, TrailTyped, PassedOn
<1>3. ASSUME NEW e \in Events, NEW pc \in {"changed", "cut", "recorded", "raised"},
             handler' = [handler EXCEPT ![e].pc = pc],
             UNCHANGED <<log, append, queue, forwarded>>,
             doubtful' = doubtful \/ doubtful' = doubtful \cup {e},
             pc = "recorded" => handler[e].answer = "created",
             pc = "changed" => handler[e].pc = "new"
      PROVE  TrailInv'
  <2> DEFINE h == [handler[e] EXCEPT !.pc = pc]
  <2>1. handler[e] \in Handler /\ handler' = [handler EXCEPT ![e] = h]
    BY <1>3 DEF TrailInv, TrailTyped
  <2>2. h \in Handler /\ h.pc = pc /\ h.answer = handler[e].answer
    BY <2>1 DEF Handler
  <2> HIDE DEF h
  <2> QED
    BY <1>3, <2>1, <2>2, HandlerKeeps
<1>4. ASSUME NEW e \in Events, Change(e) \/ HandlerStops(e) \/ Acknowledged(e) PROVE TrailInv'
  BY <1>3, <1>4 DEF Change, HandlerStops, Acknowledged, Accepted
<1>5. ASSUME NEW e \in Events, Record(e) PROVE TrailInv'
  <2>1. 1 \in Tries
    BY AuditAssumption DEF Tries
  <2> QED
    BY <1>5, <2>1, SendKeeps DEF Record
<1>6. ASSUME NEW e \in Events, Retry(e) PROVE TrailInv'
  <2>1. CASE handler[e].try < Attempts /\ SendRecord(e, handler[e].try + 1)
    <3>1. handler[e].try + 1 \in Tries
      BY <2>1, AuditAssumption DEF TrailInv, TrailTyped, Handler, Tries
    <3> QED
      BY <1>6, <2>1, <3>1, SendKeeps DEF Retry
  <2>2. CASE handler' = [handler EXCEPT ![e].pc = "raised"] /\ UNCHANGED append
    BY <1>3, <1>6, <2>2 DEF Retry
  <2> QED
    BY <1>6, <2>1, <2>2 DEF Retry
<1>7. ASSUME NEW e \in Events, NEW n \in Tries, Lock(e, n) \/ InsertEntry(e, n) PROVE TrailInv'
  BY <1>7, LockKeeps, InsertKeeps
<1>8. ASSUME NEW e \in Events, NEW n \in Tries, AppendFails(e, n) PROVE TrailInv'
  <2>1. Reply(e, n, "error") /\ UNCHANGED <<log, queue, forwarded, doubtful>>
    BY <1>8 DEF AppendFails
  <2> QED
    BY <1>1, <2>1, ReplyKeeps
<1>9. ASSUME NEW e \in Events, NEW n \in Tries, Submit(e, n) PROVE TrailInv'
  <2> DEFINE seq == append[<<e, n>>].seq
  <2>1. /\ append[<<e, n>>].pc = "committed" /\ Reply(e, n, "created")
        /\ queue' = IF Len(queue) < QueueSize THEN Append(queue, seq) ELSE queue
        /\ UNCHANGED <<log, forwarded, doubtful>>
    BY <1>9 DEF Submit
  <2>2. seq \in Nat /\ seq \in DOMAIN log /\ InTrail(e)
    BY <2>1, PairForms DEF TrailInv, Placed, InTrail
  <2> HIDE DEF seq
  <2>3. CASE Len(queue) < QueueSize
    <3>1. /\ queue' \in Seq(Nat) /\ Len(queue') = Len(queue) + 1
          /\ \A k \in 1 .. Len(queue) : queue'[k] = queue[k]
          /\ queue'[Len(queue) + 1] = seq
      BY <1>1, <2>1, <2>2, <2>3, AppendProperties
    <3>2. Len(queue') <= QueueSize
      BY <3>1, <1>1, <2>3, AuditAssumption
    <3>3. ASSUME NEW k \in DOMAIN queue' PROVE queue'[k] \in DOMAIN log
      <4>1. DOMAIN queue = 1 .. Len(queue) /\ k \in 1 .. Len(queue) + 1 /\ Len(queue) \in Nat
        BY <3>1, <3>3, <1>1
      <4>2. k \in 1 .. Len(queue) \/ k = Len(queue) + 1
        BY <4>1
      <4> QED
        BY <3>1, <4>1, <4>2, <1>1, <2>2
    <3> QED
      BY <3>1, <3>2, <3>3, <2>1, <2>2, ReplyKeeps
  <2>4. CASE ~(Len(queue) < QueueSize)
    BY <1>1, <2>1, <2>2, <2>4, ReplyKeeps
  <2> QED
    BY <2>3, <2>4
<1>10. CASE Forward
  <2>1. /\ queue # <<>> /\ queue' = Tail(queue)
        /\ forwarded' \in {forwarded, forwarded \cup {Head(queue)}}
        /\ UNCHANGED <<log, handler, append, doubtful>>
    BY <1>10 DEF Forward
  <2>2. /\ queue' \in Seq(Nat) /\ Len(queue') = Len(queue) - 1 /\ Head(queue) = queue[1]
        /\ \A k \in 1 .. Len(queue') : queue'[k] = queue[k + 1]
    BY <1>1, <2>1, HeadTailProperties
  <2>3. /\ Len(queue') <= QueueSize /\ 1 \in DOMAIN queue
        /\ \A k \in DOMAIN queue' : k + 1 \in DOMAIN queue
    BY <1>1, <2>1, <2>2, AuditAssumption
  <2>4. PassedOn'
    BY <2>1, <2>2, <2>3 DEF TrailInv, PassedOn
  <2>5. TrailTyped'
    BY <2>1, <2>2, <2>3 DEF TrailInv, TrailTyped
  <2>6. /\ verify_rows(log)' /\ Tip' /\ Placed'
        /\ \A f \in Events : InTrail(f)' <=> InTrail(f)
    BY <2>1, LogStays
  <2>7. \A f \in Events : Told(f)' /\ Started(f)' /\ Single(f)'
    BY <2>1, <2>6 DEF TrailInv, Told, Started, Single
  <2> QED
    BY <2>4, <2>5, <2>6, <2>7 DEF TrailInv
<1>11. CASE AuditCrash
  <2>1. /\ append' = [x \in Pairs |-> NoAppend] /\ queue' = <<>>
        /\ UNCHANGED <<log, handler, forwarded, doubtful>>
    BY <1>11 DEF AuditCrash, Pairs
  <2>2. PICK H : Genesis \in H /\ log \in Seq(LogRow(H)) /\ append \in [Pairs -> Appending(H)]
    BY DEF TrailInv, TrailTyped
  <2>3. NoAppend \in Appending(H) /\ NoAppend.pc = "none"
    BY <2>2 DEF NoAppend, Appending
  <2>4. append' \in [Pairs -> Appending(H)] /\ \A x \in Pairs : append'[x].pc = "none"
    BY <2>1, <2>3
  <2>5. queue' \in Seq(Nat) /\ Len(queue') = 0 /\ DOMAIN queue' = {}
    BY <2>1
  <2>6. TrailTyped'
    BY <2>1, <2>2, <2>4, <2>5, AuditAssumption DEF TrailInv, TrailTyped
  <2>7. /\ verify_rows(log)' /\ Tip' /\ Placed'
        /\ \A f \in Events : InTrail(f)' <=> InTrail(f)
    BY <2>1, <2>4, LogStays
  <2>8. \A f \in Events, m \in Tries : append'[<<f, m>>].pc = "none"
    BY <2>4 DEF Pairs
  <2>9. \A f \in Events : Told(f)' /\ Started(f)' /\ Single(f)'
    BY <2>1, <2>7, <2>8 DEF TrailInv, Told, Started, Single
  <2>10. PassedOn'
    BY <2>1, <2>5 DEF TrailInv, PassedOn
  <2> QED
    BY <2>6, <2>7, <2>9, <2>10 DEF TrailInv
<1> QED
  BY <1>2, <1>4, <1>5, <1>6, <1>7, <1>8, <1>9, <1>10, <1>11 DEF AuditNext

LEMMA CopiesOf ==
    ASSUME TrailTyped, NEW e
    PROVE  /\ Copies(e) > 0 <=> InTrail(e)
           /\ (\A i, j \in DOMAIN log : log[i].event = e /\ log[j].event = e => i = j)
                => Copies(e) <= 1
<1> DEFINE S == {i \in DOMAIN log : log[i].event = e}
<1>1. Len(log) \in Nat /\ DOMAIN log = 1 .. Len(log)
  BY DEF TrailTyped
<1>2. IsFiniteSet(S) /\ Cardinality(S) \in Nat
  <2>1. IsFiniteSet(1 .. Len(log)) /\ S \subseteq 1 .. Len(log)
    BY <1>1, FS_Interval
  <2> QED
    BY <2>1, FS_Subset, FS_CardinalityType
<1>3. Cardinality(S) = 0 <=> S = {}
  BY <1>2, FS_EmptySet
<1>4. ASSUME \A i, j \in DOMAIN log : log[i].event = e /\ log[j].event = e => i = j
      PROVE  Cardinality(S) <= 1
  <2>1. CASE S = {}
    BY <2>1, <1>3
  <2>2. CASE S # {}
    <3>1. PICK i : S = {i}
      BY <1>4, <2>2
    <3>2. Cardinality({i}) = 1
      BY FS_Singleton
    <3> QED
      BY <3>1, <3>2
  <2> QED
    BY <2>1, <2>2
<1>5. Copies(e) = Cardinality(S) /\ (S # {} <=> InTrail(e))
  BY DEF Copies, InTrail
<1> HIDE DEF S
<1> QED
  BY <1>2, <1>3, <1>4, <1>5

\* The chain of the audit trail is whole, shows what is tampered with, and holds once what was done
\* and answered, whichever attempts overlap, fail or are given up.
THEOREM TrailHoldsAlways == AuditSpec => []TrailHolds
<1>1. AuditInit => TrailInv
  <2> SUFFICES ASSUME AuditInit PROVE TrailInv
    OBVIOUS
  <2>1. log = <<>> /\ DOMAIN log = {} /\ queue = <<>> /\ DOMAIN queue = {} /\ Len(queue) = 0
    BY DEF AuditInit
  <2>2. log \in Seq(LogRow({Genesis})) /\ queue \in Seq(Nat)
    BY <2>1
  <2>3. append \in [Pairs -> Appending({Genesis})] /\ \A x \in Pairs : append[x].pc = "none"
    BY DEF AuditInit, Pairs, NoAppend, Appending
  <2>4. handler \in [Events -> Handler]
        /\ \A e \in Events : handler[e].pc = "new" /\ handler[e].answer = "none"
    BY AuditAssumption DEF AuditInit, Handler
  <2>5. TrailTyped
    BY <2>1, <2>2, <2>3, <2>4, AuditAssumption DEF TrailTyped, AuditInit
  <2>6. verify_rows(log)
    BY <2>1 DEF verify_rows
  <2>7. \A f \in Events, m \in Tries : append[<<f, m>>].pc = "none"
    BY <2>3 DEF Pairs
  <2> QED
    BY <2>1, <2>3, <2>4, <2>5, <2>6, <2>7
       DEF TrailInv, Tip, Placed, PassedOn, Told, Started, Single, InTrail, AuditInit
<1>2. TrailInv => TrailHolds
  <2> SUFFICES ASSUME TrailInv PROVE TrailHolds
    OBVIOUS
  <2>1. AuditTypeOK
    <3>1. PICK H : log \in Seq(LogRow(H))
      BY DEF TrailInv, TrailTyped
    <3>2. \A i \in DOMAIN log : log[i] \in LogRow(H)
      BY <3>1
    <3>3. \A i \in DOMAIN log : log[i].event \in Events
      BY <3>2 DEF LogRow
    <3>4. \A e \in Events, n \in Tries :
            append[<<e, n>>].pc \in {"none", "open", "locked", "committed"}
      BY PairForms DEF TrailInv
    <3> QED
      BY <3>3, <3>4 DEF TrailInv, TrailTyped, AuditTypeOK
  <2>2. forwarded \cup {queue[k] : k \in DOMAIN queue} \subseteq DOMAIN log
    BY DEF TrailInv, PassedOn
  <2>3. \A e \in Events : /\ handler[e].pc = "recorded" => Copies(e) > 0
                          /\ Copies(e) > 0 => handler[e].pc # "new"
                          /\ Copies(e) <= 1 \/ e \in doubtful
    BY CopiesOf DEF TrailInv, Told, Started, Single
  <2> QED
    BY <2>1, <2>2, <2>3, TamperingShows DEF TrailInv, TrailHolds
<1> QED
  BY <1>1, <1>2, TrailStep, PTL DEF AuditSpec

-----------------------------------------------------------------------------
(* Appointments *)

(***************************************************************************)
(* Whoever has inserted a row, or created its event, holds the calendar    *)
(* until the row is committed (Locked), so that there is one such request  *)
(* and its key is in nobody's table (Holds).  Every event is that of a     *)
(* booked appointment or of a request that prepares one (EventKnown), and  *)
(* a booked appointment has its event unless a request has just removed it *)
(* (EventThere).                                                           *)
(***************************************************************************)
Prepares(s) == txn[s].made # 0 /\ txn[s].pc # "committed"

Holds(s) == At(s, {"book", "reschedule"}, "inserted") \/ Prepares(s)

Removed(s) == Ends(s) \in Keys /\ txn[s].pc = "removed"

Form(s) ==
    LET t == txn[s]
    IN  /\ t.kind = "idle" => t = Idle
        /\ t.kind # "idle" => t.key \in Keys
        /\ t.kind = "book" => /\ From[t.key] = None
                              /\ t.pc \in {"ready", "inserted", "created", "committed"}
                              /\ t.pc = "created" => t.made # 0
        /\ t.kind = "cancel" => t.pc \in {"read", "removed", "committed"} /\ t.made = 0
        /\ t.kind = "reschedule" => From[t.key] \in Keys
        /\ t.pc \in {"read", "ready", "inserted"} => t.made = 0

Locked(s) == Holds(s) => calendarLock = s /\ appt[txn[s].key].status = "ABSENT"

Prepared(s) == Prepares(s) => <<txn[s].key, txn[s].made>> \in calendar

\* What a request has read of the appointment it ends is true still.
Ending(s) ==
    Ends(s) \in Keys =>
        /\ appt[Ends(s)].status # "ABSENT"
        /\ appt[Ends(s)].event = txn[s].seen
        /\ txn[s].pc = "removed" => <<Ends(s), txn[s].seen>> \notin calendar

\* A rescheduling that has created no event has found its key.
KeyFound(s) ==
    txn[s].kind = "reschedule" /\ txn[s].pc \in {"created", "removed"} /\ txn[s].made = 0
        => appt[txn[s].key].status # "ABSENT"

RequestInv(s) == Form(s) /\ Locked(s) /\ Prepared(s) /\ Ending(s) /\ KeyFound(s)

EventKnown ==
    \A k \in Keys \ astray, n \in Nat : <<k, n>> \in calendar =>
        \/ appt[k].status = "BOOKED" /\ n = appt[k].event
        \/ \E s \in Sessions : Prepares(s) /\ txn[s].key = k /\ txn[s].made = n

EventThere ==
    \A k \in Keys \ astray : appt[k].status = "BOOKED" =>
        \/ <<k, appt[k].event>> \in calendar
        \/ \E s \in Sessions : Removed(s) /\ Ends(s) = k

Apart == \A i, k \in Taken : i # k /\ i # From[k] /\ k # From[i] => ~Near(i, k)

Succession ==
    \A a \in Keys \ overtaken :
        IF appt[a].status = "RESCHEDULED" THEN \E k \in Keys : Successors(a) = {k}
                                          ELSE Successors(a) = {}

BookingInv ==
    /\ BookingTypeOK
    /\ \A s \in Sessions : RequestInv(s)
    /\ EventKnown
    /\ EventThere
    /\ Apart
    /\ Succession

LEMMA EndsForms ==
    ASSUME BookingTypeOK, NEW s \in Sessions, Form(s)
    PROVE  /\ txn[s].kind = "cancel" => Ends(s) = txn[s].key /\ Ends(s) \in Keys
           /\ txn[s].kind = "reschedule" => Ends(s) = From[txn[s].key] /\ Ends(s) \in Keys
           /\ txn[s].kind \in {"idle", "book"} => Ends(s) = None
           /\ Ends(s) \in Keys <=> txn[s].kind \in {"cancel", "reschedule"}
<1>1. None \notin Keys
  BY BookingAssumption
<1>2. txn[s].kind \in {"idle", "book", "reschedule", "cancel"}
  BY DEF BookingTypeOK, Txn
<1> QED
  BY <1>1, <1>2 DEF Ends, Form

\* The invariant says what BookingsAgree does.
LEMMA BookingInvAgrees == BookingInv => BookingsAgree
<1> SUFFICES ASSUME BookingInv PROVE BookingsAgree
  OBVIOUS
<1>1. ASSUME NEW k \in Keys \ astray, ~\E s \in Sessions : Settling(s, k) PROVE Agrees(k)
  <2>1. ASSUME NEW s \in Sessions
        PROVE  ~(Prepares(s) /\ txn[s].key = k) /\ ~(Removed(s) /\ Ends(s) = k)
    BY <1>1 DEF Settling, Prepares, Removed
  <2>2. ASSUME NEW n \in Nat, <<k, n>> \in calendar
        PROVE  appt[k].status = "BOOKED" /\ n = appt[k].event
    BY <2>1, <2>2 DEF BookingInv, EventKnown
  <2>3. appt[k].status = "BOOKED" => <<k, appt[k].event>> \in calendar
    BY <2>1 DEF BookingInv, EventThere
  <2>4. ASSUME NEW e \in calendar, e[1] = k
        PROVE  appt[k].status = "BOOKED" /\ e = <<k, appt[k].event>>
    <3>1. e = <<e[1], e[2]>> /\ e[2] \in Nat
      BY DEF BookingInv, BookingTypeOK
    <3> QED
      BY <2>2, <2>4, <3>1
  <2> QED
    BY <2>3, <2>4 DEF Agrees
<1>2. ASSUME NEW a \in Keys \ overtaken
      PROVE  Cardinality(Successors(a)) = IF appt[a].status = "RESCHEDULED" THEN 1 ELSE 0
  <2>1. CASE appt[a].status = "RESCHEDULED"
    BY <2>1, FS_Singleton DEF BookingInv, Succession
  <2>2. CASE appt[a].status # "RESCHEDULED"
    BY <2>2, FS_EmptySet DEF BookingInv, Succession
  <2> QED
    BY <2>1, <2>2
<1> QED
  BY <1>1, <1>2 DEF BookingInv, BookingsAgree, Apart

LEMMA BookingInitInv == BookingInit => BookingInv
<1> SUFFICES ASSUME BookingInit PROVE BookingInv
  OBVIOUS
<1> USE BookingAssumption
<1>1. BookingTypeOK
  BY DEF BookingInit, BookingTypeOK, Appt, NoAppt, Txn, Idle
<1>2. \A s \in Sessions : RequestInv(s)
  BY DEF BookingInit, RequestInv, Form, Locked, Prepared, Ending, KeyFound, Holds, Prepares, At,
         Ends, Idle
<1>3. EventKnown /\ EventThere
  BY DEF BookingInit, EventKnown, EventThere, NoAppt
<1>4. Taken = {}
  BY DEF BookingInit, Taken, NoAppt, At, Idle
<1>5. Succession
  <2>1. \A a \in Keys : Successors(a) = {}
    BY DEF BookingInit, Successors, NoAppt
  <2> QED
    BY <2>1 DEF BookingInit, Succession, NoAppt
<1> QED
  BY <1>1, <1>2, <1>3, <1>4, <1>5 DEF BookingInv, Apart

-----------------------------------------------------------------------------
(* Steps of one request beside the others *)

\* Only the request of session s goes on.
GoesOn(s) == /\ txn' \in [Sessions -> Txn]
            /\ \A r \in Sessions \ {s} : txn'[r] = txn[r]

\* Appointments stay where they are, up to their status, and the locks of others are kept.
RowsKept(s) ==
    /\ \A k \in Keys : appt[k].status # "ABSENT" =>
         appt'[k].status # "ABSENT" /\ appt'[k].event = appt[k].event
    /\ \A k \in Keys : appt'[k] # appt[k] /\ appt[k].status = "ABSENT" =>
         Holds(s) /\ k = txn[s].key
    /\ calendarLock' = calendarLock \/ calendarLock \in {s, None}

\* One request holds the calendar.
LEMMA HoldsAlone ==
    ASSUME BookingInv, NEW s \in Sessions, NEW r \in Sessions, Holds(s), Holds(r)
    PROVE  r = s
BY DEF BookingInv, RequestInv, Locked

LEMMA OthersKeep ==
    ASSUME BookingInv, NEW s \in Sessions, GoesOn(s), RowsKept(s),
           NEW r \in Sessions \ {s},
           Prepares(r) => <<txn[r].key, txn[r].made>> \in calendar',
           Removed(r) => <<Ends(r), txn[r].seen>> \notin calendar'
    PROVE  RequestInv(r)'
<1> USE BookingAssumption
<1>1. txn'[r] = txn[r] /\ RequestInv(r) /\ txn[r] \in Txn
  BY DEF GoesOn, BookingInv, BookingTypeOK
<1>2. Ends(r)' = Ends(r) /\ Prepares(r)' = Prepares(r) /\ Holds(r)' = Holds(r) /\ Form(r)'
  BY <1>1 DEF Ends, Prepares, Holds, At, Form, RequestInv
<1>3. Holds(r) => txn[r].key \in Keys
  BY <1>1 DEF Holds, At, Prepares, RequestInv, Form, Idle
<1>4. Locked(r)'
  <2>1. SUFFICES ASSUME Holds(r)
                 PROVE  calendarLock' = r /\ appt'[txn[r].key].status = "ABSENT"
    BY <1>1, <1>2 DEF Locked
  <2>2. calendarLock = r /\ appt[txn[r].key].status = "ABSENT"
    BY <1>1, <2>1 DEF RequestInv, Locked
  <2>3. ~Holds(s)
    BY <2>1, HoldsAlone
  <2>4. appt'[txn[r].key] = appt[txn[r].key]
    BY <1>3, <2>1, <2>2, <2>3 DEF RowsKept
  <2>5. r # s /\ r # None
    OBVIOUS
  <2> QED
    BY <2>2, <2>4, <2>5 DEF RowsKept
<1>5. Prepared(r)'
  BY <1>1, <1>2 DEF Prepared
<1>6. Ending(r)'
  BY <1>1, <1>2 DEF RequestInv, Ending, RowsKept, Removed
<1>7. KeyFound(r)'
  BY <1>1 DEF RequestInv, KeyFound, RowsKept, Form
<1> QED
  BY <1>2, <1>4, <1>5, <1>6, <1>7 DEF RequestInv

\* No two appointments come closer unless one more is taken.
LEMMA ApartKeeps ==
    ASSUME Apart, Taken' \subseteq Taken
    PROVE  Apart'
BY DEF Apart, Near

LEMMA TakenForms ==
    ASSUME BookingTypeOK
    PROVE  Taken = {k \in Keys : \/ appt[k].status = "BOOKED"
                                 \/ \E s \in Sessions : Holds(s) /\ txn[s].key = k}
BY DEF Taken, Holds, Prepares

\* A step that changes no appointment and no event.
LEMMA QuietKeeps ==
    ASSUME BookingInv, NEW s \in Sessions, GoesOn(s), BookingTypeOK', RequestInv(s)', Apart',
           UNCHANGED <<appt, calendar, overtaken>>, astray \subseteq astray',
           calendarLock' = calendarLock \/ calendarLock \in {s, None},
           Prepares(s) /\ txn[s].key \notin astray' =>
               Prepares(s)' /\ txn'[s].key = txn[s].key /\ txn'[s].made = txn[s].made,
           Removed(s) /\ Ends(s) \notin astray' => Removed(s)' /\ Ends(s)' = Ends(s)
    PROVE  BookingInv'
<1>1. ASSUME NEW r \in Sessions \ {s}
      PROVE  /\ txn'[r] = txn[r]
             /\ Prepares(r)' = Prepares(r)
             /\ Ends(r)' = Ends(r) /\ Removed(r)' = Removed(r)
  BY DEF GoesOn, Prepares, Ends, Removed
<1>2. ASSUME NEW r \in Sessions PROVE RequestInv(r)'
  <2>1. CASE r = s
    BY <2>1
  <2>2. CASE r # s
    <3>1. RowsKept(s)
      BY DEF RowsKept
    <3>2. RequestInv(r)
      BY DEF BookingInv
    <3>3. Prepares(r) => <<txn[r].key, txn[r].made>> \in calendar'
      BY <3>2 DEF RequestInv, Prepared
    <3>4. Removed(r) => <<Ends(r), txn[r].seen>> \notin calendar'
      BY <3>2 DEF RequestInv, Ending, Removed
    <3> QED
      BY <2>2, <3>1, <3>3, <3>4, OthersKeep
  <2> QED
    BY <2>1, <2>2
<1>3. EventKnown'
  <2> SUFFICES ASSUME NEW k \in Keys \ astray', NEW n \in Nat, <<k, n>> \in calendar,
                      ~(appt[k].status = "BOOKED" /\ n = appt[k].event)
               PROVE  \E r \in Sessions : Prepares(r)' /\ txn'[r].key = k /\ txn'[r].made = n
    BY DEF EventKnown
  <2>1. PICK r \in Sessions : Prepares(r) /\ txn[r].key = k /\ txn[r].made = n
    BY DEF BookingInv, EventKnown
  <2> QED
    BY <1>1, <2>1
<1>4. EventThere'
  <2> SUFFICES ASSUME NEW k \in Keys \ astray', appt[k].status = "BOOKED",
                      <<k, appt[k].event>> \notin calendar
               PROVE  \E r \in Sessions : Removed(r)' /\ Ends(r)' = k
    BY DEF EventThere
  <2>1. PICK r \in Sessions : Removed(r) /\ Ends(r) = k
    BY DEF BookingInv, EventThere
  <2> QED
    BY <1>1, <2>1
<1>5. Succession'
  BY DEF BookingInv, Succession, Successors
<1> QED
  BY <1>2, <1>3, <1>4, <1>5 DEF BookingInv

LEMMA TakenStays ==
    ASSUME BookingInv, NEW s \in Sessions, GoesOn(s), BookingTypeOK', UNCHANGED appt,
           Holds(s)' => Holds(s) /\ txn'[s].key = txn[s].key
    PROVE  Apart'
<1>1. Taken = {k \in Keys : \/ appt[k].status = "BOOKED"
                            \/ \E r \in Sessions : Holds(r) /\ txn[r].key = k}
  BY TakenForms DEF BookingInv
<1>2. Taken' = {k \in Keys : \/ appt'[k].status = "BOOKED"
                             \/ \E r \in Sessions : Holds(r)' /\ txn'[r].key = k}
  BY DEF Taken, Holds, Prepares, BookingTypeOK
<1>3. \A r \in Sessions \ {s} : Holds(r)' = Holds(r) /\ txn'[r] = txn[r]
  BY DEF GoesOn, Holds, At, Prepares
<1>4. Taken' \subseteq Taken
  BY <1>1, <1>2, <1>3
<1> QED
  BY <1>4, ApartKeeps DEF BookingInv

\* Requests that begin.
LEMMA ReceiveKeeps ==
    ASSUME BookingInv, NEW s \in Sessions, NEW k \in Keys, Receive(s, k)
    PROVE  BookingInv'
<1> USE BookingAssumption
<1>1. PICK t \in Txn :
        /\ Begin(s, t)
        /\ t.key = k /\ t.made = 0
        /\ \/ t.kind = "book" /\ t.pc = "ready" /\ From[k] = None
           \/ /\ t.kind = "reschedule" /\ t.pc = "read" /\ From[k] \in Keys
              /\ appt[From[k]].status = "BOOKED" /\ t.seen = appt[From[k]].event
           \/ /\ t.kind = "cancel" /\ t.pc = "read"
              /\ appt[k].status = "BOOKED" /\ t.seen = appt[k].event
  <2>1. CASE BookRead(s, k)
    <3> DEFINE t == [kind |-> "book", pc |-> "ready", key |-> k, seen |-> 0, made |-> 0]
    <3>1. t \in Txn
      BY DEF Txn
    <3> QED
      BY <2>1, <3>1 DEF BookRead
  <2>2. CASE RescheduleRead(s, k)
    <3> DEFINE t == [kind |-> "reschedule", pc |-> "read", key |-> k,
                     seen |-> appt[From[k]].event, made |-> 0]
    <3>1. From[k] \in Keys
      BY <2>2 DEF RescheduleRead
    <3>2. t \in Txn
      BY <3>1 DEF Txn, BookingInv, BookingTypeOK, Appt
    <3> QED
      BY <2>2, <3>1, <3>2 DEF RescheduleRead
  <2>3. CASE CancelRead(s, k)
    <3> DEFINE t == [kind |-> "cancel", pc |-> "read", key |-> k, seen |-> appt[k].event,
                     made |-> 0]
    <3>1. t \in Txn
      BY DEF Txn, BookingInv, BookingTypeOK, Appt
    <3> QED
      BY <2>3, <3>1 DEF CancelRead
  <2> QED
    BY <2>1, <2>2, <2>3 DEF Receive
<1>2. txn[s] = Idle /\ txn'[s] = t /\ GoesOn(s) /\ BookingTypeOK'
  BY <1>1 DEF Begin, GoesOn, BookingInv, BookingTypeOK
<1>3. UNCHANGED <<appt, calendar, attempts, calendarLock, rowLock, astray, overtaken>>
  BY <1>1 DEF Begin
<1>4. RequestInv(s)'
  BY <1>1, <1>2, <1>3 DEF RequestInv, Form, Locked, Holds, Prepares, At, Prepared, Ending, KeyFound,
                          Ends
<1>5. ~Holds(s)' /\ ~Prepares(s)
  BY <1>1, <1>2 DEF Holds, Prepares, At, Idle
<1>6. Apart'
  BY <1>2, <1>3, <1>5, TakenStays
<1>7. ~Removed(s)
  BY <1>2 DEF Removed, Idle
<1> QED
  BY <1>2, <1>3, <1>4, <1>5, <1>6, <1>7, QuietKeeps

\* The new row comes close to no other: nobody else is about to book, and Busy sees the rest.
LEMMA InsertApart ==
    ASSUME BookingInv, NEW s \in Sessions, Insert(s), GoesOn(s), BookingTypeOK'
    PROVE  Apart'
<1> USE BookingAssumption
<1> DEFINE k == txn[s].key
<1>1. /\ calendarLock = None /\ ~Busy(s, k) /\ UNCHANGED appt
      /\ At(s, {"book", "reschedule"}, "ready") /\ txn'[s].key = k
  BY DEF Insert, Goto, BookingInv, BookingTypeOK, Txn
<1>2. RequestInv(s) /\ k \in Keys
  BY <1>1 DEF BookingInv, RequestInv, Form, At
<1>3. Taken = {i \in Keys : \/ appt[i].status = "BOOKED"
                            \/ \E r \in Sessions : Holds(r) /\ txn[r].key = i}
  BY TakenForms DEF BookingInv
<1>4. \A r \in Sessions : ~Holds(r)
  BY <1>1 DEF BookingInv, RequestInv, Locked
<1>5. Taken' = {i \in Keys : \/ appt'[i].status = "BOOKED"
                             \/ \E r \in Sessions : Holds(r)' /\ txn'[r].key = i}
  BY DEF Taken, Holds, Prepares, BookingTypeOK
<1>6. \A r \in Sessions \ {s} : ~Holds(r)'
  BY <1>4 DEF GoesOn, Holds, At, Prepares
<1>7. Taken' \subseteq {i \in Keys : appt[i].status = "BOOKED"} \cup {k}
  BY <1>1, <1>5, <1>6
<1>8. \A i \in Keys : appt[i].status = "BOOKED" => i \in Taken
  BY <1>3
<1>9. ASSUME NEW i \in Keys, appt[i].status = "BOOKED", i # From[k]
      PROVE  ~Near(i, k) /\ ~Near(k, i)
  <2>1. Ends(s) = From[k]
    BY <1>1, <1>2 DEF Ends, At, RequestInv, Form
  <2>2. ~Near(i, k)
    BY <1>1, <1>9, <2>1 DEF Busy
  <2> QED
    BY <1>2, <2>2 DEF Near
<1> SUFFICES ASSUME NEW i \in Taken', NEW j \in Taken', i # j, i # From[j], j # From[i]
             PROVE  ~Near(i, j)
  BY DEF Apart, Near
<1>10. CASE i = k
  BY <1>7, <1>9, <1>10
<1>11. CASE j = k
  BY <1>7, <1>9, <1>11
<1>12. CASE i # k /\ j # k
  BY <1>7, <1>8, <1>12 DEF BookingInv, Apart
<1> QED
  BY <1>10, <1>11, <1>12

LEMMA RowInsertKeeps ==
    ASSUME BookingInv, NEW s \in Sessions, Insert(s)
    PROVE  BookingInv'
<1>1. /\ At(s, {"book", "reschedule"}, "ready") /\ appt[txn[s].key].status = "ABSENT"
      /\ calendarLock = None /\ calendarLock' = s
      /\ UNCHANGED <<appt, calendar, attempts, rowLock, astray, overtaken>>
      /\ txn' = [txn EXCEPT ![s].pc = "inserted"]
  BY DEF Insert, Goto
<1>2. txn[s] \in Txn /\ RequestInv(s)
  BY DEF BookingInv, BookingTypeOK
<1>3. /\ GoesOn(s) /\ BookingTypeOK'
      /\ txn'[s].pc = "inserted" /\ txn'[s].kind = txn[s].kind /\ txn'[s].key = txn[s].key
      /\ txn'[s].seen = txn[s].seen /\ txn'[s].made = txn[s].made
  BY <1>1, <1>2 DEF GoesOn, BookingInv, BookingTypeOK, Txn
<1>4. Ends(s)' = Ends(s)
  BY <1>3 DEF Ends
<1>5. RequestInv(s)'
  BY <1>1, <1>2, <1>3, <1>4 DEF RequestInv, Form, Locked, Holds, Prepares, At, Prepared, Ending,
                                KeyFound
<1>6. ~Prepares(s) /\ ~Removed(s)
  BY <1>1, <1>2 DEF RequestInv, Form, Prepares, Removed, At
<1>7. Apart'
  BY <1>3, InsertApart
<1> QED
  BY <1>1, <1>3, <1>5, <1>6, <1>7, QuietKeeps

LEMMA FlushKeeps ==
    ASSUME BookingInv, NEW s \in Sessions, RescheduleFlush(s)
    PROVE  BookingInv'
<1> DEFINE t == txn[s]
           pc == IF appt[t.key].status = "ABSENT" THEN "ready" ELSE "created"
<1>1. /\ At(s, {"reschedule"}, "read")
      /\ rowLock' = [rowLock EXCEPT ![From[t.key]] = s]
      /\ UNCHANGED <<appt, calendar, attempts, calendarLock, astray, overtaken>>
      /\ txn' = [txn EXCEPT ![s].pc = pc]
  BY DEF RescheduleFlush, Goto
<1>2. t \in Txn /\ RequestInv(s) /\ pc \in {"ready", "created"}
  BY DEF BookingInv, BookingTypeOK
<1>3. /\ GoesOn(s) /\ BookingTypeOK'
      /\ txn'[s].pc = pc /\ txn'[s].kind = txn[s].kind /\ txn'[s].key = txn[s].key
      /\ txn'[s].seen = txn[s].seen /\ txn'[s].made = txn[s].made
  BY <1>1, <1>2 DEF GoesOn, BookingInv, BookingTypeOK, Txn
<1>4. Ends(s)' = Ends(s)
  BY <1>3 DEF Ends
<1>5. txn[s].made = 0 /\ t.kind = "reschedule" /\ t.pc = "read"
  BY <1>1, <1>2 DEF RequestInv, Form, At
<1>6. RequestInv(s)'
  BY <1>1, <1>2, <1>3, <1>4, <1>5 DEF RequestInv, Form, Locked, Holds, Prepares, At, Prepared,
                                      Ending, KeyFound
<1>7. ~Prepares(s) /\ ~Removed(s) /\ ~Holds(s)'
  BY <1>2, <1>3, <1>5 DEF Prepares, Removed, Holds, At
<1>8. Apart'
  BY <1>1, <1>3, <1>7, TakenStays
<1> QED
  BY <1>1, <1>3, <1>6, <1>7, <1>8, QuietKeeps

\* A session whose request is over, or given up.
LEMMA IdleForms ==
    ASSUME BookingInv, NEW s \in Sessions, txn' = [txn EXCEPT ![s] = Idle]
    PROVE  /\ GoesOn(s) /\ txn'[s] = Idle
           /\ RequestInv(s)' /\ ~Holds(s)' /\ ~Prepares(s)' /\ ~Removed(s)'
<1> USE BookingAssumption
<1>1. Idle \in Txn
  BY DEF Idle, Txn
<1>2. GoesOn(s) /\ txn'[s] = Idle
  BY <1>1 DEF GoesOn, BookingInv, BookingTypeOK
<1>3. Ends(s)' = None
  BY <1>2 DEF Ends, Idle
<1> QED
  BY <1>2, <1>3 DEF RequestInv, Form, Locked, Holds, Prepares, At, Prepared, Ending, KeyFound,
                    Removed, Idle

LEMMA RespondKeeps ==
    ASSUME BookingInv, NEW s \in Sessions, Respond(s)
    PROVE  BookingInv'
<1>1. /\ txn[s].pc = "committed" /\ txn' = [txn EXCEPT ![s] = Idle]
      /\ UNCHANGED <<appt, calendar, attempts, calendarLock, rowLock, astray, overtaken>>
  BY DEF Respond
<1>2. GoesOn(s) /\ RequestInv(s)' /\ ~Holds(s)'
  BY <1>1, IdleForms
<1>3. BookingTypeOK'
  BY <1>1, <1>2 DEF BookingInv, BookingTypeOK, GoesOn
<1>4. ~Prepares(s) /\ ~Removed(s)
  BY <1>1 DEF Prepares, Removed
<1>5. Apart'
  BY <1>1, <1>2, <1>3, TakenStays
<1> QED
  BY <1>1, <1>2, <1>3, <1>4, <1>5, QuietKeeps

LEMMA UnlockForms ==
    ASSUME BookingInv, NEW s \in Sessions, Unlock(s)
    PROVE  /\ calendarLock' \in Sessions \cup {None}
           /\ calendarLock' = calendarLock \/ calendarLock \in {s, None}
           /\ rowLock' \in [Keys -> Sessions \cup {None}]
BY DEF Unlock, BookingInv, BookingTypeOK

LEMMA AbortKeeps ==
    ASSUME BookingInv, NEW s \in Sessions, Abort(s)
    PROVE  BookingInv'
<1>1. /\ txn[s] # Idle /\ txn[s].pc # "committed"
      /\ astray' = astray \cup (IF txn[s].made # 0 THEN {txn[s].key} ELSE {})
                          \cup (IF txn[s].pc = "removed" THEN {Ends(s)} ELSE {})
      /\ txn' = [txn EXCEPT ![s] = Idle] /\ Unlock(s)
      /\ UNCHANGED <<appt, calendar, attempts, overtaken>>
  BY DEF Abort
<1>2. GoesOn(s) /\ RequestInv(s)' /\ ~Holds(s)'
  BY <1>1, IdleForms
<1>3. RequestInv(s) /\ BookingTypeOK /\ txn[s].kind # "idle" /\ txn[s].key \in Keys
  BY <1>1 DEF BookingInv, BookingTypeOK, Txn, RequestInv, Form
<1>4. txn[s].pc = "removed" => Ends(s) \in Keys
  BY <1>3, EndsForms DEF RequestInv, Form, BookingTypeOK, Txn
<1>5. astray' \subseteq Keys
  BY <1>1, <1>3, <1>4 DEF BookingTypeOK
<1>6. BookingTypeOK'
  BY <1>1, <1>2, <1>5, UnlockForms DEF BookingInv, BookingTypeOK, GoesOn
<1>7. /\ calendarLock' = calendarLock \/ calendarLock \in {s, None}
      /\ astray \subseteq astray'
      /\ Prepares(s) => txn[s].key \in astray'
      /\ Removed(s) => Ends(s) \in astray'
  BY <1>1, UnlockForms DEF Prepares, Removed
<1>8. Apart'
  BY <1>1, <1>2, <1>6, TakenStays
<1> QED
  BY <1>1, <1>2, <1>6, <1>7, <1>8, QuietKeeps

-----------------------------------------------------------------------------
(* Steps that change the calendar of the provider *)

\* A step after which the calendar and the requests agree, and no appointment has changed.
LEMMA CalendarKeeps ==
    ASSUME BookingInv, NEW s \in Sessions, GoesOn(s), BookingTypeOK', RequestInv(s)',
           UNCHANGED <<appt, overtaken>>,
           calendarLock' = calendarLock \/ calendarLock \in {s, None},
           Holds(s)' => Holds(s) /\ txn'[s].key = txn[s].key,
           \A r \in Sessions \ {s} : Prepares(r) => <<txn[r].key, txn[r].made>> \in calendar',
           \A r \in Sessions \ {s} : Removed(r) => <<Ends(r), txn[r].seen>> \notin calendar',
           EventKnown', EventThere'
    PROVE  BookingInv'
<1>1. RowsKept(s)
  BY DEF RowsKept
<1>2. ASSUME NEW r \in Sessions PROVE RequestInv(r)'
  <2>1. CASE r = s
    BY <2>1
  <2>2. CASE r # s
    BY <1>1, <2>2, OthersKeep
  <2> QED
    BY <2>1, <2>2
<1>3. Apart'
  BY TakenStays
<1>4. Succession'
  BY DEF BookingInv, Succession, Successors
<1> QED
  BY <1>2, <1>3, <1>4 DEF BookingInv

\* The event of a new row: nobody ends an appointment that is not there yet.
LEMMA CreatesForms ==
    ASSUME BookingInv, NEW s \in Sessions, Creates(s)
    PROVE  /\ txn[s].key \in Keys /\ txn[s].pc = "inserted" /\ txn[s].made = 0
           /\ txn[s].kind \in {"book", "reschedule"}
           /\ calendarLock = s /\ appt[txn[s].key].status = "ABSENT"
           /\ Holds(s) /\ ~Prepares(s) /\ ~Removed(s)
           /\ attempts[txn[s].key] \in Nat
           /\ attempts' \in [Keys -> Nat] /\ calendar' \subseteq Keys \X Nat
           /\ calendar' = calendar \cup {<<txn[s].key, attempts[txn[s].key] + 1>>}
           /\ \A r \in Sessions : Prepares(r) => <<txn[r].key, txn[r].made>> \in calendar'
           /\ \A r \in Sessions : Removed(r) => <<Ends(r), txn[r].seen>> \notin calendar'
<1> DEFINE k == txn[s].key
<1>1. /\ At(s, {"book", "reschedule"}, "inserted")
      /\ attempts' = [attempts EXCEPT ![k] = attempts[k] + 1]
      /\ calendar' = calendar \cup {<<k, attempts[k] + 1>>}
  BY DEF Creates
<1>2. \A r \in Sessions : RequestInv(r)
  BY DEF BookingInv
<1>3. /\ k \in Keys /\ txn[s].pc = "inserted" /\ txn[s].kind \in {"book", "reschedule"}
      /\ txn[s].made = 0
  BY <1>1, <1>2 DEF At, RequestInv, Form
<1>4. /\ Holds(s) /\ ~Prepares(s) /\ ~Removed(s)
      /\ calendarLock = s /\ appt[k].status = "ABSENT"
  BY <1>1, <1>2, <1>3 DEF Holds, Prepares, Removed, RequestInv, Locked
<1>5. attempts[k] \in Nat /\ attempts' \in [Keys -> Nat] /\ calendar' \subseteq Keys \X Nat
  BY <1>1, <1>3 DEF BookingInv, BookingTypeOK
<1>6. \A r \in Sessions : Prepares(r) => <<txn[r].key, txn[r].made>> \in calendar'
  BY <1>1, <1>2 DEF RequestInv, Prepared
<1>7. ASSUME NEW r \in Sessions, Removed(r) PROVE <<Ends(r), txn[r].seen>> \notin calendar'
  BY <1>1, <1>2, <1>4, <1>7 DEF RequestInv, Ending, Removed
<1> QED
  BY <1>1, <1>3, <1>4, <1>5, <1>6, <1>7

LEMMA CreateEventKeeps ==
    ASSUME BookingInv, NEW s \in Sessions, CreateEvent(s)
    PROVE  BookingInv'
<1> DEFINE k == txn[s].key
           n == attempts[k] + 1
           mid == [txn EXCEPT ![s].pc = "created"]
<1>1. /\ Creates(s) /\ UNCHANGED <<appt, overtaken, calendarLock, rowLock, astray>>
      /\ txn' = [mid EXCEPT ![s].made = n]
  BY DEF CreateEvent, Creates
<1>2. /\ k \in Keys /\ txn[s].pc = "inserted" /\ txn[s].made = 0
      /\ txn[s].kind \in {"book", "reschedule"}
      /\ calendarLock = s /\ appt[k].status = "ABSENT"
      /\ Holds(s) /\ ~Prepares(s) /\ ~Removed(s)
      /\ attempts[k] \in Nat /\ attempts' \in [Keys -> Nat] /\ calendar' \subseteq Keys \X Nat
      /\ calendar' = calendar \cup {<<k, n>>}
      /\ \A r \in Sessions : Prepares(r) => <<txn[r].key, txn[r].made>> \in calendar'
      /\ \A r \in Sessions : Removed(r) => <<Ends(r), txn[r].seen>> \notin calendar'
  BY <1>1, CreatesForms
<1>3. n \in Nat /\ n # 0
  BY <1>2
<1> HIDE DEF n
<1>4. /\ mid \in [Sessions -> Txn] /\ \A r \in Sessions \ {s} : mid[r] = txn[r]
      /\ mid[s].pc = "created" /\ mid[s].kind = txn[s].kind /\ mid[s].key = k
      /\ mid[s].seen = txn[s].seen
  BY DEF BookingInv, BookingTypeOK, Txn
<1> HIDE DEF mid
<1>5. /\ GoesOn(s)
      /\ txn'[s].pc = "created" /\ txn'[s].kind = txn[s].kind /\ txn'[s].key = k
      /\ txn'[s].seen = txn[s].seen /\ txn'[s].made = n
  BY <1>1, <1>3, <1>4 DEF GoesOn, Txn
<1>6. BookingTypeOK'
  BY <1>1, <1>2, <1>5 DEF BookingInv, BookingTypeOK, GoesOn
<1>7. Ends(s)' = Ends(s)
  BY <1>5 DEF Ends
<1>8. RequestInv(s)'
  <2>1. RequestInv(s)
    BY DEF BookingInv
  <2> QED
    BY <1>1, <1>2, <1>3, <1>5, <1>7, <2>1 DEF RequestInv, Form, Locked, Holds, Prepares, At, Prepared,
                                             Ending, KeyFound
<1>9. EventKnown'
  <2> SUFFICES ASSUME NEW i \in Keys \ astray, NEW m \in Nat, <<i, m>> \in calendar',
                      ~(appt[i].status = "BOOKED" /\ m = appt[i].event)
               PROVE  \E r \in Sessions : Prepares(r)' /\ txn'[r].key = i /\ txn'[r].made = m
    BY <1>1 DEF EventKnown
  <2>1. CASE <<i, m>> = <<k, n>>
    BY <1>3, <1>5, <2>1 DEF Prepares
  <2>2. CASE <<i, m>> \in calendar
    <3>1. PICK r \in Sessions : Prepares(r) /\ txn[r].key = i /\ txn[r].made = m
      BY <2>2 DEF BookingInv, EventKnown
    <3> QED
      BY <1>2, <1>5, <3>1 DEF GoesOn, Prepares
  <2> QED
    BY <1>2, <2>1, <2>2
<1>10. EventThere'
  <2> SUFFICES ASSUME NEW i \in Keys \ astray, appt[i].status = "BOOKED",
                      <<i, appt[i].event>> \notin calendar'
               PROVE  \E r \in Sessions : Removed(r)' /\ Ends(r)' = i
    BY <1>1 DEF EventThere
  <2>1. PICK r \in Sessions : Removed(r) /\ Ends(r) = i
    BY <1>2 DEF BookingInv, EventThere
  <2> QED
    BY <1>2, <1>5, <2>1 DEF GoesOn, Removed, Ends
<1> QED
  BY <1>1, <1>2, <1>5, <1>6, <1>8, <1>9, <1>10, CalendarKeeps

LEMMA CreateLostKeeps ==
    ASSUME BookingInv, NEW s \in Sessions, CreateLost(s)
    PROVE  BookingInv'
<1> DEFINE k == txn[s].key
<1>1. /\ Creates(s) /\ UNCHANGED <<appt, overtaken>> /\ Unlock(s)
      /\ astray' = astray \cup {k} /\ txn' = [txn EXCEPT ![s] = Idle]
  BY DEF CreateLost, Creates
<1>2. /\ k \in Keys /\ ~Prepares(s) /\ ~Removed(s)
      /\ attempts' \in [Keys -> Nat] /\ calendar' \subseteq Keys \X Nat
      /\ calendar' = calendar \cup {<<k, attempts[k] + 1>>}
      /\ \A r \in Sessions : Prepares(r) => <<txn[r].key, txn[r].made>> \in calendar'
      /\ \A r \in Sessions : Removed(r) => <<Ends(r), txn[r].seen>> \notin calendar'
  BY <1>1, CreatesForms
<1>3. GoesOn(s) /\ RequestInv(s)' /\ ~Holds(s)'
  BY <1>1, IdleForms
<1>4. /\ calendarLock' = calendarLock \/ calendarLock \in {s, None}
      /\ BookingTypeOK'
  BY <1>1, <1>2, <1>3, UnlockForms DEF BookingInv, BookingTypeOK, GoesOn
<1>5. EventKnown'
  <2> SUFFICES ASSUME NEW i \in Keys \ astray', NEW m \in Nat, <<i, m>> \in calendar',
                      ~(appt[i].status = "BOOKED" /\ m = appt[i].event)
               PROVE  \E r \in Sessions : Prepares(r)' /\ txn'[r].key = i /\ txn'[r].made = m
    BY <1>1 DEF EventKnown
  <2>1. i # k /\ <<i, m>> \in calendar
    BY <1>1, <1>2
  <2>2. PICK r \in Sessions : Prepares(r) /\ txn[r].key = i /\ txn[r].made = m
    BY <1>1, <2>1 DEF BookingInv, EventKnown
  <2> QED
    BY <1>2, <1>3, <2>2 DEF GoesOn, Prepares
<1>6. EventThere'
  <2> SUFFICES ASSUME NEW i \in Keys \ astray', appt[i].status = "BOOKED",
                      <<i, appt[i].event>> \notin calendar'
               PROVE  \E r \in Sessions : Removed(r)' /\ Ends(r)' = i
    BY <1>1 DEF EventThere
  <2>1. PICK r \in Sessions : Removed(r) /\ Ends(r) = i
    BY <1>1, <1>2 DEF BookingInv, EventThere
  <2> QED
    BY <1>2, <1>3, <2>1 DEF GoesOn, Removed, Ends
<1> QED
  BY <1>1, <1>2, <1>3, <1>4, <1>5, <1>6, CalendarKeeps

LEMMA RemoveEventKeeps ==
    ASSUME BookingInv, NEW s \in Sessions, RemoveEvent(s)
    PROVE  BookingInv'
<1>1. /\ At(s, {"reschedule"}, "created") \/ At(s, {"cancel"}, "read")
      /\ calendar' = calendar \ {<<Ends(s), txn[s].seen>>}
      /\ txn' = [txn EXCEPT ![s].pc = "removed"]
      /\ UNCHANGED <<appt, attempts, calendarLock, rowLock, astray, overtaken>>
  BY DEF RemoveEvent, Goto
<1>2. \A r \in Sessions : RequestInv(r)
  BY DEF BookingInv
<1>3. /\ GoesOn(s) /\ BookingTypeOK'
      /\ txn'[s].pc = "removed" /\ txn'[s].kind = txn[s].kind /\ txn'[s].key = txn[s].key
      /\ txn'[s].seen = txn[s].seen /\ txn'[s].made = txn[s].made
  BY <1>1, <1>2 DEF GoesOn, BookingInv, BookingTypeOK, Txn
<1>4. Ends(s)' = Ends(s) /\ Ends(s) \in Keys /\ appt[Ends(s)].status # "ABSENT"
  <2>1. Ends(s) \in Keys
    BY <1>1, <1>2, EndsForms DEF At, RequestInv, BookingInv
  <2> QED
    BY <1>2, <1>3, <2>1 DEF Ends, RequestInv, Ending
<1>5. Prepares(s)' = Prepares(s) /\ Holds(s)' = Holds(s) /\ ~Removed(s) /\ Removed(s)'
  BY <1>1, <1>3, <1>4 DEF Prepares, Holds, Removed, At
<1>6. ASSUME NEW r \in Sessions, Prepares(r) PROVE <<txn[r].key, txn[r].made>> \in calendar'
  BY <1>1, <1>2, <1>4, <1>6 DEF RequestInv, Prepared, Locked, Holds
<1>7. ASSUME NEW r \in Sessions, Removed(r) PROVE <<Ends(r), txn[r].seen>> \notin calendar'
  BY <1>1, <1>2, <1>7 DEF RequestInv, Ending, Removed
<1>8. RequestInv(s)'
  <2>1. Form(s)' /\ Locked(s)' /\ KeyFound(s)'
    BY <1>1, <1>2, <1>3, <1>5 DEF RequestInv, Form, Locked, KeyFound, At, Idle
  <2>2. Prepared(s)'
    BY <1>3, <1>5, <1>6 DEF Prepared
  <2>3. <<Ends(s), txn[s].seen>> \notin calendar'
    BY <1>1
  <2>4. appt'[Ends(s)].status # "ABSENT" /\ appt'[Ends(s)].event = txn[s].seen
    BY <1>1, <1>2, <1>4 DEF RequestInv, Ending
  <2>5. Ending(s)'
    BY <1>3, <1>4, <2>3, <2>4 DEF Ending
  <2> QED
    BY <2>1, <2>2, <2>5 DEF RequestInv
<1>9. EventKnown'
  <2> SUFFICES ASSUME NEW i \in Keys \ astray, NEW m \in Nat, <<i, m>> \in calendar,
                      ~(appt[i].status = "BOOKED" /\ m = appt[i].event)
               PROVE  \E r \in Sessions : Prepares(r)' /\ txn'[r].key = i /\ txn'[r].made = m
    BY <1>1 DEF EventKnown
  <2>1. PICK r \in Sessions : Prepares(r) /\ txn[r].key = i /\ txn[r].made = m
    BY DEF BookingInv, EventKnown
  <2> QED
    BY <1>3, <1>5, <2>1 DEF GoesOn, Prepares
<1>10. EventThere'
  <2> SUFFICES ASSUME NEW i \in Keys \ astray, appt[i].status = "BOOKED",
                      <<i, appt[i].event>> \notin calendar'
               PROVE  \E r \in Sessions : Removed(r)' /\ Ends(r)' = i
    BY <1>1 DEF EventThere
  <2>1. CASE <<i, appt[i].event>> \in calendar
    BY <1>1, <1>4, <1>5, <2>1
  <2>2. CASE <<i, appt[i].event>> \notin calendar
    <3>1. PICK r \in Sessions : Removed(r) /\ Ends(r) = i
      BY <2>2 DEF BookingInv, EventThere
    <3> QED
      BY <1>3, <1>5, <3>1 DEF GoesOn, Removed, Ends
  <2> QED
    BY <2>1, <2>2
<1> QED
  BY <1>1, <1>3, <1>5, <1>6, <1>7, <1>8, <1>9, <1>10, CalendarKeeps

-----------------------------------------------------------------------------
(* Commits *)

\* The request of session s has committed: it has ended an appointment whose event it has
\* removed, booked one whose event it has created, or both.
Commits(s) ==
    /\ txn' = [txn EXCEPT ![s].pc = "committed"]
    /\ Unlock(s) /\ UNCHANGED <<calendar, attempts, astray>>
    /\ appt' \in [Keys -> Appt] /\ overtaken' \subseteq Keys
    /\ txn[s].kind # "idle"
    /\ \A i \in Keys : i # Ends(s) /\ ~(Prepares(s) /\ i = txn[s].key) => appt'[i] = appt[i]
    /\ Ends(s) \in Keys => /\ txn[s].pc = "removed"
                           /\ appt'[Ends(s)].event = appt[Ends(s)].event
                           /\ appt'[Ends(s)].status \in {"CANCELLED", "RESCHEDULED"}
    /\ Prepares(s) => appt'[txn[s].key] = [status |-> "BOOKED", event |-> txn[s].made]

LEMMA CommitForms ==
    ASSUME BookingInv, NEW s \in Sessions, Commits(s)
    PROVE  /\ GoesOn(s) /\ BookingTypeOK' /\ RowsKept(s) /\ RequestInv(s)'
           /\ ~Holds(s)' /\ ~Prepares(s)'
           /\ txn[s].key \in Keys /\ (Prepares(s) => Holds(s))
           /\ Prepares(s) => appt[txn[s].key].status = "ABSENT" /\ txn[s].key # Ends(s)
           /\ Ends(s) \in Keys => appt[Ends(s)].status # "ABSENT"
<1>1. txn[s] \in Txn /\ RequestInv(s)
  BY DEF BookingInv, BookingTypeOK
<1>2. /\ txn' \in [Sessions -> Txn] /\ GoesOn(s)
      /\ txn'[s].pc = "committed" /\ txn'[s].kind = txn[s].kind /\ txn'[s].key = txn[s].key
      /\ txn'[s].seen = txn[s].seen /\ txn'[s].made = txn[s].made
  BY <1>1 DEF Commits, GoesOn, BookingInv, BookingTypeOK, Txn
<1>3. BookingTypeOK'
  BY <1>2, UnlockForms DEF Commits, BookingInv, BookingTypeOK
<1>4. txn[s].key \in Keys /\ (Prepares(s) => Holds(s))
  BY <1>1 DEF Commits, RequestInv, Form, Holds
<1>5. ~Holds(s)' /\ ~Prepares(s)'
  BY <1>2 DEF Holds, Prepares, At
<1>6. /\ Ends(s)' = Ends(s)
      /\ Ends(s) \in Keys => appt[Ends(s)].status # "ABSENT" /\ appt[Ends(s)].event = txn[s].seen
  BY <1>1, <1>2 DEF Ends, RequestInv, Ending
<1>7. Prepares(s) => appt[txn[s].key].status = "ABSENT" /\ txn[s].key # Ends(s)
  BY <1>1, <1>4, <1>6 DEF RequestInv, Locked
<1>8. RowsKept(s)
  <2>1. calendarLock' = calendarLock \/ calendarLock \in {s, None}
    BY UnlockForms DEF Commits
  <2>2. ASSUME NEW k \in Keys, appt[k].status # "ABSENT"
        PROVE  appt'[k].status # "ABSENT" /\ appt'[k].event = appt[k].event
    BY <1>7, <2>2 DEF Commits
  <2>3. ASSUME NEW k \in Keys, appt'[k] # appt[k], appt[k].status = "ABSENT"
        PROVE  Holds(s) /\ k = txn[s].key
    BY <1>4, <1>6, <2>3 DEF Commits
  <2> QED
    BY <2>1, <2>2, <2>3 DEF RowsKept
<1>9. RequestInv(s)'
  <2>1. Form(s)' /\ Locked(s)' /\ Prepared(s)'
    BY <1>1, <1>2, <1>5 DEF RequestInv, Form, Locked, Prepared, Commits
  <2>2. KeyFound(s)'
    BY <1>2 DEF KeyFound
  <2>3. Ending(s)'
    BY <1>2, <1>6 DEF Ending, Commits
  <2> QED
    BY <2>1, <2>2, <2>3 DEF RequestInv
<1> QED
  BY <1>2, <1>3, <1>4, <1>5, <1>6, <1>7, <1>8, <1>9

LEMMA CommitKeepsBookings ==
    ASSUME BookingInv, NEW s \in Sessions, Commits(s), Succession'
    PROVE  BookingInv'
<1> DEFINE k == txn[s].key
<1>1. /\ GoesOn(s) /\ BookingTypeOK' /\ RowsKept(s) /\ RequestInv(s)'
      /\ ~Holds(s)' /\ ~Prepares(s)'
      /\ k \in Keys /\ (Prepares(s) => Holds(s))
      /\ Prepares(s) => appt[k].status = "ABSENT" /\ k # Ends(s)
      /\ Ends(s) \in Keys => appt[Ends(s)].status # "ABSENT"
  BY CommitForms
<1>2. \A r \in Sessions : RequestInv(r)
  BY DEF BookingInv
<1>3. ASSUME NEW r \in Sessions \ {s}
      PROVE  /\ txn'[r] = txn[r]
             /\ Holds(r)' = Holds(r) /\ Prepares(r)' = Prepares(r)
             /\ Ends(r)' = Ends(r) /\ Removed(r)' = Removed(r)
  BY <1>1 DEF GoesOn, Holds, At, Prepares, Ends, Removed
<1>4. ASSUME NEW r \in Sessions PROVE RequestInv(r)'
  <2>1. CASE r = s
    BY <1>1, <2>1
  <2>2. CASE r # s
    <3>1. UNCHANGED calendar
      BY DEF Commits
    <3>2. Prepares(r) => <<txn[r].key, txn[r].made>> \in calendar'
      BY <1>2, <3>1 DEF RequestInv, Prepared
    <3>3. Removed(r) => <<Ends(r), txn[r].seen>> \notin calendar'
      BY <1>2, <3>1 DEF RequestInv, Ending, Removed
    <3> QED
      BY <1>1, <2>2, <3>2, <3>3, OthersKeep
  <2> QED
    BY <2>1, <2>2
<1>5. EventKnown'
  <2> SUFFICES ASSUME NEW i \in Keys \ astray, NEW n \in Nat, <<i, n>> \in calendar,
                      ~(appt'[i].status = "BOOKED" /\ n = appt'[i].event)
               PROVE  \E r \in Sessions : Prepares(r)' /\ txn'[r].key = i /\ txn'[r].made = n
    BY DEF EventKnown, Commits
  <2>1. \/ appt[i].status = "BOOKED" /\ n = appt[i].event
        \/ \E r \in Sessions : Prepares(r) /\ txn[r].key = i /\ txn[r].made = n
    BY DEF BookingInv, EventKnown
  <2>2. CASE i = Ends(s)
    <3>1. <<i, appt[i].event>> \notin calendar
      BY <1>2, <2>2 DEF RequestInv, Ending, Commits
    <3>2. PICK r \in Sessions : Prepares(r) /\ txn[r].key = i /\ txn[r].made = n
      BY <2>1, <3>1
    <3>3. appt[i].status = "ABSENT"
      BY <1>2, <3>2 DEF RequestInv, Locked, Holds
    <3> QED
      BY <1>1, <2>2, <3>3
  <2>3. CASE Prepares(s) /\ i = k
    <3>1. PICK r \in Sessions : Prepares(r) /\ txn[r].key = i /\ txn[r].made = n
      BY <1>1, <2>1, <2>3
    <3>2. r = s
      BY <1>1, <2>3, <3>1, HoldsAlone DEF Holds
    <3> QED
      BY <2>3, <3>1, <3>2 DEF Commits
  <2>4. CASE i # Ends(s) /\ ~(Prepares(s) /\ i = k)
    <3>1. appt'[i] = appt[i]
      BY <2>4 DEF Commits
    <3>2. PICK r \in Sessions : Prepares(r) /\ txn[r].key = i /\ txn[r].made = n
      BY <2>1, <3>1
    <3> QED
      BY <1>3, <2>4, <3>2
  <2> QED
    BY <2>2, <2>3, <2>4
<1>6. EventThere'
  <2> SUFFICES ASSUME NEW i \in Keys \ astray, appt'[i].status = "BOOKED",
                      <<i, appt'[i].event>> \notin calendar
               PROVE  \E r \in Sessions : Removed(r)' /\ Ends(r)' = i
    BY DEF EventThere, Commits
  <2>1. i # Ends(s)
    BY DEF Commits
  <2>2. ~(Prepares(s) /\ i = k)
    BY <1>2 DEF RequestInv, Prepared, Commits
  <2>3. appt'[i] = appt[i]
    BY <2>1, <2>2 DEF Commits
  <2>4. PICK r \in Sessions : Removed(r) /\ Ends(r) = i
    BY <2>3 DEF BookingInv, EventThere
  <2> QED
    BY <1>3, <2>1, <2>4
<1>7. Apart'
  <2>1. Taken = {i \in Keys : \/ appt[i].status = "BOOKED"
                              \/ \E r \in Sessions : Holds(r) /\ txn[r].key = i}
    BY TakenForms DEF BookingInv
  <2>2. Taken' = {i \in Keys : \/ appt'[i].status = "BOOKED"
                               \/ \E r \in Sessions : Holds(r)' /\ txn'[r].key = i}
    BY <1>1 DEF Taken, Holds, Prepares, BookingTypeOK
  <2>3. ASSUME NEW i \in Keys, appt'[i].status = "BOOKED" PROVE i \in Taken
    <3>1. i # Ends(s)
      BY <2>3 DEF Commits
    <3>2. CASE Prepares(s) /\ i = k
      BY <1>1, <2>1, <3>2
    <3>3. CASE ~(Prepares(s) /\ i = k)
      <4>1. appt'[i] = appt[i]
        BY <3>1, <3>3 DEF Commits
      <4> QED
        BY <2>1, <2>3, <4>1
    <3> QED
      BY <3>2, <3>3
  <2>4. ASSUME NEW i \in Keys, NEW r \in Sessions, Holds(r)', txn'[r].key = i PROVE i \in Taken
    <3>1. r # s
      BY <1>1, <2>4
    <3> QED
      BY <1>3, <2>1, <2>4, <3>1
  <2>5. Taken' \subseteq Taken
    BY <2>2, <2>3, <2>4
  <2> QED
    BY <2>5, ApartKeeps DEF BookingInv
<1> QED
  BY <1>1, <1>4, <1>5, <1>6, <1>7 DEF BookingInv

\* An appointment that is over stays as it is.
OverStays == \A k \in Keys : appt[k].status \in {"CANCELLED", "RESCHEDULED"} =>
                 appt'[k] = appt[k] \/ k \in overtaken'

LEMMA BookCommitKeeps ==
    ASSUME BookingInv, NEW s \in Sessions, BookCommit(s)
    PROVE  Commits(s) /\ BookingInv' /\ OverStays
<1> USE BookingAssumption
<1> DEFINE k == txn[s].key
           row == [status |-> "BOOKED", event |-> txn[s].made]
<1>1. /\ At(s, {"book"}, "created")
      /\ appt' = [appt EXCEPT ![k] = row]
      /\ txn' = [txn EXCEPT ![s].pc = "committed"]
      /\ Unlock(s) /\ UNCHANGED <<calendar, attempts, astray, overtaken>>
  BY DEF BookCommit, Goto
<1>2. RequestInv(s) /\ txn[s] \in Txn
  BY DEF BookingInv, BookingTypeOK
<1>3. /\ txn[s].kind = "book" /\ k \in Keys /\ From[k] = None /\ txn[s].made # 0
      /\ Prepares(s) /\ Ends(s) = None
  BY <1>1, <1>2 DEF RequestInv, Form, At, Prepares, Ends
<1>4. row \in Appt
  BY <1>2 DEF Appt, Txn
<1>5. /\ appt' \in [Keys -> Appt] /\ appt'[k] = row
      /\ \A i \in Keys \ {k} : appt'[i] = appt[i]
  BY <1>1, <1>3, <1>4 DEF BookingInv, BookingTypeOK
<1>6. overtaken' \subseteq Keys
  BY <1>1 DEF BookingInv, BookingTypeOK
<1>7. Commits(s)
  BY <1>1, <1>3, <1>5, <1>6 DEF Commits
<1>8. appt[k].status = "ABSENT"
  BY <1>3, <1>7, CommitForms
<1>9. Succession'
  <2> SUFFICES ASSUME NEW a \in Keys \ overtaken
               PROVE  IF appt'[a].status = "RESCHEDULED" THEN \E i \in Keys : Successors(a)' = {i}
                                                         ELSE Successors(a)' = {}
    BY <1>1 DEF Succession
  <2>1. Successors(a)' = Successors(a)
    BY <1>3, <1>5 DEF Successors
  <2>2. appt'[a].status = "RESCHEDULED" <=> appt[a].status = "RESCHEDULED"
    BY <1>5, <1>8
  <2> QED
    BY <2>1, <2>2 DEF BookingInv, Succession
<1>10. OverStays
  BY <1>5, <1>8 DEF OverStays
<1> QED
  BY <1>7, <1>9, <1>10, CommitKeepsBookings

LEMMA EndCommitKeeps ==
    ASSUME BookingInv, NEW s \in Sessions, EndCommit(s)
    PROVE  Commits(s) /\ BookingInv' /\ OverStays
<1> USE BookingAssumption
<1> DEFINE k == txn[s].key
           a == Ends(s)
           end == EndStatus(s)
           row == [status |-> "BOOKED", event |-> txn[s].made]
           old == [appt[a] EXCEPT !.status = end]
<1>1. /\ At(s, {"reschedule", "cancel"}, "removed")
      /\ appt' = Settled(s, a, end)
      /\ overtaken' = IF appt[a].status = "BOOKED" THEN overtaken ELSE overtaken \cup {a}
      /\ txn' = [txn EXCEPT ![s].pc = "committed"]
      /\ Unlock(s) /\ UNCHANGED <<calendar, attempts, astray>>
  BY DEF EndCommit, Goto
<1>2. RequestInv(s) /\ txn[s] \in Txn /\ BookingTypeOK
  BY DEF BookingInv, BookingTypeOK
<1>3. /\ k \in Keys /\ a \in Keys /\ txn[s].kind \in {"reschedule", "cancel"}
      /\ txn[s].kind = "reschedule" => a = From[k]
      /\ txn[s].kind = "cancel" => a = k /\ txn[s].made = 0
      /\ txn[s].pc = "removed"
  BY <1>1, <1>2, EndsForms DEF RequestInv, Form, At
<1>4. Prepares(s) <=> txn[s].made # 0
  BY <1>3 DEF Prepares
<1>5. /\ appt[a].status # "ABSENT"
      /\ Prepares(s) => appt[k].status = "ABSENT" /\ k # a
  BY <1>2, <1>3 DEF RequestInv, Ending, Locked, Holds
<1>6. end \in {"CANCELLED", "RESCHEDULED"} /\ (end = "CANCELLED" <=> txn[s].kind = "cancel")
  BY DEF EndStatus
<1>7. /\ old \in Appt /\ old.status = end /\ old.event = appt[a].event
      /\ row \in Appt
  BY <1>2, <1>3, <1>6 DEF Appt, BookingTypeOK, Txn
<1>8. /\ appt'[a] = old
      /\ Prepares(s) => appt'[k] = row
      /\ \A i \in Keys : i # a /\ ~(Prepares(s) /\ i = k) => appt'[i] = appt[i]
  BY <1>1, <1>3, <1>4, <1>5 DEF Settled
<1>9. appt' \in [Keys -> Appt]
  <2>1. ASSUME NEW i \in Keys PROVE appt'[i] \in Appt
    BY <1>2, <1>7, <1>8 DEF BookingTypeOK
  <2>2. appt' = [i \in Keys |-> appt'[i]]
    BY <1>1 DEF Settled
  <2> QED
    BY <2>1, <2>2
<1>10. overtaken' \subseteq Keys /\ overtaken \subseteq overtaken'
  BY <1>1, <1>2, <1>3 DEF BookingTypeOK
<1> HIDE DEF old, row, end, a
<1>11. Commits(s)
  BY <1>1, <1>3, <1>6, <1>7, <1>8, <1>9, <1>10 DEF Commits, a, row
<1>12. Succession'
  <2> SUFFICES ASSUME NEW b \in Keys \ overtaken'
               PROVE  IF appt'[b].status = "RESCHEDULED" THEN \E i \in Keys : Successors(b)' = {i}
                                                         ELSE Successors(b)' = {}
    BY DEF Succession
  <2>1. IF appt[b].status = "RESCHEDULED" THEN \E i \in Keys : Successors(b) = {i}
                                          ELSE Successors(b) = {}
    BY <1>10 DEF BookingInv, Succession
  <2>2. \A i \in Keys : i # k \/ ~Prepares(s) =>
                          (appt'[i].status # "ABSENT" <=> appt[i].status # "ABSENT")
    BY <1>5, <1>6, <1>7, <1>8
  <2>3. CASE b # a
    <3>1. appt'[b].status = "RESCHEDULED" <=> appt[b].status = "RESCHEDULED"
      BY <1>5, <1>8, <2>3 DEF row
    <3>2. Prepares(s) => From[k] # b
      BY <1>3, <1>4, <2>3
    <3>3. Successors(b)' = Successors(b)
      BY <2>2, <3>2 DEF Successors
    <3> QED
      BY <2>1, <3>1, <3>3
  <2>4. CASE b = a
    <3>1. appt[b].status = "BOOKED" /\ Successors(b) = {} /\ appt'[b].status = end
      BY <1>1, <1>7, <1>8, <2>1, <2>4
    <3>2. CASE txn[s].kind = "cancel"
      <4>1. ~Prepares(s)
        BY <1>3, <1>4, <3>2
      <4>2. Successors(b)' = Successors(b)
        BY <2>2, <4>1 DEF Successors
      <4> QED
        BY <1>6, <3>1, <3>2, <4>2
    <3>3. CASE txn[s].kind = "reschedule"
      <4>1. From[k] = b /\ appt[k].status = "ABSENT"
        BY <1>3, <2>4, <3>1, <3>3 DEF Successors
      <4>2. Prepares(s)
        BY <1>2, <1>3, <1>4, <3>3, <4>1 DEF RequestInv, KeyFound
      <4>3. appt'[k].status # "ABSENT"
        BY <1>8, <4>2 DEF row
      <4>4. Successors(b)' = {k}
        BY <1>3, <2>2, <3>1, <4>1, <4>3 DEF Successors
      <4>5. appt'[b].status = "RESCHEDULED"
        BY <1>6, <3>1, <3>3
      <4> QED
        BY <1>3, <4>4, <4>5
    <3> QED
      BY <1>3, <3>2, <3>3
  <2> QED
    BY <2>3, <2>4
<1>13. OverStays
  <2> SUFFICES ASSUME NEW i \in Keys, appt[i].status \in {"CANCELLED", "RESCHEDULED"},
                      i \notin overtaken'
               PROVE  appt'[i] = appt[i]
    BY DEF OverStays
  <2>1. i # a
    BY <1>1
  <2>2. ~(Prepares(s) /\ i = k)
    BY <1>5
  <2> QED
    BY <1>8, <2>1, <2>2
<1> QED
  BY <1>11, <1>12, <1>13, CommitKeepsBookings

-----------------------------------------------------------------------------
(* The theorem *)

LEMMA BookingStepKeeps == BookingInv /\ [BookingNext]_bookingVars => BookingInv' /\ OverStays
<1> SUFFICES ASSUME BookingInv, [BookingNext]_bookingVars PROVE BookingInv' /\ OverStays
  OBVIOUS
<1>1. CASE UNCHANGED bookingVars
  <2> USE <1>1 DEF bookingVars
  <2>1. BookingTypeOK'
    BY DEF BookingInv, BookingTypeOK
  <2>2. ASSUME NEW s \in Sessions PROVE RequestInv(s)'
    <3>1. RequestInv(s)
      BY DEF BookingInv
    <3>2. Form(s)' /\ Locked(s)' /\ Prepared(s)'
      BY <3>1 DEF RequestInv, Form, Locked, Holds, Prepares, At, Prepared
    <3>3. Ending(s)' /\ KeyFound(s)'
      BY <3>1 DEF RequestInv, Ending, Ends, KeyFound, At
    <3> QED
      BY <3>2, <3>3 DEF RequestInv
  <2>3. EventKnown' /\ EventThere'
    <3>1. EventKnown'
      BY DEF BookingInv, EventKnown, Prepares, At
    <3>2. EventThere'
      BY DEF BookingInv, EventThere, Removed, Ends
    <3> QED
      BY <3>1, <3>2
  <2>4. Apart' /\ Succession'
    <3>1. Taken' = Taken
      BY DEF Taken, At
    <3>2. Succession'
      BY DEF BookingInv, Succession, Successors
    <3> QED
      BY <3>1, <3>2 DEF BookingInv, Apart
  <2>5. BookingInv'
    BY <2>1, <2>2, <2>3, <2>4 DEF BookingInv
  <2> QED
    BY <2>5 DEF OverStays
<1>2. ASSUME NEW s \in Sessions, NEW k \in Keys, Receive(s, k) PROVE BookingInv' /\ OverStays
  BY <1>2, ReceiveKeeps DEF Receive, BookRead, RescheduleRead, CancelRead, Begin, OverStays
<1>3. ASSUME NEW s \in Sessions, Handle(s) PROVE BookingInv' /\ OverStays
  <2>1. BookingInv'
    BY <1>3, RowInsertKeeps, CreateEventKeeps, CreateLostKeeps, FlushKeeps, RemoveEventKeeps,
       AbortKeeps DEF Handle
  <2>2. UNCHANGED appt
    BY <1>3 DEF Handle, Insert, CreateEvent, CreateLost, Creates, RescheduleFlush, RemoveEvent, Abort
  <2> QED
    BY <2>1, <2>2 DEF OverStays
<1>4. ASSUME NEW s \in Sessions, Respond(s) PROVE BookingInv' /\ OverStays
  BY <1>4, RespondKeeps DEF Respond, OverStays
<1> QED
  BY <1>1, <1>2, <1>3, <1>4, BookCommitKeeps, EndCommitKeeps DEF BookingNext

\* No two appointments are booked closer than the buffer, whatever requests overlap, fail or are
\* cut off; the calendar of the provider and the table agree but for a request on its way and the
\* keys on whose event one was cut off; an appointment is replaced by one at most, and one that
\* is over stays as it is, but for those that two requests ended at once (book, reschedule and
\* cancel of the scheduling service).
THEOREM BookingsHoldAlways == BookingSpec => BookingsHold
<1>1. BookingInit => BookingInv
  BY BookingInitInv
<1>2. BookingInv /\ [BookingNext]_bookingVars => BookingInv'
  BY BookingStepKeeps
<1>3. BookingInv /\ [BookingNext]_bookingVars => [BookingStep]_bookingVars
  <2> SUFFICES ASSUME BookingInv, [BookingNext]_bookingVars PROVE BookingStep
    OBVIOUS
  <2>1. BookingInv' /\ OverStays
    BY BookingStepKeeps
  <2>2. BookingInv' => BookingsAgree'
    BY BookingInvAgrees, PTL
  <2> QED
    BY <2>1, <2>2 DEF BookingStep, OverStays
<1> QED
  BY <1>1, <1>2, <1>3, PTL DEF BookingSpec, BookingsHold

-----------------------------------------------------------------------------
(* Notifications and their use by scheduling *)

(***************************************************************************)
(* A note's message was handed over less often than it was claimed, and a  *)
(* note that will be sent was not sent before, unless it is in unsure.     *)
(***************************************************************************)
Unsent(n) == sent[n] = 0 \/ n \in unsure

NoteInv(n) ==
    /\ note[n].tries <= MaxTries /\ sent[n] <= note[n].tries
    /\ sent[n] <= 1 \/ n \in unsure
    /\ note[n].status = "ABSENT" => sent[n] = 0
    /\ note[n].status = "SCHEDULED" => note[n].tries < MaxTries /\ Unsent(n)
    /\ note[n].status = "SENT" => sent[n] > 0
    /\ note[n].logged => note[n].status \in {"SENT", "FAILED"} /\ sent[n] > 0

WorkerInv(d) ==
    /\ sending[d] \subseteq batch[d]
    /\ \A m, n \in sending[d] : m = n
    /\ \A n \in batch[d] : note[n].status = "SENDING"
    /\ \A n \in batch[d] \ sending[d] : sent[n] < note[n].tries /\ Unsent(n)
    /\ \A n \in sending[d] : sent[n] > 0

Alone == \A c, d \in Deliverers : c # d => batch[c] \cap batch[d] = {}

QueueInv ==
    /\ QueueTypeOK
    /\ \A n \in Notes : NoteInv(n)
    /\ \A d \in Deliverers : WorkerInv(d)
    /\ Alone

LEMMA QueueInvSent == QueueInv => SentOnce
<1> SUFFICES ASSUME QueueInv PROVE SentOnce
  OBVIOUS
<1>1. ClaimedOnce
  BY DEF QueueInv, ClaimedOnce, WorkerInv, Alone
<1>2. ASSUME NEW n \in Notes
      PROVE  (sent[n] > 1 => n \in unsure) /\ sent[n] <= MaxTries /\ (note[n].status = "SENT" => sent[n] > 0)
  BY NoteAssumption DEF QueueInv, NoteInv, QueueTypeOK, Note
<1> QED
  BY <1>1, <1>2 DEF SentOnce

LEMMA QueueInitInv == QueueInit => QueueInv
BY NoteAssumption DEF QueueInit, QueueInv, QueueTypeOK, NoteInv, WorkerInv, Alone, NoNote, Note, Unsent

\* A step that changes notes that no worker holds, and no more.
LEMMA NotesMove ==
    ASSUME QueueInv, note' \in [Notes -> Note],
           UNCHANGED <<batch, sending, sent, unsure>>,
           \A n \in Notes : note'[n] = note[n] \/ (NoteInv(n)' /\ note[n].status # "SENDING")
    PROVE  QueueInv'
<1>1. QueueTypeOK'
  BY DEF QueueInv, QueueTypeOK
<1>2. \A n \in Notes : NoteInv(n)'
  BY DEF QueueInv, NoteInv, Unsent
<1>3. ASSUME NEW d \in Deliverers PROVE WorkerInv(d)'
  <2>1. \A n \in batch[d] : n \in Notes /\ note'[n] = note[n]
    BY DEF QueueInv, WorkerInv, QueueTypeOK
  <2> QED
    BY <2>1 DEF QueueInv, WorkerInv, Unsent
<1> QED
  BY <1>1, <1>2, <1>3 DEF QueueInv, Alone

LEMMA EnqueueKeeps ==
    ASSUME QueueInv, NEW n \in Notes, Enqueue(n)
    PROVE  QueueInv' /\ \A m \in Notes : note'[m] = note[m] \/ (m = n /\ note[n].status = "ABSENT")
<1>1. CASE UNCHANGED note
  BY <1>1, NotesMove DEF Enqueue, QueueInv, QueueTypeOK
<1>2. CASE note[n].status = "ABSENT" /\ ~UNCHANGED note
  <2>1. PICK q \in {[NoNote EXCEPT !.status = "SCHEDULED", !.due = TRUE],
                    [NoNote EXCEPT !.status = "SCHEDULED", !.due = FALSE],
                    [NoNote EXCEPT !.status = "CANCELLED", !.due = TRUE]} :
            note' = [note EXCEPT ![n] = q]
    BY <1>2 DEF Enqueue
  <2>2. q \in Note /\ q.tries = 0 /\ q.logged = FALSE /\ q.status \in {"SCHEDULED", "CANCELLED"}
    <3>1. NoNote = [status |-> "ABSENT", due |-> FALSE, tries |-> 0, logged |-> FALSE]
      BY DEF NoNote
    <3>2. \E st \in {"SCHEDULED", "CANCELLED"}, b \in BOOLEAN :
            q = [status |-> st, due |-> b, tries |-> 0, logged |-> FALSE]
      BY <3>1
    <3> QED
      BY <3>2 DEF Note
  <2>3. note' \in [Notes -> Note] /\ note'[n] = q /\ \A m \in Notes \ {n} : note'[m] = note[m]
    BY <2>1, <2>2 DEF QueueInv, QueueTypeOK
  <2>4. UNCHANGED <<batch, sending, sent, unsure>>
    BY DEF Enqueue
  <2>5. sent[n] = 0
    BY <1>2 DEF QueueInv, NoteInv
  <2>6. NoteInv(n)'
    BY <2>2, <2>3, <2>4, <2>5, NoteAssumption DEF NoteInv, Unsent
  <2> QED
    BY <1>2, <2>3, <2>4, <2>6, NotesMove
<1> QED
  BY <1>1, <1>2 DEF Enqueue

LEMMA CancelKeeps ==
    ASSUME QueueInv, NEW N \in SUBSET Notes, CancelRelated(N)
    PROVE  /\ QueueInv'
           /\ \A n \in Notes : IF n \in Cancellable(N) THEN note'[n].status = "CANCELLED"
                                                       ELSE note'[n] = note[n]
<1>1. note \in [Notes -> Note]
  BY DEF QueueInv, QueueTypeOK
<1>2. \A n \in Notes : IF n \in Cancellable(N) THEN note'[n] = [note[n] EXCEPT !.status = "CANCELLED"]
                                               ELSE note'[n] = note[n]
  BY DEF CancelRelated
<1>3. \A n \in Cancellable(N) :
        /\ note'[n] \in Note /\ note'[n].status = "CANCELLED"
        /\ note'[n].tries = note[n].tries /\ note'[n].logged = note[n].logged
        /\ note[n].status = "SCHEDULED"
  <2>1. ASSUME NEW n \in Cancellable(N)
        PROVE  /\ note'[n] = [note[n] EXCEPT !.status = "CANCELLED"] /\ note[n] \in Note
               /\ note[n].status = "SCHEDULED"
    BY <1>1, <1>2 DEF Cancellable
  <2> QED
    BY <2>1 DEF Note
<1>4. note' \in [Notes -> Note]
  <2>1. \A n \in Notes : note'[n] \in Note
    BY <1>1, <1>2, <1>3
  <2> QED
    BY <2>1 DEF CancelRelated
<1>5. ASSUME NEW n \in Cancellable(N) PROVE NoteInv(n)'
  <2>1. NoteInv(n) /\ n \in Notes
    BY DEF Cancellable, QueueInv
  <2>2. UNCHANGED <<sent, unsure>>
    BY DEF CancelRelated
  <2> QED
    BY <1>3, <2>1, <2>2 DEF NoteInv
<1> QED
  BY <1>2, <1>3, <1>4, <1>5, NotesMove DEF CancelRelated

(***************************************************************************)
(* The queue by itself.  Where it leaves a note due or being sent, it      *)
(* found it so; and it cancels none that waits.                            *)
(***************************************************************************)
Waiting(n) == note[n].status \in {"SCHEDULED", "SENDING"}

QueueMoves(n) ==
    /\ Waiting(n)' => Waiting(n)
    /\ note'[n].status = "CANCELLED" => note[n].status # "SCHEDULED"
    /\ note'[n].status = "ABSENT" <=> note[n].status = "ABSENT"

LEMMA NoteSteps ==
    ASSUME QueueInv, NEW n \in Notes, Due(n) \/ Report(n)
    PROVE  QueueInv' /\ \A m \in Notes : QueueMoves(m)
<1>1. PICK q : /\ note' = [note EXCEPT ![n] = q]
               /\ \/ note[n].status = "SCHEDULED" /\ q = [note[n] EXCEPT !.due = TRUE]
                  \/ note[n].logged /\ \E v \in {"SENT", "FAILED"} : q = [note[n] EXCEPT !.status = v]
  <2>1. CASE Due(n)
    BY <2>1 DEF Due
  <2>2. CASE Report(n)
    BY <2>2 DEF Report
  <2> QED
    BY <2>1, <2>2
<1>2. note[n] \in Note /\ NoteInv(n)
  BY DEF QueueInv, QueueTypeOK
<1>3. /\ q \in Note /\ q.tries = note[n].tries /\ q.logged = note[n].logged
      /\ \/ note[n].status = "SCHEDULED" /\ q.status = "SCHEDULED"
         \/ note[n].logged /\ q.status \in {"SENT", "FAILED"}
  BY <1>1, <1>2 DEF Note
<1>4. note' \in [Notes -> Note] /\ note'[n] = q /\ \A m \in Notes \ {n} : note'[m] = note[m]
  BY <1>1, <1>3 DEF QueueInv, QueueTypeOK
<1>5. UNCHANGED <<batch, sending, sent, unsure>>
  BY DEF Due, Report
<1>6. NoteInv(n)' /\ note[n].status # "SENDING"
  BY <1>2, <1>3, <1>4, <1>5 DEF NoteInv, Unsent
<1>7. QueueMoves(n)
  BY <1>2, <1>3, <1>4 DEF QueueMoves, Waiting, NoteInv
<1> QED
  BY <1>4, <1>5, <1>6, <1>7, NotesMove DEF QueueMoves, Waiting

LEMMA ClaimKeeps ==
    ASSUME QueueInv, NEW d \in Deliverers, Claim(d)
    PROVE  QueueInv' /\ \A m \in Notes : QueueMoves(m)
<1>1. PICK B \in SUBSET Claimable :
        /\ batch' = [batch EXCEPT ![d] = B]
        /\ note' = [n \in Notes |-> IF n \in B THEN [note[n] EXCEPT !.status = "SENDING", !.tries = @ + 1]
                                               ELSE note[n]]
  BY Zenon DEF Claim
<1>2. batch[d] = {} /\ UNCHANGED <<sending, sent, unsure>>
  BY DEF Claim
<1>3. \A n \in B : /\ n \in Notes /\ note[n].status = "SCHEDULED" /\ note[n] \in Note
                   /\ note'[n] \in Note /\ note'[n].status = "SENDING"
                   /\ note'[n].tries = note[n].tries + 1 /\ note'[n].logged = note[n].logged
  <2>1. ASSUME NEW n \in B
        PROVE  /\ note'[n] = [note[n] EXCEPT !.status = "SENDING", !.tries = note[n].tries + 1]
               /\ n \in Notes /\ note[n].status = "SCHEDULED" /\ note[n] \in Note
    BY <1>1 DEF Claimable, QueueInv, QueueTypeOK
  <2>2. ASSUME NEW n \in B
        PROVE  /\ note'[n] \in Note /\ note'[n].status = "SENDING"
               /\ note'[n].tries = note[n].tries + 1 /\ note'[n].logged = note[n].logged
    <3> DEFINE q == [note[n] EXCEPT !.status = "SENDING", !.tries = note[n].tries + 1]
    <3>1. note[n] \in Note /\ note[n].tries + 1 \in Nat
      <4>1. n \in Notes
        BY <2>2 DEF Claimable
      <4>2. note[n] \in Note
        BY <4>1 DEF QueueInv, QueueTypeOK
      <4> QED
        BY <4>2 DEF Note
    <3>2. /\ q \in Note /\ q.status = "SENDING" /\ q.tries = note[n].tries + 1
          /\ q.logged = note[n].logged
      BY <3>1 DEF Note
    <3>3. note'[n] = q
      BY <2>1
    <3> HIDE DEF q
    <3> QED
      BY <3>2, <3>3
  <2> QED
    BY <2>1, <2>2
<1>4. \A n \in Notes \ B : note'[n] = note[n]
  BY <1>1
<1>5. QueueTypeOK'
  <2>1. \A n \in Notes : note'[n] \in Note
    BY <1>3, <1>4 DEF QueueInv, QueueTypeOK
  <2>2. note' \in [Notes -> Note]
    BY <1>1, <2>1
  <2>3. B \subseteq Notes
    BY <1>3
  <2> QED
    BY <1>1, <1>2, <2>2, <2>3 DEF QueueInv, QueueTypeOK
<1>6. ASSUME NEW n \in Notes PROVE NoteInv(n)' /\ QueueMoves(n)
  <2>1. NoteInv(n) /\ sent[n] \in Nat /\ note[n].tries \in Nat
    BY DEF QueueInv, QueueTypeOK, Note
  <2>2. CASE n \in B
    BY <1>2, <1>3, <2>1, <2>2, NoteAssumption DEF NoteInv, QueueMoves, Waiting, Unsent
  <2>3. CASE n \notin B
    BY <1>2, <1>4, <2>1, <2>3 DEF NoteInv, QueueMoves, Waiting, Unsent
  <2> QED
    BY <2>2, <2>3
<1>7. batch'[d] = B /\ \A c \in Deliverers \ {d} : batch'[c] = batch[c]
  BY <1>1 DEF QueueInv, QueueTypeOK
<1>8. ASSUME NEW c \in Deliverers, c # d PROVE WorkerInv(c)' /\ batch[c] \cap B = {}
  <2>1. WorkerInv(c) /\ batch[c] \subseteq Notes
    BY DEF QueueInv, QueueTypeOK
  <2>2. batch[c] \cap B = {}
    BY <1>3, <2>1 DEF WorkerInv
  <2>3. \A n \in batch[c] : note'[n] = note[n]
    BY <1>4, <2>1, <2>2
  <2> QED
    BY <1>2, <1>7, <1>8, <2>1, <2>2, <2>3 DEF WorkerInv, Unsent
<1>9. WorkerInv(d)'
  <2>1. sending[d] = {}
    BY <1>2 DEF QueueInv, WorkerInv
  <2>2. ASSUME NEW n \in B PROVE sent[n] < note'[n].tries /\ Unsent(n)
    <3>1. NoteInv(n) /\ sent[n] \in Nat /\ note[n].tries \in Nat
      BY <1>3 DEF QueueInv, QueueTypeOK, Note
    <3> QED
      BY <1>3, <3>1 DEF NoteInv
  <2> QED
    BY <1>2, <1>3, <1>7, <2>1, <2>2 DEF WorkerInv, Unsent
<1>10. Alone'
  BY <1>7, <1>8 DEF Alone, QueueInv
<1> QED
  BY <1>5, <1>6, <1>8, <1>9, <1>10 DEF QueueInv

LEMMA SendKeepsQueue ==
    ASSUME QueueInv, NEW d \in Deliverers, NEW n \in Notes, Send(d, n)
    PROVE  QueueInv' /\ \A m \in Notes : QueueMoves(m)
<1>1. /\ n \in batch[d] /\ sending[d] = {} /\ note[n].status = "SENDING"
      /\ sending' = [sending EXCEPT ![d] = {n}] /\ sent' = [sent EXCEPT ![n] = @ + 1]
      /\ UNCHANGED <<note, batch, unsure>>
  BY DEF Send
<1>2. sent[n] \in Nat /\ sent[n] < note[n].tries /\ Unsent(n) /\ note[n].tries \in Nat
  BY <1>1 DEF QueueInv, WorkerInv, QueueTypeOK, Note
<1>3. /\ sent' \in [Notes -> Nat] /\ sent'[n] = sent[n] + 1
      /\ \A m \in Notes \ {n} : sent'[m] = sent[m]
      /\ sending' \in [Deliverers -> SUBSET Notes] /\ sending'[d] = {n}
      /\ \A c \in Deliverers \ {d} : sending'[c] = sending[c]
  BY <1>1 DEF QueueInv, QueueTypeOK
<1>4. QueueTypeOK'
  BY <1>1, <1>3 DEF QueueInv, QueueTypeOK
<1>5. ASSUME NEW m \in Notes PROVE NoteInv(m)'
  <2>1. NoteInv(m)
    BY DEF QueueInv
  <2>2. CASE m = n
    BY <1>1, <1>2, <1>3, <2>1, <2>2 DEF NoteInv, Unsent
  <2>3. CASE m # n
    BY <1>1, <1>3, <2>1, <2>3 DEF NoteInv, Unsent
  <2> QED
    BY <2>2, <2>3
<1>6. ASSUME NEW c \in Deliverers, c # d PROVE WorkerInv(c)'
  <2>1. n \notin batch[c] /\ WorkerInv(c) /\ batch[c] \subseteq Notes
    BY <1>1, <1>6 DEF QueueInv, Alone, QueueTypeOK
  <2> QED
    BY <1>1, <1>3, <1>6, <2>1 DEF WorkerInv, Unsent
<1>7. WorkerInv(d)'
  <2>1. WorkerInv(d) /\ batch[d] \subseteq Notes
    BY DEF QueueInv, QueueTypeOK
  <2>2. sent'[n] > 0
    BY <1>2, <1>3
  <2> QED
    BY <1>1, <1>3, <2>1, <2>2 DEF WorkerInv, Unsent
<1>8. Alone'
  BY <1>1 DEF QueueInv, Alone
<1> QED
  BY <1>1, <1>4, <1>5, <1>6, <1>7, <1>8 DEF QueueInv, QueueMoves, Waiting

\* A worker puts a note of its batch down as q.
LEMMA FinishKeeps ==
    ASSUME QueueInv, NEW d \in Deliverers, NEW n \in Notes, NEW q \in Note, Finish(d, n, q),
           n \in batch[d], sending[d] \subseteq {n},
           UNCHANGED sent, unsure \subseteq unsure', unsure' \subseteq Notes,
           q.tries = note[n].tries, q.status \notin {"ABSENT", "SENDING"},
           q.status = "SCHEDULED" => q.tries < MaxTries /\ Unsent(n)',
           q.status = "SENT" => sent[n] > 0,
           q.logged => q.status \in {"SENT", "FAILED"} /\ sent[n] > 0
    PROVE  QueueInv' /\ \A m \in Notes : QueueMoves(m)
<1>1. /\ note' \in [Notes -> Note] /\ note'[n] = q /\ \A m \in Notes \ {n} : note'[m] = note[m]
      /\ batch' \in [Deliverers -> SUBSET Notes] /\ batch'[d] = batch[d] \ {n}
      /\ sending' \in [Deliverers -> SUBSET Notes] /\ sending'[d] = {}
      /\ \A c \in Deliverers \ {d} : batch'[c] = batch[c] /\ sending'[c] = sending[c]
  BY DEF Finish, QueueInv, QueueTypeOK
<1>2. QueueTypeOK'
  BY <1>1 DEF QueueInv, QueueTypeOK
<1>3. note[n].status = "SENDING" /\ \A c \in Deliverers \ {d} : n \notin batch[c]
  BY DEF QueueInv, WorkerInv, Alone
<1>4. ASSUME NEW m \in Notes PROVE NoteInv(m)' /\ QueueMoves(m)
  <2>1. NoteInv(m) /\ NoteInv(n)
    BY DEF QueueInv
  <2>2. CASE m = n
    BY <1>1, <1>3, <2>1, <2>2 DEF NoteInv, Unsent, QueueMoves, Waiting
  <2>3. CASE m # n
    BY <1>1, <2>1, <2>3 DEF NoteInv, Unsent, QueueMoves, Waiting
  <2> QED
    BY <2>2, <2>3
<1>5. ASSUME NEW c \in Deliverers PROVE WorkerInv(c)'
  <2>1. WorkerInv(c) /\ batch[c] \subseteq Notes
    BY DEF QueueInv, QueueTypeOK
  <2>2. n \notin batch'[c] /\ \A m \in batch'[c] : m \in batch[c] /\ note'[m] = note[m]
    BY <1>1, <1>3, <2>1
  <2>3. sending'[c] \subseteq sending[c] /\ \A m \in batch'[c] \ sending'[c] : m \notin sending[c]
    BY <1>1, <2>2
  <2>4. sending'[c] \subseteq batch'[c]
    BY <1>1, <1>3, <2>1 DEF WorkerInv
  <2> QED
    BY <2>1, <2>2, <2>3, <2>4 DEF WorkerInv, Unsent
<1>6. Alone'
  BY <1>1 DEF QueueInv, Alone
<1> QED
  BY <1>2, <1>4, <1>5, <1>6 DEF QueueInv

LEMMA DeliverKeeps ==
    ASSUME QueueInv, NEW d \in Deliverers, Deliver(d)
    PROVE  QueueInv' /\ \A m \in Notes : QueueMoves(m)
<1>1. PICK n \in Notes : Send(d, n) \/ Delivered(d, n) \/ Skipped(d, n) \/ Refused(d, n)
  BY DEF Deliver
<1>2. /\ note[n] \in Note /\ NoteInv(n) /\ WorkerInv(d) /\ sent[n] \in Nat /\ unsure \subseteq Notes
      /\ sending[d] \subseteq Notes
  BY DEF QueueInv, QueueTypeOK
<1>3. CASE Delivered(d, n)
  <2> DEFINE q == [note[n] EXCEPT !.status = "SENT", !.logged = TRUE]
  <2>1. q \in Note /\ q.tries = note[n].tries /\ q.status = "SENT"
    BY <1>2 DEF Note
  <2>2. Finish(d, n, q) /\ n \in sending[d] /\ UNCHANGED <<sent, unsure>>
    BY <1>3 DEF Delivered
  <2>3. n \in batch[d] /\ sending[d] \subseteq {n} /\ sent[n] > 0
    BY <1>2, <2>2 DEF WorkerInv
  <2> HIDE DEF q
  <2> QED
    BY <1>2, <2>1, <2>2, <2>3, FinishKeeps
<1>4. CASE Skipped(d, n)
  <2> DEFINE q == [note[n] EXCEPT !.status = "CANCELLED"]
  <2>1. /\ Finish(d, n, q) /\ n \in batch[d] /\ sending[d] = {} /\ UNCHANGED <<sent, unsure>>
    BY <1>4 DEF Skipped
  <2>2. note[n].status = "SENDING"
    BY <1>2, <2>1 DEF WorkerInv
  <2>3. ~note[n].logged
    BY <1>2, <2>2 DEF NoteInv
  <2>4. q \in Note /\ q.tries = note[n].tries /\ q.status = "CANCELLED" /\ ~q.logged
    BY <1>2, <2>3 DEF Note
  <2> HIDE DEF q
  <2> QED
    BY <1>2, <2>1, <2>4, FinishKeeps
<1>5. CASE Refused(d, n)
  <2> DEFINE q == Retried(note[n])
  <2>1. /\ Finish(d, n, q) /\ n \in batch[d] /\ sending[d] \in {{}, {n}} /\ UNCHANGED sent
        /\ unsure' = unsure \cup sending[d]
    BY <1>5 DEF Refused
  <2>2. note[n].status = "SENDING"
    BY <1>2, <2>1 DEF WorkerInv
  <2>3. ~note[n].logged
    BY <1>2, <2>2 DEF NoteInv
  <2>4. /\ q \in Note /\ q.tries = note[n].tries /\ q.status \in {"FAILED", "SCHEDULED"} /\ ~q.logged
        /\ q.status = "SCHEDULED" => q.tries < MaxTries
    <3>1. CASE note[n].tries >= MaxTries
      <4>1. q = [note[n] EXCEPT !.status = "FAILED"]
        BY <3>1 DEF Retried
      <4> QED
        BY <1>2, <2>3, <4>1 DEF Note
    <3>2. CASE ~(note[n].tries >= MaxTries)
      <4>1. q = [note[n] EXCEPT !.status = "SCHEDULED", !.due = FALSE]
        BY <3>2 DEF Retried
      <4>2. note[n].tries < MaxTries
        BY <1>2, <3>2, NoteAssumption DEF Note
      <4> HIDE DEF q
      <4> QED
        BY <1>2, <2>3, <4>1, <4>2 DEF Note
    <3> QED
      BY <3>1, <3>2
  <2>5. Unsent(n)'
    BY <1>2, <2>1 DEF WorkerInv, Unsent
  <2> HIDE DEF q
  <2> QED
    BY <1>2, <2>1, <2>4, <2>5, FinishKeeps
<1> QED
  BY <1>1, <1>3, <1>4, <1>5, SendKeepsQueue

LEMMA CutOffKeeps ==
    ASSUME QueueInv, NEW d \in Deliverers, CutOff(d)
    PROVE  QueueInv' /\ \A m \in Notes : QueueMoves(m)
<1>1. /\ batch' \in [Deliverers -> SUBSET Notes] /\ batch'[d] = {}
      /\ sending' \in [Deliverers -> SUBSET Notes] /\ sending'[d] = {}
      /\ \A c \in Deliverers \ {d} : batch'[c] = batch[c] /\ sending'[c] = sending[c]
      /\ UNCHANGED <<note, sent>> /\ unsure \subseteq unsure' /\ unsure' \subseteq Notes
  BY DEF CutOff, QueueInv, QueueTypeOK
<1>2. QueueTypeOK'
  BY <1>1 DEF QueueInv, QueueTypeOK
<1>3. ASSUME NEW m \in Notes PROVE NoteInv(m)' /\ QueueMoves(m)
  BY <1>1 DEF QueueInv, NoteInv, Unsent, QueueMoves, Waiting
<1>4. ASSUME NEW c \in Deliverers PROVE WorkerInv(c)'
  <2>1. CASE c = d
    BY <1>1, <2>1 DEF WorkerInv
  <2>2. CASE c # d
    BY <1>1, <2>2 DEF QueueInv, WorkerInv, Unsent
  <2> QED
    BY <2>1, <2>2
<1>5. Alone'
  BY <1>1 DEF QueueInv, Alone
<1> QED
  BY <1>2, <1>3, <1>4, <1>5 DEF QueueInv

LEMMA QueueStepKeeps ==
    ASSUME QueueInv, QueueStep
    PROVE  QueueInv' /\ \A m \in Notes : QueueMoves(m)
BY NoteSteps, ClaimKeeps, DeliverKeeps, CutOffKeeps DEF QueueStep

-----------------------------------------------------------------------------
(* Reminders *)

(***************************************************************************)
(* A request has ended the appointment whose reminder it is about to       *)
(* cancel (Over), which is why one that is over has a request coming to    *)
(* stop its note (Stops).  The second call of a rescheduling is for the    *)
(* appointment that it booked: if that one has a note before the third     *)
(* call made it, then another rescheduling booked the same, and one of the *)
(* two found the old appointment ended (Second, Both, Replaced).           *)
(***************************************************************************)
CallsCounted(s) ==
    /\ called[s] \in 0 .. Len(Calls(s))
    /\ txn[s].pc # "committed" => called[s] = 0

Over(s) ==
    txn[s].pc = "committed" =>
        /\ txn[s].kind = "cancel" => Ended(txn[s].key)
        /\ txn[s].kind = "reschedule" => Ended(From[txn[s].key])

Replacing(s) == txn[s].kind = "reschedule" /\ txn[s].pc = "committed"

Noted(k) == k \in Notes /\ note[k].status # "ABSENT"

Second ==
    \A s \in Sessions : Replacing(s) /\ called[s] <= 2 /\ Noted(txn[s].key) =>
        From[txn[s].key] \in overtaken

Both ==
    \A r, s \in Sessions : r # s /\ Replacing(r) /\ Replacing(s) /\ txn[r].key = txn[s].key =>
        From[txn[s].key] \in overtaken

Replaced == \A k \in Keys : Noted(k) /\ From[k] # None => Ended(From[k])

\* Session s is about to cancel the reminders of k.
Coming(s, k) ==
    txn[s].pc = "committed" /\ \E j \in called[s] + 1 .. Len(Calls(s)) : Calls(s)[j] = Stop(k)

Stops == \A k \in Notes \ missed : Ended(k) /\ Waiting(k) => \E s \in Sessions : Coming(s, k)

ReminderInv ==
    /\ BookingInv
    /\ QueueInv
    /\ missed \subseteq Notes
    /\ called \in [Sessions -> Nat]
    /\ \A s \in Sessions : CallsCounted(s) /\ Over(s)
    /\ Second /\ Both /\ Replaced /\ Stops

CallKinds(s) ==
    LET k == txn[s].key
    IN  /\ txn[s].kind \in {"idle", "book", "reschedule", "cancel"}
        /\ txn[s].kind = "idle" => Calls(s) = <<>>
        /\ txn[s].kind = "book" => Calls(s) = <<Remind(k)>>
        /\ txn[s].kind = "cancel" => Calls(s) = <<Stop(k)>>
        /\ txn[s].kind = "reschedule" => Calls(s) = <<Stop(From[k]), Stop(k), Remind(k)>>

LEMMA CallLengths ==
    ASSUME NEW s, CallKinds(s)
    PROVE  /\ Len(Calls(s)) \in 0 .. 3
           /\ Len(Calls(s)) = 3 <=> txn[s].kind = "reschedule"
           /\ \E S : Calls(s) \in Seq(S)
<1> DEFINE k == txn[s].key
<1>1. CASE txn[s].kind = "idle"
  <2>1. Calls(s) = <<>> /\ Calls(s) \in Seq({})
    BY <1>1 DEF CallKinds
  <2> QED
    BY <1>1, <2>1
<1>2. CASE txn[s].kind = "book"
  <2>1. Calls(s) = <<Remind(k)>>
    BY <1>2 DEF CallKinds
  <2>2. Calls(s) \in Seq({Remind(k)}) /\ Len(Calls(s)) = 1
    BY <2>1
  <2> QED
    BY <1>2, <2>2
<1>3. CASE txn[s].kind = "cancel"
  <2>1. Calls(s) = <<Stop(k)>>
    BY <1>3 DEF CallKinds
  <2>2. Calls(s) \in Seq({Stop(k)}) /\ Len(Calls(s)) = 1
    BY <2>1
  <2> QED
    BY <1>3, <2>2
<1>4. CASE txn[s].kind = "reschedule"
  <2>1. Calls(s) = <<Stop(From[k]), Stop(k), Remind(k)>>
    BY <1>4 DEF CallKinds
  <2>2. Calls(s) \in Seq({Stop(From[k]), Stop(k), Remind(k)}) /\ Len(Calls(s)) = 3
    BY <2>1
  <2> QED
    BY <1>4, <2>2
<1> QED
  BY <1>1, <1>2, <1>3, <1>4 DEF CallKinds

CallsFit ==
    \A s \in Sessions : /\ CallKinds(s)
                        /\ Len(Calls(s)) \in 0 .. 3
                        /\ Len(Calls(s)) = 3 <=> txn[s].kind = "reschedule"

LEMMA CallForms == BookingTypeOK => CallsFit
<1> SUFFICES ASSUME BookingTypeOK, NEW s \in Sessions PROVE CallKinds(s)
  BY CallLengths DEF CallsFit
<1> QED
  BY DEF CallKinds, Calls, BookingTypeOK, Txn

\* What a request still has to call.
LEMMA ToDoForms ==
    ASSUME NEW s \in Sessions, CallKinds(s), CallsCounted(s)
    PROVE  /\ txn[s].pc # "committed" => ToDo(s) = <<>>
           /\ txn[s].pc = "committed" =>
                /\ Len(ToDo(s)) = Len(Calls(s)) - called[s]
                /\ ToDo(s) = <<>> <=> called[s] = Len(Calls(s))
                /\ \A i \in 1 .. Len(ToDo(s)) : ToDo(s)[i] = Calls(s)[called[s] + i]
                /\ ToDo(s) # <<>> => Head(ToDo(s)) = Calls(s)[called[s] + 1]
<1>1. CASE txn[s].pc # "committed"
  BY <1>1 DEF ToDo
<1>2. CASE txn[s].pc = "committed"
  <2> DEFINE q == Calls(s)
             n == Len(Calls(s))
  <2>0. PICK S : Calls(s) \in Seq(S)
    BY CallLengths
  <2>1. q \in Seq(S) /\ n \in Nat /\ called[s] \in 0 .. n
    BY <2>0, CallLengths DEF CallsCounted
  <2>2. ToDo(s) = SubSeq(q, called[s] + 1, n)
    BY <1>2 DEF ToDo
  <2> HIDE DEF q
  <2>3. /\ Len(ToDo(s)) = n - called[s]
        /\ \A i \in 1 .. Len(ToDo(s)) : ToDo(s)[i] = q[called[s] + i]
        /\ ToDo(s) \in Seq(S)
    <3>1. n = Len(q)
      BY DEF q
    <3> HIDE DEF n
    <3>2. SubSeq(q, called[s] + 1, n) \in Seq(S) /\ Len(SubSeq(q, called[s] + 1, n)) = n - called[s]
      BY <2>1, <3>1, SubSeqProperties
    <3>3. \A i \in 1 .. n - called[s] : SubSeq(q, called[s] + 1, n)[i] = q[called[s] + i]
      BY <2>1, <3>1, SubSeqProperties
    <3> QED
      BY <2>2, <3>2, <3>3
  <2>4. ToDo(s) = <<>> <=> called[s] = n
    BY <2>1, <2>3
  <2>5. ToDo(s) # <<>> => Head(ToDo(s)) = q[called[s] + 1]
    <3>1. \A z \in Seq(S) : Head(z) = z[1] /\ (z # <<>> => 1 \in 1 .. Len(z))
      OBVIOUS
    <3>2. ToDo(s) # <<>> => 1 \in 1 .. Len(ToDo(s)) /\ Head(ToDo(s)) = ToDo(s)[1]
      BY <2>3, <3>1
    <3> QED
      BY <2>3, <3>2
  <2> QED
    BY <1>2, <2>3, <2>4, <2>5 DEF q
<1> QED
  BY <1>1, <1>2

\* A request cancels the reminders of what it is about to.
LEMMA ComingForms ==
    ASSUME NEW s \in Sessions, CallKinds(s), CallsCounted(s), NEW k
    PROVE  Coming(s, k) <=> \E i \in 1 .. Len(ToDo(s)) : ToDo(s)[i] = Stop(k)
<1>1. CASE txn[s].pc # "committed"
  BY <1>1, ToDoForms DEF Coming
<1>2. CASE txn[s].pc = "committed"
  <2>1. /\ Len(ToDo(s)) = Len(Calls(s)) - called[s] /\ Len(Calls(s)) \in Nat /\ called[s] \in Nat
        /\ \A i \in 1 .. Len(ToDo(s)) : ToDo(s)[i] = Calls(s)[called[s] + i]
    BY <1>2, ToDoForms, CallLengths DEF CallsCounted
  <2>2. ASSUME Coming(s, k) PROVE \E i \in 1 .. Len(ToDo(s)) : ToDo(s)[i] = Stop(k)
    <3>1. PICK j \in called[s] + 1 .. Len(Calls(s)) : Calls(s)[j] = Stop(k)
      BY <2>2 DEF Coming
    <3>2. j - called[s] \in 1 .. Len(ToDo(s)) /\ called[s] + (j - called[s]) = j
      BY <2>1, <3>1
    <3> QED
      BY <2>1, <3>1, <3>2
  <2>3. ASSUME NEW i \in 1 .. Len(ToDo(s)), ToDo(s)[i] = Stop(k) PROVE Coming(s, k)
    <3>1. called[s] + i \in called[s] + 1 .. Len(Calls(s))
      BY <2>1
    <3> QED
      BY <1>2, <2>1, <2>3, <3>1 DEF Coming
  <2> QED
    BY <2>2, <2>3
<1> QED
  BY <1>1, <1>2

LEMMA ReminderInvStop == ReminderInv => RemindersStop
<1> SUFFICES ASSUME ReminderInv PROVE RemindersStop
  OBVIOUS
<1>1. \A s \in Sessions : CallKinds(s) /\ CallsCounted(s)
  BY CallForms DEF ReminderInv, BookingInv, CallsFit
<1>2. TypeOK
  <2>1. ASSUME NEW s \in Sessions PROVE called[s] \in 0 .. 3
    <3>1. Len(Calls(s)) \in 0 .. 3 /\ called[s] \in 0 .. Len(Calls(s))
      BY <1>1, CallLengths DEF CallsCounted
    <3>2. \A n \in 0 .. 3 : \A c \in 0 .. n : c \in 0 .. 3
      OBVIOUS
    <3> QED
      BY <3>1, <3>2
  <2>2. called \in [Sessions -> 0 .. 3]
    BY <2>1 DEF ReminderInv
  <2> QED
    BY <2>2 DEF ReminderInv, BookingInv, QueueInv, TypeOK
<1>3. SentOnce
  BY QueueInvSent DEF ReminderInv
<1>4. ASSUME NEW k \in Notes \ missed, Ended(k), note[k].status \in {"SCHEDULED", "SENDING"}
      PROVE  \E s \in Sessions : \E i \in 1 .. Len(ToDo(s)) : ToDo(s)[i] = Stop(k)
  <2>1. PICK s \in Sessions : Coming(s, k)
    BY <1>4 DEF ReminderInv, Stops, Waiting
  <2> QED
    BY <1>1, <2>1, ComingForms
<1> QED
  BY <1>2, <1>3, <1>4 DEF RemindersStop

LEMMA ReminderInitInv == Init => ReminderInv
<1> SUFFICES ASSUME Init PROVE ReminderInv
  OBVIOUS
<1>1. BookingInv /\ QueueInv
  BY BookingInitInv, QueueInitInv DEF Init
<1>2. \A s \in Sessions : txn[s].pc = "read" /\ called[s] = 0
  BY DEF Init, BookingInit, Idle
<1>3. \A k \in Notes : note[k].status = "ABSENT"
  BY DEF Init, QueueInit, NoNote
<1>4. \A s \in Sessions : CallsCounted(s) /\ Over(s)
  <2>1. ASSUME NEW s \in Sessions PROVE CallsCounted(s)
    <3>1. Len(Calls(s)) \in 0 .. 3
      BY <1>1, CallForms DEF BookingInv, CallsFit
    <3> QED
      BY <1>2, <3>1 DEF CallsCounted
  <2> QED
    BY <1>2, <2>1 DEF Over
<1>5. Second /\ Both /\ Replaced /\ Stops
  BY <1>2, <1>3 DEF Second, Both, Replaced, Stops, Noted, Replacing, Waiting
<1>6. missed = {} /\ called \in [Sessions -> Nat]
  BY DEF Init
<1> QED
  BY <1>1, <1>4, <1>5, <1>6 DEF ReminderInv

LEMMA QueueStays == QueueInv /\ UNCHANGED queueVars => QueueInv'
BY DEF QueueInv, QueueTypeOK, NoteInv, WorkerInv, Alone, Unsent, queueVars

\* Steps of the service that the reminders do not take part in.
LEMMA BookingMoves ==
    ASSUME ReminderInv, [BookingNext]_bookingVars, NEW s \in Sessions,
           UNCHANGED <<queueVars, missed, appt, overtaken>>,
           \A x \in Sessions \ {s} : txn'[x] = txn[x],
           txn'[s].pc # "committed", ToDo(s) = <<>>,
           called' = [called EXCEPT ![s] = 0]
    PROVE  ReminderInv'
<1>1. BookingInv' /\ QueueInv' /\ BookingTypeOK /\ BookingTypeOK'
  BY BookingStepKeeps, QueueStays DEF ReminderInv, BookingInv
<1>2. called' \in [Sessions -> Nat] /\ called'[s] = 0 /\ \A x \in Sessions \ {s} : called'[x] = called[x]
  BY DEF ReminderInv
<1>3. \A x \in Sessions \ {s} : Calls(x)' = Calls(x)
  BY DEF Calls
<1>4. CallsFit /\ CallsFit'
  <2>1. BookingTypeOK' => CallsFit'
    BY CallForms, PTL
  <2> QED
    BY <1>1, <2>1, CallForms
<1>5. ASSUME NEW x \in Sessions PROVE CallsCounted(x)' /\ Over(x)'
  <2>1. CASE x = s
    BY <1>2, <1>4, <2>1 DEF CallsCounted, Over, CallsFit
  <2>2. CASE x # s
    BY <1>2, <1>3, <2>2 DEF ReminderInv, CallsCounted, Over, Ended
  <2> QED
    BY <2>1, <2>2
<1>6. UNCHANGED <<note, missed>> /\ \A k : (Noted(k)' <=> Noted(k)) /\ (Waiting(k)' <=> Waiting(k))
  BY DEF queueVars, Noted, Waiting
<1>7. Second' /\ Both' /\ Replaced'
  <2>1. \A x \in Sessions : Replacing(x)' => /\ x # s /\ Replacing(x) /\ called'[x] = called[x]
                                           /\ txn'[x] = txn[x]
    BY <1>2 DEF Replacing
  <2> QED
    BY <1>6, <2>1 DEF ReminderInv, Second, Both, Replaced, Ended
<1>8. Stops'
  <2>1. ASSUME NEW k PROVE ~Coming(s, k)
    <3>1. CallKinds(s) /\ CallsCounted(s)
      BY <1>4 DEF CallsFit, ReminderInv
    <3> QED
      BY <3>1, ComingForms
  <2>2. \A x \in Sessions \ {s}, k \in Notes : Coming(x, k) => Coming(x, k)'
    BY <1>2, <1>3 DEF Coming
  <2> QED
    BY <1>6, <2>1, <2>2 DEF ReminderInv, Stops, Ended
<1> QED
  BY <1>1, <1>2, <1>5, <1>6, <1>7, <1>8 DEF ReminderInv

LEMMA RequestMoves ==
    ASSUME ReminderInv, NEW s \in Sessions, NEW k \in Keys, Request(s, k)
    PROVE  ReminderInv'
<1>1. /\ UNCHANGED <<queueVars, called, missed>> /\ Receive(s, k)
  BY DEF Request
<1>2. PICK t : Begin(s, t) /\ t.pc \in {"ready", "read"}
  <2>1. CASE BookRead(s, k)
    BY <2>1 DEF BookRead
  <2>2. CASE RescheduleRead(s, k)
    BY <2>2 DEF RescheduleRead
  <2>3. CASE CancelRead(s, k)
    BY <2>3 DEF CancelRead
  <2> QED
    BY <1>1, <2>1, <2>2, <2>3 DEF Receive
<1>3. [BookingNext]_bookingVars
  BY <1>1 DEF BookingNext
<1>4. /\ txn[s] = Idle /\ UNCHANGED <<appt, overtaken>>
      /\ txn' = [txn EXCEPT ![s] = t]
  BY <1>2 DEF Begin
<1>5. /\ \A x \in Sessions \ {s} : txn'[x] = txn[x]
      /\ txn'[s].pc # "committed"
  BY <1>2, <1>4 DEF ReminderInv, BookingInv, BookingTypeOK
<1>6. ToDo(s) = <<>> /\ called' = [called EXCEPT ![s] = 0]
  BY <1>1, <1>4 DEF ToDo, Idle, ReminderInv, CallsCounted
<1> QED
  BY <1>1, <1>3, <1>4, <1>5, <1>6, BookingMoves

LEMMA HandleMoves ==
    ASSUME ReminderInv, NEW s \in Sessions, Handle(s), UNCHANGED <<queueVars, called, missed>>
    PROVE  ReminderInv'
<1>1. /\ txn[s].pc # "committed" /\ UNCHANGED <<appt, overtaken>>
      /\ \A x \in Sessions \ {s} : txn'[x] = txn[x]
      /\ txn'[s].pc # "committed"
  <2>1. txn \in [Sessions -> Txn]
    BY DEF ReminderInv, BookingInv, BookingTypeOK
  <2>2. CASE Insert(s) \/ RescheduleFlush(s) \/ RemoveEvent(s)
    <3>1. \E pc \in {"inserted", "ready", "created", "removed"} : txn' = [txn EXCEPT ![s].pc = pc]
      BY <2>2 DEF Insert, RescheduleFlush, RemoveEvent, Goto
    <3>2. txn[s].pc \in {"ready", "read", "created"} /\ UNCHANGED <<appt, overtaken>>
      BY <2>2 DEF Insert, RescheduleFlush, RemoveEvent, At
    <3> QED
      BY <2>1, <3>1, <3>2 DEF Txn
  <2>3. CASE CreateEvent(s)
    BY <2>1, <2>3 DEF CreateEvent, Creates, At, Txn
  <2>4. CASE CreateLost(s) \/ Abort(s)
    BY <2>1, <2>4 DEF CreateLost, Creates, Abort, At, Idle
  <2> QED
    BY <2>2, <2>3, <2>4 DEF Handle
<1>2. [BookingNext]_bookingVars
  BY DEF BookingNext
<1>3. ToDo(s) = <<>> /\ called' = [called EXCEPT ![s] = 0]
  BY <1>1 DEF ToDo, ReminderInv, CallsCounted
<1> QED
  BY <1>1, <1>2, <1>3, BookingMoves

LEMMA AnswerMoves ==
    ASSUME ReminderInv, NEW s \in Sessions, Answer(s)
    PROVE  ReminderInv'
<1>1. /\ ToDo(s) = <<>> /\ txn' = [txn EXCEPT ![s] = Idle] /\ called' = [called EXCEPT ![s] = 0]
      /\ UNCHANGED <<appt, overtaken, queueVars, missed>>
  BY DEF Answer, Respond
<1>2. [BookingNext]_bookingVars
  BY DEF BookingNext, Answer
<1>3. /\ \A x \in Sessions \ {s} : txn'[x] = txn[x]
      /\ txn'[s].pc # "committed"
  BY <1>1 DEF ReminderInv, BookingInv, BookingTypeOK, Idle
<1> QED
  BY <1>1, <1>2, <1>3, BookingMoves

\* What is over stays over, whoever commits.
LEMMA CommitEnds ==
    ASSUME ReminderInv, NEW s \in Sessions, BookCommit(s) \/ EndCommit(s)
    PROVE  /\ Commits(s) /\ BookingInv' /\ GoesOn(s)
           /\ \A k \in Keys : Ended(k) => Ended(k)'
           /\ \A k \in Keys : Ended(k)' => Ended(k) \/ k = Ends(s)
           /\ \A k \in Keys : k = Ends(s) => Ended(k)'
           /\ overtaken \subseteq overtaken'
           /\ Ends(s) \in Keys /\ Ended(Ends(s)) => Ends(s) \in overtaken'
           /\ txn[s].pc # "committed"
<1>1. BookingInv
  BY DEF ReminderInv
<1>2. Commits(s) /\ BookingInv'
  BY <1>1, BookCommitKeeps, EndCommitKeeps
<1>3. /\ GoesOn(s) /\ txn[s].key \in Keys
      /\ Prepares(s) => appt[txn[s].key].status = "ABSENT" /\ txn[s].key # Ends(s)
  BY <1>1, <1>2, CommitForms
<1>4. \A k \in Keys : k # Ends(s) => (Ended(k)' <=> Ended(k))
  <2>1. ASSUME NEW k \in Keys, k # Ends(s), Prepares(s), k = txn[s].key
        PROVE  ~Ended(k) /\ ~Ended(k)'
    BY <1>2, <1>3, <2>1 DEF Ended, Commits
  <2> QED
    BY <1>2, <2>1 DEF Ended, Commits
<1>5. ASSUME NEW k \in Keys, k = Ends(s) PROVE Ended(k)'
  BY <1>2, <1>5 DEF Ended, Commits
<1>6. overtaken \subseteq overtaken' /\ (Ends(s) \in Keys /\ Ended(Ends(s)) => Ends(s) \in overtaken')
  <2>1. CASE BookCommit(s)
    <3>1. Ends(s) = None /\ UNCHANGED overtaken
      BY <2>1 DEF BookCommit, Ends, At
    <3> QED
      BY <3>1, BookingAssumption
  <2>2. CASE EndCommit(s)
    BY <2>2 DEF EndCommit, Ended
  <2> QED
    BY <2>1, <2>2
<1>7. txn[s].pc # "committed"
  BY DEF BookCommit, EndCommit, At
<1> QED
  BY <1>2, <1>3, <1>4, <1>5, <1>6, <1>7

LEMMA CommitMoves ==
    ASSUME ReminderInv, NEW s \in Sessions, BookCommit(s) \/ EndCommit(s),
           UNCHANGED <<queueVars, called, missed>>
    PROVE  ReminderInv'
<1>1. /\ Commits(s) /\ BookingInv' /\ GoesOn(s) /\ overtaken \subseteq overtaken'
      /\ txn[s].pc # "committed"
  BY CommitEnds
<1>2. /\ \A k \in Keys : Ended(k) => Ended(k)'
      /\ \A k \in Keys : Ended(k)' => Ended(k) \/ k = Ends(s)
      /\ \A k \in Keys : k = Ends(s) => Ended(k)'
      /\ Ends(s) \in Keys /\ Ended(Ends(s)) => Ends(s) \in overtaken'
  BY CommitEnds
<1>3. /\ BookingTypeOK /\ BookingTypeOK' /\ QueueInv'
      /\ \A x \in Sessions : Form(x) /\ txn[x] \in Txn
  BY <1>1, QueueStays DEF ReminderInv, BookingInv, BookingTypeOK, RequestInv
<1>4. /\ txn'[s].pc = "committed" /\ txn'[s].kind = txn[s].kind /\ txn'[s].key = txn[s].key
      /\ \A x \in Sessions \ {s} : txn'[x] = txn[x]
      /\ txn[s].kind # "idle" /\ txn[s].key \in Keys
  <2>1. txn' = [txn EXCEPT ![s].pc = "committed"] /\ txn[s].kind # "idle"
    BY <1>1 DEF Commits
  <2>2. txn \in [Sessions -> Txn]
    BY <1>3 DEF BookingTypeOK
  <2>3. \A x \in Sessions \ {s} : txn'[x] = txn[x]
    BY <1>1 DEF GoesOn
  <2>4. txn[s].key \in Keys
    BY <1>3, <2>1 DEF Form
  <2> QED
    BY <2>1, <2>2, <2>3, <2>4 DEF Txn
<1>5. CallsFit /\ CallsFit' /\ \A x \in Sessions : Calls(x)' = Calls(x)
  <2>1. BookingTypeOK' => CallsFit'
    BY CallForms, PTL
  <2>2. ASSUME NEW x \in Sessions PROVE Calls(x)' = Calls(x)
    BY <1>4 DEF Calls
  <2> QED
    BY <1>3, <2>1, <2>2, CallForms
<1>6. called[s] = 0 /\ called' = called /\ note' = note /\ missed' = missed
  BY <1>1 DEF ReminderInv, CallsCounted, queueVars
<1>7. ASSUME NEW x \in Sessions PROVE CallsCounted(x)' /\ Over(x)'
  <2>1. CallsCounted(x)'
    BY <1>4, <1>5, <1>6 DEF ReminderInv, CallsCounted
  <2>2. txn[s].kind = "cancel" => Ends(s) = txn[s].key
    BY <1>3, EndsForms
  <2>3. txn[s].kind = "reschedule" => Ends(s) = From[txn[s].key] /\ From[txn[s].key] \in Keys
    BY <1>3, EndsForms
  <2>4. Over(s)'
    BY <1>2, <1>4, <2>2, <2>3 DEF Over, Ended
  <2>5. CASE x # s
    <3>1. txn'[x] = txn[x] /\ Over(x)
      BY <1>4, <2>5 DEF ReminderInv
    <3>2. txn[x].kind = "cancel" => txn[x].key \in Keys
      BY <1>3 DEF Form
    <3>3. txn[x].kind = "reschedule" => From[txn[x].key] \in Keys
      BY <1>3 DEF Form
    <3> QED
      BY <1>2, <2>1, <3>1, <3>2, <3>3 DEF Over, Ended
  <2> QED
    BY <2>1, <2>4, <2>5
<1>8. \A k : (Noted(k)' <=> Noted(k)) /\ (Waiting(k)' <=> Waiting(k))
  BY <1>6 DEF Noted, Waiting
<1>9. ASSUME NEW k \in Keys, txn[s].kind = "reschedule", txn[s].key = k
      PROVE  From[k] = Ends(s) /\ From[k] \in Keys /\ From[k] # None
  BY <1>3, <1>9, EndsForms, BookingAssumption
<1>10. Replaced'
  <2>1. \A k \in Keys : From[k] # None => From[k] \in Keys
    BY BookingAssumption
  <2> QED
    BY <1>2, <1>8, <2>1 DEF ReminderInv, Replaced
<1>11. Second'
  <2> SUFFICES ASSUME NEW x \in Sessions, Replacing(x)', called[x] <= 2, Noted(txn'[x].key)
               PROVE  From[txn'[x].key] \in overtaken'
    BY <1>6, <1>8 DEF Second, Noted
  <2>1. CASE x = s
    <3>1. Replaced
      BY DEF ReminderInv
    <3> QED
      BY <1>2, <1>4, <1>9, <2>1, <3>1 DEF Replacing, Replaced
  <2>2. CASE x # s
    BY <1>1, <1>4, <2>2 DEF ReminderInv, Second, Replacing
  <2> QED
    BY <2>1, <2>2
<1>12. ASSUME NEW x \in Sessions \ {s}, Replacing(x)', Replacing(s)', txn'[x].key = txn'[s].key
       PROVE  From[txn'[s].key] \in overtaken'
  <2>1. Replacing(x) /\ Over(x) /\ txn[x].key = txn[s].key
    BY <1>4, <1>12 DEF Replacing, ReminderInv
  <2>2. txn[s].kind = "reschedule"
    BY <1>4, <1>12 DEF Replacing
  <2>3. Ended(From[txn[s].key])
    BY <2>1 DEF Replacing, Over
  <2> QED
    BY <1>2, <1>4, <1>9, <2>2, <2>3
<1>13. Both'
  <2> SUFFICES ASSUME NEW x \in Sessions, NEW y \in Sessions, x # y, Replacing(x)', Replacing(y)',
                      txn'[x].key = txn'[y].key
               PROVE  From[txn'[y].key] \in overtaken'
    BY DEF Both
  <2>1. CASE x = s \/ y = s
    BY <1>12, <2>1
  <2>2. CASE x # s /\ y # s
    BY <1>1, <1>4, <2>2 DEF ReminderInv, Both, Replacing
  <2> QED
    BY <2>1, <2>2
<1>14. Stops'
  <2> SUFFICES ASSUME NEW k \in Notes \ missed, Ended(k)', Waiting(k)
               PROVE  \E x \in Sessions : Coming(x, k)'
    BY <1>6, <1>8 DEF Stops
  <2>1. k \in Keys
    BY ReminderAssumption
  <2>2. CASE Ended(k)
    <3>1. PICK x \in Sessions : Coming(x, k)
      BY <2>2 DEF ReminderInv, Stops
    <3>2. x # s
      BY <1>1, <3>1 DEF Coming
    <3> QED
      BY <1>4, <1>5, <1>6, <3>1, <3>2 DEF Coming
  <2>3. CASE k = Ends(s)
    <3>1. CallKinds(s) /\ txn[s].kind \in {"cancel", "reschedule"} /\ Len(Calls(s)) \in 0 .. 3
      BY <1>3, <1>5, <2>1, <2>3, EndsForms DEF CallsFit
    <3>2. Calls(s)[1] = Stop(k) /\ 1 \in 1 .. Len(Calls(s))
      <4>1. CASE txn[s].kind = "cancel"
        <5>1. k = txn[s].key /\ Calls(s) = <<Stop(k)>>
          BY <1>3, <2>3, <3>1, <4>1, EndsForms DEF CallKinds
        <5> QED
          BY <5>1
      <4>2. CASE txn[s].kind = "reschedule"
        <5> DEFINE q == txn[s].key
        <5>1. k = From[q] /\ Calls(s) = <<Stop(From[q]), Stop(q), Remind(q)>>
          BY <1>3, <2>3, <3>1, <4>2, EndsForms DEF CallKinds
        <5> HIDE DEF q
        <5> QED
          BY <5>1
      <4> QED
        BY <3>1, <4>1, <4>2
    <3> QED
      BY <1>4, <1>5, <1>6, <3>2 DEF Coming
  <2> QED
    BY <1>2, <2>1, <2>2, <2>3
<1>15. missed' \subseteq Notes /\ called' \in [Sessions -> Nat]
  BY <1>6 DEF ReminderInv
<1> QED
  BY <1>1, <1>3, <1>7, <1>10, <1>11, <1>13, <1>14, <1>15 DEF ReminderInv

(***************************************************************************)
(* A step after the commit: the requests go on to call, and the queue      *)
(* follows.                                                                *)
(***************************************************************************)
LEMMA CallsMove ==
    ASSUME ReminderInv, NEW s \in Sessions, NEW n \in Nat, UNCHANGED bookingVars, QueueInv',
           called' = [called EXCEPT ![s] = @ + n], called[s] + n <= Len(Calls(s)),
           txn[s].pc = "committed",
           missed \subseteq missed', missed' \subseteq Notes,
           \A k \in Notes \ missed' :
             /\ Ended(k) /\ Waiting(k)' => Waiting(k)
             /\ Waiting(k)' => \A j \in called[s] + 1 .. called[s] + n : Calls(s)[j] # Stop(k),
           \A k \in Notes : Noted(k)' =>
             \/ Noted(k)
             \/ /\ txn[s].key = k /\ called[s] + n = Len(Calls(s))
                /\ txn[s].kind \in {"book", "reschedule"}
    PROVE  ReminderInv'
<1>1. BookingInv' /\ BookingTypeOK /\ UNCHANGED <<appt, txn, overtaken>>
  BY BookingStepKeeps DEF ReminderInv, BookingInv, bookingVars
<1>2. called' \in [Sessions -> Nat] /\ called'[s] = called[s] + n
      /\ \A x \in Sessions \ {s} : called'[x] = called[x]
  BY DEF ReminderInv
<1>3. CallsFit /\ \A x \in Sessions : Calls(x)' = Calls(x) /\ called[x] \in Nat
  BY <1>1, CallForms DEF Calls, ReminderInv
<1>4. ASSUME NEW x \in Sessions PROVE CallsCounted(x)' /\ Over(x)'
  <2>1. Over(x)'
    BY <1>1 DEF ReminderInv, Over, Ended
  <2>2. called'[x] \in 0 .. Len(Calls(x))
    BY <1>2, <1>3 DEF ReminderInv, CallsCounted, CallsFit
  <2>3. txn[x].pc # "committed" => called'[x] = 0
    BY <1>2 DEF ReminderInv, CallsCounted
  <2> QED
    BY <1>1, <1>3, <2>1, <2>2, <2>3 DEF CallsCounted
<1>5. \A x \in Sessions : Replacing(x)' <=> Replacing(x)
  BY <1>1 DEF Replacing
<1>6. ASSUME NEW x \in Sessions, Replacing(x), called'[x] <= 2, Noted(txn[x].key)'
      PROVE  From[txn[x].key] \in overtaken
  <2> DEFINE k == txn[x].key
  <2>1. called[x] <= called'[x] /\ called[x] <= 2
    BY <1>2, <1>3, <1>6
  <2>2. CASE Noted(k)
    BY <1>6, <2>1, <2>2 DEF ReminderInv, Second
  <2>3. CASE ~Noted(k)
    <3>1. /\ txn[s].key = k /\ called[s] + n = Len(Calls(s))
          /\ txn[s].kind \in {"book", "reschedule"}
      <4>1. txn' = txn
        BY <1>1
      <4>2. k \in Notes /\ note'[k].status # "ABSENT"
        BY <1>6, <4>1 DEF Noted
      <4> HIDE DEF k
      <4> QED
        BY <2>3, <4>2 DEF Noted
    <3>2. Form(s) /\ Form(x) /\ txn[x].kind = "reschedule"
      BY <1>6 DEF ReminderInv, BookingInv, RequestInv, Replacing
    <3>3. txn[s].kind = "reschedule"
      BY <3>1, <3>2, BookingAssumption DEF Form
    <3>4. x # s
      <4>1. Len(Calls(s)) = 3
        BY <1>3, <3>3 DEF CallsFit
      <4> QED
        BY <1>2, <1>6, <3>1, <4>1
    <3> QED
      BY <1>6, <3>1, <3>3, <3>4 DEF ReminderInv, Both, Replacing
  <2> QED
    BY <2>2, <2>3
<1>7. Second' /\ Both'
  BY <1>1, <1>5, <1>6 DEF Second, ReminderInv, Both
<1>8. Replaced'
  <2> SUFFICES ASSUME NEW k \in Keys, Noted(k)', From[k] # None PROVE Ended(From[k])
    BY <1>1 DEF Replaced, Ended
  <2>1. CASE Noted(k)
    BY <2>1 DEF ReminderInv, Replaced
  <2>2. CASE ~Noted(k)
    <3>1. txn[s].key = k /\ txn[s].kind \in {"book", "reschedule"}
      BY <2>2 DEF Noted
    <3>2. Form(s) /\ Over(s)
      BY DEF ReminderInv, BookingInv, RequestInv
    <3> QED
      BY <3>1, <3>2 DEF Form, Over
  <2> QED
    BY <2>1, <2>2
<1>9. Stops'
  <2> SUFFICES ASSUME NEW k \in Notes \ missed', Ended(k), Waiting(k)'
               PROVE  \E x \in Sessions : Coming(x, k)'
    BY <1>1 DEF Stops, Ended
  <2>1. PICK x \in Sessions : Coming(x, k)
    BY DEF ReminderInv, Stops
  <2>2. PICK j \in called[x] + 1 .. Len(Calls(x)) : txn[x].pc = "committed" /\ Calls(x)[j] = Stop(k)
    BY <2>1 DEF Coming
  <2>3. j \in called'[x] + 1 .. Len(Calls(x))
    <3>1. CASE x = s
      <4>1. ~(j \in called[s] + 1 .. called[s] + n)
        BY <2>2, <3>1
      <4> QED
        BY <1>2, <1>3, <2>2, <3>1, <4>1 DEF CallsFit
    <3>2. CASE x # s
      BY <1>2, <2>2, <3>2
    <3> QED
      BY <3>1, <3>2
  <2> QED
    BY <1>1, <1>3, <2>2, <2>3 DEF Coming
<1> QED
  BY <1>1, <1>2, <1>4, <1>7, <1>8, <1>9 DEF ReminderInv

LEMMA CallAt ==
    ASSUME NEW s, CallKinds(s), NEW j \in 1 .. Len(Calls(s))
    PROVE  \/ /\ Calls(s)[j] = Remind(txn[s].key) /\ j = Len(Calls(s))
              /\ txn[s].kind \in {"book", "reschedule"}
           \/ Calls(s)[j] = Stop(txn[s].key) /\ txn[s].kind = "cancel"
           \/ Calls(s)[j] = Stop(From[txn[s].key]) /\ txn[s].kind = "reschedule"
           \/ Calls(s)[j] = Stop(txn[s].key) /\ txn[s].kind = "reschedule" /\ j = 2
<1> DEFINE k == txn[s].key
<1>1. CASE txn[s].kind = "idle"
  <2>1. Calls(s) = <<>>
    BY <1>1 DEF CallKinds
  <2> QED
    BY <2>1
<1>2. CASE txn[s].kind = "book"
  <2>1. Calls(s) = <<Remind(k)>>
    BY <1>2 DEF CallKinds
  <2>2. Len(Calls(s)) = 1 /\ j = 1 /\ Calls(s)[1] = Remind(k)
    BY <2>1
  <2> QED
    BY <1>2, <2>2
<1>3. CASE txn[s].kind = "cancel"
  <2>1. Calls(s) = <<Stop(k)>>
    BY <1>3 DEF CallKinds
  <2>2. j = 1 /\ Calls(s)[1] = Stop(k)
    BY <2>1
  <2> QED
    BY <1>3, <2>2
<1>4. CASE txn[s].kind = "reschedule"
  <2>1. Calls(s) = <<Stop(From[k]), Stop(k), Remind(k)>>
    BY <1>4 DEF CallKinds
  <2>2. /\ Len(Calls(s)) = 3 /\ j \in {1, 2, 3} /\ Calls(s)[1] = Stop(From[k])
        /\ Calls(s)[2] = Stop(k) /\ Calls(s)[3] = Remind(k)
    BY <2>1
  <2> HIDE DEF k
  <2> QED
    BY <1>4, <2>2 DEF k
<1> QED
  BY <1>1, <1>2, <1>3, <1>4 DEF CallKinds

\* Calls that are not made: what they would have cancelled is in missed.
LEMMA SkipMoves ==
    ASSUME ReminderInv, NEW s \in Sessions, ToDo(s) # <<>>, NEW n \in 1 .. Len(ToDo(s)), Skip(s, n)
    PROVE  ReminderInv'
<1>1. /\ txn[s].pc = "committed" /\ Len(ToDo(s)) = Len(Calls(s)) - called[s]
      /\ \A i \in 1 .. Len(ToDo(s)) : ToDo(s)[i] = Calls(s)[called[s] + i]
      /\ Len(Calls(s)) \in Nat /\ called[s] \in Nat
  <2>1. CallKinds(s) /\ CallsCounted(s) /\ Len(Calls(s)) \in 0 .. 3
    BY CallForms DEF ReminderInv, BookingInv, CallsFit
  <2> QED
    BY <2>1, ToDoForms DEF CallsCounted
<1>2. UNCHANGED <<note, bookingVars>> /\ QueueInv'
  BY QueueStays DEF Skip, queueVars, ReminderInv
<1>3. called' = [called EXCEPT ![s] = @ + n] /\ called[s] + n <= Len(Calls(s)) /\ n \in Nat
  BY <1>1 DEF Skip
<1>4. missed' = missed \cup {k \in Notes : \E i \in 1 .. n : ToDo(s)[i] = Stop(k)}
  BY DEF Skip
<1>5. ASSUME NEW k \in Notes \ missed', NEW j \in called[s] + 1 .. called[s] + n
      PROVE  Calls(s)[j] # Stop(k)
  <2>1. j - called[s] \in 1 .. n /\ j - called[s] \in 1 .. Len(ToDo(s))
        /\ called[s] + (j - called[s]) = j
    BY <1>1
  <2> QED
    BY <1>1, <1>4, <2>1
<1>6. \A k : (Waiting(k)' <=> Waiting(k)) /\ (Noted(k)' <=> Noted(k))
  BY <1>2 DEF Waiting, Noted
<1>7. missed \subseteq missed' /\ missed' \subseteq Notes
  BY <1>4 DEF ReminderInv
<1> QED
  BY <1>1, <1>2, <1>3, <1>5, <1>6, <1>7, CallsMove

\* A call that is made.
LEMMA CallMoves ==
    ASSUME ReminderInv, NEW s \in Sessions, Call(s)
    PROVE  /\ ReminderInv'
           /\ \A k \in Notes : note[k].status = "SCHEDULED" /\ note'[k].status = "CANCELLED" =>
                Ended(k) \/ From[k] \in overtaken
<1> DEFINE c == Head(ToDo(s))
           j == called[s] + 1
<1>1. CallKinds(s) /\ CallsCounted(s) /\ Len(Calls(s)) \in 0 .. 3 /\ called[s] \in Nat
  BY CallForms DEF ReminderInv, BookingInv, CallsFit
<1>2. /\ txn[s].pc = "committed" /\ j \in 1 .. Len(Calls(s)) /\ c = Calls(s)[j]
  <2>1. ToDo(s) # <<>>
    BY DEF Call
  <2>2. txn[s].pc = "committed" /\ called[s] # Len(Calls(s)) /\ c = Calls(s)[j]
    BY <1>1, <2>1, ToDoForms
  <2> QED
    BY <1>1, <2>2 DEF CallsCounted
<1>3. \/ /\ c = Remind(txn[s].key) /\ j = Len(Calls(s))
         /\ txn[s].kind \in {"book", "reschedule"}
      \/ c = Stop(txn[s].key) /\ txn[s].kind = "cancel"
      \/ c = Stop(From[txn[s].key]) /\ txn[s].kind = "reschedule"
      \/ c = Stop(txn[s].key) /\ txn[s].kind = "reschedule" /\ j = 2
  BY <1>1, <1>2, CallAt
<1>4. /\ c.key \notin Notes => UNCHANGED queueVars
      /\ c.key \in Notes /\ c.op = "stop" => CancelRelated({c.key})
      /\ c.key \in Notes /\ c.op = "remind" => Enqueue(c.key)
      /\ called' = [called EXCEPT ![s] = @ + 1]
      /\ missed' = IF c.key \in Notes /\ TooLate(c) THEN missed \cup {c.key} ELSE missed
      /\ UNCHANGED bookingVars
  BY DEF Call
<1> HIDE DEF c
<1>5. /\ c.op \in {"stop", "remind"}
      /\ c.op = "stop" => c = Stop(c.key)
      /\ c.op = "remind" => c = Remind(c.key)
  BY <1>3 DEF Stop, Remind
<1>6. missed \subseteq missed' /\ missed' \subseteq Notes
  BY <1>4 DEF ReminderInv
<1>0. /\ called' = [called EXCEPT ![s] = @ + 1] /\ called[s] + 1 <= Len(Calls(s)) /\ 1 \in Nat
      /\ UNCHANGED bookingVars /\ txn[s].pc = "committed"
  BY <1>1, <1>2, <1>4
<1>7. \A i \in called[s] + 1 .. called[s] + 1 : i = j
  BY <1>1
<1>8. CASE c.key \notin Notes
  <2>1. QueueInv' /\ note' = note
    BY <1>4, <1>8, QueueStays DEF ReminderInv, queueVars
  <2>2. \A k \in Notes : c # Stop(k)
    BY <1>8 DEF Stop
  <2>3. \A k : (Waiting(k)' <=> Waiting(k)) /\ (Noted(k)' <=> Noted(k))
    BY <2>1 DEF Waiting, Noted
  <2>7. \A i \in called[s] + 1 .. called[s] + 1, k \in Notes : Calls(s)[i] # Stop(k)
    BY <1>2, <1>7, <2>2
  <2>4. ReminderInv'
    BY <1>0, <1>6, <2>1, <2>3, <2>7, CallsMove
  <2> QED
    BY <2>1, <2>4
<1>9. CASE c.key \in Notes /\ c.op = "stop"
  <2> DEFINE h == c.key
  <2>1. CancelRelated({h}) /\ {h} \in SUBSET Notes /\ QueueInv
    BY <1>4, <1>9 DEF ReminderInv
  <2>2. /\ QueueInv'
        /\ \A k \in Notes : IF k \in Cancellable({h}) THEN note'[k].status = "CANCELLED"
                                                      ELSE note'[k] = note[k]
    BY <2>1, CancelKeeps
  <2>3. \A k \in Notes : k \in Cancellable({h}) => k = h /\ note[k].status = "SCHEDULED" /\ k \in Cancellable(Notes)
    BY DEF Cancellable
  <2>4. h \in Cancellable(Notes) => h \in Cancellable({h})
    BY DEF Cancellable
  <2>5. ASSUME NEW k \in Notes PROVE (Waiting(k)' => Waiting(k)) /\ (Noted(k)' => Noted(k))
    BY <2>2, <2>3 DEF Waiting, Noted
  <2>6. ASSUME NEW k \in Notes \ missed', Waiting(k)', c = Stop(k) PROVE FALSE
    <3>1. k = h
      BY <2>6 DEF Stop
    <3>2. ~TooLate(c)
      BY <1>4, <1>9, <2>6, <3>1
    <3>3. note'[k].status \in {"SCHEDULED", "SENDING"}
      BY <2>6 DEF Waiting
    <3>4. k \notin Cancellable({h}) /\ note'[k] = note[k]
      BY <2>2, <3>3
    <3>5. TooLate(c)
      BY <1>9, <2>4, <3>1, <3>3, <3>4 DEF TooLate
    <3> QED
      BY <3>2, <3>5
  <2>7. \A k \in Notes \ missed' : Waiting(k)' =>
          \A i \in called[s] + 1 .. called[s] + 1 : Calls(s)[i] # Stop(k)
    BY <1>2, <1>7, <2>6
  <2>8. ReminderInv'
    BY <1>0, <1>6, <2>2, <2>5, <2>7, CallsMove
  <2>9. ASSUME NEW k \in Notes, note[k].status = "SCHEDULED", note'[k].status = "CANCELLED"
        PROVE  Ended(k) \/ From[k] \in overtaken
    <3>1. k = h
      BY <2>2, <2>3, <2>9
    <3>2. Over(s) /\ Second
      BY DEF ReminderInv
    <3>3. CASE c = Stop(txn[s].key) /\ txn[s].kind = "cancel"
      BY <1>2, <3>1, <3>2, <3>3 DEF Over, Stop
    <3>4. CASE c = Stop(From[txn[s].key]) /\ txn[s].kind = "reschedule"
      BY <1>2, <3>1, <3>2, <3>4 DEF Over, Stop
    <3>5. CASE c = Stop(txn[s].key) /\ txn[s].kind = "reschedule" /\ j = 2
      <4>1. k = txn[s].key /\ Noted(k) /\ Replacing(s) /\ called[s] <= 2
        BY <1>1, <1>2, <2>9, <3>1, <3>5 DEF Stop, Noted, Replacing
      <4> QED
        BY <3>2, <4>1 DEF Second
    <3> QED
      BY <1>3, <1>9, <3>3, <3>4, <3>5 DEF Remind
  <2> QED
    BY <2>8, <2>9
<1>10. CASE c.key \in Notes /\ c.op = "remind"
  <2> DEFINE h == c.key
  <2>1. Enqueue(h) /\ h \in Notes /\ QueueInv
    BY <1>4, <1>10 DEF ReminderInv
  <2>2. QueueInv' /\ \A m \in Notes : note'[m] = note[m] \/ (m = h /\ note[h].status = "ABSENT")
    BY <2>1, EnqueueKeeps
  <2>3. c = Remind(txn[s].key) /\ j = Len(Calls(s)) /\ txn[s].kind \in {"book", "reschedule"}
        /\ h = txn[s].key
    BY <1>3, <1>10 DEF Stop, Remind
  <2>4. \A k : c # Stop(k)
    BY <1>10 DEF Stop
  <2>5. ASSUME NEW k \in Notes \ missed', Ended(k), Waiting(k)' PROVE Waiting(k)
    <3>1. k # h
      BY <1>4, <1>10, <2>5 DEF TooLate
    <3> QED
      BY <2>2, <2>5, <3>1 DEF Waiting
  <2>6. \A k \in Notes : Noted(k)' => Noted(k) \/ k = h
    BY <2>2 DEF Noted
  <2>7. \A i \in called[s] + 1 .. called[s] + 1 : \A k : Calls(s)[i] # Stop(k)
    BY <1>2, <1>7, <2>4
  <2>8. ReminderInv'
    BY <1>0, <1>6, <2>2, <2>3, <2>5, <2>6, <2>7, CallsMove
  <2>9. \A k \in Notes : ~(note[k].status = "SCHEDULED" /\ note'[k].status = "CANCELLED")
    BY <2>2
  <2> QED
    BY <2>8, <2>9
<1> QED
  BY <1>5, <1>8, <1>9, <1>10

\* The queue by itself.
LEMMA QueueMovesOn ==
    ASSUME ReminderInv, QueueStep, UNCHANGED <<bookingVars, called, missed>>
    PROVE  ReminderInv' /\ \A k \in Notes : note'[k].status = "CANCELLED" => note[k].status # "SCHEDULED"
<1>1. QueueInv' /\ \A k \in Notes : QueueMoves(k)
  BY QueueStepKeeps DEF ReminderInv
<1>2. BookingInv' /\ UNCHANGED <<appt, txn, overtaken, called, missed>>
  BY BookingStepKeeps DEF ReminderInv, bookingVars
<1>3. \A x \in Sessions : Calls(x)' = Calls(x)
  BY <1>2 DEF Calls
<1>4. \A k \in Notes : Waiting(k)' => Waiting(k)
  BY <1>1 DEF QueueMoves
<1>5. \A k : Noted(k)' <=> Noted(k)
  BY <1>1 DEF QueueMoves, Noted
<1>6. \A x \in Sessions : CallsCounted(x)' /\ Over(x)' /\ (Replacing(x)' <=> Replacing(x))
  BY <1>2, <1>3 DEF ReminderInv, CallsCounted, Over, Replacing, Ended
<1>7. Second' /\ Both' /\ Replaced'
  <2>1. Second'
    BY <1>2, <1>5, <1>6 DEF ReminderInv, Second, Noted
  <2> QED
    BY <1>2, <1>5, <1>6, <2>1 DEF ReminderInv, Both, Replaced, Ended
<1>8. Stops'
  BY <1>2, <1>3, <1>4 DEF ReminderInv, Stops, Coming, Ended
<1> QED
  BY <1>1, <1>2, <1>6, <1>7, <1>8 DEF ReminderInv, QueueMoves

LEMMA ReminderStill == ReminderInv /\ UNCHANGED vars => ReminderInv'
<1> SUFFICES ASSUME ReminderInv, UNCHANGED vars PROVE ReminderInv'
  OBVIOUS
<1>1. UNCHANGED <<bookingVars, queueVars, called, missed, appt, txn, overtaken, note>>
  BY DEF vars, bookingVars, queueVars
<1>2. BookingInv' /\ QueueInv'
  BY <1>1, BookingStepKeeps, QueueStays DEF ReminderInv
<1>3. \A x \in Sessions : Calls(x)' = Calls(x)
  BY <1>1 DEF Calls
<1>4. \A x \in Sessions : CallsCounted(x)' /\ Over(x)'
  BY <1>1, <1>3 DEF ReminderInv, CallsCounted, Over, Ended
<1>5. Second' /\ Both' /\ Replaced'
  BY <1>1 DEF ReminderInv, Second, Both, Replaced, Noted, Replacing, Ended
<1>6. Stops'
  BY <1>1, <1>3 DEF ReminderInv, Stops, Coming, Ended, Waiting
<1> QED
  BY <1>1, <1>2, <1>4, <1>5, <1>6 DEF ReminderInv

\* Only a call that is made cancels a note.
RemindersKeep == \A k \in Notes : note[k].status = "SCHEDULED" /\ note'[k].status = "CANCELLED" =>
                    Ended(k) \/ From[k] \in overtaken'

LEMMA ReminderStep == ReminderInv /\ [Next]_vars => ReminderInv' /\ RemindersKeep
<1> SUFFICES ASSUME ReminderInv, [Next]_vars PROVE ReminderInv' /\ RemindersKeep
  OBVIOUS
<1>1. ASSUME UNCHANGED note PROVE RemindersKeep
  BY <1>1 DEF RemindersKeep
<1>2. CASE UNCHANGED vars
  BY <1>1, <1>2, ReminderStill DEF vars, queueVars
<1>3. ASSUME NEW s \in Sessions, NEW k \in Keys, Request(s, k) PROVE ReminderInv' /\ RemindersKeep
  BY <1>1, <1>3, RequestMoves DEF Request, queueVars
<1>4. ASSUME NEW s \in Sessions, Schedule(s) PROVE ReminderInv' /\ RemindersKeep
  BY <1>1, <1>4, HandleMoves, CommitMoves DEF Schedule, queueVars
<1>5. ASSUME NEW s \in Sessions, Call(s) PROVE ReminderInv' /\ RemindersKeep
  <2>1. UNCHANGED overtaken
    BY <1>5 DEF Call, bookingVars
  <2> QED
    BY <1>5, <2>1, CallMoves DEF RemindersKeep
<1>6. ASSUME NEW s \in Sessions, CallFails(s) \/ CallsLost(s) PROVE ReminderInv' /\ RemindersKeep
  <2>1. CallKinds(s) /\ CallsCounted(s) /\ Len(Calls(s)) \in 0 .. 3
    BY CallForms DEF ReminderInv, BookingInv, CallsFit
  <2>2. ToDo(s) # <<>>
    BY <1>6 DEF CallFails, CallsLost
  <2>3. Len(ToDo(s)) \in Nat \ {0}
    BY <2>1, <2>2, ToDoForms DEF CallsCounted
  <2>4. PICK n \in 1 .. Len(ToDo(s)) : Skip(s, n)
    BY <1>6, <2>3 DEF CallFails, CallsLost
  <2>5. UNCHANGED note
    BY <2>4 DEF Skip, queueVars
  <2> QED
    BY <1>1, <2>2, <2>4, <2>5, SkipMoves
<1>7. ASSUME NEW s \in Sessions, Answer(s) PROVE ReminderInv' /\ RemindersKeep
  BY <1>1, <1>7, AnswerMoves DEF Answer, queueVars
<1>8. ASSUME QueueStep, UNCHANGED <<bookingVars, called, missed>> PROVE ReminderInv' /\ RemindersKeep
  BY <1>8, QueueMovesOn DEF RemindersKeep
<1> QED
  BY <1>2, <1>3, <1>4, <1>5, <1>6, <1>7, <1>8 DEF Next, After

\* A note is handed over once and a reminder of an appointment that is over is stopped, or about
\* to be, unless the stop found it due, came before it or was not made; and no request cancels
\* the reminder of an appointment that is booked, unless two rescheduled to it at once:
\* _after_change of scheduling, cancel_related and enqueue of notifications, for any number of
\* appointments, requests, deliverers and attempts.
THEOREM RemindersFollowHolds == Spec => RemindersFollow
<1>1. Spec => []ReminderInv
  BY ReminderInitInv, ReminderStep, PTL DEF Spec
<1>2. ReminderInv /\ [Next]_vars =>
        [/\ RemindersStop'
         /\ \A k \in Notes : note[k].status = "SCHEDULED" /\ note'[k].status = "CANCELLED" =>
              Ended(k) \/ From[k] \in overtaken']_vars
  <2> SUFFICES ASSUME ReminderInv, [Next]_vars
               PROVE  /\ RemindersStop'
                      /\ \A k \in Notes : note[k].status = "SCHEDULED" /\ note'[k].status = "CANCELLED" =>
                           Ended(k) \/ From[k] \in overtaken'
    OBVIOUS
  <2>1. ReminderInv' /\ RemindersKeep
    BY ReminderStep
  <2>2. ReminderInv' => RemindersStop'
    BY ReminderInvStop, PTL
  <2> QED
    BY <2>1, <2>2 DEF RemindersKeep
<1> QED
  BY <1>1, <1>2, PTL DEF Spec, RemindersFollow

-----------------------------------------------------------------------------
(* Offers of slots *)

(***************************************************************************)
(* The choice among the slots counts those before a slot.  In a strict     *)
(* order of a finite set that count numbers the set without a gap, so that *)
(* the foremost n are n, or all, and that every set has a first.           *)
(***************************************************************************)
StrictOrder(S, R) ==
    /\ \A s \in S : <<s, s>> \notin R
    /\ \A s, t, u \in S : <<s, t>> \in R /\ <<t, u>> \in R => <<s, u>> \in R
    /\ \A s, t \in S : s = t \/ <<s, t>> \in R \/ <<t, s>> \in R

Ahead(S, R, s) == {t \in S : <<t, s>> \in R}
Rank(S, R) == [s \in S |-> Cardinality(Ahead(S, R, s))]

LEMMA OrderOfSubset ==
    ASSUME NEW S, NEW R, StrictOrder(S, R), NEW T \in SUBSET S
    PROVE  StrictOrder(T, R)
BY Zenon DEF StrictOrder

LEMMA RankNumbers ==
    ASSUME NEW S, IsFiniteSet(S), NEW R, StrictOrder(S, R)
    PROVE  Rank(S, R) \in Injection(S, 0 .. Cardinality(S) - 1) \cap Surjection(S, 0 .. Cardinality(S) - 1)
<1> DEFINE rank == Rank(S, R)
<1>1. Cardinality(S) \in Nat
  BY FS_CardinalityType
<1>2. ASSUME NEW s \in S
      PROVE  /\ IsFiniteSet(Ahead(S, R, s)) /\ Cardinality(Ahead(S, R, s)) \in Nat
             /\ Cardinality(Ahead(S, R, s)) < Cardinality(S)
  <2>1. Ahead(S, R, s) \in SUBSET S /\ s \notin Ahead(S, R, s)
    BY DEF Ahead, StrictOrder
  <2>2. /\ IsFiniteSet(Ahead(S, R, s)) /\ Cardinality(Ahead(S, R, s)) <= Cardinality(S)
        /\ Cardinality(S) = Cardinality(Ahead(S, R, s)) => S = Ahead(S, R, s)
    BY <2>1, FS_Subset
  <2>3. Cardinality(Ahead(S, R, s)) \in Nat
    BY <2>2, FS_CardinalityType
  <2> QED
    BY <1>1, <2>1, <2>2, <2>3
<1>3. ASSUME NEW s \in S, NEW t \in S, <<s, t>> \in R PROVE rank[s] < rank[t]
  <2>1. Ahead(S, R, s) \in SUBSET Ahead(S, R, t) /\ s \in Ahead(S, R, t) /\ s \notin Ahead(S, R, s)
    BY <1>3, Zenon DEF Ahead, StrictOrder
  <2>2. /\ Cardinality(Ahead(S, R, s)) <= Cardinality(Ahead(S, R, t))
        /\ Cardinality(Ahead(S, R, t)) = Cardinality(Ahead(S, R, s)) => Ahead(S, R, t) = Ahead(S, R, s)
    BY <1>2, <2>1, FS_Subset
  <2>3. Cardinality(Ahead(S, R, s)) # Cardinality(Ahead(S, R, t))
    BY <2>1, <2>2
  <2> QED
    BY <1>2, <2>2, <2>3 DEF Rank
<1>4. rank \in [S -> 0 .. Cardinality(S) - 1]
  BY <1>1, <1>2 DEF Rank
<1>5. ASSUME NEW s \in S, NEW t \in S, rank[s] = rank[t] PROVE s = t
  <2>1. rank[s] \in Int /\ rank[t] \in Int
    BY <1>4
  <2>2. s = t \/ <<s, t>> \in R \/ <<t, s>> \in R
    BY DEF StrictOrder
  <2>3. <<s, t>> \in R => rank[s] < rank[t]
    BY <1>3
  <2>4. <<t, s>> \in R => rank[t] < rank[s]
    BY <1>3
  <2> HIDE DEF rank
  <2> QED
    BY <1>5, <2>1, <2>2, <2>3, <2>4
<1>6. rank \in Injection(S, 0 .. Cardinality(S) - 1)
  BY <1>4, <1>5 DEF Injection, IsInjective
<1>7. IsFiniteSet(0 .. Cardinality(S) - 1) /\ Cardinality(0 .. Cardinality(S) - 1) = Cardinality(S)
  <2> DEFINE last == Cardinality(S) - 1
  <2>1. last \in Int /\ last >= -1 /\ last + 1 = Cardinality(S)
    BY <1>1
  <2> HIDE DEF last
  <2>2. /\ IsFiniteSet(0 .. last)
        /\ Cardinality(0 .. last) = IF 0 > last THEN 0 ELSE last - 0 + 1
    BY <2>1, FS_Interval
  <2>3. Cardinality(0 .. last) = last + 1
    BY <2>1, <2>2
  <2> QED
    BY <2>1, <2>2, <2>3 DEF last
<1>8. rank \in Surjection(S, 0 .. Cardinality(S) - 1)
  BY <1>6, <1>7, FS_Injection
<1> QED
  BY <1>6, <1>8

LEMMA ForemostAreSome ==
    ASSUME NEW S, IsFiniteSet(S), NEW R, StrictOrder(S, R), NEW n \in Nat
    PROVE  /\ Foremost(S, R, n) \in SUBSET S /\ IsFiniteSet(Foremost(S, R, n))
           /\ Cardinality(Foremost(S, R, n)) = Lower(n, Cardinality(S))
<1> DEFINE F == Foremost(S, R, n)
           rank == Rank(S, R)
           m == Lower(n, Cardinality(S))
           pick == [s \in F |-> rank[s]]
<1>1. Cardinality(S) \in Nat /\ m \in Nat /\ m <= n /\ m <= Cardinality(S)
  BY FS_CardinalityType DEF Lower
<1>2. rank \in Injection(S, 0 .. Cardinality(S) - 1) /\ rank \in Surjection(S, 0 .. Cardinality(S) - 1)
  BY RankNumbers
<1>3. F = {s \in S : rank[s] < n}
  BY DEF Foremost, Rank, Ahead
<1>4. /\ \A s \in S : rank[s] \in 0 .. Cardinality(S) - 1
      /\ \A s, t \in S : rank[s] = rank[t] => s = t
      /\ \A i \in 0 .. Cardinality(S) - 1 : \E s \in S : rank[s] = i
  <2>1. rank \in [S -> 0 .. Cardinality(S) - 1] /\ IsInjective(rank)
    BY <1>2 DEF Injection
  <2>2. DOMAIN rank = S
    BY DEF Rank
  <2> QED
    BY <1>2, <2>1, <2>2 DEF IsInjective, Surjection
<1> HIDE DEF F, rank
<1>5. pick \in [F -> 0 .. m - 1]
  BY <1>1, <1>3, <1>4 DEF Lower
<1>6. ASSUME NEW s \in F, NEW t \in F, pick[s] = pick[t] PROVE s = t
  BY <1>3, <1>4, <1>6
<1>7. ASSUME NEW i \in 0 .. m - 1 PROVE \E s \in F : pick[s] = i
  <2>1. PICK s \in S : rank[s] = i
    BY <1>1, <1>4
  <2>2. s \in F
    BY <1>1, <1>3, <2>1
  <2> QED
    BY <2>1, <2>2
<1>8. F \in SUBSET S /\ IsFiniteSet(F)
  <2>1. F \in SUBSET S
    BY <1>3
  <2> QED
    BY <2>1, FS_Subset
<1>9. pick \in Injection(F, 0 .. m - 1) /\ pick \in Surjection(F, 0 .. m - 1)
  <2> HIDE DEF pick
  <2>1. pick \in Injection(F, 0 .. m - 1)
    BY <1>5, <1>6 DEF Injection, IsInjective
  <2> QED
    BY <1>5, <1>7, <2>1 DEF Surjection
<1>10. Cardinality(0 .. m - 1) = m
  <2> HIDE DEF m
  <2>1. m - 1 \in Int /\ 0 \in Int
    BY <1>1
  <2>2. Cardinality(0 .. m - 1) = IF 0 > m - 1 THEN 0 ELSE (m - 1) - 0 + 1
    BY <2>1, FS_Interval
  <2> QED
    BY <1>1, <2>2
<1>11. Cardinality(F) = m
  <2>1. Cardinality(0 .. m - 1) = Cardinality(F)
    BY <1>8, <1>9, FS_Surjection
  <2> QED
    BY <1>10, <2>1
<1> QED
  BY <1>8, <1>11 DEF F

LEMMA HasFirst ==
    ASSUME NEW S, IsFiniteSet(S), S # {}, NEW R, StrictOrder(S, R)
    PROVE  \E s \in S : \A t \in S : <<t, s>> \notin R
<1>1. Foremost(S, R, 1) \in SUBSET S /\ Cardinality(Foremost(S, R, 1)) = Lower(1, Cardinality(S))
  BY ForemostAreSome
<1>2. Cardinality(S) \in Nat /\ Cardinality(S) # 0
  BY FS_CardinalityType, FS_EmptySet
<1>3. Foremost(S, R, 1) # {}
  BY <1>1, <1>2, FS_EmptySet DEF Lower
<1>4. PICK s \in S : Cardinality(Ahead(S, R, s)) < 1
  BY <1>3 DEF Foremost, Ahead
<1>5. Ahead(S, R, s) \in SUBSET S
  BY DEF Ahead
<1>6. IsFiniteSet(Ahead(S, R, s))
  BY <1>5, FS_Subset
<1>7. Cardinality(Ahead(S, R, s)) \in Nat
  BY <1>6, FS_CardinalityType
<1>8. Ahead(S, R, s) = {}
  BY <1>4, <1>6, <1>7, FS_EmptySet
<1> QED
  BY <1>8 DEF Ahead

(***************************************************************************)
(* The spread of a set over its days, in any strict order.                 *)
(***************************************************************************)
LEMMA SpreadOfSlots ==
    ASSUME NEW S, IsFiniteSet(S), NEW R, StrictOrder(S, R), NEW n \in Nat
    PROVE  /\ Spread(S, R, n) \subseteq S
           /\ Cardinality(Spread(S, R, n)) = Lower(n, Cardinality(S))
           /\ \A s, t \in Spread(S, R, n) : s # t /\ DayOf(s) = DayOf(t) =>
                \A f \in S : \E o \in Spread(S, R, n) : DayOf(o) = DayOf(f)
<1> DEFINE firsts == {s \in S : \A t \in S : DayOf(t) = DayOf(s) => <<t, s>> \notin R}
           daily == Foremost(firsts, R, n)
           k == n - Cardinality(daily)
           more == Foremost(S \ daily, R, k)
<1>1. Spread(S, R, n) = daily \cup more
  BY DEF Spread
<1>2. firsts \in SUBSET S
  OBVIOUS
<1>3. IsFiniteSet(firsts) /\ StrictOrder(firsts, R)
  BY <1>2, FS_Subset, OrderOfSubset
<1>4. daily \in SUBSET firsts /\ IsFiniteSet(daily) /\ Cardinality(daily) = Lower(n, Cardinality(firsts))
  BY <1>3, ForemostAreSome
<1>5. Cardinality(firsts) \in Nat /\ Cardinality(S) \in Nat /\ Cardinality(daily) \in Nat
  BY <1>3, <1>4, FS_CardinalityType
<1>6. k \in Nat
  BY <1>4, <1>5 DEF Lower
<1>7. IsFiniteSet(S \ daily) /\ StrictOrder(S \ daily, R)
  <2>1. S \ daily \in SUBSET S
    OBVIOUS
  <2> QED
    BY <2>1, FS_Subset, OrderOfSubset
<1>8. Cardinality(S \ daily) = Cardinality(S) - Cardinality(daily)
  <2>1. S \cap daily = daily
    BY <1>2, <1>4
  <2> QED
    BY <2>1, FS_Difference
<1>9. more \in SUBSET (S \ daily) /\ IsFiniteSet(more) /\ Cardinality(more) = Lower(k, Cardinality(S \ daily))
  <2> HIDE DEF k, daily
  <2> QED
    BY <1>6, <1>7, ForemostAreSome
<1> HIDE DEF firsts, daily, more
<1>10. Cardinality(daily \cup more) = Lower(n, Cardinality(S))
  <2>1. daily \cap more = {}
    BY <1>9
  <2>2. Cardinality(daily \cup more) = Cardinality(daily) + Cardinality(more) - Cardinality(daily \cap more)
    BY <1>4, <1>9, FS_Union
  <2>3. Cardinality(daily \cap more) = 0
    BY <2>1, FS_EmptySet
  <2>4. Cardinality(daily) <= Cardinality(S)
    BY <1>2, <1>4, FS_Subset
  <2>5. Cardinality(more) = Lower(k, Cardinality(S) - Cardinality(daily))
    BY <1>8, <1>9
  <2> QED
    BY <1>5, <2>2, <2>3, <2>4, <2>5 DEF Lower
<1>11. ASSUME NEW s \in daily \cup more, NEW t \in daily \cup more, s # t, DayOf(s) = DayOf(t), NEW f \in S
       PROVE  \E o \in daily \cup more : DayOf(o) = DayOf(f)
  <2>1. CASE Cardinality(firsts) <= n
    <3>1. daily = firsts
      <4>1. Cardinality(firsts) = Cardinality(daily)
        BY <1>4, <1>5, <2>1 DEF Lower
      <4> QED
        BY <1>3, <1>4, <4>1, FS_Subset
    <3> DEFINE D == {u \in S : DayOf(u) = DayOf(f)}
    <3>2. D \in SUBSET S /\ D # {}
      OBVIOUS
    <3>3. IsFiniteSet(D) /\ StrictOrder(D, R)
      BY <3>2, FS_Subset, OrderOfSubset
    <3>4. PICK o \in D : \A u \in D : <<u, o>> \notin R
      <4> HIDE DEF D
      <4> QED
        BY <3>2, <3>3, HasFirst
    <3>5. o \in firsts /\ DayOf(o) = DayOf(f)
      BY <3>4, Zenon DEF firsts
    <3> QED
      BY <3>1, <3>5
  <2>2. CASE ~(Cardinality(firsts) <= n)
    <3>1. Cardinality(daily) = n /\ Cardinality(more) = 0
      <4>1. Cardinality(daily) = n
        BY <1>4, <1>5, <2>2 DEF Lower
      <4>2. k = 0
        BY <1>5, <4>1
      <4>3. Cardinality(S \ daily) \in Nat
        BY <1>7, FS_CardinalityType
      <4> HIDE DEF k
      <4> QED
        BY <1>9, <4>1, <4>2, <4>3 DEF Lower
    <3>2. more = {}
      BY <1>9, <3>1, FS_EmptySet
    <3>3. s \in firsts /\ t \in firsts
      BY <1>4, <3>2
    <3>4. s \in S /\ t \in S /\ <<s, t>> \notin R /\ <<t, s>> \notin R
      BY <1>11, <3>3 DEF firsts
    <3> QED
      BY <1>11, <3>4 DEF StrictOrder
  <2> QED
    BY <2>1, <2>2
<1> QED
  BY <1>1, <1>2, <1>4, <1>9, <1>10, <1>11

(***************************************************************************)
(* The places of the loops are ordered as the loops visit them; a slot is  *)
(* found at the first of its places.                                       *)
(***************************************************************************)
Cursors == Windows \X (0 .. Day)

LEMMA DayIsPositive == Day \in Nat /\ Day > 0 /\ Duration \in Nat /\ Duration > 0 /\ Step \in Nat /\ Step > 0
BY SlotsAssumption

LEMMA WindowsOfDays ==
    ASSUME NEW w \in Windows
    PROVE  /\ w[1] \in DOMAIN Hours /\ w[2] \in DOMAIN Hours[w[1]] /\ w = <<w[1], w[2]>>
           /\ w[1] \in Int /\ w[2] \in Nat
           /\ Opens(w) \in Int /\ Closes(w) \in Int
           /\ Opens(w) >= Day * w[1] /\ Closes(w) <= Day * w[1] + Day
<1>1. PICK d \in DOMAIN Hours : w \in {d} \X DOMAIN Hours[d]
  BY DEF Windows
<1>2. w[1] = d /\ w[2] \in DOMAIN Hours[d] /\ w = <<w[1], w[2]>>
  BY <1>1
<1>3. d \in Int /\ Hours[d] \in Seq((0 .. Day) \X (0 .. Day))
  BY SlotsAssumption
<1>4. w[2] \in Nat /\ Hours[d][w[2]] \in (0 .. Day) \X (0 .. Day)
  BY <1>2, <1>3
<1>5. Hours[d][w[2]][1] \in 0 .. Day /\ Hours[d][w[2]][2] \in 0 .. Day
  BY <1>4
<1>6. Day * d \in Int
  BY <1>3, DayIsPositive
<1>7. Opens(w) = Day * d + Hours[d][w[2]][1] /\ Closes(w) = Day * d + Hours[d][w[2]][2]
  BY <1>2 DEF Opens, Closes
<1>8. /\ Opens(w) \in Int /\ Closes(w) \in Int
      /\ Opens(w) >= Day * d /\ Closes(w) <= Day * d + Day
  <2> DEFINE begin == Day * d
             from == Hours[d][w[2]][1]
             to == Hours[d][w[2]][2]
  <2>1. begin \in Int /\ from \in 0 .. Day /\ to \in 0 .. Day /\ Day \in Nat
    BY <1>5, <1>6, DayIsPositive
  <2>2. Opens(w) = begin + from /\ Closes(w) = begin + to
    BY <1>7
  <2> HIDE DEF begin, from, to
  <2>3. Opens(w) \in Int /\ Closes(w) \in Int /\ Opens(w) >= begin /\ Closes(w) <= begin + Day
    BY <2>1, <2>2
  <2> QED
    BY <2>3 DEF begin
<1>9. w[1] = d /\ d \in DOMAIN Hours /\ d \in Int
  BY <1>2, <1>3
<1> HIDE DEF Opens, Closes
<1> QED
  BY <1>2, <1>4, <1>8, <1>9, Zenon

LEMMA FinitelyManyCursors == IsFiniteSet(Cursors)
<1> DEFINE Of == [d \in DOMAIN Hours |-> {d} \X DOMAIN Hours[d]]
           All == {Of[d] : d \in DOMAIN Hours}
<1>1. IsFiniteSet(DOMAIN Hours)
  BY SlotsAssumption
<1>2. Of \in Surjection(DOMAIN Hours, All)
  BY DEF Surjection
<1>3. IsFiniteSet(All)
  BY <1>1, <1>2, FS_Surjection
<1>4. ASSUME NEW d \in DOMAIN Hours PROVE IsFiniteSet(Of[d])
  <2>1. Hours[d] \in Seq((0 .. Day) \X (0 .. Day))
    BY SlotsAssumption
  <2>2. DOMAIN Hours[d] = 1 .. Len(Hours[d]) /\ Len(Hours[d]) \in Nat
    BY <2>1
  <2>3. IsFiniteSet(1 .. Len(Hours[d])) /\ IsFiniteSet({d})
    <3>1. IsFiniteSet(1 .. Len(Hours[d]))
      BY <2>2, FS_Interval
    <3> QED
      BY <3>1, FS_Singleton
  <2>4. IsFiniteSet({d} \X (1 .. Len(Hours[d])))
    BY <2>3, FS_Product
  <2> QED
    BY <2>2, <2>4
<1>5. IsFiniteSet(UNION All)
  BY <1>3, <1>4, FS_UNION
<1>6. UNION All = Windows
  BY DEF Windows
<1>7. IsFiniteSet(0 .. Day)
  BY DayIsPositive, FS_Interval
<1> QED
  BY <1>5, <1>6, <1>7, FS_Product DEF Cursors

InTurn(places) == {x \in places \X places : Precedes(x[1], x[2])}

LEMMA CursorsInTurn ==
    ASSUME NEW P \in SUBSET Cursors
    PROVE  StrictOrder(P, InTurn(P))
<1>1. ASSUME NEW p \in P
      PROVE  /\ p[1] \in Windows /\ p[1][1] \in Int /\ p[1][2] \in Int /\ p[2] \in Int
             /\ p = <<p[1], p[2]>> /\ p[1] = <<p[1][1], p[1][2]>>
  <2>1. p[1] \in Windows /\ p[2] \in 0 .. Day /\ p = <<p[1], p[2]>>
    BY DEF Cursors
  <2> QED
    BY <2>1, WindowsOfDays, DayIsPositive
<1>2. ASSUME NEW p \in P PROVE ~Precedes(p, p)
  BY <1>1 DEF Precedes
<1>3. ASSUME NEW p \in P, NEW r \in P, NEW t \in P, Precedes(p, r), Precedes(r, t) PROVE Precedes(p, t)
  BY <1>1, <1>3 DEF Precedes
<1>4. ASSUME NEW p \in P, NEW r \in P PROVE p = r \/ Precedes(p, r) \/ Precedes(r, p)
  <2> DEFINE a == p[1][1]  b == p[1][2]  c == p[2]
             d == r[1][1]  e == r[1][2]  f == r[2]
  <2>1. a \in Int /\ b \in Int /\ c \in Int /\ d \in Int /\ e \in Int /\ f \in Int
    BY <1>1
  <2>2. p = <<<<a, b>>, c>> /\ r = <<<<d, e>>, f>> /\ p[1] = <<a, b>> /\ r[1] = <<d, e>>
    BY <1>1
  <2>3. a < d \/ (a = d /\ b < e) \/ (a = d /\ b = e /\ c < f) => Precedes(p, r)
    BY <2>2 DEF Precedes
  <2>4. d < a \/ (d = a /\ e < b) \/ (d = a /\ e = b /\ f < c) => Precedes(r, p)
    BY <2>2 DEF Precedes
  <2> HIDE DEF a, b, c, d, e, f
  <2>5. (a = d /\ b = e /\ c = f) \/ (a < d \/ (a = d /\ b < e) \/ (a = d /\ b = e /\ c < f))
        \/ (d < a \/ (d = a /\ e < b) \/ (d = a /\ e = b /\ f < c))
    BY <2>1
  <2> QED
    BY <2>2, <2>3, <2>4, <2>5
<1>5. \A p, r \in P : <<p, r>> \in InTurn(P) <=> Precedes(p, r)
  BY DEF InTurn
<1> QED
  BY <1>2, <1>3, <1>4, <1>5, Zenon DEF StrictOrder

LEMMA FinitelyManySlots ==
    ASSUME NEW P \in SUBSET Cursors
    PROVE  IsFiniteSet(P) /\ IsFiniteSet(SlotsOf(P))
<1> DEFINE f == [p \in P |-> SlotOf(p)]
<1>1. IsFiniteSet(P)
  BY FinitelyManyCursors, FS_Subset
<1>2. f \in Surjection(P, SlotsOf(P))
  BY DEF Surjection, SlotsOf
<1> QED
  BY <1>1, <1>2, FS_Surjection

LEMMA SlotsInOrder ==
    ASSUME NEW P \in SUBSET Cursors
    PROVE  StrictOrder(SlotsOf(P), Order(P))
<1> DEFINE First(s, p) == p \in P /\ SlotOf(p) = s /\ \A r \in P : SlotOf(r) = s => r = p \/ Precedes(p, r)
<1>1. /\ \A p \in P : ~Precedes(p, p)
      /\ \A p, r, t \in P : Precedes(p, r) /\ Precedes(r, t) => Precedes(p, t)
      /\ \A p, r \in P : p = r \/ Precedes(p, r) \/ Precedes(r, p)
  <2>1. \A p, r \in P : <<p, r>> \in InTurn(P) <=> Precedes(p, r)
    BY DEF InTurn
  <2> QED
    BY <2>1, CursorsInTurn, Zenon DEF StrictOrder
<1>2. ASSUME NEW s \in SlotsOf(P) PROVE \E p \in P : First(s, p)
  <2> DEFINE T == {p \in P : SlotOf(p) = s}
  <2>1. T \in SUBSET P /\ T # {}
    BY DEF SlotsOf
  <2>2. IsFiniteSet(T) /\ StrictOrder(T, InTurn(P))
    <3>1. IsFiniteSet(P) /\ StrictOrder(P, InTurn(P))
      BY FinitelyManySlots, CursorsInTurn
    <3> QED
      BY <2>1, <3>1, FS_Subset, OrderOfSubset
  <2>3. PICK p \in T : \A r \in T : <<r, p>> \notin InTurn(P)
    <3> HIDE DEF T
    <3> QED
      BY <2>1, <2>2, HasFirst
  <2>4. p \in P /\ SlotOf(p) = s
    BY <2>3
  <2>5. ASSUME NEW r \in P, SlotOf(r) = s PROVE r = p \/ Precedes(p, r)
    <3>1. ~Precedes(r, p)
      BY <2>3, <2>4, <2>5 DEF InTurn
    <3> QED
      BY <1>1, <2>4, <3>1
  <2> QED
    BY <2>4, <2>5
<1>3. ASSUME NEW s \in SlotsOf(P), NEW t \in SlotsOf(P), NEW p \in P, NEW r \in P, First(s, p), First(t, r)
      PROVE  <<s, t>> \in Order(P) <=> Precedes(p, r)
  <2>1. ASSUME Precedes(p, r) PROVE <<s, t>> \in Order(P)
    <3>1. \A u \in P : SlotOf(u) = t => Precedes(p, u)
      BY <1>1, <1>3, <2>1
    <3> QED
      BY <1>3, <3>1 DEF Order
  <2>2. ASSUME <<s, t>> \in Order(P) PROVE Precedes(p, r)
    <3>1. PICK u \in P : SlotOf(u) = s /\ \A v \in P : SlotOf(v) = t => Precedes(u, v)
      BY <2>2 DEF Order
    <3>2. Precedes(u, r) /\ (u = p \/ Precedes(p, u))
      BY <1>3, <3>1
    <3> QED
      BY <1>1, <3>2
  <2> QED
    BY <2>1, <2>2
<1> HIDE DEF First
<1>4. ASSUME NEW s \in SlotsOf(P) PROVE <<s, s>> \notin Order(P)
  BY <1>1, <1>2, <1>3
<1>5. ASSUME NEW s \in SlotsOf(P), NEW t \in SlotsOf(P), NEW u \in SlotsOf(P),
             <<s, t>> \in Order(P), <<t, u>> \in Order(P)
      PROVE  <<s, u>> \in Order(P)
  <2>1. PICK a \in P : First(s, a)
    BY <1>2
  <2>2. PICK b \in P : First(t, b)
    BY <1>2
  <2>3. PICK c \in P : First(u, c)
    BY <1>2
  <2>4. Precedes(a, b) /\ Precedes(b, c)
    BY <1>3, <1>5, <2>1, <2>2, <2>3
  <2>5. Precedes(a, c)
    BY <1>1, <2>4
  <2> QED
    BY <1>3, <2>1, <2>3, <2>5
<1>6. ASSUME NEW s \in SlotsOf(P), NEW t \in SlotsOf(P)
      PROVE  s = t \/ <<s, t>> \in Order(P) \/ <<t, s>> \in Order(P)
  <2>1. PICK a \in P : First(s, a)
    BY <1>2
  <2>2. PICK b \in P : First(t, b)
    BY <1>2
  <2>3. a = b \/ Precedes(a, b) \/ Precedes(b, a)
    BY <1>1
  <2>4. a = b => s = t
    BY <2>1, <2>2 DEF First
  <2> QED
    BY <1>3, <2>1, <2>2, <2>3, <2>4
<1> QED
  BY <1>4, <1>5, <1>6, Zenon DEF StrictOrder

(***************************************************************************)
(* The clock.  When the wall clock shows a time of day for a slot, no      *)
(* earlier time is shown as one of a later day: a time that is skipped is  *)
(* shown as a later one, and OnItsDay is about that.                       *)
(***************************************************************************)
LEMMA Quotients ==
    ASSUME NEW a \in Int, NEW b \in Nat, b > 0
    PROVE  /\ a \div b \in Int /\ a % b \in 0 .. b - 1
           /\ a = b * (a \div b) + (a % b)
OBVIOUS

LEMMA QuotientsGrow ==
    ASSUME NEW a \in Int, NEW c \in Int, a <= c, NEW b \in Nat, b > 0
    PROVE  a \div b <= c \div b
OBVIOUS

LEMMA Multiples ==
    ASSUME NEW b \in Nat, b > 0, NEW k \in Int
    PROVE  (b * k) % b = 0
OBVIOUS

LEMMA QuotientWithin ==
    ASSUME NEW b \in Nat, b > 0, NEW d \in Int, NEW x \in 0 .. b - 1
    PROVE  (b * d + x) \div b = d
OBVIOUS

LEMMA FewSteps ==
    ASSUME NEW b \in Nat, b > 0, NEW k \in Int, NEW c \in Nat, b * k <= c, b * k >= 0
    PROVE  k \in 0 .. c
OBVIOUS

LEMMA ClocksTyped ==
    ASSUME zone \in Zones
    PROVE  /\ zone.offset \in Int /\ zone.shift \in Int /\ ClockChange \in Int
           /\ Border \in Int
           /\ \A l \in Int : Utc(l) \in Int /\ Wall(l) \in Int
<1>1. zone.offset \in Int /\ zone.shift \in -Day .. Day /\ ClockChange \in Int
  BY SlotsAssumption
<1>2. zone.shift \in Int
  BY <1>1, DayIsPositive
<1>3. Border \in Int
  BY <1>1, <1>2 DEF Border, Higher
<1> QED
  BY <1>1, <1>2, <1>3 DEF Utc, Wall

LEMMA ShownBefore ==
    ASSUME zone \in Zones, NEW l \in Int, NEW u \in Int, u <= Utc(l)
    PROVE  Wall(u) <= l \/ Wall(u) <= Wall(Utc(l))
<1> DEFINE ahead == zone.offset
           shift == zone.shift
<1>1. ahead \in Int /\ shift \in Int /\ ClockChange \in Int
  BY ClocksTyped
<1>2. Border = IF shift > 0 THEN ClockChange + shift ELSE ClockChange
  BY <1>1 DEF Border, Higher
<1>3. \A v : Wall(v) = v + ahead + IF v + ahead < ClockChange THEN 0 ELSE shift
  BY DEF Wall
<1>4. Utc(l) = l - ahead - IF l < Border THEN 0 ELSE shift
  BY DEF Utc
<1> HIDE DEF ahead, shift
\* Before the change a time is shown as it is, unless it is skipped.
<1>5. CASE l < Border
  <2>1. Utc(l) = l - ahead
    BY <1>1, <1>4, <1>5
  <2>2. CASE u + ahead < ClockChange
    BY <1>1, <1>3, <2>1, <2>2
  <2>3. CASE ~(u + ahead < ClockChange)
    <3>1. Wall(u) = u + ahead + shift
      BY <1>3, <2>3
    <3>2. ~(l < ClockChange)
      BY <1>1, <2>1, <2>3
    <3>3. Wall(Utc(l)) = l + shift
      BY <1>1, <1>3, <2>1, <3>2
    <3> QED
      BY <1>1, <2>1, <3>1, <3>3
  <2> QED
    BY <2>2, <2>3
<1>6. CASE ~(l < Border)
  <2>1. Utc(l) = l - ahead - shift /\ l >= ClockChange
    BY <1>1, <1>2, <1>4, <1>6
  <2> QED
    BY <1>1, <1>3, <2>1
<1> QED
  BY <1>5, <1>6

LEMMA LengthOfSlots ==
    ASSUME zone \in Zones, NEW l \in Int
    PROVE  /\ SlotAt(l) \in Int \X Int
           /\ SlotAt(l)[2] - SlotAt(l)[1] = Duration \/ l \in Border - Duration .. Border - 1
BY ClocksTyped, DayIsPositive DEF Utc, SlotAt

LEMMA RulesTyped ==
    /\ Pause \in Nat /\ Notice \in Nat /\ OfferTtl \in Nat /\ MaxDays \in Nat
    /\ MaxSlots \in Nat /\ MaxMinute \in Nat
BY SlotsAssumption

LEMMA RequestsTyped ==
    ASSUME NEW q, q.at \in Nat, q.earliest \in Nat, q.days \in Nat
    PROVE  /\ StartBound(q) \in Int /\ Until(q) \in Int
           /\ StartBound(q) >= q.at + Notice /\ StartBound(q) >= q.earliest
           /\ \A u \in Int : u >= q.at + Notice /\ u >= q.earliest => u >= StartBound(q)
<1>1. Lower(q.days, MaxDays) \in Int /\ Notice \in Nat /\ Day \in Int
  BY RulesTyped, DayIsPositive DEF Lower
<1>2. Day * Lower(q.days, MaxDays) \in Int
  BY <1>1
<1>3. Until(q) \in Int
  BY <1>2 DEF Until
<1> QED
  BY <1>1, <1>3 DEF StartBound, Higher

(***************************************************************************)
(* The times at which slots begin are those of the cursors.                *)
(***************************************************************************)
LEMMA CursorsAreBegins ==
    ASSUME NEW p \in Cursors
    PROVE  /\ CursorAt(p) \in Int
           /\ CursorAt(p) + Duration <= Closes(p[1]) => CursorAt(p) \in Begins
<1>1. p[1] \in Windows /\ p[2] \in Nat
  BY DayIsPositive DEF Cursors
<1>2. Opens(p[1]) \in Int /\ Closes(p[1]) \in Int
  BY <1>1, WindowsOfDays
<1> DEFINE way == Step * p[2]
<1>3. way \in Int /\ way >= 0 /\ way % Step = 0
  BY <1>1, DayIsPositive, Multiples
<1>4. CursorAt(p) = Opens(p[1]) + way
  BY DEF CursorAt
<1> HIDE DEF way
<1>5. CursorAt(p) \in Int /\ CursorAt(p) - Opens(p[1]) = way
  BY <1>2, <1>3, <1>4
<1>6. ASSUME CursorAt(p) + Duration <= Closes(p[1])
      PROVE  CursorAt(p) \in Opens(p[1]) .. Closes(p[1]) - Duration
  BY <1>2, <1>3, <1>4, <1>6, DayIsPositive
<1> QED
  BY <1>1, <1>3, <1>5, <1>6 DEF Begins

LEMMA BeginsAreCursors ==
    ASSUME NEW l \in Begins
    PROVE  \E p \in Cursors : /\ CursorAt(p) = l /\ l \in Int /\ l + Duration <= Closes(p[1])
                              /\ p[1][1] \in Int /\ l \div Day = p[1][1]
<1>1. PICK w \in Windows : l \in Opens(w) .. Closes(w) - Duration /\ (l - Opens(w)) % Step = 0
  BY DEF Begins
<1>2. /\ w[1] \in Int /\ Opens(w) \in Int /\ Closes(w) \in Int
      /\ Opens(w) >= Day * w[1] /\ Closes(w) <= Day * w[1] + Day
  BY WindowsOfDays
<1>3. l \in Int /\ l >= Opens(w) /\ l + Duration <= Closes(w)
  BY <1>1, <1>2, DayIsPositive
<1> DEFINE k == (l - Opens(w)) \div Step
           begin == Day * w[1]
<1>4. k \in Int /\ l - Opens(w) = Step * k + ((l - Opens(w)) % Step)
  <2> DEFINE a == l - Opens(w)
  <2>1. a \in Int
    BY <1>2, <1>3
  <2> HIDE DEF a
  <2>2. a \div Step \in Int /\ a = Step * (a \div Step) + (a % Step)
    BY <2>1, DayIsPositive, Quotients
  <2> QED
    BY <2>2 DEF a
<1>5. l - Opens(w) = Step * k
  <2> HIDE DEF k
  <2>1. Step * k \in Int
    BY <1>4, DayIsPositive
  <2> QED
    BY <1>1, <1>4, <2>1
<1>6. begin \in Int
  BY <1>2, DayIsPositive
<1> HIDE DEF k, begin
<1>7. /\ begin \in Int /\ Opens(w) >= begin /\ Closes(w) <= begin + Day
  BY <1>2, <1>6 DEF begin
<1>8. l - Opens(w) >= 0 /\ l - Opens(w) <= Day
  BY <1>2, <1>3, <1>7, DayIsPositive
<1>9. k \in 0 .. Day
  BY <1>4, <1>5, <1>8, DayIsPositive, FewSteps
<1>10. l \div Day = w[1]
  <2>1. l - begin \in 0 .. Day - 1
    BY <1>2, <1>3, <1>7, DayIsPositive
  <2>2. (Day * w[1] + (l - begin)) \div Day = w[1]
    BY <1>2, <2>1, DayIsPositive, QuotientWithin
  <2>3. begin + (l - begin) = l
    BY <1>3, <1>7
  <2> QED
    BY <2>2, <2>3 DEF begin
<1> DEFINE p == <<w, k>>
<1>11. p \in Cursors /\ p[1] = w /\ p[2] = k
  BY <1>9 DEF Cursors
<1>12. CursorAt(p) = l
  <2>1. Step * k \in Int
    BY <1>4, DayIsPositive
  <2>2. CursorAt(p) = Opens(w) + Step * k
    BY <1>11 DEF CursorAt
  <2> QED
    BY <1>2, <1>3, <1>5, <2>1, <2>2
<1> QED
  BY <1>2, <1>3, <1>10, <1>11, <1>12

LEMMA FirstDayReached ==
    ASSUME zone \in Zones, NEW q, q.at \in Nat, q.earliest \in Nat, q.days \in Nat,
           NEW l \in Int, OnItsDay(l), Utc(l) >= StartBound(q)
    PROVE  l \div Day >= FirstDay(q)
<1> DEFINE u == StartBound(q)
<1>1. u \in Int /\ u <= Utc(l)
  BY RequestsTyped, ClocksTyped
<1>2. Wall(u) \in Int /\ Utc(l) \in Int /\ Wall(Utc(l)) \in Int
  BY <1>1, ClocksTyped
<1>3. Wall(u) <= l \/ Wall(u) <= Wall(Utc(l))
  BY <1>1, ShownBefore
<1>4. Wall(u) \div Day <= l \div Day \/ Wall(u) \div Day <= Wall(Utc(l)) \div Day
  BY <1>2, <1>3, QuotientsGrow, DayIsPositive
<1>5. Wall(Utc(l)) \div Day = l \div Day
  BY DEF OnItsDay
<1>6. Wall(u) \div Day \in Int /\ l \div Day \in Int
  BY <1>2, DayIsPositive, Quotients
<1> HIDE DEF u
<1>7. FirstDay(q) = Wall(u) \div Day
  BY DEF FirstDay, u
<1> QED
  BY <1>4, <1>5, <1>6, <1>7

(***************************************************************************)
(* The candidates of a request are the free slots: of what the calendar    *)
(* has, D, what is fetched is what a slot before the horizon can overlap.  *)
(* FreeFor and AllFreeFor are what AllFree says of the last answer.        *)
(***************************************************************************)
FreeFor(a, s) ==
    /\ s[1] >= a.at + Notice /\ s[1] >= a.earliest
    /\ s[2] <= Until(a)
    /\ ~\E b \in {b \in a.diary : b[1] < Until(a) /\ b[2] > a.at} :
           b[1] < s[2] + Pause /\ s[1] - Pause < b[2]

AllFreeFor(a) ==
    /\ \A s \in a.slots : FreeFor(a, s) /\ \E l \in Begins : s = SlotAt(l)
    /\ a.days > 0 => \A l \in Begins : OnItsDay(l) /\ FreeFor(a, SlotAt(l)) => SlotAt(l) \in a.slots

LEMMA AdmissibleIsFree ==
    ASSUME NEW q, q.at \in Nat, q.earliest \in Nat, q.days \in Nat,
           NEW a, a.at = q.at, a.earliest = q.earliest, a.days = q.days,
           NEW D \in SUBSET (Int \X Int), a.diary = D,
           NEW s \in Int \X Int
    PROVE  FreeFor(a, s) <=>
             /\ s[1] >= StartBound(q) /\ s[2] <= Until(q)
             /\ \A b \in {b \in D : Overlap(b, <<q.at, Until(q)>>)} : ~Overlap(Widened(s), b)
<1>1. Until(a) = Until(q)
  BY DEF Until
<1>2. /\ StartBound(q) \in Int /\ Until(q) \in Int
      /\ s[1] >= StartBound(q) <=> s[1] >= q.at + Notice /\ s[1] >= q.earliest
  <2>1. s[1] \in Int /\ Notice \in Nat
    BY RulesTyped
  <2> QED
    BY <2>1, RequestsTyped
<1>3. ASSUME NEW b \in D
      PROVE  /\ (b[1] < Until(a) /\ b[2] > a.at) <=> Overlap(b, <<q.at, Until(q)>>)
             /\ (b[1] < s[2] + Pause /\ s[1] - Pause < b[2]) <=> Overlap(Widened(s), b)
  <2>1. b[1] \in Int /\ b[2] \in Int /\ s[1] \in Int /\ s[2] \in Int /\ Pause \in Int
    BY RulesTyped
  <2> QED
    BY <1>1, <1>2, <2>1 DEF Overlap, Widened
<1> QED
  BY <1>1, <1>2, <1>3 DEF FreeFor

LEMMA CandidatesAreFree ==
    ASSUME zone \in Zones,
           NEW q, q.at \in Nat, q.earliest \in Nat, q.days \in Nat,
           NEW D \in SUBSET (Int \X Int),
           NEW busy, \A b : b \in busy <=> b \in D /\ Overlap(b, <<q.at, Until(q)>>),
           NEW P, P = Candidates(q, busy),
           NEW a, a.at = q.at, a.earliest = q.earliest, a.days = q.days, a.diary = D, a.slots = SlotsOf(P)
    PROVE  /\ P \in SUBSET Cursors
           /\ AllFreeFor(a)
<1> DEFINE Admits(s) == /\ s[1] >= StartBound(q) /\ s[2] <= Until(q)
                     /\ \A b \in busy : ~Overlap(Widened(s), b)
<1>1. ASSUME NEW s \in Int \X Int PROVE FreeFor(a, s) <=> Admits(s)
  <2>1. busy = {b \in D : Overlap(b, <<q.at, Until(q)>>)}
    OBVIOUS
  <2> QED
    BY <2>1, AdmissibleIsFree
<1>2. P = {p \in Cursors : /\ p[1][1] >= FirstDay(q) /\ Utc(Day * p[1][1]) < Until(q)
                           /\ CursorAt(p) + Duration <= Closes(p[1])
                           /\ Admits(SlotOf(p))}
  BY DEF Candidates, Cursors
<1> HIDE DEF Admits
<1>3. ASSUME NEW p \in P
      PROVE  /\ FreeFor(a, SlotOf(p))
             /\ \E l \in Begins : SlotOf(p) = SlotAt(l)
  <2>1. p \in Cursors /\ CursorAt(p) + Duration <= Closes(p[1]) /\ Admits(SlotOf(p))
    BY <1>2
  <2>2. CursorAt(p) \in Int /\ CursorAt(p) \in Begins
    BY <2>1, CursorsAreBegins
  <2>3. SlotOf(p) = SlotAt(CursorAt(p)) /\ SlotOf(p) \in Int \X Int
    BY <2>2, LengthOfSlots DEF SlotOf
  <2> QED
    BY <1>1, <2>1, <2>2, <2>3
<1>4. ASSUME NEW l \in Begins, OnItsDay(l), FreeFor(a, SlotAt(l)) PROVE SlotAt(l) \in SlotsOf(P)
  <2>1. PICK p \in Cursors : /\ CursorAt(p) = l /\ l \in Int /\ l + Duration <= Closes(p[1])
                             /\ p[1][1] \in Int /\ l \div Day = p[1][1]
    BY BeginsAreCursors
  <2>2. SlotAt(l) \in Int \X Int /\ Admits(SlotAt(l)) /\ SlotOf(p) = SlotAt(l)
    BY <1>1, <1>4, <2>1, LengthOfSlots DEF SlotOf
  <2>3. Utc(l) >= StartBound(q) /\ Utc(l + Duration) <= Until(q)
    BY <2>2 DEF Admits, SlotAt
  <2>4. p[1][1] >= FirstDay(q)
    BY <1>4, <2>1, <2>3, FirstDayReached
  <2>5. Utc(Day * p[1][1]) < Until(q)
    <3>1. Utc(Day * p[1][1]) < Utc(l + Duration)
      BY <1>4, <2>1 DEF OnItsDay
    <3>2. Day * p[1][1] \in Int /\ l + Duration \in Int
      BY <2>1, DayIsPositive
    <3>3. Utc(Day * p[1][1]) \in Int /\ Utc(l + Duration) \in Int /\ Until(q) \in Int
      BY <3>2, ClocksTyped, RequestsTyped
    <3> QED
      BY <2>3, <3>1, <3>3
  <2>6. p \in P
    BY <1>2, <2>1, <2>2, <2>4, <2>5
  <2> QED
    BY <2>2, <2>6 DEF SlotsOf
<1> QED
  BY <1>2, <1>3, <1>4 DEF AllFreeFor, SlotsOf

(***************************************************************************)
(* What is booked is an offer still good: every offer is of a candidate,   *)
(* the notice ahead when it was made, and that was at most its life before *)
(* it expires.  What is booked is in the calendar from then on.            *)
(***************************************************************************)
OffersPromised ==
    \A o \in offers :
        /\ o.exp \in Nat /\ o.slot[1] >= o.exp - OfferTtl + Notice
        /\ \E l \in Int : o.slot = SlotAt(l)

MadeApart ==
    \A m \in made :
        /\ m.slot[1] >= m.at + Notice - OfferTtl
        /\ \/ m.slot[2] - m.slot[1] = Duration
           \/ \E l \in Border - Duration .. Border - 1 : m.slot = SlotAt(l)
        /\ \A n \in made : n # m => ~Overlap(Widened(m.slot), n.slot)

SlotsInv ==
    /\ SlotsTypeOK /\ AllFreeFor(answer) /\ SpreadOut /\ MadeApart
    /\ diary \subseteq Int \X Int
    /\ OffersPromised
    /\ \A m \in made : m.slot \in diary

LEMMA SlotsInvImplies == SlotsInv => SlotsHold
BY DEF SlotsInv, SlotsHold, AllFreeFor, FreeFor, AllFree, MadeApart

LEMMA SlotsInvInit == SlotsInit => SlotsInv
<1> SUFFICES ASSUME SlotsInit PROVE SlotsInv
  OBVIOUS
<1> USE DEF SlotsInit
<1>1. SlotsTypeOK
  BY RulesTyped DEF SlotsTypeOK
<1>2. AllFreeFor(answer)
  BY DEF AllFreeFor
<1>3. SpreadOut
  <2>1. answer.slots = {} /\ answer.offered = {}
    OBVIOUS
  <2>2. Cardinality({}) = 0 /\ Lower(MaxSlots, 0) = 0
    BY FS_EmptySet, RulesTyped DEF Lower
  <2> QED
    BY <2>1, <2>2 DEF SpreadOut
<1> QED
  BY <1>1, <1>2, <1>3 DEF SlotsInv, MadeApart, OffersPromised

\* The zone and the answer stay: what is said of them stays said.
LEMMA AnswerStays ==
    ASSUME SlotsInv, zone' = zone, answer' = answer
    PROVE  AllFreeFor(answer)' /\ SpreadOut'
BY DEF SlotsInv, AllFreeFor, FreeFor, SpreadOut, OnItsDay, SlotAt, Utc, Wall, Border, Until

LEMMA SlotStays ==
    ASSUME zone' = zone, NEW l
    PROVE  SlotAt(l)' = SlotAt(l) /\ Border' = Border
BY DEF SlotAt, Utc, Border

LEMMA AvailabilityStep ==
    ASSUME SlotsInv, NEW earliest \in Earliest, NEW days \in AskedDays, Availability(earliest, days)
    PROVE  SlotsInv'
<1> DEFINE q == [at |-> minute, earliest |-> earliest, days |-> days]
           P == Candidates(q, Fetched(minute, Until(q)))
           offered == Spread(SlotsOf(P), Order(P), MaxSlots)
           a == [at |-> minute, earliest |-> earliest, days |-> days, diary |-> diary,
                 slots |-> SlotsOf(P), offered |-> offered]
<1>1. /\ offers' = offers \cup {[slot |-> s, exp |-> minute + OfferTtl] : s \in offered}
      /\ answer' = a /\ UNCHANGED <<minute, zone, diary, made>>
  BY DEF Availability
<1>2. /\ minute \in Nat /\ earliest \in Nat /\ days \in Nat
      /\ OfferTtl \in Nat /\ MaxSlots \in Nat /\ Notice \in Nat
      /\ zone \in Zones /\ diary \in SUBSET (Int \X Int)
  <2>1. earliest \in Nat /\ days \in Nat
    BY SlotsAssumption
  <2> QED
    BY <2>1, RulesTyped DEF SlotsInv, SlotsTypeOK
<1>3. P \in SUBSET Cursors /\ AllFreeFor(a)
  <2> DEFINE busy == Fetched(minute, Until(q))
  <2>1. P = Candidates(q, busy) /\ \A b : b \in busy <=> b \in diary /\ Overlap(b, <<q.at, Until(q)>>)
    BY DEF Fetched
  <2>2. q.at = minute /\ q.earliest = earliest /\ q.days = days
    OBVIOUS
  <2>3. a.at = q.at /\ a.earliest = q.earliest /\ a.days = q.days /\ a.diary = diary /\ a.slots = SlotsOf(P)
    OBVIOUS
  <2> HIDE DEF q, P, a, busy
  <2>4. q.at \in Nat /\ q.earliest \in Nat /\ q.days \in Nat
    BY <1>2, <2>2
  <2> QED
    BY <1>2, <2>1, <2>3, <2>4, CandidatesAreFree
<1> HIDE DEF P
<1>4. /\ offered \subseteq SlotsOf(P)
      /\ Cardinality(offered) = Lower(MaxSlots, Cardinality(SlotsOf(P)))
      /\ \A s, t \in offered : s # t /\ DayOf(s) = DayOf(t) =>
           \A f \in SlotsOf(P) : \E o \in offered : DayOf(o) = DayOf(f)
  <2>1. IsFiniteSet(SlotsOf(P)) /\ StrictOrder(SlotsOf(P), Order(P))
    BY <1>3, FinitelyManySlots, SlotsInOrder
  <2> QED
    BY <1>2, <2>1, SpreadOfSlots
<1> HIDE DEF offered
<1>5. a.slots = SlotsOf(P) /\ a.offered = offered /\ a.at = minute
  OBVIOUS
<1> HIDE DEF a
<1>6. AllFreeFor(answer)'
  <2>1. AllFreeFor(a) /\ answer' = a /\ zone' = zone
    BY <1>1, <1>3
  <2> QED
    BY <2>1 DEF AllFreeFor, FreeFor, OnItsDay, SlotAt, Utc, Wall, Border, Until
<1>7. SpreadOut'
  BY <1>1, <1>4, <1>5 DEF SpreadOut
<1>8. ASSUME NEW s \in offered
      PROVE  /\ s[1] >= minute + Notice /\ s \in Int \X Int
             /\ \E l \in Int : s = SlotAt(l)
  <2>1. FreeFor(a, s) /\ \E l \in Begins : s = SlotAt(l)
    BY <1>3, <1>4, <1>5 DEF AllFreeFor
  <2>2. PICK l \in Begins : s = SlotAt(l)
    BY <2>1
  <2>3. l \in Int
    BY BeginsAreCursors
  <2> QED
    BY <1>2, <1>5, <2>1, <2>2, <2>3, LengthOfSlots DEF FreeFor
<1>9. ASSUME NEW o \in offers'
      PROVE  /\ o.slot \in Int \X Int /\ o.exp \in Nat /\ o.slot[1] >= o.exp - OfferTtl + Notice
             /\ \E l \in Int : o.slot = SlotAt(l)'
  <2>1. CASE o \in offers
    BY <1>1, <2>1, SlotStays DEF SlotsInv, SlotsTypeOK, OffersPromised
  <2>2. CASE o \notin offers
    <3>1. PICK s \in offered : o = [slot |-> s, exp |-> minute + OfferTtl]
      BY <1>1, <2>2
    <3>2. o.slot = s /\ o.exp = minute + OfferTtl /\ s[1] \in Int
      BY <1>8, <3>1
    <3>3. PICK l \in Int : s = SlotAt(l)
      BY <1>8
    <3> QED
      BY <1>1, <1>2, <1>8, <3>2, <3>3, SlotStays
  <2> QED
    BY <2>1, <2>2
<1>10. SlotsTypeOK'
  BY <1>1, <1>9 DEF SlotsInv, SlotsTypeOK
<1>11. OffersPromised'
  BY <1>9 DEF OffersPromised
<1>12. MadeApart' /\ (\A m \in made : m.slot \in diary)' /\ (diary \subseteq Int \X Int)'
  BY <1>1, SlotStays DEF SlotsInv, MadeApart
<1> QED
  BY <1>6, <1>7, <1>10, <1>11, <1>12 DEF SlotsInv

LEMMA BookOfferStep ==
    ASSUME SlotsInv, NEW o \in offers, BookOffer(o)
    PROVE  SlotsInv'
<1> DEFINE new == [slot |-> o.slot, at |-> minute]
<1>1. /\ o.exp >= minute /\ o.slot[1] < o.slot[2]
      /\ Fetched(o.slot[1] - Pause, o.slot[2] + Pause) = {}
      /\ diary' = diary \cup {o.slot} /\ made' = made \cup {new}
      /\ UNCHANGED <<minute, zone, offers, answer>>
  BY DEF BookOffer
<1>2. new.slot = o.slot /\ new.at = minute
  OBVIOUS
<1> HIDE DEF new
<1>3. /\ minute \in Nat /\ zone \in Zones /\ o.slot \in Int \X Int /\ o.exp \in Nat
      /\ o.slot[1] \in Int /\ o.slot[2] \in Int
      /\ Pause \in Nat /\ Notice \in Nat /\ OfferTtl \in Nat
      /\ o.slot[1] >= o.exp - OfferTtl + Notice
  <2>1. minute \in Nat /\ zone \in Zones /\ o.slot \in Int \X Int /\ o.exp \in Nat
    BY RulesTyped DEF SlotsInv, SlotsTypeOK
  <2>2. o.slot[1] >= o.exp - OfferTtl + Notice
    BY DEF SlotsInv, OffersPromised
  <2> QED
    BY <2>1, <2>2, RulesTyped
<1>4. PICK l \in Int : o.slot = SlotAt(l)
  BY DEF SlotsInv, OffersPromised
<1>5. ASSUME NEW b \in diary
      PROVE  ~Overlap(Widened(o.slot), b) /\ ~Overlap(Widened(b), o.slot) /\ b # o.slot
  <2>1. ~Overlap(b, <<o.slot[1] - Pause, o.slot[2] + Pause>>)
    BY <1>1 DEF Fetched
  <2>2. b \in Int \X Int /\ b[1] \in Int /\ b[2] \in Int
    BY DEF SlotsInv
  <2> QED
    BY <1>1, <1>3, <2>1, <2>2 DEF Overlap, Widened
<1>6. \/ o.slot[2] - o.slot[1] = Duration
      \/ \E k \in Border - Duration .. Border - 1 : o.slot = SlotAt(k)
  BY <1>3, <1>4, LengthOfSlots
<1>7. ASSUME NEW m \in made'
      PROVE  /\ m.slot[1] >= m.at + Notice - OfferTtl
             /\ \/ m.slot[2] - m.slot[1] = Duration
                \/ \E k \in (Border - Duration .. Border - 1)' : m.slot = SlotAt(k)'
             /\ m.slot \in diary'
  <2>1. CASE m \in made
    BY <1>1, <2>1, SlotStays DEF SlotsInv, MadeApart
  <2>2. CASE m = new
    BY <1>1, <1>2, <1>3, <1>6, <2>2, SlotStays
  <2> QED
    BY <1>1, <2>1, <2>2
<1>8. ASSUME NEW m \in made', NEW n \in made', n # m PROVE ~Overlap(Widened(m.slot), n.slot)
  <2>1. CASE m \in made /\ n \in made
    BY <1>8, <2>1 DEF SlotsInv, MadeApart
  <2>2. CASE m = new /\ n \in made
    BY <1>2, <1>5, <2>2 DEF SlotsInv
  <2>3. CASE m \in made /\ n = new
    BY <1>2, <1>5, <2>3 DEF SlotsInv
  <2> QED
    BY <1>1, <1>8, <2>1, <2>2, <2>3
<1>9. MadeApart'
  BY <1>7, <1>8 DEF MadeApart
<1>10. SlotsTypeOK'
  BY <1>1, <1>2, <1>3 DEF SlotsInv, SlotsTypeOK, new
<1>11. OffersPromised' /\ (diary \subseteq Int \X Int)'
  BY <1>1, <1>3, SlotStays DEF SlotsInv, OffersPromised
<1>12. AllFreeFor(answer)' /\ SpreadOut'
  BY <1>1, AnswerStays
<1> QED
  BY <1>7, <1>9, <1>10, <1>11, <1>12 DEF SlotsInv

LEMMA SlotsInvStep == SlotsInv /\ [SlotsNext]_slotVars => SlotsInv'
<1> SUFFICES ASSUME SlotsInv, [SlotsNext]_slotVars PROVE SlotsInv'
  OBVIOUS
\* The steps of neither the service nor its customers.
<1>1. ASSUME UNCHANGED <<zone, offers, answer, made>>, minute' \in 0 .. MaxMinute,
             diary \subseteq diary', diary' \subseteq Int \X Int
      PROVE  SlotsInv'
  <2>1. AllFreeFor(answer)' /\ SpreadOut'
    BY <1>1, AnswerStays
  <2>2. OffersPromised' /\ MadeApart'
    BY <1>1, SlotStays DEF SlotsInv, OffersPromised, MadeApart
  <2>3. SlotsTypeOK' /\ (\A m \in made : m.slot \in diary)'
    BY <1>1 DEF SlotsInv, SlotsTypeOK
  <2> QED
    BY <1>1, <2>1, <2>2, <2>3 DEF SlotsInv
<1>2. minute \in 0 .. MaxMinute /\ MaxMinute \in Nat /\ diary \subseteq Int \X Int
  BY RulesTyped DEF SlotsInv, SlotsTypeOK
<1>3. CASE MinutePasses
  BY <1>1, <1>2, <1>3 DEF MinutePasses
<1>4. CASE \E earliest \in Earliest, days \in AskedDays : Availability(earliest, days)
  BY <1>4, AvailabilityStep
<1>5. CASE \E o \in offers : BookOffer(o)
  BY <1>5, BookOfferStep
<1>6. CASE \E b \in Meetings \ diary : Meet(b)
  <2>1. Meetings \subseteq Int \X Int
    BY SlotsAssumption
  <2> QED
    BY <1>1, <1>2, <1>6, <2>1 DEF Meet
<1>7. CASE UNCHANGED slotVars
  BY <1>1, <1>2, <1>7 DEF slotVars
<1> QED
  BY <1>3, <1>4, <1>5, <1>6, <1>7 DEF SlotsNext

\* Every slot that is offered is a free one, and every free slot of the working hours a candidate;
\* the offers are spread over the days; and what is booked from them keeps notice, length and pause
\* (candidate_slots, spread and book), for all hours, calendars, zones and changes of the clock.
THEOREM SlotsHoldAlways == SlotsSpec => []SlotsHold
<1>1. SlotsInit => SlotsInv
  BY SlotsInvInit
<1>2. SlotsInv /\ [SlotsNext]_slotVars => SlotsInv'
  BY SlotsInvStep
<1>3. SlotsInv => SlotsHold
  BY SlotsInvImplies
<1> QED
  BY <1>1, <1>2, <1>3, PTL DEF SlotsSpec
=============================================================================
