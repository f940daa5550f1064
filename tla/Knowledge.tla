----------------------------- MODULE Knowledge -----------------------------
(***************************************************************************)
(* The knowledge base that the sales agent answers from: one lineage of a  *)
(* document, its versions and their search index.                          *)
(*                                                                         *)
(* Every handler reads its row without a lock, checks it, and writes the   *)
(* columns it has changed when it commits.  approve waits for an embedding *)
(* service between the two.                                                *)
(*                                                                         *)
(* A content stands for everything an editor can change: text, title,      *)
(* prices, visibility and dates.  Lineages share no rows.  An approver to  *)
(* whom a content with flags is shown acknowledges them or is refused.     *)
(***************************************************************************)
EXTENDS Naturals, FiniteSets

CONSTANTS
    Contents,
    Users,
    Distinct,     \* require_distinct_approver
    Editors,     \* requests served at once
    Nil,         \* SQL NULL
    MaxVersion    \* bound: versions of the lineage

ASSUME KnowledgeAssumption ==
    /\ Distinct \in BOOLEAN
    /\ Nil \notin Contents \cup Users
    /\ MaxVersion \in Nat \ {0}

VARIABLES
    doc,      \* knowledge_documents, as committed, by version
    chunks,   \* knowledge_chunks: the content that each version was indexed from
    edits,      \* the open request of each session
    stale     \* history: versions on which a commit found another row than was read

knowledgeVars == <<doc, chunks, edits, stale>>

Versions == 1 .. MaxVersion

Status == {"ABSENT", "DRAFT", "PENDING_APPROVAL", "APPROVED", "ARCHIVED"}

\* by: created_by.  approver: approved_by.
Doc == [status   : Status,
        content  : Contents \cup {Nil},
        by       : Users \cup {Nil},
        approver : Users \cup {Nil}]

NoDoc == [status |-> "ABSENT", content |-> Nil, by |-> Nil, approver |-> Nil]

\* seen: the row as read, as far as it can change without an approval.  new: the content that
\* an edit wants.  user: author of a new version, or approver.  next: the version that an edit
\* adds, or 0.  olds: the versions that an approval has archived and keeps locked.
Edit == [op   : {"idle", "edit", "submit", "approve", "approving", "archive"},
        ver  : Versions \cup {0},
        seen : [status : Status, content : Contents \cup {Nil}],
        new  : Contents \cup {Nil},
        user : Users \cup {Nil},
        next : Nat,
        olds : SUBSET Versions]

NoEdit == [op |-> "idle", ver |-> 0, seen |-> [status |-> "ABSENT", content |-> Nil],
         new |-> Nil, user |-> Nil, next |-> 0, olds |-> {}]

KnowledgeTypeOK ==
    /\ doc \in [Versions -> Doc]
    /\ chunks \in [Versions -> Contents \cup {Nil}]
    /\ edits \in [Editors -> Edit]
    /\ stale \subseteq Versions

KnowledgeInit ==
    /\ doc = [v \in Versions |-> NoDoc]
    /\ chunks = [v \in Versions |-> Nil]
    /\ edits = [s \in Editors |-> NoEdit]
    /\ stale = {}

-----------------------------------------------------------------------------
(* Reading and checking *)

Exists(v) == doc[v].status # "ABSENT"

Draft(c, u) == [status |-> "DRAFT", content |-> c, by |-> u, approver |-> Nil]

Create(c, u) ==
    /\ ~Exists(1)
    /\ doc' = [doc EXCEPT ![1] = Draft(c, u)]
    /\ UNCHANGED <<chunks, edits, stale>>

Seen(v) == [status |-> doc[v].status, content |-> doc[v].content]

\* A request on version v begins; what else it will need is in t.
BeginEdit(s, v, t) ==
    /\ edits[s] = NoEdit /\ Exists(v)
    /\ edits' = [edits EXCEPT ![s] = [t EXCEPT !.ver = v, !.seen = Seen(v)]]
    /\ UNCHANGED <<doc, chunks, stale>>

\* An edit of d leaves d alone and adds the next version.
AddsVersion(d) == d.status \in {"APPROVED", "ARCHIVED"}

\* The next version of the lineage, as the transaction sees it.
NextVersion == Cardinality({v \in Versions : Exists(v)}) + 1

EditRead(s, v, c) ==
    /\ ~AddsVersion(doc[v])
    /\ BeginEdit(s, v, [NoEdit EXCEPT !.op = "edit", !.new = c])

AddRead(s, v, c, u) ==
    /\ AddsVersion(doc[v])
    /\ BeginEdit(s, v, [NoEdit EXCEPT !.op = "edit", !.new = c, !.user = u, !.next = NextVersion])

SubmitRead(s, v) ==
    /\ doc[v].status = "DRAFT"
    /\ BeginEdit(s, v, [NoEdit EXCEPT !.op = "submit"])

MayApprove(d, u) == d.status = "PENDING_APPROVAL" /\ (Distinct => d.by # u)

\* approve up to the embedding of what it has read.
ApproveRead(s, v, u) ==
    /\ MayApprove(doc[v], u)
    /\ BeginEdit(s, v, [NoEdit EXCEPT !.op = "approve", !.user = u])

ArchiveRead(s, v) == BeginEdit(s, v, [NoEdit EXCEPT !.op = "archive"])

-----------------------------------------------------------------------------
(* Writing and committing *)

\* Version v is not locked by another session's approval.
Unlocked(s, v) == \A r \in Editors \ {s} : v \notin edits[r].olds

\* Session s ends with row d for the version it has read.
Commit(s, d) ==
    LET v == edits[s].ver
    IN  /\ Unlocked(s, v)
        /\ doc' = [doc EXCEPT ![v] = d]
        /\ stale' = IF Seen(v) = edits[s].seen \/ d = doc[v] THEN stale ELSE stale \cup {v}
        /\ edits' = [edits EXCEPT ![s] = NoEdit]

\* An edit in place writes the content if it is another, and takes back a submission.
EditCommit(s) ==
    LET t == edits[s]
    IN  /\ t.op = "edit" /\ t.next = 0
        /\ Commit(s, [doc[t.ver] EXCEPT
                        !.status = IF t.seen.status = "PENDING_APPROVAL" THEN "DRAFT" ELSE @,
                        !.content = IF t.new = t.seen.content THEN @ ELSE t.new])
        /\ UNCHANGED chunks

\* The commit of a new version; its number is unique in the lineage.
AddVersion(s) ==
    LET t == edits[s]
    IN  /\ t.op = "edit" /\ t.next \in Versions
        /\ ~Exists(t.next)
        /\ doc' = [doc EXCEPT ![t.next] = Draft(t.new, t.user)]
        /\ edits' = [edits EXCEPT ![s] = NoEdit]
        /\ UNCHANGED <<chunks, stale>>

SubmitCommit(s) ==
    /\ edits[s].op = "submit"
    /\ Commit(s, [doc[edits[s].ver] EXCEPT !.status = "PENDING_APPROVAL"])
    /\ UNCHANGED chunks

\* The versions that are served.
Served == {v \in Versions : doc[v].status = "APPROVED"}

\* Mutant of ApproveArchive: in a transaction of its own.
ApproveArchiveFirst(s) ==
    /\ edits[s].op = "approve"
    /\ \A v \in Served : Unlocked(s, v)
    /\ doc' = [v \in Versions |-> IF v \in Served THEN [doc[v] EXCEPT !.status = "ARCHIVED"]
                                                 ELSE doc[v]]
    /\ edits' = [edits EXCEPT ![s].op = "approving"]
    /\ UNCHANGED <<chunks, stale>>

\* The UPDATE that archives what is approved; it waits for rows that another one archives.
ApproveArchive(s) ==
    /\ edits[s].op = "approve"
    /\ \A v \in Served : Unlocked(s, v)
    /\ edits' = [edits EXCEPT ![s].op = "approving", ![s].olds = Served]
    /\ UNCHANGED <<doc, chunks, stale>>

\* uq_knowledge_one_approved.
OneApproved(d) == Cardinality({v \in Versions : d[v].status = "APPROVED"}) <= 1

\* The rows as approval t leaves them.
Approved(t) ==
    [v \in Versions |->
        IF v = t.ver THEN [doc[v] EXCEPT !.status = "APPROVED", !.approver = t.user]
        ELSE IF v \in t.olds THEN [doc[v] EXCEPT !.status = "ARCHIVED"]
        ELSE doc[v]]

\* The commit of an approval, with the index of what it has read.
ApproveCommit(s) ==
    LET t == edits[s]
    IN  /\ t.op = "approving"
        /\ Unlocked(s, t.ver)
        /\ doc' = Approved(t)
        /\ OneApproved(doc')
        /\ chunks' = [chunks EXCEPT ![t.ver] = t.seen.content]
        /\ stale' = IF Seen(t.ver) = t.seen THEN stale ELSE stale \cup {t.ver}
        /\ edits' = [edits EXCEPT ![s] = NoEdit]

\* archive of what is archived writes nothing.
ArchiveCommit(s) ==
    LET t == edits[s]
    IN  /\ t.op = "archive"
        /\ IF t.seen.status = "ARCHIVED"
             THEN edits' = [edits EXCEPT ![s] = NoEdit] /\ UNCHANGED <<doc, stale>>
             ELSE Commit(s, [doc[t.ver] EXCEPT !.status = "ARCHIVED"])
        /\ UNCHANGED chunks

\* A request is refused, fails (so does the embedding service) or is cut off.
AbortEdit(s) ==
    /\ edits[s] # NoEdit
    /\ edits' = [edits EXCEPT ![s] = NoEdit]
    /\ UNCHANGED <<doc, chunks, stale>>

KnowledgeNext ==
    \/ \E c \in Contents, u \in Users : Create(c, u)
    \/ \E s \in Editors, v \in Versions :
         \/ \E c \in Contents : EditRead(s, v, c) \/ \E u \in Users : AddRead(s, v, c, u)
         \/ \E u \in Users : ApproveRead(s, v, u)
         \/ SubmitRead(s, v) \/ ArchiveRead(s, v)
    \/ \E s \in Editors :
         \/ EditCommit(s) \/ AddVersion(s) \/ SubmitCommit(s) \/ ArchiveCommit(s)
         \/ ApproveArchive(s) \/ ApproveCommit(s) \/ AbortEdit(s)

KnowledgeSpec == KnowledgeInit /\ [][KnowledgeNext]_knowledgeVars

-----------------------------------------------------------------------------
(* Properties *)

\* "Only one approved version per lineage at a time", though two approvals can miss each
\* other's version when they archive what is approved.  search answers with its chunks, and
\* pricing with its row.  Both are the content that its approver, who is not the author, was
\* shown: the chunks were indexed from it, and the row still says so, unless a commit found the
\* row changed.
ServedVetted ==
    /\ KnowledgeTypeOK
    /\ Cardinality(Served) <= 1
    /\ \A v \in Served :
        /\ chunks[v] \in Contents
        /\ doc[v].approver # Nil /\ (Distinct => doc[v].approver # doc[v].by)
        /\ v \notin stale => doc[v].content = chunks[v]

\* The moves of a version: only a submitted draft is approved, and only archive ends a version.
Moves ==
    {<<"ABSENT", "DRAFT">>, <<"DRAFT", "PENDING_APPROVAL">>, <<"PENDING_APPROVAL", "DRAFT">>,
     <<"PENDING_APPROVAL", "APPROVED">>} \cup (Status \ {"ABSENT"}) \X {"ARCHIVED"}

\* All of this after every step.  "Approved content is immutable", what is archived is neither
\* changed nor served again, and every version takes these moves.  A lineage that is served goes
\* on being served when a newer version is approved: only archive takes the last version away.
\* Unless a commit found its row changed.
KnowledgeStep ==
    /\ ServedVetted'
    /\ \A v \in Versions \ stale' :
         /\ doc'[v].status = doc[v].status \/ <<doc[v].status, doc'[v].status>> \in Moves
         /\ doc[v].status \in {"APPROVED", "ARCHIVED"} => doc'[v].content = doc[v].content
    /\ Served # {} /\ Served' = {} =>
         \E v \in Served : \/ v \in stale'
                           \/ \E s \in Editors : edits[s].op = "archive" /\ edits[s].ver = v

KnowledgeKept == [][KnowledgeStep]_knowledgeVars
=============================================================================
