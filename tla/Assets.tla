------------------------------- MODULE Assets -------------------------------
(***************************************************************************)
(* An asset of the scanner controller: the proof that the tenant owns it,  *)
(* the customer's authorization, and the allowlist; what the gates of a    *)
(* scan ask of it.                                                         *)
(*                                                                         *)
(* Handlers load the asset without a lock and write back the columns that  *)
(* they have changed; a check asks the domain for the token between two    *)
(* transactions of its own.  Scans takes only from here whether the gates  *)
(* hold.                                                                   *)
(***************************************************************************)
EXTENDS Naturals, FiniteSets

CONSTANTS
    Admins,             \* requests served at once
    Challenges,         \* verifications, each with a token of its own
    ChallengeTtl,       \* 7 days in the code
    Validity,           \* verification_validity_days
    Expiries,           \* when an authorization of the customer ends; 0: there is none
    MaxDate             \* bound on the clock

ASSUME AssetsAssumption ==
    {ChallengeTtl, Validity, MaxDate} \subseteq Nat \ {0} /\ Expiries \subseteq Nat

VARIABLES
    date,
    asset,      \* the row
    expiry,     \* of each challenge, once it is issued; otherwise 0
    admin,      \* requests
    proved,     \* history: when a token in force was last found
    delay,      \* history: how long the answer of a check took to be recorded, at most
    demoted     \* history: a commit took back a verification it had not read

assetVars == <<date, asset, expiry, admin, proved, delay, demoted>>

Columns == {"verification_status", "verified_until", "authorized_until", "allowlisted"}

Asset == [verification_status : {"UNVERIFIED", "PENDING", "VERIFIED"}, verified_until : Nat,
          authorized_until : Nat, allowlisted : BOOLEAN]

IdleAdmin == [pc |-> "idle"]

AssetsInit ==
    /\ date = 1
    /\ asset = [verification_status |-> "UNVERIFIED", verified_until |-> 0,
                authorized_until |-> 0, allowlisted |-> FALSE]
    /\ expiry = [c \in Challenges |-> 0]
    /\ admin = [a \in Admins |-> IdleAdmin]
    /\ proved = 0
    /\ delay = 0
    /\ demoted = FALSE

DatePasses ==
    /\ date < MaxDate
    /\ date' = date + 1
    /\ UNCHANGED <<asset, expiry, admin, proved, delay, demoted>>

\* A transaction that has loaded the asset and will write it back as new; it issues a challenge, at
\* a date, or records a token that was found at a date.
Loads(a, new, challenge, at) ==
    /\ admin' = [admin EXCEPT ![a] = [pc |-> "read", seen |-> asset, new |-> new,
                                      challenge |-> challenge, at |-> at]]
    /\ UNCHANGED <<date, asset, expiry, proved, delay, demoted>>

\* update_asset.
UpdateRead(a, until) ==
    /\ admin[a].pc = "idle"
    /\ Loads(a, [asset EXCEPT !.authorized_until = until], {}, 0)

IsVerified == asset.verification_status = "VERIFIED" /\ asset.verified_until > date

IsAuthorized == asset.authorized_until > date

\* allowlist.
AllowlistRead(a, listed) ==
    /\ admin[a].pc = "idle"
    /\ listed => IsVerified /\ IsAuthorized
    /\ Loads(a, [asset EXCEPT !.allowlisted = listed], {}, 0)

Challenged(row) ==
    IF row.verification_status = "VERIFIED" THEN row
    ELSE [row EXCEPT !.verification_status = "PENDING"]

\* start_verification.
ChallengeRead(a, c) ==
    /\ admin[a].pc = "idle" /\ expiry[c] = 0
    /\ \A b \in Admins : admin[b].pc = "read" => c \notin admin[b].challenge
    /\ Loads(a, Challenged(asset), {c}, date)

\* check_verification: the challenge has not expired, and its token is looked for.
CheckRead(a, c) ==
    /\ admin[a].pc = "idle" /\ expiry[c] > date
    /\ admin' = [admin EXCEPT ![a] = [pc |-> "asking", challenge |-> c]]
    /\ UNCHANGED <<date, asset, expiry, proved, delay, demoted>>

\* check_dns, check_http: the owner of the domain shows the token.
CheckFinds(a) ==
    /\ admin[a].pc = "asking"
    /\ proved' = date
    /\ admin' = [admin EXCEPT ![a] = [pc |-> "found", at |-> date]]
    /\ UNCHANGED <<date, asset, expiry, delay, demoted>>

\* Or does not, or there is no answer: only the verification's own row says so.
CheckFails(a) ==
    /\ admin[a].pc = "asking"
    /\ admin' = [admin EXCEPT ![a] = IdleAdmin]
    /\ UNCHANGED <<date, asset, expiry, proved, delay, demoted>>

\* Mutant of Verified: the validity is added to what is left.
VerifiedLonger(row) ==
    [row EXCEPT !.verification_status = "VERIFIED",
                !.verified_until = (IF @ > date THEN @ ELSE date) + Validity]

Verified(row) ==
    [row EXCEPT !.verification_status = "VERIFIED", !.verified_until = date + Validity]

\* The second transaction of a check.
CheckAgain(a) ==
    /\ admin[a].pc = "found"
    /\ Loads(a, Verified(asset), {}, admin[a].at)

\* CHECK (NOT allowlisted OR verification_status = 'VERIFIED').
Admitted(row) == row.allowlisted => row.verification_status = "VERIFIED"

\* The columns that were changed are written.
Saved(t) == [k \in Columns |-> IF t.new[k] # t.seen[k] THEN t.new[k] ELSE asset[k]]

SaveAsset(a) ==
    LET t == admin[a]
    IN /\ t.pc = "read"
       /\ Admitted(Saved(t))
       /\ asset' = Saved(t)
       /\ expiry' = [c \in Challenges |-> IF c \in t.challenge THEN t.at + ChallengeTtl ELSE expiry[c]]
       /\ delay' = IF t.challenge = {} /\ t.at > 0 /\ date - t.at > delay THEN date - t.at ELSE delay
       /\ demoted' = (demoted \/ (asset.verification_status = "VERIFIED"
                                  /\ t.seen.verification_status # "VERIFIED"
                                  /\ asset'.verification_status # "VERIFIED"))
       /\ admin' = [admin EXCEPT ![a] = IdleAdmin]
       /\ UNCHANGED <<date, proved>>

\* The constraint fails, or the request is cut off.
CutAdmin(a) ==
    /\ admin[a].pc # "idle"
    /\ admin' = [admin EXCEPT ![a] = IdleAdmin]
    /\ UNCHANGED <<date, asset, expiry, proved, delay, demoted>>

AssetsNext ==
    \/ DatePasses
    \/ \E a \in Admins :
        \/ \E until \in Expiries \ {asset.authorized_until} : UpdateRead(a, until)
        \/ \E listed \in BOOLEAN : AllowlistRead(a, listed)
        \/ \E c \in Challenges : ChallengeRead(a, c) \/ CheckRead(a, c)
        \/ CheckFinds(a) \/ CheckFails(a) \/ CheckAgain(a) \/ SaveAsset(a) \/ CutAdmin(a)

AssetsSpec == AssetsInit /\ [][AssetsNext]_assetVars

-----------------------------------------------------------------------------
(* Properties *)

AssetsTypeOK ==
    /\ date \in 1 .. MaxDate
    /\ asset \in Asset
    /\ expiry \in [Challenges -> 0 .. MaxDate + ChallengeTtl]

\* What evaluate_gate asks of the asset.
Gates == IsAuthorized /\ IsVerified /\ asset.allowlisted

\* Where the gates let a scan pass, the owner has shown a token within the validity, and for as long
\* as the answer of a check can be held up; nothing is on the allowlist that was never proved.
GatesProven ==
    /\ AssetsTypeOK
    /\ Gates => proved > 0 /\ date < proved + Validity + delay
    /\ asset.allowlisted => proved > 0

\* And a proof that was recorded is not taken back, except by a challenge that was begun before;
\* what is allowlisted keeps it even then.
ProofStays ==
    asset.verification_status = "VERIFIED" =>
        \/ asset'.verification_status = "VERIFIED"
        \/ demoted' /\ ~asset.allowlisted

AssetsHold == [][GatesProven' /\ ProofStays]_assetVars
=============================================================================
