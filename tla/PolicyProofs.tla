---------------------------- MODULE PolicyProofs ----------------------------
(***************************************************************************)
(* Theorems about PolicySync.  What pulls do in several projects or next   *)
(* to each other is not safe (UpToDateIsApplied, NeverDowngrade), so but   *)
(* for OnlyPublished they are about a user who works in one project and    *)
(* runs one pull at a time, with any number of shippers, policies, kills   *)
(* and logins.  That the rightly signed answers are the service's own is   *)
(* no assumption: the properties say what holds while it is so.            *)
(***************************************************************************)
EXTENDS PolicySync, TLAPS

OneProject == \A x, y \in Projects : x = y
OnePuller  == \A p, q \in Pullers : p = q

LEMMA VersionsAreNat == Versions \subseteq Nat /\ 0 \in Versions /\ None \notin Versions
BY PolicyAssumption DEF Versions

PullType == [pc : {"idle", "asking", "answered", "saving"},
             project : Projects \cup {None}, known : Versions,
             version : Versions, lockfile : Versions, valid : BOOLEAN]

\* What the steps of a pull make of its record.
Asking(x) == [NoPull EXCEPT !.pc = "asking", !.project = x, !.known = recorded]

LEMMA AskingRecord ==
  ASSUME TypeOK, NEW x \in Projects
  PROVE  Asking(x) \in PullType /\ Asking(x).pc = "asking" /\ Asking(x).project = x
BY VersionsAreNat DEF TypeOK, Asking, NoPull, PullType

LEMMA AnsweredRecord ==
  ASSUME TypeOK, NEW p \in Pullers, NEW v \in Versions, NEW t \in Versions,
         NEW valid \in BOOLEAN
  PROVE  /\ Answered(p, v, t, valid) \in PullType
         /\ Answered(p, v, t, valid).pc = "answered"
         /\ Answered(p, v, t, valid).version = v
         /\ Answered(p, v, t, valid).lockfile = t
         /\ Answered(p, v, t, valid).valid = valid
         /\ Answered(p, v, t, valid).project = pulls[p].project
BY DEF TypeOK, Answered, PullType

LEMMA IdleRecord == NoPull \in PullType /\ NoPull.pc = "idle"
BY VersionsAreNat DEF NoPull, PullType

Answer(p) == AnswerPull(p) \/ AnswerOtherwise(p) \/ AnswerMissing(p)

\* An answer changes the asking pull's record only.  A right signature means that
\* the text was published, and the number is right too if the service answered.
LEMMA AnswerEffect ==
  ASSUME TypeOK, NEW p \in Pullers, Answer(p)
  PROVE  /\ UNCHANGED <<published, lockfiles, recorded, ships>>
         /\ pulls[p].pc = "asking" /\ pulls[p].project \in Projects
         /\ replayed' \in BOOLEAN /\ (replayed => replayed')
         /\ \E new \in PullType :
              /\ pulls' = [pulls EXCEPT ![p] = new]
              /\ \/ new = NoPull
                 \/ /\ new.pc = "answered" /\ new.project = pulls[p].project
                    /\ new.valid => new.lockfile <= published
                    /\ new.valid /\ ~replayed'
                         => new.version = published /\ new.lockfile = published
<1>0. pulls[p].pc = "asking" /\ pulls[p].project \in Projects
  BY DEF TypeOK, Answer, AnswerPull, AnswerOtherwise, AnswerMissing
<1>p. published \in Versions /\ published \in Nat /\ replayed \in BOOLEAN
  BY VersionsAreNat DEF TypeOK
<1>1. CASE AnswerPull(p)
  <2> DEFINE new == [pulls[p] EXCEPT !.pc = "answered", !.version = published,
                                     !.lockfile = published, !.valid = TRUE]
  <2>1. pulls[p] \in PullType
    BY DEF TypeOK, PullType
  <2>2. /\ new \in PullType /\ new.pc = "answered" /\ new.project = pulls[p].project
        /\ new.version = published /\ new.lockfile = published
    BY <1>p, <2>1 DEF PullType
  <2>3. /\ pulls' = [pulls EXCEPT ![p] = new]
        /\ UNCHANGED <<published, lockfiles, recorded, ships, replayed>>
    BY <1>1 DEF AnswerPull, Answered
  <2> HIDE DEF new
  <2>4. new.lockfile <= published
    BY <1>p, <2>2
  <2>5. QED
    BY <1>0, <1>p, <2>2, <2>3, <2>4
<1>2. CASE AnswerOtherwise(p)
  <2>1. PICK v \in Versions, t \in Versions, valid \in BOOLEAN :
          /\ valid => t \in 1 .. published
          /\ pulls' = [pulls EXCEPT ![p] = Answered(p, v, t, valid)]
          /\ replayed' = (replayed \/ valid)
    BY <1>2 DEF AnswerOtherwise
  <2> DEFINE new == Answered(p, v, t, valid)
  <2>2. /\ new \in PullType /\ new.pc = "answered" /\ new.project = pulls[p].project
        /\ new.lockfile = t /\ new.valid = valid
    BY AnsweredRecord
  <2>3. UNCHANGED <<published, lockfiles, recorded, ships>>
    BY <1>2 DEF AnswerOtherwise
  <2>4. valid => t <= published
    BY <1>p, <2>1
  <2>5. replayed' \in BOOLEAN /\ (replayed => replayed') /\ (valid => replayed')
    BY <1>p, <2>1
  <2> HIDE DEF new
  <2>6. new.valid => new.lockfile <= published
    BY <2>2, <2>4
  <2>7. ~(new.valid /\ ~replayed')
    BY <2>2, <2>5
  <2>8. pulls' = [pulls EXCEPT ![p] = new]
    BY <2>1 DEF new
  <2>9. QED
    BY <1>0, <2>2, <2>3, <2>5, <2>6, <2>7, <2>8
<1>3. CASE AnswerMissing(p)
  BY <1>0, <1>p, <1>3, IdleRecord DEF AnswerMissing, End
<1>4. QED
  BY <1>1, <1>2, <1>3 DEF Answer

\* A step that changes nothing but the record of one pull.
LEMMA PullsKept ==
  ASSUME TypeOK, NEW p \in Pullers, NEW new \in PullType,
         new.pc # "idle" => new.project \in Projects,
         pulls' = [pulls EXCEPT ![p] = new],
         UNCHANGED <<published, lockfiles, recorded, ships>>, replayed' \in BOOLEAN
  PROVE  TypeOK'
BY DEF TypeOK, PullType

LEMMA TypeOKStep == TypeOK /\ [Next]_vars => TypeOK'
<1> SUFFICES ASSUME TypeOK, [Next]_vars
             PROVE  TypeOK'
  OBVIOUS
<1> USE VersionsAreNat DEF TypeOK
<1>1. CASE Publish
  BY <1>1, PolicyAssumption DEF Publish, Versions
<1>2. ASSUME NEW p \in Pullers, Pull(p)
      PROVE  TypeOK'
  <2>1. CASE \E x \in Projects : StartPull(p, x)
    <3>1. PICK x \in Projects : pulls' = [pulls EXCEPT ![p] = Asking(x)]
      BY <2>1 DEF StartPull, Asking
    <3>2. UNCHANGED <<published, lockfiles, recorded, ships>> /\ replayed' \in BOOLEAN
      BY <2>1 DEF StartPull
    <3>3. QED
      BY <3>1, <3>2, AskingRecord, PullsKept
  <2>2. CASE Answer(p)
    <3>1. PICK new \in PullType :
            /\ pulls' = [pulls EXCEPT ![p] = new]
            /\ new.pc # "idle" => new.project \in Projects
      BY <2>2, AnswerEffect, IdleRecord
    <3>2. QED
      BY <2>2, <3>1, AnswerEffect, PullsKept
  <2>3. CASE Reject(p) \/ NoNewerVersion(p) \/ Kill(p)
    <3>1. pulls' = [pulls EXCEPT ![p] = NoPull] /\ NoPull.pc = "idle"
      BY <2>3, IdleRecord DEF Reject, NoNewerVersion, Kill, End
    <3>2. UNCHANGED <<published, lockfiles, recorded, ships>> /\ replayed' \in BOOLEAN
      BY <2>3 DEF Reject, NoNewerVersion, Kill
    <3>3. QED
      BY <3>1, <3>2, IdleRecord, PullsKept
  <2>4. CASE Apply(p)
    BY <2>4 DEF Apply, Goto
  <2>5. CASE SaveVersion(p)
    BY <2>5 DEF SaveVersion, End, NoPull
  <2>6. QED
    BY <1>2, <2>1, <2>2, <2>3, <2>4, <2>5 DEF Pull, Answer
<1>3. CASE \E x \in Projects : ChangeLocally(x) \/ ReplaceLocally(x)
  BY <1>3 DEF ChangeLocally, ReplaceLocally
<1>4. CASE \E s \in Shippers : StartShip(s) \/ SaveCursor(s) \/ EndShip(s)
  BY <1>4 DEF StartShip, SaveCursor, EndShip
<1>5. CASE Relogin \/ UNCHANGED vars
  BY <1>5 DEF Relogin, vars
<1>6. QED
  BY <1>1, <1>2, <1>3, <1>4, <1>5 DEF Next

LEMMA TypeOKInit == Init => TypeOK
<1> SUFFICES ASSUME Init
             PROVE  TypeOK
  OBVIOUS
<1>1. pulls \in [Pullers -> PullType] /\ \A p \in Pullers : pulls[p].pc = "idle"
  BY IdleRecord DEF Init
<1>2. QED
  BY <1>1, VersionsAreNat DEF Init, TypeOK, PullType

(***************************************************************************)
(* What holds for any number of projects and pulls: the answers under way  *)
(* whose signature is right are published policies.                        *)
(***************************************************************************)
AnswersPublished ==
  \A p \in Pullers :
    (pulls[p].pc = "answered" /\ pulls[p].valid) \/ pulls[p].pc = "saving"
      => pulls[p].lockfile <= published

PublishedInv == TypeOK /\ OnlyPublished /\ AnswersPublished

LEMMA PublishedInvStep == PublishedInv /\ [Next]_vars => PublishedInv'
<1> SUFFICES ASSUME PublishedInv, [Next]_vars
             PROVE  PublishedInv'
  OBVIOUS
<1>0. TypeOK'
  BY TypeOKStep DEF PublishedInv
<1>n. published \in Nat /\ \A p \in Pullers : pulls[p].lockfile \in Nat
  BY VersionsAreNat DEF PublishedInv, TypeOK
<1>v. \A x \in Projects : lockfiles[x].policy \in Nat
  BY VersionsAreNat DEF PublishedInv, TypeOK
<1> SUFFICES (OnlyPublished /\ AnswersPublished)'
  BY <1>0 DEF PublishedInv
<1> USE DEF PublishedInv, TypeOK, OnlyPublished, AnswersPublished
<1>1. CASE Publish
  BY <1>1, <1>n, <1>v DEF Publish
<1>2. ASSUME NEW p \in Pullers, Pull(p)
      PROVE  (OnlyPublished /\ AnswersPublished)'
  <2>1. CASE \E x \in Projects : StartPull(p, x)
    BY <2>1 DEF StartPull, NoPull
  <2>2. CASE Answer(p)
    <3>1. PICK new \in PullType :
            /\ pulls' = [pulls EXCEPT ![p] = new]
            /\ new.pc \in {"idle", "answered"}
            /\ new.pc = "answered" /\ new.valid => new.lockfile <= published
      BY <2>2, AnswerEffect, IdleRecord
    <3>2. UNCHANGED <<published, lockfiles>> /\ pulls'[p] = new
      BY <2>2, <3>1, AnswerEffect
    <3>3. QED
      BY <1>n, <3>1, <3>2
  <2>3. CASE Reject(p) \/ NoNewerVersion(p) \/ Kill(p)
    BY <2>3 DEF Reject, NoNewerVersion, Kill, End, NoPull
  <2>4. CASE Apply(p)
    BY <2>4 DEF Apply, Goto
  <2>5. CASE SaveVersion(p)
    BY <2>5 DEF SaveVersion, End, NoPull
  <2>6. QED
    BY <1>2, <2>1, <2>2, <2>3, <2>4, <2>5 DEF Pull, Answer
<1>3. CASE \E x \in Projects : ChangeLocally(x) \/ ReplaceLocally(x)
  BY <1>3 DEF ChangeLocally, ReplaceLocally
<1>4. CASE \E s \in Shippers : StartShip(s) \/ SaveCursor(s) \/ EndShip(s)
  BY <1>4 DEF StartShip, SaveCursor, EndShip
<1>5. CASE Relogin \/ UNCHANGED vars
  BY <1>5 DEF Relogin, vars
<1>6. QED
  BY <1>1, <1>2, <1>3, <1>4, <1>5 DEF Next

LEMMA PublishedInvCorrect == Spec => []PublishedInv
<1>1. Init => PublishedInv
  BY TypeOKInit DEF Init, PublishedInv, OnlyPublished, AnswersPublished, NoPull
<1>2. QED
  BY <1>1, PublishedInvStep, PTL DEF Spec

\* Whatever answers arrive, late, damaged, wrongly signed, or a signed text sent again
\* next to any number, and however many pulls overlap in however many projects, a pull
\* puts only policies into a lockfile that were published (pullAndApplyPolicy).
THEOREM LockfilesPublished == Spec => []OnlyPublished
BY PublishedInvCorrect, PTL DEF PublishedInv

(***************************************************************************)
(* One project, one pull at a time.  The invariant says, while every       *)
(* rightly signed answer was the service's own, of the versions that may   *)
(* yet be written to the config (by the pull that saves, by shippers that  *)
(* restore their copies) that the lockfile has them, and of the answer     *)
(* that may yet be applied that it is not older than the lockfile.         *)
(***************************************************************************)
CopiesApplied ==
  \A s \in Shippers, x \in Projects : ships[s] # None => ships[s] <= lockfiles[x].policy

SavesApplied ==
  \A p \in Pullers :
    pulls[p].pc = "saving" => pulls[p].version = lockfiles[pulls[p].project].policy

AnswersNotOlder ==
  \A p \in Pullers, x \in Projects :
    pulls[p].pc = "answered" /\ pulls[p].valid
      => /\ pulls[p].version = pulls[p].lockfile
         /\ lockfiles[x].policy <= pulls[p].lockfile

NothingAhead == RecordedIsApplied /\ CopiesApplied /\ SavesApplied /\ AnswersNotOlder

PolicyInv == PublishedInv /\ (~replayed => NothingAhead)

LEMMA ReplayedStays == TypeOK /\ [Next]_vars /\ replayed => replayed'
<1> SUFFICES ASSUME TypeOK, [Next]_vars, replayed
             PROVE  replayed'
  OBVIOUS
<1>1. ASSUME NEW p \in Pullers, Answer(p)
      PROVE  replayed'
  BY <1>1, AnswerEffect
<1>2. CASE UNCHANGED replayed
  BY <1>2
<1>3. QED
  BY <1>1, <1>2
  DEF Next, vars, Publish, Pull, Answer, StartPull, Reject, NoNewerVersion, Apply, SaveVersion,
      Kill, ChangeLocally, ReplaceLocally, StartShip, SaveCursor, EndShip, Relogin

LEMMA PolicyInvStep ==
  ASSUME OneProject, OnePuller
  PROVE  PolicyInv /\ [Next]_vars => PolicyInv'
<1> SUFFICES ASSUME PolicyInv, [Next]_vars
             PROVE  PolicyInv'
  OBVIOUS
<1>0. PublishedInv'
  BY PublishedInvStep DEF PolicyInv
<1>t. TypeOK /\ OnlyPublished
  BY DEF PolicyInv, PublishedInv
<1> SUFFICES ASSUME ~replayed'
             PROVE  NothingAhead'
  BY <1>0 DEF PolicyInv
<1>r. NothingAhead
  BY <1>t, ReplayedStays DEF PolicyInv
<1>n. /\ published \in Nat /\ recorded \in Nat /\ 0 \in Nat /\ None \notin Nat
      /\ \A p \in Pullers : pulls[p].version \in Nat /\ pulls[p].lockfile \in Nat
      /\ \A x \in Projects : lockfiles[x].policy \in Nat
      /\ \A s \in Shippers : ships[s] # None => ships[s] \in Nat
  BY <1>t, VersionsAreNat, PolicyAssumption DEF TypeOK
<1> USE <1>n, <1>r
    DEF NothingAhead, RecordedIsApplied, CopiesApplied, SavesApplied, AnswersNotOlder
<1>1. CASE Publish
  BY <1>1 DEF Publish
<1>2. ASSUME NEW p \in Pullers, Pull(p)
      PROVE  NothingAhead'
  <2>0. \A q \in Pullers : q = p
    BY DEF OnePuller
  <2>1. CASE \E x \in Projects : StartPull(p, x)
    BY <1>t, <2>0, <2>1 DEF StartPull, NoPull, TypeOK
  <2>2. CASE Answer(p)
    <3>1. PICK new \in PullType :
            /\ pulls' = [pulls EXCEPT ![p] = new]
            /\ new.pc \in {"idle", "answered"}
            /\ new.pc = "answered" /\ new.valid
                 => new.version = published /\ new.lockfile = published
      BY <1>t, <2>2, AnswerEffect, IdleRecord
    <3>2. UNCHANGED <<published, lockfiles, recorded, ships>>
      BY <1>t, <2>2, AnswerEffect
    <3>3. pulls'[p] = new
      BY <1>t, <3>1 DEF TypeOK
    <3>4. \A x \in Projects : lockfiles[x].policy <= published
      BY <1>t DEF OnlyPublished
    <3>5. QED
      BY <2>0, <3>1, <3>2, <3>3, <3>4
  <2>3. CASE Reject(p) \/ NoNewerVersion(p) \/ Kill(p)
    BY <1>t, <2>0, <2>3 DEF Reject, NoNewerVersion, Kill, End, NoPull, TypeOK
  <2>4. CASE Apply(p)
    <3>1. /\ pulls[p].pc = "answered" /\ pulls[p].valid
          /\ pulls[p].project \in Projects
      BY <1>t, <2>4 DEF Apply, TypeOK
    <3>2. \A x \in Projects : x = pulls[p].project
      BY <3>1 DEF OneProject
    <3>3. \A x \in Projects : /\ lockfiles'[x].policy = pulls[p].version
                              /\ lockfiles[x].policy <= lockfiles'[x].policy
      BY <1>t, <2>4, <3>1, <3>2 DEF Apply, TypeOK
    <3>4. /\ pulls'[p].pc = "saving" /\ pulls'[p].version = pulls[p].version
          /\ pulls'[p].project = pulls[p].project
          /\ recorded' = recorded /\ ships' = ships
      BY <1>t, <2>4 DEF Apply, Goto, TypeOK
    <3>5. QED
      BY <2>0, <3>1, <3>3, <3>4
  <2>5. CASE SaveVersion(p)
    <3>1. pulls[p].project \in Projects /\ pulls[p].pc = "saving"
      BY <1>t, <2>5 DEF SaveVersion, TypeOK
    <3>2. \A x \in Projects : x = pulls[p].project
      BY <3>1 DEF OneProject
    <3>3. QED
      BY <1>t, <2>0, <2>5, <3>1, <3>2 DEF SaveVersion, End, NoPull, TypeOK
  <2>6. QED
    BY <1>2, <2>1, <2>2, <2>3, <2>4, <2>5 DEF Pull, Answer
<1>3. CASE \E y \in Projects : ChangeLocally(y) \/ ReplaceLocally(y)
  <2>1. \A x \in Projects : lockfiles'[x].policy = lockfiles[x].policy
    <3>1. PICK y \in Projects, user \in {"changed", "replaced"} :
            lockfiles' = [lockfiles EXCEPT ![y].user = user]
      BY <1>3 DEF ChangeLocally, ReplaceLocally
    <3>2. lockfiles \in [Projects -> [policy : Versions,
                                     user : {"unchanged", "changed", "replaced"}]]
      BY <1>t DEF TypeOK
    <3>3. QED
      BY ONLY <3>1, <3>2
  <2>2. UNCHANGED <<published, recorded, pulls, ships>>
    BY <1>3 DEF ChangeLocally, ReplaceLocally
  <2>3. \A p \in Pullers : pulls[p].pc = "saving" => pulls[p].project \in Projects
    BY <1>t DEF TypeOK
  <2>4. QED
    BY <2>1, <2>2, <2>3
<1>4. CASE \E s \in Shippers : StartShip(s) \/ SaveCursor(s) \/ EndShip(s)
  BY <1>4, <1>t DEF StartShip, SaveCursor, EndShip, TypeOK
<1>5. CASE Relogin \/ UNCHANGED vars
  BY <1>5 DEF Relogin, vars
<1>6. QED
  BY <1>1, <1>2, <1>3, <1>4, <1>5 DEF Next

LEMMA PolicyInvCorrect ==
  ASSUME OneProject, OnePuller
  PROVE  Spec => []PolicyInv
<1>1. Init => PolicyInv
  <2> SUFFICES ASSUME Init
               PROVE  PolicyInv
    OBVIOUS
  <2>1. PublishedInv
    BY TypeOKInit DEF Init, PublishedInv, OnlyPublished, AnswersPublished, NoPull
  <2>2. QED
    BY <2>1 DEF Init, PolicyInv, NothingAhead, RecordedIsApplied, CopiesApplied, SavesApplied,
                AnswersNotOlder, NoPull
<1>2. QED
  BY <1>1, PolicyInvStep, PTL DEF Spec

\* In one project and with one pull at a time, lockfiles hold published policies
\* whatever answers arrive; and as long as every rightly signed answer was the
\* service's own, the config never claims a version newer than the policy applied,
\* wherever pulls are killed and whatever copies of the config shippers write back
\* (policy-sync.ts, ship-events.ts).
THEOREM PolicyIsSafe ==
  ASSUME OneProject, OnePuller
  PROVE  Spec => []PolicySafe
BY PolicyInvCorrect, PTL DEF PolicyInv, PublishedInv, NothingAhead, PolicySafe

\* Under the same assumptions, and in the same circumstances, no pull goes back to
\* an older policy.
THEOREM NoDowngrade ==
  ASSUME OneProject, OnePuller
  PROVE  Spec => ServiceNeverDowngrades
<1>1. PolicyInv /\ [Next]_vars
        => [~replayed =>
              \A x \in Projects : lockfiles'[x].policy >= lockfiles[x].policy]_vars
  <2> SUFFICES ASSUME PolicyInv, [Next]_vars, ~replayed, NEW x \in Projects
               PROVE  lockfiles'[x].policy >= lockfiles[x].policy
    BY DEF PolicyInv
  <2>t. TypeOK /\ \A y \in Projects : lockfiles[y].policy \in Nat
    BY VersionsAreNat DEF PolicyInv, PublishedInv, TypeOK
  <2>1. ASSUME NEW p \in Pullers, Apply(p)
        PROVE  lockfiles'[x].policy >= lockfiles[x].policy
    <3>1. pulls[p].pc = "answered" /\ pulls[p].valid /\ pulls[p].project \in Projects
      BY <2>1, <2>t DEF Apply, TypeOK
    <3>2. pulls[p].project = x
      BY <3>1 DEF OneProject
    <3>3. lockfiles'[x].policy = pulls[p].lockfile
      BY <2>1, <2>t, <3>1, <3>2 DEF Apply, TypeOK
    <3>4. lockfiles[x].policy <= pulls[p].lockfile /\ pulls[p].lockfile \in Nat
      BY <2>t, <3>1, VersionsAreNat DEF PolicyInv, NothingAhead, AnswersNotOlder, TypeOK
    <3>5. QED
      BY <2>t, <3>3, <3>4
  <2>2. ASSUME NEW y \in Projects, ChangeLocally(y) \/ ReplaceLocally(y)
        PROVE  lockfiles'[x].policy >= lockfiles[x].policy
    BY <2>2, <2>t DEF ChangeLocally, ReplaceLocally, TypeOK
  <2>3. CASE UNCHANGED lockfiles
    BY <2>3, <2>t
  <2>4. QED
    BY <2>1, <2>2, <2>3
    DEF Next, vars, Publish, Pull, StartPull, AnswerPull, AnswerOtherwise, AnswerMissing,
        Reject, NoNewerVersion, SaveVersion, Kill, StartShip, SaveCursor, EndShip, Relogin
<1>2. QED
  BY <1>1, PolicyInvCorrect, PTL DEF Spec, ServiceNeverDowngrades

=============================================================================
