----------------------------- MODULE PolicySync -----------------------------
(***************************************************************************)
(* Signed policy distribution: App API numbers and signs the policies of   *)
(* an organization (POST /v1/policies), the ingest service hands out the   *)
(* latest (GET /v1/policy/current), and `mcpseal policy-pull` verifies it  *)
(* and replaces the lockfile of the project it runs in                     *)
(* (packages/cli-node/src/policy-sync.ts).                                 *)
(*                                                                         *)
(* Every pull reads ~/.mcpseal/config.json once, at its start, and writes  *)
(* that copy back with the new version at its end; a shipper does the same *)
(* with its cursor.  The lockfile itself is replaced by a rename.          *)
(*                                                                         *)
(* The signature of an answer covers the text of the lockfile              *)
(* (policy-sync.ts:89), not the version number beside it, which is what    *)
(* the pull compares (105-106) and records.  The two are kept apart here:  *)
(* an answer has a number, and the policy its text is.                     *)
(***************************************************************************)
EXTENDS Naturals

CONSTANTS
  Projects,    \* project directories, each with its .mcp-lock.json
  Pullers,     \* policy-pull processes that may run together
  Shippers,    \* shipEvents calls that may run together
  MaxVersion,  \* policies published (a bound)
  None

ASSUME PolicyAssumption ==
  /\ MaxVersion \in Nat \ {0}
  /\ None \notin Nat \cup Projects

Versions == 0 .. MaxVersion   \* 0: none yet

VARIABLES
  published,   \* version of the latest policy of the organization
  lockfiles,   \* for each project, the policy last put there by a pull (0: none), and
               \* what the user made of it since
  recorded,    \* lastAppliedPolicyVersion in the config file (0: absent)
  pulls,       \* policy-pull processes
  ships,       \* the version in the copy of the config a shipper holds, or None
  replayed     \* history: a rightly signed answer did not come from the service

vars == <<published, lockfiles, recorded, pulls, ships, replayed>>

\* version, lockfile and valid are those of the answer (body in the code).
NoPull == [pc |-> "idle", project |-> None, known |-> 0,
           version |-> 0, lockfile |-> 0, valid |-> FALSE]

End(p)      == pulls' = [pulls EXCEPT ![p] = NoPull]
Goto(p, pc) == pulls' = [pulls EXCEPT ![p].pc = pc]

(***************************************************************************)
(* Services.  insertPolicy takes MAX(version) + 1 in one synchronous step. *)
(***************************************************************************)
Publish ==
  /\ published < MaxVersion
  /\ published' = published + 1
  /\ UNCHANGED <<lockfiles, recorded, pulls, ships, replayed>>

Answered(p, v, t, valid) ==
  [pulls[p] EXCEPT !.pc = "answered", !.version = v, !.lockfile = t, !.valid = valid]

\* GET /v1/policy/current hands out the latest policy with its number; the
\* answer may take long to arrive.
AnswerPull(p) ==
  /\ pulls[p].pc = "asking"
  /\ published > 0
  /\ pulls' = [pulls EXCEPT ![p] = Answered(p, published, published, TRUE)]
  /\ UNCHANGED <<published, lockfiles, recorded, ships, replayed>>

\* Any other answer: damaged, signed with another key than the pinned one, or the
\* signed text of a policy that was handed out once, next to any number.
AnswerOtherwise(p) ==
  /\ pulls[p].pc = "asking"
  /\ \E v, t \in Versions, valid \in BOOLEAN :
       /\ valid => t \in 1 .. published
       /\ pulls' = [pulls EXCEPT ![p] = Answered(p, v, t, valid)]
       /\ replayed' = (replayed \/ valid)
  /\ UNCHANGED <<published, lockfiles, recorded, ships>>

\* Any status but 200, or no answer at all.
AnswerMissing(p) ==
  /\ pulls[p].pc = "asking"
  /\ End(p)
  /\ UNCHANGED <<published, lockfiles, recorded, ships, replayed>>

(***************************************************************************)
(* policy-pull                                                             *)
(***************************************************************************)
StartPull(p, x) ==
  /\ pulls[p].pc = "idle"
  /\ pulls' = [pulls EXCEPT ![p] =
                 [NoPull EXCEPT !.pc = "asking", !.project = x, !.known = recorded]]
  /\ UNCHANGED <<published, lockfiles, recorded, ships, replayed>>

Reject(p) ==
  /\ pulls[p].pc = "answered"
  /\ ~pulls[p].valid
  /\ End(p)
  /\ UNCHANGED <<published, lockfiles, recorded, ships, replayed>>

NoNewerVersion(p) ==
  /\ pulls[p].pc = "answered"
  /\ pulls[p].valid
  /\ pulls[p].version <= pulls[p].known
  /\ End(p)
  /\ UNCHANGED <<published, lockfiles, recorded, ships, replayed>>

\* Faulty: the version is recorded before the lockfile is replaced.
ApplyLate(p) ==
  /\ pulls[p].pc = "answered"
  /\ pulls[p].valid
  /\ pulls[p].version > pulls[p].known
  /\ recorded' = pulls[p].version
  /\ Goto(p, "saving")
  /\ UNCHANGED <<published, lockfiles, ships, replayed>>

\* Faulty: the signature is not checked.
ApplyUnverified(p) ==
  /\ pulls[p].pc = "answered"
  /\ pulls[p].version > pulls[p].known
  /\ lockfiles' = [lockfiles EXCEPT ![pulls[p].project] =
                     [policy |-> pulls[p].lockfile, user |-> "unchanged"]]
  /\ Goto(p, "saving")
  /\ UNCHANGED <<published, recorded, ships, replayed>>

\* Temporary file and rename: the whole lockfile is replaced at once.
Apply(p) ==
  /\ pulls[p].pc = "answered"
  /\ pulls[p].valid
  /\ pulls[p].version > pulls[p].known
  /\ lockfiles' = [lockfiles EXCEPT ![pulls[p].project] =
                     [policy |-> pulls[p].lockfile, user |-> "unchanged"]]
  /\ Goto(p, "saving")
  /\ UNCHANGED <<published, recorded, ships, replayed>>

SaveVersion(p) ==
  /\ pulls[p].pc = "saving"
  /\ recorded' = pulls[p].version
  /\ End(p)
  /\ UNCHANGED <<published, lockfiles, ships, replayed>>

Kill(p) ==
  /\ pulls[p].pc # "idle"
  /\ End(p)
  /\ UNCHANGED <<published, lockfiles, recorded, ships, replayed>>

(***************************************************************************)
(* Other commands on the same files                                        *)
(***************************************************************************)
\* approve and deny change a lockfile in place; the user's own stays his own.
ChangeLocally(x) ==
  /\ lockfiles[x].user # "replaced"
  /\ lockfiles' = [lockfiles EXCEPT ![x].user = "changed"]
  /\ UNCHANGED <<published, recorded, pulls, ships, replayed>>

\* init writes a lockfile of what the servers list, over any that is there.
ReplaceLocally(x) ==
  /\ lockfiles' = [lockfiles EXCEPT ![x].user = "replaced"]
  /\ UNCHANGED <<published, recorded, pulls, ships, replayed>>

\* shipEvents reads the config ...
StartShip(s) ==
  /\ ships[s] = None
  /\ ships' = [ships EXCEPT ![s] = recorded]
  /\ UNCHANGED <<published, lockfiles, recorded, pulls, replayed>>

\* ... and writes it back after each accepted batch, or ends.
SaveCursor(s) ==
  /\ ships[s] # None
  /\ recorded' = ships[s]
  /\ UNCHANGED <<published, lockfiles, pulls, ships, replayed>>

EndShip(s) ==
  /\ ships[s] # None
  /\ ships' = [ships EXCEPT ![s] = None]
  /\ UNCHANGED <<published, lockfiles, recorded, pulls, replayed>>

\* logout and login to the same organization: the config starts afresh.
Relogin ==
  /\ recorded' = 0
  /\ UNCHANGED <<published, lockfiles, pulls, ships, replayed>>

Init ==
  /\ published = 0
  /\ lockfiles = [x \in Projects |-> [policy |-> 0, user |-> "replaced"]]
  /\ recorded = 0
  /\ pulls = [p \in Pullers |-> NoPull]
  /\ ships = [s \in Shippers |-> None]
  /\ replayed = FALSE

Pull(p) ==
  \/ \E x \in Projects : StartPull(p, x)
  \/ AnswerPull(p) \/ AnswerOtherwise(p) \/ AnswerMissing(p)
  \/ Reject(p)
  \/ NoNewerVersion(p)
  \/ Apply(p)
  \/ SaveVersion(p)
  \/ Kill(p)

Next ==
  \/ Publish
  \/ \E p \in Pullers : Pull(p)
  \/ \E x \in Projects : ChangeLocally(x) \/ ReplaceLocally(x)
  \/ \E s \in Shippers : StartShip(s) \/ SaveCursor(s) \/ EndShip(s)
  \/ Relogin

Spec == Init /\ [][Next]_vars

(***************************************************************************)
(* Properties                                                              *)
(***************************************************************************)
\* Shape of the files and processes.
TypeOK ==
  /\ published \in Versions
  /\ lockfiles \in [Projects -> [policy : Versions,
                                user : {"unchanged", "changed", "replaced"}]]
  /\ recorded \in Versions
  /\ pulls \in [Pullers -> [pc : {"idle", "asking", "answered", "saving"},
                            project : Projects \cup {None}, known : Versions,
                            version : Versions, lockfile : Versions, valid : BOOLEAN]]
  /\ ships \in [Shippers -> Versions \cup {None}]
  /\ replayed \in BOOLEAN
  /\ \A p \in Pullers : pulls[p].pc # "idle" => pulls[p].project \in Projects

\* CLAUDE.md invariant 5, quoted in policy-sync.ts:4-6: whatever answers arrive,
\* also old signed ones next to another number, a pull only ever puts a policy
\* into a lockfile that the organization published.
OnlyPublished == \A x \in Projects : lockfiles[x].policy <= published

\* The config never claims a version newer than the policy last applied, also when
\* a pull is killed between its two writes or a shipper restores an old copy.
RecordedIsApplied ==
  \A x \in Projects : recorded <= lockfiles[x].policy

\* The three together, the last as long as every rightly signed answer was the
\* service's own: a signed text sent again next to a greater number is recorded
\* under that number.
PolicySafe ==
  /\ TypeOK
  /\ OnlyPublished
  /\ ~replayed => RecordedIsApplied

\* policy-sync.ts:107: a lockfile never goes back to an older policy.
NeverDowngrade ==
  [][\A x \in Projects : lockfiles'[x].policy >= lockfiles[x].policy]_vars

\* The part of it that the code keeps: it is so as long as every rightly signed
\* answer was the service's own, however late answers come, wherever pulls are
\* killed and whatever old copies of the config are written back.
ServiceNeverDowngrades ==
  [][~replayed => \A x \in Projects : lockfiles'[x].policy >= lockfiles[x].policy]_vars

\* events.ts:143: a pull that ends because nothing is newer than what is already
\* applied leaves the policy the service offered, or a newer one, in the lockfile.
UpToDateIsApplied ==
  [][\A p \in Pullers :
       ~replayed /\ NoNewerVersion(p) =>
         LET lockfile == lockfiles[pulls[p].project]
         IN  lockfile.policy >= pulls[p].lockfile /\ lockfile.user # "replaced"]_vars

\* policy-sync.ts:108-109: a version already applied to the project is not
\* applied again, which would undo what the user approved or denied since.
AppliedOnce ==
  [][\A x \in Projects :
       lockfiles[x].user # "unchanged" /\ lockfiles'[x].user = "unchanged"
         => lockfiles'[x].policy # lockfiles[x].policy]_vars

=============================================================================
