----------------------------- MODULE DeviceFlow -----------------------------
(***************************************************************************)
(* Device authorization: `mcpseal login` (packages/cli-node/src/login.ts)  *)
(* asks the ingest service for a device code and polls it, an admin        *)
(* connects the machine in the dashboard (App API, another process with    *)
(* its own copy of the approval on the same database), and a poll that     *)
(* finds the code approved mints an API key                                *)
(* (services/ingest/src/device-flow.ts).                                   *)
(*                                                                         *)
(* A poll reads the row, awaits the argon2 hash of the new key's secret,   *)
(* and only then inserts the key and deletes the row.  An approval reads   *)
(* the row, checks its status, and updates it in a second statement that   *)
(* checks nothing.  Nothing else runs in its own process between the two,  *)
(* but the other service may write the row.                                *)
(***************************************************************************)
EXTENDS Naturals, FiniteSets

CONSTANTS
  Codes,       \* device codes; each login draws a fresh one
  Workspaces,
  Orgs,
  OrgOf,       \* the organization of a workspace
  Keys,        \* key ids, drawn fresh by every poll that mints
  Slots,       \* poll requests in flight at the service (a bound)
  MaxPolls,    \* polls of one login: expiresIn / interval
  None

ASSUME DeviceAssumption ==
  /\ MaxPolls \in Nat \ {0}
  /\ OrgOf \in [Workspaces -> Orgs]
  /\ None \notin Workspaces \cup Codes \cup Keys \cup Orgs

VARIABLES
  codes,      \* table device_codes; expired: expires_at has passed
  keys,       \* table api_keys: workspace, and history: the code it came from
  logins,     \* `mcpseal login` by the device code it was given
  polls,      \* poll requests at the service
  approving,  \* for each service, the approval that passed its checks
  approvals   \* history: code, workspace and, for the dashboard, organization of
              \* the admin, of every approval

vars == <<codes, keys, logins, polls, approving, approvals>>

Services == {"ingest", "app"}

NoCode  == [status |-> "none", workspaceId |-> None, expired |-> FALSE]
NoKey   == [workspaceId |-> None, code |-> None]
NoLogin == [pc |-> "idle", polls |-> 0, key |-> None, workspaceId |-> None]
NoPoll  == [pc |-> "idle", code |-> None, workspaceId |-> None, key |-> None,
            answer |-> "none", copied |-> FALSE]

NoApproval == <<None, None, None>>   \* code, workspace, organization of the admin

Exists(c) == codes[c].status # "none"

(***************************************************************************)
(* The service                                                             *)
(***************************************************************************)
StartDeviceFlow(c) ==
  /\ logins[c].pc = "idle"
  /\ codes' = [codes EXCEPT ![c] = [NoCode EXCEPT !.status = "pending"]]
  /\ logins' = [logins EXCEPT ![c].pc = "sleeping"]
  /\ UNCHANGED <<keys, polls, approving, approvals>>

Expire(c) ==
  /\ Exists(c)
  /\ ~codes[c].expired
  /\ codes' = [codes EXCEPT ![c].expired = TRUE]
  /\ UNCHANGED <<keys, logins, polls, approving, approvals>>

\* The row is read, and the checks passed.
Checked(a, service) ==
  /\ approving[service] = NoApproval
  /\ codes[a[1]].status = "pending"
  /\ ~codes[a[1]].expired
  /\ approving' = [approving EXCEPT ![service] = a]

\* POST /v1/auth/device/approve of the ingest service, which has no sessions: the
\* caller names the workspace.  Also the automatic approval of development.
ApproveDeviceCode(c, w) ==
  /\ Checked(<<c, w, None>>, "ingest")
  /\ UNCHANGED <<codes, keys, logins, polls, approvals>>

(***************************************************************************)
(* App API                                                                 *)
(***************************************************************************)
\* Faulty: a code can be approved again, for another workspace.
ApproveAgain(c, w, o) ==
  /\ approving["app"] = NoApproval
  /\ Exists(c)
  /\ ~codes[c].expired
  /\ approving' = [approving EXCEPT !["app"] = <<c, w, o>>]

ApproveDeviceCodeForWorkspace(c, w, o) == Checked(<<c, w, o>>, "app")

\* Faulty: the workspace the client names is not looked up.
AnyWorkspace(o) == Workspaces

\* listWorkspacesForOrg
WorkspacesOf(o) == {w \in Workspaces : OrgOf[w] = o}

\* POST /v1/machines/connect by an admin of o, who names a workspace of the
\* organization or gets its first one.
ConnectMachine(c, o) ==
  /\ \E w \in WorkspacesOf(o) : ApproveDeviceCodeForWorkspace(c, w, o)
  /\ UNCHANGED <<codes, keys, logins, polls, approvals>>

(***************************************************************************)
(* The second statement of an approval, in either service                  *)
(***************************************************************************)
\* UPDATE without a look at the status.  A row that is gone by now stays so; the
\* approval is reported as done in either case.
UpdateCode(service) ==
  LET a == approving[service]
  IN  /\ a # NoApproval
      /\ codes' = IF Exists(a[1])
                  THEN [codes EXCEPT ![a[1]].status = "approved", ![a[1]].workspaceId = a[2]]
                  ELSE codes
      /\ approvals' = approvals \cup {a}
      /\ approving' = [approving EXCEPT ![service] = NoApproval]
      /\ UNCHANGED <<keys, logins, polls>>

\* The service is killed between the two statements.
LoseApproval(service) ==
  /\ approving[service] # NoApproval
  /\ approving' = [approving EXCEPT ![service] = NoApproval]
  /\ UNCHANGED <<codes, keys, logins, polls, approvals>>

(***************************************************************************)
(* The ingest service                                                      *)
(***************************************************************************)

Answer(s, answer) ==
  polls' = [polls EXCEPT ![s] = [@ EXCEPT !.pc = "answered", !.answer = answer]]

\* pollDeviceFlow up to its await.
PollRead(s) ==
  /\ polls[s].pc = "sent"
  /\ LET c == polls[s].code
     IN  \/ ~Exists(c) /\ Answer(s, "denied") /\ UNCHANGED codes
         \/ /\ Exists(c) /\ codes[c].expired
            /\ Answer(s, "expired")
            /\ codes' = [codes EXCEPT ![c] = NoCode]
         \/ /\ codes[c].status = "pending" /\ ~codes[c].expired
            /\ Answer(s, "pending")
            /\ UNCHANGED codes
         \/ /\ codes[c].status = "approved" /\ ~codes[c].expired
            /\ polls' = [polls EXCEPT ![s] =
                           [@ EXCEPT !.pc = "hashing", !.workspaceId = codes[c].workspaceId]]
            /\ UNCHANGED codes
  /\ UNCHANGED <<keys, logins, approving, approvals>>

\* Faulty: the key is handed out without being stored.
PollMintUnsaved(s, k) ==
  /\ polls[s].pc = "hashing"
  /\ keys[k] = NoKey
  /\ polls' = [polls EXCEPT ![s] = [@ EXCEPT !.pc = "minted", !.key = k]]
  /\ UNCHANGED <<codes, keys, logins, approving, approvals>>

\* After the await: the key is inserted ...
PollMint(s, k) ==
  /\ polls[s].pc = "hashing"
  /\ keys[k] = NoKey
  /\ keys' = [keys EXCEPT ![k] = [workspaceId |-> polls[s].workspaceId,
                                  code        |-> polls[s].code]]
  /\ polls' = [polls EXCEPT ![s] = [@ EXCEPT !.pc = "minted", !.key = k]]
  /\ UNCHANGED <<codes, logins, approving, approvals>>

\* ... and the row deleted, a statement of its own.
PollDelete(s) ==
  /\ polls[s].pc = "minted"
  /\ codes' = [codes EXCEPT ![polls[s].code] = NoCode]
  /\ Answer(s, "approved")
  /\ UNCHANGED <<keys, logins, approving, approvals>>

\* The service is restarted, or the connection breaks: the request is gone, and
\* the login waiting for its answer fails unless a duplicate is under way.
LosePoll(s) ==
  /\ polls[s].pc # "idle"
  /\ polls' = [polls EXCEPT ![s] = NoPoll]
  /\ logins' = [logins EXCEPT ![polls[s].code] =
                  IF @.pc = "asking" /\ ~\E t \in Slots \ {s} : polls[t].code = polls[s].code
                  THEN [@ EXCEPT !.pc = "failed"] ELSE @]
  /\ UNCHANGED <<codes, keys, approving, approvals>>

(***************************************************************************)
(* mcpseal login                                                           *)
(***************************************************************************)
\* Faulty: polling never stops.
SendPollForever(c, s) ==
  /\ logins[c].pc = "sleeping"
  /\ polls[s].pc = "idle"
  /\ logins' = [logins EXCEPT ![c].pc = "asking", ![c].polls = @ + 1]
  /\ polls' = [polls EXCEPT ![s] = [NoPoll EXCEPT !.pc = "sent", !.code = c]]
  /\ UNCHANGED <<codes, keys, approving, approvals>>

SendPoll(c, s) ==
  /\ logins[c].pc = "sleeping"
  /\ logins[c].polls < MaxPolls
  /\ polls[s].pc = "idle"
  /\ logins' = [logins EXCEPT ![c].pc = "asking", ![c].polls = @ + 1]
  /\ polls' = [polls EXCEPT ![s] = [NoPoll EXCEPT !.pc = "sent", !.code = c]]
  /\ UNCHANGED <<codes, keys, approving, approvals>>

\* The network delivers a request of login again, once at most.
DuplicatePoll(s, t) ==
  /\ polls[s].pc # "idle"
  /\ ~polls[s].copied
  /\ polls[t].pc = "idle"
  /\ polls' = [polls EXCEPT ![s].copied = TRUE,
                            ![t] = [NoPoll EXCEPT !.pc = "sent", !.code = polls[s].code,
                                                  !.copied = TRUE]]
  /\ UNCHANGED <<codes, keys, logins, approving, approvals>>

\* What login does with an answer; one that nobody waits for is dropped.
ReceiveAnswer(s) ==
  /\ polls[s].pc = "answered"
  /\ LET poll  == polls[s]
         login == logins[poll.code]
     IN  logins' = [logins EXCEPT ![poll.code] =
           IF login.pc # "asking" THEN login
           ELSE CASE poll.answer = "pending"  -> [login EXCEPT !.pc = "sleeping"]
                  [] poll.answer = "approved" ->
                       [login EXCEPT !.pc = "approved", !.key = poll.key,
                                     !.workspaceId = poll.workspaceId]
                  [] OTHER                    -> [login EXCEPT !.pc = "failed"]]
  /\ polls' = [polls EXCEPT ![s] = NoPoll]
  /\ UNCHANGED <<codes, keys, approving, approvals>>

\* Faulty: one poll more is waited for than is sent.
TimeOutLate(c) ==
  /\ logins[c].pc = "sleeping"
  /\ logins[c].polls > MaxPolls
  /\ logins' = [logins EXCEPT ![c].pc = "failed"]
  /\ UNCHANGED <<codes, keys, polls, approving, approvals>>

\* "login timed out waiting for approval"
TimeOut(c) ==
  /\ logins[c].pc = "sleeping"
  /\ logins[c].polls = MaxPolls
  /\ logins' = [logins EXCEPT ![c].pc = "failed"]
  /\ UNCHANGED <<codes, keys, polls, approving, approvals>>

\* The user interrupts login.
Interrupt(c) ==
  /\ logins[c].pc \in {"sleeping", "asking"}
  /\ logins' = [logins EXCEPT ![c].pc = "failed"]
  /\ UNCHANGED <<codes, keys, polls, approving, approvals>>

Init ==
  /\ codes = [c \in Codes |-> NoCode]
  /\ keys = [k \in Keys |-> NoKey]
  /\ logins = [c \in Codes |-> NoLogin]
  /\ polls = [s \in Slots |-> NoPoll]
  /\ approving = [service \in Services |-> NoApproval]
  /\ approvals = {}

Poll(s) ==
  \/ PollRead(s)
  \/ \E k \in Keys : PollMint(s, k)
  \/ PollDelete(s)
  \/ ReceiveAnswer(s)

Login(c) == (\E s \in Slots : SendPoll(c, s)) \/ TimeOut(c)

Next ==
  \/ \E c \in Codes : \/ StartDeviceFlow(c)
                      \/ Expire(c)
                      \/ \E w \in Workspaces : ApproveDeviceCode(c, w)
                      \/ \E o \in Orgs : ConnectMachine(c, o)
                      \/ Login(c)
                      \/ Interrupt(c)
  \/ \E service \in Services : UpdateCode(service) \/ LoseApproval(service)
  \/ \E s \in Slots : \/ Poll(s)
                      \/ LosePoll(s)
                      \/ \E t \in Slots : DuplicatePoll(s, t)

Spec == Init /\ [][Next]_vars

\* The sleep between polls ends, and the service answers what it is asked.
\* Nobody has to approve a code, and no code has to expire.
FairSpec ==
  /\ Spec
  /\ \A c \in Codes : WF_vars(Login(c))
  /\ \A s \in Slots : WF_vars(Poll(s))

(***************************************************************************)
(* Properties                                                              *)
(***************************************************************************)
Approval  == Codes \X Workspaces \X (Orgs \cup {None})
CodeType  == [status : {"none", "pending", "approved"},
              workspaceId : Workspaces \cup {None}, expired : BOOLEAN]
KeyType   == [workspaceId : Workspaces \cup {None}, code : Codes \cup {None}]
LoginType == [pc : {"idle", "sleeping", "asking", "approved", "failed"},
              polls : 0 .. MaxPolls, key : Keys \cup {None},
              workspaceId : Workspaces \cup {None}]
PollType  == [pc : {"idle", "sent", "hashing", "minted", "answered"},
              code : Codes \cup {None}, workspaceId : Workspaces \cup {None},
              key : Keys \cup {None},
              answer : {"none", "denied", "expired", "pending", "approved"},
              copied : BOOLEAN]

\* Shape of the tables and processes; a login that succeeded holds a key.
TypeOK ==
  /\ codes \in [Codes -> CodeType]
  /\ keys \in [Keys -> KeyType]
  /\ logins \in [Codes -> LoginType]
  /\ polls \in [Slots -> PollType]
  /\ approvals \subseteq Approval
  /\ approving \in [Services -> Approval \cup {NoApproval}]
  /\ \A c \in Codes : logins[c].pc = "approved" => logins[c].key \in Keys
  /\ \A c \in Codes : codes[c].status = "approved" => codes[c].workspaceId \in Workspaces

MintedFor(c) == {k \in Keys : keys[k].code = c}

\* device-flow.ts:65-67: one authorization mints at most one credential.
AtMostOneKey == \A c \in Codes : Cardinality(MintedFor(c)) <= 1

ApprovalsOf(c) == {a \in approvals : a[1] = c}

ByDashboard(a) == a[3] # None

\* A key gives access to a workspace its code was approved for, although a poll reads
\* the code before its await; and unless both services approved the code, which
\* nothing prevents, that is the only one.
KeyAsApproved ==
  \A k \in Keys :
    keys[k] # NoKey =>
      LET as == ApprovalsOf(keys[k].code)
      IN  /\ keys[k].workspaceId \in {a[2] : a \in as}
          /\ (\A a, b \in as : ByDashboard(a) <=> ByDashboard(b))
               => {a[2] : a \in as} = {keys[k].workspaceId}

\* app.ts:237-239: an admin connects machines to the own organization only.  So
\* it is if the dashboard was the only one to approve the code.
ConnectedInOrg ==
  \A k \in Keys :
    LET as == ApprovalsOf(keys[k].code)
    IN  (\A a \in as : ByDashboard(a)) => \A a \in as : OrgOf[keys[k].workspaceId] = a[3]

\* app.ts:237-239, whoever else approves: the organization of an admin who connected
\* a machine is the one the machine gets a key of.
ConnectedInOrgAlways ==
  \A k \in Keys :
    \A a \in ApprovalsOf(keys[k].code) :
      ByDashboard(a) => OrgOf[keys[k].workspaceId] = a[3]

\* What a successful login stores is a key of the service for that workspace.
LoginHoldsKey ==
  \A c \in Codes :
    logins[c].pc = "approved" =>
      keys[logins[c].key] = [workspaceId |-> logins[c].workspaceId, code |-> c]

\* login always comes to an end, with a key or with an error.
LoginEnds ==
  \A c \in Codes :
    logins[c].pc \in {"sleeping", "asking"} ~> logins[c].pc \in {"approved", "failed"}

=============================================================================
