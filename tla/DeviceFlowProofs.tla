-------------------------- MODULE DeviceFlowProofs --------------------------
(***************************************************************************)
(* Proofs about DeviceFlow, for any number of codes, keys, overlapping     *)
(* polls, workspaces and organizations.                                    *)
(*                                                                         *)
(* The argument: what a poll read before its await was approved, and stays *)
(* so.  Each service approves a code once at most, because it asks for a   *)
(* pending code, nothing of its own comes between its two statements, and  *)
(* nothing makes a code pending again; but both services may approve it.   *)
(***************************************************************************)
EXTENDS DeviceFlow, TLAPS

\* The workspaces a code was approved for.
ApprovedFor(c) == {a[2] : a \in ApprovalsOf(c)}

\* Nothing is approved before the login of the code has started ...
PendingIsFresh ==
  \A c \in Codes :
    /\ logins[c].pc = "idle" =>
         /\ codes[c].status = "none" /\ ApprovalsOf(c) = {}
         /\ \A service \in Services : approving[service][1] # c
    /\ codes[c].status = "pending" => ApprovalsOf(c) = {}

\* ... and an approved code, a poll that found it, or a key, names a workspace the
\* code was approved for.
CodesAsApproved ==
  \A c \in Codes :
    codes[c].status = "approved" => codes[c].workspaceId \in ApprovedFor(c)

PollsAsApproved ==
  \A s \in Slots :
    polls[s].pc \in {"hashing", "minted"} =>
      /\ polls[s].workspaceId \in Workspaces
      /\ polls[s].workspaceId \in ApprovedFor(polls[s].code)

KeysApproved ==
  \A k \in Keys : keys[k] # NoKey => keys[k].workspaceId \in ApprovedFor(keys[k].code)

\* An admin approves for a workspace of the own organization; each service approves
\* a code once at most, also when it is about to.
ApprovalsInv ==
  /\ \A a \in approvals : ByDashboard(a) => OrgOf[a[2]] = a[3]
  /\ \A a, b \in approvals : a[1] = b[1] /\ (ByDashboard(a) <=> ByDashboard(b)) => a = b
  /\ \A service \in Services :
       approving[service] # NoApproval =>
         LET a == approving[service]
         IN  /\ ByDashboard(a) => OrgOf[a[2]] = a[3]
             /\ ByDashboard(a) <=> service = "app"
             /\ \A b \in approvals : a[1] = b[1] => ~(ByDashboard(a) <=> ByDashboard(b))

\* A request under way is about a code; a poll that minted a key holds it.
HoldsKey(s) ==
  \/ polls[s].pc = "minted"
  \/ polls[s].pc = "answered" /\ polls[s].answer = "approved"

PollsHoldKey ==
  \A s \in Slots :
    /\ polls[s].pc # "idle" => polls[s].code \in Codes
    /\ HoldsKey(s) =>
         /\ polls[s].key \in Keys
         /\ keys[polls[s].key] = [workspaceId |-> polls[s].workspaceId,
                                  code        |-> polls[s].code]

DeviceInv ==
  /\ TypeOK
  /\ PollsHoldKey
  /\ PendingIsFresh
  /\ CodesAsApproved
  /\ PollsAsApproved
  /\ ApprovalsInv
  /\ KeysApproved
  /\ LoginHoldsKey

LEMMA ApprovalTuples ==
  /\ \A a \in Approval : /\ a[1] \in Codes /\ a[2] \in Workspaces /\ a[3] \in Orgs \cup {None}
                         /\ a # NoApproval
  /\ NoApproval[1] \notin Codes
BY DeviceAssumption DEF Approval, NoApproval

LEMMA DeviceInit == Init => DeviceInv
<1> SUFFICES ASSUME Init PROVE DeviceInv
  OBVIOUS
<1> USE DeviceAssumption DEF Init, NoCode, NoKey, NoLogin, NoPoll
<1>1. TypeOK
  BY DEF TypeOK, CodeType, KeyType, LoginType, PollType
<1>2. PollsHoldKey /\ CodesAsApproved /\ PollsAsApproved
  BY DEF PollsHoldKey, HoldsKey, CodesAsApproved, PollsAsApproved
<1>4. PendingIsFresh
  <2>1. NoApproval[1] \notin Codes
    BY ApprovalTuples
  <2>2. \A service \in Services : approving[service] = NoApproval
    OBVIOUS
  <2>3. \A c \in Codes : ApprovalsOf(c) = {}
    BY DEF ApprovalsOf
  <2> QED
    BY <2>1, <2>2, <2>3 DEF PendingIsFresh
<1>3. ApprovalsInv /\ KeysApproved /\ LoginHoldsKey
  BY DEF ApprovalsInv, KeysApproved, LoginHoldsKey
<1> QED
  BY <1>1, <1>2, <1>3, <1>4 DEF DeviceInv

\* The checks of an approval are made of a code nobody approved yet.
LEMMA CheckKeeps ==
  ASSUME DeviceInv, NEW c \in Codes, NEW w \in Workspaces, NEW x \in Orgs \cup {None},
         NEW service \in Services, Checked(<<c, w, x>>, service),
         x # None => OrgOf[w] = x,
         x # None <=> service = "app",
         UNCHANGED <<codes, keys, logins, polls, approvals>>
  PROVE  DeviceInv'
<1> USE DEF DeviceInv
<1> DEFINE a == <<c, w, x>>
<1>1. /\ a \in Approval /\ a[1] = c /\ a[2] = w /\ a[3] = x
      /\ approving' = [approving EXCEPT ![service] = a]
      /\ codes[c].status = "pending"
  BY DEF Approval, Checked
<1> HIDE DEF a
<1>2. /\ approving' \in [Services -> Approval \cup {NoApproval}]
      /\ approving'[service] = a
      /\ \A t \in Services \ {service} : approving'[t] = approving[t]
  BY <1>1 DEF TypeOK
<1>3. TypeOK'
  BY <1>2 DEF TypeOK
<1>4. \A d : ApprovalsOf(d)' = ApprovalsOf(d) /\ ApprovedFor(d)' = ApprovedFor(d)
  BY DEF ApprovalsOf, ApprovedFor
<1>5. ApprovalsOf(c) = {} /\ logins[c].pc # "idle"
  BY <1>1 DEF PendingIsFresh
<1>6. PendingIsFresh'
  BY <1>1, <1>2, <1>4, <1>5 DEF PendingIsFresh
<1>7. \A b \in approvals : b[1] # c
  BY <1>5 DEF ApprovalsOf
<1>8. ApprovalsInv'
  BY <1>1, <1>2, <1>7 DEF ApprovalsInv, ByDashboard
<1>9. CodesAsApproved' /\ PollsAsApproved' /\ KeysApproved'
  BY <1>4 DEF CodesAsApproved, PollsAsApproved, KeysApproved
<1>10. PollsHoldKey' /\ LoginHoldsKey'
  BY DEF PollsHoldKey, HoldsKey, LoginHoldsKey
<1> QED
  BY <1>3, <1>6, <1>8, <1>9, <1>10

\* The update adds an approval: the first of its service for this code.
LEMMA UpdateKeeps ==
  ASSUME DeviceInv, NEW service \in Services, UpdateCode(service)
  PROVE  DeviceInv'
<1> USE DEF DeviceInv
<1>0. PICK a \in Approval : a = approving[service]
  BY DEF UpdateCode, TypeOK
<1>1. /\ a = approving[service] /\ a # NoApproval
      /\ codes' = IF Exists(a[1])
                  THEN [codes EXCEPT ![a[1]].status = "approved", ![a[1]].workspaceId = a[2]]
                  ELSE codes
      /\ approvals' = approvals \cup {a}
      /\ approving' = [approving EXCEPT ![service] = NoApproval]
      /\ UNCHANGED <<keys, logins, polls>>
  BY <1>0 DEF UpdateCode
<1>2. a \in Approval /\ a[1] \in Codes /\ a[2] \in Workspaces
  BY ApprovalTuples
<1>3. /\ codes' \in [Codes -> CodeType]
      /\ \A d \in Codes \ {a[1]} : codes'[d] = codes[d]
      /\ \/ codes'[a[1]].status = "approved" /\ codes'[a[1]].workspaceId = a[2]
         \/ codes'[a[1]].status = "none" /\ codes[a[1]].status = "none"
      /\ codes[a[1]].status = "none" => codes'[a[1]].status = "none"
  <2>1. CASE Exists(a[1])
    BY <1>1, <1>2, <2>1 DEF Exists, TypeOK, CodeType
  <2>2. CASE ~Exists(a[1])
    BY <1>1, <1>2, <2>2 DEF Exists, TypeOK
  <2> QED
    BY <2>1, <2>2
<1>4. /\ approving' \in [Services -> Approval \cup {NoApproval}]
      /\ approving'[service] = NoApproval
      /\ \A t \in Services \ {service} : approving'[t] = approving[t]
  BY <1>1 DEF TypeOK
<1>5. TypeOK'
  <2>1. approvals' \subseteq Approval
    BY <1>1, <1>2 DEF TypeOK
  <2>2. \A d \in Codes : codes'[d].status = "approved" => codes'[d].workspaceId \in Workspaces
    BY <1>2, <1>3 DEF TypeOK
  <2> QED
    BY <1>1, <1>3, <1>4, <2>1, <2>2 DEF TypeOK
<1>6. /\ \A d : ApprovedFor(d) \subseteq ApprovedFor(d)'
      /\ a[2] \in ApprovedFor(a[1])'
      /\ \A d : d # a[1] => ApprovalsOf(d)' = ApprovalsOf(d)
  BY <1>1 DEF ApprovedFor, ApprovalsOf
<1>7. PendingIsFresh'
  <2>1. approving[service][1] = a[1] /\ NoApproval[1] \notin Codes
    BY <1>1, ApprovalTuples
  <2>2. logins[a[1]].pc # "idle"
    BY <1>2, <2>1 DEF PendingIsFresh
  <2> QED
    BY <1>1, <1>3, <1>4, <1>6, <2>1, <2>2 DEF PendingIsFresh
<1>8. ApprovalsInv'
  <2>1. /\ ByDashboard(a) => OrgOf[a[2]] = a[3]
        /\ ByDashboard(a) <=> service = "app"
        /\ \A b \in approvals : a[1] = b[1] => ~(ByDashboard(a) <=> ByDashboard(b))
    BY <1>1 DEF ApprovalsInv
  <2>2. /\ \A b \in approvals' : ByDashboard(b) => OrgOf[b[2]] = b[3]
        /\ \A b, d \in approvals' :
             b[1] = d[1] /\ (ByDashboard(b) <=> ByDashboard(d)) => b = d
    BY <1>1, <2>1 DEF ApprovalsInv
  <2>3. ASSUME NEW t \in Services, approving'[t] # NoApproval
        PROVE  LET b == approving'[t]
               IN  /\ ByDashboard(b) => OrgOf[b[2]] = b[3]
                   /\ ByDashboard(b) <=> t = "app"
                   /\ \A d \in approvals' :
                        b[1] = d[1] => ~(ByDashboard(b) <=> ByDashboard(d))
    <3>1. t # service /\ approving'[t] = approving[t]
      BY <1>4, <2>3
    <3>2. ByDashboard(a) <=> ~(t = "app")
      BY <2>1, <3>1 DEF Services
    <3> QED
      BY <1>1, <2>3, <3>1, <3>2 DEF ApprovalsInv
  <2> QED
    BY <2>2, <2>3 DEF ApprovalsInv
<1>9. CodesAsApproved'
  BY <1>2, <1>3, <1>6 DEF CodesAsApproved
<1>10. PollsAsApproved' /\ KeysApproved'
  BY <1>1, <1>6 DEF PollsAsApproved, KeysApproved
<1>11. PollsHoldKey' /\ LoginHoldsKey'
  BY <1>1 DEF PollsHoldKey, HoldsKey, LoginHoldsKey
<1> QED
  BY <1>5, <1>7, <1>8, <1>9, <1>10, <1>11

\* The steps of an approval.
LEMMA ApprovalKeeps ==
  ASSUME DeviceInv,
         \/ \E c \in Codes : \/ \E w \in Workspaces : ApproveDeviceCode(c, w)
                            \/ \E o \in Orgs : ConnectMachine(c, o)
         \/ \E service \in Services : UpdateCode(service) \/ LoseApproval(service)
  PROVE  DeviceInv'
<1>1. ASSUME NEW c \in Codes, NEW w \in Workspaces, ApproveDeviceCode(c, w)
      PROVE  DeviceInv'
  <2>1. /\ Checked(<<c, w, None>>, "ingest") /\ "ingest" \in Services
        /\ UNCHANGED <<codes, keys, logins, polls, approvals>>
    BY <1>1 DEF ApproveDeviceCode, Services
  <2> QED
    BY <2>1, CheckKeeps
<1>2. ASSUME NEW c \in Codes, NEW o \in Orgs, ConnectMachine(c, o)
      PROVE  DeviceInv'
  <2>1. PICK w \in Workspaces : OrgOf[w] = o /\ Checked(<<c, w, o>>, "app")
    BY <1>2 DEF ConnectMachine, ApproveDeviceCodeForWorkspace, WorkspacesOf
  <2>2. "app" \in Services /\ o # None
    BY DeviceAssumption DEF Services
  <2>3. UNCHANGED <<codes, keys, logins, polls, approvals>>
    BY <1>2 DEF ConnectMachine
  <2> QED
    BY <2>1, <2>2, <2>3, CheckKeeps
<1>3. ASSUME NEW service \in Services, LoseApproval(service)
      PROVE  DeviceInv'
  <2> USE DEF DeviceInv, LoseApproval
  <2>1. /\ approving' \in [Services -> Approval \cup {NoApproval}]
        /\ \A t \in Services : approving'[t] = approving[t] \/ approving'[t] = NoApproval
    BY <1>3 DEF TypeOK
  <2>2. \A d : ApprovalsOf(d)' = ApprovalsOf(d) /\ ApprovedFor(d)' = ApprovedFor(d)
    BY <1>3 DEF ApprovalsOf, ApprovedFor
  <2>3. TypeOK' /\ PollsHoldKey' /\ LoginHoldsKey'
    BY <1>3, <2>1 DEF TypeOK, PollsHoldKey, HoldsKey, LoginHoldsKey
  <2>4. PendingIsFresh'
    BY <1>3, <2>1, <2>2, ApprovalTuples DEF PendingIsFresh
  <2>5. ApprovalsInv'
    BY <1>3, <2>1 DEF ApprovalsInv
  <2>6. CodesAsApproved' /\ PollsAsApproved' /\ KeysApproved'
    BY <1>3, <2>2 DEF CodesAsApproved, PollsAsApproved, KeysApproved
  <2> QED
    BY <2>3, <2>4, <2>5, <2>6
<1> QED
  BY <1>1, <1>2, <1>3, UpdateKeeps

\* The facts of a step that approves nothing.
LEMMA NothingApproved ==
  ASSUME approvals' = approvals
  PROVE  \A c : ApprovalsOf(c)' = ApprovalsOf(c) /\ ApprovedFor(c)' = ApprovedFor(c)
BY DEF ApprovalsOf, ApprovedFor

\* The steps of the code table that approve nothing.
LEMMA StartKeeps ==
  ASSUME DeviceInv, NEW c \in Codes, StartDeviceFlow(c)
  PROVE  DeviceInv'
<1> USE DeviceAssumption DEF DeviceInv, StartDeviceFlow
<1>1. \A d : ApprovalsOf(d)' = ApprovalsOf(d) /\ ApprovedFor(d)' = ApprovedFor(d)
  BY NothingApproved
<1>2. /\ codes'[c].status = "pending" /\ logins'[c].pc = "sleeping"
      /\ \A d \in Codes \ {c} : codes'[d] = codes[d] /\ logins'[d] = logins[d]
  BY DEF TypeOK, NoCode, LoginType
<1>3. TypeOK'
  <2>1. codes' \in [Codes -> CodeType]
    BY DEF TypeOK, CodeType, NoCode
  <2>2. logins' \in [Codes -> LoginType]
    BY DEF TypeOK, LoginType
  <2> QED
    BY <1>2, <2>1, <2>2 DEF TypeOK
<1>4. PollsHoldKey' /\ KeysApproved'
  BY <1>1 DEF PollsHoldKey, HoldsKey, KeysApproved
<1>5. LoginHoldsKey'
  BY <1>2 DEF LoginHoldsKey
<1>6. PendingIsFresh' /\ CodesAsApproved'
  BY <1>1, <1>2 DEF PendingIsFresh, CodesAsApproved
<1>7. PollsAsApproved' /\ ApprovalsInv'
  BY <1>1 DEF PollsAsApproved, ApprovalsInv
<1> QED
  BY <1>3, <1>4, <1>5, <1>6, <1>7

LEMMA ExpireKeeps ==
  ASSUME DeviceInv, NEW c \in Codes, Expire(c)
  PROVE  DeviceInv'
<1> USE DEF DeviceInv, Expire
<1>1. \A d : ApprovalsOf(d)' = ApprovalsOf(d) /\ ApprovedFor(d)' = ApprovedFor(d)
  BY NothingApproved
<1>2. codes' \in [Codes -> CodeType]
  <2>1. codes \in [Codes -> CodeType] /\ codes' = [codes EXCEPT ![c].expired = TRUE]
    BY DEF TypeOK
  <2> QED
    BY ONLY <2>1 DEF CodeType
<1>3. \A d \in Codes : /\ codes'[d].status = codes[d].status
                       /\ codes'[d].workspaceId = codes[d].workspaceId
  BY DEF TypeOK, CodeType
<1>4. TypeOK'
  BY <1>2, <1>3 DEF TypeOK
<1>5. PollsHoldKey' /\ KeysApproved' /\ LoginHoldsKey'
  BY <1>1 DEF PollsHoldKey, HoldsKey, KeysApproved, LoginHoldsKey
<1>6. PendingIsFresh' /\ CodesAsApproved' /\ PollsAsApproved' /\ ApprovalsInv'
  BY <1>1, <1>3 DEF PendingIsFresh, CodesAsApproved, PollsAsApproved, ApprovalsInv
<1> QED
  BY <1>4, <1>5, <1>6

\* A step that replaces one poll.
LEMMA ReplacePoll ==
  ASSUME TypeOK, NEW s \in Slots, NEW poll \in PollType,
         polls' = [polls EXCEPT ![s] = poll]
  PROVE  /\ polls' \in [Slots -> PollType]
         /\ polls'[s] = poll
         /\ \A t \in Slots \ {s} : polls'[t] = polls[t]
BY DEF TypeOK

\* What a poll reads before its await is what its code is approved for.
LEMMA PollReadKeeps ==
  ASSUME DeviceInv, NEW s \in Slots, PollRead(s)
  PROVE  DeviceInv'
<1> USE DeviceAssumption DEF DeviceInv
<1> DEFINE c == polls[s].code
<1>1. /\ polls[s].pc = "sent" /\ c \in Codes
      /\ UNCHANGED <<keys, logins, approving, approvals>>
  BY DEF PollRead, PollsHoldKey
<1>2. \A d : ApprovalsOf(d)' = ApprovalsOf(d) /\ ApprovedFor(d)' = ApprovedFor(d)
  BY <1>1, NothingApproved
<1>3. codes' = codes \/ codes' = [codes EXCEPT ![c] = NoCode]
  BY DEF PollRead
<1>4. /\ codes' \in [Codes -> CodeType]
      /\ \A d \in Codes : codes'[d] = codes[d] \/ codes'[d] = NoCode
  <2>1. NoCode \in CodeType
    BY DEF NoCode, CodeType
  <2> QED
    BY <1>1, <1>3, <2>1 DEF TypeOK
<1>5. PICK poll \in PollType :
        /\ polls' = [polls EXCEPT ![s] = poll]
        /\ poll.code = c
        /\ \/ poll.pc = "answered" /\ poll.answer # "approved"
           \/ /\ poll.pc = "hashing"
              /\ codes[c].status = "approved" /\ poll.workspaceId = codes[c].workspaceId
  <2>1. polls[s] \in PollType /\ codes[c] \in CodeType
    BY <1>1 DEF TypeOK
  <2>2. ASSUME NEW answer \in {"denied", "expired", "pending"}, Answer(s, answer)
        PROVE  \E poll \in PollType :
                 /\ polls' = [polls EXCEPT ![s] = poll]
                 /\ poll.code = c
                 /\ poll.pc = "answered" /\ poll.answer # "approved"
    <3> DEFINE p == [polls[s] EXCEPT !.pc = "answered", !.answer = answer]
    <3>1. p \in PollType /\ p.code = c /\ p.pc = "answered" /\ p.answer = answer
      BY <2>1 DEF PollType
    <3> QED
      BY <2>2, <3>1 DEF Answer
  <2>3. ASSUME codes[c].status = "approved",
               polls' = [polls EXCEPT ![s] =
                  [@ EXCEPT !.pc = "hashing", !.workspaceId = codes[c].workspaceId]]
        PROVE  \E poll \in PollType :
                 /\ polls' = [polls EXCEPT ![s] = poll]
                 /\ poll.code = c
                 /\ poll.pc = "hashing" /\ poll.workspaceId = codes[c].workspaceId
    <3> DEFINE p == [polls[s] EXCEPT !.pc = "hashing", !.workspaceId = codes[c].workspaceId]
    <3>1. /\ p \in PollType /\ p.code = c
          /\ p.pc = "hashing" /\ p.workspaceId = codes[c].workspaceId
      BY <2>1 DEF PollType, CodeType
    <3> QED
      BY <2>3, <3>1
  <2> QED
    BY <2>2, <2>3 DEF PollRead
<1>6. /\ polls' \in [Slots -> PollType] /\ polls'[s] = poll
      /\ \A t \in Slots \ {s} : polls'[t] = polls[t]
  BY <1>5, ReplacePoll
<1>7. TypeOK'
  BY <1>1, <1>4, <1>6 DEF TypeOK, NoCode
<1>8. PollsHoldKey'
  BY <1>1, <1>5, <1>6 DEF PollsHoldKey, HoldsKey
<1>9. PendingIsFresh' /\ CodesAsApproved'
  BY <1>1, <1>2, <1>4 DEF PendingIsFresh, CodesAsApproved, NoCode
<1>10. PollsAsApproved'
  BY <1>1, <1>2, <1>5, <1>6 DEF PollsAsApproved, CodesAsApproved, TypeOK
<1>11. ApprovalsInv' /\ KeysApproved' /\ LoginHoldsKey'
  BY <1>1, <1>2 DEF ApprovalsInv, KeysApproved, LoginHoldsKey
<1> QED
  BY <1>7, <1>8, <1>9, <1>10, <1>11

\* The key minted after the await is for what was read before it, and takes the
\* place of no other key.
LEMMA PollMintKeeps ==
  ASSUME DeviceInv, NEW s \in Slots, NEW k \in Keys, PollMint(s, k)
  PROVE  DeviceInv'
<1> USE DeviceAssumption DEF DeviceInv
<1> DEFINE minted == [workspaceId |-> polls[s].workspaceId, code |-> polls[s].code]
<1>1. /\ polls[s].pc = "hashing" /\ polls[s].code \in Codes
      /\ keys[k] = NoKey /\ keys' = [keys EXCEPT ![k] = minted]
      /\ polls' = [polls EXCEPT ![s] = [@ EXCEPT !.pc = "minted", !.key = k]]
      /\ UNCHANGED <<codes, logins, approving, approvals>>
  BY DEF PollMint, PollsHoldKey
<1>2. \A d : ApprovalsOf(d)' = ApprovalsOf(d) /\ ApprovedFor(d)' = ApprovedFor(d)
  BY <1>1, NothingApproved
<1>3. /\ keys' \in [Keys -> KeyType]
      /\ keys'[k] = minted
      /\ \A l \in Keys \ {k} : keys'[l] = keys[l]
  BY <1>1 DEF TypeOK, KeyType, PollType
<1>4. /\ polls' \in [Slots -> PollType]
      /\ polls'[s].code = polls[s].code
      /\ polls'[s].workspaceId = polls[s].workspaceId
      /\ polls'[s].pc = "minted" /\ polls'[s].key = k
      /\ \A t \in Slots \ {s} : polls'[t] = polls[t]
  <2> DEFINE p == [polls[s] EXCEPT !.pc = "minted", !.key = k]
  <2>1. /\ p \in PollType /\ p.code = polls[s].code
        /\ p.workspaceId = polls[s].workspaceId /\ p.pc = "minted" /\ p.key = k
    BY DEF TypeOK, PollType
  <2> HIDE DEF p
  <2>2. polls' = [polls EXCEPT ![s] = p]
    BY <1>1 DEF p
  <2> QED
    BY <2>1, <2>2, ReplacePoll
<1>5. TypeOK'
  BY <1>1, <1>3, <1>4 DEF TypeOK
<1>6. \A l \in Keys : (\E c \in Codes : \E w : keys[l] = [workspaceId |-> w, code |-> c])
                        => keys'[l] = keys[l]
  BY <1>1, <1>3 DEF NoKey
<1>7. PollsHoldKey'
  BY <1>1, <1>3, <1>4, <1>6 DEF PollsHoldKey, HoldsKey
<1>8. PendingIsFresh' /\ CodesAsApproved' /\ ApprovalsInv'
  BY <1>1, <1>2 DEF PendingIsFresh, CodesAsApproved, ApprovalsInv
<1>9. PollsAsApproved'
  BY <1>1, <1>2, <1>4 DEF PollsAsApproved
<1>10. KeysApproved'
  BY <1>1, <1>2, <1>3 DEF KeysApproved, PollsAsApproved, ApprovedFor
<1>11. LoginHoldsKey'
  BY <1>1, <1>6 DEF LoginHoldsKey, TypeOK
<1> QED
  BY <1>5, <1>7, <1>8, <1>9, <1>10, <1>11

LEMMA PollDeleteKeeps ==
  ASSUME DeviceInv, NEW s \in Slots, PollDelete(s)
  PROVE  DeviceInv'
<1> USE DeviceAssumption DEF DeviceInv
<1>1. /\ polls[s].pc = "minted" /\ polls[s].code \in Codes
      /\ codes' = [codes EXCEPT ![polls[s].code] = NoCode]
      /\ polls' = [polls EXCEPT ![s] = [@ EXCEPT !.pc = "answered", !.answer = "approved"]]
      /\ UNCHANGED <<keys, logins, approving, approvals>>
  BY DEF PollDelete, Answer, PollsHoldKey
<1>2. \A d : ApprovalsOf(d)' = ApprovalsOf(d) /\ ApprovedFor(d)' = ApprovedFor(d)
  BY <1>1, NothingApproved
<1>3. /\ codes' \in [Codes -> CodeType]
      /\ \A d \in Codes : codes'[d] = codes[d] \/ codes'[d] = NoCode
  BY <1>1 DEF TypeOK, CodeType, NoCode
<1>4. /\ polls' \in [Slots -> PollType]
      /\ polls'[s].code = polls[s].code /\ polls'[s].key = polls[s].key
      /\ polls'[s].workspaceId = polls[s].workspaceId
      /\ polls'[s].pc = "answered"
      /\ \A t \in Slots \ {s} : polls'[t] = polls[t]
  <2> DEFINE p == [polls[s] EXCEPT !.pc = "answered", !.answer = "approved"]
  <2>1. /\ p \in PollType /\ p.code = polls[s].code /\ p.key = polls[s].key
        /\ p.workspaceId = polls[s].workspaceId /\ p.pc = "answered"
    BY DEF TypeOK, PollType
  <2> HIDE DEF p
  <2>2. polls' = [polls EXCEPT ![s] = p]
    BY <1>1 DEF p
  <2> QED
    BY <2>1, <2>2, ReplacePoll
<1>5. TypeOK'
  BY <1>1, <1>3, <1>4 DEF TypeOK, NoCode
<1>6. PollsHoldKey'
  BY <1>1, <1>4 DEF PollsHoldKey, HoldsKey
<1>7. PendingIsFresh' /\ CodesAsApproved' /\ ApprovalsInv'
  BY <1>1, <1>2, <1>3 DEF PendingIsFresh, CodesAsApproved, ApprovalsInv, NoCode
<1>8. PollsAsApproved'
  BY <1>2, <1>4 DEF PollsAsApproved
<1>9. KeysApproved' /\ LoginHoldsKey'
  BY <1>1, <1>2 DEF KeysApproved, LoginHoldsKey
<1> QED
  BY <1>5, <1>6, <1>7, <1>8, <1>9

\* A request appears or is gone: no poll is further than it was.
LEMMA PollFilled ==
  ASSUME DeviceInv, NEW s \in Slots, NEW poll \in PollType,
         polls' = [polls EXCEPT ![s] = poll],
         \/ poll = NoPoll
         \/ poll.pc = "sent" /\ poll.code \in Codes
         \/ /\ poll.pc = polls[s].pc /\ poll.code = polls[s].code
            /\ poll.key = polls[s].key /\ poll.workspaceId = polls[s].workspaceId
            /\ poll.answer = polls[s].answer,
         UNCHANGED <<codes, keys, approving, approvals>>
  PROVE  /\ polls' \in [Slots -> PollType]
         /\ PollsHoldKey' /\ PollsAsApproved'
         /\ CodesAsApproved' /\ ApprovalsInv' /\ KeysApproved'
<1> USE DEF DeviceInv
<1>1. \A d : ApprovalsOf(d)' = ApprovalsOf(d) /\ ApprovedFor(d)' = ApprovedFor(d)
  BY NothingApproved
<1>2. /\ polls' \in [Slots -> PollType] /\ polls'[s] = poll
      /\ \A t \in Slots \ {s} : polls'[t] = polls[t]
  BY ReplacePoll
<1>3. poll.pc = "idle" \/ poll.pc = "sent" \/ poll.pc = polls[s].pc
  BY DEF NoPoll
<1>4. PollsHoldKey'
  BY <1>2, <1>3 DEF PollsHoldKey, HoldsKey, NoPoll
<1>5. PollsAsApproved'
  BY <1>1, <1>2, <1>3 DEF PollsAsApproved, NoPoll
<1>6. CodesAsApproved' /\ ApprovalsInv' /\ KeysApproved'
  BY <1>1 DEF CodesAsApproved, ApprovalsInv, KeysApproved
<1> QED
  BY <1>2, <1>4, <1>5, <1>6

\* A step of a login that obtains nothing.
LEMMA LoginMoved ==
  ASSUME DeviceInv, NEW c \in Codes, NEW login \in LoginType,
         logins' = [logins EXCEPT ![c] = login],
         login.pc # "idle",
         login.pc = "approved" =>
           /\ login.key \in Keys
           /\ keys[login.key] = [workspaceId |-> login.workspaceId, code |-> c],
         logins[c].pc # "idle",
         UNCHANGED <<codes, keys, approving, approvals>>
  PROVE  /\ logins' \in [Codes -> LoginType]
         /\ \A d \in Codes : logins'[d].pc = "approved" => logins'[d].key \in Keys
         /\ PendingIsFresh' /\ LoginHoldsKey'
<1> USE DEF DeviceInv
<1>1. \A d : ApprovalsOf(d)' = ApprovalsOf(d)
  BY NothingApproved
<1>2. /\ logins' \in [Codes -> LoginType] /\ logins'[c] = login
      /\ \A d \in Codes \ {c} : logins'[d] = logins[d]
  BY DEF TypeOK
<1>3. \A d \in Codes : logins'[d].pc = "approved" => logins'[d].key \in Keys
  BY <1>2 DEF TypeOK
<1>4. PendingIsFresh'
  BY <1>1, <1>2 DEF PendingIsFresh
<1>5. LoginHoldsKey'
  BY <1>2 DEF LoginHoldsKey
<1> QED
  BY <1>2, <1>3, <1>4, <1>5

LEMMA SendPollKeeps ==
  ASSUME DeviceInv, NEW c \in Codes, NEW s \in Slots, SendPoll(c, s)
  PROVE  DeviceInv'
<1> USE DeviceAssumption DEF DeviceInv
<1> DEFINE poll  == [NoPoll EXCEPT !.pc = "sent", !.code = c]
           login == [logins[c] EXCEPT !.pc = "asking", !.polls = @ + 1]
<1>1. poll \in PollType /\ poll.pc = "sent" /\ poll.code = c
  BY DEF PollType, NoPoll
<1>2. logins[c] \in LoginType /\ logins[c].pc = "sleeping" /\ logins[c].polls < MaxPolls
  BY DEF TypeOK, SendPoll
<1>3. login \in LoginType /\ login.pc = "asking"
  <2>1. logins[c].polls + 1 \in 0 .. MaxPolls
    BY <1>2 DEF LoginType
  <2>2. ASSUME NEW l \in LoginType, NEW n \in 0 .. MaxPolls
        PROVE  /\ [l EXCEPT !.pc = "asking", !.polls = n] \in LoginType
               /\ [l EXCEPT !.pc = "asking", !.polls = n].pc = "asking"
    BY DEF LoginType
  <2> QED
    BY <1>2, <2>1, <2>2
<1>4. /\ polls' = [polls EXCEPT ![s] = poll] /\ logins' = [logins EXCEPT ![c] = login]
      /\ UNCHANGED <<codes, keys, approving, approvals>>
  BY DEF SendPoll
<1> HIDE DEF poll, login
<1>5. /\ polls' \in [Slots -> PollType]
      /\ PollsHoldKey' /\ PollsAsApproved'
      /\ CodesAsApproved' /\ ApprovalsInv' /\ KeysApproved'
  BY <1>1, <1>4, PollFilled
<1>6. /\ logins' \in [Codes -> LoginType]
      /\ \A d \in Codes : logins'[d].pc = "approved" => logins'[d].key \in Keys
      /\ PendingIsFresh' /\ LoginHoldsKey'
  BY <1>2, <1>3, <1>4, LoginMoved
<1> QED
  BY <1>4, <1>5, <1>6 DEF TypeOK

\* login gives up, by itself or interrupted.
LEMMA LoginEndsKeeps ==
  ASSUME DeviceInv, NEW c \in Codes, TimeOut(c) \/ Interrupt(c)
  PROVE  DeviceInv'
<1> USE DeviceAssumption DEF DeviceInv
<1> DEFINE login == [logins[c] EXCEPT !.pc = "failed"]
<1>1. /\ logins[c] \in LoginType /\ logins[c].pc \in {"sleeping", "asking"}
      /\ logins' = [logins EXCEPT ![c] = login]
      /\ UNCHANGED <<codes, keys, polls, approving, approvals>>
  BY DEF TypeOK, TimeOut, Interrupt
<1>2. login \in LoginType /\ login.pc = "failed"
  BY <1>1 DEF LoginType
<1> HIDE DEF login
<1>3. /\ logins' \in [Codes -> LoginType]
      /\ \A d \in Codes : logins'[d].pc = "approved" => logins'[d].key \in Keys
      /\ PendingIsFresh' /\ LoginHoldsKey'
  BY <1>1, <1>2, LoginMoved
<1>4. \A d : ApprovalsOf(d)' = ApprovalsOf(d) /\ ApprovedFor(d)' = ApprovedFor(d)
  BY <1>1, NothingApproved
<1>5. PollsHoldKey' /\ PollsAsApproved' /\ CodesAsApproved' /\ ApprovalsInv'
  BY <1>1, <1>4 DEF PollsHoldKey, HoldsKey, PollsAsApproved, CodesAsApproved, ApprovalsInv
<1>6. KeysApproved'
  BY <1>1, <1>4 DEF KeysApproved
<1> QED
  BY <1>1, <1>3, <1>5, <1>6 DEF TypeOK

LEMMA NoPollType == NoPoll \in PollType
BY DEF NoPoll, PollType

LEMMA DuplicateKeeps ==
  ASSUME DeviceInv, NEW s \in Slots, NEW t \in Slots, DuplicatePoll(s, t)
  PROVE  DeviceInv'
<1> USE DeviceAssumption DEF DeviceInv
<1>1. /\ polls[s].pc # "idle" /\ polls[t].pc = "idle" /\ s # t
      /\ polls[s] \in PollType /\ polls[s].code \in Codes
      /\ UNCHANGED <<codes, keys, logins, approving, approvals>>
  BY DEF DuplicatePoll, TypeOK, PollsHoldKey
<1> DEFINE copied == [polls[s] EXCEPT !.copied = TRUE]
           copy   == [NoPoll EXCEPT !.pc = "sent", !.code = polls[s].code, !.copied = TRUE]
<1>2. /\ copied \in PollType
      /\ copied.pc = polls[s].pc /\ copied.code = polls[s].code
      /\ copied.key = polls[s].key /\ copied.workspaceId = polls[s].workspaceId
      /\ copied.answer = polls[s].answer
  BY <1>1 DEF PollType
<1>3. copy \in PollType /\ copy.pc = "sent" /\ copy.code = polls[s].code
  BY <1>1 DEF PollType, NoPoll
<1>4. polls' = [polls EXCEPT ![s] = copied, ![t] = copy]
  BY DEF DuplicatePoll
<1> HIDE DEF copied, copy
<1>5. /\ polls' \in [Slots -> PollType] /\ polls'[s] = copied /\ polls'[t] = copy
      /\ \A u \in Slots \ {s, t} : polls'[u] = polls[u]
  BY <1>1, <1>2, <1>3, <1>4 DEF TypeOK
<1>6. \A d : ApprovalsOf(d)' = ApprovalsOf(d) /\ ApprovedFor(d)' = ApprovedFor(d)
  BY <1>1, NothingApproved
<1>7. PollsHoldKey'
  BY <1>1, <1>2, <1>3, <1>5 DEF PollsHoldKey, HoldsKey
<1>8. PollsAsApproved'
  BY <1>1, <1>2, <1>3, <1>5, <1>6 DEF PollsAsApproved
<1>9. PendingIsFresh' /\ CodesAsApproved' /\ ApprovalsInv'
  BY <1>1, <1>6 DEF PendingIsFresh, CodesAsApproved, ApprovalsInv
<1>10. KeysApproved' /\ LoginHoldsKey'
  BY <1>1, <1>6 DEF KeysApproved, LoginHoldsKey
<1> QED
  BY <1>1, <1>5, <1>7, <1>8, <1>9, <1>10 DEF TypeOK

\* A request that is lost takes at most the login waiting for it along.
LEMMA LosePollKeeps ==
  ASSUME DeviceInv, NEW s \in Slots, LosePoll(s)
  PROVE  DeviceInv'
<1> USE DeviceAssumption DEF DeviceInv
<1> DEFINE c     == polls[s].code
           login == [logins[c] EXCEPT !.pc = "failed"]
<1>1. /\ c \in Codes /\ logins[c] \in LoginType
      /\ polls' = [polls EXCEPT ![s] = NoPoll]
      /\ UNCHANGED <<codes, keys, approving, approvals>>
  BY DEF LosePoll, PollsHoldKey, TypeOK
<1>2. /\ polls' \in [Slots -> PollType]
      /\ PollsHoldKey' /\ PollsAsApproved'
      /\ CodesAsApproved' /\ ApprovalsInv' /\ KeysApproved'
  BY <1>1, NoPollType, PollFilled
<1>3. \/ logins' = logins
      \/ logins[c].pc = "asking" /\ logins' = [logins EXCEPT ![c] = login]
  BY <1>1 DEF LosePoll, TypeOK
<1>4. CASE logins' = logins
  <2>1. \A d : ApprovalsOf(d)' = ApprovalsOf(d)
    BY <1>1, NothingApproved
  <2>2. PendingIsFresh' /\ LoginHoldsKey'
    BY <1>1, <1>4, <2>1 DEF PendingIsFresh, LoginHoldsKey
  <2> QED
    BY <1>1, <1>2, <1>4, <2>2 DEF TypeOK
<1>5. CASE logins[c].pc = "asking" /\ logins' = [logins EXCEPT ![c] = login]
  <2>1. login \in LoginType /\ login.pc = "failed"
    BY <1>1 DEF LoginType
  <2> HIDE DEF login
  <2>2. /\ logins' \in [Codes -> LoginType]
        /\ \A d \in Codes : logins'[d].pc = "approved" => logins'[d].key \in Keys
        /\ PendingIsFresh' /\ LoginHoldsKey'
    BY <1>1, <1>5, <2>1, LoginMoved
  <2> QED
    BY <1>1, <1>2, <2>2 DEF TypeOK
<1> QED
  BY <1>3, <1>4, <1>5

\* A login that is answered holds the key its poll minted, or none.
LEMMA ReceiveAnswerKeeps ==
  ASSUME DeviceInv, NEW s \in Slots, ReceiveAnswer(s)
  PROVE  DeviceInv'
<1> USE DeviceAssumption DEF DeviceInv
<1> DEFINE poll  == polls[s]
           c     == poll.code
           login == logins[c]
<1>1. /\ poll.pc = "answered" /\ c \in Codes
      /\ poll \in PollType /\ login \in LoginType
      /\ polls' = [polls EXCEPT ![s] = NoPoll]
      /\ UNCHANGED <<codes, keys, approving, approvals>>
  BY DEF ReceiveAnswer, PollsHoldKey, TypeOK
<1>2. /\ polls' \in [Slots -> PollType]
      /\ PollsHoldKey' /\ PollsAsApproved'
      /\ CodesAsApproved' /\ ApprovalsInv' /\ KeysApproved'
  BY <1>1, NoPollType, PollFilled
<1>3. CASE login.pc # "asking"
  <2>1. logins' = logins
    BY <1>3 DEF ReceiveAnswer, TypeOK
  <2>2. \A d : ApprovalsOf(d)' = ApprovalsOf(d)
    BY <1>1, NothingApproved
  <2>3. PendingIsFresh' /\ LoginHoldsKey'
    BY <1>1, <2>1, <2>2 DEF PendingIsFresh, LoginHoldsKey
  <2> QED
    BY <1>1, <1>2, <2>1, <2>3 DEF TypeOK
<1>4. CASE login.pc = "asking"
  <2>1. PICK next \in LoginType :
          /\ logins' = [logins EXCEPT ![c] = next]
          /\ next.pc # "idle"
          /\ next.pc = "approved" =>
               /\ next.key \in Keys
               /\ keys[next.key] = [workspaceId |-> next.workspaceId, code |-> c]
    <3> DEFINE waiting  == [login EXCEPT !.pc = "sleeping"]
               approved == [login EXCEPT !.pc = "approved", !.key = poll.key,
                                         !.workspaceId = poll.workspaceId]
               failed   == [login EXCEPT !.pc = "failed"]
    <3>1. \/ logins' = [logins EXCEPT ![c] = waiting]
          \/ poll.answer = "approved" /\ logins' = [logins EXCEPT ![c] = approved]
          \/ logins' = [logins EXCEPT ![c] = failed]
      BY <1>4 DEF ReceiveAnswer
    <3>2. /\ waiting \in LoginType /\ waiting.pc = "sleeping"
          /\ failed \in LoginType /\ failed.pc = "failed"
      BY <1>1 DEF LoginType
    <3>3. /\ approved \in LoginType
          /\ approved.key = poll.key /\ approved.workspaceId = poll.workspaceId
          /\ approved.pc = "approved"
      BY <1>1 DEF LoginType, PollType
    <3>4. poll.answer = "approved" =>
            /\ poll.key \in Keys
            /\ keys[poll.key] = [workspaceId |-> poll.workspaceId, code |-> c]
      BY <1>1 DEF PollsHoldKey, HoldsKey
    <3> HIDE DEF waiting, approved, failed
    <3>5. CASE logins' = [logins EXCEPT ![c] = waiting]
      BY <3>2, <3>5
    <3>6. CASE poll.answer = "approved" /\ logins' = [logins EXCEPT ![c] = approved]
      BY <3>3, <3>4, <3>6
    <3>7. CASE logins' = [logins EXCEPT ![c] = failed]
      BY <3>2, <3>7
    <3> QED
      BY <3>1, <3>5, <3>6, <3>7
  <2>2. /\ logins' \in [Codes -> LoginType]
        /\ \A d \in Codes : logins'[d].pc = "approved" => logins'[d].key \in Keys
        /\ PendingIsFresh' /\ LoginHoldsKey'
    BY <1>1, <1>4, <2>1, LoginMoved
  <2> QED
    BY <1>1, <1>2, <2>2 DEF TypeOK
<1> QED
  BY <1>3, <1>4

LEMMA DeviceStep == DeviceInv /\ [Next]_vars => DeviceInv'
<1> SUFFICES ASSUME DeviceInv, [Next]_vars PROVE DeviceInv'
  OBVIOUS
<1>1. CASE UNCHANGED vars
  <2>1. \A d : ApprovalsOf(d)' = ApprovalsOf(d) /\ ApprovedFor(d)' = ApprovedFor(d)
    BY <1>1, NothingApproved DEF vars
  <2>2. TypeOK' /\ PollsHoldKey' /\ ApprovalsInv' /\ LoginHoldsKey'
    BY <1>1 DEF vars, DeviceInv, TypeOK, PollsHoldKey, HoldsKey, ApprovalsInv,
       LoginHoldsKey
  <2>3. PendingIsFresh' /\ CodesAsApproved' /\ PollsAsApproved' /\ KeysApproved'
    BY <1>1, <2>1 DEF vars, DeviceInv, PendingIsFresh, CodesAsApproved, PollsAsApproved,
       KeysApproved
  <2> QED
    BY <2>2, <2>3 DEF DeviceInv
<1>2. ASSUME NEW c \in Codes,
             \/ StartDeviceFlow(c) \/ Expire(c)
             \/ Login(c) \/ Interrupt(c)
      PROVE  DeviceInv'
  BY <1>2, StartKeeps, ExpireKeeps, SendPollKeeps, LoginEndsKeeps DEF Login
<1>3. ASSUME NEW s \in Slots,
             Poll(s) \/ LosePoll(s) \/ \E t \in Slots : DuplicatePoll(s, t)
      PROVE  DeviceInv'
  BY <1>3, PollReadKeeps, PollMintKeeps, PollDeleteKeeps, ReceiveAnswerKeeps,
     LosePollKeeps, DuplicateKeeps DEF Poll
<1> QED
  BY <1>1, <1>2, <1>3, ApprovalKeeps DEF Next

LEMMA DeviceInvariant == Spec => []DeviceInv
BY DeviceInit, DeviceStep, PTL DEF Spec

(***************************************************************************)
(* Results                                                                 *)
(***************************************************************************)
\* Tables, logins and polls keep their shape; a login that succeeded holds a
\* key.
THEOREM TypeCorrect == Spec => []TypeOK
<1>1. DeviceInv => TypeOK
  BY DEF DeviceInv
<1> QED
  BY <1>1, DeviceInvariant, PTL

\* A key gives access to a workspace its code was approved for, whatever polls
\* overlap (device-flow.ts: the read before the await is used after it) and
\* whatever comes between the two statements of an approval; and to the only one,
\* unless both services approved the code.
THEOREM KeysAsApproved == Spec => []KeyAsApproved
<1>1. ASSUME DeviceInv PROVE KeyAsApproved
  <2> SUFFICES ASSUME NEW k \in Keys, keys[k] # NoKey
               PROVE  LET as == ApprovalsOf(keys[k].code)
                      IN  /\ keys[k].workspaceId \in {a[2] : a \in as}
                          /\ (\A a, b \in as : ByDashboard(a) <=> ByDashboard(b))
                               => {a[2] : a \in as} = {keys[k].workspaceId}
    BY DEF KeyAsApproved
  <2> DEFINE as == ApprovalsOf(keys[k].code)
  <2>1. PICK a \in as : a[2] = keys[k].workspaceId
    BY <1>1 DEF DeviceInv, KeysApproved, ApprovedFor
  <2>2. ASSUME \A b, d \in as : ByDashboard(b) <=> ByDashboard(d),
               NEW b \in as
        PROVE  b = a
    BY <1>1, <2>2 DEF DeviceInv, ApprovalsInv, ApprovalsOf
  <2> HIDE DEF as
  <2>3. QED
    BY <2>1, <2>2 DEF as
<1> QED
  BY <1>1, DeviceInvariant, PTL

\* A machine connected in the dashboard, and nowhere else, gets a key of the
\* organization of the admin who connected it (app-api app.ts:237-239).
THEOREM MachinesStayInOrg == Spec => []ConnectedInOrg
<1>1. ASSUME DeviceInv PROVE ConnectedInOrg
  <2> SUFFICES ASSUME NEW k \in Keys, NEW a \in ApprovalsOf(keys[k].code),
                      \A b \in ApprovalsOf(keys[k].code) : ByDashboard(b)
               PROVE  OrgOf[keys[k].workspaceId] = a[3]
    BY DEF ConnectedInOrg
  <2>1. a \in approvals /\ a[1] = keys[k].code /\ a[1] \in Codes
    BY <1>1, ApprovalTuples DEF ApprovalsOf, DeviceInv, TypeOK
  <2>2. keys[k] # NoKey
    BY <2>1, DeviceAssumption DEF NoKey
  <2>3. PICK b \in ApprovalsOf(keys[k].code) : b[2] = keys[k].workspaceId
    BY <1>1, <2>2 DEF DeviceInv, KeysApproved, ApprovedFor
  <2>4. a = b
    BY <1>1, <2>1 DEF DeviceInv, ApprovalsInv, ApprovalsOf
  <2> QED
    BY <1>1, <2>1, <2>3, <2>4 DEF DeviceInv, ApprovalsInv
<1> QED
  BY <1>1, DeviceInvariant, PTL

\* The key a login stores is the one the service stored for it: no poll, lost or
\* sent twice, hands out a key that another poll's takes the place of.
THEOREM LoginsHoldKeys == Spec => []LoginHoldsKey
<1>1. DeviceInv => LoginHoldsKey
  BY DEF DeviceInv
<1> QED
  BY <1>1, DeviceInvariant, PTL

=============================================================================
