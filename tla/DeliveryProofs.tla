--------------------------- MODULE DeliveryProofs ---------------------------
(***************************************************************************)
(* Theorems about the ingest service by itself, for any number of          *)
(* workspaces, keys, machines, events and requests in flight, and then     *)
(* about one computer that ships to it, for any number of shippers and     *)
(* logins: the cursor never passes an event the service does not hold,     *)
(* Delivery implements EventCollection, and what the computer ships to one *)
(* workspace is one audit chain.                                           *)
(***************************************************************************)
EXTENDS Delivery, SequenceTheorems, TLAPS

-----------------------------------------------------------------------------
(***************************************************************************)
(* Part 1: the ingest service                                              *)
(*                                                                         *)
(* Types                                                                   *)
(***************************************************************************)
LEMMA RowIsTyped ==
  ASSUME NEW e \in Events, NEW w \in Workspaces, NEW m \in Machines,
         NEW h \in Hashes
  PROVE  /\ Row(e, w, m, h) \in RowType
         /\ ComputeChainHash(h, e) \in Hashes
BY DEF Row, RowType, ComputeChainHash, Hashes

LEMMA EventsTyped ==
  ASSUME IngestTypeOK
  PROVE  /\ Len(events) \in Nat
         /\ DOMAIN events = 1 .. Len(events)
         /\ \A i \in DOMAIN events :
              /\ events[i] \in RowType
              /\ events[i].prevHash \in Hashes
              /\ events[i].chainHash \in Hashes
<1>1. events \in Seq(RowType)
  BY DEF IngestTypeOK
<1>2. \A r \in RowType : r.prevHash \in Hashes /\ r.chainHash \in Hashes
  BY DEF RowType
<1>3. \A i \in DOMAIN events : events[i] \in RowType
  BY <1>1
<1>4. QED
  BY <1>1, <1>2, <1>3

LEMMA LastChainHashTyped ==
  ASSUME IngestTypeOK, NEW w \in Workspaces
  PROVE  LastChainHash(w) \subseteq Hashes
<1>1. GenesisHash(w) \in Hashes
  BY DEF GenesisHash, Hashes
<1>2. QED
  BY <1>1, EventsTyped DEF LastChainHash, LastRow

LEMMA NoRequestTyped == NoRequest \in RequestType
BY DEF NoRequest, RequestType, Phases, Statuses

\* What every step that answers request s has to show about the requests.
LEMMA ReplyTyped ==
  ASSUME IngestTypeOK, NEW s \in Slots, NEW status \in Statuses,
         reqs[s].pc # "idle", Reply(s, status)
  PROVE  /\ reqs' \in [Slots -> RequestType]
         /\ \A t \in Slots : reqs'[t].pc # "idle" => reqs'[t].body \in Body
         /\ \A t \in Slots : reqs'[t].pc = "looping" <=> running = t /\ t # s
<1>1. "replied" \in Phases /\ reqs \in [Slots -> RequestType]
  BY DEF Phases, IngestTypeOK
<1>2. reqs' \in [Slots -> RequestType]
  BY <1>1 DEF Reply, RequestType
<1>3. /\ reqs'[s].pc = "replied"
      /\ reqs'[s].body = reqs[s].body
      /\ \A t \in Slots : t # s => reqs'[t] = reqs[t]
  BY DEF IngestTypeOK, Reply, RequestType
<1>4. QED
  BY <1>2, <1>3 DEF IngestTypeOK

LEMMA TypeInit == IngestInit => IngestTypeOK
<1> SUFFICES ASSUME IngestInit PROVE IngestTypeOK
  OBVIOUS
<1>1. NoKey \in [workspaceId : Workspaces \cup {None}, revoked : BOOLEAN]
  BY DEF NoKey
<1>2. NoMachine \in [workspaceId : Workspaces \cup {None},
                    publicKey : PublicKeys \cup {None}]
  BY DEF NoMachine
<1>3. \A s \in Slots : reqs[s].pc = "idle" /\ running # s
  BY BodiesAssumption DEF IngestInit, NoRequest
<1>4. events \in Seq(RowType) /\ prevHash \in Hashes
  BY DEF IngestInit, Hashes
<1>5. QED
  BY <1>1, <1>2, <1>3, <1>4, NoRequestTyped DEF IngestInit, IngestTypeOK

LEMMA TypeStep == IngestTypeOK /\ [IngestNext]_ingestVars => IngestTypeOK'
<1> SUFFICES ASSUME IngestTypeOK, [IngestNext]_ingestVars
             PROVE  IngestTypeOK'
  OBVIOUS
<1> USE BodiesAssumption
<1> USE NoRequestTyped
<1>1. ASSUME NEW s \in Slots, NEW body \in RequestBodies, Send(s, body)
      PROVE  IngestTypeOK'
  <2> DEFINE r == [NoRequest EXCEPT !.pc = "sent", !.body = body]
  <2>0. "sent" \in Phases /\ body \in Body
    BY DEF Phases
  <2>1. r \in RequestType /\ r.pc = "sent" /\ r.body \in Body
    BY <2>0 DEF RequestType, NoRequest
  <2>2. reqs[s].pc = "idle" /\ reqs' = [reqs EXCEPT ![s] = r]
    BY <1>1 DEF Send
  <2> HIDE DEF r
  <2>3. QED
    BY <1>1, <2>1, <2>2 DEF Send, IngestTypeOK, dbVars, loopVars
<1>2. ASSUME NEW s \in Slots, Lose(s) \/ Collect(s)
      PROVE  IngestTypeOK'
  <2>1. /\ reqs[s].pc \in {"sent", "replied"}
        /\ reqs' = [reqs EXCEPT ![s] = NoRequest]
        /\ UNCHANGED <<dbVars, loopVars>>
    BY <1>2 DEF Lose, Collect
  <2>2. NoRequest.pc = "idle"
    BY DEF NoRequest
  <2>3. QED
    BY <2>1, <2>2 DEF IngestTypeOK, dbVars, loopVars
<1>3. ASSUME NEW s \in Slots, BeginAuth(s)
      PROVE  IngestTypeOK'
  <2> DEFINE k == reqs[s].body.key
  <2>1. CASE KnownKey(k)
    <3> DEFINE a == apiKeys[k].workspaceId
    <3>1. reqs' = [reqs EXCEPT ![s].pc = "verifying", ![s].auth = a]
      BY <1>3, <2>1 DEF BeginAuth
    <3>2. k \in Keys /\ a \in Workspaces \cup {None} /\ "verifying" \in Phases
      BY <1>3 DEF BeginAuth, IngestTypeOK, Body, Phases
    <3> HIDE DEF a
    <3>3. reqs' \in [Slots -> RequestType]
      BY <3>1, <3>2 DEF IngestTypeOK, RequestType
    <3>4. /\ reqs'[s].pc = "verifying" /\ reqs[s].pc = "sent"
          /\ reqs'[s].body = reqs[s].body
          /\ \A t \in Slots : t # s => reqs'[t] = reqs[t]
      BY <1>3, <3>1 DEF BeginAuth, IngestTypeOK, RequestType
    <3>5. QED
      BY <1>3, <3>3, <3>4 DEF BeginAuth, IngestTypeOK, dbVars, loopVars
  <2>2. CASE ~KnownKey(k)
    <3>1. Reply(s, 401) /\ 401 \in Statuses /\ running = None /\ reqs[s].pc # "idle"
      BY <1>3, <2>2 DEF BeginAuth, Statuses
    <3>2. QED
      BY <1>3, <3>1, ReplyTyped DEF BeginAuth, IngestTypeOK, dbVars, loopVars
  <2>3. QED
    BY <2>1, <2>2
<1>4. ASSUME NEW s \in Slots, Register(s)
      PROVE  IngestTypeOK'
  <2> DEFINE body == reqs[s].body
  <2>1. /\ reqs[s].pc = "verifying" /\ running = None /\ body \in Body
        /\ UNCHANGED <<apiKeys, events, loopVars>>
    BY <1>4 DEF Register, IngestTypeOK
  <2>2. PICK status \in {200, 403} : Reply(s, status)
    BY <1>4 DEF Register
  <2>3. machines' \in [Machines -> [workspaceId : Workspaces \cup {None},
                                    publicKey : PublicKeys \cup {None}]]
    BY <1>4, <2>1 DEF Register, UpsertMachine, IngestTypeOK, Body
  <2>4. status \in Statuses
    BY <2>2 DEF Statuses
  <2>5. QED
    BY <2>1, <2>2, <2>3, <2>4, ReplyTyped DEF IngestTypeOK, loopVars
<1>5. ASSUME NEW s \in Slots, CheckEvents(s)
      PROVE  IngestTypeOK'
  <2> DEFINE body == reqs[s].body
  <2>1. /\ reqs[s].pc = "verifying" /\ running = None /\ body \in Body
        /\ UNCHANGED dbVars
    BY <1>5 DEF CheckEvents, IngestTypeOK
  <2>2. PICK withinLimit \in BOOLEAN :
          LET verdict == EventsVerdict(body, reqs[s].auth, withinLimit)
          IN  IF verdict # 202
              THEN Reply(s, verdict) /\ UNCHANGED loopVars
              ELSE /\ reqs' = [reqs EXCEPT ![s].pc = "looping"]
                   /\ running' = s
                   /\ nextItem' = 1
                   /\ prevHash' \in LastChainHash(body.workspaceId)
    BY <1>5 DEF CheckEvents
  <2> DEFINE verdict == EventsVerdict(body, reqs[s].auth, withinLimit)
  <2>3. verdict \in Statuses
    BY DEF EventsVerdict, Statuses
  <2>4. CASE verdict # 202
    BY <2>1, <2>2, <2>3, <2>4, ReplyTyped DEF IngestTypeOK, dbVars, loopVars
  <2>5. CASE verdict = 202
    <3>1. prevHash' \in Hashes
      BY <2>1, <2>2, <2>5, LastChainHashTyped DEF Body
    <3>2. reqs' = [reqs EXCEPT ![s].pc = "looping"] /\ "looping" \in Phases
      BY <2>2, <2>5 DEF Phases
    <3>3. reqs' \in [Slots -> RequestType]
      BY <3>2 DEF IngestTypeOK, RequestType
    <3>4. QED
      BY <2>1, <2>2, <2>5, <3>1, <3>2, <3>3, BodiesAssumption
         DEF IngestTypeOK, dbVars, RequestType
  <2>6. QED
    BY <2>4, <2>5
<1>6. ASSUME NEW s \in Slots, StoreItem(s)
      PROVE  IngestTypeOK'
  <2>1. reqs[s].body \in Body
    BY <1>6 DEF StoreItem, IngestTypeOK
  <2>2. ItemAt(s) \in Events
    BY <1>6, <2>1 DEF StoreItem, ItemAt, IngestTypeOK, Body
  <2> DEFINE row == Row(ItemAt(s), reqs[s].body.workspaceId,
                        reqs[s].body.machineId, prevHash)
  <2>3. row \in RowType /\ row.chainHash \in Hashes
    BY <2>1, <2>2, RowIsTyped DEF IngestTypeOK, Body, Row
  <2>4. events' = Append(events, row) /\ prevHash' = row.chainHash
    BY <1>6 DEF StoreItem
  <2> HIDE DEF row
  <2>5. events' \in Seq(RowType) /\ prevHash' \in Hashes
    BY <2>3, <2>4 DEF IngestTypeOK
  <2>6. QED
    BY <1>6, <2>5 DEF StoreItem, IngestTypeOK
<1>7. ASSUME NEW s \in Slots, SkipDuplicate(s)
      PROVE  IngestTypeOK'
  <2>1. ChainHashForEvent(ItemAt(s)) \subseteq Hashes
    BY EventsTyped DEF ChainHashForEvent
  <2>2. QED
    BY <1>7, <2>1 DEF SkipDuplicate, IngestTypeOK, dbVars
<1>8. ASSUME NEW s \in Slots, AcceptBatch(s)
      PROVE  IngestTypeOK'
  <2>1. /\ reqs[s].pc = "looping" /\ running = s /\ Reply(s, 202)
        /\ running' = None /\ nextItem' = 1 /\ prevHash' = << >>
        /\ UNCHANGED dbVars
    BY <1>8 DEF AcceptBatch, LeaveLoop, IngestTypeOK
  <2>2. 202 \in Statuses /\ << >> \in Hashes
    BY DEF Statuses, Hashes
  <2>3. QED
    BY <2>1, <2>2, ReplyTyped DEF IngestTypeOK, dbVars
<1>9. CASE Crash
  <2>1. << >> \in Hashes /\ NoRequest.pc = "idle"
    BY DEF Hashes, NoRequest
  <2>2. reqs' \in [Slots -> RequestType]
    BY <1>9 DEF Crash, IngestTypeOK
  <2>3. QED
    BY <1>9, <2>1, <2>2 DEF Crash, LeaveLoop, IngestTypeOK, dbVars
<1>10. ASSUME NEW k \in Keys, NEW w \in Workspaces, InsertApiKey(k, w)
       PROVE  IngestTypeOK'
  BY <1>10 DEF InsertApiKey, IngestTypeOK, loopVars
<1>11. ASSUME NEW k \in Keys, RevokeApiKey(k)
       PROVE  IngestTypeOK'
  BY <1>11 DEF RevokeApiKey, IngestTypeOK, loopVars
<1>12. ASSUME NEW s \in Slots, RefuseAfterAwait(s)
       PROVE  IngestTypeOK'
  <2>1. PICK status \in {400, 401} : Reply(s, status)
    BY <1>12 DEF RefuseAfterAwait
  <2>2. /\ status \in Statuses /\ running = None /\ reqs[s].pc # "idle"
        /\ UNCHANGED <<dbVars, loopVars>>
    BY <1>12 DEF RefuseAfterAwait, Statuses
  <2>3. QED
    BY <2>1, <2>2, ReplyTyped DEF IngestTypeOK, dbVars, loopVars
<1>13. CASE UNCHANGED ingestVars
  BY <1>13 DEF ingestVars, dbVars, loopVars, IngestTypeOK
<1>14. QED
  BY <1>1, <1>2, <1>3, <1>4, <1>5, <1>6, <1>7, <1>8, <1>9, <1>10, <1>11, <1>12, <1>13
     DEF IngestNext, Handle

\* The tables, the requests in flight and the loop variables keep their shape.
THEOREM TypeCorrect == IngestSpec => []IngestTypeOK
BY TypeInit, TypeStep, PTL DEF IngestSpec

(***************************************************************************)
(* The inductive invariant.  The rows satisfy the safety properties, and   *)
(* the loop variables carry what the next row will need:                   *)
(*   - prevHash is persisted and commits to stored events only;            *)
(*   - the items before nextItem are stored;                               *)
(*   - the machine is registered in the workspace the rows are written to. *)
(***************************************************************************)
RowsHashed ==
  \A i \in DOMAIN events :
    events[i].chainHash = ComputeChainHash(events[i].prevHash, events[i].eventId)

RowsDistinct ==
  \A i, j \in DOMAIN events : events[i].eventId = events[j].eventId => i = j

CommitsTo(h, n) ==
  \A k \in 2 .. Len(h) : \E j \in 1 .. n : events[j].eventId = h[k]

RowsCommit ==
  \A i \in DOMAIN events : CommitsTo(events[i].prevHash, i - 1)

LoopInv ==
  \A s \in Slots : running = s =>
    /\ PersistedBefore(prevHash, Len(events) + 1)
    /\ CommitsTo(prevHash, Len(events))
    /\ \A i \in DOMAIN reqs[s].body.batch :
         i < nextItem => Stored(reqs[s].body.batch[i])
    /\ machines[reqs[s].body.machineId].workspaceId = reqs[s].body.workspaceId

IngestInv ==
  /\ IngestTypeOK
  /\ RowsHashed
  /\ RowsDistinct
  /\ RowsCommit
  /\ PrevHashPersisted
  /\ RowsInMachineWorkspace
  /\ AcceptedMeansStored
  /\ LoopInv

(***************************************************************************)
(* Appending a row disturbs nothing that was said about the earlier ones.  *)
(***************************************************************************)
LEMMA AppendRow ==
  ASSUME IngestTypeOK, NEW row \in RowType, events' = Append(events, row)
  PROVE  /\ Len(events') = Len(events) + 1
         /\ DOMAIN events' = 1 .. Len(events) + 1
         /\ \A i \in DOMAIN events : events'[i] = events[i]
         /\ events'[Len(events) + 1] = row
         /\ \A e : Stored(e) => Stored(e)'
         /\ Stored(row.eventId)'
<1>1. events \in Seq(RowType)
  BY DEF IngestTypeOK
<1>2. /\ Len(events') = Len(events) + 1
      /\ DOMAIN events' = 1 .. Len(events) + 1
      /\ \A i \in 1 .. Len(events) : events'[i] = events[i]
      /\ events'[Len(events) + 1] = row
  BY <1>1
<1>3. DOMAIN events = 1 .. Len(events) /\ Len(events) \in Nat
  BY <1>1
<1>4. QED
  BY <1>2, <1>3 DEF Stored

LEMMA InvInit == IngestInit => IngestInv
<1> SUFFICES ASSUME IngestInit PROVE IngestInv
  OBVIOUS
<1>1. IngestTypeOK
  BY TypeInit
<1>2. events = << >> /\ DOMAIN events = {}
  BY DEF IngestInit
<1>3. \A s \in Slots : running # s /\ reqs[s].status # 202
  BY BodiesAssumption DEF IngestInit, NoRequest
<1>4. QED
  BY <1>1, <1>2, <1>3
     DEF IngestInv, RowsHashed, RowsDistinct, RowsCommit, PrevHashPersisted,
         RowsInMachineWorkspace, AcceptedMeansStored, LoopInv

(***************************************************************************)
(* Steps that write no row and stay outside the loop keep everything but   *)
(* what is said of answered requests.                                      *)
(***************************************************************************)
LEMMA RowsUnchanged ==
  ASSUME IngestInv, UNCHANGED <<machines, events>>
  PROVE  (RowsHashed /\ RowsDistinct /\ RowsCommit /\ PrevHashPersisted
            /\ RowsInMachineWorkspace)'
BY DEF IngestInv, RowsHashed, RowsDistinct, RowsCommit, CommitsTo,
       PrevHashPersisted, PersistedBefore, RowsInMachineWorkspace

LEMMA InvStoreItem ==
  ASSUME IngestInv, IngestTypeOK', NEW s \in Slots, StoreItem(s)
  PROVE  IngestInv'
<1>a. PICK e : e = ItemAt(s)
  OBVIOUS
<1> DEFINE body == reqs[s].body
           n    == Len(events)
           row  == Row(e, body.workspaceId, body.machineId, prevHash)
<1>1. IngestTypeOK /\ LoopInv
  BY DEF IngestInv
<1>2. /\ body \in Body /\ running = s /\ nextItem \in Nat \ {0}
      /\ nextItem <= Len(body.batch) /\ ~Stored(e) /\ prevHash \in Hashes
  BY <1>1, <1>a DEF StoreItem, IngestTypeOK
<1>3. e \in Events /\ body.workspaceId \in Workspaces /\ body.machineId \in Machines
  BY <1>a, <1>2 DEF Body, ItemAt
<1>4. row \in RowType
  BY <1>2, <1>3, RowIsTyped
<1>5. /\ events' = Append(events, row)
      /\ prevHash' = row.chainHash
      /\ nextItem' = nextItem + 1
      /\ UNCHANGED <<apiKeys, machines, reqs, running>>
  BY <1>a DEF StoreItem
<1>6. /\ row.eventId = e /\ row.workspaceId = body.workspaceId
      /\ row.machineId = body.machineId /\ row.prevHash = prevHash
      /\ row.chainHash = ComputeChainHash(prevHash, e)
  BY DEF Row
<1> HIDE DEF row
<1>7. /\ Len(events') = n + 1
      /\ DOMAIN events' = 1 .. n + 1
      /\ \A i \in DOMAIN events : events'[i] = events[i]
      /\ events'[n + 1] = row
      /\ \A x : Stored(x) => Stored(x)'
      /\ Stored(e)'
  BY <1>1, <1>4, <1>5, <1>6, AppendRow
<1>8. n \in Nat /\ DOMAIN events = 1 .. n
  BY <1>1, EventsTyped
<1>9. RowsHashed'
  BY <1>6, <1>7, <1>8 DEF IngestInv, RowsHashed
<1>10. RowsDistinct'
  <2>1. \A i \in 1 .. n : events[i].eventId # e
    BY <1>2, <1>8 DEF Stored
  <2>2. QED
    BY <2>1, <1>6, <1>7, <1>8 DEF IngestInv, RowsDistinct
<1>12. CommitsTo(prevHash, n)
  BY <1>1, <1>2 DEF LoopInv
<1>13. RowsCommit'
  <2> SUFFICES ASSUME NEW i \in DOMAIN events'
               PROVE  CommitsTo(events[i].prevHash, i - 1)'
    BY DEF RowsCommit
  <2>1. CASE i \in 1 .. n
    <3>1. CommitsTo(events[i].prevHash, i - 1)
      BY <2>1, <1>8 DEF IngestInv, RowsCommit
    <3>2. events'[i] = events[i] /\ i - 1 <= n /\ i \in Nat
      BY <2>1, <1>7, <1>8
    <3>3. \A j \in 1 .. i - 1 : events'[j] = events[j]
      BY <3>2, <1>7, <1>8
    <3>4. QED
      BY <3>1, <3>2, <3>3 DEF CommitsTo
  <2>2. CASE i = n + 1
    <3>1. events'[i].prevHash = prevHash /\ i - 1 = n
      BY <2>2, <1>6, <1>7, <1>8
    <3>2. \A j \in 1 .. n : events'[j] = events[j]
      BY <1>7, <1>8
    <3>3. QED
      BY <3>1, <3>2, <1>12 DEF CommitsTo
  <2>3. QED
    BY <2>1, <2>2, <1>7, <1>8
<1>15. PrevHashPersisted'
  <2> SUFFICES ASSUME NEW i \in DOMAIN events'
               PROVE  PersistedBefore(events[i].prevHash, i)'
    BY DEF PrevHashPersisted
  <2>1. CASE i \in 1 .. n
    BY <2>1, <1>7, <1>8 DEF IngestInv, PrevHashPersisted, PersistedBefore
  <2>2. CASE i = n + 1
    <3>1. PersistedBefore(prevHash, n + 1)
      BY <1>1, <1>2 DEF LoopInv
    <3>2. QED
      BY <3>1, <2>2, <1>6, <1>7, <1>8 DEF PersistedBefore
  <2>3. QED
    BY <2>1, <2>2, <1>7, <1>8
<1>16. RowsInMachineWorkspace'
  <2> SUFFICES ASSUME NEW i \in DOMAIN events'
               PROVE  (machines[events[i].machineId].workspaceId
                         = events[i].workspaceId)'
    BY DEF RowsInMachineWorkspace
  <2>1. CASE i \in 1 .. n
    BY <2>1, <1>5, <1>7, <1>8 DEF IngestInv, RowsInMachineWorkspace
  <2>2. CASE i = n + 1
    <3>1. machines[body.machineId].workspaceId = body.workspaceId
      BY <1>1, <1>2 DEF LoopInv
    <3>2. QED
      BY <3>1, <2>2, <1>5, <1>6, <1>7
  <2>3. QED
    BY <2>1, <2>2, <1>7
<1>17. AcceptedMeansStored'
  BY <1>5, <1>7 DEF IngestInv, AcceptedMeansStored
<1>18. LoopInv'
  <2>1. PersistedBefore(prevHash, Len(events) + 1)'
    BY <1>5, <1>7, <1>8 DEF PersistedBefore
  <2>2. CommitsTo(prevHash, Len(events))'
    <3>1. prevHash' = Append(prevHash, e)
      BY <1>5, <1>6 DEF ComputeChainHash
    <3>2. /\ Len(prevHash') = Len(prevHash) + 1
          /\ Len(prevHash) \in Nat
          /\ \A k \in 1 .. Len(prevHash) : prevHash'[k] = prevHash[k]
          /\ prevHash'[Len(prevHash) + 1] = e
      BY <3>1, <1>2 DEF Hashes
    <3>3. ASSUME NEW k \in 2 .. Len(prevHash')
          PROVE  \E j \in 1 .. n + 1 : events'[j].eventId = prevHash'[k]
      <4>1. CASE k <= Len(prevHash)
        <5>1. k \in 2 .. Len(prevHash) /\ prevHash'[k] = prevHash[k]
          BY <3>2, <4>1
        <5>2. PICK j \in 1 .. n : events[j].eventId = prevHash[k]
          BY <5>1, <1>12 DEF CommitsTo
        <5>3. events'[j].eventId = prevHash'[k] /\ j \in 1 .. n + 1
          BY <5>1, <5>2, <1>7, <1>8
        <5>4. QED
          BY <5>3
      <4>2. CASE k = Len(prevHash) + 1
        <5>1. events'[n + 1].eventId = prevHash'[k] /\ n + 1 \in 1 .. n + 1
          BY <3>2, <4>2, <1>6, <1>7, <1>8
        <5>2. QED
          BY <5>1
      <4>3. QED
        BY <3>2, <4>1, <4>2
    <3>4. QED
      BY <3>3, <1>7 DEF CommitsTo
  <2>3. \A i \in DOMAIN body.batch : i < nextItem' => Stored(body.batch[i])'
    <3> SUFFICES ASSUME NEW i \in DOMAIN body.batch, i < nextItem'
                 PROVE  Stored(body.batch[i])'
      OBVIOUS
    <3>1. i \in Nat
      BY <1>2 DEF Body
    <3>2. CASE i < nextItem
      <4>1. PICK x : x = body.batch[i]
        OBVIOUS
      <4>2. Stored(x) /\ reqs' = reqs
        BY <3>2, <4>1, <1>1, <1>2, <1>5 DEF LoopInv
      <4>3. QED
        BY <4>1, <4>2, <1>7 DEF Stored
    <3>3. CASE i = nextItem
      <4>1. body.batch[i] = e /\ reqs' = reqs
        BY <3>3, <1>a, <1>5 DEF ItemAt
      <4>2. QED
        BY <4>1, <1>7 DEF Stored
    <3>4. QED
      BY <3>1, <3>2, <3>3, <1>2, <1>5
  <2>4. QED
    BY <2>1, <2>2, <2>3, <1>1, <1>2, <1>5 DEF LoopInv
<1>19. QED
  BY <1>9, <1>10, <1>13, <1>15, <1>16, <1>17, <1>18 DEF IngestInv

LEMMA InvSkipDuplicate ==
  ASSUME IngestInv, IngestTypeOK', NEW s \in Slots, SkipDuplicate(s)
  PROVE  IngestInv'
<1>a. PICK e : e = ItemAt(s)
  OBVIOUS
<1> DEFINE body == reqs[s].body
           n    == Len(events)
<1>1. IngestTypeOK /\ LoopInv /\ running = s
  BY DEF IngestInv, SkipDuplicate
<1>2. /\ Stored(e) /\ nextItem' = nextItem + 1
      /\ prevHash' \in ChainHashForEvent(e)
      /\ UNCHANGED <<machines, events, reqs, running>>
  BY <1>a DEF SkipDuplicate, dbVars
<1>3. (RowsHashed /\ RowsDistinct /\ RowsCommit /\ PrevHashPersisted
         /\ RowsInMachineWorkspace)'
  BY <1>2, RowsUnchanged
<1>4. AcceptedMeansStored'
  BY <1>2 DEF IngestInv, AcceptedMeansStored, Stored
<1>5. PICK j \in DOMAIN events : /\ events[j].eventId = e
                                 /\ prevHash' = events[j].chainHash
  BY <1>2 DEF ChainHashForEvent
<1>6. n \in Nat /\ DOMAIN events = 1 .. n /\ events[j].prevHash \in Hashes
  BY <1>1, EventsTyped
<1>7. PersistedBefore(prevHash, Len(events) + 1)'
  BY <1>2, <1>5, <1>6 DEF PersistedBefore
<1>8. CommitsTo(prevHash, Len(events))'
  <2> DEFINE h == events[j].prevHash
  <2>1. prevHash' = Append(h, e)
    BY <1>5 DEF IngestInv, RowsHashed, ComputeChainHash
  <2>2. /\ Len(prevHash') = Len(h) + 1
        /\ Len(h) \in Nat
        /\ \A k \in 1 .. Len(h) : prevHash'[k] = h[k]
        /\ prevHash'[Len(h) + 1] = e
    BY <2>1, <1>6 DEF Hashes
  <2>3. CommitsTo(h, j - 1)
    BY DEF IngestInv, RowsCommit
  <2>4. ASSUME NEW k \in 2 .. Len(prevHash')
        PROVE  \E i \in 1 .. n : events[i].eventId = prevHash'[k]
    <3>1. CASE k <= Len(h)
      <4>1. k \in 2 .. Len(h) /\ prevHash'[k] = h[k]
        BY <2>2, <3>1
      <4>2. PICK i \in 1 .. j - 1 : events[i].eventId = h[k]
        BY <4>1, <2>3 DEF CommitsTo
      <4>3. i \in 1 .. n
        BY <1>5, <1>6
      <4>4. QED
        BY <4>1, <4>2, <4>3
    <3>2. CASE k = Len(h) + 1
      BY <2>2, <3>2, <1>5, <1>6
    <3>3. QED
      BY <2>2, <3>1, <3>2
  <2>5. QED
    BY <2>4, <1>2 DEF CommitsTo
<1>9. \A i \in DOMAIN body.batch : i < nextItem' => Stored(body.batch[i])'
  <2> SUFFICES ASSUME NEW i \in DOMAIN body.batch, i < nextItem'
               PROVE  Stored(body.batch[i])
    BY <1>2 DEF Stored
  <2>1. body \in Body /\ nextItem \in Nat
    BY <1>1 DEF IngestTypeOK, SkipDuplicate
  <2>2. i \in Nat
    BY <2>1 DEF Body
  <2>3. CASE i < nextItem
    BY <2>3, <1>1 DEF LoopInv
  <2>4. CASE i = nextItem
    BY <2>4, <1>a, <1>2 DEF ItemAt
  <2>5. QED
    BY <2>1, <2>2, <2>3, <2>4, <1>2
<1>10. LoopInv'
  BY <1>1, <1>2, <1>7, <1>8, <1>9 DEF LoopInv
<1>11. QED
  BY <1>3, <1>4, <1>10 DEF IngestInv

(***************************************************************************)
(* Steps outside the loop: no row is written, machines keep the workspace  *)
(* they have, and no request joins or leaves the loop unless the step      *)
(* establishes what the loop relies on.                                    *)
(***************************************************************************)
LEMMA QuietRows ==
  ASSUME IngestInv, UNCHANGED events,
         \A m \in Machines : machines[m].workspaceId # None =>
                             machines'[m].workspaceId = machines[m].workspaceId
  PROVE  (RowsHashed /\ RowsDistinct /\ RowsCommit /\ PrevHashPersisted
            /\ RowsInMachineWorkspace)'
<1>1. (RowsHashed /\ RowsDistinct /\ RowsCommit /\ PrevHashPersisted)'
  BY DEF IngestInv, RowsHashed, RowsDistinct, RowsCommit, CommitsTo,
         PrevHashPersisted, PersistedBefore
<1>2. \A i \in DOMAIN events : events[i].machineId \in Machines
                              /\ events[i].workspaceId \in Workspaces
  BY EventsTyped DEF IngestInv, RowType
<1>3. RowsInMachineWorkspace'
  BY <1>2, BodiesAssumption DEF IngestInv, RowsInMachineWorkspace
<1>4. QED
  BY <1>1, <1>3

LEMMA QuietRequests ==
  ASSUME IngestInv, UNCHANGED events,
         \A s \in Slots : reqs'[s].status = 202 => reqs'[s] = reqs[s]
  PROVE  AcceptedMeansStored'
BY DEF IngestInv, AcceptedMeansStored, Stored

LEMMA QuietLoop ==
  ASSUME IngestInv, UNCHANGED <<machines, events, loopVars>>,
         \A s \in Slots : running = s => reqs'[s] = reqs[s]
  PROVE  LoopInv'
BY DEF IngestInv, LoopInv, PersistedBefore, CommitsTo, Stored, loopVars

LEMMA NotRunningLoop ==
  ASSUME running' = None
  PROVE  LoopInv'
BY BodiesAssumption DEF LoopInv

\* A request answered with another status than 202 says nothing of the rows.
LEMMA QuietReply ==
  ASSUME IngestInv, UNCHANGED events, NEW s \in Slots,
         NEW status \in Statuses \ {202}, Reply(s, status)
  PROVE  AcceptedMeansStored'
<1>1. \A t \in Slots : reqs'[t].status = 202 => reqs'[t] = reqs[t]
  BY DEF Reply, IngestInv, IngestTypeOK, RequestType
<1>2. QED
  BY <1>1, QuietRequests

LEMMA InvCheckEvents ==
  ASSUME IngestInv, IngestTypeOK', NEW s \in Slots, CheckEvents(s)
  PROVE  IngestInv'
<1>1. PICK body : body = reqs[s].body
  OBVIOUS
<1>2. /\ IngestTypeOK /\ running = None /\ reqs[s].pc = "verifying"
      /\ body \in Body /\ UNCHANGED dbVars
  BY <1>1 DEF IngestInv, IngestTypeOK, CheckEvents
<1>3. PICK withinLimit \in BOOLEAN :
        LET verdict == EventsVerdict(body, reqs[s].auth, withinLimit)
        IN  IF verdict # 202
            THEN Reply(s, verdict) /\ UNCHANGED loopVars
            ELSE /\ reqs' = [reqs EXCEPT ![s].pc = "looping"]
                 /\ running' = s
                 /\ nextItem' = 1
                 /\ prevHash' \in LastChainHash(body.workspaceId)
  BY <1>1 DEF CheckEvents
<1>4. (RowsHashed /\ RowsDistinct /\ RowsCommit /\ PrevHashPersisted
         /\ RowsInMachineWorkspace)'
  BY <1>2, RowsUnchanged DEF dbVars
<1>5. CASE EventsVerdict(body, reqs[s].auth, withinLimit) # 202
  <2>1. EventsVerdict(body, reqs[s].auth, withinLimit) \in Statuses \ {202}
    BY <1>5 DEF EventsVerdict, Statuses
  <2>2. AcceptedMeansStored'
    BY <1>2, <1>3, <1>5, <2>1, QuietReply DEF dbVars
  <2>3. running' = None
    BY <1>2, <1>3, <1>5 DEF loopVars
  <2>4. QED
    BY <1>4, <2>2, <2>3, NotRunningLoop DEF IngestInv
<1>6. CASE EventsVerdict(body, reqs[s].auth, withinLimit) = 202
  <2>1. /\ reqs' = [reqs EXCEPT ![s].pc = "looping"]
        /\ running' = s /\ nextItem' = 1
        /\ prevHash' \in LastChainHash(body.workspaceId)
    BY <1>3, <1>6
  <2>2. machines[body.machineId].workspaceId = body.workspaceId
    BY <1>6 DEF EventsVerdict
  <2>3. /\ reqs'[s].body = body
        /\ \A t \in Slots : reqs'[t].status = reqs[t].status
                           /\ reqs'[t].body = reqs[t].body
    BY <1>1, <1>2, <2>1 DEF IngestTypeOK, RequestType
  <2>4. AcceptedMeansStored'
    BY <1>2, <2>3 DEF IngestInv, AcceptedMeansStored, Stored, dbVars
  <2>5. /\ PersistedBefore(prevHash, Len(events) + 1)'
        /\ CommitsTo(prevHash, Len(events))'
    <3>1. CASE LastRow(body.workspaceId) = {}
      <4>1. prevHash' = << body.workspaceId >> /\ body.workspaceId \in Workspaces
        BY <1>2, <2>1, <3>1 DEF LastChainHash, GenesisHash, Body
      <4>2. QED
        BY <4>1 DEF PersistedBefore, CommitsTo, GenesisHash
    <3>2. CASE LastRow(body.workspaceId) # {}
      <4>1. PICK i \in DOMAIN events : prevHash' = events[i].chainHash
        BY <2>1, <3>2 DEF LastChainHash, LastRow
      <4>2. /\ Len(events) \in Nat /\ DOMAIN events = 1 .. Len(events)
            /\ events[i].prevHash \in Hashes /\ events' = events
        BY <1>2, EventsTyped DEF dbVars
      <4>3. PersistedBefore(prevHash, Len(events) + 1)'
        BY <4>1, <4>2 DEF PersistedBefore
      <4> DEFINE h == events[i].prevHash
      <4>4. prevHash' = Append(h, events[i].eventId)
        BY <4>1 DEF IngestInv, RowsHashed, ComputeChainHash
      <4>5. /\ Len(prevHash') = Len(h) + 1
            /\ Len(h) \in Nat
            /\ \A k \in 1 .. Len(h) : prevHash'[k] = h[k]
            /\ prevHash'[Len(h) + 1] = events[i].eventId
        BY <4>2, <4>4 DEF Hashes
      <4>6. CommitsTo(h, i - 1)
        BY DEF IngestInv, RowsCommit
      <4>7. ASSUME NEW k \in 2 .. Len(prevHash')
            PROVE  \E j \in 1 .. Len(events) : events[j].eventId = prevHash'[k]
        <5>1. CASE k <= Len(h)
          <6>1. k \in 2 .. Len(h) /\ prevHash'[k] = h[k]
            BY <4>5, <5>1
          <6>2. PICK j \in 1 .. i - 1 : events[j].eventId = h[k]
            BY <6>1, <4>6 DEF CommitsTo
          <6>3. j \in 1 .. Len(events)
            BY <4>2
          <6>4. QED
            BY <6>1, <6>2, <6>3
        <5>2. CASE k = Len(h) + 1
          BY <4>2, <4>5, <5>2
        <5>3. QED
          BY <4>5, <5>1, <5>2
      <4>8. QED
        BY <4>2, <4>3, <4>7 DEF CommitsTo
    <3>3. QED
      BY <3>1, <3>2
  <2>6. \A i \in DOMAIN body.batch : ~(i < 1)
    BY <1>2 DEF Body
  <2>7. LoopInv'
    BY <1>2, <2>1, <2>2, <2>3, <2>5, <2>6 DEF LoopInv, dbVars
  <2>8. QED
    BY <1>4, <2>4, <2>7 DEF IngestInv
<1>7. QED
  BY <1>5, <1>6

LEMMA InvAcceptBatch ==
  ASSUME IngestInv, IngestTypeOK', NEW s \in Slots, AcceptBatch(s)
  PROVE  IngestInv'
<1>1. /\ IngestTypeOK /\ LoopInv /\ running = s /\ Reply(s, 202)
      /\ nextItem > Len(reqs[s].body.batch) /\ UNCHANGED dbVars /\ running' = None
  BY DEF IngestInv, AcceptBatch, LeaveLoop
<1>2. (RowsHashed /\ RowsDistinct /\ RowsCommit /\ PrevHashPersisted
         /\ RowsInMachineWorkspace)'
  BY <1>1, RowsUnchanged DEF dbVars
<1>3. \A i \in DOMAIN reqs[s].body.batch : Stored(reqs[s].body.batch[i])
  <2>1. reqs[s].body \in Body /\ nextItem \in Nat
    BY <1>1 DEF IngestTypeOK
  <2>2. \A i \in DOMAIN reqs[s].body.batch : i < nextItem
    BY <1>1, <2>1 DEF Body
  <2>3. QED
    BY <1>1, <2>2 DEF LoopInv
<1>4. /\ reqs'[s].body = reqs[s].body
      /\ \A t \in Slots : t # s => reqs'[t] = reqs[t]
  BY <1>1 DEF Reply, IngestTypeOK, RequestType
<1>5. AcceptedMeansStored'
  <2> SUFFICES ASSUME NEW t \in Slots, (reqs[t].status = 202)',
                      NEW i \in DOMAIN reqs'[t].body.batch
               PROVE  Stored(reqs[t].body.batch[i])'
    BY DEF AcceptedMeansStored
  <2>1. Stored(reqs'[t].body.batch[i])
    BY <1>3, <1>4 DEF IngestInv, AcceptedMeansStored
  <2>2. QED
    BY <1>1, <2>1 DEF Stored, dbVars
<1>6. QED
  BY <1>1, <1>2, <1>5, NotRunningLoop DEF IngestInv

LEMMA InvStep == IngestInv /\ [IngestNext]_ingestVars => IngestInv'
<1> SUFFICES ASSUME IngestInv, [IngestNext]_ingestVars
             PROVE  IngestInv'
  OBVIOUS
<1>0. IngestTypeOK /\ IngestTypeOK'
  BY TypeStep DEF IngestInv
<1>1. ASSUME NEW s \in Slots, NEW body \in RequestBodies, Send(s, body)
      PROVE  IngestInv'
  <2>1. /\ reqs[s].pc = "idle" /\ UNCHANGED <<dbVars, loopVars>>
        /\ \A t \in Slots : t # s => reqs'[t] = reqs[t]
        /\ reqs'[s].status = 0
    BY <1>0, <1>1 DEF Send, IngestTypeOK, NoRequest
  <2>2. UNCHANGED <<machines, events, loopVars>> /\ running # s
    BY <1>0, <2>1 DEF dbVars, IngestTypeOK
  <2>3. \A t \in Slots : reqs'[t].status = 202 => reqs'[t] = reqs[t]
    BY <2>1
  <2>4. \A t \in Slots : running = t => reqs'[t] = reqs[t]
    BY <2>1, <2>2
  <2>5. QED
    BY <1>0, <2>2, <2>3, <2>4, RowsUnchanged, QuietRequests, QuietLoop
       DEF IngestInv
<1>2. ASSUME NEW s \in Slots, Lose(s) \/ Collect(s)
      PROVE  IngestInv'
  <2>1. /\ reqs[s].pc \in {"sent", "replied"} /\ UNCHANGED <<dbVars, loopVars>>
        /\ \A t \in Slots : t # s => reqs'[t] = reqs[t]
        /\ reqs'[s].status = 0
    BY <1>0, <1>2 DEF Lose, Collect, IngestTypeOK, NoRequest
  <2>2. UNCHANGED <<machines, events, loopVars>> /\ running # s
    BY <1>0, <2>1 DEF dbVars, IngestTypeOK
  <2>3. \A t \in Slots : reqs'[t].status = 202 => reqs'[t] = reqs[t]
    BY <2>1
  <2>4. \A t \in Slots : running = t => reqs'[t] = reqs[t]
    BY <2>1, <2>2
  <2>5. QED
    BY <1>0, <2>2, <2>3, <2>4, RowsUnchanged, QuietRequests, QuietLoop
       DEF IngestInv
<1>3. ASSUME NEW s \in Slots, BeginAuth(s)
      PROVE  IngestInv'
  <2>1. running = None /\ UNCHANGED <<dbVars, loopVars>>
    BY <1>3 DEF BeginAuth
  <2>2. UNCHANGED <<machines, events>> /\ running' = None
    BY <2>1 DEF dbVars, loopVars
  <2>3. AcceptedMeansStored'
    <3>1. CASE reqs' = [reqs EXCEPT ![s].pc = "verifying",
                          ![s].auth = apiKeys[reqs[s].body.key].workspaceId]
      <4>1. \A t \in Slots : /\ reqs'[t].status = reqs[t].status
                             /\ reqs'[t].body = reqs[t].body
        BY <1>0, <3>1 DEF IngestTypeOK, RequestType
      <4>2. QED
        BY <4>1, <2>2 DEF IngestInv, AcceptedMeansStored, Stored
    <3>2. CASE Reply(s, 401)
      <4>1. 401 \in Statuses \ {202}
        BY DEF Statuses
      <4>2. QED
        BY <4>1, <3>2, <2>2, QuietReply
    <3>3. QED
      BY <1>3, <3>1, <3>2 DEF BeginAuth
  <2>4. QED
    BY <1>0, <2>2, <2>3, RowsUnchanged, NotRunningLoop DEF IngestInv
<1>4. ASSUME NEW s \in Slots, Register(s)
      PROVE  IngestInv'
  <2>1. running' = None /\ UNCHANGED events
    BY <1>4 DEF Register, loopVars
  <2>2. PICK status \in {200, 403} : Reply(s, status)
    BY <1>4 DEF Register
  <2>3. status \in Statuses \ {202}
    BY <2>2 DEF Statuses
  <2>4. \A m \in Machines : machines[m].workspaceId # None =>
                            machines'[m].workspaceId = machines[m].workspaceId
    BY <1>0, <1>4 DEF Register, UpsertMachine, IngestTypeOK
  <2>5. AcceptedMeansStored'
    BY <2>1, <2>2, <2>3, QuietReply
  <2>6. QED
    BY <1>0, <2>1, <2>4, <2>5, QuietRows, NotRunningLoop DEF IngestInv
<1>5. ASSUME NEW s \in Slots, CheckEvents(s)
      PROVE  IngestInv'
  BY <1>0, <1>5, InvCheckEvents
<1>6. ASSUME NEW s \in Slots, StoreItem(s)
      PROVE  IngestInv'
  BY <1>0, <1>6, InvStoreItem
<1>7. ASSUME NEW s \in Slots, SkipDuplicate(s)
      PROVE  IngestInv'
  BY <1>0, <1>7, InvSkipDuplicate
<1>8. ASSUME NEW s \in Slots, AcceptBatch(s)
      PROVE  IngestInv'
  BY <1>0, <1>8, InvAcceptBatch
<1>9. CASE Crash
  <2>1. UNCHANGED dbVars /\ running' = None
    BY <1>9 DEF Crash, LeaveLoop
  <2>2. UNCHANGED <<machines, events>>
    BY <2>1 DEF dbVars
  <2>3. \A t \in Slots : reqs'[t].status = 202 => reqs'[t] = reqs[t]
    BY <1>9 DEF Crash, NoRequest
  <2>4. QED
    BY <1>0, <2>1, <2>2, <2>3, RowsUnchanged, QuietRequests, NotRunningLoop
       DEF IngestInv
<1>10. CASE \E k \in Keys : \/ \E w \in Workspaces : InsertApiKey(k, w)
                            \/ RevokeApiKey(k)
  <2>1. UNCHANGED <<machines, events, reqs, loopVars>>
    BY <1>10 DEF InsertApiKey, RevokeApiKey
  <2>2. QED
    BY <1>0, <2>1, RowsUnchanged, QuietRequests, QuietLoop DEF IngestInv
<1>11. ASSUME NEW s \in Slots, RefuseAfterAwait(s)
       PROVE  IngestInv'
  <2>1. PICK status \in {400, 401} : Reply(s, status)
    BY <1>11 DEF RefuseAfterAwait
  <2>2. status \in Statuses \ {202} /\ UNCHANGED <<machines, events>> /\ running' = None
    BY <1>11 DEF RefuseAfterAwait, Statuses, dbVars, loopVars
  <2>3. AcceptedMeansStored'
    BY <2>1, <2>2, QuietReply
  <2>4. QED
    BY <1>0, <2>2, <2>3, RowsUnchanged, NotRunningLoop DEF IngestInv
<1>12. CASE UNCHANGED ingestVars
  <2>1. UNCHANGED <<machines, events, reqs, loopVars>>
    BY <1>12 DEF ingestVars, dbVars
  <2>2. QED
    BY <1>0, <2>1, RowsUnchanged, QuietRequests, QuietLoop DEF IngestInv
<1>13. QED
  BY <1>1, <1>2, <1>3, <1>4, <1>5, <1>6, <1>7, <1>8, <1>9, <1>10, <1>11, <1>12
     DEF IngestNext, Handle

LEMMA InvCorrect == IngestSpec => []IngestInv
BY InvInit, InvStep, PTL DEF IngestSpec

(***************************************************************************)
(* The safety properties, for every value of the constants.                *)
(***************************************************************************)

\* However batches are retried, overlap, interleave between machines or are cut
\* short by a crash, every row of the chain is hashed onto a hash that was in
\* the database before it (the batch loop of POST /v1/events).
THEOREM ChainedToPersisted == IngestSpec => []PrevHashPersisted
BY InvCorrect, PTL DEF IngestInv

\* An answer 202 to POST /v1/events is given only once each event of the batch
\* is a row of the events table, inserted by this request or an earlier one.
THEOREM AcceptanceIsDurable == IngestSpec => []AcceptedMeansStored
BY InvCorrect, PTL DEF IngestInv

\* Tenant isolation: a row is only ever written into the workspace its machine
\* is registered in, whoever registers the machine id again afterwards.
THEOREM TenantIsolation == IngestSpec => []RowsInMachineWorkspace
BY InvCorrect, PTL DEF IngestInv

\* The prevHash of a row commits to events of earlier rows only, of whatever
\* workspace, none of them the row's own event: the chain is acyclic and refers to
\* stored history (the batch loop of POST /v1/events).
THEOREM ChainAcyclic == IngestSpec => []ChainIsHistory
<1>1. IngestInv => ChainIsHistory
  <2> SUFFICES ASSUME IngestInv, NEW i \in DOMAIN events,
                      NEW n \in 2 .. Len(events[i].prevHash)
               PROVE  \E j \in 1 .. i - 1 :
                        /\ events[j].eventId = events[i].prevHash[n]
                        /\ events[j].eventId # events[i].eventId
    BY DEF ChainIsHistory
  <2>1. PICK j \in 1 .. i - 1 : events[j].eventId = events[i].prevHash[n]
    BY DEF IngestInv, RowsCommit, CommitsTo
  <2>2. DOMAIN events = 1 .. Len(events) /\ Len(events) \in Nat
    BY EventsTyped DEF IngestInv
  <2>3. j \in DOMAIN events /\ j # i
    BY <2>2
  <2>4. events[j].eventId # events[i].eventId
    BY <2>3 DEF IngestInv, RowsDistinct
  <2>5. QED
    BY <2>1, <2>4
<1>2. QED
  BY <1>1, InvCorrect, PTL

-----------------------------------------------------------------------------
(***************************************************************************)
(* Part 2: one computer and the service                                    *)
(***************************************************************************)

(***************************************************************************)
(* Logs, as pure operators: l is a log of which the service holds the      *)
(* first n events.                                                         *)
(***************************************************************************)
Distinct(l) == \A i, j \in 1 .. Len(l) : l[i] = l[j] => i = j

\* The event e is among those the service holds.
Held(e, l, n) == \E i \in 1 .. n : l[i] = e

\* A cursor that covers only events the service holds.
Covers(c, l, n) == c = None \/ Held(c, l, n)

\* q is a stretch of the log that leaves no gap after what the service holds.
Stretch(q, l, n) ==
  \E a \in 0 .. n : /\ a + Len(q) <= Len(l)
                    /\ \A i \in 1 .. Len(q) : q[i] = l[a + i]

\* IndexAfter over a given log.
After(c, l) ==
  IF \E i \in DOMAIN l : l[i] = c THEN 1 + CHOOSE i \in DOMAIN l : l[i] = c ELSE 1

\* A log that stays or gets one more event.
Grows(l, m) == \/ m = l
               \/ \E e \in Events : ~Held(e, l, Len(l)) /\ m = Append(l, e)

LEMMA GrownLog ==
  ASSUME NEW l \in Seq(Events), NEW m, Grows(l, m), Distinct(l)
  PROVE  /\ m \in Seq(Events)
         /\ Len(l) <= Len(m)
         /\ \A i \in 1 .. Len(l) : m[i] = l[i]
         /\ Distinct(m)
<1>1. CASE m = l
  BY <1>1
<1>2. CASE m # l
  <2>1. PICK e \in Events : ~Held(e, l, Len(l)) /\ m = Append(l, e)
    BY <1>2 DEF Grows
  <2>2. /\ m \in Seq(Events) /\ Len(m) = Len(l) + 1 /\ Len(l) \in Nat
        /\ \A i \in 1 .. Len(l) : m[i] = l[i]
        /\ m[Len(l) + 1] = e
    BY <2>1
  <2>3. \A i \in 1 .. Len(l) : l[i] # e
    BY <2>1 DEF Held
  <2>4. Distinct(m)
    BY <2>2, <2>3 DEF Distinct
  <2>5. QED
    BY <2>2, <2>4
<1>3. QED
  BY <1>1, <1>2

\* What is said of stretches and cursors stays true as log and database grow.
LEMMA GrowthKeeps ==
  ASSUME NEW l \in Seq(Events), NEW m, Grows(l, m), Distinct(l),
         NEW n \in 0 .. Len(l), NEW k \in Nat, n <= k
  PROVE  /\ \A e : Held(e, l, n) => Held(e, m, k)
         /\ \A c : Covers(c, l, n) => Covers(c, m, k)
         /\ \A q \in Seq(Events) : Stretch(q, l, n) => Stretch(q, m, k)
<1>1. Len(l) \in Nat /\ Len(m) \in Nat /\ Len(l) <= Len(m) /\ \A i \in 1 .. Len(l) : m[i] = l[i]
  BY GrownLog
<1>2. \A e : Held(e, l, n) => Held(e, m, k)
  BY <1>1 DEF Held
<1>3. ASSUME NEW q \in Seq(Events), Stretch(q, l, n)
      PROVE  Stretch(q, m, k)
  <2>1. PICK a \in 0 .. n : /\ a + Len(q) <= Len(l)
                            /\ \A i \in 1 .. Len(q) : q[i] = l[a + i]
    BY <1>3 DEF Stretch
  <2>2. \A i \in 1 .. Len(q) : a + i \in 1 .. Len(l)
    BY <1>1, <2>1
  <2>3. \A i \in 1 .. Len(q) : q[i] = m[a + i]
    BY <1>1, <2>1, <2>2
  <2>4. a \in 0 .. k /\ a + Len(q) <= Len(m)
    BY <1>1, <2>1
  <2>5. QED
    BY <2>3, <2>4 DEF Stretch
<1>4. QED
  BY <1>2, <1>3 DEF Covers

\* A cursor points into what the service holds, or before it.
LEMMA AfterCursor ==
  ASSUME NEW l \in Seq(Events), Distinct(l), NEW n \in 0 .. Len(l), NEW c, Covers(c, l, n)
  PROVE  After(c, l) \in 1 .. n + 1
<1>1. CASE c = None
  <2>1. \A i \in DOMAIN l : l[i] # None
    BY DeliveryAssumption
  <2>2. After(c, l) = 1
    BY <1>1, <2>1 DEF After
  <2>3. QED
    BY <2>2
<1>2. CASE Held(c, l, n)
  <2>1. PICK i \in 1 .. n : l[i] = c
    BY <1>2 DEF Held
  <2>2. DOMAIN l = 1 .. Len(l) /\ i \in DOMAIN l
    BY <2>1
  <2>3. \A j \in DOMAIN l : l[j] = c => j = i
    BY <2>1, <2>2 DEF Distinct
  <2>4. (CHOOSE j \in DOMAIN l : l[j] = c) = i
    BY <2>1, <2>2, <2>3
  <2>5. After(c, l) = 1 + i
    BY <2>1, <2>2, <2>4 DEF After
  <2>6. QED
    BY <2>1, <2>5
<1>3. QED
  BY <1>1, <1>2 DEF Covers

\* A new event at the end of the log moves no cursor.
LEMMA AfterKept ==
  ASSUME NEW l \in Seq(Events), Distinct(l), NEW n \in 0 .. Len(l), NEW c, Covers(c, l, n),
         NEW m, Grows(l, m)
  PROVE  After(c, m) = After(c, l)
<1>1. /\ m \in Seq(Events) /\ Len(l) <= Len(m) /\ Len(l) \in Nat /\ Len(m) \in Nat
      /\ \A i \in 1 .. Len(l) : m[i] = l[i]
      /\ Distinct(m)
  BY GrownLog
<1>2. DOMAIN l = 1 .. Len(l) /\ DOMAIN m = 1 .. Len(m)
  BY <1>1
<1>3. CASE c = None
  <2>1. \A i \in DOMAIN l : l[i] # None
    BY DeliveryAssumption
  <2>2. \A i \in DOMAIN m : m[i] # None
    BY <1>1, DeliveryAssumption
  <2>3. QED
    BY <1>3, <2>1, <2>2 DEF After
<1>4. CASE Held(c, l, n)
  <2>1. PICK i \in 1 .. n : l[i] = c
    BY <1>4 DEF Held
  <2>2. i \in DOMAIN l /\ i \in DOMAIN m /\ m[i] = c
    BY <1>1, <1>2, <2>1
  <2>3. \A j \in DOMAIN l : l[j] = c => j = i
    BY <1>2, <2>1, <2>2 DEF Distinct
  <2>4. \A j \in DOMAIN m : m[j] = c => j = i
    BY <1>1, <1>2, <2>2 DEF Distinct
  <2>5. /\ (CHOOSE j \in DOMAIN l : l[j] = c) = i
        /\ (CHOOSE j \in DOMAIN m : m[j] = c) = i
    BY <2>1, <2>2, <2>3, <2>4
  <2>6. QED
    BY <2>1, <2>2, <2>5 DEF After
<1>5. QED
  BY <1>3, <1>4 DEF Covers

\* What lies after the cursor is a stretch.
LEMMA RestOfLog ==
  ASSUME NEW l \in Seq(Events), NEW n \in 0 .. Len(l), NEW k \in 1 .. n + 1
  PROVE  /\ SubSeq(l, k, Len(l)) \in Seq(Events)
         /\ Stretch(SubSeq(l, k, Len(l)), l, n)
<1> DEFINE q == SubSeq(l, k, Len(l))
<1>1. Len(l) \in Nat /\ k \in 1 .. Len(l) + 1
  OBVIOUS
<1>2. /\ q \in Seq(Events)
      /\ Len(q) = Len(l) - k + 1
      /\ \A i \in 1 .. Len(q) : q[i] = l[k + i - 1]
  BY <1>1, SubSeqProperties
<1>3. k - 1 \in 0 .. n /\ (k - 1) + Len(q) <= Len(l)
  BY <1>1, <1>2
<1>4. \A i \in 1 .. Len(q) : q[i] = l[(k - 1) + i]
  BY <1>1, <1>2
<1> HIDE DEF q
<1>5. Stretch(q, l, n)
  BY <1>3, <1>4 DEF Stretch
<1>6. QED
  BY <1>2, <1>5 DEF q

\* A batch is what a stretch begins with; the rest follows it.
LEMMA Batches ==
  ASSUME NEW q \in Seq(Events), q # << >>
  PROVE  /\ BatchLen(q) \in 1 .. Len(q)
         /\ Batch(q) \in Seq(Events) /\ Len(Batch(q)) = BatchLen(q)
         /\ \A i \in 1 .. BatchLen(q) : Batch(q)[i] = q[i]
         /\ Rest(q) \in Seq(Events) /\ Len(Rest(q)) = Len(q) - BatchLen(q)
         /\ \A i \in 1 .. Len(Rest(q)) : Rest(q)[i] = q[BatchLen(q) + i]
<1> DEFINE b == BatchLen(q)
<1>1. Len(q) \in Nat /\ Len(q) # 0
  BY EmptySeq
<1>2. b \in 1 .. Len(q)
  BY <1>1, DeliveryAssumption DEF BatchLen
<1> HIDE DEF b
<1>3. /\ SubSeq(q, 1, b) \in Seq(Events) /\ Len(SubSeq(q, 1, b)) = b
      /\ \A i \in 1 .. b : SubSeq(q, 1, b)[i] = q[i]
  BY <1>1, <1>2, SubSeqProperties
<1>4. /\ SubSeq(q, b + 1, Len(q)) \in Seq(Events)
      /\ Len(SubSeq(q, b + 1, Len(q))) = Len(q) - b
      /\ \A i \in 1 .. Len(q) - b : SubSeq(q, b + 1, Len(q))[i] = q[b + i]
  BY <1>1, <1>2, SubSeqProperties
<1>5. Batch(q) = SubSeq(q, 1, b) /\ Rest(q) = SubSeq(q, b + 1, Len(q))
  BY DEF Batch, Rest, b
<1>6. QED
  BY <1>2, <1>3, <1>4, <1>5 DEF b

LEMMA BatchIsStretch ==
  ASSUME NEW l \in Seq(Events), NEW n \in 0 .. Len(l), NEW q \in Seq(Events), q # << >>,
         Stretch(q, l, n)
  PROVE  Stretch(Batch(q), l, n)
<1>1. PICK a \in 0 .. n : /\ a + Len(q) <= Len(l)
                          /\ \A i \in 1 .. Len(q) : q[i] = l[a + i]
  BY DEF Stretch
<1>2. /\ BatchLen(q) \in 1 .. Len(q) /\ Len(Batch(q)) = BatchLen(q)
      /\ \A i \in 1 .. BatchLen(q) : Batch(q)[i] = q[i]
  BY Batches
<1>3. PICK k \in 1 .. Len(q) : k = BatchLen(q)
  BY <1>2
<1>4. Len(q) \in Nat /\ Len(l) \in Nat
  OBVIOUS
<1>5. a + Len(Batch(q)) <= Len(l)
  BY <1>1, <1>2, <1>3, <1>4
<1>6. \A i \in 1 .. Len(Batch(q)) : Batch(q)[i] = l[a + i]
  <2> TAKE i \in 1 .. Len(Batch(q))
  <2>1. i \in 1 .. BatchLen(q) /\ i \in 1 .. Len(q)
    BY <1>2, <1>3, <1>4
  <2>2. QED
    BY <1>1, <1>2, <2>1
<1>7. QED
  BY <1>5, <1>6 DEF Stretch

\* Once the service holds a batch, its last event is a good cursor, and what
\* follows is a stretch again.
LEMMA AcceptedBatch ==
  ASSUME NEW l \in Seq(Events), Distinct(l), NEW n \in 0 .. Len(l),
         NEW q \in Seq(Events), q # << >>, Stretch(q, l, n),
         \A i \in DOMAIN Batch(q) : Held(Batch(q)[i], l, n)
  PROVE  /\ q[BatchLen(q)] \in Events
         /\ Covers(q[BatchLen(q)], l, n)
         /\ Stretch(Rest(q), l, n)
<1> DEFINE b == BatchLen(q)
<1>1. PICK a \in 0 .. n : /\ a + Len(q) <= Len(l)
                          /\ \A i \in 1 .. Len(q) : q[i] = l[a + i]
  BY DEF Stretch
<1>2. /\ b \in 1 .. Len(q) /\ Len(q) \in Nat
      /\ Batch(q) \in Seq(Events) /\ Len(Batch(q)) = b /\ Batch(q)[b] = q[b]
      /\ Len(Rest(q)) = Len(q) - b
      /\ \A i \in 1 .. Len(Rest(q)) : Rest(q)[i] = q[b + i]
  BY Batches
<1> HIDE DEF b
<1>3. b \in DOMAIN Batch(q)
  BY <1>2
<1>4. Held(q[b], l, n)
  BY <1>2, <1>3
<1>5. a + b <= n
  <2>1. PICK j \in 1 .. n : l[j] = q[b]
    BY <1>4 DEF Held
  <2>2. a + b \in 1 .. Len(l) /\ j \in 1 .. Len(l) /\ l[a + b] = l[j]
    BY <1>1, <1>2, <2>1
  <2>3. QED
    BY <2>1, <2>2 DEF Distinct
<1>6. a + b \in 0 .. n /\ (a + b) + Len(Rest(q)) <= Len(l)
  BY <1>1, <1>2, <1>5
<1>7. \A i \in 1 .. Len(Rest(q)) : Rest(q)[i] = l[(a + b) + i]
  BY <1>1, <1>2
<1>8. Stretch(Rest(q), l, n)
  BY <1>6, <1>7 DEF Stretch
<1>9. q[b] \in Events
  BY <1>2
<1>10. QED
  BY <1>4, <1>8, <1>9 DEF b, Covers

\* The first item of a batch the service does not hold is the one it lacks next.
LEMMA NextItem ==
  ASSUME NEW l \in Seq(Events), Distinct(l), NEW n \in 0 .. Len(l),
         NEW b \in Seq(Events), Stretch(b, l, n), NEW k \in 1 .. Len(b),
         \A i \in 1 .. Len(b) : i < k => Held(b[i], l, n),
         ~Held(b[k], l, n)
  PROVE  n < Len(l) /\ b[k] = l[n + 1]
<1>1. PICK a \in 0 .. n : /\ a + Len(b) <= Len(l)
                          /\ \A i \in 1 .. Len(b) : b[i] = l[a + i]
  BY DEF Stretch
<1>2. a + k \in 1 .. Len(l) /\ b[k] = l[a + k]
  BY <1>1
<1>3. ~(a + k <= n)
  BY <1>2 DEF Held
<1>4. a + k <= n + 1
  <2>1. CASE k = 1
    BY <1>1, <2>1
  <2>2. CASE k # 1
    <3>1. k - 1 \in 1 .. Len(b) /\ k - 1 < k
      BY <2>2
    <3>2. PICK j \in 1 .. n : l[j] = b[k - 1]
      BY <3>1 DEF Held
    <3>3. a + (k - 1) \in 1 .. Len(l) /\ b[k - 1] = l[a + (k - 1)] /\ j \in 1 .. Len(l)
      BY <1>1, <3>1, <3>2
    <3>4. j = a + (k - 1)
      BY <3>2, <3>3 DEF Distinct
    <3>5. QED
      BY <3>4
  <2>3. QED
    BY <2>1, <2>2
<1>5. a + k = n + 1
  BY <1>1, <1>3, <1>4
<1>6. QED
  BY <1>2, <1>5

(***************************************************************************)
(* The inductive invariant.  Beside that of the service:                   *)
(*   - the rows are the first events of the log;                           *)
(*   - the cursors, also those in the shippers' copies of the config,      *)
(*     cover stored events only;                                           *)
(*   - what a shipper has still to ship, and every batch on its way, is a  *)
(*     stretch of the log that leaves no gap;                              *)
(*   - the batch under way is the one its shipper waits for;               *)
(*   - a login registers with a key and for a workspace.                   *)
(***************************************************************************)
ShipType == [pc     : {"idle", "starting", "waiting"},
             cfg    : ConfigType,
             key    : Keys \cup {None},
             signer : PublicKeys \cup {None},
             todo   : Seq(Events)]

RowsArePrefix ==
  /\ Len(events) <= Len(log)
  /\ \A i \in 1 .. Len(events) : events[i].eventId = log[i]

CursorsCover ==
  /\ Covers(config.cursor, log, Len(events))
  /\ \A p \in Shippers : Covers(ships[p].cfg.cursor, log, Len(events))

ShipsReady ==
  \A p \in Shippers :
    /\ ships[p].pc # "idle" => /\ ships[p].cfg.workspaceId # None
                               /\ ships[p].cfg.machineId # None
    /\ ships[p].pc = "waiting" => Stretch(ships[p].todo, log, Len(events))

BatchesFollow ==
  \A s \in Slots :
    /\ (reqs[s].pc # "idle" /\ reqs[s].body.kind = "events")
         => Stretch(reqs[s].body.batch, log, Len(events))
    /\ reqs[s].pc = "looping" => reqs[s].body.kind = "events"

BatchAwaited ==
  \A p \in Shippers :
    /\ ships[p].pc = "starting" => reqs[p].pc = "idle"
    /\ (ships[p].pc = "waiting" /\ reqs[p].pc # "idle")
         => reqs[p].body.kind = "events" /\ reqs[p].body.batch = Batch(ships[p].todo)

\* A login that goes on to register has what it sends.
LoginReady == login.pc = "approved" => login.key # None /\ login.workspaceId # None

DeliveryInv ==
  /\ IngestInv
  /\ DeliveryTypeOK
  /\ ships \in [Shippers -> ShipType]
  /\ Distinct(log)
  /\ RowsArePrefix
  /\ CursorsCover
  /\ ShipsReady
  /\ BatchesFollow
  /\ BatchAwaited
  /\ LoginReady

LEMMA Lengths ==
  ASSUME DeliveryInv
  PROVE  /\ IngestTypeOK /\ events \in Seq(RowType) /\ log \in Seq(Events)
         /\ Len(events) \in Nat /\ Len(log) \in Nat
         /\ DOMAIN events = 1 .. Len(events) /\ DOMAIN log = 1 .. Len(log)
         /\ Len(events) \in 0 .. Len(log)
<1>1. IngestTypeOK /\ log \in Seq(Events) /\ Len(events) <= Len(log)
  BY DEF DeliveryInv, DeliveryTypeOK, RowsArePrefix
<1>2. events \in Seq(RowType)
  BY <1>1 DEF IngestTypeOK
<1>3. QED
  BY <1>1, <1>2

\* Because the rows are the beginning of the log, stored is held.
LEMMA StoredIsHeld ==
  ASSUME DeliveryInv
  PROVE  \A e : Stored(e) <=> Held(e, log, Len(events))
BY Lengths DEF DeliveryInv, RowsArePrefix, Stored, Held

LEMMA NoConfigTyped ==
  /\ NoConfig \in ConfigType
  /\ NoShip \in ShipType
  /\ NoConfig.cursor = None /\ NoShip.pc = "idle" /\ NoShip.cfg = NoConfig
<1>1. << >> \in Seq(Events)
  OBVIOUS
<1>2. QED
  BY <1>1 DEF NoConfig, NoShip, ConfigType, ShipType

LEMMA DeliveryInvInit == DeliveryInit => DeliveryInv
<1> SUFFICES ASSUME DeliveryInit PROVE DeliveryInv
  OBVIOUS
<1>1. IngestInv /\ IngestTypeOK
  BY InvInit, TypeInit DEF DeliveryInit
<1>2. /\ log = << >> /\ events = << >> /\ config = NoConfig /\ secrets = NoSecrets
      /\ ships = [p \in Shippers |-> NoShip] /\ login = NoLogin /\ disturbed = 0
      /\ reqs = [s \in Slots |-> NoRequest]
  BY DEF DeliveryInit, IngestInit
<1>3. Len(log) = 0 /\ Len(events) = 0 /\ log \in Seq(Events)
  BY <1>2
<1>4. ships \in [Shippers -> ShipType]
  BY <1>2, NoConfigTyped
<1>5. \A p \in Shippers : ships[p].pc = "idle" /\ ships[p].cfg = NoConfig
  BY <1>2, NoConfigTyped
<1>6. NoSecrets \in [apiKey : Keys \cup {None}, privateKey : PublicKeys \cup {None}]
  BY DEF NoSecrets
<1>7. NoLogin \in [pc : {"idle", "polling", "approved", "registering"},
                   key : Keys \cup {None}, workspaceId : Workspaces \cup {None},
                   machineId : Machines \cup {None}]
  BY DEF NoLogin
<1>8. DeliveryTypeOK
  BY <1>1, <1>2, <1>3, <1>5, <1>6, <1>7, NoConfigTyped DEF DeliveryTypeOK
<1>9. Distinct(log) /\ RowsArePrefix
  BY <1>3 DEF Distinct, RowsArePrefix
<1>10. CursorsCover
  BY <1>2, <1>5, NoConfigTyped DEF CursorsCover, Covers
<1>11. ShipsReady /\ BatchAwaited
  BY <1>5 DEF ShipsReady, BatchAwaited
<1>12. BatchesFollow
  BY <1>2 DEF BatchesFollow, NoRequest
<1>13. LoginReady
  BY <1>2 DEF LoginReady, NoLogin
<1>14. QED
  BY <1>1, <1>4, <1>8, <1>9, <1>10, <1>11, <1>12, <1>13 DEF DeliveryInv

\* The service does not mind which typed request a client puts in a slot it may use.
LEMMA RequestReplaced ==
  ASSUME IngestInv, NEW s \in Slots, reqs[s].pc # "looping",
         NEW r \in RequestType, r.pc \in {"idle", "sent"}, r.status = 0,
         r.pc # "idle" => r.body \in Body,
         reqs' = [reqs EXCEPT ![s] = r], UNCHANGED <<dbVars, loopVars>>
  PROVE  IngestInv'
<1>1. IngestTypeOK
  BY DEF IngestInv
<1>2. /\ reqs' \in [Slots -> RequestType] /\ reqs'[s] = r
      /\ \A t \in Slots : t # s => reqs'[t] = reqs[t]
  BY <1>1 DEF IngestTypeOK
<1>3. running # s
  BY <1>1 DEF IngestTypeOK
<1>4. IngestTypeOK'
  BY <1>1, <1>2, <1>3 DEF IngestTypeOK, dbVars, loopVars
<1>5. UNCHANGED <<machines, events, loopVars>>
  BY DEF dbVars
<1>6. \A t \in Slots : reqs'[t].status = 202 => reqs'[t] = reqs[t]
  BY <1>2
<1>7. \A t \in Slots : running = t => reqs'[t] = reqs[t]
  BY <1>2, <1>3
<1>8. QED
  BY <1>4, <1>5, <1>6, <1>7, RowsUnchanged, QuietRequests, QuietLoop DEF IngestInv

LEMMA SentTyped ==
  ASSUME NEW body \in Body
  PROVE  /\ Sent(body) \in RequestType /\ Sent(body).pc = "sent"
         /\ Sent(body).status = 0 /\ Sent(body).body = body
BY DEF Sent, NoRequest, RequestType, Phases, Statuses

LEMMA NoRequestIdle == NoRequest \in RequestType /\ NoRequest.pc = "idle" /\ NoRequest.status = 0
BY NoRequestTyped DEF NoRequest

(***************************************************************************)
(* Steps of the service                                                    *)
(***************************************************************************)
\* While a request is handled its body stays, and only batches enter the loop.
LEMMA HandleKeepsBodies ==
  ASSUME IngestTypeOK, NEW s \in Slots, Handle(s)
  PROVE  \A t \in Slots : reqs'[t].pc # "idle" =>
           /\ reqs[t].pc # "idle"
           /\ reqs'[t].body = reqs[t].body
           /\ reqs'[t].pc = "looping" =>
                reqs[t].pc = "looping" \/ reqs[t].body.kind = "events"
<1>1. reqs \in [Slots -> RequestType]
  BY DEF IngestTypeOK
<1>2. ASSUME NEW status, reqs[s].pc # "idle", Reply(s, status)
      PROVE  \A t \in Slots : reqs'[t].pc # "idle" =>
               /\ reqs[t].pc # "idle"
               /\ reqs'[t].body = reqs[t].body
               /\ reqs'[t].pc = "looping" => reqs[t].pc = "looping"
  BY <1>1, <1>2 DEF Reply, RequestType
<1>3. CASE BeginAuth(s)
  <2>1. reqs[s].pc = "sent"
    BY <1>3 DEF BeginAuth
  <2>2. CASE Reply(s, 401)
    BY <1>2, <2>1, <2>2
  <2>3. CASE ~Reply(s, 401)
    BY <1>1, <1>3, <2>1, <2>3 DEF BeginAuth, RequestType
  <2>4. QED
    BY <2>2, <2>3
<1>4. CASE Register(s)
  <2>1. reqs[s].pc # "idle" /\ (Reply(s, 403) \/ Reply(s, 200))
    BY <1>4 DEF Register
  <2>2. QED
    BY <1>2, <2>1
<1>5. CASE CheckEvents(s)
  <2>1. /\ reqs[s].pc # "idle" /\ reqs[s].body.kind = "events"
        /\ \/ \E v \in Statuses : Reply(s, v)
           \/ reqs' = [reqs EXCEPT ![s].pc = "looping"]
    BY <1>5 DEF CheckEvents, EventsVerdict, Statuses
  <2>2. CASE reqs' = [reqs EXCEPT ![s].pc = "looping"]
    BY <1>1, <2>1, <2>2 DEF RequestType
  <2>3. QED
    BY <1>2, <2>1, <2>2
<1>6. CASE StoreItem(s) \/ SkipDuplicate(s)
  BY <1>6 DEF StoreItem, SkipDuplicate
<1>7. CASE AcceptBatch(s)
  <2>1. reqs[s].pc = "looping" /\ Reply(s, 202)
    BY <1>7 DEF AcceptBatch, IngestTypeOK
  <2>2. QED
    BY <1>2, <2>1
<1>8. QED
  BY <1>3, <1>4, <1>5, <1>6, <1>7 DEF Handle

\* A step of the service, or of the network, that stores at most the event that
\* comes next.
LEMMA ServiceStep ==
  ASSUME DeliveryInv, IngestInv', UNCHANGED clientVars,
         disturbed' \in {disturbed, Len(log)},
         \/ UNCHANGED events
         \/ \E row \in RowType : /\ Len(events) < Len(log)
                                 /\ row.eventId = log[Len(events) + 1]
                                 /\ events' = Append(events, row),
         \A t \in Slots : reqs'[t].pc # "idle" =>
           /\ reqs[t].pc # "idle"
           /\ reqs'[t].body = reqs[t].body
           /\ reqs'[t].pc = "looping" => reqs[t].pc = "looping" \/ reqs[t].body.kind = "events"
  PROVE  DeliveryInv'
<1>1. log' = log /\ config' = config /\ secrets' = secrets /\ ships' = ships /\ login' = login
  BY DEF clientVars
<1>2. /\ Len(events) \in 0 .. Len(log) /\ Len(log) \in Nat /\ log \in Seq(Events)
      /\ Distinct(log) /\ Grows(log, log)
  BY Lengths DEF DeliveryInv, Grows
<1>3. /\ Len(events') \in Nat /\ Len(events) <= Len(events') /\ Len(events') <= Len(log)
      /\ \A i \in 1 .. Len(events') : events'[i].eventId = log[i]
  <2>1. CASE UNCHANGED events
    BY <2>1, <1>2 DEF DeliveryInv, RowsArePrefix
  <2>2. CASE ~ UNCHANGED events
    <3>1. PICK row \in RowType : /\ Len(events) < Len(log)
                                 /\ row.eventId = log[Len(events) + 1]
                                 /\ events' = Append(events, row)
      BY <2>2
    <3>2. /\ Len(events') = Len(events) + 1
          /\ \A i \in 1 .. Len(events) : events'[i] = events[i]
          /\ events'[Len(events) + 1] = row
      BY <3>1, Lengths, AppendRow
    <3>3. \A i \in 1 .. Len(events) : events'[i].eventId = log[i]
      BY <3>2 DEF DeliveryInv, RowsArePrefix
    <3>4. QED
      BY <1>2, <3>1, <3>2, <3>3
  <2>3. QED
    BY <2>1, <2>2
<1>4. /\ \A c : Covers(c, log, Len(events)) => Covers(c, log, Len(events'))
      /\ \A q \in Seq(Events) : Stretch(q, log, Len(events)) => Stretch(q, log, Len(events'))
  BY <1>2, <1>3, GrowthKeeps
<1>5. DeliveryTypeOK'
  BY <1>1, <1>2 DEF DeliveryInv, DeliveryTypeOK, IngestInv
<1>6. Distinct(log)' /\ RowsArePrefix' /\ (ships \in [Shippers -> ShipType])'
  BY <1>1, <1>3 DEF DeliveryInv, Distinct, RowsArePrefix
<1>7. CursorsCover'
  BY <1>1, <1>4 DEF DeliveryInv, CursorsCover
<1>8. ShipsReady'
  BY <1>1, <1>4 DEF DeliveryInv, ShipsReady, DeliveryTypeOK
<1>9. BatchesFollow'
  <2> SUFFICES ASSUME NEW s \in Slots, reqs'[s].pc # "idle"
               PROVE  /\ reqs'[s].body.kind = "events"
                           => Stretch(reqs'[s].body.batch, log', Len(events'))
                      /\ reqs'[s].pc = "looping" => reqs'[s].body.kind = "events"
    BY DEF BatchesFollow
  <2>1. reqs[s].pc # "idle" /\ reqs'[s].body = reqs[s].body
    OBVIOUS
  <2>2. reqs[s].body.batch \in Seq(Events)
    BY <2>1, Lengths DEF IngestTypeOK, Body
  <2>3. QED
    BY <1>1, <1>4, <2>1, <2>2 DEF DeliveryInv, BatchesFollow
<1>10. BatchAwaited'
  <2>1. \A p \in Shippers : p \in Slots
    BY DEF Shippers
  <2>2. QED
    BY <1>1, <2>1 DEF DeliveryInv, BatchAwaited
<1>11. LoginReady'
  BY <1>1 DEF DeliveryInv, LoginReady
<1>12. QED
  BY <1>5, <1>6, <1>7, <1>8, <1>9, <1>10, <1>11 DEF DeliveryInv

\* What the batch loop stores is the event the service lacks next.
LEMMA StoresNext ==
  ASSUME DeliveryInv, NEW s \in Slots, StoreItem(s)
  PROVE  \E row \in RowType : /\ Len(events) < Len(log)
                              /\ row.eventId = log[Len(events) + 1]
                              /\ events' = Append(events, row)
<1> DEFINE b == reqs[s].body.batch
<1>1. /\ running = s /\ nextItem <= Len(b) /\ ~Stored(ItemAt(s)) /\ ItemAt(s) = b[nextItem]
  BY DEF StoreItem, ItemAt
<1>2. /\ reqs[s].pc = "looping" /\ reqs[s].body \in Body /\ nextItem \in Nat \ {0}
      /\ prevHash \in Hashes
  BY <1>1, Lengths DEF IngestTypeOK
<1>3. reqs[s].body.kind = "events" /\ Stretch(b, log, Len(events))
  BY <1>2 DEF DeliveryInv, BatchesFollow
<1>4. b \in Seq(Events) /\ nextItem \in 1 .. Len(b)
  BY <1>1, <1>2 DEF Body
<1>5. \A i \in 1 .. Len(b) : i < nextItem => Held(b[i], log, Len(events))
  <2>1. \A i \in DOMAIN b : i < nextItem => Stored(b[i])
    BY <1>1 DEF DeliveryInv, IngestInv, LoopInv
  <2>2. DOMAIN b = 1 .. Len(b)
    BY <1>4
  <2>3. QED
    BY <2>1, <2>2, StoredIsHeld
<1>6. ~Held(b[nextItem], log, Len(events))
  BY <1>1, StoredIsHeld
<1> DEFINE row == Row(ItemAt(s), reqs[s].body.workspaceId, reqs[s].body.machineId, prevHash)
<1>7. Len(events) < Len(log) /\ b[nextItem] = log[Len(events) + 1]
  <2> HIDE DEF b
  <2>1. log \in Seq(Events) /\ Distinct(log) /\ Len(events) \in 0 .. Len(log)
    BY Lengths DEF DeliveryInv
  <2>2. QED
    BY <1>3, <1>4, <1>5, <1>6, <2>1, NextItem
<1>8. ItemAt(s) \in Events
  BY <1>1, <1>4
<1>9. row \in RowType
  BY <1>2, <1>8, RowIsTyped DEF Body
<1>10. row.eventId = ItemAt(s) /\ events' = Append(events, row)
  BY DEF StoreItem, Row
<1> HIDE DEF row
<1>11. QED
  BY <1>1, <1>7, <1>9, <1>10

LEMMA ServiceKeepsInv ==
  ASSUME DeliveryInv, NEW s \in Slots, Serve(s) \/ LoseRequest(s) \/ DropAnswer(s)
  PROVE  DeliveryInv'
<1>0. IngestInv /\ IngestTypeOK
  BY DEF DeliveryInv, IngestInv
<1>1. CASE Serve(s)
  <2>1. Handle(s) /\ UNCHANGED clientVars /\ disturbed' \in {disturbed, Len(log)}
    BY <1>1 DEF Serve
  <2>2. IngestInv'
    BY <1>0, <2>1, InvStep DEF IngestNext
  <2>3. \/ UNCHANGED events
        \/ \E row \in RowType : /\ Len(events) < Len(log)
                                /\ row.eventId = log[Len(events) + 1]
                                /\ events' = Append(events, row)
    <3>1. CASE StoreItem(s)
      BY <3>1, StoresNext
    <3>2. CASE ~StoreItem(s)
      BY <2>1, <3>2 DEF Handle, BeginAuth, Register, CheckEvents, SkipDuplicate,
                        AcceptBatch, dbVars
    <3>3. QED
      BY <3>1, <3>2
  <2>4. QED
    BY <1>0, <2>1, <2>2, <2>3, HandleKeepsBodies, ServiceStep
<1>2. CASE LoseRequest(s) \/ DropAnswer(s)
  <2>1. /\ Lose(s) \/ Collect(s)
        /\ UNCHANGED clientVars /\ disturbed' \in {disturbed, Len(log)}
    BY <1>2 DEF LoseRequest, DropAnswer
  <2>2. IngestInv'
    BY <1>0, <2>1, InvStep DEF IngestNext
  <2>3. reqs' = [reqs EXCEPT ![s] = NoRequest] /\ UNCHANGED events
    BY <2>1 DEF Lose, Collect, dbVars
  <2>4. reqs'[s].pc = "idle" /\ \A t \in Slots : t # s => reqs'[t] = reqs[t]
    BY <1>0, <2>3, NoRequestIdle DEF IngestTypeOK
  <2>5. QED
    BY <2>1, <2>2, <2>3, <2>4, ServiceStep
<1>3. QED
  BY <1>1, <1>2

LEMMA CrashKeepsInv ==
  ASSUME DeliveryInv, ServiceCrash
  PROVE  DeliveryInv'
<1>1. Crash /\ UNCHANGED clientVars /\ disturbed' \in {disturbed, Len(log)}
  BY DEF ServiceCrash
<1>2. IngestInv'
  BY <1>1, InvStep DEF DeliveryInv, IngestNext
<1>3. /\ UNCHANGED events
      /\ \A t \in Slots : reqs'[t].pc = "idle" \/ reqs'[t] = reqs[t]
  BY <1>1, NoRequestIdle DEF Crash, dbVars
<1>4. QED
  BY <1>1, <1>2, <1>3, ServiceStep

LEMMA RevokeKeepsInv ==
  ASSUME DeliveryInv, NEW k \in Keys, Revoke(k)
  PROVE  DeliveryInv'
<1>1. RevokeApiKey(k) /\ UNCHANGED clientVars /\ disturbed' \in {disturbed, Len(log)}
  BY DEF Revoke
<1>2. IngestInv'
  BY <1>1, InvStep DEF DeliveryInv, IngestNext
<1>3. UNCHANGED <<events, reqs>>
  BY <1>1 DEF RevokeApiKey
<1>4. QED
  BY <1>1, <1>2, <1>3, ServiceStep

(***************************************************************************)
(* Steps of the shippers                                                   *)
(***************************************************************************)
LEMMA ShippersFacts ==
  ASSUME DeliveryInv, NEW p \in Shippers
  PROVE  /\ p \in Slots
         /\ ships[p] \in ShipType
         /\ ships[p].pc = "waiting" =>
              /\ ships[p].key \in Keys /\ ships[p].signer \in PublicKeys
              /\ ships[p].todo \in Seq(Events) /\ ships[p].todo # << >>
              /\ ships[p].cfg.workspaceId \in Workspaces
              /\ ships[p].cfg.machineId \in Machines
BY DEF DeliveryInv, Shippers, DeliveryTypeOK, ShipsReady, ConfigType

\* A post of the next batch is a request the service can handle.
LEMMA PostTyped ==
  ASSUME NEW ship \in ShipType, ship.key \in Keys, ship.signer \in PublicKeys,
         ship.todo # << >>, ship.cfg.workspaceId # None, ship.cfg.machineId # None
  PROVE  /\ EventsPost(ship) \in Body
         /\ EventsPost(ship).kind = "events"
         /\ EventsPost(ship).batch = Batch(ship.todo)
<1>1. /\ ship.todo \in Seq(Events) /\ ship.cfg.workspaceId \in Workspaces
      /\ ship.cfg.machineId \in Machines
  BY DEF ShipType, ConfigType
<1>2. Batch(ship.todo) \in Seq(Events)
  BY <1>1, Batches
<1>3. QED
  BY <1>1, <1>2 DEF EventsPost, Body

\* A step of one shipper: it leaves the database alone and either ends the call or
\* posts the next batch.
LEMMA ShipperStep ==
  ASSUME DeliveryInv, NEW p \in Shippers, NEW ship \in ShipType,
         UNCHANGED <<dbVars, loopVars, log, secrets, login, disturbed>>,
         config' \in ConfigType, Covers(config'.cursor, log, Len(events)),
         ships' = [ships EXCEPT ![p] = ship],
         Covers(ship.cfg.cursor, log, Len(events)),
         reqs[p].pc # "looping",
         \/ ship.pc = "idle" /\ reqs' = [reqs EXCEPT ![p] = NoRequest]
         \/ /\ ship.pc = "waiting" /\ ship.key \in Keys /\ ship.signer \in PublicKeys
            /\ ship.todo # << >> /\ Stretch(ship.todo, log, Len(events))
            /\ ship.cfg.workspaceId # None /\ ship.cfg.machineId # None
            /\ reqs' = [reqs EXCEPT ![p] = Sent(EventsPost(ship))]
  PROVE  DeliveryInv'
<1>0. /\ p \in Slots /\ IngestInv /\ IngestTypeOK
      /\ log' = log /\ events' = events
  BY ShippersFacts DEF DeliveryInv, IngestInv, dbVars
<1>1. PICK r \in RequestType :
        /\ reqs' = [reqs EXCEPT ![p] = r] /\ r.pc \in {"idle", "sent"} /\ r.status = 0
        /\ r.pc # "idle" => /\ r.body \in Body /\ r.body.kind = "events"
                            /\ ship.pc = "waiting"
                            /\ r.body.batch = Batch(ship.todo)
                            /\ Stretch(r.body.batch, log, Len(events))
  <2>1. CASE ship.pc = "idle" /\ reqs' = [reqs EXCEPT ![p] = NoRequest]
    BY <2>1, NoRequestIdle
  <2>2. CASE ship.pc # "idle"
    <3>1. /\ EventsPost(ship) \in Body /\ EventsPost(ship).kind = "events"
          /\ EventsPost(ship).batch = Batch(ship.todo)
          /\ reqs' = [reqs EXCEPT ![p] = Sent(EventsPost(ship))]
      BY <2>2, PostTyped
    <3>2. ship.todo \in Seq(Events) /\ log \in Seq(Events) /\ Len(events) \in 0 .. Len(log)
      BY Lengths DEF ShipType
    <3>3. Stretch(Batch(ship.todo), log, Len(events))
      BY <2>2, <3>2, BatchIsStretch
    <3>4. /\ Sent(EventsPost(ship)) \in RequestType
          /\ Sent(EventsPost(ship)).pc = "sent" /\ Sent(EventsPost(ship)).status = 0
          /\ Sent(EventsPost(ship)).body = EventsPost(ship)
      BY <3>1, SentTyped
    <3>5. QED
      BY <2>2, <3>1, <3>3, <3>4
  <2>3. QED
    BY <2>1, <2>2
<1>2. IngestInv' /\ IngestTypeOK'
  BY <1>0, <1>1, RequestReplaced DEF IngestInv
<1>3. /\ reqs'[p] = r /\ \A t \in Slots : t # p => reqs'[t] = reqs[t]
      /\ ships' \in [Shippers -> ShipType] /\ ships'[p] = ship
      /\ \A q \in Shippers : q # p => ships'[q] = ships[q]
  BY <1>0, <1>1 DEF IngestTypeOK, DeliveryInv
<1>4. DeliveryTypeOK'
  <2>1. /\ ship.pc \in {"idle", "starting", "waiting"} /\ ship.cfg \in ConfigType
        /\ ship.pc = "waiting" => /\ ship.key \in Keys /\ ship.signer \in PublicKeys
                                  /\ ship.todo \in Seq(Events) \ {<< >>}
    BY DEF ShipType
  <2>2. QED
    BY <1>0, <1>2, <1>3, <2>1 DEF DeliveryInv, DeliveryTypeOK
<1>5. Distinct(log)' /\ RowsArePrefix'
  BY <1>0 DEF DeliveryInv, Distinct, RowsArePrefix
<1>6. CursorsCover'
  BY <1>0, <1>3 DEF DeliveryInv, CursorsCover
<1>7. ShipsReady'
  BY <1>0, <1>3 DEF DeliveryInv, ShipsReady
<1>8. BatchesFollow'
  BY <1>0, <1>1, <1>3 DEF DeliveryInv, BatchesFollow
<1>9. BatchAwaited'
  <2>1. \A q \in Shippers : q \in Slots
    BY DEF Shippers
  <2>2. QED
    BY <1>0, <1>1, <1>3, <2>1 DEF DeliveryInv, BatchAwaited
<1>10. LoginReady'
  BY DEF DeliveryInv, LoginReady
<1>11. QED
  BY <1>2, <1>3, <1>4, <1>5, <1>6, <1>7, <1>8, <1>9, <1>10 DEF DeliveryInv

LEMMA StartShipKeepsInv ==
  ASSUME DeliveryInv, NEW p \in Shippers, StartShip(p)
  PROVE  DeliveryInv'
<1> DEFINE ship == [ships[p] EXCEPT !.pc     = "waiting",
                                    !.key    = secrets.apiKey,
                                    !.signer = secrets.privateKey,
                                    !.todo   = Unshipped(ships[p].cfg.cursor)]
           n == Len(events)
<1>1. /\ ships[p].pc = "starting" /\ ships[p] \in ShipType /\ p \in Slots
      /\ UNCHANGED <<dbVars, loopVars, log, config, secrets, login, disturbed>>
  BY ShippersFacts DEF StartShip
<1>2. /\ Covers(config.cursor, log, n) /\ Covers(ships[p].cfg.cursor, log, n)
      /\ config \in ConfigType
      /\ ships[p].cfg.workspaceId # None /\ ships[p].cfg.machineId # None
      /\ secrets \in [apiKey : Keys \cup {None}, privateKey : PublicKeys \cup {None}]
  BY <1>1 DEF DeliveryInv, CursorsCover, DeliveryTypeOK, ShipsReady
<1>3. CASE None \in {ship.key, ship.signer} \/ ship.todo = << >>
  <2>1. ships' = [ships EXCEPT ![p] = NoShip] /\ UNCHANGED reqs
    BY <1>3 DEF StartShip
  <2>2. IngestInv'
    <3>1. UNCHANGED ingestVars
      BY <1>1, <2>1 DEF ingestVars
    <3>2. QED
      BY <3>1, InvStep DEF DeliveryInv
  <2>3. events' = events /\ log' = log /\ reqs' = reqs /\ config' = config
    BY <1>1, <2>1 DEF dbVars
  <2>4. /\ ships' \in [Shippers -> ShipType] /\ ships'[p] = NoShip
        /\ \A q \in Shippers : q # p => ships'[q] = ships[q]
    BY <2>1, NoConfigTyped DEF DeliveryInv
  <2>5. DeliveryTypeOK'
    BY <1>1, <2>2, <2>3, <2>4, NoConfigTyped DEF DeliveryInv, DeliveryTypeOK, IngestInv
  <2>6. Distinct(log)' /\ RowsArePrefix' /\ BatchesFollow'
    BY <2>3 DEF DeliveryInv, Distinct, RowsArePrefix, BatchesFollow
  <2>7. CursorsCover'
    BY <2>3, <2>4, NoConfigTyped DEF DeliveryInv, CursorsCover, Covers
  <2>8. ShipsReady' /\ BatchAwaited'
    BY <2>3, <2>4, NoConfigTyped DEF DeliveryInv, ShipsReady, BatchAwaited
  <2>9. LoginReady'
    BY <1>1 DEF DeliveryInv, LoginReady
  <2>10. QED
    BY <2>2, <2>4, <2>5, <2>6, <2>7, <2>8, <2>9 DEF DeliveryInv
<1>4. CASE ~(None \in {ship.key, ship.signer} \/ ship.todo = << >>)
  <2>1. PICK todo : todo = Unshipped(ships[p].cfg.cursor)
    OBVIOUS
  <2>2. todo \in Seq(Events) /\ Stretch(todo, log, n)
    <3>1. IndexAfter(ships[p].cfg.cursor) \in 1 .. n + 1
      <4>1. IndexAfter(ships[p].cfg.cursor) = After(ships[p].cfg.cursor, log)
        BY DEF IndexAfter, After
      <4>2. QED
        BY <1>2, <4>1, Lengths, AfterCursor DEF DeliveryInv
    <3>2. todo = SubSeq(log, IndexAfter(ships[p].cfg.cursor), Len(log))
      BY <2>1 DEF Unshipped
    <3>3. QED
      BY <3>1, <3>2, Lengths, RestOfLog
  <2>3. /\ ship \in ShipType /\ ship.pc = "waiting" /\ ship.todo = todo
        /\ ship.key = secrets.apiKey /\ ship.signer = secrets.privateKey
        /\ ship.cfg = ships[p].cfg
    BY <1>1, <1>2, <2>1, <2>2 DEF ShipType
  <2>4. /\ ships' = [ships EXCEPT ![p] = ship]
        /\ reqs' = [reqs EXCEPT ![p] = Sent(EventsPost(ship))]
    BY <1>4 DEF StartShip
  <2> HIDE DEF ship
  <2>5. ship.key \in Keys /\ ship.signer \in PublicKeys /\ ship.todo # << >>
    BY <1>2, <1>4, <2>3
  <2>6. reqs[p].pc # "looping"
    BY <1>1 DEF DeliveryInv, BatchAwaited
  <2>7. QED
    BY <1>1, <1>2, <2>2, <2>3, <2>4, <2>5, <2>6, ShipperStep
<1>5. QED
  BY <1>3, <1>4

LEMMA BatchAcceptedKeepsInv ==
  ASSUME DeliveryInv, NEW p \in Shippers, BatchAccepted(p)
  PROVE  DeliveryInv'
<1> DEFINE todo == ships[p].todo
           c    == todo[BatchLen(todo)]
           ship == [ships[p] EXCEPT !.cfg.cursor = c, !.todo = Rest(todo)]
           n    == Len(events)
<1>1. /\ ships[p].pc = "waiting" /\ ships[p] \in ShipType /\ p \in Slots
      /\ reqs[p].pc = "replied" /\ reqs[p].status = 202
      /\ todo \in Seq(Events) /\ todo # << >>
      /\ UNCHANGED <<dbVars, loopVars, log, secrets, login, disturbed>>
  BY ShippersFacts DEF BatchAccepted
<1>2. /\ ships[p].key \in Keys /\ ships[p].signer \in PublicKeys
      /\ ships[p].cfg.workspaceId # None /\ ships[p].cfg.machineId # None
      /\ Stretch(todo, log, n)
      /\ reqs[p].body.batch = Batch(todo)
  BY <1>1, ShippersFacts DEF DeliveryInv, ShipsReady, BatchAwaited
<1>3. \A i \in DOMAIN Batch(todo) : Held(Batch(todo)[i], log, n)
  BY <1>1, <1>2, StoredIsHeld DEF DeliveryInv, IngestInv, AcceptedMeansStored
<1>4. /\ log \in Seq(Events) /\ Distinct(log) /\ n \in 0 .. Len(log)
  BY Lengths DEF DeliveryInv
<1>5. c \in Events /\ Covers(c, log, n) /\ Stretch(Rest(todo), log, n)
  <2> HIDE DEF todo, n
  <2>1. QED
    BY <1>1, <1>2, <1>3, <1>4, AcceptedBatch
<1>6. Rest(todo) \in Seq(Events)
  BY <1>1, Batches
<1> HIDE DEF c
<1>7. /\ ship \in ShipType /\ ship.pc = "waiting" /\ ship.todo = Rest(todo)
      /\ ship.key = ships[p].key /\ ship.signer = ships[p].signer
      /\ ship.cfg \in ConfigType /\ ship.cfg.cursor = c
      /\ ship.cfg.workspaceId = ships[p].cfg.workspaceId
      /\ ship.cfg.machineId = ships[p].cfg.machineId
  BY <1>1, <1>5, <1>6 DEF ShipType, ConfigType
<1>8. /\ config' = ship.cfg
      /\ IF ship.todo = << >>
         THEN /\ ships' = [ships EXCEPT ![p] = NoShip]
              /\ reqs' = [reqs EXCEPT ![p] = NoRequest]
         ELSE /\ ships' = [ships EXCEPT ![p] = ship]
              /\ reqs' = [reqs EXCEPT ![p] = Sent(EventsPost(ship))]
  BY DEF BatchAccepted, c
<1> HIDE DEF ship
<1>9. config' \in ConfigType /\ Covers(config'.cursor, log, n)
  BY <1>5, <1>7, <1>8
<1>10. CASE ship.todo = << >>
  <2>1. /\ ships' = [ships EXCEPT ![p] = NoShip] /\ reqs' = [reqs EXCEPT ![p] = NoRequest]
        /\ NoShip \in ShipType /\ NoShip.pc = "idle" /\ Covers(NoShip.cfg.cursor, log, n)
    BY <1>8, <1>10, NoConfigTyped DEF Covers
  <2>2. QED
    BY <1>1, <1>9, <2>1, ShipperStep
<1>11. CASE ship.todo # << >>
  <2>1. /\ ships' = [ships EXCEPT ![p] = ship]
        /\ reqs' = [reqs EXCEPT ![p] = Sent(EventsPost(ship))]
    BY <1>8, <1>11
  <2>2. QED
    BY <1>1, <1>2, <1>5, <1>7, <1>9, <1>11, <2>1, ShipperStep
<1>12. QED
  BY <1>10, <1>11

LEMMA BatchRefusedKeepsInv ==
  ASSUME DeliveryInv, NEW p \in Shippers, BatchRefused(p)
  PROVE  DeliveryInv'
<1>1. /\ reqs[p].pc = "replied" /\ config' = config
      /\ ships' = [ships EXCEPT ![p] = NoShip] /\ reqs' = [reqs EXCEPT ![p] = NoRequest]
      /\ UNCHANGED <<dbVars, loopVars, log, secrets, login, disturbed>>
  BY DEF BatchRefused
<1>2. /\ NoShip \in ShipType /\ NoShip.pc = "idle"
      /\ Covers(NoShip.cfg.cursor, log, Len(events))
  BY NoConfigTyped DEF Covers
<1>3. config' \in ConfigType /\ Covers(config'.cursor, log, Len(events))
  BY <1>1 DEF DeliveryInv, DeliveryTypeOK, CursorsCover
<1>4. QED
  BY <1>1, <1>2, <1>3, ShipperStep

LEMMA GiveUpKeepsInv ==
  ASSUME DeliveryInv, NEW p \in Shippers, GiveUp(p)
  PROVE  DeliveryInv'
<1>1. /\ ships' = [ships EXCEPT ![p] = NoShip] /\ disturbed' = Len(log)
      /\ UNCHANGED <<ingestVars, log, config, secrets, login>>
  BY DEF GiveUp
<1>2. IngestInv' /\ events' = events /\ reqs' = reqs
  BY <1>1, InvStep DEF DeliveryInv, ingestVars, dbVars
<1>3. /\ ships' \in [Shippers -> ShipType] /\ ships'[p] = NoShip
      /\ \A q \in Shippers : q # p => ships'[q] = ships[q]
  BY <1>1, NoConfigTyped DEF DeliveryInv
<1>4. DeliveryTypeOK'
  BY <1>1, <1>2, <1>3, NoConfigTyped, Lengths DEF DeliveryInv, DeliveryTypeOK, IngestInv
<1>5. Distinct(log)' /\ RowsArePrefix' /\ BatchesFollow'
  BY <1>1, <1>2 DEF DeliveryInv, Distinct, RowsArePrefix, BatchesFollow
<1>6. CursorsCover'
  BY <1>1, <1>2, <1>3, NoConfigTyped DEF DeliveryInv, CursorsCover, Covers
<1>7. ShipsReady' /\ BatchAwaited'
  BY <1>1, <1>2, <1>3, NoConfigTyped DEF DeliveryInv, ShipsReady, BatchAwaited
<1>8. LoginReady'
  BY <1>1 DEF DeliveryInv, LoginReady
<1>9. QED
  BY <1>2, <1>3, <1>4, <1>5, <1>6, <1>7, <1>8 DEF DeliveryInv

LEMMA RecordBlockKeepsInv ==
  ASSUME DeliveryInv, NEW e \in Events, NEW p \in Shippers, RecordBlock(e, p)
  PROVE  DeliveryInv' /\ Grows(log, log') /\ UNCHANGED <<events, config>>
<1> DEFINE n == Len(events)
<1>1. /\ reqs[p].pc = "idle"
      /\ UNCHANGED <<ingestVars, config, secrets, login, disturbed>>
  BY DEF RecordBlock
<1>2. IngestInv' /\ events' = events /\ reqs' = reqs
  BY <1>1, InvStep DEF DeliveryInv, ingestVars, dbVars
<1>3. /\ Distinct(log) /\ log \in Seq(Events) /\ n \in 0 .. Len(log) /\ n \in Nat
      /\ DOMAIN log = 1 .. Len(log) /\ Len(log) \in Nat
  BY Lengths DEF DeliveryInv
<1>4. Grows(log, log')
  BY <1>3 DEF RecordBlock, AppendEvent, Grows, Held
<1>5. /\ log' \in Seq(Events) /\ Len(log) <= Len(log') /\ Len(log') \in Nat
      /\ \A i \in 1 .. Len(log) : log'[i] = log[i]
      /\ Distinct(log')
  BY <1>3, <1>4, GrownLog
<1>6. /\ \A c : Covers(c, log, n) => Covers(c, log', n)
      /\ \A q \in Seq(Events) : Stretch(q, log, n) => Stretch(q, log', n)
  BY <1>3, <1>4, GrowthKeeps
<1>7. PICK ship \in ShipType :
        /\ ships' = [ships EXCEPT ![p] = ship]
        /\ ship.pc \in {"idle", "starting"} /\ ship.cfg \in {config, NoConfig}
        /\ ship.pc # "idle" => /\ ship.cfg.workspaceId # None
                               /\ ship.cfg.machineId # None
  <2> DEFINE started == [NoShip EXCEPT !.pc = "starting", !.cfg = config]
  <2>1. config \in ConfigType
    BY DEF DeliveryInv, DeliveryTypeOK
  <2>2. started \in ShipType /\ started.pc = "starting" /\ started.cfg = config
    BY <2>1, NoConfigTyped DEF ShipType, NoShip
  <2>3. CASE IsLoggedIn
    <3>1. ships' = [ships EXCEPT ![p] = started]
      BY <2>3 DEF RecordBlock
    <3>2. config.workspaceId # None /\ config.machineId # None
      BY <2>3 DEF IsLoggedIn
    <3> HIDE DEF started
    <3>3. QED
      BY <2>2, <3>1, <3>2
  <2>4. CASE ~IsLoggedIn
    <3>1. ships' = [ships EXCEPT ![p] = NoShip]
      BY <2>4 DEF RecordBlock
    <3>2. QED
      BY <3>1, NoConfigTyped
  <2>5. QED
    BY <2>3, <2>4
<1>8. /\ ships' \in [Shippers -> ShipType] /\ ships'[p] = ship
      /\ \A q \in Shippers : q # p => ships'[q] = ships[q]
  BY <1>7 DEF DeliveryInv
<1>9. DeliveryTypeOK'
  <2>1. /\ ship.pc \in {"idle", "starting", "waiting"} /\ ship.cfg \in ConfigType
        /\ ship.pc # "waiting"
    BY <1>7 DEF ShipType
  <2>2. disturbed' \in 0 .. Len(log')
    BY <1>1, <1>5 DEF DeliveryInv, DeliveryTypeOK
  <2>3. QED
    BY <1>1, <1>2, <1>5, <1>8, <2>1, <2>2 DEF DeliveryInv, DeliveryTypeOK, IngestInv
<1>10. Distinct(log)' /\ RowsArePrefix'
  BY <1>2, <1>3, <1>5 DEF DeliveryInv, RowsArePrefix
<1>11. CursorsCover'
  <2>1. Covers(NoConfig.cursor, log, n)
    BY NoConfigTyped DEF Covers
  <2>2. \A q \in Shippers : Covers(ships'[q].cfg.cursor, log, n)
    BY <1>7, <1>8, <2>1 DEF DeliveryInv, CursorsCover
  <2>3. QED
    BY <1>1, <1>2, <1>6, <2>2 DEF DeliveryInv, CursorsCover
<1>12. ShipsReady'
  BY <1>2, <1>6, <1>7, <1>8 DEF DeliveryInv, ShipsReady, DeliveryTypeOK
<1>13. BatchesFollow'
  <2>1. \A s \in Slots : reqs[s].pc # "idle" => reqs[s].body.batch \in Seq(Events)
    BY Lengths DEF IngestTypeOK, Body
  <2>2. QED
    BY <1>2, <1>6, <2>1 DEF DeliveryInv, BatchesFollow
<1>14. BatchAwaited'
  BY <1>1, <1>2, <1>7, <1>8 DEF DeliveryInv, BatchAwaited
<1>15. LoginReady'
  BY <1>1 DEF DeliveryInv, LoginReady
<1>16. DeliveryInv'
  BY <1>2, <1>8, <1>9, <1>10, <1>11, <1>12, <1>13, <1>14, <1>15 DEF DeliveryInv
<1>17. QED
  BY <1>1, <1>2, <1>4, <1>16

(***************************************************************************)
(* login and logout                                                        *)
(***************************************************************************)
LoginType == [pc : {"idle", "polling", "approved", "registering"},
              key : Keys \cup {None}, workspaceId : Workspaces \cup {None},
              machineId : Machines \cup {None}]

SecretsType == [apiKey : Keys \cup {None}, privateKey : PublicKeys \cup {None}]

\* They leave log, rows and shippers alone, and a config they write has no cursor.
LEMMA LoginStep ==
  ASSUME DeliveryInv, IngestInv', UNCHANGED <<events, log, ships>>,
         config' \in ConfigType, config' = config \/ config'.cursor = None,
         secrets' \in SecretsType, login' \in LoginType, LoginReady',
         disturbed' \in {disturbed, Len(log)},
         \A t \in Slots : \/ reqs'[t] = reqs[t]
                          \/ reqs'[t].pc = "idle"
                          \/ /\ t = LoginSlot /\ reqs'[t].pc = "sent"
                             /\ reqs'[t].body.kind = "register"
  PROVE  DeliveryInv'
<1>1. \A p \in Shippers : p \in Slots /\ p # LoginSlot
  BY DEF Shippers
<1>2. Len(log) \in Nat
  BY Lengths
<1>3. DeliveryTypeOK'
  BY <1>2 DEF DeliveryInv, DeliveryTypeOK, IngestInv, LoginType, SecretsType
<1>4. (Distinct(log) /\ RowsArePrefix /\ ships \in [Shippers -> ShipType])'
  BY DEF DeliveryInv, Distinct, RowsArePrefix
<1>5. CursorsCover'
  BY DEF DeliveryInv, CursorsCover, Covers
<1>6. ShipsReady'
  BY DEF DeliveryInv, ShipsReady
<1>7. BatchesFollow'
  BY DEF DeliveryInv, BatchesFollow
<1>8. BatchAwaited'
  BY <1>1 DEF DeliveryInv, BatchAwaited
<1>9. QED
  BY <1>3, <1>4, <1>5, <1>6, <1>7, <1>8 DEF DeliveryInv

LEMMA ClientTyped ==
  ASSUME DeliveryInv
  PROVE  /\ config \in ConfigType /\ secrets \in SecretsType /\ login \in LoginType
         /\ IngestTypeOK
BY DEF DeliveryInv, DeliveryTypeOK, SecretsType, LoginType

LEMMA LoginKeepsInv ==
  ASSUME DeliveryInv, Login \/ Logout
  PROVE  DeliveryInv' /\ UNCHANGED <<events, log>>
<1>0. /\ config \in ConfigType /\ secrets \in SecretsType /\ login \in LoginType
      /\ IngestTypeOK
      /\ NoLogin \in LoginType /\ NoSecrets \in SecretsType
  BY ClientTyped DEF NoLogin, NoSecrets, LoginType, SecretsType
<1>1. CASE StartLogin \/ AbortLogin \/ Logout
  <2>1. /\ UNCHANGED ingestVars /\ UNCHANGED <<log, ships>>
        /\ config' \in {config, NoConfig} /\ secrets' \in {secrets, NoSecrets}
        /\ disturbed' \in {disturbed, Len(log)}
    BY <1>1 DEF StartLogin, AbortLogin, Logout
  <2>2. login' \in LoginType /\ (login' = login \/ login'.pc # "approved")
    BY <1>0, <1>1 DEF StartLogin, AbortLogin, Logout, NoLogin, LoginType
  <2>3. IngestInv' /\ UNCHANGED <<events, reqs>>
    BY <2>1, InvStep DEF DeliveryInv, ingestVars, dbVars
  <2>4. config' \in ConfigType /\ (config' = config \/ config'.cursor = None)
    BY <1>0, <2>1, NoConfigTyped
  <2>5. LoginReady'
    BY <2>2 DEF DeliveryInv, LoginReady
  <2>6. secrets' \in SecretsType
    BY <1>0, <2>1
  <2>7. DeliveryInv'
    BY <2>1, <2>2, <2>3, <2>4, <2>5, <2>6, LoginStep
  <2>8. QED
    BY <2>1, <2>3, <2>7
<1>2. ASSUME NEW k \in Keys, NEW w \in Workspaces, PollApproved(k, w)
      PROVE  DeliveryInv' /\ UNCHANGED <<events, log>>
  <2>1. /\ InsertApiKey(k, w) /\ UNCHANGED <<log, config, secrets, ships, disturbed>>
        /\ login' = [login EXCEPT !.pc = "approved", !.key = k, !.workspaceId = w]
    BY <1>2 DEF PollApproved
  <2>2. IngestInv'
    BY <2>1, InvStep DEF DeliveryInv, IngestNext
  <2>3. UNCHANGED <<events, reqs>>
    BY <2>1 DEF InsertApiKey
  <2>4. login' \in LoginType /\ login'.key = k /\ login'.workspaceId = w
    BY <1>0, <2>1 DEF LoginType
  <2>5. LoginReady'
    BY <2>4, BodiesAssumption, DeliveryAssumption DEF LoginReady
  <2>6. DeliveryInv'
    BY <1>0, <2>1, <2>2, <2>3, <2>4, <2>5, LoginStep
  <2>7. QED
    BY <2>1, <2>3, <2>6
<1>3. ASSUME NEW m \in Machines, NEW x \in PublicKeys, RegisterMachine(m, x)
      PROVE  DeliveryInv' /\ UNCHANGED <<events, log>>
  <2> DEFINE body == [kind |-> "register", key |-> login.key,
                      workspaceId |-> login.workspaceId, machineId |-> m,
                      publicKey |-> x, batch |-> << >>]
  <2>1. /\ login.pc = "approved"
        /\ secrets' = [secrets EXCEPT !.privateKey = x]
        /\ login' = [login EXCEPT !.pc = "registering", !.machineId = m]
        /\ Send(LoginSlot, body)
        /\ UNCHANGED <<log, config, ships, disturbed>>
    BY <1>3 DEF RegisterMachine
  <2>2. body \in Body /\ body.kind = "register"
    <3>1. login.key \in Keys /\ login.workspaceId \in Workspaces
      BY <1>0, <2>1 DEF DeliveryInv, LoginReady, LoginType
    <3>2. << >> \in Seq(Events)
      OBVIOUS
    <3>3. QED
      BY <3>1, <3>2 DEF Body
  <2> HIDE DEF body
  <2>3. /\ reqs[LoginSlot].pc = "idle" /\ UNCHANGED <<dbVars, loopVars>>
        /\ reqs' = [reqs EXCEPT ![LoginSlot] = Sent(body)]
    BY <2>1 DEF Send, Sent
  <2>4. /\ Sent(body) \in RequestType /\ Sent(body).pc = "sent"
        /\ Sent(body).status = 0 /\ Sent(body).body = body
    BY <2>2, SentTyped
  <2>5. LoginSlot \in Slots
    BY DeliveryAssumption
  <2>6. IngestInv' /\ UNCHANGED events
    BY <2>2, <2>3, <2>4, <2>5, RequestReplaced DEF DeliveryInv, dbVars
  <2>7. \A t \in Slots : \/ reqs'[t] = reqs[t]
                         \/ t = LoginSlot /\ reqs'[t] = Sent(body)
    BY <1>0, <2>3 DEF IngestTypeOK
  <2>8. secrets' \in SecretsType /\ login' \in LoginType /\ login'.pc = "registering"
    BY <1>0, <2>1 DEF SecretsType, LoginType
  <2>9. LoginReady'
    BY <2>8 DEF LoginReady
  <2>10. DeliveryInv'
    BY <1>0, <2>1, <2>2, <2>4, <2>6, <2>7, <2>8, <2>9, LoginStep
  <2>11. QED
    BY <2>1, <2>6, <2>10
<1>4. CASE FinishLogin
  <2>1. /\ Collect(LoginSlot) /\ UNCHANGED <<log, ships>>
        /\ secrets' = [secrets EXCEPT !.apiKey = login.key]
        /\ config' = [NoConfig EXCEPT !.workspaceId = login.workspaceId,
                                      !.machineId = login.machineId]
        /\ login' = NoLogin /\ disturbed' = Len(log)
    BY <1>4 DEF FinishLogin
  <2>2. IngestInv'
    BY <2>1, InvStep, DeliveryAssumption DEF DeliveryInv, IngestNext
  <2>3. UNCHANGED events /\ \A t \in Slots : reqs'[t] = reqs[t] \/ reqs'[t].pc = "idle"
    <3>1. UNCHANGED events /\ reqs' = [reqs EXCEPT ![LoginSlot] = NoRequest]
      BY <2>1 DEF Collect, dbVars
    <3>2. QED
      BY <1>0, <3>1, NoRequestIdle DEF IngestTypeOK
  <2>4. /\ secrets' \in SecretsType /\ login' \in LoginType
        /\ config' \in ConfigType /\ config'.cursor = None
    BY <1>0, <2>1, NoConfigTyped DEF SecretsType, LoginType, ConfigType, NoConfig
  <2>5. LoginReady'
    BY <2>1 DEF LoginReady, NoLogin
  <2>6. DeliveryInv'
    BY <2>1, <2>2, <2>3, <2>4, <2>5, LoginStep
  <2>7. QED
    BY <2>1, <2>3, <2>6
<1>5. QED
  BY <1>1, <1>2, <1>3, <1>4 DEF Login

(***************************************************************************)
(* The theorems                                                            *)
(***************************************************************************)
LEMMA DeliveryInvStep == DeliveryInv /\ [DeliveryNext]_deliveryVars => DeliveryInv'
<1> SUFFICES ASSUME DeliveryInv, [DeliveryNext]_deliveryVars
             PROVE  DeliveryInv'
  OBVIOUS
<1>1. ASSUME NEW p \in Shippers, NEW e \in Events, RecordBlock(e, p)
      PROVE  DeliveryInv'
  BY <1>1, RecordBlockKeepsInv
<1>2. ASSUME NEW p \in Shippers, Ship(p) \/ GiveUp(p)
      PROVE  DeliveryInv'
  BY <1>2, StartShipKeepsInv, BatchAcceptedKeepsInv, BatchRefusedKeepsInv,
     GiveUpKeepsInv DEF Ship
<1>3. CASE Login \/ Logout
  BY <1>3, LoginKeepsInv
<1>4. ASSUME NEW s \in Slots, Serve(s) \/ LoseRequest(s) \/ DropAnswer(s)
      PROVE  DeliveryInv'
  BY <1>4, ServiceKeepsInv
<1>5. CASE ServiceCrash
  BY <1>5, CrashKeepsInv
<1>6. ASSUME NEW k \in Keys, Revoke(k)
      PROVE  DeliveryInv'
  BY <1>6, RevokeKeepsInv
<1>7. CASE UNCHANGED deliveryVars
  <2>1. UNCHANGED ingestVars /\ UNCHANGED clientVars /\ disturbed' = disturbed
    BY <1>7 DEF deliveryVars
  <2>2. IngestInv'
    BY <2>1, InvStep DEF DeliveryInv
  <2>3. UNCHANGED <<events, reqs>>
    BY <2>1 DEF ingestVars, dbVars
  <2>4. QED
    BY <2>1, <2>2, <2>3, ServiceStep
<1>8. QED
  BY <1>1, <1>2, <1>3, <1>4, <1>5, <1>6, <1>7 DEF DeliveryNext

LEMMA DeliveryInvCorrect == DeliverySpec => []DeliveryInv
BY DeliveryInvInit, DeliveryInvStep, PTL DEF DeliverySpec

LEMMA ConfirmedIsHeld ==
  ASSUME DeliveryInv
  PROVE  Confirmed = After(config.cursor, log) - 1 /\ Confirmed \in 0 .. Len(events)
<1>1. IndexAfter(config.cursor) = After(config.cursor, log)
  BY DEF IndexAfter, After
<1>2. After(config.cursor, log) \in 1 .. Len(events) + 1
  BY Lengths, AfterCursor DEF DeliveryInv, CursorsCover
<1>3. QED
  BY <1>1, <1>2, Lengths DEF Confirmed

\* Whatever shippers overlap, requests are lost, batches are refused and logins
\* come between, the cursor in the config file never passes an event that is not
\* in the database of the service (shipEvents, POST /v1/events).
THEOREM NothingSkipped == DeliverySpec => []DeliverySafe
<1>1. DeliveryInv => DeliverySafe
  <2> SUFFICES ASSUME DeliveryInv, NEW i \in 1 .. Confirmed
               PROVE  Stored(log[i])
    BY DEF DeliverySafe, CursorSafe, DeliveryInv
  <2>1. i \in 1 .. Len(events) /\ DOMAIN events = 1 .. Len(events)
    BY ConfirmedIsHeld, Lengths
  <2>2. events[i].eventId = log[i]
    BY <2>1 DEF DeliveryInv, RowsArePrefix
  <2>3. QED
    BY <2>1, <2>2 DEF Stored
<1>2. QED
  BY <1>1, DeliveryInvCorrect, PTL

\* How the refinement mapping reads the client and the database.
MappedState ==
  /\ Confirmed = After(config.cursor, log) - 1
  /\ Confirmed \in 0 .. Len(events)
  /\ Len(Collected) = Len(events)
  /\ Collected \in Seq(Events)
  /\ \A i \in 1 .. Len(events) : Collected[i] = events[i].eventId

LEMMA MappedStateHolds == DeliveryInv => MappedState
<1> SUFFICES ASSUME DeliveryInv
             PROVE  MappedState
  OBVIOUS
<1>1. /\ DOMAIN events = 1 .. Len(events) /\ Len(events) \in Nat
      /\ \A i \in 1 .. Len(events) : events[i] \in RowType
  BY Lengths
<1>2. \A i \in 1 .. Len(events) : events[i].eventId \in Events
  BY <1>1 DEF RowType
<1>3. Collected = [i \in 1 .. Len(events) |-> events[i].eventId]
  BY <1>1 DEF Collected
<1>4. Collected \in Seq(Events) /\ Len(Collected) = Len(events)
  BY <1>1, <1>2, <1>3
<1>5. QED
  BY <1>1, <1>3, <1>4, ConfirmedIsHeld DEF MappedState

\* One computer with its shippers, logins and logouts, and the service with its
\* crashes, implement EventCollection: what the service holds is always the
\* beginning of the log, and nothing else counts as shipped.
THEOREM ShippingCollects == DeliverySpec => Collects
<1>1. DeliveryInit => Collection!Init
  <2> SUFFICES ASSUME DeliveryInit
               PROVE  Collection!Init
    OBVIOUS
  <2>1. DeliveryInv /\ log = << >> /\ events = << >>
    BY DeliveryInvInit DEF DeliveryInit, IngestInit
  <2>2. Len(events) = 0
    BY <2>1
  <2>3. Len(Collected) = 0 /\ Collected \in Seq(Events) /\ Confirmed \in 0 .. 0
    BY <2>1, <2>2, MappedStateHolds DEF MappedState
  <2>4. Collected = << >>
    BY <2>3, EmptySeq
  <2>5. Confirmed = 0
    BY <2>3
  <2>6. QED
    BY <2>1, <2>4, <2>5 DEF Collection!Init
<1>2. DeliveryInv /\ MappedState /\ MappedState' /\ [DeliveryNext]_deliveryVars
        => [Collection!Next]_Collection!vars
  <2> SUFFICES ASSUME DeliveryInv, MappedState, MappedState', [DeliveryNext]_deliveryVars
               PROVE  [Collection!Next]_Collection!vars
    OBVIOUS
  <2>1. ASSUME UNCHANGED <<log, events>>
        PROVE  Collection!Confirm
    <3>1. Confirmed' \in 0 .. Len(events')
      BY DEF MappedState
    <3>2. Collected' = Collected /\ Len(Collected) = Len(events)
      BY <2>1 DEF Collected, MappedState
    <3>3. QED
      BY <2>1, <3>1, <3>2 DEF Collection!Confirm
  <2>2. ASSUME NEW p \in Shippers, NEW e \in Events, RecordBlock(e, p)
        PROVE  Collection!Next
    <3>1. UNCHANGED <<events, config>> /\ Grows(log, log')
      BY <2>2, RecordBlockKeepsInv
    <3>2. CASE log' = log
      BY <2>1, <3>1, <3>2 DEF Collection!Next
    <3>3. CASE log' # log
      <4>1. (\A i \in DOMAIN log : log[i] # e) /\ log' = Append(log, e)
        BY <2>2, <3>3 DEF RecordBlock, AppendEvent
      <4>2. Collected' = Collected
        BY <3>1 DEF Collected
      <4>3. Confirmed' = Confirmed
        <5>1. Confirmed = After(config.cursor, log) - 1
          BY DEF MappedState
        <5>2. Confirmed' = After(config'.cursor, log') - 1
          BY DEF MappedState
        <5>3. After(config.cursor, log') = After(config.cursor, log)
          BY <3>1, Lengths, AfterKept DEF DeliveryInv, CursorsCover
        <5>4. QED
          BY <3>1, <5>1, <5>2, <5>3
      <4>4. Collection!Record(e)
        BY <4>1, <4>2, <4>3 DEF Collection!Record
      <4>5. QED
        BY <4>4 DEF Collection!Next
    <3>4. QED
      BY <3>2, <3>3
  <2>3. ASSUME NEW s \in Slots, StoreItem(s), UNCHANGED clientVars
        PROVE  Collection!Collect
    <3>1. PICK row \in RowType : /\ Len(events) < Len(log)
                                 /\ row.eventId = log[Len(events) + 1]
                                 /\ events' = Append(events, row)
      BY <2>3, StoresNext
    <3>2. log' = log /\ config' = config
      BY <2>3 DEF clientVars
    <3>3. Confirmed' = Confirmed
      BY <3>2 DEF Confirmed, IndexAfter
    <3>4. Collected' = Append(Collected, log[Len(Collected) + 1])
      <4>1. /\ Len(Collected) = Len(events) /\ Collected \in Seq(Events)
            /\ \A i \in 1 .. Len(events) : Collected[i] = events[i].eventId
        BY DEF MappedState
      <4>2. /\ Len(Collected') = Len(events') /\ Collected' \in Seq(Events)
            /\ \A i \in 1 .. Len(events') : Collected'[i] = events'[i].eventId
        BY DEF MappedState
      <4>3. /\ Len(events') = Len(events) + 1 /\ Len(events) \in Nat
            /\ \A i \in 1 .. Len(events) : events'[i] = events[i]
            /\ events'[Len(events) + 1] = row
        BY <3>1, Lengths, AppendRow
      <4>4. log[Len(events) + 1] \in Events
        BY <3>1, Lengths
      <4>5. QED
        BY <3>1, <4>1, <4>2, <4>3, <4>4
    <3>5. QED
      BY <3>1, <3>2, <3>3, <3>4 DEF Collection!Collect, MappedState
  <2>4. CASE \E p \in Shippers : Ship(p) \/ GiveUp(p)
    <3>1. UNCHANGED <<log, events>>
      BY <2>4 DEF Ship, StartShip, BatchAccepted, BatchRefused, GiveUp, ingestVars, dbVars
    <3>2. QED
      BY <2>1, <3>1 DEF Collection!Next
  <2>5. CASE Login \/ Logout
    BY <2>1, <2>5, LoginKeepsInv DEF Collection!Next
  <2>6. ASSUME NEW s \in Slots, Serve(s)
        PROVE  Collection!Next
    <3>1. Handle(s) /\ UNCHANGED clientVars
      BY <2>6 DEF Serve
    <3>2. CASE StoreItem(s)
      BY <2>3, <3>1, <3>2 DEF Collection!Next
    <3>3. CASE ~StoreItem(s)
      <4>1. UNCHANGED <<log, events>>
        BY <3>1, <3>3 DEF Handle, BeginAuth, Register, CheckEvents, SkipDuplicate,
                          AcceptBatch, dbVars, clientVars
      <4>2. QED
        BY <2>1, <4>1 DEF Collection!Next
    <3>4. QED
      BY <3>2, <3>3
  <2>7. CASE \/ \E s \in Slots : LoseRequest(s) \/ DropAnswer(s)
             \/ ServiceCrash
             \/ \E k \in Keys : Revoke(k)
             \/ UNCHANGED deliveryVars
    <3>1. UNCHANGED <<log, events>>
      BY <2>7 DEF LoseRequest, DropAnswer, Lose, Collect, ServiceCrash, Crash, Revoke,
                  RevokeApiKey, dbVars, clientVars, deliveryVars, ingestVars
    <3>2. QED
      BY <2>1, <3>1 DEF Collection!Next
  <2>8. QED
    BY <2>2, <2>4, <2>5, <2>6, <2>7 DEF DeliveryNext
<1>3. QED
  BY <1>1, <1>2, MappedStateHolds, DeliveryInvCorrect, PTL
  DEF DeliverySpec, Collects, Collection!Spec


-----------------------------------------------------------------------------
(***************************************************************************)
(* The audit chain of what one computer ships to one workspace verifies,   *)
(* although requests are lost, repeated, overlap and are cut short by      *)
(* crashes.  Every row continues from the row before it, and when the      *)
(* batch loop stands at an event that is not stored yet, its prevHash is   *)
(* what the last row holds: the event before it in the batch, if there is  *)
(* one, is the last that was stored.  With a second workspace it need not  *)
(* be a row of the same chain.                                             *)
(***************************************************************************)
OneWorkspace == \A v, w \in Workspaces : v = w

\* What the first n rows end in.
EndOf(w, n) == IF n = 0 THEN GenesisHash(w) ELSE events[n].chainHash

RowsLinked ==
  \A i \in 1 .. Len(events) : events[i].prevHash = EndOf(events[i].workspaceId, i - 1)

LoopLinked ==
  \A s \in Slots :
    running = s /\ nextItem <= Len(reqs[s].body.batch) /\ ~Stored(ItemAt(s))
      => prevHash = EndOf(reqs[s].body.workspaceId, Len(events))

Linked == RowsLinked /\ LoopLinked


LEMMA PreviousItem ==
  ASSUME NEW l \in Seq(Events), Distinct(l), NEW n \in 0 .. Len(l),
         NEW b \in Seq(Events), Stretch(b, l, n), NEW k \in 1 .. Len(b), k > 1,
         \A i \in 1 .. Len(b) : i < k => Held(b[i], l, n),
         ~Held(b[k], l, n)
  PROVE  n > 0 /\ b[k - 1] = l[n]
<1>1. PICK a \in 0 .. n : /\ a + Len(b) <= Len(l)
                          /\ \A i \in 1 .. Len(b) : b[i] = l[a + i]
  BY DEF Stretch
<1>2. n < Len(l) /\ b[k] = l[n + 1]
  BY NextItem
<1>3. a + k \in 1 .. Len(l) /\ b[k] = l[a + k]
  BY <1>1
<1>4. n + 1 \in 1 .. Len(l)
  BY <1>2
<1>5. a + k = n + 1
  BY <1>2, <1>3, <1>4 DEF Distinct
<1>6. k - 1 \in 1 .. Len(b) /\ a + (k - 1) = n
  BY <1>5
<1>7. b[k - 1] = l[a + (k - 1)]
  BY <1>1, <1>6
<1>8. QED
  BY <1>1, <1>6, <1>7

LEMMA LastHashIsEnd ==
  ASSUME OneWorkspace, IngestTypeOK, NEW w \in Workspaces, NEW h \in LastChainHash(w)
  PROVE  h = EndOf(w, Len(events))
<1>1. /\ Len(events) \in Nat /\ DOMAIN events = 1 .. Len(events)
      /\ \A i \in 1 .. Len(events) : events[i].workspaceId = w
  BY EventsTyped DEF OneWorkspace, RowType
<1>2. CASE Len(events) = 0
  BY <1>1, <1>2 DEF LastChainHash, LastRow, EndOf
<1>3. CASE Len(events) > 0
  <2>1. LastRow(w) = {Len(events)}
    BY <1>1, <1>3 DEF LastRow
  <2>2. QED
    BY <1>3, <2>1 DEF LastChainHash, EndOf
<1>4. QED
  BY <1>1, <1>2, <1>3

\* A step that leaves the rows and the loop alone.
Quiet ==
  /\ events' = events
  /\ \A s \in Slots : running' = s =>
       /\ running = s /\ nextItem' = nextItem /\ prevHash' = prevHash
       /\ reqs'[s].body = reqs[s].body

LEMMA QuietLinked ==
  ASSUME Linked, Quiet
  PROVE  Linked'
BY DEF Linked, Quiet, RowsLinked, LoopLinked, EndOf, Stored, ItemAt

LEMMA OtherRequest ==
  ASSUME IngestTypeOK, NEW s \in Slots, reqs[s].pc # "looping", NEW r,
         reqs' = [reqs EXCEPT ![s] = r], UNCHANGED <<events, loopVars>>
  PROVE  Quiet
<1>1. /\ running # s
      /\ \A t \in Slots : t # s => reqs'[t] = reqs[t]
  BY DEF IngestTypeOK
<1>2. QED
  BY <1>1 DEF Quiet, loopVars

LEMMA ClientQuiet ==
  ASSUME DeliveryInv, NEW p \in Shippers,
         (\E e \in Events : RecordBlock(e, p)) \/ Ship(p) \/ GiveUp(p)
  PROVE  Quiet
<1>1. IngestTypeOK /\ p \in Slots
  BY Lengths DEF Shippers
<1>2. CASE (\E e \in Events : RecordBlock(e, p)) \/ GiveUp(p)
  BY <1>2 DEF RecordBlock, GiveUp, ingestVars, dbVars, loopVars, Quiet
<1>3. CASE StartShip(p)
  <2>1. UNCHANGED <<events, loopVars>> /\ reqs[p].pc = "idle"
    BY <1>3, <1>1 DEF StartShip, dbVars, DeliveryInv, BatchAwaited
  <2>2. UNCHANGED reqs \/ \E r : reqs' = [reqs EXCEPT ![p] = r]
    BY <1>3 DEF StartShip
  <2>3. QED
    BY <1>1, <2>1, <2>2, OtherRequest DEF Quiet, loopVars
<1>4. CASE BatchAccepted(p)
  <2>1. UNCHANGED <<events, loopVars>> /\ reqs[p].pc = "replied"
    BY <1>4 DEF BatchAccepted, dbVars
  <2>2. \E r : reqs' = [reqs EXCEPT ![p] = r]
    BY <1>4 DEF BatchAccepted
  <2>3. QED
    BY <1>1, <2>1, <2>2, OtherRequest
<1>5. CASE BatchRefused(p)
  BY <1>1, <1>5, OtherRequest DEF BatchRefused, dbVars
<1>6. QED
  BY <1>2, <1>3, <1>4, <1>5 DEF Ship

LEMMA LoginQuiet ==
  ASSUME DeliveryInv, Login \/ Logout
  PROVE  Quiet
<1>1. IngestTypeOK /\ LoginSlot \in Slots
  BY Lengths, DeliveryAssumption
<1>2. CASE StartLogin \/ AbortLogin \/ Logout
  BY <1>2 DEF StartLogin, AbortLogin, Logout, ingestVars, dbVars, loopVars, Quiet
<1>3. ASSUME NEW k \in Keys, NEW w \in Workspaces, PollApproved(k, w)
      PROVE  Quiet
  BY <1>3 DEF PollApproved, InsertApiKey, loopVars, Quiet
<1>4. ASSUME NEW m \in Machines, NEW p \in PublicKeys, RegisterMachine(m, p)
      PROVE  Quiet
  <2>1. PICK body : Send(LoginSlot, body)
    BY <1>4 DEF RegisterMachine
  <2>2. QED
    BY <1>1, <2>1, OtherRequest DEF Send, dbVars
<1>5. CASE FinishLogin
  <2>1. Collect(LoginSlot)
    BY <1>5 DEF FinishLogin
  <2>2. QED
    BY <1>1, <2>1, OtherRequest DEF Collect, dbVars
<1>6. QED
  BY <1>2, <1>3, <1>4, <1>5 DEF Login

LEMMA ServiceQuiet ==
  ASSUME DeliveryInv, NEW s \in Slots,
         \/ BeginAuth(s) \/ Register(s) \/ AcceptBatch(s) \/ Lose(s) \/ Collect(s)
         \/ CheckEvents(s) /\ running' # s
  PROVE  Quiet
<1>1. IngestTypeOK
  BY Lengths
<1>2. CASE Lose(s) \/ Collect(s)
  BY <1>1, <1>2, OtherRequest DEF Lose, Collect, dbVars
<1>3. CASE BeginAuth(s)
  BY <1>3, BodiesAssumption DEF BeginAuth, dbVars, loopVars, Quiet
<1>4. CASE Register(s)
  BY <1>4, BodiesAssumption DEF Register, loopVars, Quiet
<1>5. CASE AcceptBatch(s)
  BY <1>5, BodiesAssumption DEF AcceptBatch, LeaveLoop, dbVars, Quiet
<1>6. CASE CheckEvents(s) /\ running' # s
  <2>1. running' = None /\ UNCHANGED events
    BY <1>6 DEF CheckEvents, loopVars, dbVars
  <2>2. QED
    BY <2>1, BodiesAssumption DEF Quiet
<1>7. QED
  BY <1>2, <1>3, <1>4, <1>5, <1>6


LEMMA CheckLinked ==
  ASSUME OneWorkspace, DeliveryInv, Linked, NEW s \in Slots, CheckEvents(s), running' = s
  PROVE  Linked'
<1>1. /\ IngestTypeOK /\ reqs[s].pc = "verifying" /\ running = None /\ events' = events
  BY Lengths DEF CheckEvents, dbVars
<1>2. running # s
  BY <1>1, BodiesAssumption
<1>3. /\ reqs' = [reqs EXCEPT ![s].pc = "looping"]
      /\ prevHash' \in LastChainHash(reqs[s].body.workspaceId)
  BY <1>2 DEF CheckEvents, loopVars
<1>4. reqs[s].body \in Body /\ reqs'[s].body = reqs[s].body
  BY <1>1, <1>3 DEF IngestTypeOK, RequestType
<1>5. prevHash' = EndOf(reqs[s].body.workspaceId, Len(events))
  BY <1>1, <1>3, <1>4, LastHashIsEnd DEF Body
<1>6. QED
  BY <1>1, <1>4, <1>5 DEF Linked, RowsLinked, LoopLinked, EndOf

LEMMA StoreLinked ==
  ASSUME OneWorkspace, DeliveryInv, Linked, NEW s \in Slots, StoreItem(s)
  PROVE  Linked'
<1> DEFINE body == reqs[s].body
           row  == Row(ItemAt(s), body.workspaceId, body.machineId, prevHash)
           n    == Len(events)
<1>1. /\ IngestTypeOK /\ running = s /\ ~Stored(ItemAt(s)) /\ nextItem <= Len(body.batch)
      /\ events' = Append(events, row) /\ prevHash' = row.chainHash
      /\ reqs' = reqs /\ running' = running
  BY Lengths DEF StoreItem
<1>2. prevHash = EndOf(body.workspaceId, n)
  BY <1>1 DEF Linked, LoopLinked
<1>3. row.prevHash = prevHash /\ row.workspaceId = body.workspaceId
  BY DEF Row
<1> HIDE DEF row, body
<1>4. /\ events \in Seq(RowType) /\ n \in Nat
      /\ Len(events') = n + 1 /\ events'[n + 1] = row
      /\ \A i \in 1 .. n : events'[i] = events[i]
  BY <1>1, Lengths
<1>5. \A w, i : i \in 0 .. n => EndOf(w, i)' = EndOf(w, i)
  BY <1>4 DEF EndOf
<1>6. RowsLinked'
  <2> SUFFICES ASSUME NEW i \in 1 .. n + 1
               PROVE  events'[i].prevHash = EndOf(events[i].workspaceId, i - 1)'
    BY <1>4 DEF RowsLinked
  <2>1. CASE i = n + 1
    BY <1>2, <1>3, <1>4, <1>5, <2>1
  <2>2. CASE i \in 1 .. n
    <3>1. events[i].prevHash = EndOf(events[i].workspaceId, i - 1)
      BY <2>2 DEF Linked, RowsLinked
    <3>2. /\ events'[i] = events[i]
          /\ i - 1 = 0 \/ events'[i - 1] = events[i - 1]
      BY <1>4, <2>2
    <3>3. QED
      BY <3>1, <3>2 DEF EndOf
  <2>3. QED
    BY <1>4, <2>1, <2>2
<1>7. \A w : prevHash' = EndOf(w, Len(events))'
  BY <1>1, <1>4 DEF EndOf
<1>8. QED
  BY <1>6, <1>7 DEF Linked, LoopLinked

\* What a duplicate leaves in prevHash is the end of the chain, if the next event
\* is one that is not stored.
LEMMA SkipLinked ==
  ASSUME OneWorkspace, DeliveryInv, Linked, NEW s \in Slots, SkipDuplicate(s)
  PROVE  Linked'
<1> DEFINE b == reqs[s].body.batch
           n == Len(events)
<1>1. /\ IngestTypeOK /\ running = s /\ nextItem <= Len(b) /\ Stored(ItemAt(s))
      /\ prevHash' \in ChainHashForEvent(ItemAt(s)) /\ ItemAt(s) = b[nextItem]
      /\ nextItem' = nextItem + 1 /\ events' = events /\ reqs' = reqs /\ running' = running
  BY Lengths DEF SkipDuplicate, dbVars, ItemAt
<1>2. /\ reqs[s].pc = "looping" /\ reqs[s].body \in Body /\ nextItem \in Nat \ {0}
  BY <1>1 DEF IngestTypeOK
<1>3. reqs[s].body.kind = "events" /\ Stretch(b, log, n)
  BY <1>2 DEF DeliveryInv, BatchesFollow
<1>4. b \in Seq(Events) /\ DOMAIN b = 1 .. Len(b) /\ Len(b) \in Nat
  BY <1>2 DEF Body
<1>5. \A i \in 1 .. Len(b) : i < nextItem + 1 => Held(b[i], log, n)
  <2>1. \A i \in DOMAIN b : i < nextItem => Stored(b[i])
    BY <1>1 DEF DeliveryInv, IngestInv, LoopInv
  <2>2. \A i \in DOMAIN b : i < nextItem + 1 => Stored(b[i])
    BY <1>1, <1>2, <1>4, <2>1
  <2>3. QED
    BY <1>4, <2>2, StoredIsHeld
<1>6. ASSUME nextItem + 1 <= Len(b), ~Stored(b[nextItem + 1])
      PROVE  n > 0 /\ prevHash' = events[n].chainHash
  <2>1. ~Held(b[nextItem + 1], log, n)
    BY <1>6, StoredIsHeld
  <2>2. /\ log \in Seq(Events) /\ Distinct(log) /\ n \in 0 .. Len(log)
        /\ DOMAIN events = 1 .. n /\ n \in Nat
        /\ \A i \in 1 .. n : events[i].eventId = log[i]
    BY Lengths DEF DeliveryInv, RowsArePrefix
  <2>3. nextItem + 1 \in 1 .. Len(b) /\ nextItem + 1 > 1 /\ (nextItem + 1) - 1 = nextItem
    BY <1>2, <1>4, <1>6
  <2> HIDE DEF b, n
  <2>4. n > 0 /\ b[nextItem] = log[n]
    <3> DEFINE k == nextItem + 1
    <3>1. k \in 1 .. Len(b) /\ k > 1 /\ k - 1 = nextItem
      BY <2>3
    <3>2. (\A i \in 1 .. Len(b) : i < k => Held(b[i], log, n)) /\ ~Held(b[k], log, n)
      BY <1>5, <2>1
    <3> HIDE DEF k
    <3>3. n > 0 /\ b[k - 1] = log[n]
      BY <1>3, <1>4, <2>2, <3>1, <3>2, PreviousItem
    <3>4. QED
      BY <3>1, <3>3
  <2>5. PICK i \in 1 .. n : events[i].eventId = log[n] /\ prevHash' = events[i].chainHash
    BY <1>1, <2>2, <2>4 DEF ChainHashForEvent
  <2>6. i = n
    BY <2>2, <2>4, <2>5 DEF Distinct
  <2>7. QED
    BY <2>4, <2>5, <2>6
<1>7. RowsLinked'
  BY <1>1 DEF Linked, RowsLinked, EndOf
<1>8. LoopLinked'
  <2> SUFFICES ASSUME NEW t \in Slots, running' = t,
                      nextItem' <= Len(reqs'[t].body.batch), ~Stored(ItemAt(t))'
               PROVE  prevHash' = EndOf(reqs[t].body.workspaceId, Len(events))'
    BY DEF LoopLinked
  <2>1. t = s /\ nextItem + 1 <= Len(b) /\ ~Stored(b[nextItem + 1])
    BY <1>1 DEF ItemAt, Stored
  <2>2. n > 0 /\ prevHash' = events[n].chainHash
    BY <1>6, <2>1
  <2>3. QED
    BY <1>1, <2>2 DEF EndOf
<1>9. QED
  BY <1>7, <1>8 DEF Linked

LEMMA LinkedStep ==
  ASSUME OneWorkspace, DeliveryInv, Linked, [DeliveryNext]_deliveryVars
  PROVE  Linked'
<1>1. ASSUME NEW p \in Shippers,
             (\E e \in Events : RecordBlock(e, p)) \/ Ship(p) \/ GiveUp(p)
      PROVE  Linked'
  BY <1>1, ClientQuiet, QuietLinked
<1>2. CASE Login \/ Logout
  BY <1>2, LoginQuiet, QuietLinked
<1>3. ASSUME NEW s \in Slots, Serve(s)
      PROVE  Linked'
  <2>1. Handle(s)
    BY <1>3 DEF Serve
  <2>2. QED
    BY <2>1, ServiceQuiet, QuietLinked, CheckLinked, StoreLinked, SkipLinked DEF Handle
<1>4. ASSUME NEW s \in Slots, LoseRequest(s) \/ DropAnswer(s)
      PROVE  Linked'
  <2>1. Lose(s) \/ Collect(s)
    BY <1>4 DEF LoseRequest, DropAnswer
  <2>2. QED
    BY <2>1, ServiceQuiet, QuietLinked
<1>5. CASE ServiceCrash
  <2>1. running' = None /\ UNCHANGED events
    BY <1>5 DEF ServiceCrash, Crash, LeaveLoop, dbVars
  <2>2. QED
    BY <2>1, BodiesAssumption, QuietLinked DEF Quiet
<1>6. ASSUME NEW k \in Keys, Revoke(k)
      PROVE  Linked'
  BY <1>6, QuietLinked DEF Revoke, RevokeApiKey, loopVars, Quiet
<1>7. CASE UNCHANGED deliveryVars
  BY <1>7, QuietLinked DEF deliveryVars, ingestVars, dbVars, loopVars, Quiet
<1>8. QED
  BY <1>1, <1>2, <1>3, <1>4, <1>5, <1>6, <1>7 DEF DeliveryNext

LEMMA LinkedVerifies ==
  ASSUME OneWorkspace, DeliveryInv, Linked
  PROVE  ChainIntact
<1> SUFFICES ASSUME NEW w \in Workspaces, NEW j \in RowsOf(w, events)
             PROVE  /\ events[j].prevHash = ExpectedPrev(w, events, j)
                    /\ events[j].chainHash
                         = ComputeChainHash(events[j].prevHash, events[j].eventId)
  BY DEF ChainIntact, VerifyAuditChain, ChainBreaks
<1>1. /\ Len(events) \in Nat /\ DOMAIN events = 1 .. Len(events)
      /\ \A i \in 1 .. Len(events) : events[i].workspaceId = w
  BY Lengths, EventsTyped DEF OneWorkspace, RowType
<1>2. j \in 1 .. Len(events) /\ Earlier(w, events, j) = 1 .. j - 1
  BY <1>1 DEF RowsOf, Earlier
<1>3. events[j].prevHash = EndOf(w, j - 1)
  BY <1>1, <1>2 DEF Linked, RowsLinked
<1>4. ExpectedPrev(w, events, j) = EndOf(w, j - 1)
  <2>1. CASE j = 1
    BY <1>2, <2>1 DEF ExpectedPrev, EndOf
  <2>2. CASE j > 1
    <3>1. \A k \in 1 .. j - 1 : (\A i \in 1 .. j - 1 : i <= k) => k = j - 1
      BY <1>2, <2>2
    <3>2. j - 1 \in 1 .. j - 1 /\ \A i \in 1 .. j - 1 : i <= j - 1
      BY <1>2, <2>2
    <3>3. Latest(1 .. j - 1) = j - 1
      BY <3>1, <3>2 DEF Latest
    <3>4. QED
      BY <1>2, <2>2, <3>3 DEF ExpectedPrev, EndOf
  <2>3. QED
    BY <1>2, <2>1, <2>2
<1>5. QED
  BY <1>1, <1>2, <1>3, <1>4 DEF DeliveryInv, IngestInv, RowsHashed

\* The untampered rows of a workspace pass verifyAuditChain, if they are shipped from one
\* computer: no retry, no overlap of shippers, no new login and no crash within a
\* batch forks the chain (POST /v1/events, app.ts:254-301).
THEOREM OneChain ==
  ASSUME OneWorkspace
  PROVE  DeliverySpec => []ChainIntact
<1>1. DeliveryInit => Linked
  BY BodiesAssumption DEF DeliveryInit, IngestInit, Linked, RowsLinked, LoopLinked
<1>2. DeliveryInv /\ Linked /\ [DeliveryNext]_deliveryVars => Linked'
  BY LinkedStep
<1>3. DeliveryInv /\ Linked => ChainIntact
  BY LinkedVerifies
<1>4. QED
  BY <1>1, <1>2, <1>3, DeliveryInvCorrect, PTL DEF DeliverySpec

=============================================================================
