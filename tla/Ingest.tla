------------------------------- MODULE Ingest -------------------------------
(***************************************************************************)
(* The ingest service (services/ingest): API keys, machine registration    *)
(* and POST /v1/events, which appends event batches to the per-workspace   *)
(* audit hash chain.                                                       *)
(*                                                                         *)
(* The service is one Node process over a better-sqlite3 database.  A      *)
(* handler runs synchronously up to its only await (the argon2 check in    *)
(* authenticateApiKey) and, after it, synchronously to its reply.  The     *)
(* event loop therefore never interleaves two handlers inside the batch    *)
(* loop (running), but each INSERT commits by itself, and a crash of the   *)
(* process keeps the rows written so far.  Only App API, another process   *)
(* on the same database, acts between two iterations (RevokeApiKey).       *)
(***************************************************************************)
EXTENDS AuditChain, FiniteSets

CONSTANTS
  Workspaces,     \* tenants
  Keys,           \* key ids of workspace API keys
  Machines,       \* machine ids; the CLI draws a fresh one at every login
  PublicKeys,     \* ed25519 machine public keys
  Events,         \* events, each with its globally unique eventId
  Malformed,      \* events eventsBodySchema refuses (e.g. an oversized diff)
  Slots,          \* HTTP requests that may be in flight together (a bound)
  RequestBodies,  \* what the clients may send
  None

Hashes == Seq(Workspaces \cup Events)

Body == [kind        : {"register", "events"},
         key         : Keys,
         workspaceId : Workspaces,
         machineId   : Machines,
         publicKey   : PublicKeys,   \* registered, or matching the signature
         batch       : Seq(Events)]

ASSUME BodiesAssumption ==
  /\ RequestBodies \subseteq Body
  /\ Malformed \subseteq Events
  /\ None \notin Workspaces \cup Slots

VARIABLES
  apiKeys,    \* table api_keys: workspace and revoked flag of each issued key
  machines,   \* table machines: workspace and public key of each machine id
  events,     \* table events in rowid order
  reqs,       \* requests by slot
  running,    \* the slot whose handler is inside the batch loop, or None
  nextItem,   \* loop index
  prevHash    \* loop variable prevHash

dbVars   == <<apiKeys, machines, events>>
loopVars == <<running, nextItem, prevHash>>
ingestVars == <<dbVars, reqs, loopVars>>

NoKey     == [workspaceId |-> None, revoked |-> FALSE]
NoMachine == [workspaceId |-> None, publicKey |-> None]
NoRequest == [pc |-> "idle", body |-> None, auth |-> None, status |-> 0]

(***************************************************************************)
(* Queries                                                                 *)
(***************************************************************************)
Stored(e) == \E i \in DOMAIN events : events[i].eventId = e

\* SELECT chain_hash ... WHERE workspace_id = ? ORDER BY rowid DESC LIMIT 1
LastRow(w) ==
  {i \in DOMAIN events :
     /\ events[i].workspaceId = w
     /\ \A j \in DOMAIN events : events[j].workspaceId = w => j <= i}

\* getLastChainHash(...) ?? genesisHash(...)
LastChainHash(w) ==
  IF LastRow(w) = {} THEN {GenesisHash(w)}
                     ELSE {events[i].chainHash : i \in LastRow(w)}

\* SELECT chain_hash FROM events WHERE event_id = ?  (of any workspace)
ChainHashForEvent(e) ==
  {events[i].chainHash : i \in {j \in DOMAIN events : events[j].eventId = e}}

(***************************************************************************)
(* Clients and the network                                                 *)
(***************************************************************************)
Send(s, body) ==
  /\ reqs[s].pc = "idle"
  /\ reqs' = [reqs EXCEPT ![s] = [NoRequest EXCEPT !.pc = "sent", !.body = body]]
  /\ UNCHANGED <<dbVars, loopVars>>

\* The request never reaches the service.
Lose(s) ==
  /\ reqs[s].pc = "sent"
  /\ reqs' = [reqs EXCEPT ![s] = NoRequest]
  /\ UNCHANGED <<dbVars, loopVars>>

\* The answer reaches the client, or nobody waits for it any more.
Collect(s) ==
  /\ reqs[s].pc = "replied"
  /\ reqs' = [reqs EXCEPT ![s] = NoRequest]
  /\ UNCHANGED <<dbVars, loopVars>>

Reply(s, status) ==
  reqs' = [reqs EXCEPT ![s].pc = "replied", ![s].status = status]

(***************************************************************************)
(* authenticateApiKey up to its await: the key's row is read here, and     *)
(* neither its workspace nor its revocation is read again afterwards.      *)
(***************************************************************************)
KnownKey(k) == apiKeys[k].workspaceId # None /\ ~apiKeys[k].revoked

BeginAuth(s) ==
  /\ running = None
  /\ reqs[s].pc = "sent"
  /\ LET k == reqs[s].body.key
     IN  IF KnownKey(k)
         THEN reqs' = [reqs EXCEPT ![s].pc = "verifying",
                                   ![s].auth = apiKeys[k].workspaceId]
         ELSE Reply(s, 401)
  /\ UNCHANGED <<dbVars, loopVars>>

\* After the await, for what no body tells apart here: 401 to a secret that does
\* not match, 400 to a registration without the fields it needs.
RefuseAfterAwait(s) ==
  /\ running = None
  /\ reqs[s].pc = "verifying"
  /\ \/ Reply(s, 401)
     \/ reqs[s].body.kind = "register" /\ Reply(s, 400)
  /\ UNCHANGED <<dbVars, loopVars>>

(***************************************************************************)
(* POST /v1/machines/register after the await.  A machine id seen before   *)
(* gets the new public key but stays in the workspace it was created in.   *)
(***************************************************************************)
\* Faulty: the machine moves to the workspace of the last registration.
UpsertMachineMoving(m, w, p) ==
  machines' = [machines EXCEPT ![m] = [workspaceId |-> w, publicKey |-> p]]

UpsertMachine(m, w, p) ==
  machines' =
    [machines EXCEPT ![m] =
       [workspaceId |-> IF @.workspaceId = None THEN w ELSE @.workspaceId,
        publicKey   |-> p]]

Register(s) ==
  LET body == reqs[s].body
  IN  /\ running = None
      /\ reqs[s].pc = "verifying"
      /\ body.kind = "register"
      /\ IF body.workspaceId # reqs[s].auth
         THEN Reply(s, 403) /\ UNCHANGED machines
         ELSE /\ UpsertMachine(body.machineId, body.workspaceId, body.publicKey)
              /\ Reply(s, 200)
      /\ UNCHANGED <<apiKeys, events, loopVars>>

(***************************************************************************)
(* POST /v1/events after the await: the checks in their order, then the    *)
(* start of the batch loop.  Whether the rate limiter lets the request     *)
(* through depends on the clock and is left open here (withinLimit).       *)
(***************************************************************************)
\* verifyEd25519 over the raw bytes: the batch was signed with the private half
\* of this key; malformed hex counts as a signature by no key.
Verifies(body, publicKey) == body.publicKey = publicKey

EventsVerdict(body, auth, withinLimit) ==
  LET machine == machines[body.machineId]
  IN  CASE ~withinLimit                                     -> 429
        [] \E i \in DOMAIN body.batch :
             body.batch[i] \in Malformed                    -> 400
        [] body.workspaceId # auth                          -> 403
        [] machine.workspaceId # body.workspaceId           -> 403
        [] ~Verifies(body, machine.publicKey)               -> 401
        [] OTHER                                            -> 202

CheckEvents(s) ==
  LET body == reqs[s].body
  IN  /\ running = None
      /\ reqs[s].pc = "verifying"
      /\ body.kind = "events"
      /\ \E withinLimit \in BOOLEAN :
           LET verdict == EventsVerdict(body, reqs[s].auth, withinLimit)
           IN  IF verdict # 202
               THEN Reply(s, verdict) /\ UNCHANGED loopVars
               ELSE /\ reqs' = [reqs EXCEPT ![s].pc = "looping"]
                    /\ running' = s
                    /\ nextItem' = 1
                    /\ prevHash' \in LastChainHash(body.workspaceId)
      /\ UNCHANGED dbVars

(***************************************************************************)
(* One iteration of the batch loop: INSERT OR IGNORE either writes the row *)
(* chained to prevHash, or finds the event already stored; a duplicate     *)
(* moves prevHash to the hash stored with it.                              *)
(***************************************************************************)
\* Faulty: the handler is left with its loop still marked as running.
LeaveLoopRunning == running' = running /\ nextItem' = 1 /\ prevHash' = << >>

LeaveLoop == running' = None /\ nextItem' = 1 /\ prevHash' = << >>

ItemAt(s) == reqs[s].body.batch[nextItem]

\* Faulty: a plain INSERT into a table without the unique event id.
StoreItemAgain(s) ==
  /\ running = s
  /\ nextItem <= Len(reqs[s].body.batch)
  /\ LET row == Row(ItemAt(s), reqs[s].body.workspaceId,
                    reqs[s].body.machineId, prevHash)
     IN  /\ events' = Append(events, row)
         /\ prevHash' = row.chainHash
  /\ nextItem' = nextItem + 1
  /\ UNCHANGED <<apiKeys, machines, reqs, running>>

StoreItem(s) ==
  /\ running = s
  /\ nextItem <= Len(reqs[s].body.batch)
  /\ ~Stored(ItemAt(s))
  /\ LET row == Row(ItemAt(s), reqs[s].body.workspaceId,
                    reqs[s].body.machineId, prevHash)
     IN  /\ events' = Append(events, row)
         /\ prevHash' = row.chainHash
  /\ nextItem' = nextItem + 1
  /\ UNCHANGED <<apiKeys, machines, reqs, running>>

\* Faulty: the hash computed for the ignored insert is carried on.
SkipDuplicateComputed(s) ==
  /\ running = s
  /\ nextItem <= Len(reqs[s].body.batch)
  /\ Stored(ItemAt(s))
  /\ prevHash' = ComputeChainHash(prevHash, ItemAt(s))
  /\ nextItem' = nextItem + 1
  /\ UNCHANGED <<dbVars, reqs, running>>

SkipDuplicate(s) ==
  /\ running = s
  /\ nextItem <= Len(reqs[s].body.batch)
  /\ Stored(ItemAt(s))
  /\ prevHash' \in ChainHashForEvent(ItemAt(s))
  /\ nextItem' = nextItem + 1
  /\ UNCHANGED <<dbVars, reqs, running>>

\* Faulty: the answer does not wait for the inserts.
AcceptBatchEarly(s) ==
  /\ running = s
  /\ Reply(s, 202)
  /\ LeaveLoop
  /\ UNCHANGED dbVars

AcceptBatch(s) ==
  /\ running = s
  /\ nextItem > Len(reqs[s].body.batch)
  /\ Reply(s, 202)
  /\ LeaveLoop
  /\ UNCHANGED dbVars

(***************************************************************************)
(* The process dies and is restarted: requests being handled are forgotten *)
(* without an answer, rows already inserted stay.                          *)
(***************************************************************************)
Crash ==
  /\ \E s \in Slots : reqs[s].pc \in {"verifying", "looping"}
  /\ reqs' = [s \in Slots |->
                IF reqs[s].pc \in {"verifying", "looping"} THEN NoRequest
                                                          ELSE reqs[s]]
  /\ LeaveLoop
  /\ UNCHANGED dbVars

(***************************************************************************)
(* pollDeviceFlow inserts a key for an approved device code; App API's     *)
(* DELETE /v1/api-keys/:id revokes it.                                     *)
(***************************************************************************)
InsertApiKey(k, w) ==
  /\ running = None
  /\ apiKeys[k] = NoKey
  /\ apiKeys' = [apiKeys EXCEPT ![k].workspaceId = w]
  /\ UNCHANGED <<machines, events, reqs, loopVars>>

RevokeApiKey(k) ==
  /\ apiKeys[k].workspaceId # None
  /\ ~apiKeys[k].revoked
  /\ apiKeys' = [apiKeys EXCEPT ![k].revoked = TRUE]
  /\ UNCHANGED <<machines, events, reqs, loopVars>>

(***************************************************************************)
(* Specification                                                           *)
(***************************************************************************)
IngestInit ==
  /\ apiKeys = [k \in Keys |-> NoKey]
  /\ machines = [m \in Machines |-> NoMachine]
  /\ events = << >>
  /\ reqs = [s \in Slots |-> NoRequest]
  /\ running = None
  /\ nextItem = 1
  /\ prevHash = << >>

Handle(s) ==
  \/ BeginAuth(s)
  \/ Register(s)
  \/ CheckEvents(s)
  \/ StoreItem(s)
  \/ SkipDuplicate(s)
  \/ AcceptBatch(s)

IngestNext ==
  \/ \E s \in Slots : \/ \E body \in RequestBodies : Send(s, body)
                      \/ Lose(s)
                      \/ Collect(s)
                      \/ Handle(s)
                      \/ RefuseAfterAwait(s)
  \/ Crash
  \/ \E k \in Keys : \/ \E w \in Workspaces : InsertApiKey(k, w)
                     \/ RevokeApiKey(k)

IngestSpec == IngestInit /\ [][IngestNext]_ingestVars

(***************************************************************************)
(* Properties                                                              *)
(***************************************************************************)
RowType == [eventId     : Events,
            workspaceId : Workspaces,
            machineId   : Machines,
            prevHash    : Hashes,
            chainHash   : Hashes]

Phases   == {"idle", "sent", "verifying", "looping", "replied"}
Statuses == {0, 200, 202, 400, 401, 403, 429}

RequestType == [pc     : Phases,
                body   : Body \cup {None},
                auth   : Workspaces \cup {None},
                status : Statuses]

\* Shape of the database tables and of the requests in flight; a request
\* being handled has a body, and the batch loop belongs to one request.
IngestTypeOK ==
  /\ apiKeys \in [Keys -> [workspaceId : Workspaces \cup {None}, revoked : BOOLEAN]]
  /\ machines \in [Machines -> [workspaceId : Workspaces \cup {None},
                                publicKey   : PublicKeys \cup {None}]]
  /\ events \in Seq(RowType)
  /\ reqs \in [Slots -> RequestType]
  /\ running \in Slots \cup {None}
  /\ nextItem \in Nat \ {0}
  /\ prevHash \in Hashes
  /\ \A s \in Slots : reqs[s].pc # "idle" => reqs[s].body \in Body
  /\ \A s \in Slots : reqs[s].pc = "looping" <=> running = s

\* A hash that exists in the database before row i is written: the genesis of
\* some workspace or the chain hash of an earlier row.
PersistedBefore(h, i) ==
  \/ \E w \in Workspaces : h = GenesisHash(w)
  \/ \E j \in DOMAIN events : j < i /\ events[j].chainHash = h

\* Every row is chained to a hash that was really persisted before it, never to
\* one computed for an insert that was ignored (app.ts:296-301), whatever
\* batches are retried, overlap or are cut short by a crash.
PrevHashPersisted ==
  \A i \in DOMAIN events : PersistedBefore(events[i].prevHash, i)

\* A 202 answer means every event of the batch is in the database, although an
\* insert of it may have been ignored and rows are committed one by one.
AcceptedMeansStored ==
  \A s \in Slots :
    reqs[s].status = 202 =>
      \A i \in DOMAIN reqs[s].body.batch : Stored(reqs[s].body.batch[i])

\* Tenant isolation: every row lies in the workspace its machine is registered
\* in, also after the machine id has been registered again with another key.
RowsInMachineWorkspace ==
  \A i \in DOMAIN events :
    machines[events[i].machineId].workspaceId = events[i].workspaceId

\* Following prevHash from any row walks back over rows stored before it, never
\* into a cycle and never to an event that was refused or computed but not stored.
\* The rows may be of another workspace, which an auditor of the row's own cannot
\* see: after a login to a second one (app.ts:301) they are.  ChainIntact excludes
\* that, and does not hold then.
ChainIsHistory ==
  \A i \in DOMAIN events :
    \A n \in 2 .. Len(events[i].prevHash) :
      \E j \in 1 .. i - 1 : /\ events[j].eventId = events[i].prevHash[n]
                           /\ events[j].eventId # events[i].eventId

\* What the export promises the auditor: the untampered rows of a workspace pass
\* verifyAuditChain.
ChainIntact ==
  \A w \in Workspaces : VerifyAuditChain(w, events)

=============================================================================
