------------------------------ MODULE Delivery ------------------------------
(***************************************************************************)
(* One computer running the CLI (packages/cli-node) against the ingest     *)
(* service: the local event log, shipEvents with its cursor in             *)
(* ~/.mcpseal/config.json, login and logout.                               *)
(*                                                                         *)
(* Every MCP server has a proxy process of its own, and a proxy starts one *)
(* shipEvents per blocked tool without waiting for the previous one, so    *)
(* several run at once; they and `mcpseal login` / `logout` share three    *)
(* things without a lock: the log, the config file and the OS keychain.    *)
(* shipEvents reads the config once and writes that copy back, with a new  *)
(* cursor, after every batch the service accepted.                         *)
(***************************************************************************)
EXTENDS Ingest

CONSTANTS
  LoginSlot,    \* the slot `mcpseal login` sends its request in
  BatchSize,    \* MAX_BATCH_SIZE
  MayLogout     \* whether the user ever logs out (a bound)

Shippers == Slots \ {LoginSlot}

ASSUME DeliveryAssumption ==
  /\ LoginSlot \in Slots
  /\ BatchSize \in Nat \ {0}
  /\ MayLogout \in BOOLEAN
  /\ None \notin Events \cup Keys \cup Machines \cup PublicKeys

VARIABLES
  log,         \* ~/.mcpseal/events.jsonl
  config,      \* ~/.mcpseal/config.json
  secrets,     \* the two entries of the OS keychain
  ships,       \* running calls of shipEvents
  login,       \* the running `mcpseal login`, if any
  disturbed    \* history: length of the log when shipping was last disturbed

clientVars   == <<log, config, secrets, ships, login>>
deliveryVars == <<ingestVars, clientVars, disturbed>>

NoConfig  == [workspaceId |-> None, machineId |-> None, cursor |-> None]
NoSecrets == [apiKey |-> None, privateKey |-> None]
NoShip    == [pc |-> "idle", cfg |-> NoConfig, key |-> None, signer |-> None,
              todo |-> << >>]
NoLogin   == [pc |-> "idle", key |-> None, workspaceId |-> None,
              machineId |-> None]

IsLoggedIn == config.workspaceId # None /\ config.machineId # None

(***************************************************************************)
(* shipEvents                                                              *)
(***************************************************************************)
\* First position of the log after the cursor; a cursor that is absent from
\* the log starts over.
IndexAfter(cursor) ==
  IF \E i \in DOMAIN log : log[i] = cursor
  THEN 1 + CHOOSE i \in DOMAIN log : log[i] = cursor
  ELSE 1

Unshipped(cursor) == SubSeq(log, IndexAfter(cursor), Len(log))

BatchLen(todo) == IF Len(todo) < BatchSize THEN Len(todo) ELSE BatchSize
Batch(todo)    == SubSeq(todo, 1, BatchLen(todo))
Rest(todo)     == SubSeq(todo, BatchLen(todo) + 1, Len(todo))

EventsPost(ship) ==
  [kind |-> "events", key |-> ship.key, workspaceId |-> ship.cfg.workspaceId,
   machineId |-> ship.cfg.machineId, publicKey |-> ship.signer,
   batch |-> Batch(ship.todo)]

Sent(body) == [NoRequest EXCEPT !.pc = "sent", !.body = body]

\* appendEvent: a fresh event at the end of the log, or a warning when the file
\* cannot be written.
AppendEvent(e) ==
  \/ /\ \A i \in DOMAIN log : log[i] # e
     /\ log' = Append(log, e)
  \/ UNCHANGED log

\* The proxy blocks a tool: it logs the event and, whether that worked or not,
\* starts to ship, which reads the config and goes no further when nobody is
\* logged in.
RecordBlock(e, p) ==
  /\ ships[p].pc = "idle"
  /\ reqs[p].pc = "idle"
  /\ AppendEvent(e)
  /\ ships' = [ships EXCEPT ![p] =
                 IF IsLoggedIn THEN [NoShip EXCEPT !.pc = "starting", !.cfg = config]
                               ELSE NoShip]
  /\ UNCHANGED <<ingestVars, config, secrets, login, disturbed>>

\* The keychain and the log are read, and the first batch is posted.
StartShip(p) ==
  /\ ships[p].pc = "starting"
  /\ LET ship == [ships[p] EXCEPT !.pc     = "waiting",
                                  !.key    = secrets.apiKey,
                                  !.signer = secrets.privateKey,
                                  !.todo   = Unshipped(ships[p].cfg.cursor)]
     IN  IF None \in {ship.key, ship.signer} \/ ship.todo = << >>
         THEN ships' = [ships EXCEPT ![p] = NoShip] /\ UNCHANGED reqs
         ELSE /\ ships' = [ships EXCEPT ![p] = ship]
              /\ reqs' = [reqs EXCEPT ![p] = Sent(EventsPost(ship))]
  /\ UNCHANGED <<dbVars, loopVars, log, config, secrets, login, disturbed>>

\* Faulty: the cursor moves past events that were not in the batch.
BatchAcceptedTooFar(p) ==
  /\ ships[p].pc = "waiting"
  /\ reqs[p].pc = "replied"
  /\ reqs[p].status = 202
  /\ LET todo == ships[p].todo
         ship == [ships[p] EXCEPT !.cfg.cursor = todo[Len(todo)],
                                  !.todo = Rest(todo)]
     IN  /\ config' = ship.cfg
         /\ IF ship.todo = << >>
            THEN /\ ships' = [ships EXCEPT ![p] = NoShip]
                 /\ reqs' = [reqs EXCEPT ![p] = NoRequest]
            ELSE /\ ships' = [ships EXCEPT ![p] = ship]
                 /\ reqs' = [reqs EXCEPT ![p] = Sent(EventsPost(ship))]
  /\ UNCHANGED <<dbVars, loopVars, log, secrets, login, disturbed>>

\* Faulty: only the first batch is shipped.
BatchAcceptedOnce(p) ==
  /\ ships[p].pc = "waiting"
  /\ reqs[p].pc = "replied"
  /\ reqs[p].status = 202
  /\ config' = [ships[p].cfg EXCEPT !.cursor = ships[p].todo[BatchLen(ships[p].todo)]]
  /\ ships' = [ships EXCEPT ![p] = NoShip]
  /\ reqs' = [reqs EXCEPT ![p] = NoRequest]
  /\ UNCHANGED <<dbVars, loopVars, log, secrets, login, disturbed>>

\* A batch is accepted: the cursor moves to its last event in the copy of the
\* config this call holds, the copy replaces the file, the next batch follows.
BatchAccepted(p) ==
  /\ ships[p].pc = "waiting"
  /\ reqs[p].pc = "replied"
  /\ reqs[p].status = 202
  /\ LET todo == ships[p].todo
         ship == [ships[p] EXCEPT !.cfg.cursor = todo[BatchLen(todo)],
                                  !.todo = Rest(todo)]
     IN  /\ config' = ship.cfg
         /\ IF ship.todo = << >>
            THEN /\ ships' = [ships EXCEPT ![p] = NoShip]
                 /\ reqs' = [reqs EXCEPT ![p] = NoRequest]
            ELSE /\ ships' = [ships EXCEPT ![p] = ship]
                 /\ reqs' = [reqs EXCEPT ![p] = Sent(EventsPost(ship))]
  /\ UNCHANGED <<dbVars, loopVars, log, secrets, login, disturbed>>

\* Faulty: a refused batch counts as shipped.
BatchRefusedAdvancing(p) ==
  /\ ships[p].pc = "waiting"
  /\ reqs[p].pc = "replied"
  /\ reqs[p].status # 202
  /\ config' = [ships[p].cfg EXCEPT !.cursor = ships[p].todo[BatchLen(ships[p].todo)]]
  /\ ships' = [ships EXCEPT ![p] = NoShip]
  /\ reqs' = [reqs EXCEPT ![p] = NoRequest]
  /\ UNCHANGED <<dbVars, loopVars, log, secrets, login, disturbed>>

\* Any other status ends the call; the cursor stays.
BatchRefused(p) ==
  /\ ships[p].pc = "waiting"
  /\ reqs[p].pc = "replied"
  /\ reqs[p].status # 202
  /\ ships' = [ships EXCEPT ![p] = NoShip]
  /\ reqs' = [reqs EXCEPT ![p] = NoRequest]
  /\ UNCHANGED <<dbVars, loopVars, log, config, secrets, login, disturbed>>

\* fetch throws, or the proxy process dies.  The service may still be handling
\* the request.
GiveUp(p) ==
  /\ ships[p].pc \in {"starting", "waiting"}
  /\ ships' = [ships EXCEPT ![p] = NoShip]
  /\ disturbed' = Len(log)
  /\ UNCHANGED <<ingestVars, log, config, secrets, login>>

(***************************************************************************)
(* mcpseal login and logout                                                *)
(***************************************************************************)
StartLogin ==
  /\ login.pc = "idle"
  /\ reqs[LoginSlot].pc = "idle"
  /\ ~IsLoggedIn
  /\ login' = [NoLogin EXCEPT !.pc = "polling"]
  /\ UNCHANGED <<ingestVars, log, config, secrets, ships, disturbed>>

\* A poll finds the code approved for w: the service mints an API key.
PollApproved(k, w) ==
  /\ login.pc = "polling"
  /\ InsertApiKey(k, w)
  /\ login' = [login EXCEPT !.pc = "approved", !.key = k, !.workspaceId = w]
  /\ UNCHANGED <<log, config, secrets, ships, disturbed>>

Fresh(m, x) ==
  /\ machines[m] = NoMachine
  /\ \A n \in Machines : machines[n].publicKey # x

\* loadOrCreateMachineIdentity, then registration under a new machine id.
RegisterMachine(m, p) ==
  /\ login.pc = "approved"
  /\ machines[m] = NoMachine
  /\ IF secrets.privateKey # None THEN p = secrets.privateKey ELSE Fresh(m, p)
  /\ secrets' = [secrets EXCEPT !.privateKey = p]
  /\ login' = [login EXCEPT !.pc = "registering", !.machineId = m]
  /\ Send(LoginSlot,
          [kind |-> "register", key |-> login.key,
           workspaceId |-> login.workspaceId, machineId |-> m,
           publicKey |-> p, batch |-> << >>])
  /\ UNCHANGED <<log, config, ships, disturbed>>

\* The new config has no cursor: the whole log will be shipped again.
FinishLogin ==
  /\ login.pc = "registering"
  /\ reqs[LoginSlot].pc = "replied"
  /\ reqs[LoginSlot].status = 200
  /\ Collect(LoginSlot)
  /\ secrets' = [secrets EXCEPT !.apiKey = login.key]
  /\ config' = [NoConfig EXCEPT !.workspaceId = login.workspaceId,
                                !.machineId = login.machineId]
  /\ login' = NoLogin
  /\ disturbed' = Len(log)
  /\ UNCHANGED <<log, ships>>

\* login throws (refused, expired, network, pinned key) or is interrupted.
AbortLogin ==
  /\ login.pc # "idle"
  /\ login' = NoLogin
  /\ UNCHANGED <<ingestVars, log, config, secrets, ships, disturbed>>

Logout ==
  /\ MayLogout
  /\ IsLoggedIn \/ secrets # NoSecrets
  /\ config' = NoConfig
  /\ secrets' = NoSecrets
  /\ disturbed' = Len(log)
  /\ UNCHANGED <<ingestVars, log, ships, login>>

(***************************************************************************)
(* The service's side                                                      *)
(***************************************************************************)
Waiting(s) == IF s = LoginSlot THEN login.pc = "registering"
                               ELSE ships[s].pc = "waiting"

Serve(s) ==
  /\ Handle(s)
  /\ disturbed' = IF reqs'[s].status = 429 /\ reqs[s].status # 429
                  THEN Len(log) ELSE disturbed
  /\ UNCHANGED clientVars

LoseRequest(s) == Lose(s) /\ disturbed' = Len(log) /\ UNCHANGED clientVars

\* The answer to a request nobody waits for any more.
DropAnswer(s) == ~Waiting(s) /\ Collect(s) /\ UNCHANGED <<clientVars, disturbed>>

ServiceCrash == Crash /\ disturbed' = Len(log) /\ UNCHANGED clientVars

Revoke(k) == RevokeApiKey(k) /\ disturbed' = Len(log) /\ UNCHANGED clientVars

(***************************************************************************)
(* Specification                                                           *)
(***************************************************************************)
DeliveryInit ==
  /\ IngestInit
  /\ log = << >>
  /\ config = NoConfig
  /\ secrets = NoSecrets
  /\ ships = [p \in Shippers |-> NoShip]
  /\ login = NoLogin
  /\ disturbed = 0

Ship(p) == StartShip(p) \/ BatchAccepted(p) \/ BatchRefused(p)

Login ==
  \/ StartLogin
  \/ \E k \in Keys, w \in Workspaces : PollApproved(k, w)
  \/ \E m \in Machines, p \in PublicKeys : RegisterMachine(m, p)
  \/ FinishLogin
  \/ AbortLogin

DeliveryNext ==
  \/ \E p \in Shippers : \/ \E e \in Events : RecordBlock(e, p)
                         \/ Ship(p)
                         \/ GiveUp(p)
  \/ Login
  \/ Logout
  \/ \E s \in Slots : Serve(s) \/ LoseRequest(s) \/ DropAnswer(s)
  \/ ServiceCrash
  \/ \E k \in Keys : Revoke(k)

DeliverySpec == DeliveryInit /\ [][DeliveryNext]_deliveryVars

\* Node runs what is ready: pending I/O of the proxy and of the service makes
\* progress, and a fetch whose request or answer was lost fails in the end.
\* Nothing makes a tool be blocked, the user log in or the network fail.
DeliveryFairness ==
  /\ \A p \in Shippers :
       /\ WF_deliveryVars(Ship(p))
       /\ WF_deliveryVars(reqs[p].pc = "idle" /\ ships[p].pc = "waiting" /\ GiveUp(p))
  /\ \A s \in Slots : WF_deliveryVars(Serve(s))

FairDelivery == DeliverySpec /\ DeliveryFairness

(***************************************************************************)
(* Properties                                                              *)
(***************************************************************************)
ConfigType == [workspaceId : Workspaces \cup {None},
               machineId   : Machines \cup {None},
               cursor      : Events \cup {None}]

\* Shape of the shared files and of the running commands.  A waiting shipper
\* has something to ship, under complete credentials.
DeliveryTypeOK ==
  /\ IngestTypeOK
  /\ log \in Seq(Events)
  /\ config \in ConfigType
  /\ secrets \in [apiKey : Keys \cup {None}, privateKey : PublicKeys \cup {None}]
  /\ login \in [pc : {"idle", "polling", "approved", "registering"},
                key : Keys \cup {None}, workspaceId : Workspaces \cup {None},
                machineId : Machines \cup {None}]
  /\ disturbed \in 0 .. Len(log)
  /\ \A p \in Shippers :
       /\ ships[p].pc \in {"idle", "starting", "waiting"}
       /\ ships[p].cfg \in ConfigType
       /\ ships[p].pc = "waiting" => /\ ships[p].key \in Keys
                                     /\ ships[p].signer \in PublicKeys
                                     /\ ships[p].todo \in Seq(Events) \ {<< >>}

Collected == [i \in DOMAIN events |-> events[i].eventId]

\* How many events of the log the cursor in the config file covers.
Confirmed == IndexAfter(config.cursor) - 1

Collection == INSTANCE EventCollection
                WITH recorded <- log, collected <- Collected, confirmed <- Confirmed

\* The abstract promise of shipping (EventCollection) is kept by overlapping
\* shippers, lost requests and answers, crashes and changes of workspace.
Collects == Collection!Spec

\* An event the cursor has passed is in the database: no interleaving of
\* shippers writing back their copies of the config skips an event.
CursorSafe == \A i \in 1 .. Confirmed : Stored(log[i])

\* The two together: the shape of what the processes share, and no event skipped.
DeliverySafe == DeliveryTypeOK /\ CursorSafe

Connected ==
  IsLoggedIn /\ secrets.apiKey # None /\ ~apiKeys[secrets.apiKey].revoked

\* Once an event is recorded with nothing disturbing its shipping, everything
\* recorded up to it reaches the service, earlier failures notwithstanding.
NextBlockShipsAll ==
  \A n \in 1 .. Cardinality(Events) :
    (Connected /\ Len(log) = n /\ disturbed < n)
      ~> (Len(events) >= n \/ disturbed >= n)

\* doctor.ts:165: events recorded while offline are shipped once connectivity
\* returns.  A request that is lost once stands for being offline.
OfflineEventsShipped ==
  \A e \in Events :
    (Connected /\ \E p \in Shippers : \E i \in DOMAIN ships[p].todo : ships[p].todo[i] = e)
      ~> (Stored(e) \/ ~Connected)

\* doctor.ts:165 again, for an event that was recorded while connected and that
\* the service has no reason to refuse: nothing disturbs its shipping, and yet
\* the events before it, which are shipped in the same batch, may hold it up.
GoodEventsShipped ==
  \A n \in 1 .. Cardinality(Events) :
    (Connected /\ Len(log) = n /\ log[n] \notin Malformed /\ disturbed < n)
      ~> ((n \in DOMAIN log /\ Stored(log[n])) \/ disturbed >= n)

\* Logging out is undone by nothing but a login (cli.ts:293).
LogoutSticks == [][~IsLoggedIn /\ IsLoggedIn' => login.pc = "registering"]_deliveryVars

=============================================================================
