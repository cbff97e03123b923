# mcpseal: TLA+ models and proofs

mcpseal sits between an MCP client and MCP servers. It pins the tool definitions a
user has approved, blocks definitions that changed, reports what it blocked to a
hosted service, and lets an organization distribute signed lockfiles and audit a
hash chain of events. This directory holds TLA+ modules of that system, TLC
configurations for small instances, and proofs checked by TLAPS.

Paths below are relative to `src/`. "The CLI" is `packages/cli-node`;
`packages/cli-python` is a port of it that takes the same steps unless said otherwise.

## 1. Inventory

| Component | State it keeps | Operations | What is hard | What makes it correct |
|---|---|---|---|---|
| Drift check, lockfile (`packages/cli-core`) | `.mcp-lock.json` | `hashTool`, `checkDrift`, `readLockfile`, `writeLockfile` | write is truncate, then fill | a tool passes only if exactly that definition is approved, or the unknown-tool rule says so |
| Proxy (`proxy.ts`, `cli.ts`) | lockfile read at start; two streams | forwards lines, intercepts `tools/list` answers, logs blocks, starts shipping | the lockfile is a snapshot; errors inside the interception; either side may go first | the client never sees a definition the user did not pin, and otherwise sees what it would see without the proxy |
| Commands `init`, `scan`, `approve`, `deny` | none of their own | list the live server, read, change, write the lockfile | no lock; killed anywhere; after `install` they talk to the server through the proxy | what stands approved was approved by the user |
| `install`, `uninstall` | `.mcp.json`, `.mcp.json.mcpseal-backup` | back up, wrap, restore | killed between any two system calls | a wrapped config can be unwrapped again |
| `doctor`, error taxonomy (`doctor.ts`, `events.ts`) | none | checks the files and names a remedy for each failure | remedies depend on one another | following them ends in a healthy project, and healthy means routed |
| Event log (`event-log.ts`) | `~/.mcpseal/events.jsonl` | append, read back, newest blocks | appends of many processes, torn lines, equal timestamps | newest first; a torn line costs little |
| Shipping (`ship-events.ts`) | cursor in `~/.mcpseal/config.json` | ship in batches, move the cursor | one shipper per block and no lock; lost requests; kills | no event is skipped, none is stored twice, all arrive in the end |
| `login`, `logout`, identity, keychain | config file, two keychain entries | device flow, registration, removal | killed between the stores; a keychain that is locked or missing | who is logged in can use it; after logout nothing is left |
| `policy-pull` | recorded version, lockfile of the project | fetch, verify, replace, record | pulls overlap, one version for all projects, killed between two writes | only published policies; no older one, unless a signed one is sent again |
| MCP stdio client (`mcp-client.ts`, `mcp_client.py`) | pending requests | request with timer, close | late answers, exit with requests under way, a reader thread in Python | every request is settled, once, by a line that carries its id or by a failure |
| Ingest service (`services/ingest`) | SQLite: `api_keys`, `machines`, `events`, `device_codes`; rate limits in memory | register, receive events, device start/approve/poll, current policy | awaits of argon2, rows commit one by one, crashes, retried batches | tenants apart, 202 means stored, the hash chain verifies |
| App API (`services/app-api`) | the same database: `orgs`, `users`, `sessions`, `policies`, `sso_configs`, `subscriptions` | login, roles, SSO, SCIM, connecting machines, policies, audit export, live feed, billing | several statements per handler without a transaction, webhooks that repeat, a second process on the ingest tables | see the properties of `Accounts`, `Billing`, `AuditExport`, `LiveFeed` |
| Dashboard (`apps/dashboard`) | the answer a page shows | polls the live feed | polls overlap | what is shown is never replaced by something older |
| Infrastructure, scripts, `services/workers` | none, or not written yet | | | not modelled |

Interactions: the client starts a proxy per server; proxy and commands share the
lockfile; the proxy starts shippers; shippers, `login`, `logout` and `policy-pull`
share the config file and the keychain without a lock; the CLI calls the ingest
service over HTTP; the ingest service and App API are two processes on one SQLite
database and share no code, so some handlers exist twice (device approval), and some
tables of constants four times (the event taxonomy).

Concurrency: Node handlers interleave only at awaits. In the ingest service that is
the argon2 hash or verification; App API awaits nothing but `currentUser`. Every
SQLite statement commits by itself. CLI processes interleave at every system call. The
Python proxy and client have threads.

Every hazard that follows from this is listed in `PROJECT.json` under `hazards`,
with the properties that would catch it or a note.

## 2. Modules

| Module | Models | Theorems |
|---|---|---|
| `AuditChain` | the hash chain and `verifyAuditChain` (pure operators) | lemmas in `DeliveryProofs`, `ServicesProofs` |
| `Ingest` (extends AuditChain) | machine registration and event batches in the ingest service | `DeliveryProofs` |
| `EventCollection` | abstract: what shipping promises | |
| `Delivery` (extends Ingest, refines EventCollection) | one computer: log, cursor, shippers, login, logout, composed with the service | `DeliveryProofs` |
| `Drift` | `checkDrift`, `filterToolsListResult` (pure operators) | |
| `Enforcement` (extends Drift) | lockfile, proxy and the commands of one project | `EnforcementProofs` |
| `DirectSession` | abstract: a client and its server with nothing in between | |
| `ProxySession` (refines DirectSession) | forwarding and the ends of the proxy process, both ports | `StdioProofs` |
| `RequestReply` | abstract: a request/reply connection | |
| `StdioServer` | the MCP server, seen from its pipes (external) | |
| `McpClient`, `McpClientPython` (extend StdioServer, refine RequestReply) | the stdio client on an event loop, and on threads | `StdioProofs` |
| `Install` | `install` and `uninstall`, system call by system call | `LocalProofs` |
| `ErrorTaxonomy` | `classifyThrown` (pure operators) | |
| `LocalSetup` (extends ErrorTaxonomy) | a project, every command with its errors, `doctor` and a user who follows it | `LocalProofs` |
| `EventLog` | appending to and reading back `events.jsonl` | `LocalProofs` |
| `Credentials` | `login` and `logout` over config, keychain and registration | `LocalProofs` |
| `PolicySync` | publishing and pulling policies, with shippers on the same config | `PolicyProofs` |
| `DeviceFlow` | device codes, approval by two services, polls, login | `DeviceFlowProofs` |
| `RateLimiter` | the fixed windows of the ingest service | `ServicesProofs` |
| `AuditExport` (extends AuditChain) | what an auditor sees when rows were altered | `ServicesProofs` |
| `EventTaxonomy` | the four tables of codes and severities (pure operators) | |
| `LiveFeed` (extends EventTaxonomy) | `GET /v1/events` and the page that polls it | `ServicesProofs` |
| `Billing` | Stripe events mirrored into two tables | `ServicesProofs` |
| `Accounts` | organizations, users, sessions, roles, SSO, SCIM | `AccountsProofs` |

`MC<Module>.tla` holds what TLC needs of an instance (bodies clients may send,
symmetry, constraints). `MCServices`, `MCLocal` and `MCStdio` put several modules side by
side, see section 3; the constants of the modules are constants of theirs, so that theorems about
the compositions hold for all values too. Definitions whose comment begins with "Faulty:" are not part
of any specification: they are variants of the definition that follows, with a
mistake one could make in that code, and `PROJECT.json` (`mutants`) says which
property notices each of them. `PROJECT.json` (`map`) gives the source lines of every
definition. Where both CLIs have the same steps, the definitions of the steps are
mapped to the Node files and the definitions that gather them to the Python files.

### Ingest and AuditChain

`apiKeys`, `machines` and `events` are the tables; `reqs` are HTTP requests by slot
with the phase of their handler: sent, verifying (before the await of
`authenticateApiKey`), looping, replied. A handler reads its API key's row before the
await (`BeginAuth`) and never again. After it, `RefuseAfterAwait` answers 401 or 400 for what no body
tells apart here (a wrong secret, a registration without its fields), `Register` is one step, and
`CheckEvents` makes the checks in their order and enters the batch loop. The loop is one action per
iteration (`StoreItem`, `SkipDuplicate`), because each INSERT commits; `running` holds
the one request inside the loop, since there is no await in it. `Crash` forgets handlers
and keeps rows. App API may revoke a key between any two steps.

A hash is the sequence of what it commits to, which makes it collision free by
construction. The table is one sequence of rows in rowid order; the rows of one workspace are a
set of positions in it (`RowsOf`), so that "the row before" is the latest earlier position. Whether the rate limiter lets a request pass is left open here
(`RateLimiter` says when it does). A signature is valid when the body was signed with the
registered key.

### Delivery and EventCollection

`log`, `config` and `secrets` are the files and keychain entries; `ships` are running
calls of `shipEvents`, each with the copy of the config it read at its start, which it
writes back after every accepted batch; `login` is the running `mcpseal login`. A
shipper occupies one request slot of `Ingest`, so the composition is the conjunction of
the client's steps with those of the service. `GiveUp` stands for an exception of
`fetch`, for the death of the process, and, in the Python CLI, for the daemon thread
that ends with it. `FinishLogin` and `Logout` write config and keychain in one step here;
`Credentials` takes them apart.

`EventCollection` says it without files, requests or cursors: the service holds a
gapless prefix of the log in order without repetition, and the machine considers
shipped only what is there. `Collects` is the refinement, with the log, the stored
events and the position of the cursor as the abstract variables.

### Drift and Enforcement

A tool list maps names to definitions. `lockfile` is a lockfile, missing, or torn
(truncated and not yet filled). `proxy.lock` is the snapshot the proxy works from;
`delivered` is the list the client got last. Commands run as processes through listing,
reading, writing and filling; a listing goes through a proxy of its own (`inner`) when the
server is wrapped. `pinned` (history) holds what the user ever approved.

The server chooses the form of each list it sends (`Forms`): tools, tools and then a `null` item, or a
batch, an array of messages. Only the first is filtered. A null item makes the filter throw, and in a
batch `msg.result` is undefined (`proxy.ts:124`): both go to the client as they came (`unfiltered`,
history), and what a client makes of them is its own affair. The stdio client of the commands passes
over a batch, and `init` and `scan` fail at a null item.

### ProxySession and DirectSession

Lines only have a number, since `Enforcement` says what becomes of their content. `up`,
`toServer`, `down` are pipes; what the proxy has forwarded to the client is in `received`.
The Node process ends when its event loop has nothing left to wait for; the
Python main thread returns when the server is gone and its output is forwarded, or five
seconds after. `port` is chosen at the start. The Python thread that forwards the output may end
early, on a closed stream or a line that cannot be decoded (`OutputFails`, `proxy.py:135`); the session
then loses what comes after, as if the pipe had been cut. What becomes of a server that goes on writing into
a pipe nobody empties is not modelled. The refinement maps the proxy's two pipes to
the server onto one pipe, so "transparent" means: every session through the proxy, as seen by the
client and the server, is a session of the two without it.

### McpClient, McpClientPython, StdioServer and RequestReply

In the Node client every action is one callback of the event loop; `pending` and
`timers` are the map of waiters and their timers. The exit of the child and the data left in
its stdout are events of two handles, in either order. In the Python client a step ends where a
thread releases the condition or blocks; `responses` are the answers nobody has
taken. The server answers what it has read in any order, twice or never, writes lines that are no
answers, and exits when it likes. Among the other lines are requests of its own (ping, roots/list),
under ids it draws itself and so under those of the client, also before the client has used them.
Both clients match by id alone (`mcp-client.ts:81`, `mcp_client.py:62-65`), so that `RequestReply`
promises a line with the id, written by the server, and no more (`written`): that it is the answer is
`AnsweredByAnswer`, which neither client keeps.

### Install, LocalSetup, ErrorTaxonomy

`Install`: one action per system call. `config` and `backup` hold a document and how often it is
wrapped. The user edits the config only while no command runs. `before` (history) is
what `install` read.

`LocalSetup` has whole commands instead, each with all the ways it fails: what it prints is the code
that `classifyThrown` gives the message (`printed`). The config has one entry per server
(absent, direct, proxied), the lockfile the servers whose tool it approves. `Follow(i)` is the user
running a remedy of the i-th failed check. `added` (history) are servers entered by hand while
there is a backup. `Helpless` names the states doctor's remedies do not help in.

### EventLog

A process stamps its event and appends it; an append may be cut short, and the next one
continues its line. Times are compared as the text of the two ports' formats compares. The order
in which `recentBlocks` lists events is the place each has in it (`Place`: how many stand before it).

### Credentials

Login saves the identity, registers it, stores the key and writes the config; logout removes config,
key and identity; each is killed between any two. The keychain is usable, locked or
absent, for either port; the ports differ in whether a failed removal is reported. Keys and identities carry
the number they were created under, so that `retired` can tell what a logout was to remove; `passedOver`
(history) holds the secrets a logout reported as removed because the Node port ignores the error of a
locked keychain.

### PolicySync

A lockfile is represented by the policy a pull put there last and what the user did since: nothing,
`approve` and `deny` (`ChangeLocally`), or `init`, which replaces it (`ReplaceLocally`).
An answer has a number and, apart from it, the policy its text is, because the signature covers the
text only (`policy-sync.ts:89`) and the number is what is compared and recorded (`:105-106`). `AnswerPull`
is the service, however late; `AnswerOtherwise` is any other answer, among them the signed text of
any policy published so far next to any number. `replayed` (history) records that one of these came. Logging in again
is to the same organization.

### DeviceFlow

`codes` and `keys` are tables of the shared database; `polls` are poll requests at the
service: sent, hashing (the await), minted (key inserted, row not yet deleted),
answered. A request may reach the service twice and may be lost at any phase. Approval
exists in the ingest service (caller names the workspace; also the automatic approval
of development) and in App API (`ConnectMachine`, workspaces of the admin's
organization). Each is a SELECT with its checks and an UPDATE that checks nothing (`UpdateCode`);
`approving` holds, per service, the approval between the two, and the other service may do anything
there. Within one process nothing runs between the two statements; the model lets polls run there
also when the ingest service approves, which only adds behaviours. `approvals` is a history variable.

### RateLimiter, LiveFeed, EventTaxonomy

`RateLimiter` has a clock, the counters by key, and a history of arrivals with their fate; a
restart of the service forgets the counters. `LiveFeed` stores rows with
any time stamp, changes plans, and answers polls: the newest `Limit` rows of the organization,
from which those older than the plan's retention are then removed. `EventTaxonomy` holds the four
copies of the table as the four files have them. A time is a number; the code compares ISO texts
(`db.ts:409`), which order alike but for the digits below a millisecond that only the Python port writes
(`EventLog` has these).

### AuditExport

Rows are stored one by one, then rows are deleted, exchanged, edited, moved,
relabeled, given hashes computed anew (`RehashRow`), or forged (`ForgeRow`): the hash takes no key
(`audit.ts:32-42`), so whoever edits the table can do that too. Edited, forged and rehashed tables may verify
(`OnlyStoredVerifies` does not hold). What verification shows is stated as far as it goes:
`VerifiedIsStored` while no hash was computed anew, and `KeptHashIsStored` for everything up to a row whose
hash an auditor knows from before. `stored` and `done` are history variables. Rows are compared by place: the n-th row of a
workspace with the n-th that was stored for it.

### Billing

Stripe is external: it holds the subscriptions and emits events, each until it is
answered, and in any order; `outOfOrder` (history) holds the subscriptions one of whose events came before an
older one was answered. What is said of a row excepts its own subscription if it is among
these, and no other. `upsertSubscription` writes the row and `orgs.plan` in two statements;
`KilledBetweenWrites` stops after the first. `updated` always means the Team plan
(`billing.ts:83`).

### Accounts

Handlers are atomic, except that each may be cut short after any of its statements
(`LoginKilledEarly`, `LoginKilledLate`). Deactivation by SCIM is two steps, `ScimDeactivate` and then
`RevokeSessions` or, if the service is killed between the two, `RevokeKilled`; nothing else is handled
between them. The mark of a session (`disowned`, history) says that a deactivation has begun while it
existed, or was cut short. A token that is generated may or
may not reach the admin (`shown`). `sessions.org_id` is never read by the code and left
out. No handler sells the Enterprise plan, so `ChangePlan` changes it at any time.

## 3. Runs

| Run | What it shows | Bounds, and why they are enough |
|---|---|---|
| `ingest` | rows are chained to persisted hashes only, 202 means stored, rows stay in their machine's workspace, the chain walks back over stored history | one computer with two logins, two requests in flight, batches that are any stretch of a log of two events, one refused event: overlap, retry, partial batch, change of workspace and re-registration all occur; rows of the second workspace are chained to hashes of the first, which the properties allow and `ChainIntact` does not |
| `ingest_team` | violated: `ChainIntact` with two computers of one workspace | three events, one request at a time: the fork needs no concurrency, only a crash, another sender and a retry |
| `delivery` | the cursor never passes what the service holds (`DeliverySafe`); refinement of `EventCollection` | two shippers, two workspaces, two logins, two events in batches of one, logouts, one revocation |
| `delivery_fair` | what is recorded while nothing disturbs the shipping arrives, and with one computer the chain verifies | three events in batches of two, two shippers, all failures |
| `enforcement` | a list the proxy filters shows only pinned definitions or tools the rule lets pass, whatever unfiltered lists came before; lockfiles hold only what the user approved | lists as tools, with a null item, and in batches; one tool, two good definitions and one that cannot be hashed, two overlapping commands; entries of different tools do not interact except in whole-file writes, which one tool shows too |
| `policy` | only published policies are applied, whatever is answered; until a signed policy is sent again, the recorded version is never ahead of the lockfile (`PolicySafe`) and the lockfile never goes back (`ServiceNeverDowngrades`) | one pull at a time, two shippers, three versions, any signed policy next to any number |
| `device` | keys are for an approved workspace, the only approved one unless both services approved the code, and of the admin's organization if the dashboard alone did; login stores a valid key and ends | one code, approvals of both services overlapping between their statements, into two organizations; two polls each sent twice, four keys |
| `device_twice` | violated: `AtMostOneKey` | two polls |
| `accounts` | signing keys exist and changes come from admins (`Founded`), first users own, the sessions a deactivation found are dead from its first statement on and stay so once it is answered, a shown token stays valid | three users in two domains, two sessions |
| `services` | billing: row and plan agree, and both with Stripe unless events of the very subscription overtook each other (`Mirrors`), finally in any case; audit export: what verifies was stored unless hashes were computed anew, and up to a known hash even then; one alteration is one break; live feed: no newer row is missing and the severities agree (`FeedFaithful`); rate limiter: at most twice the limit in a window's length, and only a busy key is refused (`LimiterBounds`) | two organizations and subscriptions with two changes each, events in any order; three rows in two workspaces with two alterations; three rows, two of them shown; six requests of two keys over three windows |
| `local` | install: a wrapped config has a whole backup, which is restored exactly; setup: healthy means routed and what is hidden is not approved (`SetupSafe`), remedies lead to health; event log: newest first, losses bounded (`LogReadBack`); credentials: who is logged in has a usable key and a registered identity, a logout leaves nothing but what the Node port found behind a locked keychain | four documents; two servers and three edits or commands before doctor; three appends, up to two of them torn, more than one in a millisecond; two workspaces, six keys and identities, a keychain that may lock for either port |
| `stdio` | both clients implement `RequestReply` (`ClientReplies`, `PythonReplies`), no answer is lost to the reader thread; the proxy implements `DirectSession` (`Transparent`); every request settles, and the proxy ends with its client, in Python also with its server (`NobodyHangs`) | two requests, three lines of the server (answers, requests of its own under any id, `null`, an undecodable one); three lines either way |

`services`, `local` and `stdio` check several modules each. The modules of one run share no state: a
behaviour picks one of them at the start (`part`) and leaves the variables of the others as they are, so
the reachable states are those of each module by itself, side by side. `DeliverySafe`, `PolicySafe`,
`Founded` and the properties defined in `MCServices`, `MCLocal` and `MCStdio` are conjunctions
of named properties of the modules.

In `enforcement` four constraints keep the overlap of two commands small (`MCEnforcement`).
`ScanAlone`: `scan` runs without another command, it writes nothing another process reads.
`HashableInOverlap`, `UserWaits`: while two commands overlap, no definition that cannot be
hashed is reported (it only ends a command), and the user does not edit the policy, install or
uninstall; all of this happens between the steps of a single command. `DeliveredLast`: nothing
reads what the client got, so a state after a delivery is checked and its successors are
explored from the state before it. The theorems of `EnforcementProofs` need none of them. In
`delivery`, `OneRevocation` bounds revocations. Symmetry is used only where all properties are
invariants or action properties. `CHECK_DEADLOCK FALSE` appears where the system may
really stop: finite supplies of events, polls, edits and lines, finite tables, and sessions
and clients that are over.

Fairness. `delivery_fair`: the event loop runs what is ready, so a shipper goes on
(`Ship`), a fetch whose request or answer is gone fails at last (`GiveUp` in that state
only), and the service handles what it got (`Serve`). Nothing makes a tool be
blocked, a login happen or a network recover; `NextBlockShipsAll` therefore asks for an
event with no disturbance after it (`disturbed`, a history variable: the length of the log
at the last lost request, crash, revocation, 429, login or logout). `device`: the sleep
between polls ends, requests are served; nobody has to approve. `services`: Stripe keeps
sending an event until it is answered. `local`: the user keeps doing what doctor reports first;
nothing makes him edit or run anything else. `stdio`: timers fire and the loop reads what has
arrived (Node); threads that can go on do (Python); the proxy forwards what has arrived and a server reads its
input and exits when that ends, as MCP servers do. No server has to answer, and no client has
to end.

### Disagreements

Two runs show a disagreement between the code and what its comments or documents say:

* `ingest_team`, `services/ingest/src/app.ts:301`: on a duplicate, the loop continues
  from the hash stored with it, although another machine may have appended rows since.
  The next new item forks the chain, which the comment at lines 257-261 says the loop
  prevents, and the audit export reports tampering where there was none.
* `device_twice`, `services/ingest/src/device-flow.ts:80`: two overlapping polls of an
  approved code both mint a key, which lines 65-67 exclude.

The following properties are defined in the modules and do not hold either; they are not
among the runs. Each says what a document or comment promises, or what one would expect,
and TLC has a counterexample for it in the instance named: where a `.cfg` is named it is
`tlc -config <file> <module>`, otherwise the configuration of the run with the change named and
the property in place of its own.

| Property (module) | Instance | What the counterexample shows |
|---|---|---|
| `ClientSeesOnlyPinned` (Enforcement) | `MCEnforcementNull.cfg` | a `null` item in the tool list makes the filter throw into a catch meant for lines that are not JSON (`proxy.ts:133`), and the list passes unfiltered; in Python a nameless tool does it (`proxy.py:38`); a list in a batch is not looked at (`proxy.ts:124`). `proxy.ts:7-9`: such an error "must result in stripping the tools" |
| `ScanSeesDrift` (Enforcement) | `MCEnforcementApprove.cfg` with `Kinds = {"init", "scan"}` | after `install`, `scan` sees the filtered list and exits 0; `docs/USERFEATURES.md:90`: "non-zero exit code on any drift" |
| `ApproveFindsLive` (Enforcement) | `MCEnforcementApprove.cfg` | after `install`, `approve` does not find a blocked tool; `docs/USERFEATURES.md:92`: it "Re-fetches the tool's *current live* definition" |
| `DenySticks` (Enforcement) | `MCEnforcementDeny.cfg` | an overlapping `approve` of another tool undoes a `deny` (`manage.ts:69`) |
| `ChainIntact` (Ingest) | `delivery` with `BatchSize = 2` | after a login to another workspace the whole log is shipped again; the duplicates at the head of a batch leave a hash of the first workspace in `prevHash` (`app.ts:301`; the lookup is of any workspace), and the next row of the second is chained to it |
| `LogoutSticks` (Delivery) | `MCDeliveryLogout.cfg` | a shipper writes its old config back after logout (`ship-events.ts:81`) |
| `OfflineEventsShipped` (Delivery) | `delivery_fair` with one event | an event whose only shipping failed waits for the next block; `doctor.ts:165`: "shipped once connectivity returns" |
| `GoodEventsShipped` (Delivery) | `delivery_fair` with `Malformed = {e1}` | a refused event holds up those after it (`ship-events.ts:70`) |
| `NeverDowngrade`, `RecordedIsApplied` (PolicySync) | `policy` | an old signed policy next to a greater number passes both checks, is applied and is recorded under that number: the signature (`policy-sync.ts:89`) does not cover what is compared (`:105`); `policy-sync.ts:107`: "Never downgrade (build-bible Part 9's replay/old-version handling)" |
| `ServiceNeverDowngrades` (PolicySync) | `policy` with `Pullers = {p1, p2}` | two pulls, the older answer applied last (`policy-sync.ts:122`) |
| `UpToDateIsApplied` (PolicySync) | `policy` | after `init` replaced the lockfile (`init.ts:72`) the policy still counts as applied (`policy-sync.ts:105`); with `Projects = {x1, x2}`, in a second project too |
| `AppliedOnce` (PolicySync) | `policy` | a killed pull is repeated and undoes local changes (`policy-sync.ts:133`) |
| `UninstallExact` (Install) | `local`, part `files` | a backup cut short is restored as it is (`install.ts:67`); `install.ts:6-9`: "Byte-for-byte guarantee" |
| `DeletionReported` (AuditExport) | `services`, part `audit` | a deleted tail is not noticed; `docs/build-bible.md:380`: "any deletion or edit breaks the chain" |
| `EditReported` (AuditExport) | `services`, part `audit` | columns outside the hash can change (`audit.ts:32`) |
| `OnlyStoredVerifies` (AuditExport) | `services`, part `audit` | an edited last row whose hash is computed anew, or a forged one, verifies: no key is needed (`audit.ts:32-42`); `docs/build-bible.md:380` |
| `MirrorsInAnyOrder` (Billing) | `services`, part `billing` | an `updated` event that comes after `deleted` revives a canceled subscription (`app.ts:562`) |
| `PayingOrgServed` (Billing) | `services`, part `billing` | canceling the second of two subscriptions leaves a payer on the free plan |
| `ConnectedInOrgAlways` (DeviceFlow) | `device` | both services find the code pending and both update it; the last wins (`device-flow.ts:49-55`, `db.ts:375-381`), and a machine an admin connected joins a workspace of another organization; `app.ts:237-239` of App API |
| `CutDeactivationRevokes` (Accounts) | `accounts` | killed between the two updates, a deactivation leaves the old sessions, which work again once the user is reactivated (`app.ts:437-439`) |
| `OrgHasWorkspace` (Accounts) | `accounts` | a login killed between two inserts leaves an organization without workspace for good |
| `TokenShown` (Accounts) | `accounts` | a token whose answer was lost is stored and never shown |
| `ScimNeedsEnterprise` (Accounts) | `accounts` | SCIM goes on after the plan is lost (`app.ts:353`, `:384`) |
| `LogoutRemovesAll` (Credentials) | `local`, part `credentials` | the Node `deleteSecret` ignores a failure; `keychain.ts:78-79` says its callers verify that the secret is gone, which only tests do |
| `LoggedInIsUsable` (Credentials) | `local` with `Logins = {l1, l2}` | an overlapping `logout` removes the key a `login` has just stored |
| `ExitedMeansUnanswered` (McpClient) | `stdio`, part `node client` | Node reports the exit before the output left in the pipe, and the request is rejected as not answered (`mcp-client.ts:56-58`) |
| `UncorrelatedIgnored` (McpClient) | the same | the line `null` parses, and reading its id throws out of the handler; `mcp-client.ts:79`: "ignore" |
| `AnsweredByAnswer` (McpClient, McpClientPython) | `stdio`, parts `node client` and `python client` | a request of the server's own under the id of a waiting request settles it, as a result that is missing; in Python it may even come before the request, and `list_tools` then returns the empty list, which `init` approves (`mcp-client.ts:81-84`, `mcp_client.py:62-65,96`); JSON-RPC ids belong to the side that sends the request, and `mcp_client.py:63` means to skip what is "not a response to a request" |
| `EndsWithServer` (ProxySession) | `stdio`, part `proxy` | the Node proxy stays, and its client waits, when the server has exited (`proxy.ts:149`); `docs/DEVELOPER_QUICKSTART.md:52`: the client "now runs exactly as before" |
| `AnswersNotLost` (ProxySession) | the same | a line for a server that has just exited breaks the pipe, and the Node proxy dies of it with an answer unforwarded (`proxy.ts:99`) |
| `NewestFirst` (EventLog) | `local` with `LogPorts = {"node", "python"}` | timestamps of two precisions do not compare as text (`event-log.ts:101`) |
| `NeverGoesBack` (LiveFeed) | `services` with `MaxPolls = 2` | the older of two polls is answered last, and is shown (`page.tsx:20`) |
| `RemedyRepairs` (LocalSetup) | `local`, part `setup` | `install` and `init` fail on what an earlier check reports; `doctor.ts:3-4`: "every failed check names the command that would fix it" |
| `EveryFailureHasRemedy` (LocalSetup) | the same | the check of the event log names none (`doctor.ts:109`) |
| `RoutesThroughProxy` (LocalSetup) | the same | a server added after `install` is launched directly and doctor still says it is routed (`doctor.ts:91-96`) |
| `KeychainReported` (LocalSetup) | the same | without a keychain doctor reports one as reachable (`doctor.ts:118`): `getSecret` turns every error into null |
| `Explained` (LocalSetup) | the same | `install` on a damaged config ends in the code for unknown errors (`install.ts:46`); `events.ts:1-4`: never "a raw, unexplained error" |

One more is not modelled: the Node proxy decodes every chunk of its server's output by itself
(`proxy.ts:72`), so that a character whose bytes lie in two chunks is replaced.

## 4. Proofs

All theorems hold for every value of the constants that satisfies the named
assumptions of the module (`BodiesAssumption`, `DeliveryAssumption`,
`DefsAssumption`, `EnforcementAssumption`, `DeviceAssumption`, `PolicyAssumption`,
`AccountsAssumption`; `LocalAssumption` and `ServicesAssumption` gather those of the modules they
put side by side), which TLC evaluates on the instances. What a theorem assumes besides is
in its `ASSUME` and named below.

**DeliveryProofs, part 1** (the ingest service by itself). `TypeCorrect`, `ChainedToPersisted`, `AcceptanceIsDurable`,
`TenantIsolation`, `ChainAcyclic`. The inductive invariant `IngestInv` adds to the type
invariant: every row is the hash of its event onto its `prevHash`, and its `prevHash` is
persisted before it (`RowsHashed`, `RowsCommit`); an event is stored once (`RowsDistinct`);
and, for the request inside the loop, `prevHash` is persisted, the items before
`nextItem` are stored, and the machine is registered in the workspace of the batch
(`LoopInv`). The properties alone are not inductive: they say nothing about the loop
variables a crash or the next iteration works from.

**DeliveryProofs, part 2** (one computer and the service). `NothingSkipped` (`DeliverySafe`: the cursor never passes an event the
service does not hold) and `ShippingCollects` (`Collects`: `Delivery` implements
`EventCollection`), for any number of shippers, events, workspaces and logins. The
invariant `DeliveryInv` adds to `IngestInv` and the type invariant: the rows of the
database are the first events of the log (`RowsArePrefix`); the cursors, also those in the
copies of the config that shippers will write back, cover stored events only
(`CursorsCover`); what a shipper has still to ship, and every batch on its way, is a
stretch of the log that begins no later than one past what is stored (`ShipsReady`,
`BatchesFollow`); and the batch under way is the one its shipper waits for
(`BatchAwaited`). The cursor alone is not inductive: an old copy of the config may
replace a newer one, and a request whose shipper gave up may still be stored. That a batch
answered with 202 is stored comes from the service's invariant (`AcceptedMeansStored`).
`OneChain` (`ChainIntact`: what is shipped verifies) holds if there is one workspace
(`OneWorkspace`); with two it is false, see the table above. Its invariant `Linked` says that
every row continues the row before it, and that `prevHash` of the batch loop, whenever it
stands at an event not stored yet, is what the last row holds. That needs the shipping
invariant: the batch is a stretch of the log, so if the item before was a duplicate, it is the
last row.
The refinement is proved action by action; `MappedState` says how the mapping reads a
state that satisfies the invariant.

**EnforcementProofs.** `AllowedIsApproved` (about `checkDrift` alone), `TypeCorrect`,
`ClientSeesPinned`, `LockfileIsTrusted`. The invariant `EnforceInv` extends trust from the
lockfile on disk to the copies that processes hold: those a command is about to write
(`CmdsTrusted`) and the snapshot of the proxy (`ProxyTrusted`). Nothing is assumed of the server:
it sends each list in any form. So `ClientSeesPinned` is about the lists the proxy filtered, and says
that neither the unfiltered ones before them nor any command changes what these may hold; the
whole promise, `ClientSeesOnlyPinned`, is false (`MCEnforcementNull`). That the lockfile holds only
approvals of the user needs no such exception.

**DeviceFlowProofs.** `TypeCorrect`, `KeysAsApproved`, `MachinesStayInOrg`,
`LoginsHoldKeys`, for any number of codes, polls and keys. The invariant `DeviceInv` says
that what a poll read before its await was approved (`PollsAsApproved`), as is what a code or a key
names; that each service approves a code once at most, also when an approval of it is between its
statements (`ApprovalsInv`), since it asks for a pending code, a pending code has no approval yet
(`PendingIsFresh`) and none becomes pending again; and that a poll with a minted key holds it in the
table (`PollsHoldKey`). With both services approving, the two approvals may differ.

**LocalProofs.** Each component of `MCLocal` by itself, then the composition: `PartsAlone` shows
that every behaviour of the whole is one of each part, which carries the theorems over
(`LocalRestorable`, `LocalRestored`, `LocalSetupSafe`, `LocalLogReadBack`, `LocalLoggedIn`,
`LocalLogout` state the properties of the run `local`).

* Install: `AlwaysRestorable`, `RestoredExactly`, for any documents, any depth of wrapping and any
  sequence of commands, kills and edits, one command at a time (`OneInstall`, as in the run).
  `InstallInv` says that a backup is never wrapped and holds what `install` read last
  (`BackupIsBefore`), and what a command may rely on at each of its steps (`Working`), e.g. that
  the bytes it is about to restore are still those of the backup.
* LocalSetup: `SetupIsSafe`, for any servers and any sequence of commands and edits, without
  further hypotheses. `SetupInv` adds that next to a backup only servers entered by hand are
  launched directly (`OnlyAddedDirect`), which is why doctor may conclude from the backup that
  the rest is routed.
* EventLog: `BlocksNewestFirst`, for any number of processes of one port (`OnePort`; with both it is
  false, see the table above), and `LittleIsLost` for both. `LogInv` says that a process appends once
  (`OneLineEach`), that no stamp lies ahead of the clock (`StampsPast`), and that who stamps after
  another's append was complete has no smaller stamp and, when it appends, a later line
  (`StampedLater`). Hence the order by stamp and then position extends the order of events. For the
  bound on losses, each lost line is mapped to the torn append before it, one to one.
* Credentials: `LoggedInUsable` and `LogoutLeavesNothing`, one login or logout at a time (`OneLogin`),
  killed anywhere, for any behaviour of the keychain: `CredInv` says at each step which of key, identity and registration
  are in place (`LoggingIn`, `LoggingOut`); `RetiredInv` numbers what a login has in hand later than
  the last logout (`Fresh`). `LogoutFinal` excuses in the Node port what it passed over (`Excused`);
  `LogoutRemovesAll`, without the excuse, is false, see the table above.

**PolicyProofs.** `LockfilesPublished` for any number of projects and pulls, whatever is answered, from
`PublishedInv`: a text with a valid signature is of a published policy, whatever number stands next to it.
`PolicyIsSafe` and `NoDowngrade` assume one project and one pull at a time (`OneProject`, `OnePuller`), without which
they are false, and hold for any number of shippers and policies. They say what a pull guarantees as long as
no signed policy came from anywhere but the service (`~replayed`, a state of the behaviour, not an assumption
about constants); that it guarantees no more is `NeverDowngrade` in the table above. `PolicyInv` says that
until then the versions which may yet be written to the config, by the pull that saves or by a
shipper's copy, are applied (`SavesApplied`, `CopiesApplied`), and that the answer that may yet be applied
has the number of its text and is not older than the lockfile (`AnswersNotOlder`).

**AccountsProofs.** `UsersAreFounded`, `LockedOut`, `TokenStays` and `FirstOwns`, for any number
of organizations, users and sessions. The invariant `AccountsInv` has two facts the
properties do not show: a session belongs to a known user (`SessionsOwned`), and a token was shown
only where there is a member already (`TokensShown`), which is why provisioning by a directory never makes
the first user. `LockedOut` needs besides that the user of a session which a deactivation marked is
inactive, and that the service is still at it while the mark says so (`DisownedInactive`): so either the
sessions are revoked before anything can activate the user again, or the mark says that it was cut short.

**ServicesProofs.** Each component of `MCServices` by itself, then the composition
(`ServicesMirror`, `ServicesVerifiedIsStored`, `ServicesNoCascade`, `ServicesFeedFaithful`,
`ServicesLimiterBounds` state the invariants of the run `services`).

* Billing: `RowsMirrorStripe`, for any organizations, subscriptions, redeliveries and orders of delivery,
  with handlers killed between their two writes. `BillingInv` describes, for a subscription none of whose events
  overtook another, what is still to be sent: the last event of a queue has the status of the subscription,
  `checkout` comes first and `deleted` last (`Queued`); and what its row may be meanwhile (`Kept`): once canceled,
  only the deletion can come again. Of the others it says only whose they are (`InLine`, `Rowed`), and
  `Overtaken` shows that their events disturb nothing else. `PlanFollowsRow` has no exception: row and
  plan differ only while an event is unanswered (`PlanInv`).
* AuditExport: `ExportTellsTheTruth`, for tables of any length and any number of alterations. `AuditInv`
  says of the stored table that each row's hash is as long as its place in the workspace
  (`ChainedRow`), and of the altered one that its hashes are pairs of some stored row (`Stems`), as long as
  none was computed anew (`HashesLeft`): the other alterations move or drop hashes and invent none. A row that
  verifies at place n thus carries a hash of n events of its workspace, which only the n-th stored row has;
  that its content is that row's follows because the hash ends in it. Where hashes were computed anew, the
  hash of a row in a verifying table still spells the events of its workspace up to it (`Spells`), so that one hash
  known from before determines all rows before it (`KeptWasStored`). For one alteration `AfterOne` names the
  row, and a break can only be at it or, after a deletion, at the next row of its workspace.
* LiveFeed: `FeedIsFaithful`, for any retention, limit and timing. `FeedInv` says of every answer what it
  leaves out and why (`Faithful`): a row that is due is missing only if the answer is full of rows
  no older. That the four taxonomies agree is checked on their tables.
* RateLimiter: `LimiterKeepsBounds`, for any limit, window and number of keys, with restarts. `LimiterInv`
  ties the counter of a key to the requests of the current window (`CountsWindow`, `MaxPerWindow`) and
  states both bounds for all past windows (`TwiceEver`, `RefusedBusy`), since a request that falls into a past
  window changes no count of it.

**StdioProofs** is about the three programs of `MCStdio`, first each by itself.

* ProxySession: `ProxyIsTransparent`, the refinement of `DirectSession`, for both ports and any number of
  lines. Step by step: two pipes in a row are one pipe (`PipesInARow`), so that what the proxy does
  between them is a stutter, except the two steps that give its client a line and the end of the
  stream. The end needs `ProxyInv`: the exit is noticed only after the server has exited.
* McpClient: `NodeClientReplies`, the refinement of `RequestReply` with waiters and timers. `NodeInv` adds what is
  on its way: requests in the pipe, or read by the server, have been asked, and the id of a line in the pipe is one
  the server wrote (`NodePipes`). Without it a request could settle with a line nobody wrote. The
  server of the theorem also writes requests of its own under these ids.
* McpClientPython: `PythonClientReplies`, the same with `AnswersKept` and `ExitedMeansUnanswered`.
  `PythonInv` adds that the reader leaves nothing behind: the answer to a request that waits is
  stored or still in the pipe unless the reader has failed (`NoneOverlooked`), and nobody is told of
  the exit before the reader has stopped (`ReaderTells`).

Where a proof needs the first row, or event, with some property, it takes the smallest position that
has it (`SmallestOfNaturals`, from well-foundedness), instead of induction.

Only model-checked: liveness under fairness (`NextBlockShipsAll`, `LoginEnds`,
`EventuallyMirrored`, `EventuallyHealthy`, `NobodyHangs`) and anything with ENABLED, which the prover
does not handle. `ChainIntact` of `Ingest` is false in general (`ingest_team`), and proved of one
computer that ships to one workspace.

## 5. What is not modelled

* How chunks of a pipe are cut into lines, and what the decoding of a chunk does to a
  character it cuts (a conversion of bytes, without a state a model would explore).
* Keychain commands of the platforms, file modes, formatting of `status`, `doctor`, `diff`
  and `events`, the CSV form of the export, doctor's probe of the control plane and its update
  check.
* A config file read while another process writes it: `readConfig` treats one that cannot be
  parsed as absent, so the reader does nothing, as if nobody were logged in.
* Keys created in the dashboard, listings of App API, the mock billing provider and the
  portal link: single statements whose rows the models have from other sources.
* The dashboard's other pages: each shows what one request returned. `schema.ts` of App
  API: a Postgres schema no code uses yet.
* Scripts, infrastructure: no program state. `services/workers` holds no code.

## 6. Plan

Order of writing so far: the chain and the ingest service, shipping, enforcement (the
core of the product), installation, policies, device flow, audit, billing, accounts; then the
stdio clients, proxy sessions, rate limiter, live feed, event log, local setup, credentials.

Next, models: `Enforcement` with two tools in one run; `Credentials` composed with `Delivery`, with login and logout step by step
next to shippers.

Next, proofs: theorems about the models above. Every safety property the runs check is proved.
