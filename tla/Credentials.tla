----------------------------- MODULE Credentials -----------------------------
(***************************************************************************)
(* What login leaves on the machine and logout takes away: the config file *)
(* (packages/cli-node/src/config.ts), two secrets in the keychain of the   *)
(* operating system (keychain.ts, machine-identity.ts), and the machine's  *)
(* registration at the ingest service (login.ts, the commands of cli.ts;   *)
(* the Python CLI has the same files).  A command can be killed between    *)
(* any two steps, and the keychain may be locked while it runs.            *)
(*                                                                         *)
(* API keys and identities carry the number they were created under, so    *)
(* that what a logout was to remove can be told from what came after it.   *)
(* How a code is polled and approved is the subject of DeviceFlow.         *)
(***************************************************************************)
EXTENDS Naturals, Sequences

CONSTANTS
  Workspaces,
  OrgKeyOf,     \* the organization's signing key by workspace, or None
  Procs,        \* login and logout commands that may run together
  Ports,        \* node, python: whose commands they are
  MayLock,      \* the ports whose user may find the keychain locked
  MaxIssued,    \* keys and identities created (a bound)
  None

CredentialsAssumption ==
  /\ DOMAIN OrgKeyOf = Workspaces
  /\ MayLock \subseteq Ports /\ Ports \subseteq {"node", "python"}
  /\ MaxIssued \in Nat /\ None \notin Nat

VARIABLES
  port,
  config,      \* ~/.mcpseal/config.json: what makes isLoggedIn true, or None
  secrets,     \* in the keychain: the API key and the machine's identity
  access,      \* the keychain: usable, locked, or absent from this system
  registered,  \* machines known to the ingest service
  procs,       \* running commands
  issued,      \* number of the newest key or identity
  retired,     \* history: `issued` when a logout last reported success
  passedOver   \* history: the secrets whose deletion last met a locked keychain and went on

vars == <<port, config, secrets, access, registered, procs, issued, retired, passedOver>>

NoKey == [n |-> 0, workspace |-> None]
Idle  == [pc |-> "idle", key |-> NoKey, identity |-> 0, step |-> 0]

Init ==
  /\ port \in Ports
  /\ config = None
  /\ secrets = [key |-> NoKey, identity |-> 0]
  /\ access \in {"usable", "absent"}
  /\ registered = {}
  /\ procs = [p \in Procs |-> Idle]
  /\ issued = 0
  /\ retired = 0
  /\ passedOver = {}

At(p, pc)   == procs[p].pc = pc
Goto(p, pc) == procs' = [procs EXCEPT ![p].pc = pc]
End(p)      == procs' = [procs EXCEPT ![p] = Idle]

(***************************************************************************)
(* login                                                                   *)
(***************************************************************************)
StartLogin(p) ==
  /\ At(p, "idle")
  /\ config = None
  /\ Goto(p, "polling")
  /\ UNCHANGED <<port, config, secrets, access, registered, issued, retired, passedOver>>

\* The user approved the code for some workspace; the answer holds a new key.
Approved(p) ==
  /\ At(p, "polling")
  /\ issued < MaxIssued /\ issued' = issued + 1
  /\ \E w \in Workspaces :
       procs' = [procs EXCEPT ![p].pc = "approved",
                              ![p].key = [n |-> issued', workspace |-> w]]
  /\ UNCHANGED <<port, config, secrets, access, registered, retired, passedOver>>

\* loadOrCreateMachineIdentity: getSecret finds one ...
LoadIdentity(p) ==
  /\ At(p, "approved")
  /\ access = "usable" /\ secrets.identity # 0
  /\ procs' = [procs EXCEPT ![p].pc = "identified", ![p].identity = secrets.identity]
  /\ UNCHANGED <<port, config, secrets, access, registered, issued, retired, passedOver>>

\* ... or takes a keychain that is locked for an empty one, and setSecret, which
\* throws unless it is usable by then, replaces what it holds.
CreateIdentity(p) ==
  /\ At(p, "approved")
  /\ secrets.identity = 0 \/ port \in MayLock
  /\ access = "usable"
  /\ issued < MaxIssued /\ issued' = issued + 1
  /\ secrets' = [secrets EXCEPT !.identity = issued']
  /\ procs' = [procs EXCEPT ![p].pc = "identified", ![p].identity = issued']
  /\ passedOver' = passedOver \ {"identity"}
  /\ UNCHANGED <<port, config, access, registered, retired>>

\* The machine id is drawn for this login, as is the key: it takes its number.
Machine(p) == [id |-> procs[p].key.n, identity |-> procs[p].identity,
               workspace |-> procs[p].key.workspace]

Register(p) ==
  /\ At(p, "identified")
  /\ registered' = registered \cup {Machine(p)}
  /\ Goto(p, "registered")
  /\ UNCHANGED <<port, config, secrets, access, issued, retired, passedOver>>

Pinned == IF config = None THEN None ELSE config.orgPublicKey

\* "refusing to overwrite a previously pinned org signing key"
Repins(orgKey) == Pinned # None /\ orgKey # None /\ Pinned # orgKey

StoreKey(p) ==
  /\ At(p, "registered")
  /\ ~Repins(OrgKeyOf[procs[p].key.workspace])
  /\ access = "usable"
  /\ secrets' = [secrets EXCEPT !.key = procs[p].key]
  /\ passedOver' = passedOver \ {"key"}
  /\ Goto(p, "connecting")
  /\ UNCHANGED <<port, config, access, registered, issued, retired>>

WriteConfig(p) ==
  /\ At(p, "connecting")
  /\ LET workspace == procs[p].key.workspace
     IN  config' = [workspace    |-> workspace,
                    machine      |-> procs[p].key.n,
                    orgPublicKey |-> IF OrgKeyOf[workspace] # None THEN OrgKeyOf[workspace]
                                                                   ELSE Pinned]
  /\ End(p)
  /\ UNCHANGED <<port, secrets, access, registered, issued, retired, passedOver>>

(***************************************************************************)
(* logout                                                                  *)
(***************************************************************************)
\* Faulty: the config is cleared when everything else is.
ConfigLast == <<"key", "identity", "config">>

LogoutOrder == <<"config", "key", "identity">>

StartLogout(p) ==
  /\ At(p, "idle")
  /\ procs' = [procs EXCEPT ![p].pc = "leaving", ![p].step = 1]
  /\ UNCHANGED <<port, config, secrets, access, registered, issued, retired, passedOver>>

Leaving(p, what) == At(p, "leaving") /\ LogoutOrder[procs[p].step] = what

\* The message of success is printed after the last step.
StepDone(p) ==
  IF procs[p].step < Len(LogoutOrder)
  THEN procs' = [procs EXCEPT ![p].step = @ + 1] /\ UNCHANGED retired
  ELSE End(p) /\ retired' = issued

ClearConfig(p) ==
  /\ Leaving(p, "config")
  /\ config' = None
  /\ StepDone(p)
  /\ UNCHANGED <<port, secrets, access, registered, issued, passedOver>>

\* Faulty: every error of the keychain is passed over.
PassesOver == access # "usable"

\* The errors deleteSecret passes over: in Python only the absence of a keychain.
Tolerated == access = "absent" \/ (access = "locked" /\ port = "node")

DeleteSecret(p, account, nothing) ==
  /\ Leaving(p, account)
  /\ \/ /\ access = "usable" /\ StepDone(p)
        /\ secrets' = [secrets EXCEPT ![account] = nothing]
        /\ passedOver' = passedOver \ {account}
     \/ /\ Tolerated /\ StepDone(p)
        /\ passedOver' = IF access = "locked" THEN passedOver \cup {account} ELSE passedOver
        /\ UNCHANGED secrets
     \/ /\ access # "usable" /\ ~Tolerated /\ End(p)
        /\ UNCHANGED <<secrets, retired, passedOver>>
  /\ UNCHANGED <<port, config, access, registered, issued>>

(***************************************************************************)
(* Environment                                                             *)
(***************************************************************************)
\* Killed; or the code expires or is denied, or a request or the keychain fails.
Stop(p) ==
  /\ ~At(p, "idle")
  /\ End(p)
  /\ UNCHANGED <<port, config, secrets, access, registered, issued, retired, passedOver>>

LockOrUnlock ==
  /\ port \in MayLock /\ access # "absent"
  /\ access' = IF access = "usable" THEN "locked" ELSE "usable"
  /\ UNCHANGED <<port, config, secrets, registered, procs, issued, retired, passedOver>>

Next ==
  \/ \E p \in Procs :
       \/ StartLogin(p) \/ Approved(p) \/ LoadIdentity(p) \/ CreateIdentity(p)
       \/ Register(p) \/ StoreKey(p) \/ WriteConfig(p)
       \/ StartLogout(p) \/ ClearConfig(p)
       \/ DeleteSecret(p, "key", NoKey) \/ DeleteSecret(p, "identity", 0)
       \/ Stop(p)
  \/ LockOrUnlock

Spec == Init /\ [][Next]_vars

-----------------------------------------------------------------------------
(***************************************************************************)
(* Properties                                                              *)
(***************************************************************************)

Numbers == 0 .. MaxIssued
Keys    == [n : Numbers, workspace : Workspaces \cup {None}]

\* The types.
TypeOK ==
  /\ port \in Ports
  /\ config \in {None} \cup [workspace : Workspaces, machine : Numbers,
                             orgPublicKey : {OrgKeyOf[w] : w \in Workspaces} \cup {None}]
  /\ secrets \in [key : Keys, identity : Numbers]
  /\ access \in {"usable", "locked", "absent"}
  /\ registered \subseteq [id : Numbers, identity : Numbers, workspace : Workspaces]
  /\ procs \in [Procs -> [pc : {"idle", "polling", "approved", "identified", "registered",
                                "connecting", "leaving"},
                          key : Keys, identity : Numbers, step : 0 .. Len(LogoutOrder)]]
  /\ {issued, retired} \subseteq Numbers
  /\ passedOver \subseteq {"key", "identity"}

\* config.ts:33-35: the config alone says whether mcpseal is logged in.  Wherever a
\* login or logout is cut short, a machine that is logged in holds a key of the
\* workspace it is logged in to and the identity it is registered with there.
LoggedInIsUsable ==
  config # None =>
    /\ secrets.key.workspace = config.workspace
    /\ [id |-> config.machine, identity |-> secrets.identity,
        workspace |-> config.workspace] \in registered

\* cli.ts:293-296: nothing that existed when a logout reported success is on the
\* machine any more, and the next login creates an identity of its own.  The Node port
\* keeps this but for a secret whose deletion met a locked keychain, which it cannot
\* tell from one that is not there (keychain.ts:70-82); the Python port has no exception.
Excused(account) == port = "node" /\ account \in passedOver

LogoutFinal ==
  /\ config # None => config.machine > retired
  /\ secrets.key # NoKey => secrets.key.n > retired \/ Excused("key")
  /\ secrets.identity # 0 => secrets.identity > retired \/ Excused("identity")

\* What keychain.ts:77-79 says of every port, that success means the secrets are gone;
\* the README says how this fails (Disagreements).
LogoutRemovesAll ==
  /\ secrets.key # NoKey => secrets.key.n > retired
  /\ secrets.identity # 0 => secrets.identity > retired

=============================================================================
