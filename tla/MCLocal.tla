------------------------------ MODULE MCLocal ------------------------------
(***************************************************************************)
(* Four components of the CLI for TLC, side by side: they keep different   *)
(* files, and no action of one touches those of another.  A behaviour      *)
(* picks one of them and leaves the others where they start, so that one   *)
(* run explores each of them by itself.                                    *)
(***************************************************************************)
EXTENDS Naturals, Sequences, TLC

CONSTANTS
  Docs, Installs, MaxWraps,                                   \* Install
  Servers, MaxMoves,                                          \* LocalSetup
  Writers, LogPorts, Grain, MaxTime, MaxTears, Limit,         \* EventLog
  Workspaces, OrgKeyOf, Logins, Ports, MayLock, MaxIssued,    \* Credentials
  w1, w2, k1,
  Absent, Torn, None

AllCommands == {"init", "install", "uninstall", "scan", "approve", "deny"}
AllEdits == {"add server", "remove server", "break config", "delete config",
             "delete lockfile", "break lockfile", "lose log", "lock keychain"}
OneOrgHasKey == w1 :> k1 @@ w2 :> None

VARIABLES
  part,
  iConfig, iBackup, iProcs, iBefore,
  config, backup, lockfile, log, keychain, printed, added, moves,
  now, events, lines, before,
  port, cConfig, secrets, access, registered, procs, issued, retired, passedOver

Files == INSTANCE Install WITH
  Processes <- Installs,
  config <- iConfig, backup <- iBackup, procs <- iProcs, before <- iBefore

Setup == INSTANCE LocalSetup WITH Commands <- AllCommands, Edits <- AllEdits

Log == INSTANCE EventLog WITH Ports <- LogPorts, log <- lines

Cred == INSTANCE Credentials WITH Procs <- Logins, config <- cConfig

ASSUME LocalAssumption ==
  /\ Files!InstallAssumption
  /\ Setup!LocalSetupAssumption
  /\ Log!EventLogAssumption
  /\ Cred!CredentialsAssumption

filesVars == <<iConfig, iBackup, iProcs, iBefore>>
setupVars == <<config, backup, lockfile, log, keychain, printed, added, moves>>
logVars   == <<now, events, lines, before>>
credVars  == <<port, cConfig, secrets, access, registered, procs, issued, retired, passedOver>>
vars == <<part, filesVars, setupVars, logVars, credVars>>

\* The part that is picked starts in any of its initial states, the others in one.
Init ==
  /\ part \in {"files", "setup", "log", "credentials"}
  /\ Files!Init /\ (part # "files" => iConfig = Absent)
  /\ Setup!Init /\ (part # "setup" => config = Absent /\ lockfile = Setup!Approving({}))
  /\ Log!Init
  /\ Cred!Init /\ (part # "credentials" => port = "node" /\ access = "usable")

\* What stays as it is while one part moves.
OnlyFiles == part = "files" /\ UNCHANGED <<part, setupVars, logVars, credVars>>
OnlySetup == part = "setup" /\ UNCHANGED <<part, filesVars, logVars, credVars>>
OnlyLog   == part = "log" /\ UNCHANGED <<part, filesVars, setupVars, credVars>>
OnlyCred  == part = "credentials" /\ UNCHANGED <<part, filesVars, setupVars, logVars>>

Next ==
  \/ OnlyFiles /\ Files!Next
  \/ OnlySetup /\ Setup!Next
  \/ OnlyLog /\ Log!Next
  \/ OnlyCred /\ Cred!Next

\* The user of LocalSetup keeps doing what doctor reports.
Spec == Init /\ [][Next]_vars /\ WF_vars(OnlySetup /\ Setup!FollowFirst)

-----------------------------------------------------------------------------
\* Install: a wrapped config comes with a whole backup of one that is not.
Restorable == Files!TypeOK /\ Files!Restorable

\* Install: uninstall restores what install replaced.
WholeBackupRestored == Files!WholeBackupRestored

\* LocalSetup, whose commands run to their end: a healthy project is routed but for
\* servers added by hand, a hidden tool is not approved.
SetupSafe == [](Setup!TypeOK /\ Setup!RoutedWhenHealthy) /\ Setup!HiddenStaysHidden

\* LocalSetup: doctor's remedies, from the top, lead to a healthy project.
EventuallyHealthy == Setup!EventuallyHealthy

\* EventLog: what is shown of the log is the newest, and little is lost.
LogReadBack == Log!NewestFirst /\ Log!LossBounded

\* Credentials: whoever is logged in can use it.
LoggedInIsUsable == Cred!TypeOK /\ Cred!LoggedInIsUsable

\* Credentials: a logout leaves nothing but what Node found behind a locked keychain.
LogoutFinal == Cred!LogoutFinal

=============================================================================
