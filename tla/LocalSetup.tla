----------------------------- MODULE LocalSetup ------------------------------
(***************************************************************************)
(* Setting up one project: the commands init, install, uninstall, scan,    *)
(* approve and deny on its .mcp.json, the backup of it and its lockfile,   *)
(* the report of mcpseal doctor about them (packages/cli-node/src/         *)
(* doctor.ts), and a user who edits the files, runs commands and does what *)
(* the report says.  A command runs to its end (Install and Enforcement    *)
(* have commands that are killed or overlap), a server has one tool, and   *)
(* the servers themselves start.                                           *)
(***************************************************************************)
EXTENDS ErrorTaxonomy

CONSTANTS
  Servers,    \* names of servers
  Commands,   \* commands the user runs of his own accord
  Edits,      \* what the user, or another program, does to the files
  MaxMoves,   \* edits and commands of his own accord (a bound)
  Absent      \* no such file

LocalSetupAssumption ==
  /\ MaxMoves \in Nat
  /\ Commands \subseteq {"init", "install", "uninstall", "scan", "approve", "deny"}
  /\ Edits \subseteq {"add server", "remove server", "break config", "delete config",
                      "delete lockfile", "break lockfile", "lose log", "lock keychain"}

VARIABLES
  config,     \* .mcp.json: Absent, or whether it parses and its server entries
  backup,     \* .mcp.json.mcpseal-backup
  lockfile,   \* .mcp-lock.json: can it be read, and the servers whose tool it approves
  log,        \* is events.jsonl readable?
  keychain,   \* does the operating system have a usable keychain?
  printed,    \* how the last command ended: "ok" or the code of its error
  added,      \* history: servers entered by hand while there is a backup
  moves

files == <<config, backup, lockfile>>
rest  == <<log, keychain>>
vars  == <<config, backup, lockfile, log, keychain, printed, added, moves>>

Launches == {"none", "direct", "proxied"}
Config   == [parses : BOOLEAN, entries : [Servers -> Launches]]
Lockfile == [read : {"ok"}, approved : SUBSET Servers]
            \cup [read : {"missing", "invalid"}, approved : {{}}]

Approving(servers) == [read |-> "ok", approved |-> servers]
Unreadable(why)    == [read |-> why, approved |-> {}]

(***************************************************************************)
(* What commands find                                                      *)
(***************************************************************************)
\* readLockfile
LockfileError ==
  CASE lockfile.read = "missing" -> {"readLockfile: could not read"}
    [] lockfile.read = "invalid" -> {"readLockfile: not valid JSON"}
    [] lockfile.read = "ok"      -> {}

\* discoverServersFromClaudeCodeProjectConfig: no file is no server.
DiscoverError ==
  IF config # Absent /\ ~config.parses THEN {"discoverServers: not valid JSON"} ELSE {}

Entry(s)   == IF config = Absent THEN "none" ELSE config.entries[s]
Discovered == {s \in Servers : Entry(s) # "none"}

\* mcpseal proxy refuses to start without a lockfile.
LaunchError(s) ==
  IF Entry(s) = "proxied" /\ LockfileError # {} THEN {"server process exited"} ELSE {}

\* Faulty: the tools of a server are seen whatever stands before it.
ShowsAll(s) == Entry(s) # "none"

\* The proxy of a server shows its tool if the lockfile approves it.
Shows(s) == Entry(s) = "direct" \/ (Entry(s) = "proxied" /\ s \in lockfile.approved)

Fails(error) ==
  /\ error # {}
  /\ printed' = Classify(CHOOSE site \in error : TRUE)
  /\ UNCHANGED files

FirstOf(error, orElse) == IF error # {} THEN error ELSE orElse

(***************************************************************************)
(* Commands                                                                *)
(***************************************************************************)
InitError == FirstOf(DiscoverError, UNION {LaunchError(s) : s \in Discovered})

\* Whatever the servers show now is approved, whatever stood there before.
RunInit ==
  \/ Fails(InitError)
  \/ /\ InitError = {}
     /\ lockfile' = Approving({s \in Discovered : Shows(s)})
     /\ printed' = "ok"
     /\ UNCHANGED <<config, backup>>

InstallError ==
  CASE config = Absent  -> {"install: no config found"}
    [] backup # Absent  -> {"install: backup already exists"}
    [] config # Absent /\ backup = Absent /\ ~config.parses -> {"install: not valid JSON"}
    [] OTHER -> {}

ThroughProxy(entries) ==
  [s \in Servers |-> IF entries[s] = "none" THEN "none" ELSE "proxied"]

RunInstall ==
  \/ Fails(InstallError)
  \/ /\ InstallError = {}
     /\ backup' = config
     /\ config' = [config EXCEPT !.entries = ThroughProxy(@)]
     /\ printed' = "ok"
     /\ UNCHANGED lockfile

\* Faulty: the backup stays.
RunUninstallKeepingBackup ==
  \/ Fails(IF backup = Absent THEN {"uninstall: no backup found"} ELSE {})
  \/ /\ backup # Absent
     /\ config' = backup
     /\ printed' = "ok"
     /\ UNCHANGED <<backup, lockfile>>

RunUninstall ==
  \/ Fails(IF backup = Absent THEN {"uninstall: no backup found"} ELSE {})
  \/ /\ backup # Absent
     /\ config' = backup
     /\ backup' = Absent
     /\ printed' = "ok"
     /\ UNCHANGED lockfile

\* scan, and diff, which is a scan.
ScanError ==
  FirstOf(LockfileError, FirstOf(DiscoverError, UNION {LaunchError(s) : s \in Discovered}))

RunScan ==
  \/ Fails(ScanError)
  \/ ScanError = {} /\ printed' = "ok" /\ UNCHANGED files

\* setToolStatus launches the server before it reads the lockfile.
SetToolError(s) ==
  FirstOf(DiscoverError,
  FirstOf(IF s \notin Discovered THEN {"setToolStatus: server is not in this project"} ELSE {},
  FirstOf(LaunchError(s),
  FirstOf(IF ~Shows(s) THEN {"setToolStatus: tool was not found on server"} ELSE {},
          LockfileError))))

SetToolStatus(s, approved) ==
  \/ Fails(SetToolError(s))
  \/ /\ SetToolError(s) = {}
     /\ lockfile' = [lockfile EXCEPT !.approved = IF approved THEN @ \cup {s} ELSE @ \ {s}]
     /\ printed' = "ok"
     /\ UNCHANGED <<config, backup>>

Run(command) ==
  \/ command = "init"      /\ RunInit
  \/ command = "install"   /\ RunInstall
  \/ command = "uninstall" /\ RunUninstall
  \/ command = "scan"      /\ RunScan
  \/ command = "approve"   /\ \E s \in Servers : SetToolStatus(s, TRUE)
  \/ command = "deny"      /\ \E s \in Servers : SetToolStatus(s, FALSE)

(***************************************************************************)
(* mcpseal doctor                                                          *)
(***************************************************************************)
\* The local checks in the order of the report.
Checks == <<"MCP configuration", "Lockfile", "Proxy installed", "Local event log",
            "OS keychain">>

\* getSecret turns every error into "no such secret": its check cannot fail.
Passes(check) ==
  CASE check = "MCP configuration" -> DiscoverError = {}
    [] check = "Lockfile"          -> LockfileError = {}
    [] check = "Proxy installed"   -> backup # Absent
    [] check = "Local event log"   -> log
    [] check = "OS keychain"       -> TRUE

\* What a failed check says to do next; nothing for the event log.
Remediation(check) ==
  CASE check = "MCP configuration" -> {"fix config"}
    [] check = "Lockfile"          -> {"init"}
    [] check = "Proxy installed"   -> {"install"}
    [] check = "Local event log"   -> {}
    [] check = "OS keychain"       -> {"check keychain"}

Failed  == {i \in DOMAIN Checks : ~Passes(Checks[i])}
Healthy == Failed = {}   \* allLocalOk

\* Faulty: the proxy is looked at before the lockfile.
ProxyFirst ==
  LET order == <<1, 3, 2, 4, 5>>
  IN  order[Min({i \in DOMAIN order : order[i] \in Failed})]

FirstFailed == Min(Failed)

(***************************************************************************)
(* The user                                                                *)
(***************************************************************************)
NoteAdded ==
  added' = IF backup' = Absent THEN {}
           ELSE added \cup {s \in Servers : Entry(s) = "none" /\ Entry(s)' = "direct"}

FixConfig ==
  /\ config' = [config EXCEPT !.parses = TRUE]
  /\ printed' = "ok"
  /\ UNCHANGED <<backup, lockfile>>

\* Doing what the report says about a check that failed.
Follow(i) ==
  /\ i \in Failed
  /\ \E remedy \in Remediation(Checks[i]) :
       IF remedy = "fix config" THEN FixConfig ELSE Run(remedy)
  /\ NoteAdded
  /\ UNCHANGED <<log, keychain, moves>>

\* From the top of the report.
FollowFirst == ~Healthy /\ Follow(FirstFailed)

OwnCommand ==
  /\ moves < MaxMoves /\ moves' = moves + 1
  /\ \E command \in Commands : Run(command)
  /\ NoteAdded
  /\ UNCHANGED rest

NewConfig == [parses |-> TRUE, entries |-> [s \in Servers |-> "none"]]

EditEntry(s, launch) ==
  /\ config # Absent => config.parses
  /\ config' = [(IF config = Absent THEN NewConfig ELSE config) EXCEPT !.entries[s] = launch]
  /\ UNCHANGED <<backup, lockfile, log, keychain>>

EditConfig(edit) ==
  \/ edit = "add server" /\ \E s \in Servers \ Discovered : EditEntry(s, "direct")
  \/ edit = "remove server" /\ \E s \in Discovered : EditEntry(s, "none")
  \/ /\ edit = "break config" /\ config # Absent
     /\ config' = [config EXCEPT !.parses = FALSE]
     /\ UNCHANGED <<backup, lockfile, log, keychain>>
  \/ /\ edit = "delete config"
     /\ config' = Absent
     /\ UNCHANGED <<backup, lockfile, log, keychain>>

EditOther(edit) ==
  \/ /\ edit = "delete lockfile"
     /\ lockfile' = Unreadable("missing") /\ UNCHANGED <<config, backup, log, keychain>>
  \/ /\ edit = "break lockfile" /\ lockfile.read # "missing"
     /\ lockfile' = Unreadable("invalid") /\ UNCHANGED <<config, backup, log, keychain>>
  \/ /\ edit = "lose log"
     /\ log' = FALSE /\ UNCHANGED <<config, backup, lockfile, keychain>>
  \/ /\ edit = "lock keychain"
     /\ keychain' = FALSE /\ UNCHANGED <<config, backup, lockfile, log>>

Edit ==
  /\ moves < MaxMoves /\ moves' = moves + 1
  /\ \E edit \in Edits : EditConfig(edit) \/ EditOther(edit)
  /\ NoteAdded
  /\ UNCHANGED printed

\* A project in which mcpseal is not installed; a lockfile may have come with it.
Init ==
  /\ config \in {Absent} \cup {[parses |-> p, entries |-> e] :
                                p \in BOOLEAN, e \in [Servers -> {"none", "direct"}]}
  /\ backup = Absent
  /\ lockfile \in Lockfile
  /\ log = TRUE /\ keychain = TRUE
  /\ printed = "ok"
  /\ added = {}
  /\ moves = 0

Next == FollowFirst \/ OwnCommand \/ Edit

\* The user keeps doing what the report says until it reports nothing.
Spec == Init /\ [][Next]_vars /\ WF_vars(FollowFirst)

(***************************************************************************)
(* Properties                                                              *)
(***************************************************************************)
\* Shape of the files; only codes of the taxonomy are printed.
TypeOK ==
  /\ config \in Config \cup {Absent}
  /\ backup \in Config \cup {Absent}
  /\ lockfile \in Lockfile
  /\ log \in BOOLEAN /\ keychain \in BOOLEAN
  /\ printed \in Codes \cup {"ok"}
  /\ added \subseteq Servers
  /\ moves \in 0 .. MaxMoves

\* doctor.ts:91-98: when doctor reports no failure, every server of the project is
\* launched through the proxy, those added to an installed config by hand excepted:
\* of them doctor knows nothing.  Commands run to their end here: an install killed
\* between backup and write (install.ts:67-70, a step of Install) leaves a backup beside a
\* config without the proxy, which doctor takes for an installed one.
RoutedWhenHealthy ==
  Healthy => {s \in Servers : Entry(s) = "direct"} \subseteq added

\* The same without the exception, as doctor words it.
RoutesThroughProxy == Healthy => \A s \in Servers : Entry(s) # "direct"

\* init.ts:30-45, manage.ts:36-47: while a server is launched through the proxy,
\* no command approves a tool of it that the lockfile does not approve already:
\* the commands see the server through the same proxy.
HiddenStaysHidden ==
  [][\A s \in Servers : Entry(s) = "proxied" /\ Entry(s)' = "proxied"
       => (s \in lockfile'.approved => s \in lockfile.approved)]_vars

\* Where doctor's remedies do not help: the event log has none; init, which is to
\* write the lockfile, starts servers behind a proxy that wants one; and install
\* wants a config.
Helpless ==
  \/ ~log
  \/ LockfileError # {} /\ \E s \in Servers : Entry(s) = "proxied"
  \/ config = Absent /\ backup = Absent

\* doctor.ts:3-4, USERFEATURES.md:95: whoever does what doctor says, from the top of
\* the report, ends with a report of no failure, whatever was done to the project
\* before, except in those three states; and following doctor leads to none of them.
EventuallyHealthy ==
  /\ <>[](Healthy \/ Helpless)
  /\ [][moves' = moves /\ Helpless' => Helpless]_vars

\* doctor.ts:3-4: the command a failed check names makes that check pass.
RemedyRepairs == [][\A i \in DOMAIN Checks : Follow(i) => Passes(Checks[i])']_vars

\* doctor.ts:3-4: every failed check names what would fix it.
EveryFailureHasRemedy == \A i \in Failed : Remediation(Checks[i]) # {}

\* doctor.ts:112-128: doctor reports a keychain as reachable only if there is one.
KeychainReported == Passes("OS keychain") => keychain

\* events.ts:1-4: no command ends in an error without an explanation.
Explained == printed # "UNKNOWN_ERROR"

=============================================================================
