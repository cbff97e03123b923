------------------------------- MODULE Install -------------------------------
(***************************************************************************)
(* mcpseal install and uninstall on the client config of one project       *)
(* (packages/cli-node/src/install.ts): .mcp.json and its backup            *)
(* .mcp.json.mcpseal-backup, whose existence is the only record of being   *)
(* installed.  Commands are processes that can be killed between any two   *)
(* system calls, and writeFileSync truncates a file before it fills it.    *)
(***************************************************************************)
EXTENDS Naturals

CONSTANTS
  Docs,        \* contents the user may give .mcp.json
  Processes,   \* install or uninstall commands that may run together
  MaxWraps,    \* how often a config can be wrapped (a bound)
  Absent,      \* no such file
  Torn         \* a file cut short: not valid JSON

File == [doc : Docs, wraps : 0 .. MaxWraps]

InstallAssumption ==
  /\ MaxWraps \in Nat \ {0}
  /\ {Absent, Torn} \cap File = {} /\ Absent # Torn

VARIABLES
  config,   \* .mcp.json
  backup,   \* .mcp.json.mcpseal-backup
  procs,    \* running commands: where they are, and the bytes they hold
  before    \* history: the config as it was when install read it

vars == <<config, backup, procs, before>>

Idle == [pc |-> "idle", held |-> Absent]

Goto(p, pc) == procs' = [procs EXCEPT ![p].pc = pc]
End(p)      == procs' = [procs EXCEPT ![p] = Idle]

Written(doc) == [doc |-> doc, wraps |-> 0]
Wrap(file)   == [file EXCEPT !.wraps = @ + 1]

(***************************************************************************)
(* install                                                                 *)
(***************************************************************************)
\* Both existsSync checks.
StartInstall(p) ==
  /\ procs[p].pc = "idle"
  /\ config # Absent
  /\ backup = Absent
  /\ Goto(p, "reading")
  /\ UNCHANGED <<config, backup, before>>

\* Faulty: the config is rewritten first.
ReadConfigThenRewrite(p) ==
  /\ procs[p].pc = "reading"
  /\ IF config = Torn
     THEN End(p) /\ UNCHANGED before
     ELSE /\ config.wraps < MaxWraps
          /\ procs' = [procs EXCEPT ![p] = [pc |-> "rewriting", held |-> config]]
          /\ before' = config
  /\ UNCHANGED <<config, backup>>

\* The bytes are read and parsed; invalid JSON makes install throw.
ReadConfig(p) ==
  /\ procs[p].pc = "reading"
  /\ IF config = Torn
     THEN End(p) /\ UNCHANGED before
     ELSE /\ config.wraps < MaxWraps
          /\ procs' = [procs EXCEPT ![p] = [pc |-> "backing up", held |-> config]]
          /\ before' = config
  /\ UNCHANGED <<config, backup>>

TruncateBackup(p) ==
  /\ procs[p].pc = "backing up"
  /\ backup' = Torn
  /\ Goto(p, "filling backup")
  /\ UNCHANGED <<config, before>>

\* Faulty: the rewritten bytes are backed up.
FillBackupWrapped(p) ==
  /\ procs[p].pc = "filling backup"
  /\ backup' = Wrap(procs[p].held)
  /\ Goto(p, "rewriting")
  /\ UNCHANGED <<config, before>>

FillBackup(p) ==
  /\ procs[p].pc = "filling backup"
  /\ backup' = procs[p].held
  /\ Goto(p, "rewriting")
  /\ UNCHANGED <<config, before>>

TruncateConfig(p) ==
  /\ procs[p].pc = "rewriting"
  /\ config' = Torn
  /\ Goto(p, "filling config")
  /\ UNCHANGED <<backup, before>>

FillConfig(p) ==
  /\ procs[p].pc = "filling config"
  /\ config' = Wrap(procs[p].held)
  /\ End(p)
  /\ UNCHANGED <<backup, before>>

(***************************************************************************)
(* uninstall                                                               *)
(***************************************************************************)
\* The backup is copied as it is, whatever it holds.
StartUninstall(p) ==
  /\ procs[p].pc = "idle"
  /\ backup # Absent
  /\ procs' = [procs EXCEPT ![p] = [pc |-> "restoring", held |-> backup]]
  /\ UNCHANGED <<config, backup, before>>

TruncateForRestore(p) ==
  /\ procs[p].pc = "restoring"
  /\ config' = Torn
  /\ Goto(p, "filling restored")
  /\ UNCHANGED <<backup, before>>

FillRestored(p) ==
  /\ procs[p].pc = "filling restored"
  /\ config' = procs[p].held
  /\ Goto(p, "unlinking")
  /\ UNCHANGED <<backup, before>>

Unlink(p) ==
  /\ procs[p].pc = "unlinking"
  /\ backup' = Absent
  /\ End(p)
  /\ UNCHANGED <<config, before>>

(***************************************************************************)
(* Environment                                                             *)
(***************************************************************************)
Kill(p) ==
  /\ procs[p].pc # "idle"
  /\ End(p)
  /\ UNCHANGED <<config, backup, before>>

AllIdle == \A p \in Processes : procs[p].pc = "idle"

\* The user, or another tool, edits the servers of the config, wrapped or not,
\* while no command runs; a config that is cut short is written anew.
EditConfig ==
  /\ AllIdle
  /\ \E d \in Docs :
       config' = IF config \in {Absent, Torn} THEN Written(d)
                                              ELSE [config EXCEPT !.doc = d]
  /\ UNCHANGED <<backup, procs, before>>

Init ==
  /\ config \in {Written(d) : d \in Docs} \cup {Absent}
  /\ backup = Absent
  /\ procs = [p \in Processes |-> Idle]
  /\ before = Absent

Step(p) ==
  \/ StartInstall(p) \/ ReadConfig(p)
  \/ TruncateBackup(p) \/ FillBackup(p)
  \/ TruncateConfig(p) \/ FillConfig(p)
  \/ StartUninstall(p)
  \/ TruncateForRestore(p) \/ FillRestored(p) \/ Unlink(p)
  \/ Kill(p)

Next == (\E p \in Processes : Step(p)) \/ EditConfig

Spec == Init /\ [][Next]_vars

(***************************************************************************)
(* Properties                                                              *)
(***************************************************************************)
Phases == {"idle", "reading", "backing up", "filling backup", "rewriting",
           "filling config", "restoring", "filling restored", "unlinking"}

\* Shape of the files and commands; the commands about to write hold bytes.
TypeOK ==
  /\ config \in File \cup {Absent, Torn}
  /\ backup \in File \cup {Absent, Torn}
  /\ before \in File \cup {Absent}
  /\ procs \in [Processes -> [pc : Phases, held : File \cup {Absent, Torn}]]
  /\ \A p \in Processes :
       procs[p].pc \in {"backing up", "filling backup", "rewriting", "filling config"}
         => procs[p].held \in File

Wrapped(file)   == file \in {f \in File : f.wraps > 0}
Unwrapped(file) == file \in {f \in File : f.wraps = 0}

\* install.ts:65-66: wherever a command is killed, a config that is routed
\* through the proxy comes with a complete backup of one that is not.
Restorable == Wrapped(config) => Unwrapped(backup)

Uninstalled(p) == procs[p].pc = "unlinking" /\ backup' = Absent

\* install.ts:6-9: when uninstall removes the backup, the config holds exactly
\* what it held before it was installed.
UninstallExact == [][\A p \in Processes : Uninstalled(p) => config = before]_vars

\* The same as far as the code keeps it: a backup that was not cut short by a
\* kill of install is restored exactly, over any sequence of commands, kills
\* and edits in between.
WholeBackupRestored ==
  [][\A p \in Processes : Uninstalled(p) /\ backup # Torn => config = before]_vars

=============================================================================
