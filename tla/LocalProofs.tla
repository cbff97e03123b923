---------------------------- MODULE LocalProofs ----------------------------
(***************************************************************************)
(* Theorems about the four components of MCLocal, each about the component *)
(* by itself, for every value of its constants, and then about the whole.  *)
(***************************************************************************)
EXTENDS MCLocal, FiniteSetTheorems, TLAPS

\* Each part behaves as if it were alone.
LEMMA PartsAlone ==
  Spec => Files!Spec /\ Log!Spec /\ Cred!Spec /\ Setup!Init /\ [][Setup!Next]_(Setup!vars)
<1>1. Init => Files!Init /\ Log!Init /\ Cred!Init /\ Setup!Init
  BY DEF Init
<1>2. [Next]_vars => [Files!Next]_(Files!vars) /\ [Log!Next]_(Log!vars)
                     /\ [Cred!Next]_(Cred!vars) /\ [Setup!Next]_(Setup!vars)
  BY DEF Next, vars, OnlyFiles, OnlySetup, OnlyLog, OnlyCred, filesVars, setupVars, logVars,
         credVars, Files!vars, Setup!vars, Log!vars, Cred!vars
<1>3. QED
  BY <1>1, <1>2, PTL DEF Spec, Files!Spec, Log!Spec, Cred!Spec

LEMMA LogCardinality ==
  \A S : Log!Cardinality(S) = Cardinality(S)
BY DEF Log!Cardinality, Cardinality, Log!IsFiniteSet, IsFiniteSet

OneInstall == \A p, q \in Installs : p = q

Contents == Files!File \cup {Absent, Torn}

(***************************************************************************)
(* The inductive invariant.  A backup is never wrapped and holds what      *)
(* install read last; a command works from what is on disk, since nothing  *)
(* else changes it meanwhile.                                              *)
(***************************************************************************)
BackupIsBefore == iBackup \in Files!File => Files!Unwrapped(iBackup) /\ iBackup = iBefore

Working(p) ==
  /\ iProcs[p].pc = "reading" => iConfig # Absent
  /\ iProcs[p].pc \in {"reading", "backing up"} => iBackup = Absent
  /\ iProcs[p].pc \in {"backing up", "filling backup"} =>
       iProcs[p].held = iConfig /\ iConfig = iBefore /\ Files!Unwrapped(iConfig)
  /\ iProcs[p].pc = "filling backup" => iBackup = Torn
  /\ iProcs[p].pc \in {"rewriting", "filling config"} =>
       iProcs[p].held = iBackup /\ iBackup \in Files!File
  /\ iProcs[p].pc = "filling config" => iConfig = Torn
  /\ iProcs[p].pc \in {"restoring", "filling restored", "unlinking"} =>
       iProcs[p].held = iBackup /\ iBackup # Absent
  /\ iProcs[p].pc = "filling restored" => iConfig = Torn
  /\ iProcs[p].pc = "unlinking" => iConfig = iBackup

InstallInv ==
  /\ Files!TypeOK
  /\ Files!Restorable
  /\ BackupIsBefore
  /\ \A p \in Installs : Working(p)

LEMMA FileFacts ==
  ASSUME Files!InstallAssumption
  PROVE  /\ \A f \in Files!File : f # Absent /\ f # Torn /\ f.wraps \in Nat
         /\ Absent # Torn
         /\ ~Files!Wrapped(Absent) /\ ~Files!Wrapped(Torn)
         /\ \A f : Files!Unwrapped(f) => f \in Files!File /\ ~Files!Wrapped(f)
         /\ \A f \in Files!File : ~Files!Wrapped(f) => Files!Unwrapped(f)
         /\ \A d \in Docs : Files!Unwrapped(Files!Written(d))
         /\ \A f \in Files!File, d \in Docs : LET g == [f EXCEPT !.doc = d] IN
              g \in Files!File /\ (Files!Wrapped(g) => Files!Wrapped(f))
         /\ \A f : Files!Unwrapped(f) => Files!Wrap(f) \in Files!File
         /\ ~Files!Unwrapped(Absent) /\ ~Files!Unwrapped(Torn)
<1>1. \A f \in Files!File : f # Absent /\ f # Torn /\ f.wraps \in 0 .. MaxWraps
  BY DEF Files!InstallAssumption, Files!File
<1>2. MaxWraps \in Nat /\ MaxWraps > 0
  BY DEF Files!InstallAssumption
<1>3. /\ ~Files!Wrapped(Absent) /\ ~Files!Wrapped(Torn)
      /\ \A f : Files!Unwrapped(f) => f \in Files!File /\ ~Files!Wrapped(f)
      /\ \A f \in Files!File : ~Files!Wrapped(f) => Files!Unwrapped(f)
  BY <1>1, <1>2 DEF Files!Wrapped, Files!Unwrapped
<1>4. \A d \in Docs : Files!Unwrapped(Files!Written(d))
  BY <1>2 DEF Files!Unwrapped, Files!Written, Files!File
<1>5. \A f \in Files!File, d \in Docs : LET g == [f EXCEPT !.doc = d] IN
        g \in Files!File /\ (Files!Wrapped(g) => Files!Wrapped(f))
  BY DEF Files!Wrapped, Files!File
<1>6. \A f : Files!Unwrapped(f) => Files!Wrap(f) \in Files!File
  BY <1>2 DEF Files!Wrap, Files!File, Files!Unwrapped
<1>7. QED
  BY <1>1, <1>2, <1>3, <1>4, <1>5, <1>6 DEF Files!InstallAssumption

LEMMA StepKeepsInv ==
  ASSUME Files!InstallAssumption, OneInstall, InstallInv, NEW p \in Installs, Files!Step(p)
  PROVE  InstallInv'
<1>0. \A q \in Installs : q = p
  BY DEF OneInstall
<1>t. /\ iConfig \in Contents /\ iBackup \in Contents /\ iBefore \in Files!File \cup {Absent}
      /\ iProcs \in [Installs -> [pc : Files!Phases, held : Contents]]
      /\ Files!TypeOK /\ Files!Restorable /\ BackupIsBefore /\ Working(p)
  BY DEF InstallInv, Files!TypeOK, Contents
<1> DEFINE New(pc, held) == iProcs' = [iProcs EXCEPT ![p] = [pc |-> pc, held |-> held]]
<1>g. ASSUME NEW pc \in Files!Phases, Files!Goto(p, pc)
      PROVE  /\ iProcs'[p].pc = pc /\ iProcs'[p].held = iProcs[p].held
             /\ iProcs' \in [Installs -> [pc : Files!Phases, held : Contents]]
  BY <1>t, <1>g DEF Files!Goto
<1>e. ASSUME Files!End(p)
      PROVE  /\ iProcs'[p].pc = "idle"
             /\ iProcs' \in [Installs -> [pc : Files!Phases, held : Contents]]
  BY <1>t, <1>e DEF Files!End, Files!Idle, Files!Phases, Contents
<1> SUFFICES (Files!TypeOK /\ Files!Restorable /\ BackupIsBefore /\ Working(p))'
  BY <1>0 DEF InstallInv
<1> USE <1>0, <1>t, FileFacts
<1>1. CASE Files!StartInstall(p)
  BY <1>1, <1>g DEF Files!StartInstall, Files!TypeOK, Contents, Files!Phases, Files!Restorable,
       BackupIsBefore, Working
<1>2. CASE Files!ReadConfig(p)
  <2>1. CASE iConfig = Torn
    <3>1. UNCHANGED <<iConfig, iBackup, iBefore>> /\ Files!End(p)
      BY <1>2, <2>1 DEF Files!ReadConfig
    <3>2. /\ iProcs'[p].pc = "idle"
          /\ iProcs' \in [Installs -> [pc : Files!Phases, held : Contents]]
      BY <3>1, <1>e
    <3>3. QED
      BY <3>1, <3>2 DEF Files!TypeOK, Contents, Files!Restorable, BackupIsBefore, Working
  <2>2. CASE iConfig # Torn
    <3>1. /\ iProcs[p].pc = "reading" /\ iConfig # Torn /\ iBefore' = iConfig
          /\ iProcs' = [iProcs EXCEPT ![p] = [pc |-> "backing up", held |-> iConfig]]
          /\ UNCHANGED <<iConfig, iBackup>>
      BY <1>2, <2>2 DEF Files!ReadConfig
    <3>2. iBackup = Absent /\ ~Files!Wrapped(iConfig)
      BY <3>1 DEF Working, Files!Restorable
    <3>3. iConfig \in Files!File /\ Files!Unwrapped(iConfig)
      BY <3>1, <3>2 DEF Contents, Working
    <3>4. /\ iProcs'[p].pc = "backing up" /\ iProcs'[p].held = iConfig
          /\ iProcs' \in [Installs -> [pc : Files!Phases, held : Contents]]
      BY <3>1 DEF Files!Phases
    <3>5. QED
      BY <3>1, <3>2, <3>3, <3>4 DEF Files!TypeOK, Contents, Files!Phases, Files!Restorable,
           BackupIsBefore, Working
  <2>3. QED
    BY <2>1, <2>2
<1>3. CASE Files!TruncateBackup(p)
  BY <1>3, <1>g DEF Files!TruncateBackup, Files!TypeOK, Contents, Files!Phases,
       Files!Restorable, BackupIsBefore, Working
<1>4. CASE Files!FillBackup(p)
  BY <1>4, <1>g DEF Files!FillBackup, Files!TypeOK, Contents, Files!Phases, Files!Restorable,
       BackupIsBefore, Working
<1>5. CASE Files!TruncateConfig(p)
  BY <1>5, <1>g DEF Files!TruncateConfig, Files!TypeOK, Contents, Files!Phases,
       Files!Restorable, BackupIsBefore, Working
<1>6. CASE Files!FillConfig(p)
  <2>1. /\ iProcs[p].held = iBackup /\ iBackup \in Files!File /\ Files!Unwrapped(iBackup)
        /\ iConfig' = Files!Wrap(iBackup) /\ iBackup' = iBackup /\ iBefore' = iBefore
    BY <1>6 DEF Files!FillConfig, Working, BackupIsBefore
  <2>2. iConfig' \in Files!File
    BY <2>1
  <2>3. /\ iProcs'[p].pc = "idle"
        /\ iProcs' \in [Installs -> [pc : Files!Phases, held : Contents]]
    BY <1>6, <1>e DEF Files!FillConfig
  <2>4. QED
    BY <2>1, <2>2, <2>3 DEF Files!TypeOK, Contents, Files!Restorable, BackupIsBefore, Working
<1>7. CASE Files!StartUninstall(p)
  <2>1. /\ iProcs' = [iProcs EXCEPT ![p] = [pc |-> "restoring", held |-> iBackup]]
        /\ UNCHANGED <<iConfig, iBackup, iBefore>> /\ iBackup # Absent
    BY <1>7 DEF Files!StartUninstall
  <2>2. /\ iProcs'[p].pc = "restoring" /\ iProcs'[p].held = iBackup
        /\ iProcs' \in [Installs -> [pc : Files!Phases, held : Contents]]
    BY <2>1 DEF Files!Phases
  <2>3. QED
    BY <2>1, <2>2 DEF Files!TypeOK, Contents, Files!Restorable, BackupIsBefore, Working
<1>8. CASE Files!TruncateForRestore(p)
  BY <1>8, <1>g DEF Files!TruncateForRestore, Files!TypeOK, Contents, Files!Phases,
       Files!Restorable, BackupIsBefore, Working
<1>9. CASE Files!FillRestored(p)
  BY <1>9, <1>g DEF Files!FillRestored, Files!TypeOK, Contents, Files!Phases, Files!Restorable,
       BackupIsBefore, Working
<1>10. CASE Files!Unlink(p)
  <2>1. iConfig = iBackup /\ iBackup' = Absent /\ UNCHANGED <<iConfig, iBefore>>
    BY <1>10 DEF Files!Unlink, Working
  <2>2. ~Files!Wrapped(iConfig)
    BY <2>1 DEF BackupIsBefore, Contents
  <2>3. /\ iProcs'[p].pc = "idle"
        /\ iProcs' \in [Installs -> [pc : Files!Phases, held : Contents]]
    BY <1>10, <1>e DEF Files!Unlink
  <2>4. Absent \notin Files!File
    BY DEF Files!InstallAssumption
  <2>5. QED
    BY <2>1, <2>2, <2>3, <2>4 DEF Files!TypeOK, Contents, Files!Restorable, BackupIsBefore,
         Working
<1>11. CASE Files!Kill(p)
  BY <1>11, <1>e DEF Files!Kill, Files!TypeOK, Contents, Files!Phases, Files!Restorable,
       BackupIsBefore, Working
<1>12. QED
  BY <1>1, <1>2, <1>3, <1>4, <1>5, <1>6, <1>7, <1>8, <1>9, <1>10, <1>11 DEF Files!Step

LEMMA EditKeepsInv ==
  ASSUME Files!InstallAssumption, InstallInv, Files!EditConfig
  PROVE  InstallInv'
<1>1. /\ UNCHANGED <<iBackup, iProcs, iBefore>> /\ \A p \in Installs : iProcs[p].pc = "idle"
  BY DEF Files!EditConfig, Files!AllIdle
<1>2. iConfig \in Contents
  BY DEF InstallInv, Files!TypeOK, Contents
<1>3. iConfig' \in Files!File /\ (Files!Wrapped(iConfig') => Files!Wrapped(iConfig))
  <2>1. PICK d \in Docs :
          iConfig' = IF iConfig \in {Absent, Torn} THEN Files!Written(d) ELSE [iConfig EXCEPT !.doc = d]
    BY DEF Files!EditConfig
  <2>2. CASE iConfig \in {Absent, Torn}
    <3>1. Files!Unwrapped(iConfig')
      BY <2>1, <2>2, FileFacts
    <3>2. QED
      BY <3>1, FileFacts
  <2>3. CASE iConfig \notin {Absent, Torn}
    <3>1. iConfig \in Files!File /\ iConfig' = [iConfig EXCEPT !.doc = d]
      BY <1>2, <2>1, <2>3 DEF Contents
    <3>2. QED
      BY <3>1 DEF Files!File, Files!Wrapped
  <2>4. QED
    BY <2>2, <2>3
<1>4. Files!TypeOK' /\ BackupIsBefore' /\ Files!Restorable'
  BY <1>1, <1>3 DEF InstallInv, Files!TypeOK, BackupIsBefore, Files!Restorable
<1>5. \A p \in Installs : Working(p)'
  BY <1>1 DEF Working
<1>6. QED
  BY <1>4, <1>5 DEF InstallInv

LEMMA InstallInvStep ==
  ASSUME Files!InstallAssumption, OneInstall
  PROVE  InstallInv /\ [Files!Next]_(Files!vars) => InstallInv'
<1> SUFFICES ASSUME InstallInv, [Files!Next]_(Files!vars)
             PROVE  InstallInv'
  OBVIOUS
<1>1. ASSUME NEW p \in Installs, Files!Step(p)
      PROVE  InstallInv'
  BY <1>1, StepKeepsInv
<1>2. CASE Files!EditConfig
  BY <1>2, EditKeepsInv
<1>3. CASE UNCHANGED Files!vars
  BY <1>3 DEF Files!vars, InstallInv, Files!TypeOK, BackupIsBefore, Files!Restorable, Working
<1>4. QED
  BY <1>1, <1>2, <1>3 DEF Files!Next

LEMMA InstallInvCorrect ==
  ASSUME Files!InstallAssumption, OneInstall
  PROVE  Files!Spec => []InstallInv
<1>1. Files!Init => InstallInv
  <2> SUFFICES ASSUME Files!Init
               PROVE  InstallInv
    OBVIOUS
  <2>1. iConfig \in Files!File \cup {Absent} /\ ~Files!Wrapped(iConfig)
    BY FileFacts DEF Files!Init
  <2>2. Absent \notin Files!File
    BY DEF Files!InstallAssumption
  <2>3. Files!TypeOK
    BY <2>1 DEF Files!Init, Files!TypeOK, Files!Idle, Files!Phases
  <2>4. \A p \in Installs : Working(p)
    BY DEF Files!Init, Files!Idle, Working
  <2>5. QED
    BY <2>1, <2>2, <2>3, <2>4 DEF Files!Init, InstallInv, Files!Restorable, BackupIsBefore
<1>2. QED
  BY <1>1, InstallInvStep, PTL DEF Files!Spec

\* Wherever install and uninstall are killed, one command at a time, a config that
\* is routed through the proxy comes with a whole backup of one that is not.
THEOREM AlwaysRestorable ==
  ASSUME Files!InstallAssumption, OneInstall
  PROVE  Files!Spec => [](Files!TypeOK /\ Files!Restorable)
BY InstallInvCorrect, PTL DEF InstallInv

\* A backup that was not cut short is restored exactly, over any sequence of
\* commands, kills and edits (uninstall).
THEOREM RestoredExactly ==
  ASSUME Files!InstallAssumption, OneInstall
  PROVE  Files!Spec => Files!WholeBackupRestored
<1>1. InstallInv /\ [Files!Next]_(Files!vars)
        => [\A p \in Installs : Files!Uninstalled(p) /\ iBackup # Torn => iConfig = iBefore]_(Files!vars)
  <2> SUFFICES ASSUME InstallInv, Files!Next, NEW p \in Installs, Files!Uninstalled(p), iBackup # Torn
               PROVE  iConfig = iBefore
    OBVIOUS
  <2>1. iConfig = iBackup /\ iBackup \in Contents /\ iBackup # Absent
    BY DEF InstallInv, Working, Files!Uninstalled, Files!TypeOK, Contents
  <2>2. QED
    BY <2>1 DEF InstallInv, BackupIsBefore, Contents
<1>2. QED
  BY <1>1, InstallInvCorrect, PTL DEF Files!Spec, Files!WholeBackupRestored

LEMMA SmallestOfNaturals ==
  ASSUME NEW S \in SUBSET Nat, S # {}
  PROVE  \E m \in S : \A n \in S : m <= n
<1> DEFINE R == {p \in Nat \X Nat : p[1] < p[2]}
<1>1. IsWellFoundedOn(R, Nat)
  BY NatLessThanWellFounded DEF OpToRel
<1>2. PICK m \in S : \A n \in S : ~(<<n, m>> \in R)
  BY <1>1, WFMin
<1>3. ASSUME NEW n \in S
      PROVE  m <= n
  <2>1. m \in Nat /\ n \in Nat
    OBVIOUS
  <2>2. ~(n < m)
    BY <1>2, <2>1
  <2>3. QED
    BY <2>1, <2>2
<1>4. QED
  BY <1>3

(***************************************************************************)
(* LocalSetup.  Once there is a backup, every server that is not launched  *)
(* through the proxy is one that was entered by hand since.                *)
(***************************************************************************)
OnlyAddedDirect ==
  backup # Absent => {s \in Servers : Setup!Entry(s) = "direct"} \subseteq added

SetupInv == Setup!TypeOK /\ OnlyAddedDirect

LEMMA ClassifyPrints ==
  \A site : Setup!Classify(site) \in Setup!Codes
<1> TAKE site
<1> DEFINE matching == {i \in DOMAIN Setup!Rules : site \in Setup!Rules[i].sites}
<1>1. CASE matching = {}
  BY <1>1 DEF Setup!Classify, Setup!Codes
<1>2. CASE matching # {}
  <2>0. DOMAIN Setup!Rules \subseteq Nat
    BY DEF Setup!Rules
  <2>1. matching \in SUBSET Nat
    BY <2>0
  <2>2. Setup!Min(matching) \in matching
    BY <1>2, <2>1, SmallestOfNaturals DEF Setup!Min
  <2>3. /\ Setup!Classify(site) = Setup!Rules[Setup!Min(matching)].code
        /\ Setup!Min(matching) \in DOMAIN Setup!Rules
    BY <1>2, <2>2 DEF Setup!Classify
  <2>4. QED
    BY <2>3 DEF Setup!Codes
<1>3. QED
  BY <1>1, <1>2

\* The entry of every server, before and after.
LEMMA EntryType ==
  ASSUME Setup!TypeOK, NEW s \in Servers
  PROVE  Setup!Entry(s) \in Setup!Launches /\ (config # Absent => config.entries[s] \in Setup!Launches)
BY DEF Setup!TypeOK, Setup!Entry, Setup!Config, Setup!Launches

LEMMA FailsKeeps ==
  ASSUME SetupInv, NEW error, Setup!Fails(error)
  PROVE  printed' \in Setup!Codes \cup {"ok"} /\ UNCHANGED <<config, backup, lockfile>>
BY ClassifyPrints DEF Setup!Fails, Setup!files

LEMMA RunTypes ==
  ASSUME SetupInv, NEW command, Setup!Run(command)
  PROVE  /\ config' \in Setup!Config \cup {Absent}
         /\ backup' \in Setup!Config \cup {Absent}
         /\ lockfile' \in Setup!Lockfile
         /\ printed' \in Setup!Codes \cup {"ok"}
<1> USE DEF SetupInv
<1>l. \A a \in SUBSET Servers : Setup!Approving(a) \in Setup!Lockfile
  BY DEF Setup!Approving, Setup!Lockfile
<1>1. CASE Setup!RunInit
  <2>1. CASE Setup!Fails(Setup!InitError)
    BY <2>1, FailsKeeps DEF Setup!TypeOK
  <2>2. CASE ~Setup!Fails(Setup!InitError)
    <3>1. /\ lockfile' = Setup!Approving({s \in Setup!Discovered : Setup!Shows(s)}) /\ printed' = "ok"
          /\ UNCHANGED <<config, backup>>
      BY <1>1, <2>2 DEF Setup!RunInit
    <3>2. {s \in Setup!Discovered : Setup!Shows(s)} \in SUBSET Servers
      BY DEF Setup!Discovered
    <3>3. QED
      BY <1>l, <3>1, <3>2 DEF Setup!TypeOK
  <2>3. QED
    BY <2>1, <2>2
<1>2. CASE Setup!RunInstall
  <2>1. CASE Setup!Fails(Setup!InstallError)
    BY <2>1, FailsKeeps DEF Setup!TypeOK
  <2>2. CASE ~Setup!Fails(Setup!InstallError)
    <3>1. /\ Setup!InstallError = {} /\ backup' = config /\ lockfile' = lockfile
          /\ config' = [config EXCEPT !.entries = Setup!ThroughProxy(@)] /\ printed' = "ok"
      BY <1>2, <2>2 DEF Setup!RunInstall
    <3>2. config # Absent
      BY <3>1 DEF Setup!InstallError
    <3>3. config \in Setup!Config
      BY <3>2 DEF Setup!TypeOK
    <3>4. Setup!ThroughProxy(config.entries) \in [Servers -> Setup!Launches]
      BY DEF Setup!ThroughProxy, Setup!Launches
    <3>5. config' \in Setup!Config
      BY <3>1, <3>3, <3>4 DEF Setup!Config
    <3>6. QED
      BY <3>1, <3>3, <3>5 DEF Setup!TypeOK
  <2>3. QED
    BY <2>1, <2>2
<1>3. CASE Setup!RunUninstall
  <2>1. CASE Setup!Fails(IF backup = Absent THEN {"uninstall: no backup found"} ELSE {})
    BY <2>1, FailsKeeps DEF Setup!TypeOK
  <2>2. CASE ~Setup!Fails(IF backup = Absent THEN {"uninstall: no backup found"} ELSE {})
    BY <1>3, <2>2 DEF Setup!RunUninstall, Setup!TypeOK
  <2>3. QED
    BY <2>1, <2>2
<1>4. CASE Setup!RunScan
  <2>1. CASE Setup!Fails(Setup!ScanError)
    BY <2>1, FailsKeeps DEF Setup!TypeOK
  <2>2. CASE ~Setup!Fails(Setup!ScanError)
    BY <1>4, <2>2 DEF Setup!RunScan, Setup!TypeOK, Setup!files
  <2>3. QED
    BY <2>1, <2>2
<1>5. ASSUME NEW s \in Servers, NEW approved \in BOOLEAN, Setup!SetToolStatus(s, approved)
      PROVE  /\ config' \in Setup!Config \cup {Absent}
             /\ backup' \in Setup!Config \cup {Absent}
             /\ lockfile' \in Setup!Lockfile
             /\ printed' \in Setup!Codes \cup {"ok"}
  <2>1. CASE Setup!Fails(Setup!SetToolError(s))
    BY <2>1, FailsKeeps DEF Setup!TypeOK
  <2>2. CASE ~Setup!Fails(Setup!SetToolError(s))
    <3>1. /\ Setup!SetToolError(s) = {} /\ UNCHANGED <<config, backup>> /\ printed' = "ok"
          /\ lockfile' = [lockfile EXCEPT !.approved = IF approved THEN @ \cup {s} ELSE @ \ {s}]
      BY <1>5, <2>2 DEF Setup!SetToolStatus
    <3>2. Setup!LockfileError = {}
      BY <3>1 DEF Setup!SetToolError, Setup!FirstOf
    <3>3. lockfile.read = "ok" /\ lockfile \in Setup!Lockfile
      BY <3>2 DEF Setup!LockfileError, Setup!TypeOK, Setup!Lockfile
    <3>4. lockfile' \in Setup!Lockfile
      BY <3>1, <3>3 DEF Setup!Lockfile
    <3>5. QED
      BY <3>1, <3>4 DEF Setup!TypeOK
  <2>3. QED
    BY <2>1, <2>2
<1>6. QED
  BY <1>1, <1>2, <1>3, <1>4, <1>5 DEF Setup!Run

\* The entries change as the commands that write the config change them.
LEMMA RunRoutes ==
  ASSUME SetupInv, NEW command, Setup!Run(command)
  PROVE  \/ UNCHANGED <<config, backup>>
         \/ backup' = Absent
         \/ \A s \in Servers : Setup!Entry(s)' # "direct"
<1>1. CASE Setup!Run("install") /\ command = "install"
  <2>1. CASE Setup!Fails(Setup!InstallError)
    BY <2>1, FailsKeeps
  <2>2. CASE ~Setup!Fails(Setup!InstallError)
    <3>1. /\ Setup!InstallError = {} /\ config' = [config EXCEPT !.entries = Setup!ThroughProxy(@)]
      BY <1>1, <2>2 DEF Setup!Run, Setup!RunInstall
    <3>2. config # Absent
      BY <3>1 DEF Setup!InstallError
    <3>3. config \in Setup!Config
      BY <3>2 DEF SetupInv, Setup!TypeOK
    <3>4. config'.entries = Setup!ThroughProxy(config.entries)
      BY <3>1, <3>3 DEF Setup!Config
    <3>5. \A s \in Servers : config'.entries[s] # "direct"
      BY <3>4 DEF Setup!ThroughProxy
    <3>6. QED
      BY <3>5 DEF Setup!Entry
  <2>3. QED
    BY <2>1, <2>2
<1>2. CASE command = "uninstall"
  <2>1. CASE Setup!Fails(IF backup = Absent THEN {"uninstall: no backup found"} ELSE {})
    BY <2>1, FailsKeeps
  <2>2. CASE ~Setup!Fails(IF backup = Absent THEN {"uninstall: no backup found"} ELSE {})
    BY <1>2, <2>2 DEF Setup!Run, Setup!RunUninstall
  <2>3. QED
    BY <2>1, <2>2
<1>3. CASE command \notin {"install", "uninstall"}
  BY <1>3 DEF Setup!Run, Setup!RunInit, Setup!RunScan, Setup!SetToolStatus, Setup!Fails,
       Setup!files
<1>4. QED
  BY <1>1, <1>2, <1>3

\* A command, its own or one that doctor names, with what the user keeps in mind.
LEMMA RunKeepsInv ==
  ASSUME SetupInv, NEW command, Setup!Run(command), Setup!NoteAdded,
         UNCHANGED Setup!rest, moves' \in 0 .. MaxMoves
  PROVE  SetupInv'
<1>1. /\ config' \in Setup!Config \cup {Absent} /\ backup' \in Setup!Config \cup {Absent}
      /\ lockfile' \in Setup!Lockfile /\ printed' \in Setup!Codes \cup {"ok"}
  BY RunTypes
<1>2. added' \in SUBSET Servers
  BY DEF Setup!NoteAdded, SetupInv, Setup!TypeOK
<1>3. Setup!TypeOK'
  BY <1>1, <1>2 DEF SetupInv, Setup!TypeOK, Setup!rest
<1>4. OnlyAddedDirect'
  <2>1. CASE UNCHANGED <<config, backup>>
    BY <2>1 DEF SetupInv, OnlyAddedDirect, Setup!NoteAdded, Setup!Entry
  <2>2. CASE backup' = Absent
    BY <2>2 DEF OnlyAddedDirect
  <2>3. CASE \A s \in Servers : Setup!Entry(s)' # "direct"
    BY <2>3 DEF OnlyAddedDirect
  <2>4. QED
    BY <2>1, <2>2, <2>3, RunRoutes
<1>5. QED
  BY <1>3, <1>4 DEF SetupInv

LEMMA CheckNames ==
  /\ DOMAIN Setup!Checks = 1 .. 5
  /\ \A i \in DOMAIN Setup!Checks :
       Setup!Checks[i] \in {"MCP configuration", "Lockfile", "Proxy installed",
                     "Local event log", "OS keychain"}
<1>1. DOMAIN Setup!Checks = 1 .. 5
  BY DEF Setup!Checks
<1>2. \A i \in 1 .. 5 : i = 1 \/ i = 2 \/ i = 3 \/ i = 4 \/ i = 5
  OBVIOUS
<1>3. /\ Setup!Checks[1] = "MCP configuration" /\ Setup!Checks[2] = "Lockfile"
      /\ Setup!Checks[3] = "Proxy installed" /\ Setup!Checks[4] = "Local event log"
      /\ Setup!Checks[5] = "OS keychain"
  BY DEF Setup!Checks
<1>4. QED
  BY <1>1, <1>2, <1>3

LEMMA FollowKeepsInv ==
  ASSUME SetupInv, Setup!FollowFirst
  PROVE  SetupInv'
<1>1. PICK remedy \in Setup!Remediation(Setup!Checks[Setup!FirstFailed]) :
        IF remedy = "fix config" THEN Setup!FixConfig ELSE Setup!Run(remedy)
  BY DEF Setup!FollowFirst, Setup!Follow
<1>2. Setup!NoteAdded /\ UNCHANGED <<log, keychain, moves>> /\ Setup!FirstFailed \in Setup!Failed
  BY DEF Setup!FollowFirst, Setup!Follow
<1>3. CASE remedy # "fix config"
  <2>1. Setup!Run(remedy) /\ UNCHANGED Setup!rest /\ moves' \in 0 .. MaxMoves
    BY <1>1, <1>2, <1>3 DEF Setup!rest, SetupInv, Setup!TypeOK
  <2>2. QED
    BY <1>2, <2>1, RunKeepsInv
<1>4. CASE remedy = "fix config"
  <2>1. /\ config' = [config EXCEPT !.parses = TRUE] /\ printed' = "ok"
        /\ UNCHANGED <<backup, lockfile>>
    BY <1>1, <1>4 DEF Setup!FixConfig
  <2>2. Setup!Checks[Setup!FirstFailed] = "MCP configuration" /\ ~Setup!Passes("MCP configuration")
    <3>1. ~Setup!Passes(Setup!Checks[Setup!FirstFailed]) /\ Setup!FirstFailed \in DOMAIN Setup!Checks
      BY <1>2 DEF Setup!Failed
    <3>2. Setup!Checks[Setup!FirstFailed] \in {"MCP configuration", "Lockfile", "Proxy installed",
                                   "Local event log", "OS keychain"}
      BY <3>1, CheckNames
    <3>3. "fix config" \in Setup!Remediation(Setup!Checks[Setup!FirstFailed])
      BY <1>4
    <3>4. Setup!Checks[Setup!FirstFailed] = "MCP configuration"
      BY <3>2, <3>3 DEF Setup!Remediation
    <3>5. QED
      BY <3>1, <3>4
  <2>3. config \in Setup!Config
    BY <2>2 DEF Setup!Passes, Setup!DiscoverError, SetupInv, Setup!TypeOK
  <2>4. config' \in Setup!Config /\ config'.entries = config.entries
    BY <2>1, <2>3 DEF Setup!Config
  <2>5. config # Absent
    BY <2>2 DEF Setup!Passes, Setup!DiscoverError
  <2>6. \A s \in Servers : Setup!Entry(s)' = "direct" => Setup!Entry(s) = "direct"
    BY <2>4, <2>5 DEF Setup!Entry
  <2>7. added' \in SUBSET Servers /\ (backup' # Absent => added \subseteq added')
    BY <1>2 DEF Setup!NoteAdded, SetupInv, Setup!TypeOK
  <2>8. Setup!TypeOK'
    BY <1>2, <2>1, <2>4, <2>7 DEF SetupInv, Setup!TypeOK
  <2>9. OnlyAddedDirect'
    BY <2>1, <2>6, <2>7 DEF SetupInv, OnlyAddedDirect
  <2>10. QED
    BY <2>8, <2>9 DEF SetupInv
<1>5. QED
  BY <1>3, <1>4

LEMMA SetupEditKeepsInv ==
  ASSUME Setup!LocalSetupAssumption, SetupInv, Setup!Edit
  PROVE  SetupInv'
<1>1. /\ moves' \in 0 .. MaxMoves /\ printed' = printed /\ Setup!NoteAdded
      /\ added' \in SUBSET Servers /\ (backup' # Absent => added \subseteq added')
  <2>1. moves \in 0 .. MaxMoves /\ moves < MaxMoves /\ moves' = moves + 1
    BY DEF Setup!Edit, SetupInv, Setup!TypeOK
  <2>n. MaxMoves \in Nat
    BY DEF Setup!LocalSetupAssumption
  <2>2. moves' \in 0 .. MaxMoves
    BY <2>1, <2>n
  <2>3. QED
    BY <2>2 DEF Setup!Edit, Setup!NoteAdded, SetupInv, Setup!TypeOK
<1>2. \A c \in Setup!Config \cup {Absent} : \A s \in Servers, launch \in Setup!Launches :
        LET d == [(IF c = Absent THEN Setup!NewConfig ELSE c) EXCEPT !.entries[s] = launch]
        IN  d \in Setup!Config
  <2>1. Setup!NewConfig \in Setup!Config
    BY DEF Setup!NewConfig, Setup!Config, Setup!Launches
  <2>2. \A c \in Setup!Config, s \in Servers, launch \in Setup!Launches :
          [c EXCEPT !.entries[s] = launch] \in Setup!Config
    BY DEF Setup!Config
  <2>3. QED
    BY <2>1, <2>2
<1>3. ASSUME NEW s \in Servers, NEW launch \in {"direct", "none"}, Setup!EditEntry(s, launch),
             launch = "direct" => Setup!Entry(s) = "none"
      PROVE  /\ config' \in Setup!Config \cup {Absent}
             /\ UNCHANGED <<backup, lockfile, log, keychain>>
             /\ \A t \in Servers : Setup!Entry(t)' = "direct" => Setup!Entry(t) \in {"direct", "none"}
  <2>1. /\ config' = [(IF config = Absent THEN Setup!NewConfig ELSE config)
                          EXCEPT !.entries[s] = launch]
        /\ UNCHANGED <<backup, lockfile, log, keychain>>
        /\ config \in Setup!Config \cup {Absent} /\ launch \in Setup!Launches
    BY <1>3 DEF Setup!EditEntry, SetupInv, Setup!TypeOK, Setup!Launches
  <2>2. config' \in Setup!Config
    BY <1>2, <2>1
  <2>3. \A t \in Servers : config'.entries[t] = "direct" => Setup!Entry(t) \in {"direct", "none"}
    <3>1. CASE config = Absent
      BY <3>1 DEF Setup!Entry
    <3>2. CASE config # Absent
      <4>1. config \in Setup!Config /\ config' = [config EXCEPT !.entries[s] = launch]
        BY <2>1, <3>2
      <4>2. config'.entries = [config.entries EXCEPT ![s] = launch]
        BY <4>1 DEF Setup!Config
      <4>3. config.entries \in [Servers -> Setup!Launches]
        BY <4>1 DEF Setup!Config
      <4>4. QED
        BY <1>3, <3>2, <4>2, <4>3 DEF Setup!Entry
    <3>3. QED
      BY <3>1, <3>2
  <2>4. QED
    BY <2>1, <2>2, <2>3 DEF Setup!Entry
<1>4. ASSUME NEW edit, Setup!EditConfig(edit)
      PROVE  /\ config' \in Setup!Config \cup {Absent}
             /\ UNCHANGED <<backup, lockfile, log, keychain>>
             /\ \A t \in Servers : Setup!Entry(t)' = "direct" => Setup!Entry(t) \in {"direct", "none"}
  <2>1. CASE \E s \in Servers \ Setup!Discovered : Setup!EditEntry(s, "direct")
    BY <1>3, <2>1 DEF Setup!Discovered
  <2>2. CASE \E s \in Setup!Discovered : Setup!EditEntry(s, "none")
    BY <1>3, <2>2 DEF Setup!Discovered
  <2>3. CASE /\ config # Absent
             /\ config' = [config EXCEPT !.parses = FALSE]
             /\ UNCHANGED <<backup, lockfile, log, keychain>>
    <3>1. config \in Setup!Config
      BY <2>3 DEF SetupInv, Setup!TypeOK
    <3>2. config' \in Setup!Config /\ config'.entries = config.entries
      BY <2>3, <3>1 DEF Setup!Config
    <3>3. QED
      BY <2>3, <3>2 DEF Setup!Entry
  <2>4. CASE config' = Absent /\ UNCHANGED <<backup, lockfile, log, keychain>>
    BY <2>4 DEF Setup!Entry
  <2>5. QED
    BY <1>4, <2>1, <2>2, <2>3, <2>4 DEF Setup!EditConfig
<1>5. ASSUME NEW edit, Setup!EditOther(edit)
      PROVE  /\ UNCHANGED <<config, backup>> /\ lockfile' \in Setup!Lockfile
             /\ log' \in BOOLEAN /\ keychain' \in BOOLEAN
  <2>1. Setup!Unreadable("missing") \in Setup!Lockfile /\ Setup!Unreadable("invalid") \in Setup!Lockfile
    BY DEF Setup!Unreadable, Setup!Lockfile
  <2>2. QED
    BY <1>5, <2>1 DEF Setup!EditOther, SetupInv, Setup!TypeOK
<1>6. /\ config' \in Setup!Config \cup {Absent} /\ backup' = backup
      /\ lockfile' \in Setup!Lockfile /\ log' \in BOOLEAN /\ keychain' \in BOOLEAN
      /\ \A t \in Servers : Setup!Entry(t)' = "direct" => Setup!Entry(t) \in {"direct", "none"}
  <2>1. PICK edit \in AllEdits : Setup!EditConfig(edit) \/ Setup!EditOther(edit)
    BY DEF Setup!Edit
  <2>2. CASE Setup!EditConfig(edit)
    BY <1>4, <2>2 DEF SetupInv, Setup!TypeOK
  <2>3. CASE Setup!EditOther(edit)
    BY <1>5, <2>3 DEF SetupInv, Setup!TypeOK, Setup!Entry
  <2>4. QED
    BY <2>1, <2>2, <2>3
<1>7. Setup!TypeOK'
  BY <1>1, <1>6 DEF SetupInv, Setup!TypeOK
<1>8. OnlyAddedDirect'
  BY <1>1, <1>6 DEF SetupInv, OnlyAddedDirect, Setup!NoteAdded
<1>9. QED
  BY <1>7, <1>8 DEF SetupInv

LEMMA SetupInvStep ==
  ASSUME Setup!LocalSetupAssumption
  PROVE  SetupInv /\ [Setup!Next]_(Setup!vars) => SetupInv'
<1> SUFFICES ASSUME SetupInv, [Setup!Next]_(Setup!vars)
             PROVE  SetupInv'
  OBVIOUS
<1>1. CASE Setup!OwnCommand
  <2>1. moves \in 0 .. MaxMoves /\ moves < MaxMoves /\ moves' = moves + 1
    BY <1>1 DEF Setup!OwnCommand, SetupInv, Setup!TypeOK
  <2>n. MaxMoves \in Nat
    BY DEF Setup!LocalSetupAssumption
  <2>2. moves' \in 0 .. MaxMoves
    BY <2>1, <2>n
  <2>3. QED
    BY <1>1, <2>2, RunKeepsInv DEF Setup!OwnCommand
<1>2. CASE UNCHANGED Setup!vars
  BY <1>2 DEF Setup!vars, SetupInv, Setup!TypeOK, OnlyAddedDirect, Setup!Entry
<1>3. QED
  BY <1>1, <1>2, FollowKeepsInv, SetupEditKeepsInv DEF Setup!Next

LEMMA SetupInvCorrect ==
  ASSUME Setup!LocalSetupAssumption
  PROVE  Setup!Init /\ [][Setup!Next]_(Setup!vars) => []SetupInv
<1>1. Setup!Init => SetupInv
  <2> SUFFICES ASSUME Setup!Init
               PROVE  SetupInv
    OBVIOUS
  <2>1. config \in Setup!Config \cup {Absent}
    <3>1. CASE config = Absent
      BY <3>1
    <3>2. CASE config # Absent
      <4>1. PICK parses \in BOOLEAN, entries \in [Servers -> {"none", "direct"}] :
              config = [parses |-> parses, entries |-> entries]
        BY <3>2 DEF Setup!Init
      <4>2. entries \in [Servers -> Setup!Launches]
        BY DEF Setup!Launches
      <4>3. QED
        BY <4>1, <4>2 DEF Setup!Config
    <3>3. QED
      BY <3>1, <3>2
  <2>2. MaxMoves \in Nat
    BY DEF Setup!LocalSetupAssumption
  <2>3. 0 \in 0 .. MaxMoves
    BY <2>2
  <2>4. QED
    BY <2>1, <2>3 DEF Setup!Init, SetupInv, Setup!TypeOK, OnlyAddedDirect
<1>2. QED
  BY <1>1, SetupInvStep, PTL

\* Only init and approve add to the lockfile, and what they add they saw.
LEMMA ApprovedWasShown ==
  ASSUME SetupInv, NEW command, Setup!Run(command), NEW s \in Servers, Setup!Entry(s) = "proxied",
         s \in lockfile'.approved
  PROVE  s \in lockfile.approved
<1>0. lockfile \in Setup!Lockfile
  BY DEF SetupInv, Setup!TypeOK
<1>1. CASE command = "init"
  <2>1. CASE lockfile' = lockfile
    BY <2>1
  <2>2. CASE lockfile' = Setup!Approving({t \in Setup!Discovered : Setup!Shows(t)})
    BY <2>2 DEF Setup!Approving, Setup!Shows
  <2>3. QED
    BY <1>1, <2>1, <2>2 DEF Setup!Run, Setup!RunInit, Setup!Fails, Setup!files
<1>2. CASE command \in {"install", "uninstall", "scan"}
  BY <1>2 DEF Setup!Run, Setup!RunInstall, Setup!RunUninstall, Setup!RunScan, Setup!Fails,
       Setup!files
<1>3. ASSUME NEW t \in Servers, NEW approved \in BOOLEAN, Setup!SetToolStatus(t, approved)
      PROVE  s \in lockfile.approved
  <2>1. CASE lockfile' = lockfile
    BY <2>1
  <2>2. CASE lockfile' # lockfile
    <3>1. /\ Setup!SetToolError(t) = {}
          /\ lockfile' = [lockfile EXCEPT !.approved = IF approved THEN @ \cup {t} ELSE @ \ {t}]
      BY <1>3, <2>2 DEF Setup!SetToolStatus, Setup!Fails, Setup!files
    <3>2. Setup!Shows(t)
      BY <3>1 DEF Setup!SetToolError, Setup!FirstOf
    <3>3. s \in lockfile.approved \/ s = t
      BY <1>0, <3>1 DEF Setup!Lockfile
    <3>4. QED
      BY <3>2, <3>3 DEF Setup!Shows
  <2>3. QED
    BY <2>1, <2>2
<1>4. QED
  BY <1>1, <1>2, <1>3 DEF Setup!Run

\* LocalSetup: when doctor reports no failure, every server of the project is launched
\* through the proxy, those added by hand excepted; and no command approves a tool
\* that the proxy hides (doctor.ts; init.ts, manage.ts).
THEOREM SetupIsSafe ==
  ASSUME Setup!LocalSetupAssumption
  PROVE  Setup!Init /\ [][Setup!Next]_(Setup!vars)
           => [](Setup!TypeOK /\ Setup!RoutedWhenHealthy) /\ Setup!HiddenStaysHidden
<1>1. SetupInv => Setup!TypeOK /\ Setup!RoutedWhenHealthy
  <2> SUFFICES ASSUME SetupInv, Setup!Healthy
               PROVE  {s \in Servers : Setup!Entry(s) = "direct"} \subseteq added
    BY DEF SetupInv, Setup!RoutedWhenHealthy
  <2>1. Setup!Passes("Proxy installed")
    <3>1. 3 \in DOMAIN Setup!Checks /\ Setup!Checks[3] = "Proxy installed"
      BY DEF Setup!Checks
    <3>2. QED
      BY <3>1 DEF Setup!Healthy, Setup!Failed
  <2>2. QED
    BY <2>1 DEF Setup!Passes, SetupInv, OnlyAddedDirect
<1>2. SetupInv /\ [Setup!Next]_(Setup!vars)
        => [\A s \in Servers : Setup!Entry(s) = "proxied" /\ Setup!Entry(s)' = "proxied"
              => (s \in lockfile'.approved => s \in lockfile.approved)]_(Setup!vars)
  <2> SUFFICES ASSUME SetupInv, Setup!Next, NEW s \in Servers, Setup!Entry(s) = "proxied",
                      s \in lockfile'.approved
               PROVE  s \in lockfile.approved
    OBVIOUS
  <2>1. CASE Setup!FollowFirst
    BY <2>1, ApprovedWasShown DEF Setup!FollowFirst, Setup!Follow, Setup!FixConfig
  <2>2. CASE Setup!OwnCommand
    BY <2>2, ApprovedWasShown DEF Setup!OwnCommand
  <2>3. CASE Setup!Edit
    <3>1. PICK edit \in AllEdits : Setup!EditConfig(edit) \/ Setup!EditOther(edit)
      BY <2>3 DEF Setup!Edit
    <3>2. Setup!EditConfig(edit) => lockfile' = lockfile
      BY DEF Setup!EditConfig, Setup!EditEntry
    <3>3. Setup!EditOther(edit) => lockfile' = lockfile \/ lockfile'.approved = {}
      <4>1. Setup!Unreadable("missing").approved = {} /\ Setup!Unreadable("invalid").approved = {}
        BY DEF Setup!Unreadable
      <4>2. QED
        BY <4>1 DEF Setup!EditOther
    <3>4. QED
      BY <3>1, <3>2, <3>3
  <2>4. QED
    BY <2>1, <2>2, <2>3 DEF Setup!Next
<1>3. QED
  BY <1>1, <1>2, SetupInvCorrect, PTL DEF Setup!HiddenStaysHidden

(***************************************************************************)
(* EventLog.  Of two processes of one port, the one that stamps after the  *)
(* other's append was complete has no earlier time stamp and stands later  *)
(* in the log: that is what makes position the right tiebreaker.           *)
(***************************************************************************)
OnePort == \A p, q \in LogPorts : p = q

Forms   == {"whole", "fragment", "unterminated"}
EventOf == [stage : {"none", "stamped", "logged", "torn"}, key : Nat \X Nat, blocked : BOOLEAN]
Line    == [by : Writers, form : Forms]

LogTypes ==
  /\ now \in Nat
  /\ events \in [Writers -> EventOf]
  /\ lines \in Seq(Line)
  /\ before \in [Writers -> SUBSET Writers]

\* Every process appends at most once, after it stamped.
OneLineEach ==
  /\ \A i \in 1 .. Len(lines) : events[lines[i].by].stage \in {"logged", "torn"}
  /\ \A i, j \in 1 .. Len(lines) : lines[i].by = lines[j].by => i = j

\* No time stamp is ahead of the clock.
StampsPast ==
  \A w \in Writers, p \in LogPorts :
    events[w].stage # "none" => ~Log!Later(events[w].key, Log!Stamp(p))

StampedLater ==
  \A w \in Writers : \A v \in before[w] :
    /\ events[w].stage # "none"
    /\ \E i \in 1 .. Len(lines) :
         /\ lines[i].by = v
         /\ \A j \in 1 .. Len(lines) : lines[j].by = w => i < j
    /\ ~Log!Later(events[v].key, events[w].key)

LogInv == LogTypes /\ OneLineEach /\ StampsPast /\ StampedLater

LEMMA LaterOrder ==
  \A a, b, c \in Nat \X Nat :
    /\ ~Log!Later(a, a)
    /\ ~Log!Later(a, b) /\ ~Log!Later(b, c) => ~Log!Later(a, c)
    /\ Log!Later(a, b) /\ Log!Later(b, c) => Log!Later(a, c)
    /\ Log!Later(a, b) => ~Log!Later(b, a)
    /\ Log!Later(a, b) \/ Log!Later(b, a) \/ a = b
<1> SUFFICES ASSUME NEW a \in Nat \X Nat, NEW b \in Nat \X Nat, NEW c \in Nat \X Nat
             PROVE  /\ ~Log!Later(a, a)
                    /\ ~Log!Later(a, b) /\ ~Log!Later(b, c) => ~Log!Later(a, c)
                    /\ Log!Later(a, b) /\ Log!Later(b, c) => Log!Later(a, c)
                    /\ Log!Later(a, b) => ~Log!Later(b, a)
                    /\ Log!Later(a, b) \/ Log!Later(b, a) \/ a = b
  OBVIOUS
<1>1. /\ a[1] \in Nat /\ a[2] \in Nat /\ b[1] \in Nat /\ b[2] \in Nat
      /\ c[1] \in Nat /\ c[2] \in Nat
      /\ a[1] = b[1] /\ a[2] = b[2] => a = b
  OBVIOUS
<1>2. QED
  BY <1>1 DEF Log!Later

\* A quotient does not fall, and in one quotient the remainder does not.
LEMMA NextMicrosecond ==
  ASSUME NEW n \in Nat, NEW g \in Nat \ {0}
  PROVE  /\ n \div g \in Nat /\ (n + 1) \div g \in Nat
         /\ n % g \in Nat /\ (n + 1) % g \in Nat
         /\ \/ n \div g < (n + 1) \div g
            \/ n \div g = (n + 1) \div g /\ n % g <= (n + 1) % g
<1>1. ASSUME NEW m \in Nat
      PROVE  /\ m \div g \in Nat /\ m % g \in Nat /\ m % g < g
             /\ m = g * (m \div g) + (m % g)
  <2>1. m \div g \in Int /\ m % g \in 0 .. g - 1
    OBVIOUS
  <2>2. ~(m \div g < 0)
    OBVIOUS
  <2>3. m = g * (m \div g) + (m % g)
    OBVIOUS
  <2>4. QED
    BY <2>1, <2>2, <2>3
<1>2. ASSUME NEW q \in Nat, NEW r \in Nat, NEW p \in Nat, NEW t \in Nat,
             r < g, t < g, g * q + r + 1 = g * p + t
      PROVE  q < p \/ (q = p /\ r <= t)
  <2>1. CASE p < q
    <3>1. PICK d \in Nat : q = p + 1 + d
      BY <2>1
    <3>2. g * q = g * p + g + g * d
      BY <3>1
    <3>3. g * d \in Nat /\ g * p \in Nat
      OBVIOUS
    <3>4. QED
      BY <1>2, <3>2, <3>3
  <2>2. CASE p = q
    BY <1>2, <2>2
  <2>3. QED
    BY <2>1, <2>2
<1>3. n + 1 \in Nat
  OBVIOUS
<1>4. g * (n \div g) + (n % g) + 1 = g * ((n + 1) \div g) + ((n + 1) % g)
  BY <1>1, <1>3
<1>5. QED
  BY <1>1, <1>2, <1>3, <1>4

LEMMA StampType ==
  ASSUME Log!EventLogAssumption, now \in Nat, NEW p \in LogPorts
  PROVE  Log!Stamp(p) \in Nat \X Nat
<1>1. Grain \in Nat \ {0}
  BY DEF Log!EventLogAssumption
<1>2. now \div Grain \in Nat /\ now % Grain \in Nat
  BY <1>1, NextMicrosecond
<1>3. QED
  BY <1>1, <1>2 DEF Log!Stamp

LEMMA ClockGrows ==
  ASSUME Log!EventLogAssumption, now \in Nat, now' = now + 1, NEW p \in LogPorts
  PROVE  ~Log!Later(Log!Stamp(p), Log!Stamp(p)')
<1>1. Grain \in Nat \ {0}
  BY DEF Log!EventLogAssumption
<1>2. /\ now \div Grain \in Nat /\ (now + 1) \div Grain \in Nat
      /\ now % Grain \in Nat /\ (now + 1) % Grain \in Nat
      /\ \/ now \div Grain < (now + 1) \div Grain
         \/ now \div Grain = (now + 1) \div Grain /\ now % Grain <= (now + 1) % Grain
  BY <1>1, NextMicrosecond
<1>3. CASE p = "node"
  BY <1>1, <1>2, <1>3 DEF Log!Later, Log!Stamp
<1>4. CASE p # "node"
  BY <1>2, <1>4 DEF Log!Later, Log!Stamp
<1>5. QED
  BY <1>3, <1>4

LEMMA LineFacts ==
  ASSUME lines \in Seq(Line), NEW i \in 1 .. Len(lines)
  PROVE  lines[i].by \in Writers /\ lines[i].form \in Forms
<1>1. lines[i] \in Line
  OBVIOUS
<1>2. QED
  BY <1>1 DEF Line

LEMMA CompleteFacts ==
  ASSUME LogInv, NEW v \in Log!Complete
  PROVE  v \in Writers /\ \E i \in 1 .. Len(lines) : lines[i].by = v
BY LineFacts DEF Log!Complete, LogInv, LogTypes

LEMMA LogInvTick ==
  ASSUME Log!EventLogAssumption, LogInv, Log!Tick
  PROVE  LogInv'
<1>1. now \in Nat /\ now' = now + 1 /\ UNCHANGED <<events, lines, before>>
  BY DEF Log!Tick, LogInv, LogTypes
<1>2. LogTypes' /\ OneLineEach' /\ StampedLater'
  BY <1>1 DEF LogInv, LogTypes, OneLineEach, StampedLater
<1>3. StampsPast'
  <2> SUFFICES ASSUME NEW w \in Writers, NEW p \in LogPorts, events[w].stage # "none"
               PROVE  ~Log!Later(events[w].key, Log!Stamp(p)')
    BY <1>1 DEF StampsPast
  <2>1. ~Log!Later(events[w].key, Log!Stamp(p)) /\ ~Log!Later(Log!Stamp(p), Log!Stamp(p)')
    BY <1>1, ClockGrows DEF LogInv, StampsPast
  <2>2. now' \in Nat
    BY <1>1
  <2>3. events[w].key \in Nat \X Nat /\ Log!Stamp(p) \in Nat \X Nat
    BY <1>1, StampType DEF LogInv, LogTypes, EventOf
  <2>4. Log!Stamp(p)' \in Nat \X Nat
    <3>1. Grain \in Nat \ {0}
      BY DEF Log!EventLogAssumption
    <3>2. now' \div Grain \in Nat /\ now' % Grain \in Nat
      BY <2>2, <3>1, NextMicrosecond
    <3>3. QED
      BY <3>1, <3>2 DEF Log!Stamp
  <2>5. QED
    BY <2>1, <2>3, <2>4, LaterOrder
<1>4. QED
  BY <1>2, <1>3 DEF LogInv

LEMMA LogInvStamp ==
  ASSUME Log!EventLogAssumption, OnePort, LogInv, NEW w \in Writers, Log!StampEvent(w)
  PROVE  LogInv'
<1>0. /\ events \in [Writers -> EventOf] /\ lines \in Seq(Line) /\ now \in Nat
      /\ before \in [Writers -> SUBSET Writers]
  BY DEF LogInv, LogTypes
<1>1. PICK of \in LogPorts, blocked \in BOOLEAN :
        events' = [events EXCEPT ![w] =
                     [stage |-> "stamped", key |-> Log!Stamp(of), blocked |-> blocked]]
  BY DEF Log!StampEvent
<1>2. /\ events[w].stage = "none" /\ UNCHANGED <<now, lines>>
      /\ before' = [before EXCEPT ![w] = Log!Complete]
  BY DEF Log!StampEvent
<1>3. /\ events'[w].key = Log!Stamp(of) /\ events'[w].stage = "stamped"
      /\ \A v \in Writers \ {w} : events'[v] = events[v] /\ before'[v] = before[v]
      /\ before'[w] = Log!Complete
  BY <1>0, <1>1, <1>2
<1>4. LogTypes'
  <2>1. Log!Stamp(of) \in Nat \X Nat
    BY <1>0, StampType
  <2>2. events' \in [Writers -> EventOf]
    BY <1>0, <1>1, <2>1 DEF EventOf
  <2>3. Log!Complete \in SUBSET Writers
    BY CompleteFacts
  <2>4. QED
    BY <1>0, <1>2, <2>2, <2>3 DEF LogTypes
<1>5. \A i \in 1 .. Len(lines) : lines[i].by \in Writers /\ lines[i].by # w
  BY <1>0, <1>2, LineFacts DEF LogInv, OneLineEach
<1>6. OneLineEach'
  BY <1>2, <1>3, <1>5 DEF LogInv, OneLineEach
<1>7. StampsPast'
  <2> SUFFICES ASSUME NEW v \in Writers, NEW p \in LogPorts, events'[v].stage # "none"
               PROVE  ~Log!Later(events'[v].key, Log!Stamp(p))
    BY <1>2 DEF StampsPast, Log!Stamp
  <2>1. CASE v = w
    <3>1. p = of
      BY DEF OnePort
    <3>2. QED
      BY <1>0, <1>3, <2>1, <3>1, StampType, LaterOrder
  <2>2. CASE v # w
    BY <1>3, <2>2 DEF LogInv, StampsPast
  <2>3. QED
    BY <2>1, <2>2
<1>8. StampedLater'
  <2> SUFFICES ASSUME NEW x \in Writers, NEW v \in before'[x]
               PROVE  /\ events'[x].stage # "none"
                      /\ \E i \in 1 .. Len(lines) :
                           /\ lines[i].by = v
                           /\ \A j \in 1 .. Len(lines) : lines[j].by = x => i < j
                      /\ ~Log!Later(events'[v].key, events'[x].key)
    BY <1>2 DEF StampedLater
  <2>1. CASE x = w
    <3>1. PICK i \in 1 .. Len(lines) : lines[i].by = v
      BY <1>3, <2>1, CompleteFacts
    <3>2. v \in Writers /\ v # w /\ events[v].stage # "none"
      BY <1>5, <3>1 DEF LogInv, OneLineEach
    <3>3. ~Log!Later(events[v].key, Log!Stamp(of))
      BY <3>2 DEF LogInv, StampsPast
    <3>4. QED
      BY <1>3, <1>5, <2>1, <3>1, <3>2, <3>3
  <2>2. CASE x # w
    <3>1. v \in before[x]
      BY <1>3, <2>2
    <3>2. /\ events[x].stage # "none"
          /\ \E i \in 1 .. Len(lines) :
               /\ lines[i].by = v
               /\ \A j \in 1 .. Len(lines) : lines[j].by = x => i < j
          /\ ~Log!Later(events[v].key, events[x].key)
      BY <3>1 DEF LogInv, StampedLater
    <3>3. v \in Writers /\ v # w
      BY <1>5, <3>2
    <3>4. QED
      BY <1>3, <2>2, <3>2, <3>3
  <2>3. QED
    BY <2>1, <2>2
<1>9. QED
  BY <1>4, <1>6, <1>7, <1>8 DEF LogInv

\* An append, whole or not, or one that fails.
LEMMA LogInvAppend ==
  ASSUME LogInv, NEW w \in Writers, NEW stage \in {"logged", "torn"},
         events[w].stage = "stamped", events' = [events EXCEPT ![w].stage = stage],
         UNCHANGED <<now, before>>,
         lines' = lines \/ \E form \in Forms : lines' = Append(lines, [by |-> w, form |-> form])
  PROVE  LogInv'
<1>0. /\ events \in [Writers -> EventOf] /\ lines \in Seq(Line) /\ now \in Nat
      /\ before \in [Writers -> SUBSET Writers]
  BY DEF LogInv, LogTypes
<1>1. /\ events' \in [Writers -> EventOf] /\ events'[w].stage = stage
      /\ \A v \in Writers : events'[v].key = events[v].key
      /\ \A v \in Writers \ {w} : events'[v] = events[v]
  BY <1>0 DEF EventOf
<1>2. lines' \in Seq(Line)
  <2>1. \A form \in Forms : [by |-> w, form |-> form] \in Line
    BY DEF Line
  <2>2. \A line \in Line : Append(lines, line) \in Seq(Line)
    BY <1>0
  <2>3. QED
    BY <1>0, <2>1, <2>2
<1>3. LogTypes'
  BY <1>0, <1>1, <1>2 DEF LogTypes
<1>4. /\ Len(lines) \in Nat /\ Len(lines') \in Nat
      /\ \A i \in 1 .. Len(lines) : i \in 1 .. Len(lines') /\ lines'[i] = lines[i]
      /\ \A i \in 1 .. Len(lines') :
            i \in 1 .. Len(lines) \/ (i = Len(lines) + 1 /\ lines'[i].by = w)
  <2>1. CASE lines' = lines
    BY <1>0, <2>1
  <2>2. ASSUME NEW form \in Forms, lines' = Append(lines, [by |-> w, form |-> form])
        PROVE  /\ Len(lines) \in Nat /\ Len(lines') \in Nat
               /\ \A i \in 1 .. Len(lines) : i \in 1 .. Len(lines') /\ lines'[i] = lines[i]
               /\ \A i \in 1 .. Len(lines') :
                    i \in 1 .. Len(lines) \/ (i = Len(lines) + 1 /\ lines'[i].by = w)
    <3> DEFINE line == [by |-> w, form |-> form]
    <3>0. line.by = w
      OBVIOUS
    <3> HIDE DEF line
    <3>1. lines' = Append(lines, line)
      BY <2>2 DEF line
    <3>2. /\ Len(lines) \in Nat /\ Len(lines') = Len(lines) + 1 /\ lines'[Len(lines) + 1] = line
          /\ \A i \in 1 .. Len(lines) : lines'[i] = lines[i]
      BY <1>0, <3>1
    <3>3. QED
      BY <3>0, <3>2
  <2>3. QED
    BY <2>1, <2>2
<1>5. \A i \in 1 .. Len(lines) : lines[i].by \in Writers /\ lines[i].by # w
  BY <1>0, LineFacts DEF LogInv, OneLineEach
<1>6. OneLineEach'
  <2>1. \A i \in 1 .. Len(lines') : events'[lines'[i].by].stage \in {"logged", "torn"}
    BY <1>1, <1>4, <1>5 DEF LogInv, OneLineEach
  <2>2. \A i, j \in 1 .. Len(lines') : lines'[i].by = lines'[j].by => i = j
    BY <1>4, <1>5 DEF LogInv, OneLineEach
  <2>3. QED
    BY <2>1, <2>2 DEF OneLineEach
<1>7. StampsPast'
  <2> SUFFICES ASSUME NEW v \in Writers, NEW p \in LogPorts, events'[v].stage # "none"
               PROVE  ~Log!Later(events'[v].key, Log!Stamp(p))
    BY DEF StampsPast, Log!Stamp
  <2>1. events[v].stage # "none"
    BY <1>1
  <2>2. QED
    BY <1>1, <2>1 DEF LogInv, StampsPast
<1>8. StampedLater'
  <2> SUFFICES ASSUME NEW x \in Writers, NEW v \in before[x]
               PROVE  /\ events'[x].stage # "none"
                      /\ \E i \in 1 .. Len(lines') :
                           /\ lines'[i].by = v
                           /\ \A j \in 1 .. Len(lines') : lines'[j].by = x => i < j
                      /\ ~Log!Later(events'[v].key, events'[x].key)
    BY DEF StampedLater
  <2>1. /\ events[x].stage # "none" /\ v \in Writers
        /\ ~Log!Later(events[v].key, events[x].key)
    BY <1>0 DEF LogInv, StampedLater
  <2>2. PICK i \in 1 .. Len(lines) :
          lines[i].by = v /\ \A j \in 1 .. Len(lines) : lines[j].by = x => i < j
    BY DEF LogInv, StampedLater
  <2>3. \A j \in 1 .. Len(lines') : lines'[j].by = x => i < j
    BY <1>4, <2>2
  <2>4. QED
    BY <1>1, <1>4, <2>1, <2>2, <2>3
<1>9. QED
  BY <1>3, <1>6, <1>7, <1>8 DEF LogInv

LEMMA LogInvCorrect ==
  ASSUME Log!EventLogAssumption, OnePort
  PROVE  Log!Spec => []LogInv
<1>1. Log!Init => LogInv
  BY DEF Log!Init, Log!NoEvent, LogInv, LogTypes, OneLineEach, StampsPast, StampedLater, EventOf
<1>2. LogInv /\ [Log!Next]_(Log!vars) => LogInv'
  <2> SUFFICES ASSUME LogInv, [Log!Next]_(Log!vars)
               PROVE  LogInv'
    OBVIOUS
  <2>1. CASE Log!Tick
    BY <2>1, LogInvTick
  <2>2. ASSUME NEW w \in Writers, Log!StampEvent(w)
        PROVE  LogInv'
    BY <2>2, LogInvStamp
  <2>3. ASSUME NEW w \in Writers, Log!AppendEvent(w) \/ Log!AppendTorn(w) \/ Log!AppendFails(w)
        PROVE  LogInv'
    <3>1. PICK stage \in {"logged", "torn"} :
            /\ events[w].stage = "stamped" /\ events' = [events EXCEPT ![w].stage = stage]
            /\ UNCHANGED <<now, before>>
            /\ \/ lines' = lines
               \/ \E form \in Forms : lines' = Append(lines, [by |-> w, form |-> form])
      BY <2>3 DEF Log!AppendEvent, Log!AppendTorn, Log!AppendFails, Log!Append1, Forms
    <3>2. QED
      BY <3>1, LogInvAppend
  <2>4. CASE UNCHANGED Log!vars
    BY <2>4 DEF Log!vars, LogInv, LogTypes, OneLineEach, StampsPast, StampedLater, Log!Stamp
  <2>5. QED
    BY <2>1, <2>2, <2>3, <2>4 DEF Log!Next
<1>3. QED
  BY <1>1, <1>2, PTL DEF Log!Spec

LEMMA NewerOrder ==
  ASSUME LogInv, NEW i \in 1 .. Len(lines), NEW j \in 1 .. Len(lines), NEW k \in 1 .. Len(lines)
  PROVE  /\ ~Log!Newer(i, i)
         /\ Log!Newer(i, j) /\ Log!Newer(j, k) => Log!Newer(i, k)
<1>1. Log!Key(i) \in Nat \X Nat /\ Log!Key(j) \in Nat \X Nat /\ Log!Key(k) \in Nat \X Nat
  <2>1. \A n \in 1 .. Len(lines) : lines[n].by \in Writers
    BY LineFacts DEF LogInv, LogTypes
  <2>2. \A w \in Writers : events[w].key \in Nat \X Nat
    BY DEF LogInv, LogTypes, EventOf
  <2>3. QED
    BY <2>1, <2>2 DEF Log!Key
<1>2. /\ ~Log!Later(Log!Key(i), Log!Key(i))
      /\ Log!Later(Log!Key(i), Log!Key(j)) /\ Log!Later(Log!Key(j), Log!Key(k))
            => Log!Later(Log!Key(i), Log!Key(k))
  BY <1>1, LaterOrder
<1>3. QED
  BY <1>1, <1>2 DEF Log!Newer

LEMMA BlockedFinite ==
  ASSUME LogInv
  PROVE  /\ IsFiniteSet(1 .. Len(lines))
         /\ Log!Blocked \subseteq 1 .. Len(lines)
         /\ \A i \in 1 .. Len(lines) : IsFiniteSet({j \in Log!Blocked : Log!Newer(j, i)})
<1>1. Len(lines) \in Nat
  BY DEF LogInv, LogTypes
<1>2. IsFiniteSet(1 .. Len(lines))
  BY <1>1, FS_Interval
<1>3. Log!Blocked \subseteq 1 .. Len(lines)
  BY DEF Log!Blocked, Log!ReadEvents
<1>4. ASSUME NEW i \in 1 .. Len(lines)
      PROVE  IsFiniteSet({j \in Log!Blocked : Log!Newer(j, i)})
  <2>1. {j \in Log!Blocked : Log!Newer(j, i)} \subseteq 1 .. Len(lines)
    BY <1>3
  <2>2. QED
    BY <1>2, <2>1, FS_Subset
<1>5. QED
  BY <1>2, <1>3, <1>4

\* A block that was in the log before another one was recorded is not shown
\* above it, and not instead of it (recentBlocks).
THEOREM BlocksNewestFirst ==
  ASSUME Log!EventLogAssumption, OnePort
  PROVE  Log!Spec => []Log!NewestFirst
<1>1. LogInv => Log!NewestFirst
  <2> SUFFICES ASSUME LogInv, NEW i \in Log!RecentBlocks, NEW j \in Log!Blocked,
                      lines[i].by \in before[lines[j].by]
               PROVE  j \in Log!RecentBlocks /\ Log!Place(j) < Log!Place(i)
    BY DEF Log!NewestFirst
  <2>1. i \in 1 .. Len(lines) /\ j \in 1 .. Len(lines) /\ Log!Place(i) < Limit
    BY BlockedFinite DEF Log!RecentBlocks
  <2>2. lines[i].by \in Writers /\ lines[j].by \in Writers
    BY <2>1, LineFacts DEF LogInv, LogTypes
  <2>3. /\ \E n \in 1 .. Len(lines) :
             /\ lines[n].by = lines[i].by
             /\ \A m \in 1 .. Len(lines) : lines[m].by = lines[j].by => n < m
        /\ ~Log!Later(Log!Key(i), Log!Key(j))
    BY <2>2 DEF LogInv, StampedLater, Log!Key
  <2>4. i < j
    BY <2>1, <2>3 DEF LogInv, OneLineEach
  <2>5. Log!Newer(j, i)
    <3>1. Log!Key(i) \in Nat \X Nat /\ Log!Key(j) \in Nat \X Nat
      BY <2>2 DEF Log!Key, LogInv, LogTypes, EventOf
    <3>2. Log!Later(Log!Key(j), Log!Key(i)) \/ Log!Key(i) = Log!Key(j)
      BY <2>3, <3>1, LaterOrder
    <3>3. QED
      BY <2>1, <2>4, <3>2 DEF Log!Newer
  <2> DEFINE above(k) == {n \in Log!Blocked : Log!Newer(n, k)}
  <2>6. above(j) \subseteq above(i) \ {j}
    <3> SUFFICES ASSUME NEW n \in Log!Blocked, Log!Newer(n, j)
                 PROVE  Log!Newer(n, i) /\ n # j
      OBVIOUS
    <3>1. n \in 1 .. Len(lines)
      BY BlockedFinite
    <3>2. QED
      BY <2>1, <2>5, <3>1, NewerOrder
  <2>7. j \in above(i) /\ IsFiniteSet(above(i))
    BY <2>1, <2>5, BlockedFinite
  <2>8. /\ Cardinality(above(i)) \in Nat
        /\ Cardinality(above(i) \ {j}) = Cardinality(above(i)) - 1
        /\ IsFiniteSet(above(i) \ {j})
    BY <2>7, FS_CardinalityType, FS_RemoveElement
  <2>9. Cardinality(above(j)) <= Cardinality(above(i) \ {j}) /\ IsFiniteSet(above(j))
    BY <2>6, <2>8, FS_Subset
  <2>10. Cardinality(above(j)) \in Nat
    BY <2>9, FS_CardinalityType
  <2>11. Log!Place(j) < Log!Place(i) /\ Log!Place(j) \in Nat /\ Log!Place(i) \in Nat
    BY <2>8, <2>9, <2>10, LogCardinality DEF Log!Place
  <2>12. Limit \in Nat
    BY DEF Log!EventLogAssumption
  <2>13. Log!Place(j) < Limit
    BY <2>1, <2>11, <2>12
  <2>14. QED
    BY <2>11, <2>13 DEF Log!RecentBlocks
<1>2. QED
  BY <1>1, LogInvCorrect, PTL

\* An append that was cut short costs at most one event besides its own, over any
\* number of appends (readEvents).
THEOREM LittleIsLost ==
  Log!Spec => []Log!LossBounded
<1> DEFINE Lines == lines \in Seq(Line)
<1>1. Log!Init => Lines
  BY DEF Log!Init
<1>2. Lines /\ [Log!Next]_(Log!vars) => Lines'
  <2> SUFFICES ASSUME lines \in Seq(Line), lines' # lines, Log!Next
               PROVE  lines' \in Seq(Line)
    BY DEF Log!vars
  <2>1. PICK w \in Writers, form \in Forms : lines' = Append(lines, [by |-> w, form |-> form])
    BY DEF Log!Next, Log!Tick, Log!StampEvent, Log!AppendEvent, Log!AppendTorn,
         Log!AppendFails, Log!Append1, Forms
  <2>2. [by |-> w, form |-> form] \in Line
    BY DEF Line
  <2>3. \A line \in Line : Append(lines, line) \in Seq(Line)
    OBVIOUS
  <2>4. QED
    BY <2>1, <2>2, <2>3
<1>3. Lines => Log!LossBounded
  <2> SUFFICES ASSUME lines \in Seq(Line)
               PROVE  Log!LossBounded
    OBVIOUS
  <2> DEFINE lost == {i \in 1 .. Len(lines) : lines[i].form = "whole" /\ i \notin Log!ReadEvents}
             torn == {i \in 1 .. Len(lines) : lines[i].form # "whole"}
             previous == [i \in lost |-> i - 1]
  <2>1. Len(lines) \in Nat /\ IsFiniteSet(1 .. Len(lines))
    BY FS_Interval
  <2>2. IsFiniteSet(torn)
    BY <2>1, FS_Subset
  <2>3. ASSUME NEW i \in lost
        PROVE  i - 1 \in torn
    <3>1. i # 1 /\ lines[i - 1].form # "whole"
      BY DEF Log!ReadEvents, Log!IsJson, Log!StartsLine
    <3>2. QED
      BY <2>1, <3>1
  <2>4. \A i, j \in lost : i - 1 = j - 1 => i = j
    BY <2>1
  <2>5. previous \in Injection(lost, torn)
    BY <2>3, <2>4 DEF Injection, IsInjective
  <2>6. Cardinality(lost) <= Cardinality(torn)
    BY <2>2, <2>5, FS_Injection
  <2>7. QED
    BY <2>6, LogCardinality DEF Log!LossBounded, Log!Tears
<1> HIDE DEF Lines
<1>4. QED
  BY <1>1, <1>2, <1>3, PTL DEF Log!Spec

OneLogin == \A p, q \in Logins : p = q

LoginPhases == {"idle", "polling", "approved", "identified", "registered", "connecting",
                "leaving"}
Process == [pc : LoginPhases, key : Cred!Keys, identity : Cred!Numbers, step : 0 .. 3]

(***************************************************************************)
(* What each step of a login has behind it: the machine is registered with *)
(* the identity in the keychain before the key is stored, and all of it    *)
(* before there is a config.  A logout begins with the config.             *)
(***************************************************************************)
LoggingIn(p) ==
  /\ procs[p].pc \in {"polling", "approved", "identified", "registered", "connecting"} =>
       cConfig = None
  /\ procs[p].pc \in {"approved", "identified", "registered", "connecting"} =>
       procs[p].key.workspace \in Workspaces
  /\ procs[p].pc \in {"identified", "registered", "connecting"} =>
       procs[p].identity = secrets.identity
  /\ procs[p].pc \in {"registered", "connecting"} => Cred!Machine(p) \in registered
  /\ procs[p].pc = "connecting" => secrets.key = procs[p].key

LoggingOut(p) ==
  procs[p].pc = "leaving" =>
    /\ procs[p].step \in 1 .. 3
    /\ procs[p].step > 1 => cConfig = None

CredInv ==
  /\ Cred!TypeOK
  /\ Cred!LoggedInIsUsable
  /\ \A p \in Logins : LoggingIn(p) /\ LoggingOut(p)

LEMMA CredTypes ==
  ASSUME CredInv
  PROVE  /\ procs \in [Logins -> Process]
         /\ issued \in Nat /\ issued \in Cred!Numbers /\ retired \in Cred!Numbers
         /\ secrets \in [key : Cred!Keys, identity : Cred!Numbers]
         /\ Cred!LogoutOrder[1] = "config" /\ Cred!LogoutOrder[2] = "key"
         /\ Cred!LogoutOrder[3] = "identity"
         /\ Len(Cred!LogoutOrder) = 3 /\ 0 .. Len(Cred!LogoutOrder) = 0 .. 3
<1>1. Len(Cred!LogoutOrder) = 3
  BY DEF Cred!LogoutOrder
<1>2. 0 .. Len(Cred!LogoutOrder) = 0 .. 3
  BY <1>1
<1>3. procs \in [Logins -> Process]
  BY <1>2 DEF CredInv, Cred!TypeOK, Process, LoginPhases
<1>4. QED
  BY <1>1, <1>2, <1>3 DEF CredInv, Cred!TypeOK, Cred!LogoutOrder, Cred!Numbers

LEMMA LoginKeepsInv ==
  ASSUME Cred!CredentialsAssumption, OneLogin, CredInv, NEW p \in Logins,
         \/ Cred!StartLogin(p) \/ Cred!Approved(p) \/ Cred!LoadIdentity(p) \/ Cred!CreateIdentity(p)
         \/ Cred!Register(p) \/ Cred!StoreKey(p) \/ Cred!WriteConfig(p)
  PROVE  CredInv'
<1>0. \A q \in Logins : q = p
  BY DEF OneLogin
<1>t. /\ procs[p] \in Process /\ Cred!Keys = [n : Cred!Numbers, workspace : Workspaces \cup {None}]
      /\ Cred!TypeOK /\ Cred!LoggedInIsUsable /\ LoggingIn(p) /\ LoggingOut(p)
  BY CredTypes DEF CredInv, Cred!Keys
<1>g. ASSUME NEW pc \in LoginPhases, Cred!Goto(p, pc)
      PROVE  /\ procs' \in [Logins -> Process]
             /\ procs'[p].pc = pc /\ procs'[p].key = procs[p].key
             /\ procs'[p].identity = procs[p].identity /\ procs'[p].step = procs[p].step
  BY <1>t, <1>g, CredTypes DEF Cred!Goto, Process
<1> SUFFICES (Cred!TypeOK /\ Cred!LoggedInIsUsable /\ LoggingIn(p) /\ LoggingOut(p))'
  BY <1>0 DEF CredInv
<1> USE <1>0, <1>t, CredTypes
<1>1. CASE Cred!StartLogin(p)
  BY <1>1, <1>g DEF Cred!StartLogin, Cred!TypeOK, LoginPhases, Process, Cred!LoggedInIsUsable,
       LoggingIn,
     LoggingOut, Cred!At
<1>2. CASE Cred!Approved(p)
  <2>1. PICK w \in Workspaces :
          procs' = [procs EXCEPT ![p].pc = "approved",
                                 ![p].key = [n |-> issued', workspace |-> w]]
    BY <1>2 DEF Cred!Approved
  <2>2. issued' \in Cred!Numbers
    <3>1. issued \in Nat /\ MaxIssued \in Nat /\ issued < MaxIssued /\ issued' = issued + 1
      BY <1>2 DEF Cred!Approved, Cred!CredentialsAssumption
    <3>2. QED
      BY <3>1 DEF Cred!Numbers
  <2>3. [n |-> issued', workspace |-> w] \in Cred!Keys
    BY <2>2
  <2>4. procs' \in [Logins -> Process]
    BY <2>1, <2>3 DEF Process, LoginPhases
  <2>5. procs'[p].pc = "approved" /\ procs'[p].key = [n |-> issued', workspace |-> w]
    BY <2>1 DEF Process
  <2>6. /\ UNCHANGED <<port, cConfig, secrets, access, registered, retired, passedOver>>
        /\ cConfig = None
    BY <1>2 DEF Cred!Approved, Cred!At, LoggingIn
  <2>7. Cred!TypeOK'
    <3>1. issued' \in Cred!Numbers /\ retired' \in Cred!Numbers
      BY <2>2, <2>6
    <3>2. QED
      BY <2>4, <2>6, <3>1 DEF Cred!TypeOK, Process, LoginPhases
  <2>8. (Cred!LoggedInIsUsable /\ LoggingIn(p) /\ LoggingOut(p))'
    BY <2>5, <2>6, <1>2 DEF Cred!LoggedInIsUsable, LoggingIn, LoggingOut
  <2>9. QED
    BY <2>7, <2>8
<1>3. CASE Cred!LoadIdentity(p)
  <2>1. /\ procs' \in [Logins -> Process] /\ procs'[p].pc = "identified"
        /\ procs'[p].key = procs[p].key /\ procs'[p].identity = secrets.identity
    BY <1>3 DEF Cred!LoadIdentity, Process, LoginPhases
  <2>2. QED
    BY <1>3, <2>1 DEF Cred!LoadIdentity, Cred!At, Cred!TypeOK, LoginPhases, Process,
         Cred!LoggedInIsUsable,
       LoggingIn, LoggingOut
<1>4. CASE Cred!CreateIdentity(p)
  <2>1. issued' \in Cred!Numbers
    BY <1>4 DEF Cred!CreateIdentity, Cred!Numbers, Cred!CredentialsAssumption
  <2>2. /\ procs' \in [Logins -> Process] /\ procs'[p].pc = "identified"
        /\ procs'[p].key = procs[p].key /\ procs'[p].identity = issued'
    BY <1>4, <2>1 DEF Cred!CreateIdentity, Process, LoginPhases
  <2>3. /\ secrets' \in [key : Cred!Keys, identity : Cred!Numbers]
        /\ secrets'.identity = issued' /\ secrets'.key = secrets.key
    BY <1>4, <2>1 DEF Cred!CreateIdentity
  <2>4. QED
    BY <1>4, <2>1, <2>2, <2>3 DEF Cred!CreateIdentity, Cred!At, Cred!TypeOK, LoginPhases, Process,
       Cred!LoggedInIsUsable, LoggingIn, LoggingOut
<1>5. CASE Cred!Register(p)
  <2>1. Cred!Machine(p) \in [id : Cred!Numbers, identity : Cred!Numbers, workspace : Workspaces]
    BY <1>5 DEF Cred!Register, Cred!At, Cred!Machine, LoggingIn, Process
  <2>2. /\ procs' \in [Logins -> Process] /\ procs'[p].pc = "registered"
        /\ procs'[p].key = procs[p].key /\ procs'[p].identity = procs[p].identity
    BY <1>5, <1>g DEF Cred!Register, LoginPhases
  <2>3. Cred!Machine(p)' = Cred!Machine(p)
    BY <2>2 DEF Cred!Machine
  <2>4. QED
    BY <1>5, <2>1, <2>2, <2>3 DEF Cred!Register, Cred!At, Cred!TypeOK, LoginPhases, Process,
       Cred!LoggedInIsUsable, LoggingIn, LoggingOut
<1>6. CASE Cred!StoreKey(p)
  <2>1. /\ procs' \in [Logins -> Process] /\ procs'[p].pc = "connecting"
        /\ procs'[p].key = procs[p].key /\ procs'[p].identity = procs[p].identity
    BY <1>6, <1>g DEF Cred!StoreKey, LoginPhases
  <2>2. /\ secrets' \in [key : Cred!Keys, identity : Cred!Numbers]
        /\ secrets'.identity = secrets.identity /\ secrets'.key = procs[p].key
    BY <1>6 DEF Cred!StoreKey, Process
  <2>3. Cred!Machine(p)' = Cred!Machine(p)
    BY <2>1 DEF Cred!Machine
  <2>4. QED
    BY <1>6, <2>1, <2>2, <2>3 DEF Cred!StoreKey, Cred!At, Cred!TypeOK, LoginPhases, Process,
       Cred!LoggedInIsUsable, LoggingIn, LoggingOut
<1>7. CASE Cred!WriteConfig(p)
  <2> DEFINE workspace == procs[p].key.workspace
  <2>1. /\ workspace \in Workspaces /\ cConfig = None
        /\ procs[p].identity = secrets.identity /\ secrets.key = procs[p].key
        /\ Cred!Machine(p) \in registered /\ procs[p].key.n \in Cred!Numbers
    BY <1>7 DEF Cred!WriteConfig, Cred!At, LoggingIn, Process
  <2>2. cConfig' = [workspace |-> workspace, machine |-> procs[p].key.n,
                   orgPublicKey |-> OrgKeyOf[workspace]]
    BY <1>7, <2>1 DEF Cred!WriteConfig, Cred!Pinned
  <2>3. cConfig' \in [workspace : Workspaces, machine : Cred!Numbers,
                     orgPublicKey : {OrgKeyOf[w] : w \in Workspaces} \cup {None}]
    BY <2>1, <2>2
  <2>4. /\ procs' \in [Logins -> Process] /\ procs'[p].pc = "idle"
    BY <1>7 DEF Cred!WriteConfig, Cred!End, Cred!Idle, Cred!NoKey, Process, LoginPhases,
         Cred!Numbers,
       Cred!CredentialsAssumption
  <2>5. [id |-> cConfig'.machine, identity |-> secrets.identity,
         workspace |-> cConfig'.workspace] \in registered
    BY <2>1, <2>2 DEF Cred!Machine
  <2>6. QED
    BY <1>7, <2>1, <2>2, <2>3, <2>4, <2>5 DEF Cred!WriteConfig, Cred!TypeOK, LoginPhases, Process,
       Cred!LoggedInIsUsable, LoggingIn, LoggingOut
<1>8. QED
  BY <1>1, <1>2, <1>3, <1>4, <1>5, <1>6, <1>7

LEMMA LogoutKeepsInv ==
  ASSUME Cred!CredentialsAssumption, OneLogin, CredInv, NEW p \in Logins,
         \/ Cred!StartLogout(p) \/ Cred!ClearConfig(p) \/ Cred!Stop(p)
         \/ Cred!DeleteSecret(p, "key", Cred!NoKey) \/ Cred!DeleteSecret(p, "identity", 0)
  PROVE  CredInv'
<1>0. \A q \in Logins : q = p
  BY DEF OneLogin
<1>t. /\ procs[p] \in Process /\ Cred!Keys = [n : Cred!Numbers, workspace : Workspaces \cup {None}]
      /\ 0 \in Cred!Numbers /\ Cred!NoKey \in Cred!Keys
      /\ Cred!TypeOK /\ Cred!LoggedInIsUsable /\ LoggingIn(p) /\ LoggingOut(p)
  BY CredTypes DEF CredInv, Cred!Keys, Cred!NoKey, Cred!Numbers, Cred!CredentialsAssumption
<1>e. ASSUME Cred!End(p)
      PROVE  procs' \in [Logins -> Process] /\ procs'[p].pc = "idle"
  BY <1>t, <1>e, CredTypes DEF Cred!End, Cred!Idle, Process, LoginPhases
<1>s. ASSUME Cred!Leaving(p, Cred!LogoutOrder[procs[p].step]), Cred!StepDone(p)
      PROVE  /\ procs' \in [Logins -> Process] /\ retired' \in Cred!Numbers
             /\ procs'[p].pc \in {"idle", "leaving"}
             /\ procs'[p].pc = "leaving" => procs'[p].step = procs[p].step + 1
                                           /\ procs'[p].step \in 1 .. 3
  <2>1. procs[p].step \in 1 .. 3
    BY <1>t, <1>s DEF Cred!Leaving, Cred!At, LoggingOut
  <2>2. CASE procs[p].step < 3
    <3>1. procs' = [procs EXCEPT ![p].step = @ + 1] /\ retired' = retired
      BY <1>s, <2>2, CredTypes DEF Cred!StepDone
    <3>2. procs[p].step + 1 \in 0 .. 3
      BY <2>1, <2>2
    <3>3. procs' \in [Logins -> Process] /\ procs'[p].step = procs[p].step + 1
      BY <1>t, <3>1, <3>2, CredTypes DEF Process
    <3>4. QED
      BY <1>t, <1>s, <2>1, <2>2, <3>1, <3>3, CredTypes DEF Process, Cred!Leaving, Cred!At
  <2>3. CASE ~(procs[p].step < 3)
    BY <1>e, <1>s, <2>3, CredTypes DEF Cred!StepDone
  <2>4. QED
    BY <2>2, <2>3
<1> SUFFICES (Cred!TypeOK /\ Cred!LoggedInIsUsable /\ LoggingIn(p) /\ LoggingOut(p))'
  BY <1>0 DEF CredInv
<1> USE <1>0, <1>t, CredTypes
<1>1. CASE Cred!StartLogout(p)
  <2>1. /\ procs' \in [Logins -> Process] /\ procs'[p].pc = "leaving" /\ procs'[p].step = 1
    BY <1>1, 1 \in 0 .. 3 DEF Cred!StartLogout, Process, LoginPhases
  <2>2. QED
    BY <1>1, <2>1 DEF Cred!StartLogout, Cred!TypeOK, LoginPhases, Process,
         Cred!LoggedInIsUsable, LoggingIn,
       LoggingOut
<1>2. CASE Cred!ClearConfig(p)
  <2>1. /\ procs' \in [Logins -> Process] /\ retired' \in Cred!Numbers
        /\ procs'[p].pc \in {"idle", "leaving"}
        /\ procs'[p].pc = "leaving" => procs'[p].step \in 1 .. 3
    BY <1>2, <1>s DEF Cred!ClearConfig, Cred!Leaving
  <2>2. QED
    BY <1>2, <2>1 DEF Cred!ClearConfig, Cred!TypeOK, LoginPhases, Process,
         Cred!LoggedInIsUsable, LoggingIn,
       LoggingOut
<1>3. CASE Cred!Stop(p)
  BY <1>3, <1>e DEF Cred!Stop, Cred!TypeOK, LoginPhases, Process, Cred!LoggedInIsUsable,
       LoggingIn, LoggingOut
<1>4. ASSUME NEW account \in {"key", "identity"}, NEW nothing \in Cred!Keys \cup Cred!Numbers,
             account = "key" => nothing = Cred!NoKey, account = "identity" => nothing = 0,
             Cred!DeleteSecret(p, account, nothing)
      PROVE  (Cred!TypeOK /\ Cred!LoggedInIsUsable /\ LoggingIn(p) /\ LoggingOut(p))'
  <2>1. /\ cConfig = None /\ procs[p].step > 1 /\ Cred!Leaving(p, Cred!LogoutOrder[procs[p].step])
        /\ UNCHANGED <<port, cConfig, access, registered, issued>>
    BY <1>4 DEF Cred!DeleteSecret, Cred!Leaving, Cred!At, LoggingOut
  <2>2. secrets' \in [key : Cred!Keys, identity : Cred!Numbers]
    <3>1. secrets' = secrets \/ secrets' = [secrets EXCEPT ![account] = nothing]
      BY <1>4 DEF Cred!DeleteSecret
    <3>2. CASE account = "key"
      BY <1>4, <3>1, <3>2
    <3>3. CASE account = "identity"
      BY <1>4, <3>1, <3>3
    <3>4. QED
      BY <3>2, <3>3
  <2>3. /\ procs' \in [Logins -> Process] /\ retired' \in Cred!Numbers
        /\ procs'[p].pc \in {"idle", "leaving"}
        /\ procs'[p].pc = "leaving" => procs'[p].step > 1 /\ procs'[p].step \in 1 .. 3
    <3>1. Cred!StepDone(p) \/ (Cred!End(p) /\ retired' = retired)
      BY <1>4 DEF Cred!DeleteSecret
    <3>2. CASE Cred!StepDone(p)
      <4>1. procs[p].step \in 0 .. 3
        BY DEF Process
      <4>2. QED
        BY <1>s, <2>1, <3>2, <4>1
    <3>3. CASE Cred!End(p) /\ retired' = retired
      BY <1>e, <3>3
    <3>4. QED
      BY <3>1, <3>2, <3>3
  <2>4. passedOver' \subseteq {"key", "identity"}
    <3>1. passedOver \subseteq {"key", "identity"}
      BY DEF Cred!TypeOK
    <3>2. passedOver' \subseteq passedOver \cup {account}
      BY <1>4 DEF Cred!DeleteSecret
    <3>3. QED
      BY <1>4, <3>1, <3>2
  <2>5. QED
    BY <2>1, <2>2, <2>3, <2>4 DEF Cred!TypeOK, LoginPhases, Process, Cred!LoggedInIsUsable,
         LoggingIn, LoggingOut
<1>5. QED
  <2>1. CASE Cred!DeleteSecret(p, "key", Cred!NoKey)
    BY <1>4, <2>1
  <2>2. CASE Cred!DeleteSecret(p, "identity", 0)
    <3>1. "identity" # "key"
      OBVIOUS
    <3>2. QED
      BY <1>4, <2>2, <3>1
  <2>3. QED
    BY <1>1, <1>2, <1>3, <2>1, <2>2

LEMMA CredInvStep ==
  ASSUME Cred!CredentialsAssumption, OneLogin
  PROVE  CredInv /\ [Cred!Next]_(Cred!vars) => CredInv'
<1> SUFFICES ASSUME CredInv, [Cred!Next]_(Cred!vars)
             PROVE  CredInv'
  OBVIOUS
<1>1. ASSUME NEW p \in Logins,
             \/ Cred!StartLogin(p) \/ Cred!Approved(p) \/ Cred!LoadIdentity(p) \/ Cred!CreateIdentity(p)
             \/ Cred!Register(p) \/ Cred!StoreKey(p) \/ Cred!WriteConfig(p)
      PROVE  CredInv'
  BY <1>1, LoginKeepsInv
<1>2. ASSUME NEW p \in Logins,
             \/ Cred!StartLogout(p) \/ Cred!ClearConfig(p) \/ Cred!Stop(p)
             \/ Cred!DeleteSecret(p, "key", Cred!NoKey) \/ Cred!DeleteSecret(p, "identity", 0)
      PROVE  CredInv'
  BY <1>2, LogoutKeepsInv
<1>3. CASE Cred!LockOrUnlock
  BY <1>3 DEF Cred!LockOrUnlock, CredInv, Cred!TypeOK, Cred!LoggedInIsUsable, LoggingIn,
       LoggingOut, Cred!Machine
<1>4. CASE UNCHANGED Cred!vars
  BY <1>4 DEF Cred!vars, CredInv, Cred!TypeOK, Cred!LoggedInIsUsable, LoggingIn, LoggingOut,
       Cred!Machine
<1>5. QED
  BY <1>1, <1>2, <1>3, <1>4 DEF Cred!Next

LEMMA CredInvCorrect ==
  ASSUME Cred!CredentialsAssumption, OneLogin
  PROVE  Cred!Spec => []CredInv
<1>1. Cred!Init => CredInv
  <2> SUFFICES ASSUME Cred!Init
               PROVE  CredInv
    OBVIOUS
  <2>1. 0 \in Cred!Numbers /\ Cred!NoKey \in Cred!Keys /\ 0 \in 0 .. Len(Cred!LogoutOrder)
    BY DEF Cred!NoKey, Cred!Keys, Cred!Numbers, Cred!CredentialsAssumption, Cred!LogoutOrder
  <2>2. Cred!TypeOK
    BY <2>1 DEF Cred!Init, Cred!TypeOK, Cred!Idle
  <2>3. QED
    BY <2>2 DEF Cred!Init, CredInv, Cred!LoggedInIsUsable, LoggingIn, LoggingOut, Cred!Idle
<1>2. QED
  BY <1>1, CredInvStep, PTL DEF Cred!Spec

\* Credentials: wherever a login or logout is cut short, a machine that is logged in
\* holds a usable key and identity (isLoggedIn of config.ts).
THEOREM LoggedInUsable ==
  ASSUME Cred!CredentialsAssumption, OneLogin
  PROVE  Cred!Spec => [](Cred!TypeOK /\ Cred!LoggedInIsUsable)
BY CredInvCorrect, PTL DEF CredInv

(***************************************************************************)
(* What a login has in hand is newer than the last logout that reported    *)
(* success, and a logout has removed what it passed, but for what the Node *)
(* port found behind a locked keychain.                                    *)
(***************************************************************************)
Fresh(p) ==
  /\ procs[p].pc \in {"approved", "identified", "registered", "connecting"} =>
       procs[p].key.n > retired
  /\ procs[p].pc \in {"identified", "registered", "connecting"} =>
       secrets.identity > retired \/ Cred!Excused("identity")
  /\ procs[p].pc = "leaving" /\ procs[p].step > 2 =>
       secrets.key = Cred!NoKey \/ Cred!Excused("key")

RetiredInv ==
  /\ access = "absent" => secrets = [key |-> Cred!NoKey, identity |-> 0]
  /\ retired <= issued
  /\ Cred!LogoutFinal
  /\ \A p \in Logins : Fresh(p)

LEMMA LoginKeepsRetired ==
  ASSUME Cred!CredentialsAssumption, OneLogin, CredInv, RetiredInv, NEW p \in Logins,
         \/ Cred!StartLogin(p) \/ Cred!Approved(p) \/ Cred!LoadIdentity(p) \/ Cred!CreateIdentity(p)
         \/ Cred!Register(p) \/ Cred!StoreKey(p) \/ Cred!WriteConfig(p)
  PROVE  RetiredInv'
<1>0. \A q \in Logins : q = p
  BY DEF OneLogin
<1>t. /\ procs \in [Logins -> Process] /\ procs[p] \in Process
      /\ issued \in Nat /\ retired \in Nat /\ retired <= issued
      /\ secrets \in [key : Cred!Keys, identity : Nat]
      /\ \A k \in Cred!Keys : k.n \in Nat
      /\ LoggingIn(p) /\ Fresh(p) /\ Cred!LogoutFinal
  BY CredTypes DEF CredInv, RetiredInv, Cred!Keys, Cred!Numbers
<1>g. ASSUME NEW pc \in LoginPhases, Cred!Goto(p, pc)
      PROVE  /\ procs'[p].pc = pc /\ procs'[p].key = procs[p].key
             /\ procs'[p].identity = procs[p].identity /\ procs'[p].step = procs[p].step
  BY <1>t, <1>g DEF Cred!Goto, Process
<1> USE <1>t
<1>1. CASE Cred!StartLogin(p)
  BY <1>0, <1>1, <1>g DEF Cred!StartLogin, RetiredInv, Cred!LogoutFinal, Cred!Excused, Fresh, LoginPhases
<1>2. CASE Cred!Approved(p)
  <2>1. PICK w \in Workspaces :
          procs' = [procs EXCEPT ![p].pc = "approved",
                                 ![p].key = [n |-> issued', workspace |-> w]]
    BY <1>2 DEF Cred!Approved
  <2>2. /\ procs'[p].pc = "approved" /\ procs'[p].key.n = issued'
        /\ issued' = issued + 1
        /\ UNCHANGED <<port, cConfig, secrets, access, retired, passedOver>>
    BY <1>2, <2>1 DEF Process, Cred!Approved
  <2>3. QED
    BY <1>0, <2>2 DEF RetiredInv, Cred!LogoutFinal, Cred!Excused, Fresh
<1>3. CASE Cred!LoadIdentity(p)
  <2>1. /\ procs'[p].pc = "identified" /\ procs'[p].key = procs[p].key
        /\ procs[p].pc = "approved" /\ secrets.identity # 0
        /\ UNCHANGED <<port, cConfig, secrets, access, retired, issued, passedOver>>
    BY <1>3 DEF Cred!LoadIdentity, Cred!At, Process
  <2>2. QED
    BY <1>0, <2>1 DEF RetiredInv, Cred!LogoutFinal, Cred!Excused, Fresh
<1>4. CASE Cred!CreateIdentity(p)
  <2>1. /\ procs'[p].pc = "identified" /\ procs'[p].key = procs[p].key
        /\ procs[p].pc = "approved" /\ access = "usable"
        /\ secrets'.identity = issued' /\ secrets'.key = secrets.key
        /\ issued' = issued + 1
        /\ "key" \in passedOver' <=> "key" \in passedOver
        /\ UNCHANGED <<port, cConfig, access, retired>>
    BY <1>4 DEF Cred!CreateIdentity, Cred!At, Process
  <2>2. QED
    BY <1>0, <2>1 DEF RetiredInv, Cred!LogoutFinal, Cred!Excused, Fresh
<1>5. CASE Cred!Register(p)
  BY <1>0, <1>5, <1>g DEF Cred!Register, Cred!At, RetiredInv, Cred!LogoutFinal, Cred!Excused, Fresh, LoginPhases
<1>6. CASE Cred!StoreKey(p)
  <2>1. /\ procs'[p].pc = "connecting" /\ procs'[p].key = procs[p].key
        /\ procs[p].pc = "registered" /\ access = "usable"
        /\ secrets'.identity = secrets.identity /\ secrets'.key = procs[p].key
        /\ "identity" \in passedOver' <=> "identity" \in passedOver
        /\ UNCHANGED <<port, cConfig, access, retired, issued>>
    BY <1>6, <1>g DEF Cred!StoreKey, Cred!At, LoginPhases
  <2>2. QED
    BY <1>0, <2>1 DEF RetiredInv, Cred!LogoutFinal, Cred!Excused, Fresh
<1>7. CASE Cred!WriteConfig(p)
  <2>1. /\ procs'[p].pc = "idle" /\ procs[p].pc = "connecting"
        /\ cConfig'.machine = procs[p].key.n
        /\ UNCHANGED <<port, secrets, access, retired, issued, passedOver>>
    BY <1>7 DEF Cred!WriteConfig, Cred!At, Cred!End, Cred!Idle
  <2>2. QED
    BY <1>0, <2>1 DEF RetiredInv, Cred!LogoutFinal, Cred!Excused, Fresh
<1>8. QED
  BY <1>1, <1>2, <1>3, <1>4, <1>5, <1>6, <1>7

LEMMA LogoutKeepsRetired ==
  ASSUME Cred!CredentialsAssumption, OneLogin, CredInv, RetiredInv,
         NEW p \in Logins,
         \/ Cred!StartLogout(p) \/ Cred!ClearConfig(p) \/ Cred!Stop(p)
         \/ Cred!DeleteSecret(p, "key", Cred!NoKey) \/ Cred!DeleteSecret(p, "identity", 0)
  PROVE  RetiredInv'
<1>0. \A q \in Logins : q = p
  BY DEF OneLogin
<1>t. /\ procs \in [Logins -> Process] /\ procs[p] \in Process
      /\ issued \in Nat /\ retired \in Nat /\ retired <= issued
      /\ secrets \in [key : Cred!Keys, identity : Nat]
      /\ \A k \in Cred!Keys : k.n \in Nat
      /\ LoggingOut(p) /\ Fresh(p) /\ Cred!LogoutFinal
  BY CredTypes DEF CredInv, RetiredInv, Cred!Keys, Cred!Numbers
<1>e. ASSUME Cred!End(p)
      PROVE  procs'[p].pc = "idle"
  BY <1>t, <1>e DEF Cred!End, Cred!Idle
<1>s. ASSUME procs[p].step \in 1 .. 2, Cred!StepDone(p)
      PROVE  /\ procs'[p].pc = procs[p].pc /\ procs'[p].step = procs[p].step + 1
             /\ retired' = retired
  <2>1. procs[p].step < Len(Cred!LogoutOrder)
    <3>1. Len(Cred!LogoutOrder) = 3
      BY CredTypes
    <3>2. QED
      BY <1>s, <3>1
  <2>2. procs' = [procs EXCEPT ![p].step = @ + 1] /\ retired' = retired
    BY <1>s, <2>1 DEF Cred!StepDone
  <2>3. QED
    BY <1>t, <2>2 DEF Process
<1> USE <1>t
<1>1. CASE Cred!StartLogout(p)
  <2>1. /\ procs'[p].pc = "leaving" /\ procs'[p].step = 1
        /\ UNCHANGED <<port, cConfig, secrets, access, issued, retired, passedOver>>
    BY <1>1 DEF Cred!StartLogout, Process
  <2>2. QED
    BY <1>0, <2>1 DEF RetiredInv, Cred!LogoutFinal, Cred!Excused, Fresh
<1>2. CASE Cred!ClearConfig(p)
  <2>1. procs[p].step = 1 /\ procs[p].pc = "leaving"
    BY <1>2, CredTypes DEF Cred!ClearConfig, Cred!Leaving, Cred!At, LoggingOut
  <2>2. /\ procs'[p].pc = "leaving" /\ procs'[p].step = 2 /\ cConfig' = None
        /\ UNCHANGED <<port, secrets, access, issued, retired, passedOver>>
    BY <1>2, <1>s, <2>1 DEF Cred!ClearConfig
  <2>3. QED
    BY <1>0, <2>2 DEF RetiredInv, Cred!LogoutFinal, Cred!Excused, Fresh
<1>3. CASE Cred!Stop(p)
  BY <1>0, <1>3, <1>e DEF Cred!Stop, RetiredInv, Cred!LogoutFinal, Cred!Excused, Fresh
<1>4. CASE Cred!DeleteSecret(p, "key", Cred!NoKey)
  <2>1. /\ procs[p].step = 2 /\ procs[p].pc = "leaving" /\ cConfig = None
        /\ UNCHANGED <<port, cConfig, access, issued>>
    BY <1>4, CredTypes DEF Cred!DeleteSecret, Cred!Leaving, Cred!At, LoggingOut
  <2>2. CASE /\ Cred!StepDone(p)
             /\ \/ /\ access = "usable" /\ secrets' = [secrets EXCEPT !.key = Cred!NoKey]
                   /\ passedOver' = passedOver \ {"key"}
                \/ /\ Cred!Tolerated /\ UNCHANGED secrets
                   /\ passedOver' = IF access = "locked" THEN passedOver \cup {"key"}
                                                         ELSE passedOver
    <3>0. /\ "identity" \in passedOver' <=> "identity" \in passedOver
          /\ \/ secrets'.key = Cred!NoKey
             \/ secrets'.key = secrets.key /\ Cred!Excused("key")'
      BY <2>1, <2>2 DEF Cred!Tolerated, Cred!Excused, RetiredInv
    <3>1. secrets'.identity = secrets.identity
      BY <2>2
    <3>2. /\ procs'[p].pc = "leaving" /\ procs'[p].step = 3 /\ retired' = retired
      BY <1>s, <2>1, <2>2, 2 \in 1 .. 2
    <3>3. (access' = "absent") => secrets' = [key |-> Cred!NoKey, identity |-> 0]
      BY <2>1, <2>2 DEF RetiredInv
    <3>4. QED
      BY <1>0, <2>1, <3>0, <3>1, <3>2, <3>3 DEF RetiredInv, Cred!LogoutFinal, Cred!Excused, Fresh
  <2>3. CASE Cred!End(p) /\ UNCHANGED <<secrets, retired, passedOver>>
    BY <1>0, <1>e, <2>1, <2>3 DEF RetiredInv, Cred!LogoutFinal, Cred!Excused, Fresh
  <2>4. QED
    BY <1>4, <2>2, <2>3 DEF Cred!DeleteSecret
<1>5. CASE Cred!DeleteSecret(p, "identity", 0)
  <2>1. /\ procs[p].step = 3 /\ procs[p].pc = "leaving" /\ cConfig = None
        /\ secrets.key = Cred!NoKey \/ Cred!Excused("key")
        /\ UNCHANGED <<port, cConfig, access, issued>>
    BY <1>5, CredTypes DEF Cred!DeleteSecret, Cred!Leaving, Cred!At, LoggingOut, Fresh
  <2>2. CASE /\ Cred!StepDone(p)
             /\ \/ /\ access = "usable" /\ secrets' = [secrets EXCEPT !.identity = 0]
                   /\ passedOver' = passedOver \ {"identity"}
                \/ /\ Cred!Tolerated /\ UNCHANGED secrets
                   /\ passedOver' = IF access = "locked" THEN passedOver \cup {"identity"}
                                                         ELSE passedOver
    <3>0. secrets'.key = Cred!NoKey \/ Cred!Excused("key")'
      BY <2>1, <2>2 DEF Cred!Excused
    <3>1. secrets'.identity = 0 \/ Cred!Excused("identity")'
      BY <2>1, <2>2 DEF Cred!Tolerated, Cred!Excused, RetiredInv
    <3>2. procs'[p].pc = "idle" /\ retired' = issued
      <4>1. ~(procs[p].step < Len(Cred!LogoutOrder))
        BY <2>1, CredTypes
      <4>2. Cred!End(p) /\ retired' = issued
        BY <2>2, <4>1 DEF Cred!StepDone
      <4>3. QED
        BY <1>e, <4>2
    <3>3. (access' = "absent") => secrets' = [key |-> Cred!NoKey, identity |-> 0]
      BY <2>1, <2>2 DEF RetiredInv
    <3>4. QED
      BY <1>0, <2>1, <3>0, <3>1, <3>2, <3>3 DEF RetiredInv, Cred!LogoutFinal, Cred!Excused, Fresh
  <2>3. CASE Cred!End(p) /\ UNCHANGED <<secrets, retired, passedOver>>
    BY <1>0, <1>e, <2>1, <2>3 DEF RetiredInv, Cred!LogoutFinal, Cred!Excused, Fresh
  <2>4. QED
    BY <1>5, <2>2, <2>3 DEF Cred!DeleteSecret
<1>6. QED
  BY <1>1, <1>2, <1>3, <1>4, <1>5

\* Credentials: nothing that existed when a logout reported success is on the machine
\* any more, but for what the Node port found behind a locked keychain (logout of cli.ts).
THEOREM LogoutLeavesNothing ==
  ASSUME Cred!CredentialsAssumption, OneLogin
  PROVE  Cred!Spec => []Cred!LogoutFinal
<1>1. Cred!Init => RetiredInv
  BY DEF Cred!Init, RetiredInv, Cred!LogoutFinal, Fresh, Cred!Idle, Cred!NoKey
<1>2. CredInv /\ RetiredInv /\ [Cred!Next]_(Cred!vars) => RetiredInv'
  <2> SUFFICES ASSUME CredInv, RetiredInv, [Cred!Next]_(Cred!vars)
               PROVE  RetiredInv'
    OBVIOUS
  <2>1. ASSUME NEW p \in Logins,
               \/ Cred!StartLogin(p) \/ Cred!Approved(p) \/ Cred!LoadIdentity(p) \/ Cred!CreateIdentity(p)
               \/ Cred!Register(p) \/ Cred!StoreKey(p) \/ Cred!WriteConfig(p)
        PROVE  RetiredInv'
    BY <2>1, LoginKeepsRetired
  <2>2. ASSUME NEW p \in Logins,
               \/ Cred!StartLogout(p) \/ Cred!ClearConfig(p) \/ Cred!Stop(p)
               \/ Cred!DeleteSecret(p, "key", Cred!NoKey) \/ Cred!DeleteSecret(p, "identity", 0)
        PROVE  RetiredInv'
    BY <2>2, LogoutKeepsRetired
  <2>3. CASE Cred!LockOrUnlock
    BY <2>3 DEF Cred!LockOrUnlock, RetiredInv, Cred!LogoutFinal, Cred!Excused, Fresh
  <2>4. CASE UNCHANGED Cred!vars
    BY <2>4 DEF Cred!vars, RetiredInv, Cred!LogoutFinal, Cred!Excused, Fresh
  <2>5. QED
    BY <2>1, <2>2, <2>3, <2>4 DEF Cred!Next
<1>3. RetiredInv => Cred!LogoutFinal
  BY DEF RetiredInv
<1>4. QED
  BY <1>1, <1>2, <1>3, CredInvCorrect, PTL DEF Cred!Spec

-----------------------------------------------------------------------------
\* The same of the whole, in which the parts stand side by side.  Wherever install and
\* uninstall are killed, a config that is routed comes with a whole backup.
THEOREM LocalRestorable ==
  ASSUME OneInstall
  PROVE  Spec => []Restorable
<1>1. Files!Spec => [](Files!TypeOK /\ Files!Restorable)
  BY LocalAssumption, AlwaysRestorable DEF LocalAssumption
<1>2. QED
  BY <1>1, PartsAlone, PTL DEF Restorable

\* A backup that was not cut short is restored exactly.
THEOREM LocalRestored ==
  ASSUME OneInstall
  PROVE  Spec => WholeBackupRestored
<1>1. Files!Spec => Files!WholeBackupRestored
  BY LocalAssumption, RestoredExactly DEF LocalAssumption
<1>2. QED
  BY <1>1, PartsAlone DEF WholeBackupRestored

\* A project doctor calls healthy is routed; what the proxy hides is not approved.
THEOREM LocalSetupSafe ==
  Spec => SetupSafe
<1>1. Setup!Init /\ [][Setup!Next]_(Setup!vars)
        => [](Setup!TypeOK /\ Setup!RoutedWhenHealthy) /\ Setup!HiddenStaysHidden
  BY LocalAssumption, SetupIsSafe DEF LocalAssumption
<1>2. QED
  BY <1>1, PartsAlone DEF SetupSafe

\* What is shown of the event log is the newest, and little is lost.
THEOREM LocalLogReadBack ==
  ASSUME OnePort
  PROVE  Spec => []LogReadBack
<1>1. Log!Spec => []Log!NewestFirst /\ []Log!LossBounded
  BY LocalAssumption, BlocksNewestFirst, LittleIsLost DEF LocalAssumption
<1>2. QED
  BY <1>1, PartsAlone, PTL DEF LogReadBack

\* Whoever is logged in can use it.
THEOREM LocalLoggedIn ==
  ASSUME OneLogin
  PROVE  Spec => []LoggedInIsUsable
<1>1. Cred!Spec => [](Cred!TypeOK /\ Cred!LoggedInIsUsable)
  BY LocalAssumption, LoggedInUsable DEF LocalAssumption
<1>2. QED
  BY <1>1, PartsAlone, PTL DEF LoggedInIsUsable

\* A logout leaves nothing but what the Node port found behind a locked keychain.
THEOREM LocalLogout ==
  ASSUME OneLogin
  PROVE  Spec => []LogoutFinal
<1>1. Cred!Spec => []Cred!LogoutFinal
  BY LocalAssumption, LogoutLeavesNothing DEF LocalAssumption
<1>2. QED
  BY <1>1, PartsAlone, PTL DEF LogoutFinal

=============================================================================
