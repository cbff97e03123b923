----------------------------- MODULE Enforcement -----------------------------
(***************************************************************************)
(* Local enforcement for one MCP server of one project: the proxy between  *)
(* client and server, and the commands that read and write .mcp-lock.json  *)
(* (init, scan, approve, deny), all separate processes without a lock.     *)
(*                                                                         *)
(* The proxy reads the lockfile once, when the client starts it.  init,    *)
(* scan, approve and deny launch whatever .mcp.json configures, so after   *)
(* `mcpseal install` they too talk to the server through a proxy.          *)
(* writeLockfile truncates the file and then fills it.                     *)
(***************************************************************************)
EXTENDS Drift, FiniteSets

CONSTANTS
  Commands,     \* command processes that may run at once (a bound)
  Kinds,        \* kinds of commands the user runs
  Forms,        \* how the server may send its tool list
  MayInstall,   \* whether the user installs the proxy into the client config
  Missing,      \* no lockfile
  Torn          \* a lockfile that is not valid JSON

ASSUME EnforcementAssumption ==
  /\ Kinds \subseteq {"init", "scan", "approve", "deny"}
  /\ Forms \subseteq {"tools", "null item", "batch"}
  /\ MayInstall \in BOOLEAN
  /\ Absent \notin Entries
  /\ {Absent, Missing, Torn} \cap Lockfile = {}
  /\ Missing # Torn

VARIABLES
  live,        \* tools/list result of the real server
  lockfile,    \* .mcp-lock.json: a lockfile, or Missing, or Torn
  wrapped,     \* .mcp.json routes the server through the proxy
  proxy,       \* the client's proxy process and the lockfile it read
  delivered,   \* the tool list the client got last through its proxy
  unfiltered,  \* history: the proxy passed this list on as it came
  cmds,        \* command processes
  pinned       \* history: <<tool, definition>> pairs the user ever approved

vars == <<live, lockfile, wrapped, proxy, delivered, unfiltered, cmds, pinned>>

NoTools   == [t \in Tools |-> Absent]
EmptyLock == [tools |-> NoTools, onUnknownTool |-> "block"]
NoCmd     == [pc |-> "idle", kind |-> "none", tool |-> Absent, inner |-> Absent,
              seen |-> NoTools, lock |-> Absent, exit |-> 0]
ProxyOff  == [on |-> FALSE, lock |-> EmptyLock]

Readable == lockfile \notin {Missing, Torn}

(***************************************************************************)
(* The proxy's treatment of a tools/list response.  A null item after the  *)
(* tools makes filterToolsListResult throw, and the catch block forwards   *)
(* the line as it came from the server.  In a batch, an array of messages, *)
(* the proxy does not look for tools.                                      *)
(***************************************************************************)
Intercept(lock, form) == IF form = "tools" THEN Filter(live, lock) ELSE live

ServerChanges ==
  /\ \E t \in Tools, d \in Defs \cup {Absent} : live' = [live EXCEPT ![t] = d]
  /\ UNCHANGED <<lockfile, wrapped, proxy, delivered, unfiltered, cmds, pinned>>

\* `mcpseal proxy` refuses to start when the lockfile cannot be read.
StartProxy ==
  /\ wrapped
  /\ ~proxy.on
  /\ Readable
  /\ proxy' = [on |-> TRUE, lock |-> lockfile]
  /\ delivered' = NoTools
  /\ unfiltered' = FALSE
  /\ UNCHANGED <<live, lockfile, wrapped, cmds, pinned>>

DeliverList ==
  /\ proxy.on
  /\ \E form \in Forms :
       /\ delivered' = Intercept(proxy.lock, form)
       /\ unfiltered' = (form # "tools")
  /\ UNCHANGED <<live, lockfile, wrapped, proxy, cmds, pinned>>

StopProxy ==
  /\ proxy.on
  /\ proxy' = ProxyOff
  /\ delivered' = NoTools
  /\ unfiltered' = FALSE
  /\ UNCHANGED <<live, lockfile, wrapped, cmds, pinned>>

Install ==
  /\ MayInstall
  /\ ~wrapped
  /\ wrapped' = TRUE
  /\ UNCHANGED <<live, lockfile, proxy, delivered, unfiltered, cmds, pinned>>

Uninstall ==
  /\ wrapped
  /\ wrapped' = FALSE
  /\ UNCHANGED <<live, lockfile, proxy, delivered, unfiltered, cmds, pinned>>

\* The user edits policy.onUnknownTool in the lockfile.
EditPolicy ==
  /\ Readable
  /\ \E rule \in UnknownRules : lockfile' = [lockfile EXCEPT !.onUnknownTool = rule]
  /\ UNCHANGED <<live, wrapped, proxy, delivered, unfiltered, cmds, pinned>>

(***************************************************************************)
(* Commands.  A command that throws ends without further effect.           *)
(***************************************************************************)
End(c, exit) ==
  cmds' = [cmds EXCEPT ![c] = [NoCmd EXCEPT !.pc = "ended", !.exit = exit]]

GoOn(c, pc, seen, lock) ==
  cmds' = [cmds EXCEPT ![c] = [@ EXCEPT !.pc = pc, !.seen = seen, !.lock = lock,
                                        !.inner = Absent]]

\* scan reads the lockfile before it launches the server; a wrapped server is
\* launched as a proxy, which reads the lockfile for itself.
StartCmd(c, kind, t) ==
  /\ cmds[c].pc = "idle"
  /\ kind = "scan" \/ wrapped => Readable
  /\ cmds' = [cmds EXCEPT ![c] =
                [NoCmd EXCEPT !.pc    = "listing",
                              !.kind  = kind,
                              !.tool  = t,
                              !.inner = IF wrapped THEN lockfile ELSE Absent,
                              !.lock  = IF kind = "scan" THEN lockfile ELSE Absent]]
  /\ UNCHANGED <<live, lockfile, wrapped, proxy, delivered, unfiltered, pinned>>

Listing(c, kinds) == cmds[c].pc = "listing" /\ cmds[c].kind \in kinds

\* A command waits for one message with its id: it passes over a batch.
SingleForms == Forms \ {"batch"}

\* What the command gets from listTools.
Seen(c, form) == IF cmds[c].inner = Absent THEN live ELSE Intercept(cmds[c].inner, form)

\* The server answers with an error or in a batch, exits, or lets the time of the
\* request run out: the client rejects, and so does the command.
ListingFails(c) ==
  /\ Listing(c, Kinds)
  /\ End(c, 1)
  /\ UNCHANGED <<live, lockfile, wrapped, proxy, delivered, unfiltered, pinned>>

ScanBlocked(seen, lock) ==
  \E t \in Tools : seen[t] # Absent /\ ~Allowed(seen[t], t, lock)

ListForScan(c) ==
  /\ Listing(c, {"scan"})
  /\ \E form \in SingleForms :
       End(c, IF form = "null item" \/ ScanBlocked(Seen(c, form), cmds[c].lock) THEN 1 ELSE 0)
  /\ UNCHANGED <<live, lockfile, wrapped, proxy, delivered, unfiltered, pinned>>

InitLock(seen) ==
  [EmptyLock EXCEPT !.tools =
     [t \in Tools |-> IF seen[t] = Absent THEN Absent
                      ELSE [hash |-> seen[t], status |-> "approved"]]]

ApprovedPairs(lock) ==
  {x \in Tools \X Defs : lock.tools[x[1]] = [hash |-> x[2], status |-> "approved"]}

\* init pins everything the server reports, unless something cannot be hashed.
ListForInit(c) ==
  /\ Listing(c, {"init"})
  /\ \E form \in SingleForms :
       IF form = "null item" \/ \E t \in Tools : Seen(c, form)[t] \in Malformed
       THEN End(c, 1) /\ UNCHANGED pinned
       ELSE /\ GoOn(c, "writing", NoTools, InitLock(Seen(c, form)))
            /\ pinned' = pinned \cup ApprovedPairs(InitLock(Seen(c, form)))
  /\ UNCHANGED <<live, lockfile, wrapped, proxy, delivered, unfiltered>>

\* Faulty: the tool asked for is not looked up.
ListForSetStatusUnchecked(c) ==
  /\ Listing(c, {"approve", "deny"})
  /\ \E form \in SingleForms : GoOn(c, "reading", Seen(c, form), Absent)
  /\ UNCHANGED <<live, lockfile, wrapped, proxy, delivered, unfiltered, pinned>>

\* A null item does no harm: it comes after the tool.
ListForSetStatus(c) ==
  /\ Listing(c, {"approve", "deny"})
  /\ \E form \in SingleForms :
       IF Seen(c, form)[cmds[c].tool] = Absent
       THEN End(c, 1)
       ELSE GoOn(c, "reading", Seen(c, form), Absent)
  /\ UNCHANGED <<live, lockfile, wrapped, proxy, delivered, unfiltered, pinned>>

\* Faulty: deny records an approval.
NewStatusIgnoringKind(c) == "approved"

NewStatus(c) == IF cmds[c].kind = "approve" THEN "approved" ELSE "denied"

\* setToolStatus after the listing: read the lockfile, change one entry.
ReadBack(c) ==
  /\ cmds[c].pc = "reading"
  /\ LET t     == cmds[c].tool
         d     == cmds[c].seen[t]
         entry == [hash |-> d, status |-> NewStatus(c)]
     IN  IF ~Readable \/ d \in Malformed
         THEN End(c, 1) /\ UNCHANGED pinned
         ELSE /\ GoOn(c, "writing", NoTools, [lockfile EXCEPT !.tools[t] = entry])
              /\ pinned' = IF cmds[c].kind = "approve" THEN pinned \cup {<<t, d>>}
                                                     ELSE pinned
  /\ UNCHANGED <<live, lockfile, wrapped, proxy, delivered, unfiltered>>

\* writeLockfile: writeFileSync truncates, then writes.
Truncate(c) ==
  /\ cmds[c].pc = "writing"
  /\ lockfile' = Torn
  /\ cmds' = [cmds EXCEPT ![c].pc = "filling"]
  /\ UNCHANGED <<live, wrapped, proxy, delivered, unfiltered, pinned>>

Fill(c) ==
  /\ cmds[c].pc = "filling"
  /\ lockfile' = cmds[c].lock
  /\ End(c, 0)
  /\ UNCHANGED <<live, wrapped, proxy, delivered, unfiltered, pinned>>

\* The process has ended and its exit code was read, or it is killed.
Exit(c) ==
  /\ cmds[c].pc # "idle"
  /\ cmds' = [cmds EXCEPT ![c] = NoCmd]
  /\ UNCHANGED <<live, lockfile, wrapped, proxy, delivered, unfiltered, pinned>>

(***************************************************************************)
(* Specification                                                           *)
(***************************************************************************)
Init ==
  /\ live \in ToolList
  /\ lockfile = Missing
  /\ wrapped = FALSE
  /\ proxy = ProxyOff
  /\ delivered = NoTools
  /\ unfiltered = FALSE
  /\ cmds = [c \in Commands |-> NoCmd]
  /\ pinned = {}

Command(c) ==
  \/ \E kind \in Kinds, t \in Tools : StartCmd(c, kind, t)
  \/ ListingFails(c)
  \/ ListForScan(c)
  \/ ListForInit(c)
  \/ ListForSetStatus(c)
  \/ ReadBack(c)
  \/ Truncate(c)
  \/ Fill(c)
  \/ Exit(c)

Next ==
  \/ ServerChanges
  \/ StartProxy
  \/ DeliverList
  \/ StopProxy
  \/ Install
  \/ Uninstall
  \/ EditPolicy
  \/ \E c \in Commands : Command(c)

Spec == Init /\ [][Next]_vars

(***************************************************************************)
(* Properties                                                              *)
(***************************************************************************)
Phases == {"idle", "listing", "reading", "writing", "filling", "ended"}

CmdType ==
  [pc    : Phases,
   kind  : Kinds \cup {"none"},
   tool  : Tools \cup {Absent},
   inner : Lockfile \cup {Absent},
   seen  : ToolList,
   lock  : Lockfile \cup {Absent},
   exit  : {0, 1}]

\* A command that lists or reads has a tool, one that reads back has seen the
\* tool's definition, one that writes has a lockfile to write.
CmdOK(cmd) ==
  /\ cmd.pc \in {"listing", "reading"} => cmd.tool \in Tools
  /\ cmd.pc = "reading" => cmd.seen[cmd.tool] \in Defs
  /\ cmd.pc \in {"writing", "filling"} => cmd.lock \in Lockfile

\* Shape of the files and processes, and what each command holds in its phase.
TypeOK ==
  /\ live \in ToolList
  /\ lockfile \in Lockfile \cup {Missing, Torn}
  /\ wrapped \in BOOLEAN
  /\ proxy \in [on : BOOLEAN, lock : Lockfile]
  /\ delivered \in ToolList
  /\ unfiltered \in BOOLEAN
  /\ cmds \in [Commands -> CmdType]
  /\ \A c \in Commands : CmdOK(cmds[c])
  /\ pinned \subseteq Tools \X Defs

\* The promise of the product (README.md:25, proxy.ts:7-12): through the proxy
\* the client sees only definitions the user approved, or tools a rule of the
\* user lets pass, whatever server, commands and their crashes do meanwhile.
ClientSeesOnlyPinned ==
  \A t \in Tools :
    delivered[t] # Absent =>
      \/ <<t, delivered[t]>> \in pinned
      \/ proxy.lock.onUnknownTool # "block" /\ proxy.lock.tools[t] = Absent

\* What is kept of it: a list which the proxy did filter holds nothing else,
\* whatever lists came and went unfiltered before it (proxy.ts:124-129).
DeliveredWasPinned == unfiltered \/ ClientSeesOnlyPinned

\* A finished write is what the user asked for: a proxy started on a lockfile
\* never works from one that was cut short or that approves something else.
LockfileTrusted ==
  Readable => ApprovedPairs(lockfile) \subseteq pinned

\* README.md:83: scan exits non-zero on drift.  Exit 0 means that no tool the
\* server reports at that moment is blocked by the lockfile scan has read.
ScanSeesDrift ==
  [][\A c \in Commands :
       Listing(c, {"scan"}) /\ cmds'[c].pc = "ended" /\ cmds'[c].exit = 0
         => ~ScanBlocked(live, cmds[c].lock)]_vars

\* USERFEATURES.md:92: approve re-fetches the current live definition, so it
\* finds every tool the server reports.
ApproveFindsLive ==
  [][\A c \in Commands :
       /\ Listing(c, {"approve"})
       /\ live[cmds[c].tool] # Absent
       /\ ListForSetStatus(c)
       => cmds'[c].exit = 0]_vars

\* README.md:85: deny blocks a tool even if its hash matches.  A command about
\* another tool leaves the denial as it stands in the file it replaces.
DenySticks ==
  [][\A c \in Commands, t \in Tools :
       /\ cmds[c].pc = "writing" /\ cmds'[c].pc = "filling"
       /\ cmds[c].kind # "init" /\ cmds[c].tool # t
       /\ Readable /\ lockfile.tools[t] # Absent
       /\ lockfile.tools[t].status = "denied"
       => cmds[c].lock.tools[t] = lockfile.tools[t]]_vars

=============================================================================
