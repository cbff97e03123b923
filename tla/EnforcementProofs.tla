-------------------------- MODULE EnforcementProofs --------------------------
(***************************************************************************)
(* Theorems about local enforcement, for any number of tools, definitions  *)
(* and concurrent commands, and whatever form tool lists come in.          *)
(***************************************************************************)
EXTENDS Enforcement, TLAPS

(***************************************************************************)
(* The drift check.                                                        *)
(***************************************************************************)

\* With the default rule the check lets a reported tool through only if the
\* lockfile holds this very definition as approved.
THEOREM AllowedIsApproved ==
  ASSUME NEW lock \in Lockfile, NEW t \in Tools, NEW d \in Defs,
         Allowed(d, t, lock)
  PROVE  \/ lock.tools[t] = [hash |-> d, status |-> "approved"]
         \/ lock.tools[t] = Absent /\ lock.onUnknownTool # "block"
<1> DEFINE entry == lock.tools[t]
<1>1. entry \in Entries \cup {Absent} /\ d # Absent
  BY DefsAssumption DEF Lockfile
<1>2. CASE entry = Absent
  BY <1>1, <1>2 DEF Allowed, CheckDrift, AllowReasons
<1>3. CASE entry # Absent
  <2>1. entry.hash = d /\ entry.status \notin {"denied", "quarantined"}
    BY <1>1, <1>3 DEF Allowed, CheckDrift, AllowReasons
  <2>2. entry = [hash |-> d, status |-> "approved"]
    BY <1>1, <1>3, <2>1 DEF Entries, Statuses
  <2>3. QED
    BY <2>2
<1>4. QED
  BY <1>2, <1>3

LEMMA FilterTyped ==
  ASSUME NEW list \in ToolList, NEW lock \in Lockfile
  PROVE  Filter(list, lock) \in ToolList
BY DEF Filter, ToolList

(***************************************************************************)
(* Types                                                                   *)
(***************************************************************************)
LEMMA NoToolsTyped == NoTools \in ToolList /\ EmptyLock \in Lockfile
<1>1. NoTools \in ToolList /\ NoTools \in [Tools -> Entries \cup {Absent}]
  BY DEF NoTools, ToolList
<1>2. QED
  BY <1>1 DEF EmptyLock, Lockfile, UnknownRules

LEMMA NoCmdTyped == NoCmd \in CmdType
BY NoToolsTyped DEF NoCmd, CmdType, Phases

\* A command record that changes in its phase, list, lockfile and inner proxy.
LEMMA CmdStep ==
  ASSUME TypeOK, NEW c \in Commands, NEW r \in CmdType,
         CmdOK(r),
         cmds' = [cmds EXCEPT ![c] = r]
  PROVE  /\ cmds' \in [Commands -> CmdType]
         /\ \A b \in Commands : CmdOK(cmds'[b])
BY DEF TypeOK

LEMMA EndTyped ==
  ASSUME NEW exit \in {0, 1}
  PROVE  [NoCmd EXCEPT !.pc = "ended", !.exit = exit] \in CmdType
BY NoToolsTyped DEF NoCmd, CmdType, Phases

LEMMA SeenTyped ==
  ASSUME TypeOK, NEW c \in Commands, NEW form \in Forms
  PROVE  Seen(c, form) \in ToolList
<1>1. cmds[c] \in CmdType /\ live \in ToolList
  BY DEF TypeOK
<1>2. cmds[c].inner \in Lockfile \cup {Absent}
  BY <1>1 DEF CmdType
<1>3. QED
  BY <1>1, <1>2, FilterTyped DEF Seen, Intercept

LEMMA InitLockTyped ==
  ASSUME NEW list \in ToolList
  PROVE  InitLock(list) \in Lockfile
<1> DEFINE f == [t \in Tools |-> IF list[t] = Absent THEN Absent
                                 ELSE [hash |-> list[t], status |-> "approved"]]
<1>1. \A t \in Tools : list[t] # Absent =>
        [hash |-> list[t], status |-> "approved"] \in Entries
  BY DEF ToolList, Entries, Statuses
<1>2. f \in [Tools -> Entries \cup {Absent}]
  BY <1>1
<1>3. InitLock(list) = [EmptyLock EXCEPT !.tools = f]
  BY DEF InitLock
<1> HIDE DEF f
<1>4. QED
  BY <1>2, <1>3, NoToolsTyped DEF Lockfile

LEMMA TypeInit == Init => TypeOK
<1> SUFFICES ASSUME Init PROVE TypeOK
  OBVIOUS
<1>2. \A c \in Commands : CmdOK(cmds[c])
  BY DEF Init, NoCmd, CmdOK
<1>3. proxy \in [on : BOOLEAN, lock : Lockfile]
  BY NoToolsTyped DEF Init, ProxyOff
<1>4. cmds \in [Commands -> CmdType]
  BY NoCmdTyped DEF Init
<1>5. QED
  BY <1>2, <1>3, <1>4, NoToolsTyped DEF Init, TypeOK

LEMMA TypeStep == TypeOK /\ [Next]_vars => TypeOK'
<1> SUFFICES ASSUME TypeOK, [Next]_vars PROVE TypeOK'
  OBVIOUS
<1>1. CASE ServerChanges
  <2>1. live' \in ToolList
    BY <1>1 DEF ServerChanges, TypeOK, ToolList
  <2>2. QED
    BY <1>1, <2>1 DEF ServerChanges, TypeOK
<1>2. CASE StartProxy
  <2>1. lockfile \in Lockfile
    BY <1>2 DEF StartProxy, Readable, TypeOK
  <2>2. proxy' \in [on : BOOLEAN, lock : Lockfile]
    BY <1>2, <2>1 DEF StartProxy
  <2>3. QED
    BY <1>2, <2>2, NoToolsTyped DEF StartProxy, TypeOK
<1>3. CASE DeliverList
  <2>1. proxy.lock \in Lockfile
    BY DEF TypeOK
  <2>2. delivered' \in ToolList
    BY <1>3, <2>1, FilterTyped DEF DeliverList, Intercept, TypeOK
  <2>3. QED
    BY <1>3, <2>2 DEF DeliverList, TypeOK
<1>4. CASE StopProxy
  <2>1. proxy' \in [on : BOOLEAN, lock : Lockfile]
    BY <1>4, NoToolsTyped DEF StopProxy, ProxyOff
  <2>2. QED
    BY <1>4, <2>1, NoToolsTyped DEF StopProxy, TypeOK
<1>5. CASE Install \/ Uninstall
  BY <1>5 DEF Install, Uninstall, TypeOK
<1>6. CASE EditPolicy
  <2>1. lockfile \in Lockfile
    BY <1>6 DEF EditPolicy, Readable, TypeOK
  <2>2. lockfile' \in Lockfile
    BY <1>6, <2>1 DEF EditPolicy, Lockfile
  <2>3. QED
    BY <1>6, <2>2 DEF EditPolicy, TypeOK
<1>7. ASSUME NEW c \in Commands, Command(c)
      PROVE  TypeOK'
  <2> DEFINE CmdsOK == /\ cmds' \in [Commands -> CmdType]
                       /\ \A b \in Commands : CmdOK(cmds'[b])
  <2>0. cmds[c] \in CmdType /\ CmdOK(cmds[c])
    BY DEF TypeOK
  <2>e. ASSUME NEW exit \in {0, 1}, End(c, exit)
        PROVE  CmdsOK
    <3>1. [NoCmd EXCEPT !.pc = "ended", !.exit = exit] \in CmdType
      BY EndTyped
    <3>2. CmdOK([NoCmd EXCEPT !.pc = "ended", !.exit = exit])
      BY DEF NoCmd, CmdOK
    <3>3. QED
      BY <2>e, <3>1, <3>2, CmdStep DEF End
  <2>g. ASSUME NEW pc \in Phases, NEW seen \in ToolList,
               NEW lock \in Lockfile \cup {Absent}, GoOn(c, pc, seen, lock),
               pc \in {"reading", "writing"},
               pc = "reading" => /\ cmds[c].tool \in Tools
                                 /\ seen[cmds[c].tool] \in Defs,
               pc = "writing" => lock \in Lockfile
        PROVE  CmdsOK
    <3> DEFINE r == [cmds[c] EXCEPT !.pc = pc, !.seen = seen, !.lock = lock,
                                    !.inner = Absent]
    <3>1. /\ r \in CmdType /\ r.pc = pc /\ r.lock = lock /\ r.seen = seen
          /\ r.tool = cmds[c].tool
      BY <2>0 DEF CmdType
    <3>a. CmdOK(r)
      BY <2>g, <3>1 DEF CmdOK
    <3>2. cmds' = [cmds EXCEPT ![c] = r]
      BY <2>g DEF GoOn
    <3> HIDE DEF r
    <3>3. QED
      BY <2>g, <3>1, <3>2, <3>a, CmdStep
  <2>1. ASSUME NEW kind \in Kinds, NEW t \in Tools, StartCmd(c, kind, t)
        PROVE  TypeOK'
    <3> DEFINE inner == IF wrapped THEN lockfile ELSE Absent
               lock  == IF kind = "scan" THEN lockfile ELSE Absent
               r     == [NoCmd EXCEPT !.pc = "listing", !.kind = kind, !.tool = t,
                                      !.inner = inner, !.lock = lock]
    <3>1. inner \in Lockfile \cup {Absent} /\ lock \in Lockfile \cup {Absent}
      BY <2>1 DEF StartCmd, Readable, TypeOK
    <3>2. cmds' = [cmds EXCEPT ![c] = r]
      BY <2>1 DEF StartCmd
    <3> HIDE DEF inner, lock
    <3>3. r \in CmdType /\ CmdOK(r)
      BY <3>1, NoToolsTyped DEF NoCmd, CmdType, CmdOK, Phases
    <3> HIDE DEF r
    <3>4. CmdsOK
      BY <3>2, <3>3, CmdStep
    <3>5. QED
      BY <2>1, <3>4 DEF StartCmd, TypeOK
  <2>2. CASE ListForScan(c)
    <3>1. PICK exit \in {0, 1} : End(c, exit)
      BY <2>2 DEF ListForScan
    <3>2. CmdsOK
      BY <3>1, <2>e
    <3>3. QED
      BY <2>2, <3>2 DEF ListForScan, TypeOK
  <2>3. CASE ListForInit(c)
    <3>1. CASE End(c, 1) /\ UNCHANGED pinned
      <4>1. CmdsOK
        BY <3>1, <2>e
      <4>2. QED
        BY <2>3, <3>1, <4>1 DEF ListForInit, TypeOK
    <3>2. ASSUME NEW form \in SingleForms,
                 GoOn(c, "writing", NoTools, InitLock(Seen(c, form))),
                 pinned' = pinned \cup ApprovedPairs(InitLock(Seen(c, form)))
          PROVE  TypeOK'
      <4>1. InitLock(Seen(c, form)) \in Lockfile /\ "writing" \in Phases
        BY InitLockTyped, SeenTyped DEF Phases, SingleForms
      <4>2. CmdsOK
        BY <3>2, <4>1, <2>g, NoToolsTyped
      <4>3. pinned' \subseteq Tools \X Defs
        BY <3>2 DEF TypeOK, ApprovedPairs
      <4>4. QED
        BY <2>3, <4>2, <4>3 DEF ListForInit, TypeOK
    <3>3. QED
      BY <2>3, <3>1, <3>2 DEF ListForInit
  <2>4. CASE ListForSetStatus(c)
    <3>1. CmdsOK
      <4>1. CASE End(c, 1)
        BY <4>1, <2>e
      <4>2. ASSUME NEW form \in SingleForms, Seen(c, form)[cmds[c].tool] # Absent,
                   GoOn(c, "reading", Seen(c, form), Absent)
            PROVE  CmdsOK
        <5>1. "reading" \in Phases /\ Seen(c, form) \in ToolList
          BY SeenTyped DEF Phases, SingleForms
        <5>2. cmds[c].tool \in Tools
          BY <2>0, <2>4 DEF ListForSetStatus, Listing, CmdOK
        <5>3. Seen(c, form)[cmds[c].tool] \in Defs
          BY <4>2, <5>1, <5>2 DEF ToolList
        <5>4. QED
          BY <4>2, <5>1, <5>2, <5>3, <2>g
      <4>3. QED
        BY <2>4, <4>1, <4>2 DEF ListForSetStatus
    <3>2. QED
      BY <2>4, <3>1 DEF ListForSetStatus, TypeOK
  <2>5. CASE ReadBack(c)
    <3> DEFINE t     == cmds[c].tool
               d     == cmds[c].seen[t]
               entry == [hash |-> d, status |-> NewStatus(c)]
    <3>1. CASE End(c, 1) /\ UNCHANGED pinned
      <4>1. CmdsOK
        BY <3>1, <2>e
      <4>2. QED
        BY <2>5, <3>1, <4>1 DEF ReadBack, TypeOK
    <3>2. CASE /\ Readable
               /\ GoOn(c, "writing", NoTools, [lockfile EXCEPT !.tools[t] = entry])
               /\ pinned' = IF cmds[c].kind = "approve" THEN pinned \cup {<<t, d>>}
                                                        ELSE pinned
      <4>1. t \in Tools /\ d \in Defs
        BY <2>0, <2>5 DEF ReadBack, CmdOK
      <4>2. entry \in Entries /\ lockfile \in Lockfile /\ "writing" \in Phases
        BY <3>2, <4>1 DEF Readable, TypeOK, Entries, Statuses, NewStatus, Phases
      <4> HIDE DEF entry
      <4>3. [lockfile EXCEPT !.tools[t] = entry] \in Lockfile
        BY <4>2 DEF Lockfile
      <4>4. CmdsOK
        BY <3>2, <4>2, <4>3, <2>g, NoToolsTyped
      <4>5. pinned' \subseteq Tools \X Defs
        BY <3>2, <4>1 DEF TypeOK
      <4>6. QED
        BY <2>5, <4>4, <4>5 DEF ReadBack, TypeOK
    <3>3. QED
      BY <2>5, <3>1, <3>2 DEF ReadBack
  <2>6. CASE Truncate(c)
    <3> DEFINE r == [cmds[c] EXCEPT !.pc = "filling"]
    <3>1. r \in CmdType /\ CmdOK(r)
      BY <2>0, <2>6 DEF Truncate, CmdType, CmdOK, Phases
    <3>2. cmds' = [cmds EXCEPT ![c] = r]
      BY <2>6 DEF Truncate
    <3> HIDE DEF r
    <3>3. CmdsOK
      BY <3>1, <3>2, CmdStep
    <3>4. QED
      BY <2>6, <3>3 DEF Truncate, TypeOK
  <2>7. CASE Fill(c)
    <3>1. cmds[c].lock \in Lockfile /\ End(c, 0)
      BY <2>0, <2>7 DEF Fill, CmdOK
    <3>2. CmdsOK
      BY <3>1, <2>e
    <3>3. QED
      BY <2>7, <3>1, <3>2 DEF Fill, TypeOK
  <2>8. CASE Exit(c)
    <3>1. CmdsOK
      <4>1. CmdOK(NoCmd)
        BY DEF CmdOK, NoCmd
      <4>2. QED
        BY <2>8, <4>1, NoCmdTyped, CmdStep DEF Exit
    <3>2. QED
      BY <2>8, <3>1 DEF Exit, TypeOK
  <2>9. CASE ListingFails(c)
    <3>1. CmdsOK
      BY <2>9, <2>e DEF ListingFails
    <3>2. QED
      BY <2>9, <3>1 DEF ListingFails, TypeOK
  <2>10. QED
    BY <1>7, <2>1, <2>2, <2>3, <2>4, <2>5, <2>6, <2>7, <2>8, <2>9 DEF Command
<1>8. CASE UNCHANGED vars
  BY <1>8 DEF vars, TypeOK
<1>9. QED
  BY <1>1, <1>2, <1>3, <1>4, <1>5, <1>6, <1>7, <1>8 DEF Next

\* The files, processes and tool lists keep their shape.
THEOREM TypeCorrect == Spec => []TypeOK
BY TypeInit, TypeStep, PTL DEF Spec

(***************************************************************************)
(* The inductive invariant: approvals in the lockfile, in the lockfile a   *)
(* command is about to write and in the one the proxy works from are all   *)
(* approvals of the user; and the list the client got last passed the      *)
(* filter of the proxy that is running.                                    *)
(***************************************************************************)
CmdsTrusted ==
  \A c \in Commands :
    cmds[c].pc \in {"writing", "filling"} => ApprovedPairs(cmds[c].lock) \subseteq pinned

ProxyTrusted == ApprovedPairs(proxy.lock) \subseteq pinned

EnforceInv ==
  /\ TypeOK
  /\ LockfileTrusted
  /\ CmdsTrusted
  /\ ProxyTrusted
  /\ DeliveredWasPinned

LEMMA EmptyLockPairs == ApprovedPairs(EmptyLock) = {}
<1>1. \A d \in Defs : Absent # [hash |-> d, status |-> "approved"]
  <2>1. Absent \notin Entries
    BY EnforcementAssumption
  <2>2. \A d \in Defs : [hash |-> d, status |-> "approved"] \in Entries
    BY DEF Entries, Statuses
  <2>3. QED
    BY <2>1, <2>2
<1>2. \A t \in Tools : EmptyLock.tools[t] = Absent
  BY DEF EmptyLock, NoTools
<1>3. QED
  BY <1>1, <1>2 DEF ApprovedPairs

\* The proxy's filter delivers approved definitions or tools the rule lets pass.
LEMMA FilterDelivers ==
  ASSUME NEW list \in ToolList, NEW lock \in Lockfile, NEW t \in Tools,
         Filter(list, lock)[t] # Absent
  PROVE  \/ <<t, Filter(list, lock)[t]>> \in ApprovedPairs(lock)
         \/ lock.onUnknownTool # "block" /\ lock.tools[t] = Absent
<1>1. list[t] \in Defs /\ Filter(list, lock)[t] = list[t]
        /\ Allowed(list[t], t, lock)
  BY DEF Filter, ToolList
<1>2. \/ lock.tools[t] = [hash |-> list[t], status |-> "approved"]
      \/ lock.tools[t] = Absent /\ lock.onUnknownTool # "block"
  BY <1>1, AllowedIsApproved
<1>3. QED
  BY <1>1, <1>2 DEF ApprovedPairs

LEMMA EnforceInit == Init => EnforceInv
<1> SUFFICES ASSUME Init PROVE EnforceInv
  OBVIOUS
<1>1. TypeOK
  BY TypeInit
<1>2. LockfileTrusted
  BY DEF Init, LockfileTrusted, Readable
<1>3. CmdsTrusted
  BY DEF Init, CmdsTrusted, NoCmd
<1>4. ProxyTrusted
  BY EmptyLockPairs DEF Init, ProxyTrusted, ProxyOff
<1>5. DeliveredWasPinned
  BY DEF Init, DeliveredWasPinned, ClientSeesOnlyPinned, NoTools
<1>6. QED
  BY <1>1, <1>2, <1>3, <1>4, <1>5 DEF EnforceInv

\* Steps that only add approvals and leave files and lists alone.
LEMMA Steady ==
  ASSUME EnforceInv, pinned \subseteq pinned'
  PROVE  /\ UNCHANGED lockfile => LockfileTrusted'
         /\ UNCHANGED cmds => CmdsTrusted'
         /\ UNCHANGED proxy => ProxyTrusted'
         /\ UNCHANGED <<proxy, delivered, unfiltered>> => DeliveredWasPinned'
BY DEF EnforceInv, LockfileTrusted, Readable, CmdsTrusted, ProxyTrusted,
       DeliveredWasPinned, ClientSeesOnlyPinned, ApprovedPairs

\* Steps of one command.
LEMMA CmdTrusted ==
  ASSUME EnforceInv, pinned \subseteq pinned', NEW c \in Commands,
         \A b \in Commands : b # c => cmds'[b] = cmds[b],
         cmds'[c].pc \in {"writing", "filling"} =>
           ApprovedPairs(cmds'[c].lock) \subseteq pinned'
  PROVE  CmdsTrusted'
BY DEF EnforceInv, CmdsTrusted, ApprovedPairs

LEMMA EnforceStep == EnforceInv /\ [Next]_vars => EnforceInv'
<1> SUFFICES ASSUME EnforceInv, [Next]_vars PROVE EnforceInv'
  OBVIOUS
<1>0. TypeOK /\ TypeOK'
  BY TypeStep DEF EnforceInv
<1>1. CASE ServerChanges
  <2>1. UNCHANGED <<lockfile, proxy, delivered, unfiltered, cmds, pinned>>
    BY <1>1 DEF ServerChanges
  <2>2. QED
    BY <1>0, <2>1, Steady DEF EnforceInv
<1>2. CASE StartProxy
  <2>1. /\ UNCHANGED <<lockfile, cmds, pinned>> /\ Readable
        /\ proxy'.lock = lockfile /\ delivered' = NoTools
    BY <1>2 DEF StartProxy
  <2>2. ProxyTrusted'
    BY <2>1 DEF EnforceInv, LockfileTrusted, ProxyTrusted, ApprovedPairs
  <2>3. DeliveredWasPinned'
    BY <2>1 DEF DeliveredWasPinned, ClientSeesOnlyPinned, NoTools
  <2>4. QED
    BY <1>0, <2>1, <2>2, <2>3, Steady DEF EnforceInv
<1>3. CASE DeliverList
  <2>1. /\ UNCHANGED <<lockfile, proxy, cmds, pinned>>
        /\ unfiltered' = TRUE \/ delivered' = Filter(live, proxy.lock)
    BY <1>3 DEF DeliverList, Intercept
  <2>2. proxy.lock \in Lockfile /\ live \in ToolList
    BY <1>0 DEF TypeOK
  <2>3. DeliveredWasPinned'
    BY <2>1, <2>2, FilterDelivers
    DEF EnforceInv, ProxyTrusted, DeliveredWasPinned, ClientSeesOnlyPinned
  <2>4. QED
    BY <1>0, <2>1, <2>3, Steady DEF EnforceInv
<1>4. CASE StopProxy
  <2>1. /\ UNCHANGED <<lockfile, cmds, pinned>>
        /\ proxy'.lock = EmptyLock /\ delivered' = NoTools
    BY <1>4 DEF StopProxy, ProxyOff
  <2>2. ProxyTrusted'
    BY <2>1, EmptyLockPairs DEF ProxyTrusted, ApprovedPairs, EmptyLock, NoTools
  <2>3. DeliveredWasPinned'
    BY <2>1 DEF DeliveredWasPinned, ClientSeesOnlyPinned, NoTools
  <2>4. QED
    BY <1>0, <2>1, <2>2, <2>3, Steady DEF EnforceInv
<1>5. CASE Install \/ Uninstall
  <2>1. UNCHANGED <<lockfile, proxy, delivered, unfiltered, cmds, pinned>>
    BY <1>5 DEF Install, Uninstall
  <2>2. QED
    BY <1>0, <2>1, Steady DEF EnforceInv
<1>6. CASE EditPolicy
  <2>1. /\ UNCHANGED <<proxy, delivered, unfiltered, cmds, pinned>> /\ Readable
        /\ lockfile'.tools = lockfile.tools
    BY <1>0, <1>6 DEF EditPolicy, Readable, TypeOK, Lockfile
  <2>2. LockfileTrusted'
    BY <2>1 DEF EnforceInv, LockfileTrusted, ApprovedPairs
  <2>3. QED
    BY <1>0, <2>1, <2>2, Steady DEF EnforceInv
<1>7. ASSUME NEW c \in Commands, Command(c)
      PROVE  EnforceInv'
  <2>0. cmds \in [Commands -> CmdType] /\ cmds[c] \in CmdType
    BY <1>0 DEF TypeOK
  <2>e. ASSUME NEW exit \in {0, 1}, End(c, exit), UNCHANGED pinned
        PROVE  CmdsTrusted'
    <3>1. /\ cmds'[c].pc = "ended"
          /\ \A b \in Commands : b # c => cmds'[b] = cmds[b]
      BY <2>e, <2>0 DEF End, NoCmd
    <3>2. QED
      BY <2>e, <3>1, CmdTrusted
  <2>1. ASSUME NEW kind \in Kinds, NEW t \in Tools, StartCmd(c, kind, t)
        PROVE  EnforceInv'
    <3>1. UNCHANGED <<lockfile, proxy, delivered, unfiltered, pinned>>
      BY <2>1 DEF StartCmd
    <3>2. /\ cmds'[c].pc = "listing"
          /\ \A b \in Commands : b # c => cmds'[b] = cmds[b]
      BY <2>0, <2>1 DEF StartCmd, NoCmd
    <3>3. CmdsTrusted'
      BY <3>1, <3>2, CmdTrusted
    <3>4. QED
      BY <1>0, <3>1, <3>3, Steady DEF EnforceInv
  <2>2. CASE ListForScan(c)
    <3>1. UNCHANGED <<lockfile, proxy, delivered, unfiltered, pinned>>
      BY <2>2 DEF ListForScan
    <3>2. PICK exit \in {0, 1} : End(c, exit)
      BY <2>2 DEF ListForScan
    <3>3. QED
      BY <1>0, <2>e, <3>1, <3>2, Steady DEF EnforceInv
  <2>3. CASE ListForInit(c)
    <3>1. UNCHANGED <<lockfile, proxy, delivered, unfiltered>>
      BY <2>3 DEF ListForInit
    <3>2. pinned \subseteq pinned' /\ CmdsTrusted'
      <4>1. CASE End(c, 1) /\ UNCHANGED pinned
        BY <4>1, <2>e
      <4>2. ASSUME NEW form \in SingleForms,
                   GoOn(c, "writing", NoTools, InitLock(Seen(c, form))),
                   pinned' = pinned \cup ApprovedPairs(InitLock(Seen(c, form)))
            PROVE  pinned \subseteq pinned' /\ CmdsTrusted'
        <5>1. /\ cmds'[c].lock = InitLock(Seen(c, form))
              /\ \A b \in Commands : b # c => cmds'[b] = cmds[b]
          BY <2>0, <4>2 DEF GoOn, CmdType
        <5>2. ApprovedPairs(cmds'[c].lock) \subseteq pinned'
          BY <4>2, <5>1
        <5>3. QED
          BY <4>2, <5>1, <5>2, CmdTrusted
      <4>3. QED
        BY <2>3, <4>1, <4>2 DEF ListForInit
    <3>3. QED
      BY <1>0, <3>1, <3>2, Steady DEF EnforceInv
  <2>4. CASE ListForSetStatus(c)
    <3>1. UNCHANGED <<lockfile, proxy, delivered, unfiltered, pinned>>
      BY <2>4 DEF ListForSetStatus
    <3>2. CmdsTrusted'
      <4>1. CASE End(c, 1)
        BY <3>1, <4>1, <2>e
      <4>2. ASSUME NEW form \in SingleForms, GoOn(c, "reading", Seen(c, form), Absent)
            PROVE  CmdsTrusted'
        <5>1. /\ cmds'[c].pc = "reading"
              /\ \A b \in Commands : b # c => cmds'[b] = cmds[b]
          BY <2>0, <4>2 DEF GoOn, CmdType
        <5>2. QED
          BY <3>1, <5>1, CmdTrusted
      <4>3. QED
        BY <2>4, <4>1, <4>2 DEF ListForSetStatus
    <3>3. QED
      BY <1>0, <3>1, <3>2, Steady DEF EnforceInv
  <2>5. CASE ReadBack(c)
    <3> DEFINE t     == cmds[c].tool
               d     == cmds[c].seen[t]
               entry == [hash |-> d, status |-> NewStatus(c)]
               new   == [lockfile EXCEPT !.tools[t] = entry]
    <3>1. UNCHANGED <<lockfile, proxy, delivered, unfiltered>>
      BY <2>5 DEF ReadBack
    <3>2. pinned \subseteq pinned' /\ CmdsTrusted'
      <4>1. CASE End(c, 1) /\ UNCHANGED pinned
        BY <4>1, <2>e
      <4>2. CASE /\ Readable
                 /\ GoOn(c, "writing", NoTools, new)
                 /\ pinned' = IF cmds[c].kind = "approve" THEN pinned \cup {<<t, d>>}
                                                           ELSE pinned
        <5>1. pinned \subseteq pinned' /\ lockfile \in Lockfile
          BY <1>0, <4>2 DEF Readable, TypeOK
        <5>2. t \in Tools /\ d \in Defs
          BY <1>0, <2>5 DEF ReadBack, TypeOK, CmdOK
        <5>3. ApprovedPairs(new) \subseteq pinned'
          <6> SUFFICES ASSUME NEW x \in ApprovedPairs(new) PROVE x \in pinned'
            OBVIOUS
          <6>1. /\ x \in Tools \X Defs
                /\ new.tools[x[1]] = [hash |-> x[2], status |-> "approved"]
            BY DEF ApprovedPairs
          <6>2. new.tools = [lockfile.tools EXCEPT ![t] = entry]
            BY <5>1 DEF Lockfile
          <6>3. CASE x[1] = t
            <7>1. entry = [hash |-> x[2], status |-> "approved"]
              BY <5>1, <5>2, <6>1, <6>2, <6>3 DEF Lockfile
            <7>2. x = <<t, d>> /\ cmds[c].kind = "approve"
              BY <6>1, <6>3, <7>1 DEF NewStatus
            <7>3. QED
              BY <4>2, <7>2
          <6>4. CASE x[1] # t
            <7>1. lockfile.tools[x[1]] = [hash |-> x[2], status |-> "approved"]
              BY <5>1, <6>1, <6>2, <6>4 DEF Lockfile
            <7>2. x \in ApprovedPairs(lockfile)
              BY <6>1, <7>1 DEF ApprovedPairs
            <7>3. QED
              BY <4>2, <5>1, <7>2 DEF EnforceInv, LockfileTrusted
          <6>5. QED
            BY <6>3, <6>4
        <5> HIDE DEF new
        <5>4. /\ cmds'[c].lock = new
              /\ \A b \in Commands : b # c => cmds'[b] = cmds[b]
          BY <2>0, <4>2 DEF GoOn, CmdType
        <5>5. CmdsTrusted'
          BY <5>1, <5>3, <5>4, CmdTrusted
        <5>6. QED
          BY <5>1, <5>5
      <4>3. QED
        BY <2>5, <4>1, <4>2 DEF ReadBack
    <3>3. QED
      BY <1>0, <3>1, <3>2, Steady DEF EnforceInv
  <2>6. CASE Truncate(c)
    <3>1. /\ UNCHANGED <<proxy, delivered, unfiltered, pinned>> /\ lockfile' = Torn
          /\ cmds[c].pc = "writing" /\ cmds'[c].lock = cmds[c].lock
          /\ \A b \in Commands : b # c => cmds'[b] = cmds[b]
      BY <2>0, <2>6 DEF Truncate, CmdType
    <3>2. LockfileTrusted'
      BY <3>1 DEF LockfileTrusted, Readable
    <3>3. CmdsTrusted'
      <4>1. ApprovedPairs(cmds'[c].lock) \subseteq pinned'
        BY <3>1 DEF EnforceInv, CmdsTrusted
      <4>2. QED
        BY <3>1, <4>1, CmdTrusted
    <3>4. QED
      BY <1>0, <3>1, <3>2, <3>3, Steady DEF EnforceInv
  <2>7. CASE Fill(c)
    <3>1. /\ UNCHANGED <<proxy, delivered, unfiltered, pinned>>
          /\ lockfile' = cmds[c].lock /\ cmds[c].pc = "filling" /\ End(c, 0)
      BY <2>7 DEF Fill
    <3>2. LockfileTrusted'
      BY <3>1 DEF EnforceInv, CmdsTrusted, LockfileTrusted, ApprovedPairs
    <3>3. QED
      BY <1>0, <2>e, <3>1, <3>2, Steady DEF EnforceInv
  <2>8. CASE Exit(c)
    <3>1. UNCHANGED <<lockfile, proxy, delivered, unfiltered, pinned>>
      BY <2>8 DEF Exit
    <3>2. /\ cmds'[c].pc = "idle"
          /\ \A b \in Commands : b # c => cmds'[b] = cmds[b]
      BY <2>0, <2>8 DEF Exit, NoCmd
    <3>3. CmdsTrusted'
      BY <3>1, <3>2, CmdTrusted
    <3>4. QED
      BY <1>0, <3>1, <3>3, Steady DEF EnforceInv
  <2>9. CASE ListingFails(c)
    <3>1. UNCHANGED <<lockfile, proxy, delivered, unfiltered, pinned>>
      BY <2>9 DEF ListingFails
    <3>2. End(c, 1)
      BY <2>9 DEF ListingFails
    <3>3. QED
      BY <1>0, <2>e, <3>1, <3>2, Steady DEF EnforceInv
  <2>10. QED
    BY <1>7, <2>1, <2>2, <2>3, <2>4, <2>5, <2>6, <2>7, <2>8, <2>9 DEF Command
<1>8. CASE UNCHANGED vars
  <2>1. UNCHANGED <<lockfile, proxy, delivered, unfiltered, cmds, pinned>>
    BY <1>8 DEF vars
  <2>2. QED
    BY <1>0, <2>1, Steady DEF EnforceInv
<1>9. QED
  BY <1>1, <1>2, <1>3, <1>4, <1>5, <1>6, <1>7, <1>8 DEF Next

\* In every list the proxy filters, the client is shown nothing but definitions the
\* user approved and tools a rule of the user lets pass, in whatever forms the
\* server sends its lists and however commands overlap, crash and rewrite the
\* lockfile.  Lists in the other forms pass as they come.
THEOREM ClientSeesPinned ==
  Spec => []DeliveredWasPinned
<1>1. EnforceInv => DeliveredWasPinned
  BY DEF EnforceInv
<1>2. Init => EnforceInv
  BY EnforceInit
<1>3. EnforceInv /\ [Next]_vars => EnforceInv'
  BY EnforceStep
<1>4. QED
  BY <1>1, <1>2, <1>3, PTL DEF Spec

\* What stands approved in a readable lockfile was approved by a command the user
\* ran, also when approve and deny overwrite each other's result and the server
\* sends its lists in any form.
THEOREM LockfileIsTrusted ==
  Spec => []LockfileTrusted
<1>1. EnforceInv => LockfileTrusted
  BY DEF EnforceInv
<1>2. Init => EnforceInv
  BY EnforceInit
<1>3. EnforceInv /\ [Next]_vars => EnforceInv'
  BY EnforceStep
<1>4. QED
  BY <1>1, <1>2, <1>3, PTL DEF Spec

=============================================================================
