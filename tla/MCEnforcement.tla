---------------------------- MODULE MCEnforcement ----------------------------
(***************************************************************************)
(* Instances of Enforcement for TLC: tools and commands are alike, and so  *)
(* are the definitions that can be hashed.                                 *)
(***************************************************************************)
EXTENDS Enforcement, TLC

Symmetry == Permutations(Tools) \cup Permutations(Commands)
              \cup Permutations(Defs \ Malformed)

\* A bound: scan writes nothing that another command could read, so it is
\* checked alone.
ScanAlone ==
  \A c, d \in Commands :
    c # d /\ cmds[c].pc # "idle" /\ cmds[c].kind = "scan" => cmds[d].pc = "idle"

\* Two commands run.
Overlap == \E c, d \in Commands : c # d /\ cmds[c].pc # "idle" /\ cmds[d].pc # "idle"

\* Bounds on what happens while they do: no definition that cannot be hashed, which
\* ends a command; no edit of the policy, no install or uninstall.
HashableInOverlap == Overlap => \A t \in Tools : live[t] \notin Malformed
UserWaits == Overlap /\ cmds' = cmds => UNCHANGED <<lockfile, wrapped>>

\* No step depends on what the client got, and while a proxy runs its lockfile
\* stays and pinned only grows: a state after a delivery is checked, and what
\* follows is followed from the state before it.
DeliveredLast == delivered = NoTools /\ ~unfiltered

=============================================================================
