-------------------------------- MODULE Drift --------------------------------
(***************************************************************************)
(* The drift check of packages/cli-core (drift.ts) for the tools of one    *)
(* server.  A tool definition stands for the three fields hashTool hashes; *)
(* sha256 is collision free, so the hash of a definition is the            *)
(* definition itself.  Malformed definitions (a description or schema of   *)
(* the wrong type) make hashTool throw.                                    *)
(*                                                                         *)
(* A tool list is a function from tool names to definitions or Absent; a   *)
(* lockfile has an entry or Absent for each name.                          *)
(***************************************************************************)
CONSTANTS
  Tools,       \* tool names
  Defs,        \* definitions a server may report
  Malformed,   \* definitions hashTool refuses
  Absent

ASSUME DefsAssumption == Malformed \subseteq Defs /\ Absent \notin Defs

Statuses     == {"approved", "denied", "quarantined"}
UnknownRules == {"block", "allow"}   \* anything but "block" lets unknown tools pass

Entries  == [hash : Defs, status : Statuses]
Lockfile == [tools : [Tools -> Entries \cup {Absent}], onUnknownTool : UnknownRules]
ToolList == [Tools -> Defs \cup {Absent}]

(***************************************************************************)
(* checkDrift: the reason; only these three let the tool through.          *)
(***************************************************************************)
AllowReasons == {"approved", "allowed_unknown", "tool_removed"}

\* Faulty: a changed definition is approved as long as its entry is.
CheckDriftIgnoringHash(observed, t, lock) ==
  LET entry == lock.tools[t]
  IN  CASE observed = Absent /\ entry = Absent -> "blocked_error"
        [] observed = Absent /\ entry # Absent -> "tool_removed"
        [] observed \in Malformed              -> "blocked_error"
        [] entry = Absent                      ->
             IF lock.onUnknownTool = "block" THEN "blocked_unknown"
                                             ELSE "allowed_unknown"
        [] entry.status = "denied"             -> "blocked_denied"
        [] entry.status = "quarantined"        -> "blocked_quarantined"
        [] OTHER                               -> "approved"

CheckDrift(observed, t, lock) ==
  LET entry == lock.tools[t]
  IN  CASE observed = Absent /\ entry = Absent -> "blocked_error"
        [] observed = Absent /\ entry # Absent -> "tool_removed"
        [] observed \in Malformed              -> "blocked_error"
        [] entry = Absent                      ->
             IF lock.onUnknownTool = "block" THEN "blocked_unknown"
                                             ELSE "allowed_unknown"
        [] observed # entry.hash               -> "blocked_drift"
        [] entry.status = "denied"             -> "blocked_denied"
        [] entry.status = "quarantined"        -> "blocked_quarantined"
        [] OTHER                               -> "approved"

Allowed(observed, t, lock) == CheckDrift(observed, t, lock) \in AllowReasons

(***************************************************************************)
(* filterToolsListResult: blocked tools are removed from the list.         *)
(***************************************************************************)
Filter(list, lock) ==
  [t \in Tools |-> IF list[t] # Absent /\ Allowed(list[t], t, lock)
                   THEN list[t] ELSE Absent]

=============================================================================
