---------------------------- MODULE EventTaxonomy ----------------------------
(***************************************************************************)
(* What a drift decision is called and how severe it is, kept four times:  *)
(* by the Node CLI (packages/cli-node/src/events.ts), the Python CLI       *)
(* (packages/cli-python/mcpseal/events.py) and the dashboard               *)
(* (apps/dashboard/src/lib/event-taxonomy.ts), as a code and a severity,   *)
(* and by the ingest service (services/ingest/src/app.ts), as the severity *)
(* it stores with an event.                                                *)
(***************************************************************************)
Types == {"approved", "blocked_denied", "blocked_quarantined", "blocked_drift",
          "blocked_unknown", "allowed_unknown", "tool_removed", "blocked_error"}

Entry(code, severity) == [code |-> code, severity |-> severity]

\* DRIFT_EVENTS of the Node CLI.
NodeEvents ==
  [approved            |-> Entry("TOOL_APPROVED", "info"),
   blocked_denied      |-> Entry("TOOL_DENIED", "high"),
   blocked_quarantined |-> Entry("TOOL_QUARANTINED", "high"),
   blocked_drift       |-> Entry("TOOL_CHANGED", "critical"),
   blocked_unknown     |-> Entry("TOOL_UNKNOWN", "medium"),
   allowed_unknown     |-> Entry("TOOL_UNKNOWN_ALLOWED", "medium"),
   tool_removed        |-> Entry("TOOL_REMOVED", "info"),
   blocked_error       |-> Entry("INTERNAL_CHECK_ERROR", "critical")]

\* DRIFT_EVENTS of the Python CLI.
PythonEvents ==
  [approved            |-> Entry("TOOL_APPROVED", "info"),
   blocked_denied      |-> Entry("TOOL_DENIED", "high"),
   blocked_quarantined |-> Entry("TOOL_QUARANTINED", "high"),
   blocked_drift       |-> Entry("TOOL_CHANGED", "critical"),
   blocked_unknown     |-> Entry("TOOL_UNKNOWN", "medium"),
   allowed_unknown     |-> Entry("TOOL_UNKNOWN_ALLOWED", "medium"),
   tool_removed        |-> Entry("TOOL_REMOVED", "info"),
   blocked_error       |-> Entry("INTERNAL_CHECK_ERROR", "critical")]

\* EVENT_TAXONOMY of the dashboard.
DashboardEvents ==
  [approved            |-> Entry("TOOL_APPROVED", "info"),
   blocked_denied      |-> Entry("TOOL_DENIED", "high"),
   blocked_quarantined |-> Entry("TOOL_QUARANTINED", "high"),
   blocked_drift       |-> Entry("TOOL_CHANGED", "critical"),
   blocked_unknown     |-> Entry("TOOL_UNKNOWN", "medium"),
   allowed_unknown     |-> Entry("TOOL_UNKNOWN_ALLOWED", "medium"),
   tool_removed        |-> Entry("TOOL_REMOVED", "info"),
   blocked_error       |-> Entry("INTERNAL_CHECK_ERROR", "critical")]

\* Faulty: the prefixes of the decisions, as the service graded them at first.
SeverityByPrefix(type) ==
  CASE type \in {"approved", "tool_removed", "allowed_unknown"} -> "info"
    [] OTHER -> "high"

\* severityFor of the ingest service.
SeverityFor(type) ==
  CASE type \in {"blocked_drift", "blocked_error"} -> "critical"
    [] type \in {"blocked_denied", "blocked_quarantined"} -> "high"
    [] type \in {"blocked_unknown", "allowed_unknown"} -> "medium"
    [] type \in {"tool_removed", "approved"} -> "info"
    [] OTHER -> "low"

=============================================================================
