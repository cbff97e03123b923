---------------------------- MODULE ErrorTaxonomy ----------------------------
(***************************************************************************)
(* What the CLI prints for an error a command throws: classifyThrown of    *)
(* packages/cli-node/src/events.ts tries its rules in order and takes the  *)
(* first whose test matches the message.  A message is represented by the  *)
(* place that throws it, a rule by the places whose messages it matches.   *)
(***************************************************************************)
EXTENDS Naturals, Sequences, FiniteSetsExt

Rule(code, sites) == [code |-> code, sites |-> sites]

\* RULES, in their order.
Rules == <<
  Rule("LOCKFILE_NOT_FOUND",     {"readLockfile: could not read"}),
  Rule("LOCKFILE_INVALID",       {"readLockfile: not valid JSON",
                                  "readLockfile: missing required field"}),
  Rule("MCP_CONFIG_INVALID",     {"discoverServers: not valid JSON"}),
  Rule("MCP_CONFIG_INVALID",     {"discoverServers: not valid JSON",
                                  "discoverServers: wrong shape"}),
  Rule("MCP_CONFIG_NOT_FOUND",   {"install: no config found"}),
  Rule("ALREADY_INSTALLED",      {"install: backup already exists"}),
  Rule("NOT_INSTALLED",          {"uninstall: no backup found"}),
  Rule("SERVER_NOT_CONFIGURED",  {"setToolStatus: server is not in this project"}),
  Rule("TOOL_NOT_FOUND",         {"setToolStatus: tool was not found on server"}),
  Rule("AUTH_SERVER_UNREACHABLE", {"fetch failed"}),
  Rule("AUTH_SERVER_ERROR",      {"device authorization failed to start",
                                  "device authorization poll failed",
                                  "machine registration failed"}),
  Rule("AUTH_DENIED",            {"login was denied"}),
  Rule("AUTH_EXPIRED",           {"login code expired", "login timed out"}),
  Rule("AUTH_KEY_REPIN_REFUSED", {"refusing to overwrite the org signing key"}),
  Rule("MCP_SERVER_UNAVAILABLE", {"server process exited", "spawn failed"}),
  Rule("MCP_TIMEOUT",            {"MCP request timed out"}) >>

\* classifyThrown: the first rule that matches, or FALLBACK.
Classify(site) ==
  LET matching == {i \in DOMAIN Rules : site \in Rules[i].sites}
  IN  IF matching = {} THEN "UNKNOWN_ERROR" ELSE Rules[Min(matching)].code

Codes == {Rules[i].code : i \in DOMAIN Rules} \cup {"UNKNOWN_ERROR"}

=============================================================================
