\* Install and login: commands one at a time, killed anywhere.  LocalSetup: any command
\* and any edit.  EventLog: three appends of the Node port, up to two of them cut short.
SPECIFICATION Spec
CONSTANTS
  Absent = Absent  Torn = Torn  None = None
  Docs = {o1, o2, o3}
  Installs = {p1}
  MaxWraps = 2
  Servers = {s1, s2}
  MaxMoves = 3
  Writers = {a1, a2, a3}
  LogPorts = {"node"}
  Grain = 2  MaxTime = 2  MaxTears = 2  Limit = 2
  w1 = w1  w2 = w2  k1 = k1
  Workspaces = {w1, w2}
  OrgKeyOf <- OneOrgHasKey
  Logins = {l1}
  Ports = {"node", "python"}
  MayLock = {"node", "python"}
  MaxIssued = 6
INVARIANTS
  Restorable
  LogReadBack
  LoggedInIsUsable
  LogoutFinal
PROPERTIES
  WholeBackupRestored
  SetupSafe
  EventuallyHealthy
CHECK_DEADLOCK FALSE
