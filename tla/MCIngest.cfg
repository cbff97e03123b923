\* One computer, two logins to two workspaces, two requests in flight.
SPECIFICATION IngestSpec
CONSTANTS
  w1 = w1  w2 = w2  k1 = k1  k2 = k2  m1 = m1  m2 = m2  p1 = p1  p2 = p2
  e1 = e1  e2 = e2  e3 = e3  e4 = e4
  None = None
  Workspaces = {w1, w2}
  Keys = {k1, k2}
  Machines = {m1, m2}
  PublicKeys = {p1, p2}
  Events = {e1, e2, e3}
  Malformed = {e3}
  Slots = {s1, s2}
  RequestBodies <- ReloginBodies
INVARIANTS
  IngestTypeOK
  PrevHashPersisted
  AcceptedMeansStored
  RowsInMachineWorkspace
  ChainIsHistory
