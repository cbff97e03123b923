\* Two computers of one workspace; a retried stretch that overlaps new events.
SPECIFICATION IngestSpec
CONSTANTS
  w1 = w1  w2 = w2  k1 = k1  k2 = k2  m1 = m1  m2 = m2  p1 = p1  p2 = p2
  e1 = e1  e2 = e2  e3 = e3  e4 = e4
  None = None
  Workspaces = {w1}
  Keys = {k1, k2}
  Machines = {m1, m2}
  PublicKeys = {p1, p2}
  Events = {e1, e2, e3}
  Malformed = {}
  Slots = {s1}
  RequestBodies <- TeamBodies
INVARIANTS
  ChainIntact
