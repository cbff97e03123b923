\* Two overlapping shippers, two logins to two workspaces, logouts.
SPECIFICATION DeliverySpec
CONSTANTS
  None = None
  Workspaces = {w1, w2}
  Keys = {k1, k2}
  Machines = {m1, m2}
  PublicKeys = {p1, p2}
  Events = {e1, e2}
  Malformed = {}
  Slots = {s1, s2, s3}
  RequestBodies <- NoBodies
  LoginSlot = s3
  BatchSize = 1
  MayLogout = TRUE
INVARIANTS
  DeliverySafe
PROPERTIES
  Collects
SYMMETRY Symmetry
CONSTRAINT OneRevocation
