\* One login, no logout, three blocked tools, network and service failures.
SPECIFICATION FairDelivery
CONSTANTS
  None = None
  Workspaces = {w1}
  Keys = {k1}
  Machines = {m1}
  PublicKeys = {p1}
  Events = {e1, e2, e3}
  Malformed = {}
  Slots = {s1, s2, s3}
  RequestBodies <- NoBodies
  LoginSlot = s3
  BatchSize = 2
  MayLogout = FALSE
INVARIANTS
  ChainIntact
PROPERTIES
  NextBlockShipsAll
CHECK_DEADLOCK FALSE
