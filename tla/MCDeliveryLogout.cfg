SPECIFICATION DeliverySpec
CONSTANTS
  None = None
  Workspaces = {w1}
  Keys = {k1}
  Machines = {m1}
  PublicKeys = {p1}
  Events = {e1}
  Malformed = {}
  Slots = {s1, s3}
  RequestBodies <- NoBodies
  LoginSlot = s3
  BatchSize = 1
  MayLogout = TRUE
PROPERTIES
  LogoutSticks
