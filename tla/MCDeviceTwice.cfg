SPECIFICATION Spec
CONSTANTS
  None = None
  Codes = {c1}
  w1 = w1  w2 = w2  o1 = o1  o2 = o2
  Workspaces = {w1, w2}
  Orgs = {o1, o2}
  OrgOf <- OneEach
  Keys = {k1, k2}
  Slots = {s1, s2}
  MaxPolls = 1
INVARIANTS
  AtMostOneKey
CHECK_DEADLOCK FALSE
