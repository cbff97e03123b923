\* One login, approvals into the workspaces of two organizations, polls that
\* arrive twice: two polls and their copies mint four keys at most.
SPECIFICATION FairSpec
CONSTANTS
  None = None
  Codes = {c1}
  w1 = w1  w2 = w2  o1 = o1  o2 = o2
  Workspaces = {w1, w2}
  Orgs = {o1, o2}
  OrgOf <- OneEach
  Keys = {k1, k2, k3, k4}
  Slots = {s1, s2}
  MaxPolls = 2
INVARIANTS
  TypeOK
  KeyAsApproved
  ConnectedInOrg
  LoginHoldsKey
PROPERTIES
  LoginEnds
CHECK_DEADLOCK FALSE
