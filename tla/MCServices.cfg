\* Billing: an organization that buys twice and another one; events arrive in
\* any order and more than once.  AuditExport: three rows of two workspaces, two alterations.
\* LiveFeed: three rows, two shown.  RateLimiter: six requests of two keys, two to a window.
SPECIFICATION Spec
CONSTANTS
  None = None
  Orgs = {o1, o2}
  Subs = {s1, s2}
  MaxChanges = 2
  Tenants = {t1, t2}
  Machines = {m1, m2}
  Events = {e1, e2, e3, e4}
  AuditRows = 3  MaxAlterations = 2
  w1 = w1  w2 = w2  w3 = w3  o1 = o1  o2 = o2
  Workspaces = {w1, w2, w3}
  OrgOf <- TwoOrgs
  Org = o1
  FeedPlans = {"free", "enterprise"}
  RetentionOf <- ShortAndNone
  Reported = {"blocked_drift"}
  Limit = 2  FeedRows = 3  MaxTime = 2  MaxPolls = 1
  Keys = {k1, k2}
  Window = 2  Max = 2  LastTime = 5  MaxArrivals = 6
INVARIANTS
  Mirrors
  VerifiedIsStored
  NoCascade
  FeedFaithful
  LimiterBounds
PROPERTIES
  EventuallyMirrored
CHECK_DEADLOCK FALSE
