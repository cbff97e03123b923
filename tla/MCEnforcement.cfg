\* One tool with two definitions and one that cannot be hashed; two commands
\* overlap, and so do their writes of the lockfile.
SPECIFICATION Spec
CONSTANTS
  Absent = Absent  Missing = Missing  Torn = Torn
  Tools = {t1}
  Defs = {d1, d2, bad}
  Malformed = {bad}
  Commands = {c1, c2}
  Kinds = {"init", "scan", "approve", "deny"}
  Forms = {"tools", "null item", "batch"}
  MayInstall = TRUE
INVARIANTS
  TypeOK
  DeliveredWasPinned
  LockfileTrusted
SYMMETRY Symmetry
CONSTRAINTS
  ScanAlone
  HashableInOverlap
  DeliveredLast
ACTION_CONSTRAINT UserWaits
