SPECIFICATION Spec
CONSTANTS
  Absent = Absent  Missing = Missing  Torn = Torn
  Tools = {t1}
  Defs = {d1, d2}
  Malformed = {}
  Commands = {c1}
  Kinds = {"init"}
  Forms = {"tools", "null item", "batch"}
  MayInstall = TRUE
INVARIANTS
  ClientSeesOnlyPinned
