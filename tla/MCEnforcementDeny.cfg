SPECIFICATION Spec
CONSTANTS
  Absent = Absent  Missing = Missing  Torn = Torn
  Tools = {t1, t2}
  Defs = {d1}
  Malformed = {}
  Commands = {c1, c2}
  Kinds = {"init", "approve", "deny"}
  Forms = {"tools"}
  MayInstall = FALSE
PROPERTIES
  DenySticks
