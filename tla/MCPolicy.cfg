\* One pull at a time in one project, overlapped by two shippers.
SPECIFICATION Spec
CONSTANTS
  None = None
  Projects = {x1}
  Pullers = {p1}
  Shippers = {s1,s2}
  MaxVersion = 3
INVARIANTS
  PolicySafe
PROPERTIES
  ServiceNeverDowngrades
SYMMETRY Symmetry
