\* Two users of the domain that may be on the Enterprise plan, one of another
\* domain; two sessions at a time.
SPECIFICATION Spec
CONSTANTS
  None = None
  acme = acme  other = other  ann = ann  ann2 = ann2  bob = bob
  Orgs = {acme, other}
  Emails <- ThreeEmails
  DomainOf <- DomainOfThree
  SessionIds = {s1, s2}
  PatchRoles = {"admin", "viewer"}
  EnterpriseOrgs = {acme}
INVARIANTS
  Founded
  DeactivatedLockedOut
  ShownTokenWorks
PROPERTIES
  FirstUserOwns
SYMMETRY Symmetry
