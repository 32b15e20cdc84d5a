\* Who may review what, while roles change.
SPECIFICATION Spec
CONSTANTS
  ann = ann
  bob = bob
  cid = cid
  dan = dan
  o1 = o1
  o2 = o2
  User = {ann, bob, cid, dan}
  InitialRoles <- AllRoles
  Operation = {o1}
  Amount = {0, 1}
  Note = {"note"}
  LastDay = 1
  MaxRevision = 1
  MaxRequest = 2
  MaxDeclaration = 0
  MaxRoleChange = 1
SYMMETRY Accounts
INVARIANTS ReviewedByOutsiders
CHECK_DEADLOCK FALSE
