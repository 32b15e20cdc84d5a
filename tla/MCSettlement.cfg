\* One Operation, amounts, notes and dates, from execution to the closing.
SPECIFICATION Spec
CONSTANTS
  ann = ann
  bob = bob
  cid = cid
  dan = dan
  o1 = o1
  o2 = o2
  User = {ann, bob, cid}
  InitialRoles <- OneOfEach
  Operation = {o1}
  Amount = {0, 1, 2}
  Note = {"first", "other"}
  LastDay = 2
  MaxRevision = 2
  MaxRequest = 3
  MaxDeclaration = 3
  MaxRoleChange = 0
INVARIANTS DatabaseAccepts BasisStands OneRoute ReturnFollowsTransfer ClosedSettled OffersAccepted
CHECK_DEADLOCK FALSE
