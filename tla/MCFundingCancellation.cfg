\* A pending funding request can always be cancelled.
SPECIFICATION Spec
CONSTANTS
  ann = ann
  bob = bob
  cid = cid
  o1 = o1
  o2 = o2
  User = {ann, bob, cid}
  InitialRoles <- AllRoles
  Operation = {o1}
  Amount = {0, 1, 2}
  Note = {}
  MaxBudget = 2
  MaxEvent = 3
  MaxRequest = 2
  MaxRoleChange = 2
SYMMETRY Accounts
INVARIANT CancellationCommits
CHECK_DEADLOCK FALSE
