\* What is owed, and who agrees to it: one account per role at first, one change of role.
SPECIFICATION Spec
CONSTANTS
  ann = ann
  bob = bob
  cid = cid
  o1 = o1
  o2 = o2
  User = {ann, bob, cid}
  InitialRoles <- OneOfEach
  Operation = {o1}
  Amount = {0, 1, 2}
  Note = {}
  MaxBudget = 3
  MaxEvent = 5
  MaxRequest = 2
  MaxRoleChange = 1
INVARIANTS BudgetIsSound ShortfallFound EachIncreaseFundedOnce HistoryVerified
PROPERTIES PauseLiftedByFunding ApprovedByOutsiders
CHECK_DEADLOCK FALSE
