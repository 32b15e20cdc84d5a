\* One account per role; the plans, Operations and years vary.
SPECIFICATION Spec
CONSTANTS
    ann = ann
    bob = bob
    cid = cid
    o1 = o1
    o2 = o2
    User <- ThreeUsers
    InitialRoles <- OfficeRoles
    Operation <- TwoOperations
    Total = {1, 2}
    Text = {1}
    Year <- TwoYears
    MaxRevision = 4
    MaxVersion = 13
    MaxUserVersion = 1
SYMMETRY OperationSymmetry
INVARIANTS
    DatabaseAccepts
    LiveMatchesRecord
    KeptThroughCorrections
    ReviewRespectsExecution
    ClosedProjectIsIdle
    AnnualPlanAgrees
PROPERTIES
    BaselineMovesInSequence
CHECK_DEADLOCK FALSE
