\* Closing an Activity whose approved revision is a transfer.
SPECIFICATION Spec
CONSTANTS
    ann = ann
    bob = bob
    cid = cid
    o1 = o1
    o2 = o2
    User <- ThreeUsers
    InitialRoles <- OfficeRoles
    Operation <- TwoOperations
    Total = {1, 2}
    Text = {1}
    Year <- TwoYears
    MaxRevision = 4
    MaxVersion = 11
    MaxUserVersion = 1
SYMMETRY OperationSymmetry
INVARIANTS
    ClosureCommits
CHECK_DEADLOCK FALSE
