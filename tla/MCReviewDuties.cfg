\* Three accounts whose roles change between the steps; the plans are poor.
SPECIFICATION Spec
CONSTANTS
    ann = ann
    bob = bob
    cid = cid
    o1 = o1
    o2 = o2
    User <- ThreeUsers
    InitialRoles <- AnyRoles
    Operation <- OneOperation
    Total = {1}
    Text = {1, 2}
    Year <- OneYear
    MaxRevision = 3
    MaxVersion = 10
    MaxUserVersion = 2
SYMMETRY UserSymmetry
INVARIANTS
    SeparationOfDuties
    AdvertisedMatchesGuards
CHECK_DEADLOCK FALSE
