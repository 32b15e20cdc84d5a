\* Two documents in the Activities of two Partners.
CONSTANTS
    a1 = a1
    a2 = a2
    p1 = p1
    p2 = p2
    Activity = {a1, a2}
    Document = {d1, d2}
    User = {u1, u2}
    Partner = {p1, p2}
    None = None
    Owner <- OwnerOf
    MaxSharing = 3
SPECIFICATION Spec
SYMMETRY Symmetry
INVARIANTS RowsConsistent AdvertisedAreAccepted
PROPERTIES SharingIsInformed TriggersAccept
CHECK_DEADLOCK FALSE
