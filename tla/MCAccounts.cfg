\* Two addresses, two offers and two resets each.
CONSTANTS
    Account = {a1, a2}
    Partner = {p1}
    BusinessRole <- TwoRoles
    None = None
    MaxOffers = 2
    MaxRecoveries = 2
    MaxVersion = 4
    MaxTasks = 2
SPECIFICATION FairSpec
INVARIANTS AccountsConsistent LinksWereMailed
PROPERTIES PasswordsByFreshLink EndingsAreFinal LinksAreOneTime ResetsReopen
CHECK_DEADLOCK FALSE
