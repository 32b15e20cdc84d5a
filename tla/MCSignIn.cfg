\* Three browsers, one account that changes.
CONSTANTS
    User = {u1}
    Context = {c1, c2, c3}
    BusinessRole = {agent, validator}
    None = None
    Address = {home}
    Network = {home}
    OtpSeconds = 1
    OtpAttempts = 2
    OtpLockSeconds = 1
    ResendSeconds = 1
    ResendMax = 1
    ContextSeconds = 2
    SessionSeconds = 1
    LoginLimit = 1
    LoginWindow = 1
    IpLimit = 1
    IpWindow = 1
    Reuse = FALSE
    MaxCodes = 2
    MaxVersion = 4
    MaxTasks = 2
SPECIFICATION Spec
SYMMETRY Symmetry
INVARIANTS CodesConsistent
PROPERTIES GrantFollowsBothProofs SignedOutForGood LocksHold
CHECK_DEADLOCK FALSE
