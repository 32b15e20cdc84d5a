\* Two browsers used again for ever, and the clock.
CONSTANTS
    User = {u1}
    Context = {c1, c2}
    BusinessRole = {agent, validator}
    None = None
    Address = {home, away}
    Network = {home}
    OtpSeconds = 1
    OtpAttempts = 2
    OtpLockSeconds = 1
    ResendSeconds = 1
    ResendMax = 1
    ContextSeconds = 2
    SessionSeconds = 1
    LoginLimit = 1
    LoginWindow = 3
    IpLimit = 2
    IpWindow = 2
    Reuse = TRUE
    MaxCodes = 2
    MaxVersion = 2
    MaxTasks = 2
SPECIFICATION FairSpec
PROPERTIES CodesAreOneTime SignInReopens
CHECK_DEADLOCK FALSE
