\* Two runs at once over the cycles of one Agent.
CONSTANTS
    Activity = {a1}
    Agent = {u1}
    Dispatcher = {d1, d2}
    None = None
    End <- Days
    Lead = 1
    LastDay = 2
    MaxRevision = 2
SPECIFICATION FairSpec
INVARIANTS MailsAccountedFor
PROPERTIES DueAreReminded
CHECK_DEADLOCK FALSE
