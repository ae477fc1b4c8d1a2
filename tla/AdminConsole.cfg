SPECIFICATION FairSpec
CONSTANTS
    a1 = a1
    a2 = a2
    Admins <- TwoAdmins
    Capacity = 1
    Buffer = 1
    MaxUnread = 1
    MaxLogged = 2
    None = None
INVARIANTS TypeOK LinesInOrder LinesAccountedFor ModesAgree KilledByLeavers
PROPERTIES CommandsAreRead NextAdminGreeted
CHECK_DEADLOCK FALSE
