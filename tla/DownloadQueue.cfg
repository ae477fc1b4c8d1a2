SPECIFICATION FairSpec
CONSTANTS
    c1 = c1
    c2 = c2
    ip1 = ip1
    ip2 = ip2
    Clients <- TwoClients
    Ip <- OwnIps
    MaxRequests = 3
    InitialCapacity = 1
    Settings <- All
    None = None
CHECK_DEADLOCK FALSE
INVARIANTS TypeOK QueueFits NoSleepOverJobs FilesStayAtAddress NamesAreRight
PROPERTY ConnectionsAreAnswered
