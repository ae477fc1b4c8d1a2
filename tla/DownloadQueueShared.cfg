SPECIFICATION Spec
CONSTANTS
    c1 = c1
    c2 = c2
    ip1 = ip1
    ip2 = ip2
    Clients <- TwoClients
    Ip <- SharedIp
    MaxRequests = 1
    InitialCapacity = 1
    Settings <- Shared
    None = None
CHECK_DEADLOCK FALSE
INVARIANT FilesGoToTheirClient
