SPECIFICATION Spec
CONSTANTS
    c1 = c1
    c2 = c2
    w1 = w1
    w2 = w2
    w3 = w3
    Clients <- TwoClients
    Workers <- TwoWorkers
    MaxJobs = 1
    Settings <- Cross
    SizeOf <- MCSizeOf
    None = None
INVARIANT OwnConnection
CHECK_DEADLOCK FALSE
