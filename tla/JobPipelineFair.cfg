SPECIFICATION FairSpec
CONSTANTS
    c1 = c1
    c2 = c2
    w1 = w1
    w2 = w2
    w3 = w3
    Clients <- TwoClients
    Workers <- ThreeWorkers
    MaxJobs = 2
    Settings <- Fair
    SizeOf <- MCSizeOf
    None = None
PROPERTIES ReadyJobsRun ConnectionsAreAccepted LoneClientServed
CHECK_DEADLOCK FALSE
