SPECIFICATION Spec
CONSTANTS
    c1 = c1
    c2 = c2
    w1 = w1
    w2 = w2
    w3 = w3
    Clients <- OneClient
    Workers <- TwoWorkers
    MaxJobs = 1
    Settings <- NotFound
    SizeOf <- MCSizeOf
    None = None
INVARIANT NotFoundMeansMissing
CHECK_DEADLOCK FALSE
