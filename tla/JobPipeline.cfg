SPECIFICATION Spec
CONSTANTS
    c1 = c1
    c2 = c2
    w1 = w1
    w2 = w2
    w3 = w3
    Clients <- TwoClients
    Workers <- TwoWorkers
    MaxJobs = 2
    Settings <- Safe
    SizeOf <- MCSizeOf
    None = None
INVARIANTS TypeOK RunsAtMostOnce ResultsAreTrue OnlyWholeFilesRun InStep
PROPERTY LeavesOnlyAfterRun
SYMMETRY WorkerSymmetry
CHECK_DEADLOCK FALSE
