SPECIFICATION FairSpec
CONSTANTS
    c1 = c1
    c2 = c2
    Clients <- TwoClients
    Interval = 1
    Timeout = 3
    MaxLag = 1
    Buffer = 2
    MaxLosses = 1
    MaxRestarts = 1
    None = None
INVARIANTS TypeOK OwnAddress LiveClientsListed
PROPERTIES RemovedOnlyWhenSilent GoneClientsDropped
