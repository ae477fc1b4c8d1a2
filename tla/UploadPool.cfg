SPECIFICATION FairSpec
CONSTANTS
    t1 = t1
    t2 = t2
    t3 = t3
    u1 = u1
    u2 = u2
    u3 = u3
    u4 = u4
    Threads <- MCThreads
    Uploads <- MCUploads
    SizeOf <- MCSizeOf
    Limits <- MCLimits
    None = None
INVARIANTS TypeOK CounterExact OnePlace ShortestFirst NoStrandedUpload LimitHonoured
PROPERTIES OvertakenOnlyBySmaller ImplementsService SmallestServed
