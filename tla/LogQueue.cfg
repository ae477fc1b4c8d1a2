SPECIFICATION Spec
CONSTANTS
    LOG_QUEUE_SIZE = 4
    Entries <- MCEntries
    None = None
INVARIANTS TypeOK NoSleepOverEntries
PROPERTY ImplementsBoundedLog
