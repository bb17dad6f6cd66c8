\* One batch of output that the engine may answer with three writes, more than
\* the writer and its queue of one hold, and every way in which the child, the
\* terminal and the threads around them can end or fail, in every order.
CONSTANTS
    None = None
    Parts = 1
    WriterCapacity = 1
    OutputCapacity = 1
    ControlBatch = 1
    MaxRequests = 0
    MaxQueries = 0
    MaxReplies = 3
    MaxOutput = 1
    Happenings = {"hangup", "exit", "write", "read", "wait"}
SPECIFICATION RuntimeSpec
INVARIANTS OutputComplete NoLostWake
PROPERTIES InputInOrder HistoryKept
CHECK_DEADLOCK FALSE
