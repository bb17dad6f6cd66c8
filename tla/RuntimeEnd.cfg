\* Two batches for a queue of one, so that the reader blocks while the child
\* exits, the terminal hangs up or a client closes the runtime.
CONSTANTS
    None = None
    Parts = 1
    WriterCapacity = 1
    OutputCapacity = 1
    ControlBatch = 1
    MaxRequests = 0
    MaxQueries = 0
    MaxReplies = 0
    MaxOutput = 2
    Happenings = {"close", "hangup", "exit"}
SPECIFICATION RuntimeFairSpec
PROPERTIES CommandSettles TeardownEnds
CHECK_DEADLOCK FALSE
