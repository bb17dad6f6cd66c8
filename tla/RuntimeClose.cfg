\* One input request and one close: nothing fails.
CONSTANTS
    None = None
    Parts = 1
    WriterCapacity = 1
    OutputCapacity = 1
    ControlBatch = 1
    MaxRequests = 1
    MaxQueries = 0
    MaxReplies = 0
    MaxOutput = 0
    Happenings = {"close"}
SPECIFICATION RuntimeSpec
INVARIANT CloseIsNoFailure
CHECK_DEADLOCK FALSE
