\* Two writes and a query, for a writer that holds one write and a queue that
\* holds one more, so that a write spills and waits; the terminal is full at any
\* time and may hang up.  A runtime that has ended, or that nobody talks to any
\* more, takes no step.
CONSTANTS
    None = None
    Parts = 1
    WriterCapacity = 1
    OutputCapacity = 1
    ControlBatch = 1
    MaxRequests = 2
    MaxQueries = 1
    MaxReplies = 0
    MaxOutput = 0
    Happenings = {"hangup"}
SPECIFICATION RuntimeFairSpec
INVARIANTS TypeOK FailureHasCause
PROPERTY InputArrives
CHECK_DEADLOCK FALSE
