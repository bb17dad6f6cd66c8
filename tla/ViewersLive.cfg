\* One viewer that may start focused, with output, a writer that backs up, hangups
\* and stops.
CONSTANTS
    None = None
    Viewers = {v1}
    InputViewers = {v1}
    SizeViewers = {v1}
    Sizes = {}
    Looks = {dark}
    Buttons = {}
    StartSize = start
    StartLook = plain
    ViewerLimit = 1
    QueueCapacity = 1
    MaxRequests = 2
    MaxCalls = 1
    Kinds = {"initial", "typing", "presentation", "reset"}
    Surroundings = {"output", "backlog", "hangup", "stop"}
SPECIFICATION FairSpec
PROPERTIES DepartedLeave RequestsRun
CHECK_DEADLOCK FALSE
