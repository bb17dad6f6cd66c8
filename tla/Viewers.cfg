\* Two viewers with every capability, one button and two sizes: mouse gestures, focus
\* and geometry across drops, revocations and refused sends.
CONSTANTS
    None = None
    Viewers = {v1, v2}
    InputViewers = {v1, v2}
    SizeViewers = {v1, v2}
    Sizes = {wide, narrow}
    Looks = {}
    Buttons = {b1}
    StartSize = wide
    StartLook = plain
    ViewerLimit = 2
    QueueCapacity = 1
    MaxRequests = 3
    MaxCalls = 1
    Kinds = {"focus", "geometry", "press", "release"}
    Surroundings = {}
SPECIFICATION Spec
INVARIANTS TypeOK GestureOwnerLive NoStuckButton RequestsKeepSlot FocusFaithful NoLeakedSlot ControllerDecides
PROPERTY GestureEndsByOwner
SYMMETRY Symmetry
CHECK_DEADLOCK FALSE
