SPECIFICATION Spec
CONSTANTS
    Structures = {a, b}
    None = None
    Earlier = {a}
    MaxLaunches = 2
    MaxChanges = 2
    MaxToggles = 2
    MaxCrashes = 2
    MaxEvents = 2
    MaxFaults = 1
INVARIANTS
    TypeOK
    LastWordStays
    NoCrashLoop
PROPERTIES
    StoreKeepsArchive
    NewerStays
    CheckpointsLand
CHECK_DEADLOCK FALSE
