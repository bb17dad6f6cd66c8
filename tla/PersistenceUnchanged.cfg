SPECIFICATION Spec
CONSTANTS
    Structures = {a, b}
    None = None
    Earlier = {a}
    MaxLaunches = 1
    MaxChanges = 2
    MaxToggles = 0
    MaxCrashes = 0
    MaxEvents = 3
    MaxFaults = 1
INVARIANTS
    UnchangedHolds
CHECK_DEADLOCK FALSE
