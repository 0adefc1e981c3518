\* Windows of a command, of an automated window and of other programs, on two displays.
CONSTANTS
    CommandCount = 1
    WindowCount = 1
    DisplayCount = 2
    Ids = {1, 2}
    Repatriating = {1}
    Workloads <- MCWorkloads
SPECIFICATION Spec
INVARIANTS WindowTypeOK TrackedIsFound ListedOnce NoneDangles PidDecides
PROPERTIES EventsAreHandled
CHECK_DEADLOCK FALSE
