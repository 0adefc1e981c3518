\* Two commands, an automated window and a window found at startup, in one frame.
CONSTANTS
    CommandCount = 2
    EntryCount = 4
    Repatriated = {3}
    SizeMax = 255
    MaxOrder = 6
SPECIFICATION Spec
INVARIANTS NumbersFollowStack OccupantIsRaisedLast
