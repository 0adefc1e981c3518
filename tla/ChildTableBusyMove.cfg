\* The script moves a window away from a display that runs a user command.
CONSTANTS
    w1 = w1
    w2 = w2
    d1 = d1
    d2 = d2
    Commands = {c1}
    Tools = {}
    Windows = {w1}
    Repatriated = {}
    Ondemand = {}
    Keepalive = {w1}
    Visible = {w1}
    Displays = {d1, d2}
    DefaultDisplay = d1
    DefaultLayouts = {d1}
    Frames = {0}
    DefaultFrame = 0
    NoFrame = NoFrame
    Outcomes <- MoveScript
    Closings = {"reload"}
    StartRetries = 2
    MaxOnlys = 0
SPECIFICATION Spec
PROPERTIES BusyDisplayUntouched
