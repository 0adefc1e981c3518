\* Two automated windows trade frames on one display, beside a command without windows.
CONSTANTS
    w1 = w1
    w2 = w2
    d1 = d1
    d2 = d2
    Commands = {}
    Tools = {t1}
    Windows = {w1, w2}
    Repatriated = {}
    Ondemand = {w1}
    Keepalive = {w2}
    Visible = {w1, w2}
    Displays = {d1}
    DefaultDisplay = d1
    DefaultLayouts = {d1}
    Frames = {0, 1}
    DefaultFrame = 0
    NoFrame = NoFrame
    Outcomes <- FrameScript
    Closings = {}
    StartRetries = 2
    MaxOnlys = 0
SPECIFICATION Spec
INVARIANTS StackIsStrict Converged LayoutShowsAssigned
