\* User commands only: requests, rejected requests, failing forks, reload and exit.
CONSTANTS
    w1 = w1
    w2 = w2
    d1 = d1
    d2 = d2
    Visible = {}
    Commands = {c1, c2}
    Tools = {}
    Windows = {}
    Repatriated = {r1}
    Ondemand = {}
    Keepalive = {}
    Displays = {d1, d2}
    DefaultDisplay = d1
    DefaultLayouts = {d1}
    Frames = {0}
    DefaultFrame = 0
    NoFrame = NoFrame
    Outcomes <- NoScript
    Closings = {"exit"}
    StartRetries = 1
    MaxOnlys = 2
SPECIFICATION Spec
INVARIANTS TypeOK BusyIsCounted StoppedIffReaped UndoIsMatched
SYMMETRY CommandSymmetry
