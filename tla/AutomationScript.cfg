\* Every script of up to three lines, run again after changes of its variable.
CONSTANTS
    d1 = d1
    d2 = d2
    w1 = w1
    w2 = w2
    full = full
    x = x
    none = none
    five = five
    word = word
    NoLayout = NoLayout
    NoWindow = NoWindow
    Displays = {d1, d2}
    Frames = {0, 1}
    Windows = {w1, w2}
    Layouts = {full}
    DefaultLayout <- MCDefaultLayout
    Variables = {x}
    Values = {none, five, word}
    Reading <- MCReading
    EmptyValue = none
    Skips = {1, 2}
    Lines <- MCLines
    SizeModulus = 16
    MaxLines = 3
    MaxAllocated = 4
SPECIFICATION FairSpec
INVARIANTS TypeOK EntriesAreDistinct EntriesAreAllocated ScriptIsFollowed
PROPERTIES RunEnds
