\* The main loop when nothing but signals may wake it.
CONSTANTS
    Commands = {c1}
    Others = {w1}
SPECIFICATION FairSpec
PROPERTIES ExitIsReaped
