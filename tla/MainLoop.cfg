\* The main loop while something keeps writing to it.
CONSTANTS
    Commands = {c1, c2}
    Others = {w1}
SPECIFICATION PolledSpec
INVARIANTS TypeOK NoExitForgotten FdsWereReported
PROPERTIES PostponedReloadHappens ExitIsReaped
