\* SIGHUP while a reload is in progress.
CONSTANTS
    Commands = {c1}
    Others = {w1}
SPECIFICATION Spec
INVARIANTS SighupIsRecorded
