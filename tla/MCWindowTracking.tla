--------------------------- MODULE MCWindowTracking ---------------------------
(***************************************************************************)
(* A small instance of WindowTracking: one command, one automated window   *)
(* and two displays, of which the first repatriates its windows.           *)
(***************************************************************************)
EXTENDS WindowTracking

Command == 1
Automation == 4

Opening(opener, on, id, pid, configures) ==
    [opener |-> opener, on |-> on, id |-> id, pid |-> pid, configures |-> configures]

Load(old, news, n) ==
    [old |-> [d \in Displays |-> IF d = 1 THEN old ELSE <<>>],
     configures |-> 1, openings |-> news, starts |-> n]

MCWorkloads == {
    \* a command's window that is placed twice, and others that name no process
    Load(<<>>, {Opening(Command, 1, 1, "own", 2), Opening(External, 1, 2, "none", 1)}, 1),
    \* an id that is used again, by another child
    Load(<<>>, {Opening(Command, 1, 1, "own", 1), Opening(Automation, 1, 1, "helper", 1)}, 2),
    \* a child that is started again, on any display
    Load(<<>>, {Opening(Automation, 1, 1, "own", 1), Opening(Automation, 2, 2, "own", 1)}, 2),
    \* a window that was there before, and one of a program that is no child
    Load(<<1>>, {Opening(External, 1, 1, "orphan", 1), Opening(Command, 1, 2, "none", 1)}, 1),
    \* two servers that give out the same id
    Load(<<>>, {Opening(Command, 1, 1, "own", 1), Opening(External, 2, 1, "orphan", 1)}, 1)}
=============================================================================
