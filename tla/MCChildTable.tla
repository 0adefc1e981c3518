---------------------------- MODULE MCChildTable ----------------------------
(***************************************************************************)
(* Small instances of ChildTable.  Outcomes name what an automation script *)
(* with two displays can come to; the windows are model values.            *)
(***************************************************************************)
EXTENDS ChildTable, TLC

CONSTANTS d1, d2, w1, w2

Put(w, d, f) == [window |-> w, display |-> d, frame |-> f]

\* No script: the early exit of control_run_automation, whose runs then do nothing.
NoScript == {Empty}

\* One display: the windows trade frames, and one of them is dropped.
FrameScript == {
    [assign |-> <<Put(w1, d1, 0), Put(w2, d1, 1)>>, layout |-> {d1}],
    [assign |-> <<Put(w2, d1, 0), Put(w1, d1, 1)>>, layout |-> {}],
    [assign |-> <<Put(w2, d1, 0)>>, layout |-> {d1}]}

\* Two displays, between which one window moves.
MoveScript == {
    [assign |-> <<Put(w1, d1, 0)>>, layout |-> {d1}],
    [assign |-> <<Put(w1, d2, 0)>>, layout |-> {d1, d2}]}

\* The commands of an instance are interchangeable.
CommandSymmetry == Permutations(Commands)
=============================================================================
