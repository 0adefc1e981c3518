------------------------- MODULE MCAutomationScript -------------------------
(***************************************************************************)
(* Scripts of up to MaxLines lines over two windows, three frames on two   *)
(* displays and one variable.                                              *)
(***************************************************************************)
EXTENDS AutomationScript, Integers, TLC

CONSTANTS d1, d2, w1, w2, full, x, none, five, word

Place(w, d, f) == [op |-> "assign", display |-> d, frame |-> f, window |-> w]

MCDefaultLayout == (d1 :> full) @@ (d2 :> NoLayout)
MCReading == [v \in {none, five, word} |-> IF v = five THEN 5 ELSE 0]

Statements == {
    Place(w1, d1, 0), Place(w2, d1, 0), Place(w1, d1, 1), Place(w2, d2, 0),
    [op |-> "layout", display |-> d1, layout |-> full],
    [op |-> "default", display |-> d1], [op |-> "default", display |-> d2],
    [op |-> "skip", count |-> 1], [op |-> "skip", count |-> 2],
    [op |-> "done"]}

Guarded == {
    [op |-> "assign", display |-> d1, frame |-> 0, window |-> w1],
    [op |-> "skip", count |-> 1]}

Conditions == {
    [op |-> "greater", negate |-> FALSE, a |-> x, b |-> none],
    [op |-> "equals", negate |-> TRUE, a |-> x, b |-> word],
    [op |-> "less", negate |-> FALSE, a |-> x, b |-> five],
    [op |-> "empty", negate |-> FALSE, a |-> x, b |-> none]}

MCLines == {<<s>> : s \in Statements} \cup {<<c, s>> : c \in Conditions, s \in Guarded}
=============================================================================
