----------------------------- MODULE RaiseOrder -----------------------------
(***************************************************************************)
(* How rpcd finds the child that is shown in a frame (child_restack and    *)
(* child_occupant of src/daemon/child.c): the numbers that stand for the   *)
(* order in which children were raised, their renumbering, and the         *)
(* comparison of these signed numbers with a size_t.  ChildTable has ranks *)
(* in their place, those of `stack`.                                       *)
(*                                                                         *)
(* Abstractions                                                            *)
(*  - One frame.  A child that is elsewhere has no window here.            *)
(*  - Who may be started, raised or stopped when is in ChildTable.         *)
(***************************************************************************)
EXTENDS Integers, Sequences, FiniteSetsExt, SequencesExt

CONSTANTS
    CommandCount,  \* ncommands
    EntryCount,    \* ncommands + nwindows
    Repatriated,   \* the windows that were found at startup
    SizeMax,       \* SIZE_MAX
    MaxOrder       \* bound of the model: no number is raised above it

Entries   == 1..EntryCount
Users     == 1..CommandCount
Startable == Entries \ Repatriated

ASSUME EntriesAssumption ==
    /\ CommandCount \in Nat /\ EntryCount \in Nat /\ CommandCount <= EntryCount
    /\ Repatriated \subseteq Entries \ Users

ASSUME RangeAssumption == MaxOrder \in Nat /\ SizeMax \in Nat /\ MaxOrder < SizeMax

VARIABLES
    order,   \* rpcd_child_t.order
    state,   \* rpcd_child_t.state
    mapped,  \* the children with a window in the frame
    stack    \* history: those that were raised since they were stopped, the last on top

vars == <<order, state, mapped, stack>>

Init ==
    /\ order = [c \in Entries |-> 0]
    /\ state = [c \in Entries |-> IF c \in Repatriated THEN "running" ELSE "stopped"]
    /\ mapped = Repatriated
    /\ stack = <<>>

-----------------------------------------------------------------------------
(* child_restack *)

Positive(o) == {o[c] : c \in {d \in Entries : o[d] > 0}}
Highest == IF Positive(order) = {} THEN 0 ELSE Max(Positive(order))

\* By how much all numbers are lowered.
Shift == IF Positive(order) = {} THEN 0 ELSE Min(Positive(order)) - 1

\* Mutant: what was lowered is not taken off the highest one.
ShiftedTwice == [c \in Entries |-> IF order[c] > Shift THEN order[c] - 2 * Shift ELSE order[c]]

Shifted == [c \in Entries |-> IF order[c] > Shift THEN order[c] - Shift ELSE order[c]]

\* Mutant: the highest number itself.
TopTaken == Highest - Shift

Top == Highest - Shift + 1

\* The child gets a number above all others, its own included.
Raise(c) ==
    /\ Top <= MaxOrder
    /\ order' = [Shifted EXCEPT ![c] = Top]
    /\ stack' = Append(SelectSeq(stack, LAMBDA d : d # c), c)

\* child_start, whose fork may fail.
Start(c) ==
    /\ state[c] = "stopped"
    /\ Raise(c)
    /\ \E s \in {"running", "stopped"} : state' = [state EXCEPT ![c] = s]
    /\ UNCHANGED mapped

\* child_raise, by a request or by automation, even for a child that has been told to end.
Move(c) ==
    /\ state[c] # "stopped"
    /\ Raise(c)
    /\ UNCHANGED <<state, mapped>>

\* child_stop.  Entries that were found have no process.
Stop(c) ==
    /\ state[c] # "stopped"
    /\ IF c \in Repatriated
       THEN state' = [state EXCEPT ![c] = "stopped"] /\ UNCHANGED <<order, stack>>
       ELSE /\ state' = [state EXCEPT ![c] = "terminated"]
            /\ order' = [order EXCEPT ![c] = -1]
            /\ stack' = SelectSeq(stack, LAMBDA d : d # c)
    /\ UNCHANGED mapped

\* child_reap leaves the number, child_discard_window and child_match_window as well.
Reap(c) ==
    /\ state[c] # "stopped"
    /\ state' = [state EXCEPT ![c] = "stopped"]
    /\ UNCHANGED <<order, mapped, stack>>

Map(c) ==
    /\ state[c] = "running"
    /\ mapped' = mapped \cup {c}
    /\ UNCHANGED <<order, state, stack>>

Unmap(c) ==
    /\ mapped' = mapped \ {c}
    /\ UNCHANGED <<order, state, stack>>

\* child_cleanup frees the table once every child has ended, and the configuration is read anew.
Reload ==
    /\ \A c \in Entries : state[c] = "stopped"
    /\ order' = [c \in Entries |-> 0]
    /\ state' = [c \in Entries |-> IF c \in Repatriated THEN "running" ELSE "stopped"]
    /\ mapped' = Repatriated
    /\ stack' = <<>>

Next ==
    \/ \E c \in Startable : Start(c) \/ Move(c) \/ Reap(c) \/ Map(c)
    \/ \E c \in Entries : Stop(c) \/ (c \in mapped /\ Unmap(c))
    \/ Reload

Spec == Init /\ [][Next]_vars

-----------------------------------------------------------------------------
(* child_occupant *)

\* A signed number, compared with a size_t.
AsSize(o) == IF o < 0 THEN SizeMax + 1 + o ELSE o

\* Mutant: a child that has been told to end is shown as long as it has windows.
ShownAnyway(c) == c \in mapped

Shown(c) == state[c] = "running" /\ c \in mapped

\* One round of the loops.
Better(best, c) ==
    IF Shown(c) /\ AsSize(order[c]) >= best.index
    THEN [child |-> c, index |-> AsSize(order[c])] ELSE best

\* The first loop goes through the commands, the second through the windows.
Found(first, last) ==
    FoldLeft(Better, [child |-> 0, index |-> 0],
             [n \in 1..(last - first + 1) |-> first + n - 1]).child

Occupant ==
    IF Found(1, CommandCount) # 0 THEN Found(1, CommandCount)
    ELSE Found(CommandCount + 1, EntryCount)

-----------------------------------------------------------------------------
(* Properties *)

\* The numbers follow the stack, whatever was raised, stopped or failed to start before: what
\* was raised later has the greater number, and only what was raised has a positive one
\* (child_restack, child_start, child_raise, child_stop).
NumbersFollowStack ==
    /\ \A i, j \in DOMAIN stack : i < j => order[stack[i]] < order[stack[j]]
    /\ \A c \in Entries : order[c] > 0 <=> \E i \in DOMAIN stack : stack[i] = c

\* The rank of a child in the stack, 0 for one that is not in it.
RankOf(c) == IF \E i \in DOMAIN stack : stack[i] = c
             THEN CHOOSE i \in DOMAIN stack : stack[i] = c ELSE 0

\* The child that is shown in a frame is, of the commands there if there are any and of the
\* windows if not, the one that was raised last; a number of -1, the greatest as a size_t, never
\* wins, as no running child has it (child_occupant).
OccupantIsRaisedLast ==
    LET shown == {c \in Entries : Shown(c)}
        group == IF shown \cap Users # {} THEN shown \cap Users ELSE shown
    IN  IF group = {} THEN Occupant = 0
        ELSE /\ Occupant \in group
             /\ \A c \in group : RankOf(c) <= RankOf(Occupant)
=============================================================================
