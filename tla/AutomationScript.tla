-------------------------- MODULE AutomationScript --------------------------
(***************************************************************************)
(* The automation script of rpcd: how control_config_automation turns its  *)
(* lines into operations, and how the first half of control_run_automation *)
(* interprets them (src/daemon/control.c).  What the second half does with *)
(* the result is in ChildTable, which knows a script by its Outcome.       *)
(*                                                                         *)
(* Abstractions                                                            *)
(*  - A line is the operations it is parsed to: one for a statement, two   *)
(*    for an `if` (the condition, then its body).  Lines that do not parse *)
(*    are configuration errors.                                            *)
(*  - A value is known by its identity (strcmp) and its numeric reading    *)
(*    (strtol), window and layout names by their identity.                 *)
(*  - Cascading conditions, which the README excludes, are left out.       *)
(***************************************************************************)
EXTENDS Integers, Sequences

CONSTANTS
    Displays, Frames, Windows,
    Layouts,         \* layout names, defined for every display
    DefaultLayout,   \* the default layout of each display, or NoLayout
    NoLayout, NoWindow,
    Variables, Values,
    Reading,         \* strtol of each value
    EmptyValue,
    Skips,           \* operands of skip
    Lines,           \* the lines a script is made of
    SizeModulus,     \* SIZE_MAX + 1
    MaxLines,        \* bound of the model: lines of a script
    MaxAllocated     \* bound of the model: size of assign[] from which no run starts

Operand == Variables \cup Values

Condition ==
    [op : {"greater", "less", "equals", "empty"}, negate : BOOLEAN, a : Operand, b : Operand]

Assign  == [op : {"assign"}, display : Displays, frame : Frames, window : Windows]
Layout  == [op : {"layout"}, display : Displays, layout : Layouts]
Default == [op : {"default"}, display : Displays]
Skip    == [op : {"skip"}, count : Skips]
Done    == [op : {"done"}]

Statement == Assign \cup Layout \cup Default \cup Skip \cup Done
Operation == Statement \cup Condition

ASSUME NameAssumption ==
    /\ NoWindow \notin Windows
    /\ NoLayout \notin Layouts
    /\ DefaultLayout \in [Displays -> Layouts \cup {NoLayout}]

ASSUME ValueAssumption ==
    /\ Variables \cap Values = {}
    /\ Reading \in [Values -> Int]
    /\ EmptyValue \in Values

ASSUME LineAssumption ==
    Lines \subseteq {<<s>> : s \in Statement}
                    \cup {<<c, s>> : c \in Condition, s \in Statement}

\* No script and no skip is so long that the index wraps around.
ASSUME BoundAssumption ==
    /\ SizeModulus \in Nat \ {0} /\ MaxLines \in Nat /\ MaxAllocated \in Nat
    /\ Skips \subseteq Nat \ {0}
    /\ \A n \in Skips \cup {0} : n + 2 * MaxLines + 1 < SizeModulus

VARIABLES
    lines,       \* the lines of the [automation] section
    operations,  \* operations[]
    value,       \* vars[].value
    u,           \* index of the operation to be executed, from 0
    assign,      \* the first active_assigns entries of assign[]
    nassign,     \* allocated size of assign[]
    layout,      \* display_status[].layout
    phase        \* "config", "run", or "idle" between two runs

vars == <<lines, operations, value, u, assign, nassign, layout, phase>>

Init ==
    /\ lines = <<>> /\ operations = <<>>
    /\ value \in [Variables -> Values]
    /\ u = 0
    /\ assign = <<>> /\ nassign = 0
    /\ layout = [d \in Displays |-> NoLayout]
    /\ phase = "config"

-----------------------------------------------------------------------------
(* Reading the configuration *)

ConfigLine(l) ==
    /\ phase = "config" /\ Len(lines) < MaxLines
    /\ lines' = Append(lines, l)
    /\ operations' = operations \o l
    /\ UNCHANGED <<value, u, assign, nassign, layout, phase>>

\* control_loop runs the script for the first time.
FinishConfig ==
    /\ phase = "config" /\ operations # <<>>
    /\ phase' = "run"
    /\ UNCHANGED <<lines, operations, value, u, assign, nassign, layout>>

\* Mutant: control_cleanup frees assign[] and keeps nassign.
ReloadKeepingSize ==
    /\ phase = "idle"
    /\ lines' = <<>> /\ operations' = <<>>
    /\ value' \in [Variables -> Values]
    /\ u' = 0
    /\ assign' = <<>> /\ nassign' = nassign
    /\ layout' = [d \in Displays |-> NoLayout]
    /\ phase' = "config"

\* control_cleanup, then the new configuration.
Reload ==
    /\ phase = "idle"
    /\ lines' = <<>> /\ operations' = <<>>
    /\ value' \in [Variables -> Values]
    /\ u' = 0
    /\ assign' = <<>> /\ nassign' = 0
    /\ layout' = [d \in Displays |-> NoLayout]
    /\ phase' = "config"

-----------------------------------------------------------------------------
(* A run *)

\* Mutant: the layouts of the last run are kept.
BeginKeepingLayouts ==
    /\ u' = 0
    /\ assign' = <<>>
    /\ layout' = layout
    /\ phase' = "run"

Begin ==
    /\ u' = 0
    /\ assign' = <<>>
    /\ layout' = [d \in Displays |-> NoLayout]
    /\ phase' = "run"

\* control_command changes a variable and runs the script again.
SetVariable(x, v) ==
    /\ phase = "idle" /\ value[x] # v
    /\ nassign < MaxAllocated
    /\ value' = [value EXCEPT ![x] = v]
    /\ Begin
    /\ UNCHANGED <<lines, operations, nassign>>

Current == operations[u + 1]
Running == phase = "run" /\ u < Len(operations)

\* The loop increment, after u += n.
Advance(n) == u' = (u + n + 1) % SizeModulus

Resolve(x) == IF x \in Variables THEN value[x] ELSE x

Compare(c) ==
    CASE c.op = "greater" -> Reading[Resolve(c.a)] > Reading[Resolve(c.b)]
      [] c.op = "less"    -> Reading[Resolve(c.a)] < Reading[Resolve(c.b)]
      [] c.op = "equals"  -> Resolve(c.a) = Resolve(c.b)
      [] c.op = "empty"   -> Resolve(c.a) = EmptyValue

Holds(c) == Compare(c) # c.negate

\* A condition that does not hold skips the next operation.
Test ==
    /\ Running /\ Current \in Condition
    /\ Advance(IF Holds(Current) THEN 0 ELSE 1)
    /\ UNCHANGED <<lines, operations, value, assign, nassign, layout, phase>>

\* Mutant: u = n in place of u += n.
SkipTo ==
    /\ Running /\ Current \in Skip
    /\ u' = Current.count + 1
    /\ UNCHANGED <<lines, operations, value, assign, nassign, layout, phase>>

SkipAhead ==
    /\ Running /\ Current \in Skip
    /\ Advance(Current.count)
    /\ UNCHANGED <<lines, operations, value, assign, nassign, layout, phase>>

SetLayout ==
    /\ Running /\ Current \in Layout \cup Default
    /\ layout' = [layout EXCEPT ![Current.display] =
                     IF Current \in Layout THEN Current.layout
                     ELSE DefaultLayout[Current.display]]
    /\ Advance(0)
    /\ UNCHANGED <<lines, operations, value, assign, nassign, phase>>

SameSlot(e, f) == e.display = f.display /\ e.frame = f.frame

\* Mutant: the search stops at the entry of the frame.
InvalidatedBefore(o) ==
    [p \in DOMAIN assign |->
        IF SameSlot(assign[p], o) THEN [assign[p] EXCEPT !.requested = o.window]
        ELSE IF assign[p].requested = o.window /\ \A q \in 1..p : ~SameSlot(assign[q], o)
             THEN [assign[p] EXCEPT !.requested = NoWindow]
             ELSE assign[p]]

\* The entries once o took its frame from another window and its window from
\* another frame.
Invalidated(o) ==
    [p \in DOMAIN assign |->
        IF SameSlot(assign[p], o) THEN [assign[p] EXCEPT !.requested = o.window]
        ELSE IF assign[p].requested = o.window
             THEN [assign[p] EXCEPT !.requested = NoWindow]
             ELSE assign[p]]

Replace ==
    /\ Running /\ Current \in Assign
    /\ \E p \in DOMAIN assign : SameSlot(assign[p], Current)
    /\ assign' = Invalidated(Current)
    /\ Advance(0)
    /\ UNCHANGED <<lines, operations, value, nassign, layout, phase>>

\* Mutant: the bound of the reallocation is one too low.
NeedsRoomLate == Len(assign) < nassign

NeedsRoom == Len(assign) <= nassign

Register ==
    /\ Running /\ Current \in Assign
    /\ \A p \in DOMAIN assign : ~SameSlot(assign[p], Current)
    /\ assign' = Append(Invalidated(Current),
                        [display |-> Current.display, frame |-> Current.frame,
                         requested |-> Current.window])
    /\ nassign' = IF NeedsRoom THEN nassign + 1 ELSE nassign
    /\ Advance(0)
    /\ UNCHANGED <<lines, operations, value, layout, phase>>

\* op_stop, or the end of the operations
Stop ==
    /\ phase = "run"
    /\ Running => Current \in Done
    /\ phase' = "idle"
    /\ UNCHANGED <<lines, operations, value, u, assign, nassign, layout>>

Interpret == Test \/ SkipAhead \/ SetLayout \/ Replace \/ Register \/ Stop

Next ==
    \/ \E l \in Lines : ConfigLine(l)
    \/ FinishConfig \/ Reload
    \/ \E x \in Variables, v \in Values : SetVariable(x, v)
    \/ Interpret

Spec == Init /\ [][Next]_vars

\* control_run_automation is called and returns without waiting for anything.
FairSpec == Spec /\ WF_vars(Interpret)

-----------------------------------------------------------------------------
(* What the run hands to the part that applies it, and to ChildTable *)

InForce == {p \in DOMAIN assign : assign[p].requested # NoWindow}

Requests ==
    {[display |-> assign[p].display, frame |-> assign[p].frame, window |-> assign[p].requested] :
        p \in InForce}

(* What the README says a script means, line by line *)

Body(i) == lines[i][Len(lines[i])]
Met(i)  == Len(lines[i]) = 2 => Holds(lines[i][1])

\* Line j comes after line i.
Follows(j, i) ==
    IF Met(i) /\ Body(i) \in Skip THEN j = i + 1 + Body(i).count
    ELSE ~(Met(i) /\ Body(i) \in Done) /\ j = i + 1

\* The lines a run comes to: the first, and with each the one that comes after it.
Reached ==
    {i \in DOMAIN lines :
        \A S \in SUBSET DOMAIN lines :
            1 \in S /\ (\A k \in S, j \in DOMAIN lines : Follows(j, k) => j \in S) => i \in S}

Executed == {i \in Reached : Met(i) /\ Body(i) \notin Skip \cup Done}

\* "later assign calls overwrite earlier ones referring to the same display/frame
\* combination or window"
Overwrites(j, i) ==
    j > i /\ (SameSlot(Body(j), Body(i)) \/ Body(j).window = Body(i).window)

\* What lines that are executed request.
Requested(executed) ==
    LET assigning == {i \in executed : Body(i) \in Assign} IN
    {[display |-> Body(i).display, frame |-> Body(i).frame, window |-> Body(i).window] :
        i \in {k \in assigning : \A j \in assigning : ~Overwrites(j, k)}}

\* "the last default/layout instruction decides the final layout"
Decided(executed, d) ==
    LET set == {i \in executed : Body(i) \in Layout \cup Default /\ Body(i).display = d}
        last == CHOOSE i \in set : \A j \in set : j <= i
    IN  CASE set = {} -> NoLayout
          [] set # {} /\ Body(last) \in Layout -> Body(last).layout
          [] OTHER -> DefaultLayout[d]

\* No skip counts past an `if`.
SkipsArePlain ==
    \A i, j \in DOMAIN lines :
        Body(i) \in Skip /\ i < j /\ j <= i + Body(i).count => Len(lines[j]) = 1

-----------------------------------------------------------------------------
(* Properties *)

TypeOK ==
    /\ lines \in Seq(Lines)
    /\ operations \in Seq(Operation)
    /\ value \in [Variables -> Values]
    /\ u \in Nat
    /\ assign \in Seq([display : Displays, frame : Frames, requested : Windows \cup {NoWindow}])
    /\ nassign \in Nat
    /\ layout \in [Displays -> Layouts \cup {NoLayout}]
    /\ phase \in {"config", "run", "idle"}
    /\ phase = "config" => assign = <<>> /\ nassign = 0

\* After any sequence of assigns, no frame has two entries and no window two
\* requests: the part that applies them would otherwise start, move and stop the
\* same window within one run, or show one of two at random.
EntriesAreDistinct ==
    \A p, q \in DOMAIN assign : p # q =>
        /\ ~SameSlot(assign[p], assign[q])
        /\ p \in InForce => assign[p].requested # assign[q].requested

\* Every entry written lies inside the array, whatever earlier runs allocated.
EntriesAreAllocated == Len(assign) <= nassign

AsDocumented ==
    /\ Requests = Requested(Executed)
    /\ \A d \in Displays : layout[d] = Decided(Executed, d)

\* The outcome of a run is the one the README gives the script, for scripts in
\* which no skip counts past an `if`.  One that does is not followed: skip counts operations,
\* of which an `if` has two (control.c:446), the README has it count instructions.
ScriptIsFollowed == phase = "idle" /\ SkipsArePlain => AsDocumented

\* A run comes to its end: no skip leads back.
RunEnds == phase = "run" ~> phase = "idle"

=============================================================================
