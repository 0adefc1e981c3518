-------------------------- MODULE ChildTableProofs --------------------------
(***************************************************************************)
(* Theorems about ChildTable, for every set of commands and windows, every *)
(* number of displays and frames and every automation script.              *)
(***************************************************************************)
EXTENDS ChildTable, FiniteSetTheorems, TLAPS

USE ChildrenAssumption, DisplayAssumption, OutcomeAssumption, BoundAssumption

LEMMA ChildSets ==
    /\ Startable \subseteq Children /\ Commands \subseteq Startable
    /\ Tools \subseteq Startable /\ Windows \subseteq Startable
    /\ Ondemand \subseteq Windows /\ Keepalive \subseteq Windows
    /\ Visible \subseteq Children /\ Repatriated \subseteq Children
    /\ Windows \cap Commands = {} /\ Tools \cap Commands = {}
    /\ Repatriated \cap Startable = {}
BY DEF Startable, Children

\* The ranks are integers: a set of children has a number of elements.
LEMMA RankType ==
    ASSUME TypeOK, NEW S \in SUBSET Children
    PROVE  Lowered(S) \in [Children -> Int]
<1>1. ASSUME NEW c \in Children PROVE Below(c, S) \in Nat
  <2>1. {x \in S : 0 < order[x] /\ order[x] < order[c]} \in SUBSET Children
    OBVIOUS
  <2>. QED BY <2>1, FS_Subset, FS_CardinalityType DEF Below
<1>. QED BY <1>1 DEF Lowered, TypeOK

LEMMA RaisedType ==
    ASSUME TypeOK, NEW c \in Children
    PROVE  Raised(c) \in [Children -> Int]
<1>1. OthersStacked(c) \in SUBSET Children
  BY DEF OthersStacked
<1>2. Cardinality(OthersStacked(c)) \in Nat
  BY <1>1, FS_Subset, FS_CardinalityType
<1>. QED BY <1>2, RankType DEF Raised

\* What child_start leaves is typed.
LEMMA StartType ==
    ASSUME TypeOK, NEW c \in Startable, NEW d \in Displays,
           NEW f \in Frames \cup {NoFrame}, NEW full \in BOOLEAN, Start(c, d, f, full)
    PROVE  /\ state' \in [Children -> {"stopped", "running", "terminated"}]
           /\ proc' \in [Children -> ProcStates]
           /\ display' \in [Children -> Displays]
           /\ frame' \in [Children -> Frames \cup {NoFrame}]
           /\ order' \in [Children -> Int]
           /\ tries' \in [Windows -> Nat]
           /\ busy' \in [Displays -> Nat]
           /\ onlys' \in [Displays -> Nat]
<1>. USE ChildSets
<1>1. order' \in [Children -> Int]
  BY RaisedType DEF Start
<1>2. tries' \in [Windows -> Nat]
  BY DEF Start, Counted, TypeOK
<1>3. onlys' \in [Displays -> Nat]
  BY DEF Start, TypeOK
<1>4. /\ state' \in [Children -> {"stopped", "running", "terminated"}]
      /\ proc' \in [Children -> ProcStates]
      /\ busy' \in [Displays -> Nat]
  <2>1. CASE Fork(c, d)
    <3>1. c \in Children
      OBVIOUS
    <3>2. state' \in [Children -> {"stopped", "running", "terminated"}]
      BY <2>1, <3>1 DEF Fork, TypeOK
    <3>3. proc' \in [Children -> ProcStates]
      BY <2>1, <3>1 DEF Fork, TypeOK, ProcStates
    <3>4. busy' \in [Displays -> Nat]
      BY <2>1 DEF Fork, TypeOK
    <3>. QED BY <3>2, <3>3, <3>4
  <2>2. CASE ForkFails
    BY <2>2 DEF ForkFails, TypeOK
  <2>. QED BY <2>1, <2>2 DEF Start
<1>5. /\ display' \in [Children -> Displays]
      /\ frame' \in [Children -> Frames \cup {NoFrame}]
  BY DEF Start, TypeOK
<1>. QED BY <1>1, <1>2, <1>3, <1>4, <1>5

\* What child_stop leaves is typed.
LEMMA TerminateType ==
    ASSUME TypeOK, NEW S \in SUBSET Children, Terminate(S)
    PROVE  /\ state' \in [Children -> {"stopped", "running", "terminated"}]
           /\ proc' \in [Children -> ProcStates]
           /\ order' \in [Children -> Int]
<1>1. order' \in [Children -> Int]
  BY RankType DEF Terminate
<1>2. ASSUME NEW c \in Children, NEW early PROVE Signalled(c, early) \in ProcStates
  BY DEF Signalled, TypeOK, ProcStates
<1>3. proc' \in [Children -> ProcStates]
  <2>1. PICK early : proc' = [c \in Children |-> IF c \in S THEN Signalled(c, early) ELSE proc[c]]
    BY DEF Terminate
  <2>. QED BY <1>2, <2>1 DEF TypeOK
<1>4. state' \in [Children -> {"stopped", "running", "terminated"}]
  BY DEF Terminate, TypeOK
<1>. QED BY <1>1, <1>3, <1>4

LEMMA StopType ==
    ASSUME TypeOK, NEW S \in SUBSET Children, Stop(S)
    PROVE  /\ state' \in [Children -> {"stopped", "running", "terminated"}]
           /\ proc' \in [Children -> ProcStates]
           /\ order' \in [Children -> Int]
           /\ tries' \in [Windows -> Nat]
BY TerminateType DEF Stop, TypeOK

\* What x11_activate_layout leaves is typed.
LEMMA ActivateType ==
    ASSUME TypeOK, NEW D \in SUBSET Displays, Activate(D)
    PROVE  /\ onlys' \in [Displays -> Nat]
           /\ current' \in [Displays -> BOOLEAN]
           /\ restore' \in [Commands -> BOOLEAN]
BY DEF Activate, TypeOK

\* The assignment at hand, and what is left when it is dealt with.
LEMMA HeadType ==
    ASSUME TypeOK, todo # <<>>
    PROVE  /\ Head(todo) \in Assignment /\ Tail(todo) \in Seq(Assignment)
           /\ Head(todo).window \in Windows /\ Head(todo).display \in Displays
           /\ Head(todo).frame \in Frames
<1>1. Head(todo) \in Assignment /\ Tail(todo) \in Seq(Assignment)
  BY DEF TypeOK
<1>. QED BY <1>1 DEF Assignment

LEMMA NextAssignmentType ==
    ASSUME TypeOK, todo # <<>>, NEW s \in {"ready", "busy", "waiting"}, NextAssignment(s)
    PROVE  /\ todo' \in Seq(Assignment)
           /\ status' \in [Displays -> {"ready", "busy", "waiting"}]
           /\ pc' = "apply"
BY HeadType DEF NextAssignment, TypeOK

LEMMA StatusType ==
    ASSUME TypeOK, todo # <<>>
    PROVE  status[Head(todo).display] \in {"ready", "busy", "waiting"}
BY HeadType DEF TypeOK

LEMMA InitType == Init => TypeOK
<1>. SUFFICES ASSUME Init PROVE TypeOK
  OBVIOUS
<1>. USE ChildSets DEF Init
<1>1. /\ state \in [Children -> {"stopped", "running", "terminated"}]
      /\ proc \in [Children -> ProcStates]
      /\ display \in [Children -> Displays]
      /\ frame \in [Children -> Frames \cup {NoFrame}]
      /\ order \in [Children -> Int]
  BY DEF InitialState, Places, InitialDisplay, InitialFrame, ProcStates
<1>2. /\ tries \in [Windows -> Nat]
      /\ restore \in [Commands -> BOOLEAN]
      /\ live \in [Children -> SUBSET Displays]
      /\ ghost \in [Children -> BOOLEAN]
  BY DEF Places, InitialLive
<1>3. /\ busy \in [Displays -> Nat]
      /\ onlys \in [Displays -> Nat]
      /\ current \in [Displays -> BOOLEAN]
      /\ status \in [Displays -> {"ready", "busy", "waiting"}]
  BY DEF InitialStatus
<1>4. /\ outcome \in Outcomes /\ auto \in BOOLEAN
      /\ pc \in {"init", "idle", "reap", "script", "apply", "place", "cleanup", "down"}
      /\ ret \in {"idle", "reap"}
      /\ closing \in {"no", "reload", "exit"}
      /\ pending \subseteq Keepalive
  OBVIOUS
<1>5. todo \in Seq(Assignment)
  OBVIOUS
<1>6. pc # "place"
  OBVIOUS
<1>. QED BY <1>1, <1>2, <1>3, <1>4, <1>5, <1>6 DEF TypeOK

LEMMA NextType == TypeOK /\ [Next]_vars => TypeOK'
<1>. SUFFICES ASSUME TypeOK, [Next]_vars PROVE TypeOK'
  OBVIOUS
<1>. USE ChildSets DEF table, x11, wm, run, ctl, vars
<1>1. ASSUME NEW w \in Windows, StartKeepalive(w) PROVE TypeOK'
  BY <1>1, StartType DEF StartKeepalive, TypeOK
<1>2. CASE FinishInit
  BY <1>2 DEF FinishInit, TypeOK
<1>3. ASSUME NEW c \in Commands, NEW d \in Displays, NEW f \in Frames \cup {NoFrame}, NEW full \in BOOLEAN,
              StartCommand(c, d, f, full) PROVE TypeOK'
  BY <1>3, StartType DEF StartCommand, NewFrame, Fullscreen, TypeOK
<1>4. ASSUME NEW c \in Commands, NEW d \in Displays, NEW f \in Frames \cup {NoFrame}, NEW full \in BOOLEAN,
              RejectCommand(c, d, f, full) PROVE TypeOK'
  BY <1>4 DEF RejectCommand, NewFrame, Fullscreen, TypeOK
<1>5. ASSUME NEW c \in Tools, StartTool(c) PROVE TypeOK'
  BY <1>5, StartType DEF StartTool, TypeOK
<1>6. ASSUME NEW c \in Commands \cup Tools, StopCommand(c) PROVE TypeOK'
  <2>1. Stop({c}) /\ {c} \in SUBSET Children
    BY <1>6 DEF StopCommand
  <2>2. /\ state' \in [Children -> {"stopped", "running", "terminated"}]
        /\ proc' \in [Children -> ProcStates]
        /\ order' \in [Children -> Int]
        /\ tries' \in [Windows -> Nat]
    BY <2>1, StopType
  <2>. QED BY <1>6, <2>2 DEF StopCommand, TypeOK
<1>7. ASSUME NEW c \in Commands, NEW f \in Frames, MoveCommand(c, f) PROVE TypeOK'
  <2>1. c \in Children /\ display[c] \in Displays
    BY DEF TypeOK
  <2>2. order' \in [Children -> Int] /\ frame' \in [Children -> Frames \cup {NoFrame}]
    BY <1>7, <2>1, RaisedType DEF MoveCommand, TypeOK
  <2>3. /\ onlys' \in [Displays -> Nat]
        /\ current' \in [Displays -> BOOLEAN]
        /\ restore' \in [Commands -> BOOLEAN]
    <3>1. CASE Activate({display[c]})
      BY <2>1, <3>1, ActivateType
    <3>2. CASE UNCHANGED <<wm, restore>>
      BY <3>2 DEF TypeOK
    <3>. QED BY <1>7, <3>1, <3>2 DEF MoveCommand
  <2>. QED BY <1>7, <2>2, <2>3 DEF MoveCommand, TypeOK
<1>8. ASSUME NEW d \in Displays, ActivateLayout(d) PROVE TypeOK'
  BY <1>8, ActivateType DEF ActivateLayout, TypeOK
<1>9. CASE Reset
  <2>1. Terminate({c \in Commands : Active(c)}) /\ {c \in Commands : Active(c)} \in SUBSET Children
    BY <1>9 DEF Reset
  <2>2. /\ state' \in [Children -> {"stopped", "running", "terminated"}]
        /\ proc' \in [Children -> ProcStates]
        /\ order' \in [Children -> Int]
    BY <2>1, TerminateType
  <2>3. /\ tries' \in [Windows -> Nat] /\ restore' \in [Commands -> BOOLEAN]
        /\ onlys' \in [Displays -> Nat] /\ current' \in [Displays -> BOOLEAN]
    BY <1>9 DEF Reset, TypeOK
  <2>4. pc' \in {"idle", "script"} /\ ret' = "idle"
    BY <1>9 DEF Reset, RunAutomation
  <2>5. UNCHANGED <<display, frame, live, ghost, busy, outcome, todo, status, pending, closing, auto>>
    BY <1>9 DEF Reset
  <2>. QED BY <2>2, <2>3, <2>4, <2>5 DEF TypeOK
<1>10. ASSUME NEW o \in Outcomes, SetVariable(o) PROVE TypeOK'
  BY <1>10 DEF SetVariable, RunAutomation, TypeOK
<1>11. ASSUME NEW c \in Visible, WindowMapped(c) PROVE TypeOK'
  BY <1>11 DEF WindowMapped, RunIfAutomated, RunAutomation, TypeOK
<1>12. ASSUME NEW c \in Children, NEW d \in Displays, WindowDestroyed(c, d) PROVE TypeOK'
  BY <1>12 DEF WindowDestroyed, TypeOK
<1>13. CASE BeginReap
  BY <1>13 DEF BeginReap, TypeOK
<1>14. ASSUME NEW next \in Closings, BeginCleanup(next) PROVE TypeOK'
  BY <1>14 DEF BeginCleanup, TypeOK
<1>15. ASSUME NEW c \in Startable, ReapChild(c) PROVE TypeOK'
  <2>1. /\ proc' \in [Children -> ProcStates]
        /\ state' \in [Children -> {"stopped", "running", "terminated"}]
    BY <1>15 DEF ReapChild, ProcStates, TypeOK
  <2>2. /\ busy' \in [Displays -> Nat] /\ onlys' \in [Displays -> Nat]
        /\ frame' \in [Children -> Frames \cup {NoFrame}]
        /\ restore' \in [Commands -> BOOLEAN]
    <3>1. CASE c \in Commands
      <4>1. display[c] \in Displays
        BY <3>1 DEF TypeOK
      <4>2. Unlocked(c) \in [Displays -> Nat] /\ Undone(c) \in [Displays -> Nat]
        BY <4>1 DEF Unlocked, Undone, TypeOK
      <4>3. frame' = [frame EXCEPT ![c] = NoFrame] /\ restore' = [restore EXCEPT ![c] = FALSE]
        BY <1>15, <3>1 DEF ReapChild, Release
      <4>4. busy' = Unlocked(c) /\ (onlys' = Undone(c) \/ onlys' = onlys)
        BY <1>15, <3>1 DEF ReapChild, Release
      <4>. QED BY <4>2, <4>3, <4>4 DEF TypeOK
    <3>2. CASE c \notin Commands
      BY <1>15, <3>2 DEF ReapChild, TypeOK
    <3>. QED BY <3>1, <3>2
  <2>3. pc' \in {"script", "reap"} /\ ret' = "reap"
    BY <1>15 DEF ReapChild, RunAutomation
  <2>. QED BY <1>15, <2>1, <2>2, <2>3 DEF ReapChild, TypeOK
<1>16. CASE EndReap
  BY <1>16 DEF EndReap, TypeOK
<1>17. CASE Script
  BY <1>17 DEF Script, Ready, TypeOK
<1>18. CASE SkipBusy
  BY <1>18, NextAssignmentType DEF SkipBusy, TypeOK
<1>19. CASE Evict
  BY <1>19, StopType DEF Evict, Evicted, TypeOK
<1>20. CASE GiveUp
  BY <1>20, StatusType, NextAssignmentType DEF GiveUp, TypeOK
<1>21. CASE StartWindow
  <2>1. todo # <<>>
    BY <1>21 DEF StartWindow, TypeOK
  <2>2. Start(Head(todo).window, Head(todo).display, Head(todo).frame, FALSE)
    BY <1>21 DEF StartWindow
  <2>3. /\ Head(todo).window \in Startable /\ Head(todo).display \in Displays
        /\ Head(todo).frame \in Frames \cup {NoFrame}
    BY <2>1, HeadType
  <2>4. /\ state' \in [Children -> {"stopped", "running", "terminated"}]
        /\ proc' \in [Children -> ProcStates]
        /\ display' \in [Children -> Displays]
        /\ frame' \in [Children -> Frames \cup {NoFrame}]
        /\ order' \in [Children -> Int]
        /\ tries' \in [Windows -> Nat]
        /\ busy' \in [Displays -> Nat]
        /\ onlys' \in [Displays -> Nat]
    BY <2>2, <2>3, StartType
  <2>5. /\ todo' \in Seq(Assignment)
        /\ status' \in [Displays -> {"ready", "busy", "waiting"}]
        /\ pc' = "apply"
    BY <1>21, <2>1, NextAssignmentType DEF StartWindow
  <2>. QED BY <1>21, <2>4, <2>5 DEF StartWindow, TypeOK
<1>22. CASE StopMovedWindow
  <2>1. todo # <<>>
    BY <1>22 DEF StopMovedWindow, TypeOK
  <2>2. Stop({Head(todo).window})
    BY <1>22 DEF StopMovedWindow
  <2>3. {Head(todo).window} \in SUBSET Children
    BY <2>1, HeadType
  <2>4. /\ state' \in [Children -> {"stopped", "running", "terminated"}]
        /\ proc' \in [Children -> ProcStates]
        /\ order' \in [Children -> Int]
        /\ tries' \in [Windows -> Nat]
    BY <2>2, <2>3, StopType
  <2>5. /\ todo' \in Seq(Assignment)
        /\ status' \in [Displays -> {"ready", "busy", "waiting"}]
        /\ pc' = "apply"
    BY <1>22, <2>1, NextAssignmentType DEF StopMovedWindow
  <2>. QED BY <1>22, <2>4, <2>5 DEF StopMovedWindow, TypeOK
<1>23. CASE AwaitWindow
  BY <1>23, NextAssignmentType DEF AwaitWindow, TypeOK
<1>24. CASE RaiseWindow
  BY <1>24, HeadType, StatusType, RaisedType, NextAssignmentType DEF RaiseWindow, TypeOK
<1>25. CASE ApplyLayouts
  BY <1>25, ActivateType DEF ApplyLayouts, Complete, InitialStatus, TypeOK
<1>26. CASE CleanupRound
  BY <1>26, StopType DEF CleanupRound, TypeOK
<1>27. CASE FinishExit
  BY <1>27 DEF FinishExit, TypeOK
<1>28. CASE FinishReload
  BY <1>28 DEF FinishReload, InitialState, Places, InitialDisplay, InitialFrame, InitialLive, TypeOK
<1>29. ASSUME NEW c \in Startable, Exec(c) \/ Exit(c) \/ Killed(c) PROVE TypeOK'
  <2>1. proc' \in [Children -> ProcStates]
    <3>1. PICK p \in ProcStates : proc' = [proc EXCEPT ![c] = p]
      BY <1>29 DEF Exec, Exit, Killed, ProcStep, ProcStates
    <3>. QED BY <3>1 DEF TypeOK
  <2>2. UNCHANGED <<state, display, frame, order, tries, restore, x11, busy, wm, outcome, run, ctl>>
    BY <1>29 DEF Exec, Exit, Killed, ProcStep
  <2>. QED BY <2>1, <2>2 DEF TypeOK
<1>30. CASE UNCHANGED vars
  BY <1>30 DEF TypeOK
<1>. QED BY <1>1, <1>2, <1>3, <1>4, <1>5, <1>6, <1>7, <1>8, <1>9, <1>10, <1>11, <1>12, <1>13, <1>14, <1>15, <1>16, <1>17, <1>18, <1>19, <1>20, <1>21, <1>22, <1>23, <1>24, <1>25, <1>26, <1>27, <1>28, <1>29, <1>30
   DEF Next, Request, Event, Continue, Process, Down

-----------------------------------------------------------------------------
(* Startup *)

\* Needed because control_loop starts the keepalive windows without a look at
\* their state: until it does, they are stopped.
PendingStopped == pc = "init" => \A w \in pending : state[w] = "stopped"

LEMMA InitPendingStopped == Init => PendingStopped
BY ChildSets DEF Init, PendingStopped, InitialState

LEMMA NextPendingStopped ==
    ASSUME TypeOK, PendingStopped, [Next]_vars
    PROVE  PendingStopped'
<1>. USE ChildSets DEF table, x11, wm, run, ctl, vars, PendingStopped
<1>1. ASSUME NEW w \in Windows, StartKeepalive(w) PROVE PendingStopped'
  BY <1>1 DEF StartKeepalive, Start, Fork, ForkFails, TypeOK
<1>2. CASE FinishInit
  BY <1>2 DEF FinishInit, TypeOK
<1>3. ASSUME NEW c \in Commands, NEW d \in Displays, NEW f \in Frames \cup {NoFrame}, NEW full \in BOOLEAN,
              StartCommand(c, d, f, full) PROVE PendingStopped'
  BY <1>3 DEF StartCommand, TypeOK
<1>4. ASSUME NEW c \in Commands, NEW d \in Displays, NEW f \in Frames \cup {NoFrame}, NEW full \in BOOLEAN,
              RejectCommand(c, d, f, full) PROVE PendingStopped'
  BY <1>4 DEF RejectCommand, TypeOK
<1>5. ASSUME NEW c \in Tools, StartTool(c) PROVE PendingStopped'
  BY <1>5 DEF StartTool, TypeOK
<1>6. ASSUME NEW c \in Commands \cup Tools, StopCommand(c) PROVE PendingStopped'
  BY <1>6 DEF StopCommand, TypeOK
<1>7. ASSUME NEW c \in Commands, NEW f \in Frames, MoveCommand(c, f) PROVE PendingStopped'
  BY <1>7 DEF MoveCommand, TypeOK
<1>8. ASSUME NEW d \in Displays, ActivateLayout(d) PROVE PendingStopped'
  BY <1>8 DEF ActivateLayout, TypeOK
<1>9. CASE Reset
  BY <1>9 DEF Reset, RunAutomation, TypeOK
<1>10. ASSUME NEW o \in Outcomes, SetVariable(o) PROVE PendingStopped'
  BY <1>10 DEF SetVariable, RunAutomation, TypeOK
<1>11. ASSUME NEW c \in Visible, WindowMapped(c) PROVE PendingStopped'
  BY <1>11 DEF WindowMapped, RunIfAutomated, RunAutomation, TypeOK
<1>12. ASSUME NEW c \in Children, NEW d \in Displays, WindowDestroyed(c, d) PROVE PendingStopped'
  BY <1>12 DEF WindowDestroyed, TypeOK
<1>13. CASE BeginReap
  BY <1>13 DEF BeginReap, TypeOK
<1>14. ASSUME NEW next \in Closings, BeginCleanup(next) PROVE PendingStopped'
  BY <1>14 DEF BeginCleanup, TypeOK
<1>15. ASSUME NEW c \in Startable, ReapChild(c) PROVE PendingStopped'
  BY <1>15 DEF ReapChild, RunAutomation, TypeOK
<1>16. CASE EndReap
  BY <1>16 DEF EndReap, TypeOK
<1>17. CASE Script
  BY <1>17 DEF Script, TypeOK
<1>18. CASE SkipBusy
  BY <1>18 DEF SkipBusy, NextAssignment, TypeOK
<1>19. CASE Evict
  BY <1>19 DEF Evict, TypeOK
<1>20. CASE GiveUp
  BY <1>20 DEF GiveUp, NextAssignment, TypeOK
<1>21. CASE StartWindow
  BY <1>21 DEF StartWindow, NextAssignment, TypeOK
<1>22. CASE StopMovedWindow
  BY <1>22 DEF StopMovedWindow, NextAssignment, TypeOK
<1>23. CASE AwaitWindow
  BY <1>23 DEF AwaitWindow, NextAssignment, TypeOK
<1>24. CASE RaiseWindow
  BY <1>24 DEF RaiseWindow, NextAssignment, TypeOK
<1>25. CASE ApplyLayouts
  BY <1>25 DEF ApplyLayouts, TypeOK
<1>26. CASE CleanupRound
  BY <1>26 DEF CleanupRound, TypeOK
<1>27. CASE FinishExit
  BY <1>27 DEF FinishExit, TypeOK
<1>28. CASE FinishReload
  BY <1>28 DEF FinishReload, InitialState, TypeOK
<1>29. ASSUME NEW c \in Startable, Exec(c) \/ Exit(c) \/ Killed(c) PROVE PendingStopped'
  BY <1>29 DEF Exec, Exit, Killed, ProcStep, TypeOK
<1>30. CASE UNCHANGED vars
  BY <1>30 DEF TypeOK
<1>. QED BY <1>1, <1>2, <1>3, <1>4, <1>5, <1>6, <1>7, <1>8, <1>9, <1>10, <1>11, <1>12, <1>13, <1>14, <1>15, <1>16, <1>17, <1>18, <1>19, <1>20, <1>21, <1>22, <1>23, <1>24, <1>25, <1>26, <1>27, <1>28, <1>29, <1>30
   DEF Next, Request, Event, Continue, Process, Down

-----------------------------------------------------------------------------
(* What a step can do to the children *)

Keeps ==
    /\ UNCHANGED <<state, proc, busy>>
    /\ \A c \in Commands : Active(c) => display'[c] = display[c]
    /\ order' = order \/ \E c \in Children : order' = Raised(c)

Starts ==
    \E c \in Startable, d \in Displays, f \in Frames \cup {NoFrame}, full \in BOOLEAN :
        ~Active(c) /\ Start(c, d, f, full)

Terminates ==
    \E S \in SUBSET Children :
        (\A c \in S : Active(c)) /\ Terminate(S) /\ UNCHANGED <<display, busy>>

LEMMA StepKinds ==
    ASSUME TypeOK, PendingStopped, [Next]_vars
    PROVE  \/ Keeps \/ Starts \/ Terminates \/ FinishReload
           \/ \E c \in Startable : ReapChild(c) \/ Exec(c) \/ Exit(c) \/ Killed(c)
<1>. DEFINE Kinds == \/ Keeps \/ Starts \/ Terminates \/ FinishReload
                     \/ \E c \in Startable : ReapChild(c) \/ Exec(c) \/ Exit(c) \/ Killed(c)
<1>. SUFFICES Kinds
  OBVIOUS
<1>. USE ChildSets DEF table, x11, wm, run, ctl, vars
<1>1. ASSUME NEW w \in Windows, StartKeepalive(w) PROVE Kinds
  <2>1. ~Active(w)
    BY <1>1 DEF StartKeepalive, PendingStopped, Active
  <2>. QED BY <1>1, <2>1 DEF StartKeepalive, Starts
<1>2. CASE FinishInit
  BY <1>2 DEF FinishInit, Keeps
<1>3. ASSUME NEW c \in Commands, NEW d \in Displays, NEW f \in Frames \cup {NoFrame}, NEW full \in BOOLEAN,
              StartCommand(c, d, f, full) PROVE Kinds
  <2>1. NewFrame(c, f) \in Frames \cup {NoFrame} /\ Fullscreen(c, full) \in BOOLEAN
    BY DEF NewFrame, Fullscreen, TypeOK
  <2>. QED BY <1>3, <2>1 DEF StartCommand, Starts
<1>4. ASSUME NEW c \in Commands, NEW d \in Displays, NEW f \in Frames \cup {NoFrame}, NEW full \in BOOLEAN,
              RejectCommand(c, d, f, full) PROVE Kinds
  BY <1>4 DEF RejectCommand, Keeps, TypeOK
<1>5. ASSUME NEW c \in Tools, StartTool(c) PROVE Kinds
  BY <1>5 DEF StartTool, Starts, TypeOK
<1>6. ASSUME NEW c \in Commands \cup Tools, StopCommand(c) PROVE Kinds
  <2>1. {c} \in SUBSET Children /\ \A x \in {c} : Active(x)
    BY <1>6 DEF StopCommand
  <2>. QED BY <1>6, <2>1 DEF StopCommand, Stop, Terminates
<1>7. ASSUME NEW c \in Commands, NEW f \in Frames, MoveCommand(c, f) PROVE Kinds
  BY <1>7 DEF MoveCommand, Keeps
<1>8. ASSUME NEW d \in Displays, ActivateLayout(d) PROVE Kinds
  BY <1>8 DEF ActivateLayout, Keeps
<1>9. CASE Reset
  <2>1. {c \in Commands : Active(c)} \in SUBSET Children
    OBVIOUS
  <2>. QED BY <1>9, <2>1 DEF Reset, Terminates
<1>10. ASSUME NEW o \in Outcomes, SetVariable(o) PROVE Kinds
  BY <1>10 DEF SetVariable, Keeps
<1>11. ASSUME NEW c \in Visible, WindowMapped(c) PROVE Kinds
  BY <1>11 DEF WindowMapped, Keeps
<1>12. ASSUME NEW c \in Children, NEW d \in Displays, WindowDestroyed(c, d) PROVE Kinds
  BY <1>12 DEF WindowDestroyed, Keeps
<1>13. CASE BeginReap
  BY <1>13 DEF BeginReap, Keeps
<1>14. ASSUME NEW next \in Closings, BeginCleanup(next) PROVE Kinds
  BY <1>14 DEF BeginCleanup, Keeps
<1>15. ASSUME NEW c \in Startable, ReapChild(c) PROVE Kinds
  BY <1>15
<1>16. CASE EndReap
  BY <1>16 DEF EndReap, Keeps
<1>17. CASE Script
  BY <1>17 DEF Script, Keeps
<1>18. CASE SkipBusy
  BY <1>18 DEF SkipBusy, Keeps
<1>19. CASE Evict
  <2>1. Evicted(Head(todo)) \in SUBSET Children /\ \A x \in Evicted(Head(todo)) : Active(x)
    BY DEF Evicted, Occupies, Shown, Active
  <2>. QED BY <1>19, <2>1 DEF Evict, Stop, Terminates
<1>20. CASE GiveUp
  BY <1>20 DEF GiveUp, Keeps
<1>21. CASE StartWindow
  <2>1. todo # <<>>
    BY <1>21 DEF StartWindow, TypeOK
  <2>2. /\ Head(todo).window \in Startable /\ Head(todo).display \in Displays
        /\ Head(todo).frame \in Frames \cup {NoFrame}
    BY <2>1, HeadType
  <2>3. /\ ~Active(Head(todo).window)
        /\ Start(Head(todo).window, Head(todo).display, Head(todo).frame, FALSE)
    BY <1>21 DEF StartWindow
  <2>. QED BY <2>2, <2>3 DEF Starts
<1>22. CASE StopMovedWindow
  <2>1. todo # <<>>
    BY <1>22 DEF StopMovedWindow, TypeOK
  <2>2. {Head(todo).window} \in SUBSET Children
    BY <2>1, HeadType
  <2>3. \A x \in {Head(todo).window} : Active(x)
    BY <1>22 DEF StopMovedWindow
  <2>. QED BY <1>22, <2>2, <2>3 DEF StopMovedWindow, Stop, Terminates
<1>23. CASE AwaitWindow
  BY <1>23 DEF AwaitWindow, Keeps
<1>24. CASE RaiseWindow
  <2>1. Head(todo).window \in Children
    BY <1>24, HeadType DEF RaiseWindow, TypeOK
  <2>. QED BY <1>24, <2>1 DEF RaiseWindow, Keeps
<1>25. CASE ApplyLayouts
  BY <1>25 DEF ApplyLayouts, Keeps
<1>26. CASE CleanupRound
  <2>1. {c \in Children : Active(c)} \in SUBSET Children
    OBVIOUS
  <2>. QED BY <1>26, <2>1 DEF CleanupRound, Stop, Terminates
<1>27. CASE FinishExit
  BY <1>27 DEF FinishExit, Keeps
<1>28. CASE FinishReload
  BY <1>28
<1>29. ASSUME NEW c \in Startable, Exec(c) \/ Exit(c) \/ Killed(c) PROVE Kinds
  BY <1>29
<1>30. CASE UNCHANGED vars
  BY <1>30 DEF Keeps
<1>. HIDE DEF Kinds
<1>. QED BY <1>1, <1>2, <1>3, <1>4, <1>5, <1>6, <1>7, <1>8, <1>9, <1>10, <1>11, <1>12, <1>13, <1>14, <1>15, <1>16, <1>17, <1>18, <1>19, <1>20, <1>21, <1>22, <1>23, <1>24, <1>25, <1>26, <1>27, <1>28, <1>29, <1>30
   DEF Next, Request, Event, Continue, Process, Down

-----------------------------------------------------------------------------
(* An entry is stopped exactly when no process is left to be waited for *)

LEMMA InitStoppedIffReaped == Init => StoppedIffReaped
BY ChildSets DEF Init, StoppedIffReaped, InitialState

LEMMA NextStoppedIffReaped ==
    ASSUME TypeOK, PendingStopped, StoppedIffReaped, [Next]_vars
    PROVE  StoppedIffReaped'
<1>. USE ChildSets
<1>1. CASE Keeps
  BY <1>1 DEF Keeps, StoppedIffReaped
<1>2. CASE Starts
  <2>1. PICK c \in Startable, d \in Displays, f \in Frames \cup {NoFrame}, full \in BOOLEAN :
           ~Active(c) /\ Start(c, d, f, full)
    BY <1>2 DEF Starts
  <2>2. CASE Fork(c, d)
    BY <2>1, <2>2 DEF Fork, StoppedIffReaped, TypeOK
  <2>3. CASE ForkFails
    BY <2>3 DEF ForkFails, StoppedIffReaped
  <2>. QED BY <2>1, <2>2, <2>3 DEF Start
<1>3. CASE Terminates
  <2>1. PICK S \in SUBSET Children : (\A c \in S : Active(c)) /\ Terminate(S)
    BY <1>3 DEF Terminates
  <2>2. PICK early : proc' = [c \in Children |-> IF c \in S THEN Signalled(c, early) ELSE proc[c]]
    BY <2>1 DEF Terminate
  <2>3. ASSUME NEW c \in Startable
        PROVE  state'[c] = "stopped" <=> proc'[c] = "none"
    <3>1. CASE c \in S
      <4>1. state[c] # "stopped" /\ proc[c] # "none"
        BY <2>1, <3>1 DEF Active, StoppedIffReaped
      <4>2. Signalled(c, early) # "none"
        BY <4>1 DEF Signalled
      <4>3. state'[c] = "terminated"
        BY <2>1, <3>1 DEF Terminate
      <4>. QED BY <2>2, <3>1, <4>2, <4>3
    <3>2. CASE c \notin S
      BY <2>1, <2>2, <3>2 DEF Terminate, StoppedIffReaped
    <3>. QED BY <3>1, <3>2
  <2>. QED BY <2>3 DEF StoppedIffReaped
<1>4. CASE FinishReload
  BY <1>4 DEF FinishReload, InitialState, Active, StoppedIffReaped
<1>5. ASSUME NEW c \in Startable, ReapChild(c) PROVE StoppedIffReaped'
  BY <1>5 DEF ReapChild, StoppedIffReaped, TypeOK
<1>6. ASSUME NEW c \in Startable, Exec(c) \/ Exit(c) \/ Killed(c) PROVE StoppedIffReaped'
  BY <1>6 DEF Exec, Exit, Killed, ProcStep, StoppedIffReaped, TypeOK
<1>. QED BY <1>1, <1>2, <1>3, <1>4, <1>5, <1>6, StepKinds

-----------------------------------------------------------------------------
(* display_t.busy counts *)

LEMMA HoldersFinite ==
    ASSUME NEW d \in Displays
    PROVE  IsFiniteSet(Holders(d))
<1>1. Holders(d) \in SUBSET Children
  BY ChildSets DEF Holders
<1>. QED BY <1>1, FS_Subset

LEMMA InitBusyIsCounted == Init => BusyIsCounted
<1>. SUFFICES ASSUME Init, NEW d \in Displays PROVE busy[d] = Cardinality(Holders(d))
  BY DEF BusyIsCounted
<1>1. Holders(d) = {}
  BY ChildSets DEF Init, Holders, Active, InitialState
<1>. QED BY <1>1, FS_EmptySet DEF Init

LEMMA NextBusyIsCounted ==
    ASSUME TypeOK, PendingStopped, StoppedIffReaped, BusyIsCounted, [Next]_vars
    PROVE  BusyIsCounted'
<1>. USE ChildSets
<1>1. CASE Keeps
  <2>1. ASSUME NEW d \in Displays PROVE Holders(d)' = Holders(d)
    BY <1>1 DEF Keeps, Holders, Active
  <2>. QED BY <1>1, <2>1 DEF Keeps, BusyIsCounted
<1>2. CASE Starts
  <2>1. PICK c \in Startable, e \in Displays, f \in Frames \cup {NoFrame}, full \in BOOLEAN :
           ~Active(c) /\ Start(c, e, f, full)
    BY <1>2 DEF Starts
  <2>2. CASE Fork(c, e) /\ c \in Commands
    <3>1. ASSUME NEW d \in Displays PROVE busy'[d] = Cardinality(Holders(d)')
      <4>1. CASE d = e
        <5>1. Holders(d)' = Holders(d) \cup {c} /\ c \notin Holders(d)
          BY <2>1, <2>2, <4>1 DEF Start, Fork, Holders, Active, TypeOK
        <5>2. Cardinality(Holders(d) \cup {c}) = Cardinality(Holders(d)) + 1
          BY <5>1, HoldersFinite, FS_AddElement
        <5>3. busy'[d] = busy[d] + 1
          BY <2>2, <4>1 DEF Fork, TypeOK
        <5>. QED BY <5>1, <5>2, <5>3 DEF BusyIsCounted
      <4>2. CASE d # e
        <5>1. Holders(d)' = Holders(d)
          BY <2>1, <2>2, <4>2 DEF Start, Fork, Holders, Active, TypeOK
        <5>. QED BY <2>2, <4>2, <5>1 DEF Fork, BusyIsCounted, TypeOK
      <4>. QED BY <4>1, <4>2
    <3>. QED BY <3>1 DEF BusyIsCounted
  <2>3. CASE Fork(c, e) /\ c \notin Commands
    <3>1. ASSUME NEW d \in Displays PROVE Holders(d)' = Holders(d)
      BY <2>1, <2>3 DEF Start, Fork, Holders, Active, TypeOK
    <3>. QED BY <2>3, <3>1 DEF Fork, BusyIsCounted
  <2>4. CASE ForkFails
    <3>1. ASSUME NEW d \in Displays PROVE Holders(d)' = Holders(d)
      BY <2>1, <2>4 DEF Start, ForkFails, Holders, Active, TypeOK
    <3>. QED BY <2>4, <3>1 DEF ForkFails, BusyIsCounted
  <2>. QED BY <2>1, <2>2, <2>3, <2>4 DEF Start
<1>3. CASE Terminates
  <2>1. PICK S \in SUBSET Children :
           (\A c \in S : Active(c)) /\ Terminate(S) /\ UNCHANGED <<display, busy>>
    BY <1>3 DEF Terminates
  <2>2. ASSUME NEW d \in Displays PROVE Holders(d)' = Holders(d)
    BY <2>1 DEF Terminate, Holders, Active
  <2>. QED BY <2>1, <2>2 DEF BusyIsCounted
<1>4. CASE FinishReload
  <2>1. ASSUME NEW d \in Displays PROVE Holders(d)' = {}
    BY <1>4 DEF FinishReload, InitialState, Holders, Active
  <2>. QED BY <1>4, <2>1, FS_EmptySet DEF FinishReload, BusyIsCounted
<1>5. ASSUME NEW c \in Startable, ReapChild(c) PROVE BusyIsCounted'
  <2>1. Active(c) /\ ~Active(c)' /\ display' = display
    BY <1>5 DEF ReapChild, Active, StoppedIffReaped, TypeOK
  <2>2. \A x \in Commands \ {c} : Active(x)' = Active(x)
    BY <1>5 DEF ReapChild, Active, TypeOK
  <2>3. CASE c \in Commands
    <3>1. ASSUME NEW d \in Displays PROVE busy'[d] = Cardinality(Holders(d)')
      <4>1. CASE d = display[c]
        <5>1. Holders(d)' = Holders(d) \ {c} /\ c \in Holders(d)
          BY <2>1, <2>2, <2>3, <4>1 DEF Holders
        <5>2. busy[d] = Cardinality(Holders(d)) /\ busy[d] \in Nat
          BY DEF BusyIsCounted, TypeOK
        <5>3. Cardinality(Holders(d)') = busy[d] - 1 /\ busy[d] # 0
          <6>1. Cardinality(Holders(d) \ {c}) = Cardinality(Holders(d)) - 1
            BY <5>1, HoldersFinite, FS_RemoveElement
          <6>2. Cardinality(Holders(d)) # 0
            BY <5>1, HoldersFinite, FS_EmptySet
          <6>. QED BY <5>1, <5>2, <6>1, <6>2
        <5>4. busy'[d] = busy[d] - 1
          BY <1>5, <2>3, <4>1, <5>2, <5>3 DEF ReapChild, Release, Unlocked, TypeOK
        <5>. QED BY <5>3, <5>4
      <4>2. CASE d # display[c]
        <5>1. Holders(d)' = Holders(d)
          BY <2>1, <2>2, <2>3, <4>2 DEF Holders
        <5>2. busy'[d] = busy[d]
          BY <1>5, <2>3, <4>2 DEF ReapChild, Release, Unlocked, TypeOK
        <5>. QED BY <5>1, <5>2 DEF BusyIsCounted
      <4>. QED BY <4>1, <4>2
    <3>. QED BY <3>1 DEF BusyIsCounted
  <2>4. CASE c \notin Commands
    <3>1. ASSUME NEW d \in Displays PROVE Holders(d)' = Holders(d)
      BY <2>1, <2>2, <2>4 DEF Holders
    <3>. QED BY <1>5, <2>4, <3>1 DEF ReapChild, BusyIsCounted
  <2>. QED BY <2>3, <2>4
<1>6. ASSUME NEW c \in Startable, Exec(c) \/ Exit(c) \/ Killed(c) PROVE BusyIsCounted'
  <2>1. UNCHANGED <<state, display, busy>>
    BY <1>6 DEF Exec, Exit, Killed, ProcStep
  <2>2. ASSUME NEW d \in Displays PROVE Holders(d)' = Holders(d)
    BY <2>1 DEF Holders, Active
  <2>. QED BY <2>1, <2>2 DEF BusyIsCounted
<1>. QED BY <1>1, <1>2, <1>3, <1>4, <1>5, <1>6, StepKinds

-----------------------------------------------------------------------------
(* Every undo finds the only it takes back *)

\* What most steps do: on each display, no new fullscreen command and no only less,
\* or no fullscreen command left.
UndoKept ==
    \A d \in Displays :
        \/ FullscreenHolders(d)' = {}
        \/ FullscreenHolders(d)' \subseteq FullscreenHolders(d) /\ onlys'[d] >= onlys[d]

LEMMA FullscreenHoldersFinite ==
    ASSUME NEW d \in Displays
    PROVE  IsFiniteSet(FullscreenHolders(d)) /\ Cardinality(FullscreenHolders(d)) \in Nat
<1>1. FullscreenHolders(d) \in SUBSET Children
  BY ChildSets DEF FullscreenHolders, Holders
<1>. QED BY <1>1, FS_Subset, FS_CardinalityType

LEMMA StartKeepsUndo ==
    ASSUME TypeOK, NEW c \in Startable \ Commands, NEW e \in Displays, NEW f,
           Start(c, e, f, FALSE), restore' = restore
    PROVE  UndoKept
<1>. USE ChildSets
<1>1. onlys' = onlys
  BY DEF Start
<1>2. \A x \in Commands : state'[x] = state[x] /\ display'[x] = display[x]
  BY DEF Start, Fork, ForkFails, TypeOK
<1>. QED BY <1>1, <1>2 DEF UndoKept, FullscreenHolders, Holders, Active, TypeOK

LEMMA TerminateKeepsUndo ==
    ASSUME TypeOK, NEW S, \A c \in S : Active(c), Terminate(S),
           UNCHANGED <<display, restore, onlys>>
    PROVE  UndoKept
<1>. USE ChildSets
<1>1. \A x \in Commands : Active(x)' => Active(x)
  BY DEF Terminate, Active
<1>. QED BY <1>1 DEF UndoKept, FullscreenHolders, Holders, TypeOK

LEMMA ActivateKeepsUndo ==
    ASSUME TypeOK, NEW D, Activate(D), UNCHANGED <<state, display>>
    PROVE  UndoKept
<1>1. ASSUME NEW d \in Displays, d \in D PROVE FullscreenHolders(d)' = {}
  BY <1>1 DEF Activate, FullscreenHolders, Holders
<1>2. ASSUME NEW d \in Displays, d \notin D
      PROVE  FullscreenHolders(d)' \subseteq FullscreenHolders(d) /\ onlys'[d] = onlys[d]
  BY <1>2 DEF Activate, FullscreenHolders, Holders, Active
<1>3. \A d \in Displays : onlys[d] >= onlys[d]
  BY DEF TypeOK
<1>. QED BY <1>1, <1>2, <1>3 DEF UndoKept

LEMMA UndoKinds ==
    ASSUME TypeOK, [Next]_vars
    PROVE  \/ UndoKept
           \/ \E c \in Commands, d \in Displays, f \in Frames \cup {NoFrame}, full \in BOOLEAN :
                 StartCommand(c, d, f, full)
           \/ \E c \in Commands : ReapChild(c)
<1>. USE ChildSets DEF table, x11, wm, run, ctl, vars
<1>1. ASSUME NEW w \in Windows, StartKeepalive(w) PROVE UndoKept
  <2>1. Start(w, DefaultDisplay, DefaultFrame, FALSE) /\ restore' = restore
    BY <1>1 DEF StartKeepalive
  <2>. QED BY <2>1, StartKeepsUndo
<1>2. ASSUME FinishInit PROVE UndoKept
  BY <1>2 DEF FinishInit, UndoKept, FullscreenHolders, Holders, Active, TypeOK
<1>4. ASSUME NEW c \in Commands, NEW d \in Displays, NEW f \in Frames \cup {NoFrame}, NEW full \in BOOLEAN,
              RejectCommand(c, d, f, full) PROVE UndoKept
  BY <1>4 DEF RejectCommand, UndoKept, FullscreenHolders, Holders, Active, TypeOK
<1>5. ASSUME NEW c \in Tools, StartTool(c) PROVE UndoKept
  <2>1. Start(c, display[c], frame[c], FALSE) /\ restore' = restore
    BY <1>5 DEF StartTool
  <2>2. display[c] \in Displays
    BY DEF TypeOK
  <2>. QED BY <2>1, <2>2, StartKeepsUndo
<1>6. ASSUME NEW c \in Commands \cup Tools, StopCommand(c) PROVE UndoKept
  <2>1. Terminate({c}) /\ UNCHANGED <<display, restore, onlys>> /\ Active(c)
    BY <1>6 DEF StopCommand, Stop
  <2>. QED BY <2>1, TerminateKeepsUndo
<1>7. ASSUME NEW c \in Commands, NEW f \in Frames, MoveCommand(c, f) PROVE UndoKept
  <2>1. UNCHANGED <<state, display>>
    BY <1>7 DEF MoveCommand
  <2>2. CASE Activate({display[c]})
    BY <2>1, <2>2, ActivateKeepsUndo
  <2>3. CASE UNCHANGED <<wm, restore>>
    BY <2>1, <2>3 DEF UndoKept, FullscreenHolders, Holders, Active, TypeOK
  <2>. QED BY <1>7, <2>2, <2>3 DEF MoveCommand
<1>8. ASSUME NEW d \in Displays, ActivateLayout(d) PROVE UndoKept
  <2>1. UNCHANGED <<state, display>> /\ Activate({d})
    BY <1>8 DEF ActivateLayout
  <2>. QED BY <2>1, ActivateKeepsUndo
<1>9. ASSUME Reset PROVE UndoKept
  <2>1. ASSUME NEW d \in Displays PROVE FullscreenHolders(d)' = {}
    BY <1>9 DEF Reset, FullscreenHolders, Holders
  <2>. QED BY <2>1 DEF UndoKept
<1>10. ASSUME NEW o \in Outcomes, SetVariable(o) PROVE UndoKept
  BY <1>10 DEF SetVariable, UndoKept, FullscreenHolders, Holders, Active, TypeOK
<1>11. ASSUME NEW c \in Visible, WindowMapped(c) PROVE UndoKept
  BY <1>11 DEF WindowMapped, UndoKept, FullscreenHolders, Holders, Active, TypeOK
<1>12. ASSUME NEW c \in Children, NEW d \in Displays, WindowDestroyed(c, d) PROVE UndoKept
  BY <1>12 DEF WindowDestroyed, UndoKept, FullscreenHolders, Holders, Active, TypeOK
<1>13. ASSUME BeginReap PROVE UndoKept
  BY <1>13 DEF BeginReap, UndoKept, FullscreenHolders, Holders, Active, TypeOK
<1>14. ASSUME NEW next \in Closings, BeginCleanup(next) PROVE UndoKept
  BY <1>14 DEF BeginCleanup, UndoKept, FullscreenHolders, Holders, Active, TypeOK
<1>15. ASSUME NEW c \in Startable \ Commands, ReapChild(c) PROVE UndoKept
  BY <1>15 DEF ReapChild, UndoKept, FullscreenHolders, Holders, Active, TypeOK
<1>16. ASSUME EndReap PROVE UndoKept
  BY <1>16 DEF EndReap, UndoKept, FullscreenHolders, Holders, Active, TypeOK
<1>17. ASSUME Script PROVE UndoKept
  BY <1>17 DEF Script, UndoKept, FullscreenHolders, Holders, Active, TypeOK
<1>18. ASSUME SkipBusy PROVE UndoKept
  BY <1>18 DEF SkipBusy, UndoKept, FullscreenHolders, Holders, Active, TypeOK
<1>19. ASSUME Evict PROVE UndoKept
  <2>1. /\ Terminate(Evicted(Head(todo)))
        /\ UNCHANGED <<display, restore, onlys>>
        /\ \A x \in Evicted(Head(todo)) : Active(x)
    BY <1>19 DEF Evict, Stop, Evicted, Occupies, Shown, Active
  <2>. QED BY <2>1, TerminateKeepsUndo
<1>20. ASSUME GiveUp PROVE UndoKept
  BY <1>20 DEF GiveUp, UndoKept, FullscreenHolders, Holders, Active, TypeOK
<1>21. ASSUME StartWindow PROVE UndoKept
  <2>1. todo # <<>>
    BY <1>21 DEF StartWindow, TypeOK
  <2>2. Head(todo).window \in Windows /\ Head(todo).display \in Displays
    BY <2>1, HeadType
  <2>3. /\ Start(Head(todo).window, Head(todo).display, Head(todo).frame, FALSE)
        /\ restore' = restore
    BY <1>21 DEF StartWindow
  <2>. QED BY <2>2, <2>3, StartKeepsUndo
<1>22. ASSUME StopMovedWindow PROVE UndoKept
  <2>1. /\ Terminate({Head(todo).window}) /\ Active(Head(todo).window)
        /\ UNCHANGED <<display, restore, onlys>>
    BY <1>22 DEF StopMovedWindow, Stop
  <2>. QED BY <2>1, TerminateKeepsUndo
<1>23. ASSUME AwaitWindow PROVE UndoKept
  BY <1>23 DEF AwaitWindow, UndoKept, FullscreenHolders, Holders, Active, TypeOK
<1>24. ASSUME RaiseWindow PROVE UndoKept
  BY <1>24 DEF RaiseWindow, UndoKept, FullscreenHolders, Holders, Active, TypeOK
<1>25. ASSUME ApplyLayouts PROVE UndoKept
  <2>1. UNCHANGED <<state, display>> /\ Activate(Complete)
    BY <1>25 DEF ApplyLayouts
  <2>. QED BY <2>1, ActivateKeepsUndo
<1>26. ASSUME CleanupRound PROVE UndoKept
  <2>1. /\ Terminate({c \in Children : Active(c)})
        /\ UNCHANGED <<display, restore, onlys>>
    BY <1>26 DEF CleanupRound, Stop
  <2>. QED BY <2>1, TerminateKeepsUndo
<1>27. ASSUME FinishExit PROVE UndoKept
  BY <1>27 DEF FinishExit, UndoKept, FullscreenHolders, Holders, Active, TypeOK
<1>28. ASSUME FinishReload PROVE UndoKept
  <2>1. ASSUME NEW d \in Displays PROVE FullscreenHolders(d)' = {}
    BY <1>28 DEF FinishReload, FullscreenHolders, Holders
  <2>. QED BY <2>1 DEF UndoKept
<1>29. ASSUME NEW c \in Startable, Exec(c) \/ Exit(c) \/ Killed(c) PROVE UndoKept
  BY <1>29 DEF Exec, Exit, Killed, ProcStep, UndoKept, FullscreenHolders, Holders, Active, TypeOK
<1>30. ASSUME UNCHANGED vars PROVE UndoKept
  BY <1>30 DEF UndoKept, FullscreenHolders, Holders, Active, TypeOK
<1>. HIDE DEF table, x11, wm, run, ctl, vars
<1>. QED BY <1>1, <1>2, <1>4, <1>5, <1>6, <1>7, <1>8, <1>9, <1>10, <1>11, <1>12, <1>13, <1>14, <1>15, <1>16, <1>17, <1>18, <1>19, <1>20, <1>21, <1>22, <1>23, <1>24, <1>25, <1>26, <1>27, <1>28, <1>29, <1>30
   DEF Next, Request, Event, Continue, Process, Down

LEMMA InitUndoIsMatched == Init => UndoIsMatched
<1>. SUFFICES ASSUME Init, NEW d \in Displays
              PROVE  Cardinality(FullscreenHolders(d)) <= onlys[d]
  BY DEF UndoIsMatched
<1>1. FullscreenHolders(d) = {}
  BY DEF Init, FullscreenHolders, Holders
<1>. QED BY <1>1, FS_EmptySet DEF Init

LEMMA NextUndoIsMatched ==
    ASSUME TypeOK, StoppedIffReaped, UndoIsMatched, [Next]_vars
    PROVE  UndoIsMatched'
<1>. USE ChildSets
<1>t. onlys' \in [Displays -> Nat]
  BY NextType DEF TypeOK
<1>1. CASE UndoKept
  <2>1. ASSUME NEW d \in Displays PROVE Cardinality(FullscreenHolders(d)') <= onlys'[d]
    <3>1. CASE FullscreenHolders(d)' = {}
      BY <1>t, <3>1, FS_EmptySet
    <3>2. CASE FullscreenHolders(d)' \subseteq FullscreenHolders(d) /\ onlys'[d] >= onlys[d]
      <4>1. /\ Cardinality(FullscreenHolders(d)') <= Cardinality(FullscreenHolders(d))
            /\ Cardinality(FullscreenHolders(d)') \in Nat
        BY <3>2, FullscreenHoldersFinite, FS_Subset, FS_CardinalityType
      <4>. QED BY <1>t, <3>2, <4>1, FullscreenHoldersFinite DEF UndoIsMatched, TypeOK
    <3>. QED BY <1>1, <3>1, <3>2 DEF UndoKept
  <2>. QED BY <2>1 DEF UndoIsMatched
<1>2. ASSUME NEW c \in Commands, NEW e \in Displays, NEW f \in Frames \cup {NoFrame},
             NEW full \in BOOLEAN, StartCommand(c, e, f, full)
      PROVE  UndoIsMatched'
  <2>. DEFINE g == Fullscreen(c, full)
  <2>1. ~Active(c) /\ Start(c, e, NewFrame(c, f), g) /\ restore' = [restore EXCEPT ![c] = g]
    BY <1>2 DEF StartCommand
  <2>2. \A x \in Commands \ {c} :
           state'[x] = state[x] /\ display'[x] = display[x] /\ restore'[x] = restore[x]
    BY <2>1 DEF Start, Fork, ForkFails, TypeOK
  <2>3. display'[c] = e /\ restore'[c] = g
    BY <2>1 DEF Start, TypeOK
  <2>4. ASSUME NEW d \in Displays PROVE Cardinality(FullscreenHolders(d)') <= onlys'[d]
    <3>1. onlys[d] \in Nat /\ Cardinality(FullscreenHolders(d)) <= onlys[d]
      BY DEF UndoIsMatched, TypeOK
    <3>2. c \notin FullscreenHolders(d)
      BY <2>1 DEF FullscreenHolders, Holders
    <3>3. CASE g /\ d = e
      <4>1. FullscreenHolders(d)' \subseteq FullscreenHolders(d) \cup {c}
        BY <2>2 DEF FullscreenHolders, Holders, Active
      <4>2. /\ IsFiniteSet(FullscreenHolders(d) \cup {c})
            /\ Cardinality(FullscreenHolders(d) \cup {c}) = Cardinality(FullscreenHolders(d)) + 1
        BY <3>2, FullscreenHoldersFinite, FS_AddElement
      <4>3. /\ Cardinality(FullscreenHolders(d)') <= Cardinality(FullscreenHolders(d)) + 1
            /\ Cardinality(FullscreenHolders(d)') \in Nat
        BY <4>1, <4>2, FS_Subset, FS_CardinalityType
      <4>4. onlys'[d] = onlys[d] + 1
        BY <2>1, <3>3 DEF Start, TypeOK
      <4>. QED BY <3>1, <4>3, <4>4, FullscreenHoldersFinite
    <3>4. CASE ~(g /\ d = e)
      <4>1. c \notin FullscreenHolders(d)'
        BY <2>3, <3>4 DEF FullscreenHolders, Holders
      <4>2. FullscreenHolders(d)' = FullscreenHolders(d)
        BY <2>2, <3>2, <4>1 DEF FullscreenHolders, Holders, Active
      <4>3. onlys'[d] = onlys[d]
        BY <2>1, <3>4 DEF Start, TypeOK
      <4>. QED BY <3>1, <4>2, <4>3
    <3>. QED BY <3>3, <3>4
  <2>. QED BY <2>4 DEF UndoIsMatched
<1>3. ASSUME NEW c \in Commands, ReapChild(c) PROVE UndoIsMatched'
  <2>1. Active(c) /\ ~Active(c)' /\ display' = display
    BY <1>3 DEF ReapChild, Active, StoppedIffReaped, TypeOK
  <2>2. \A x \in Commands \ {c} : Active(x)' = Active(x) /\ restore'[x] = restore[x]
    BY <1>3 DEF ReapChild, Release, Active, TypeOK
  <2>3. onlys' = IF restore[c] THEN Undone(c) ELSE onlys
    BY <1>3 DEF ReapChild, Release
  <2>4. ASSUME NEW d \in Displays PROVE Cardinality(FullscreenHolders(d)') <= onlys'[d]
    <3>1. onlys[d] \in Nat /\ Cardinality(FullscreenHolders(d)) <= onlys[d]
      BY DEF UndoIsMatched, TypeOK
    <3>2. FullscreenHolders(d)' = FullscreenHolders(d) \ {c}
      BY <2>1, <2>2 DEF FullscreenHolders, Holders
    <3>3. Cardinality(FullscreenHolders(d)') =
             IF c \in FullscreenHolders(d) THEN Cardinality(FullscreenHolders(d)) - 1
             ELSE Cardinality(FullscreenHolders(d))
      BY <3>2, FullscreenHoldersFinite, FS_RemoveElement
    <3>4. CASE c \in FullscreenHolders(d)
      <4>1. onlys'[d] >= onlys[d] - 1
        BY <2>3, <3>1 DEF Undone, TypeOK
      <4>2. onlys'[d] \in Nat
        BY <1>t
      <4>. QED BY <3>1, <3>3, <3>4, <4>1, <4>2, FullscreenHoldersFinite
    <3>5. CASE c \notin FullscreenHolders(d)
      <4>1. ~restore[c] \/ d # display[c]
        BY <2>1, <3>5 DEF FullscreenHolders, Holders
      <4>2. onlys'[d] = onlys[d]
        BY <2>3, <4>1 DEF Undone, TypeOK
      <4>. QED BY <3>1, <3>3, <3>5, <4>2
    <3>. QED BY <3>4, <3>5
  <2>. QED BY <2>4 DEF UndoIsMatched
<1>. QED BY <1>1, <1>2, <1>3, UndoKinds

-----------------------------------------------------------------------------
(* Nothing is started while everything is stopped *)

\* Once control_cleanup has run, the thread goes back and forth between
\* child_cleanup and child_reap, and child_reap calls no automation.
ClosingQuiet == closing # "no" => ~auto /\ pc \in {"cleanup", "reap", "down"}

\* The steps that are left while cleanup_all runs.
LEMMA ClosingKinds ==
    ASSUME ClosingQuiet, closing # "no", [Next]_vars
    PROVE  \/ \E c \in Startable : ReapChild(c)
           \/ EndReap \/ CleanupRound \/ FinishExit \/ FinishReload
           \/ Process \/ UNCHANGED vars
<1>. USE DEF ClosingQuiet
<1>1. ~Request
  BY DEF Request, StartCommand, RejectCommand, StartTool, StopCommand, MoveCommand,
         ActivateLayout, Reset
<1>2. ~Event
  BY DEF Event, SetVariable, WindowMapped, WindowDestroyed, BeginReap, BeginCleanup
<1>3. ~(\E w \in Windows : StartKeepalive(w)) /\ ~FinishInit
  BY DEF StartKeepalive, FinishInit
<1>4. ~(Script \/ SkipBusy \/ Evict \/ GiveUp \/ StartWindow)
  BY DEF Script, SkipBusy, Evict, GiveUp, StartWindow
<1>5. ~(StopMovedWindow \/ AwaitWindow \/ RaiseWindow \/ ApplyLayouts)
  BY DEF StopMovedWindow, AwaitWindow, RaiseWindow, ApplyLayouts
<1>. QED BY <1>1, <1>2, <1>3, <1>4, <1>5 DEF Next, Continue, Down

\* cleanup_all is entered from BeginCleanup only.
LEMMA ClosingBegins ==
    ASSUME closing = "no", [Next]_vars, closing' # "no"
    PROVE  \E next \in Closings : BeginCleanup(next)
<1>. USE DEF ctl, vars
<1>1. ~Request
  <2>1. \A c \in Commands, d \in Displays, f \in Frames \cup {NoFrame}, full \in BOOLEAN :
           ~StartCommand(c, d, f, full) /\ ~RejectCommand(c, d, f, full)
    BY DEF StartCommand, RejectCommand
  <2>2. (\A c \in Tools : ~StartTool(c)) /\ \A c \in Commands \cup Tools : ~StopCommand(c)
    BY DEF StartTool, StopCommand
  <2>3. \A c \in Commands, f \in Frames : ~MoveCommand(c, f)
    BY DEF MoveCommand
  <2>4. ~Reset /\ \A d \in Displays : ~ActivateLayout(d)
    BY DEF Reset, ActivateLayout
  <2>. QED BY <2>1, <2>2, <2>3, <2>4 DEF Request
<1>2. Event => \E next \in Closings : BeginCleanup(next)
  BY DEF Event, SetVariable, WindowMapped, WindowDestroyed, BeginReap
<1>3. ~Continue
  <2>1. ~FinishInit /\ ~EndReap /\ \A w \in Windows : ~StartKeepalive(w)
    BY DEF FinishInit, EndReap, StartKeepalive
  <2>2. \A c \in Startable : ~ReapChild(c)
    BY DEF ReapChild
  <2>3. ~(Script \/ SkipBusy \/ Evict \/ GiveUp \/ StartWindow)
    BY DEF Script, SkipBusy, Evict, GiveUp, StartWindow
  <2>4. ~(StopMovedWindow \/ AwaitWindow \/ RaiseWindow \/ ApplyLayouts)
    BY DEF StopMovedWindow, AwaitWindow, RaiseWindow, ApplyLayouts
  <2>5. ~(CleanupRound \/ FinishExit \/ FinishReload)
    BY DEF CleanupRound, FinishExit, FinishReload
  <2>. QED BY <2>1, <2>2, <2>3, <2>4, <2>5 DEF Continue
<1>4. ~Process /\ ~Down
  BY DEF Process, Exec, Exit, Killed, ProcStep, Down
<1>. QED BY <1>1, <1>2, <1>3, <1>4 DEF Next

LEMMA InitClosingQuiet == Init => ClosingQuiet
BY DEF Init, ClosingQuiet

LEMMA NextClosingQuiet ==
    ASSUME ClosingQuiet, [Next]_vars
    PROVE  ClosingQuiet'
<1>1. CASE closing = "no"
  BY <1>1, ClosingBegins DEF BeginCleanup, ClosingQuiet
<1>2. CASE closing # "no"
  <2>1. ASSUME NEW c \in Startable, ReapChild(c) PROVE ClosingQuiet'
    BY <1>2, <2>1 DEF ReapChild, RunAutomation, ClosingQuiet
  <2>2. CASE EndReap \/ CleanupRound \/ FinishExit \/ FinishReload
    BY <1>2, <2>2 DEF EndReap, CleanupRound, FinishExit, FinishReload, ClosingQuiet
  <2>3. CASE Process \/ UNCHANGED vars
    BY <1>2, <2>3 DEF Process, Exec, Exit, Killed, ProcStep, ctl, vars, ClosingQuiet
  <2>. QED BY <1>2, <2>1, <2>2, <2>3, ClosingKinds
<1>. QED BY <1>1, <1>2

LEMMA ClosingStartsNothing ==
    ASSUME TypeOK, ClosingQuiet, [Next]_vars, closing # "no",
           NEW c \in Startable, state[c] = "stopped"
    PROVE  state'[c] = "stopped"
<1>. USE ChildSets
<1>1. ASSUME NEW e \in Startable, ReapChild(e) PROVE state'[c] = "stopped"
  BY <1>1 DEF ReapChild, TypeOK
<1>2. CASE CleanupRound
  BY <1>2 DEF CleanupRound, Stop, Terminate, Active, TypeOK
<1>3. CASE EndReap \/ FinishExit
  BY <1>3 DEF EndReap, FinishExit, table
<1>4. CASE FinishReload
  BY <1>4 DEF FinishReload, InitialState
<1>5. CASE Process \/ UNCHANGED vars
  BY <1>5 DEF Process, Exec, Exit, Killed, ProcStep, vars, table
<1>. QED BY <1>1, <1>2, <1>3, <1>4, <1>5, ClosingKinds

-----------------------------------------------------------------------------
(* The stack *)

\* What child_restack leaves, of any table of ranks: no two children share a place, and the
\* place of each is the number of those up to it.
StackOf(o) == {c \in Children : o[c] > 0}

Ranked(o) ==
    /\ \A c, x \in StackOf(o) : o[c] = o[x] => c = x
    /\ \A c \in StackOf(o) : o[c] = Cardinality({x \in StackOf(o) : o[x] <= o[c]})

LEMMA StackFinite ==
    ASSUME NEW S, S \subseteq Children
    PROVE  IsFiniteSet(S) /\ Cardinality(S) \in Nat
BY FS_Subset, FS_CardinalityType

\* A child that stays in the stack is as high as there are children up to it that stay.
LEMMA LoweredCount ==
    ASSUME TypeOK, Ranked(order), NEW S \in SUBSET Children, NEW c \in StackOf(order) \ S
    PROVE  Lowered(S)[c] = Cardinality({x \in StackOf(order) \ S : order[x] <= order[c]})
<1>. DEFINE U == {x \in StackOf(order) : order[x] <= order[c]}
            A == {x \in StackOf(order) \ S : order[x] <= order[c]}
            B == {x \in S : 0 < order[x] /\ order[x] < order[c]}
<1>1. c \in Children /\ c \notin S /\ order[c] > 0
  BY DEF StackOf
<1>2. \A x \in Children : order[x] \in Int
  BY DEF TypeOK
<1>3. U = A \cup B /\ A \cap B = {}
  <2>1. ASSUME NEW x \in U PROVE x \in A \cup B
    BY <1>1, <1>2 DEF StackOf, Ranked
  <2>2. ASSUME NEW x \in B PROVE x \in U /\ x \notin A
    BY <1>1, <1>2 DEF StackOf
  <2>. QED BY <2>1, <2>2
<1>4. IsFiniteSet(A) /\ IsFiniteSet(B) /\ Cardinality(A) \in Nat /\ Cardinality(B) \in Nat
  BY StackFinite DEF StackOf
<1>6. order[c] = Cardinality(U)
  BY DEF Ranked
<1>7. Lowered(S)[c] = order[c] - Cardinality(B)
  BY <1>1 DEF Lowered, Below
<1>. HIDE DEF U, A, B
<1>5. Cardinality(U) = Cardinality(A) + Cardinality(B)
  <2>1. Cardinality(A \cap B) = 0
    BY <1>3, FS_EmptySet
  <2>2. Cardinality(A \cup B) = Cardinality(A) + Cardinality(B) - Cardinality(A \cap B)
    BY <1>4, FS_Union
  <2>3. Cardinality(U) = Cardinality(A \cup B)
    BY <1>3
  <2>. QED BY <1>4, <2>1, <2>2, <2>3
<1>8. Lowered(S)[c] = Cardinality(A)
  BY <1>4, <1>5, <1>6, <1>7
<1>. QED BY <1>8 DEF A

\* Taking children from the stack leaves the others in their order.
LEMMA LoweredOrder ==
    ASSUME TypeOK, Ranked(order), NEW S \in SUBSET Children,
           NEW c \in StackOf(order) \ S, NEW x \in StackOf(order) \ S, order[x] < order[c]
    PROVE  Lowered(S)[x] < Lowered(S)[c]
<1>. DEFINE P(y) == {z \in StackOf(order) \ S : order[z] <= order[y]}
<1>1. \A y \in Children : order[y] \in Int
  BY DEF TypeOK
<1>2. P(x) \in SUBSET P(c) /\ c \in P(c) /\ c \notin P(x)
  BY <1>1 DEF StackOf
<1>3. IsFiniteSet(P(c)) /\ Cardinality(P(c)) \in Nat /\ Cardinality(P(x)) \in Nat
  BY StackFinite DEF StackOf
<1>4. Lowered(S)[c] = Cardinality(P(c)) /\ Lowered(S)[x] = Cardinality(P(x))
  BY LoweredCount
<1>. HIDE DEF P
<1>5. Cardinality(P(x)) <= Cardinality(P(c)) /\ Cardinality(P(x)) # Cardinality(P(c))
  BY <1>2, <1>3, FS_Subset
<1>. QED BY <1>3, <1>4, <1>5

LEMMA LoweredRanked ==
    ASSUME TypeOK, Ranked(order), NEW S \in SUBSET Children
    PROVE  Ranked(Lowered(S)) /\ StackOf(Lowered(S)) = StackOf(order) \ S
<1>. DEFINE L == Lowered(S)
            N == StackOf(order) \ S
<1>1. L \in [Children -> Int] /\ order \in [Children -> Int]
  BY RankType DEF TypeOK
<1>2. StackOf(L) = N
  <2>1. ASSUME NEW c \in N PROVE L[c] > 0
    <3>. DEFINE Q == {x \in N : order[x] <= order[c]}
    <3>1. c \in Q
      BY <1>1 DEF StackOf
    <3>2. IsFiniteSet(Q) /\ Cardinality(Q) \in Nat
      BY StackFinite DEF StackOf
    <3>3. L[c] = Cardinality(Q)
      BY LoweredCount
    <3>. HIDE DEF Q, L
    <3>4. Cardinality(Q) # 0
      BY <3>1, <3>2, FS_EmptySet
    <3>. QED BY <3>2, <3>3, <3>4
  <2>2. ASSUME NEW c \in Children, c \notin N PROVE ~(L[c] > 0)
    BY <1>1, <2>2 DEF Lowered, StackOf
  <2>. QED BY <2>1, <2>2 DEF StackOf
<1>3. ASSUME NEW c \in N, NEW x \in N PROVE L[x] <= L[c] <=> order[x] <= order[c]
  <2>1. c \in Children /\ x \in Children
    BY DEF StackOf
  <2>2. CASE order[x] < order[c]
    <3>1. L[x] < L[c]
      BY <2>2, LoweredOrder
    <3>. QED BY <1>1, <2>1, <2>2, <3>1
  <2>3. CASE order[c] < order[x]
    <3>1. L[c] < L[x]
      BY <2>3, LoweredOrder
    <3>. QED BY <1>1, <2>1, <2>3, <3>1
  <2>4. CASE order[c] = order[x]
    <3>1. c = x
      BY <2>4 DEF Ranked
    <3>. QED BY <1>1, <2>1, <3>1
  <2>. QED BY <1>1, <2>1, <2>2, <2>3, <2>4
<1>4. ASSUME NEW c \in N, NEW x \in N, L[c] = L[x] PROVE c = x
  <2>1. c \in Children /\ x \in Children
    BY DEF StackOf
  <2>2. order[x] <= order[c] /\ order[c] <= order[x]
    BY <1>1, <1>3, <1>4, <2>1
  <2>. QED BY <1>1, <2>1, <2>2 DEF Ranked
<1>5. ASSUME NEW c \in N PROVE L[c] = Cardinality({x \in N : L[x] <= L[c]})
  <2>1. {x \in N : L[x] <= L[c]} = {x \in N : order[x] <= order[c]}
    BY <1>3
  <2>. QED BY <2>1, LoweredCount
<1>. QED BY <1>2, <1>4, <1>5 DEF Ranked

\* A child that is raised comes to lie above all others.
LEMMA RaisedRanked ==
    ASSUME TypeOK, Ranked(order), NEW c \in Children
    PROVE  Ranked(Raised(c)) /\ StackOf(Raised(c)) = StackOf(order) \cup {c}
<1>. DEFINE L == Lowered({c})
            R == Raised(c)
            N == OthersStacked(c)
<1>1. N = StackOf(order) \ {c} /\ N = StackOf(L) /\ Ranked(L)
  BY LoweredRanked DEF OthersStacked, StackOf
<1>2. L \in [Children -> Int] /\ R \in [Children -> Int]
  BY RankType, RaisedType
<1>3. IsFiniteSet(N) /\ Cardinality(N) \in Nat /\ c \notin N
  BY StackFinite DEF OthersStacked
<1>4. R[c] = 1 + Cardinality(N) /\ \A x \in Children \ {c} : R[x] = L[x]
  BY <1>2 DEF Raised
<1>7. N \subseteq Children \ {c}
  BY DEF OthersStacked
<1>. HIDE DEF L, R, N
<1>10. \A x \in N : L[x] = Cardinality({y \in N : L[y] <= L[x]})
  BY <1>1, Zenon DEF Ranked
<1>11. \A x, y \in N : L[x] = L[y] => x = y
  BY <1>1, Zenon DEF Ranked
<1>5. ASSUME NEW x \in N PROVE R[x] < R[c]
  <2>. DEFINE Q == {y \in N : L[y] <= L[x]}
  <2>1. Q \in SUBSET N /\ L[x] = Cardinality(Q)
    BY <1>10
  <2>. HIDE DEF Q
  <2>2. L[x] <= Cardinality(N)
    BY <1>3, <2>1, FS_Subset
  <2>3. x \in Children \ {c}
    BY <1>7
  <2>. QED BY <1>2, <1>3, <1>4, <2>2, <2>3
<1>6. StackOf(R) = N \cup {c}
  BY <1>1, <1>3, <1>4 DEF StackOf
<1>8. ASSUME NEW x \in N \cup {c}, NEW y \in N \cup {c}, R[x] = R[y] PROVE x = y
  <2>1. CASE x \in N /\ y \in N
    BY <1>4, <1>7, <1>8, <1>11, <2>1
  <2>2. CASE x = c \/ y = c
    BY <1>2, <1>5, <1>7, <1>8, <2>2
  <2>. QED BY <2>1, <2>2
<1>9. ASSUME NEW x \in N \cup {c}
      PROVE  R[x] = Cardinality({y \in N \cup {c} : R[y] <= R[x]})
  <2>1. CASE x = c
    <3>1. {y \in N \cup {c} : R[y] <= R[x]} = N \cup {c}
      BY <1>2, <1>5, <1>7, <2>1
    <3>2. Cardinality(N \cup {c}) = Cardinality(N) + 1
      BY <1>3, FS_AddElement
    <3>3. Cardinality({y \in N \cup {c} : R[y] <= R[x]}) = Cardinality(N \cup {c})
      BY <3>1, Zenon
    <3>. QED BY <1>3, <1>4, <2>1, <3>2, <3>3
  <2>2. CASE x \in N
    <3>1. {y \in N \cup {c} : R[y] <= R[x]} = {y \in N : L[y] <= L[x]}
      BY <1>2, <1>4, <1>5, <1>7, <2>2
    <3>. QED BY <1>4, <1>7, <1>10, <2>2, <3>1
  <2>. QED BY <2>1, <2>2
<1>12. StackOf(R) = StackOf(order) \cup {c}
  BY <1>1, <1>6
<1>13. Ranked(R)
  BY <1>6, <1>8, <1>9 DEF Ranked
<1>. QED BY <1>12, <1>13 DEF R

StackInv == StackIsStrict /\ Ranked(order)

LEMMA InitStackInv == Init => StackInv
BY ChildSets DEF Init, InitialState, StackInv, StackIsStrict, Stacked, Ranked, StackOf

LEMMA NextStackInv ==
    ASSUME TypeOK, PendingStopped, StackInv, [Next]_vars
    PROVE  StackInv'
<1>. USE ChildSets DEF table, x11, wm, run, ctl, vars
<1>1. SUFFICES /\ Ranked(order')
               /\ \A c \in Startable : state'[c] = "running" => c \in StackOf(order')
  BY DEF StackInv, StackIsStrict, Stacked, Ranked, StackOf
<1>2. Ranked(order) /\ \A c \in Startable : state[c] = "running" => c \in StackOf(order)
  BY DEF StackInv, StackIsStrict, Stacked, StackOf
<1>3. CASE Keeps
  <2>1. state' = state
    BY <1>3 DEF Keeps
  <2>2. CASE order' = order
    BY <1>2, <2>1, <2>2
  <2>3. ASSUME NEW c \in Children, order' = Raised(c)
        PROVE  Ranked(order') /\ StackOf(order) \subseteq StackOf(order')
    BY <1>2, <2>3, RaisedRanked
  <2>. QED BY <1>2, <1>3, <2>1, <2>2, <2>3 DEF Keeps
<1>4. CASE Starts
  <2>1. PICK c \in Startable, d \in Displays, f \in Frames \cup {NoFrame}, full \in BOOLEAN :
           Start(c, d, f, full)
    BY <1>4 DEF Starts
  <2>2. order' = Raised(c) /\ \A x \in Children \ {c} : state'[x] = state[x]
    BY <2>1 DEF Start, Fork, ForkFails, TypeOK
  <2>3. Ranked(order') /\ StackOf(order') = StackOf(order) \cup {c}
    BY <1>2, <2>2, RaisedRanked
  <2>. QED BY <1>2, <2>2, <2>3
<1>5. CASE Terminates
  <2>1. PICK S \in SUBSET Children : Terminate(S)
    BY <1>5 DEF Terminates
  <2>2. Ranked(order') /\ StackOf(order') = StackOf(order) \ (S \ Repatriated)
    BY <1>2, <2>1, LoweredRanked DEF Terminate
  <2>3. \A c \in Startable : state'[c] = "running" => c \notin S /\ state[c] = "running"
    BY <2>1 DEF Terminate
  <2>. QED BY <1>2, <2>2, <2>3
<1>6. CASE FinishReload
  BY <1>6 DEF FinishReload, InitialState, Ranked, StackOf
<1>7. ASSUME NEW c \in Startable, ReapChild(c) \/ Exec(c) \/ Exit(c) \/ Killed(c)
      PROVE  order' = order /\ \A x \in Startable : state'[x] = "running" => state[x] = "running"
  BY <1>7 DEF ReapChild, Exec, Exit, Killed, ProcStep, TypeOK
<1>. QED BY <1>2, <1>3, <1>4, <1>5, <1>6, <1>7, StepKinds

-----------------------------------------------------------------------------
(* The automation *)

\* The assignments a run has dealt with, or the last one if none is in progress.
Done ==
    {outcome.assign[i] : i \in
        IF pc \in {"apply", "place"} THEN 1..(Len(outcome.assign) - Len(todo))
        ELSE IF pc \in {"idle", "reap"} /\ auto THEN DOMAIN outcome.assign
        ELSE {}}

Settled(a) ==
    CASE state[a.window] = "running" -> InPlace(a)
      [] state[a.window] = "stopped" -> tries[a.window] > 0
      [] OTHER -> TRUE

NoToolWindows == \A c \in Tools : ~HasWindows(c)

\* What is left to do is the end of what the script asks for, and a display counts as busy
\* during the run just if it is.
RunIsOnTrack ==
    pc \in {"apply", "place"} =>
        /\ Len(todo) <= Len(outcome.assign)
        /\ \A i \in DOMAIN todo :
              todo[i] = outcome.assign[Len(outcome.assign) - Len(todo) + i]
        /\ \A d \in Displays : status[d] = "busy" <=> busy[d] > 0

PlaceIsFree == pc = "place" => busy[Head(todo).display] = 0

DoneSettled == \A a \in Done : busy[a.display] = 0 => Settled(a)

ReadyShown ==
    pc \in {"apply", "place"} =>
        \A a \in Done : status[a.display] = "ready" /\ state[a.window] = "running"
                           => HasWindows(a.window)

\* A step that leaves an assignment as settled as it was.
Calm(a) ==
    LET w == a.window IN
    /\ state'[w] = "running" => /\ state[w] = "running"
                                /\ display'[w] = display[w] /\ frame'[w] = frame[w]
                                /\ HasWindows(w)' => HasWindows(w)
    /\ state'[w] = "stopped" => state[w] = "stopped" /\ tries'[w] >= tries[w]
    /\ \A x \in Children \ {w} : state'[w] = "running" /\ Shown(x, a.display, a.frame)' =>
         Shown(x, a.display, a.frame) /\ (order[x] <= order[w] => order'[x] <= order'[w])

LEMMA Undisturbed ==
    ASSUME TypeOK, TypeOK', NEW a \in Assignment, Settled(a), Calm(a)
    PROVE  Settled(a)'
<1>. DEFINE w == a.window
            user == Commands \cup Tools
<1>1. w \in Windows /\ w \in Children /\ w \notin user
  BY ChildSets DEF Assignment
<1>2. CASE state'[w] = "stopped"
  <2>1. tries[w] > 0 /\ tries'[w] >= tries[w]
    BY <1>2 DEF Settled, Calm
  <2>2. tries[w] \in Nat /\ tries'[w] \in Nat
    BY <1>1 DEF TypeOK
  <2>. QED BY <1>2, <2>1, <2>2 DEF Settled
<1>3. CASE state'[w] = "running"
  <2>1. InPlace(a) /\ state[w] = "running"
    BY <1>3 DEF Settled, Calm
  <2>2. /\ display'[w] = display[w] /\ frame'[w] = frame[w]
        /\ HasWindows(w)' => HasWindows(w)
    BY <1>3 DEF Calm
  <2>3. ASSUME HasWindows(w)' PROVE Occupies(w, a.display, a.frame)'
    <3>1. Occupies(w, a.display, a.frame)
      BY <2>1, <2>2, <2>3 DEF InPlace
    <3>2. Shown(w, a.display, a.frame)'
      BY <1>3, <2>2, <2>3, <3>1 DEF Occupies, Shown
    <3>3. ASSUME NEW x \in Children, Shown(x, a.display, a.frame)'
          PROVE  x \notin user /\ order'[x] <= order'[w]
      <4>1. CASE x = w
        BY <1>1, <4>1 DEF TypeOK
      <4>2. CASE x # w
        <5>1. Shown(x, a.display, a.frame)
          BY <1>3, <3>3, <4>2 DEF Calm
        <5>2. x \notin user /\ order[x] <= order[w]
          BY <1>1, <3>1, <5>1 DEF Occupies
        <5>. QED BY <1>3, <3>3, <4>2, <5>2 DEF Calm
      <4>. QED BY <4>1, <4>2
    <3>. QED BY <1>1, <3>2, <3>3 DEF Occupies
  <2>4. display'[w] = a.display
    BY <2>1, <2>2 DEF InPlace
  <2>. QED BY <1>3, <2>3, <2>4 DEF Settled, InPlace
<1>. QED BY <1>2, <1>3 DEF Settled

\* The order of two children changes only if one of them is raised or leaves the stack.
LEMMA LoweredKeeps ==
    ASSUME TypeOK, Ranked(order), NEW S \in SUBSET Children, NEW w \in StackOf(order) \ S,
           NEW x \in Children \ S, order[x] <= order[w]
    PROVE  Lowered(S)[x] <= Lowered(S)[w]
<1>1. Lowered(S) \in [Children -> Int] /\ order \in [Children -> Int] /\ w \in Children
  BY RankType DEF TypeOK, StackOf
<1>2. CASE x \notin StackOf(order)
  <2>1. Lowered(S)[x] <= 0
    BY <1>1, <1>2 DEF Lowered, StackOf
  <2>2. Lowered(S)[w] > 0
    BY LoweredRanked DEF StackOf
  <2>. QED BY <1>1, <2>1, <2>2
<1>3. CASE x \in StackOf(order) /\ order[x] < order[w]
  <2>1. Lowered(S)[x] < Lowered(S)[w]
    BY <1>3, LoweredOrder
  <2>. QED BY <1>1, <2>1
<1>4. CASE x \in StackOf(order) /\ order[x] = order[w]
  <2>1. x = w
    BY <1>4 DEF Ranked
  <2>. QED BY <1>1, <2>1
<1>. QED BY <1>1, <1>2, <1>3, <1>4

LEMMA RaisedKeeps ==
    ASSUME TypeOK, Ranked(order), NEW c \in Children, NEW w \in StackOf(order) \ {c},
           NEW x \in Children \ {c}, order[x] <= order[w]
    PROVE  Raised(c)[x] <= Raised(c)[w]
<1>1. Lowered({c})[x] <= Lowered({c})[w]
  BY LoweredKeeps
<1>2. Lowered({c}) \in [Children -> Int] /\ w \in Children
  BY RankType DEF StackOf
<1>. QED BY <1>1, <1>2 DEF Raised

\* A child that is raised lies above all others.
LEMMA RaisedTop ==
    ASSUME TypeOK, Ranked(order), NEW c \in Children, NEW x \in Children \ {c}
    PROVE  Raised(c)[x] < Raised(c)[c]
<1>. DEFINE R == Raised(c)
            T == StackOf(order) \cup {c}
<1>. SUFFICES R[x] < R[c]
  OBVIOUS
<1>1. R \in [Children -> Int]
  BY RaisedType
<1>2. Ranked(R) /\ StackOf(R) = T
  BY RaisedRanked
<1>3. T \in SUBSET Children
  BY DEF StackOf
<1>4. OthersStacked(c) = T \ {c}
  BY DEF OthersStacked, StackOf
<1>5. R[c] = 1 + Cardinality(T \ {c})
  BY <1>4, RankType DEF Raised
<1>6. IsFiniteSet(T) /\ Cardinality(T) \in Nat
  BY <1>3, StackFinite
<1>9. c \in T
  OBVIOUS
<1>. HIDE DEF R, T
<1>7. CASE x \notin T
  <2>1. ~(R[x] > 0) /\ R[c] > 0
    BY <1>2, <1>7, <1>9 DEF StackOf
  <2>. QED BY <1>1, <2>1
<1>8. CASE x \in T
  <2>. DEFINE Q == {y \in T : R[y] <= R[x]}
  <2>1. Q \in SUBSET T
    OBVIOUS
  <2>2. R[x] = Cardinality(Q)
    BY <1>2, <1>8, Zenon DEF Ranked
  <2>. HIDE DEF Q
  <2>3. R[x] <= Cardinality(T)
    BY <1>6, <2>1, <2>2, FS_Subset
  <2>4. R[c] = Cardinality(T)
    <3>1. Cardinality(T \ {c}) = Cardinality(T) - 1
      BY <1>6, <1>9, FS_RemoveElement
    <3>. QED BY <1>5, <1>6, <3>1
  <2>5. R[x] # R[c]
    <3>1. \A y, z \in T : R[y] = R[z] => y = z
      BY <1>2, Zenon DEF Ranked
    <3>. QED BY <1>8, <1>9, <3>1
  <2>. QED BY <1>1, <2>3, <2>4, <2>5
<1>. QED BY <1>7, <1>8

LEMMA DoneTypes ==
    ASSUME TypeOK
    PROVE  /\ Done \subseteq Requested /\ Requested \subseteq Assignment
           /\ \A a \in Assignment : /\ a.window \in Windows /\ a.window \in Children
                                    /\ a.display \in Displays /\ a.frame \in Frames
<1>1. outcome.assign \in Seq(Assignment) /\ Len(todo) \in Nat
  BY DEF TypeOK
<1>2. Requested \subseteq Assignment
  BY <1>1 DEF Requested
<1>3. Done \subseteq Requested
  BY <1>1 DEF Done, Requested
<1>. QED BY <1>2, <1>3, ChildSets DEF Assignment

\* What is dealt with is no longer to be done, and nothing else of the script is about its
\* window or its frame.
LEMMA DoneGrows ==
    ASSUME TypeOK, RunIsOnTrack, pc \in {"apply", "place"}, todo # <<>>,
           todo' = Tail(todo), outcome' = outcome, pc' = "apply"
    PROVE  /\ Done' = Done \cup {Head(todo)}
           /\ Len(todo') <= Len(outcome'.assign)
           /\ \A i \in DOMAIN todo' :
                 todo'[i] = outcome'.assign[Len(outcome'.assign) - Len(todo') + i]
           /\ \A a \in Done : /\ a.window # Head(todo).window
                              /\ a.display # Head(todo).display \/ a.frame # Head(todo).frame
<1>. DEFINE s == outcome.assign
            n == Len(s) - Len(todo)
<1>1. s \in Seq(Assignment) /\ todo \in Seq(Assignment) /\ outcome \in Outcomes
  BY DEF TypeOK
<1>2. /\ Len(todo) <= Len(s) /\ Len(todo) >= 1 /\ Len(s) \in Nat /\ Len(todo) \in Nat
      /\ \A i \in 1..Len(todo) : todo[i] = s[n + i]
  BY <1>1 DEF RunIsOnTrack
<1>3. Head(todo) = s[n + 1] /\ n \in Nat /\ n + 1 \in 1..Len(s) /\ n + 1 \in DOMAIN s
  BY <1>1, <1>2
<1>4. /\ Len(todo') = Len(todo) - 1
      /\ \A i \in 1..Len(todo') : todo'[i] = todo[i + 1]
  BY <1>1, <1>2
<1>5. Done = {s[i] : i \in 1..n}
  BY DEF Done
<1>6. Done' = {s[i] : i \in 1..(n + 1)}
  <2>1. Len(outcome'.assign) - Len(todo') = n + 1
    BY <1>2, <1>4
  <2>. QED BY <2>1 DEF Done
<1>7. \A a \in Done : /\ a.window # Head(todo).window
                      /\ a.display # Head(todo).display \/ a.frame # Head(todo).frame
  <2>1. ASSUME NEW i \in 1..n
        PROVE  /\ s[i].window # s[n + 1].window
               /\ s[i].display # s[n + 1].display \/ s[i].frame # s[n + 1].frame
    <3>1. i \in DOMAIN s /\ i # n + 1
      BY <1>1, <1>2, <1>3
    <3>2. \A k, l \in DOMAIN s : k # l =>
              /\ s[k].window # s[l].window
              /\ <<s[k].display, s[k].frame>> # <<s[l].display, s[l].frame>>
      BY <1>1
    <3>. QED BY <1>3, <3>1, <3>2
  <2>. QED BY <1>3, <1>5, <2>1
<1>8. Done' = Done \cup {Head(todo)}
  <2>1. 1..(n + 1) = 1..n \cup {n + 1}
    BY <1>3
  <2>. QED BY <1>3, <1>5, <1>6, <2>1
<1>. HIDE DEF n
<1>9. ASSUME NEW i \in DOMAIN todo'
      PROVE  todo'[i] = s[Len(s) - Len(todo') + i]
  <2>1. i \in 1..Len(todo') /\ i + 1 \in 1..Len(todo) /\ i \in Nat
    BY <1>1, <1>2, <1>4
  <2>4. Len(s) \in Int /\ Len(todo') \in Int /\ n \in Int
    BY <1>2, <1>3, <1>4
  <2>2. todo'[i] = s[n + (i + 1)]
    BY <1>2, <1>4, <2>1
  <2>3. n + (i + 1) = Len(s) - Len(todo') + i
    <3>1. Len(s) - Len(todo') = n + 1
      BY <1>2, <1>4 DEF n
    <3>. QED BY <2>1, <2>4, <3>1
  <2>. QED BY <2>2, <2>3
<1>. QED BY <1>2, <1>4, <1>7, <1>8, <1>9

LEMMA InitNoToolWindows == Init => NoToolWindows
BY ChildSets DEF Init, InitialLive, NoToolWindows, HasWindows

LEMMA NextNoToolWindows ==
    ASSUME TypeOK, NoToolWindows, [Next]_vars
    PROVE  NoToolWindows'
<1>. USE ChildSets DEF NoToolWindows, HasWindows, table, x11, wm, run, ctl, vars
<1>1. ASSUME NEW c \in Visible, WindowMapped(c) PROVE NoToolWindows'
  <2>1. c \notin Tools
    OBVIOUS
  <2>. QED BY <1>1, <2>1 DEF WindowMapped, TypeOK
<1>2. ASSUME NEW c \in Children, NEW d \in Displays, WindowDestroyed(c, d) PROVE NoToolWindows'
  <2>1. c \notin Tools
    BY <1>2 DEF WindowDestroyed
  <2>. QED BY <1>2, <2>1 DEF WindowDestroyed, TypeOK
<1>3. CASE FinishReload
  BY <1>3 DEF FinishReload, InitialLive
<1>4. CASE Event
  BY <1>1, <1>2, <1>4 DEF Event, SetVariable, BeginReap, BeginCleanup
<1>5. CASE Request
  <2>1. ASSUME NEW c \in Commands, NEW d \in Displays, NEW f \in Frames \cup {NoFrame}, NEW full \in BOOLEAN,
               StartCommand(c, d, f, full) \/ RejectCommand(c, d, f, full) PROVE UNCHANGED x11
    BY <2>1 DEF StartCommand, RejectCommand
  <2>2. ASSUME NEW c \in Commands \cup Tools, StartTool(c) \/ StopCommand(c) PROVE UNCHANGED x11
    BY <2>2 DEF StartTool, StopCommand
  <2>3. ASSUME NEW c \in Commands, NEW f \in Frames, MoveCommand(c, f) PROVE UNCHANGED x11
    BY <2>3 DEF MoveCommand
  <2>4. ASSUME NEW d \in Displays, ActivateLayout(d) PROVE UNCHANGED x11
    BY <2>4 DEF ActivateLayout
  <2>5. CASE Reset
    BY <2>5 DEF Reset
  <2>6. UNCHANGED x11
    BY <1>5, <2>1, <2>2, <2>3, <2>4, <2>5 DEF Request, Reset
  <2>. QED BY <2>6
<1>6. CASE Continue
  <2>1. ASSUME NEW w \in Windows, StartKeepalive(w) PROVE NoToolWindows'
    BY <2>1 DEF StartKeepalive
  <2>2. ASSUME NEW c \in Startable, ReapChild(c) PROVE NoToolWindows'
    BY <2>2 DEF ReapChild
  <2>3. CASE FinishInit \/ EndReap \/ Script \/ SkipBusy \/ Evict \/ GiveUp \/ StopMovedWindow
    BY <2>3 DEF FinishInit, EndReap, Script, SkipBusy, Evict, GiveUp, StopMovedWindow
  <2>4. CASE StartWindow \/ AwaitWindow \/ RaiseWindow \/ ApplyLayouts \/ CleanupRound \/ FinishExit
    BY <2>4 DEF StartWindow, AwaitWindow, RaiseWindow, ApplyLayouts, CleanupRound, FinishExit
  <2>. QED BY <1>3, <1>6, <2>1, <2>2, <2>3, <2>4 DEF Continue
<1>7. CASE Process
  BY <1>7 DEF Process, Exec, Exit, Killed, ProcStep
<1>8. CASE Down \/ UNCHANGED vars
  BY <1>8 DEF Down
<1>. QED BY <1>4, <1>5, <1>6, <1>7, <1>8 DEF Next

\* The script runs only where the children are not being stopped for good.
CleanupIsQuiet == pc = "cleanup" => ~auto

RunInv == CleanupIsQuiet /\ RunIsOnTrack /\ PlaceIsFree

LEMMA InitRunInv == Init => RunInv
BY DEF Init, RunInv, CleanupIsQuiet, RunIsOnTrack, PlaceIsFree

\* An assignment is dealt with, and its display is still seen as what it is.
LEMMA NextAssignmentOnTrack ==
    ASSUME TypeOK, RunIsOnTrack, pc \in {"apply", "place"}, todo # <<>>,
           NEW s \in {"ready", "busy", "waiting"}, s = "busy" <=> busy[Head(todo).display] > 0,
           NextAssignment(s), outcome' = outcome, busy' = busy
    PROVE  RunInv' /\ Done' = Done \cup {Head(todo)}
<1>1. /\ Done' = Done \cup {Head(todo)}
      /\ Len(todo') <= Len(outcome'.assign)
      /\ \A i \in DOMAIN todo' :
            todo'[i] = outcome'.assign[Len(outcome'.assign) - Len(todo') + i]
  BY DoneGrows DEF NextAssignment
<1>2. \A d \in Displays : status'[d] = "busy" <=> busy'[d] > 0
  BY DEF NextAssignment, RunIsOnTrack, TypeOK
<1>. QED BY <1>1, <1>2 DEF NextAssignment, RunInv, CleanupIsQuiet, RunIsOnTrack, PlaceIsFree

\* Outside the run and outside the cleanup there is nothing to show of a step.
LEMMA AwayFromRun ==
    ASSUME pc' \notin {"apply", "place", "cleanup"}
    PROVE  RunInv'
BY DEF RunInv, CleanupIsQuiet, RunIsOnTrack, PlaceIsFree

LEMMA StatusIsBusy ==
    ASSUME TypeOK, RunIsOnTrack, pc \in {"apply", "place"}, todo # <<>>
    PROVE  /\ status[Head(todo).display] \in {"ready", "busy", "waiting"}
           /\ status[Head(todo).display] = "busy" <=> busy[Head(todo).display] > 0
BY HeadType, StatusType DEF RunIsOnTrack

\* Where the run deals with an assignment, and what its steps leave alone.
LEMMA PlaceHead ==
    ASSUME TypeOK, PlaceIsFree, pc = "place"
    PROVE  /\ todo # <<>> /\ Head(todo) \in Assignment
           /\ Head(todo).window \in Windows /\ Head(todo).window \in Children
           /\ Head(todo).window \notin Commands
           /\ Head(todo).display \in Displays /\ Head(todo).frame \in Frames
           /\ busy[Head(todo).display] = 0
BY HeadType, ChildSets DEF TypeOK, PlaceIsFree

LEMMA RequestLeavesRun == Request => pc' \notin {"apply", "place", "cleanup"}
<1>1. ASSUME NEW c \in Commands, NEW d \in Displays, NEW f \in Frames \cup {NoFrame}, NEW full \in BOOLEAN,
             StartCommand(c, d, f, full) \/ RejectCommand(c, d, f, full)
      PROVE  pc' = "idle"
  BY <1>1 DEF StartCommand, RejectCommand, ctl
<1>2. ASSUME NEW c \in Commands \cup Tools, StartTool(c) \/ StopCommand(c) PROVE pc' = "idle"
  BY <1>2 DEF StartTool, StopCommand, ctl
<1>3. ASSUME NEW c \in Commands, NEW f \in Frames, MoveCommand(c, f) PROVE pc' = "idle"
  BY <1>3 DEF MoveCommand, ctl
<1>4. ASSUME NEW d \in Displays, ActivateLayout(d) PROVE pc' = "idle"
  BY <1>4 DEF ActivateLayout, ctl
<1>5. Reset => pc' \in {"idle", "script"}
  BY DEF Reset, RunAutomation
<1>. QED BY <1>1, <1>2, <1>3, <1>4, <1>5 DEF Request

LEMMA NextRunInv ==
    ASSUME TypeOK, ClosingQuiet, RunInv, [Next]_vars
    PROVE  RunInv'
<1>. USE DEF table, x11, wm, run, ctl, vars
<1>a. CleanupIsQuiet /\ RunIsOnTrack /\ PlaceIsFree
  BY DEF RunInv
<1>1. CASE Request
  BY <1>1, RequestLeavesRun, AwayFromRun
<1>2. CASE Event
  <2>1. ASSUME NEW o \in Outcomes, SetVariable(o) PROVE RunInv'
    BY <2>1, AwayFromRun DEF SetVariable, RunAutomation
  <2>2. ASSUME NEW c \in Visible, WindowMapped(c) PROVE RunInv'
    BY <2>2, AwayFromRun DEF WindowMapped, RunIfAutomated, RunAutomation
  <2>3. ASSUME NEW c \in Children, NEW d \in Displays, WindowDestroyed(c, d) PROVE RunInv'
    BY <2>3, AwayFromRun DEF WindowDestroyed
  <2>4. ASSUME BeginReap PROVE RunInv'
    BY <2>4, AwayFromRun DEF BeginReap
  <2>5. ASSUME NEW next \in Closings, BeginCleanup(next) PROVE RunInv'
    BY <2>5 DEF BeginCleanup, RunInv, CleanupIsQuiet, RunIsOnTrack, PlaceIsFree
  <2>. QED BY <1>2, <2>1, <2>2, <2>3, <2>4, <2>5 DEF Event
<1>3. ASSUME NEW w \in Windows, StartKeepalive(w) PROVE RunInv'
  BY <1>3, AwayFromRun DEF StartKeepalive
<1>4. ASSUME NEW c \in Startable, ReapChild(c) PROVE RunInv'
  BY <1>4, AwayFromRun DEF ReapChild, RunAutomation
<1>5. CASE FinishInit \/ CleanupRound \/ FinishExit \/ FinishReload
  BY <1>5, AwayFromRun DEF FinishInit, CleanupRound, FinishExit, FinishReload
<1>6. CASE EndReap
  BY <1>6 DEF EndReap, ClosingQuiet, RunInv, CleanupIsQuiet, RunIsOnTrack, PlaceIsFree
<1>7. CASE Script
  <2>1. todo' = outcome'.assign /\ pc' = "apply" /\ busy' = busy
    BY <1>7 DEF Script
  <2>2. \A d \in Displays : status'[d] = "busy" <=> busy'[d] > 0
    BY <1>7 DEF Script, Ready
  <2>3. Len(todo') \in Nat /\ \A i \in DOMAIN todo' : i \in Int
    BY <1>7 DEF Script, TypeOK
  <2>4. \A i \in DOMAIN todo' : Len(outcome'.assign) - Len(todo') + i = i
    BY <2>1, <2>3
  <2>. QED BY <2>1, <2>2, <2>3, <2>4 DEF RunInv, CleanupIsQuiet, RunIsOnTrack, PlaceIsFree
<1>8. CASE SkipBusy
  BY <1>8, <1>a, StatusIsBusy, NextAssignmentOnTrack DEF SkipBusy
<1>9. CASE Evict
  <2>1. todo # <<>> /\ ~(busy[Head(todo).display] > 0)
    BY <1>9, <1>a, StatusIsBusy DEF Evict
  <2>2. busy[Head(todo).display] = 0
    BY <2>1, HeadType DEF TypeOK
  <2>. QED BY <1>9, <1>a, <2>2 DEF Evict, RunInv, CleanupIsQuiet, RunIsOnTrack, PlaceIsFree
<1>10. CASE GiveUp
  BY <1>10, <1>a, PlaceHead, StatusIsBusy, NextAssignmentOnTrack DEF GiveUp
<1>11. CASE StartWindow
  <2>1. busy' = busy
    BY <1>11, <1>a, PlaceHead DEF StartWindow, Start, Fork, ForkFails
  <2>. QED BY <1>11, <1>a, <2>1, PlaceHead, NextAssignmentOnTrack DEF StartWindow
<1>12. CASE StopMovedWindow
  BY <1>12, <1>a, PlaceHead, NextAssignmentOnTrack DEF StopMovedWindow
<1>13. CASE AwaitWindow
  BY <1>13, <1>a, PlaceHead, NextAssignmentOnTrack DEF AwaitWindow
<1>14. CASE RaiseWindow
  BY <1>14, <1>a, PlaceHead, StatusIsBusy, NextAssignmentOnTrack DEF RaiseWindow
<1>15. CASE ApplyLayouts
  BY <1>15, AwayFromRun DEF ApplyLayouts, TypeOK
<1>16. CASE Process \/ UNCHANGED vars
  <2>1. UNCHANGED <<pc, auto, todo, status, busy, outcome>>
    BY <1>16 DEF Process, Exec, Exit, Killed, ProcStep
  <2>. QED BY <1>a, <2>1 DEF RunInv, CleanupIsQuiet, RunIsOnTrack, PlaceIsFree
<1>. QED BY <1>1, <1>2, <1>3, <1>4, <1>5, <1>6, <1>7, <1>8, <1>9, <1>10, <1>11, <1>12, <1>13, <1>14, <1>15, <1>16
   DEF Next, Continue, Down

\* Three things keep an assignment settled: nothing happens to its window, no other child comes
\* into its frame, and the stack changes elsewhere.
LEMMA CalmIf ==
    ASSUME TypeOK, StackInv, NEW a \in Assignment,
           state'[a.window] = "running" =>
               /\ state[a.window] = "running"
               /\ display'[a.window] = display[a.window] /\ frame'[a.window] = frame[a.window]
               /\ HasWindows(a.window)' => HasWindows(a.window),
           state'[a.window] = "stopped" =>
               state[a.window] = "stopped" /\ tries'[a.window] >= tries[a.window],
           \A x \in Children \ {a.window} :
               Shown(x, a.display, a.frame)' => Shown(x, a.display, a.frame),
           \/ order' = order
           \/ \E c \in Children \ {a.window} :
                 order' = Raised(c) /\ ~Shown(c, a.display, a.frame)'
           \/ \E S \in SUBSET Children :
                 order' = Lowered(S) /\ \A x \in S : state'[x] # "running"
    PROVE  Calm(a)
<1>. DEFINE w == a.window
<1>1. w \in Startable /\ w \in Children
  BY ChildSets DEF Assignment
<1>2. ASSUME NEW x \in Children \ {w}, state'[w] = "running", Shown(x, a.display, a.frame)',
             order[x] <= order[w]
      PROVE  order'[x] <= order'[w]
  <2>1. w \in StackOf(order) /\ Ranked(order)
    BY <1>1, <1>2 DEF StackInv, StackIsStrict, Stacked, StackOf
  <2>2. CASE order' = order
    BY <1>2, <2>2
  <2>3. ASSUME NEW c \in Children \ {w}, order' = Raised(c), ~Shown(c, a.display, a.frame)'
        PROVE  order'[x] <= order'[w]
    <3>1. x # c /\ w \in StackOf(order) \ {c}
      BY <1>2, <2>1, <2>3
    <3>. QED BY <1>2, <2>1, <2>3, <3>1, RaisedKeeps
  <2>4. ASSUME NEW S \in SUBSET Children, order' = Lowered(S), \A y \in S : state'[y] # "running"
        PROVE  order'[x] <= order'[w]
    <3>1. x \in Children \ S /\ w \in StackOf(order) \ S
      BY <1>2, <2>1, <2>4 DEF Shown
    <3>. QED BY <1>2, <2>1, <2>4, <3>1, LoweredKeeps
  <2>. QED BY <2>2, <2>3, <2>4
<1>. QED BY <1>2 DEF Calm

\* Steps that leave the table alone, and of the windows show no more than before.
LEMMA CalmUnlessShown ==
    ASSUME TypeOK, StackInv, NEW a \in Assignment,
           UNCHANGED <<state, display, frame, order, tries>>,
           \A x \in Children : display[x] = a.display /\ HasWindows(x)' => HasWindows(x),
           display[a.window] # a.display => (HasWindows(a.window)' => HasWindows(a.window))
    PROVE  Calm(a)
<1>1. a.window \in Windows /\ a.window \in Children
  BY ChildSets DEF Assignment
<1>2. tries[a.window] >= tries[a.window]
  BY <1>1 DEF TypeOK
<1>3. \A x \in Children : Shown(x, a.display, a.frame)' => Shown(x, a.display, a.frame)
  BY DEF Shown
<1>. QED BY <1>1, <1>2, <1>3, CalmIf

\* child_stop leaves what it does not stop as it was.
LEMMA CalmTerminate ==
    ASSUME TypeOK, StackInv, NEW a \in Assignment, NEW S \in SUBSET Startable,
           \A c \in S : Active(c), Terminate(S), UNCHANGED <<display, frame, x11>>,
           a.window \notin S => tries'[a.window] >= tries[a.window]
    PROVE  Calm(a)
<1>. USE ChildSets
<1>1. a.window \in Windows /\ a.window \in Children
  BY DEF Assignment
<1>2. \A x \in Children : HasWindows(x)' = HasWindows(x)
  BY DEF HasWindows, x11
<1>3. \A x \in Children :
         /\ x \in S => state'[x] = "terminated"
         /\ x \notin S => state'[x] = state[x]
  BY DEF Terminate
<1>4. \A x \in Children : Shown(x, a.display, a.frame)' => Shown(x, a.display, a.frame)
  BY <1>2, <1>3 DEF Shown
<1>5. \E T \in SUBSET Children : order' = Lowered(T) /\ \A x \in T : state'[x] # "running"
  <2>1. S \ Repatriated \in SUBSET Children /\ \A x \in S \ Repatriated : state'[x] # "running"
    BY <1>3
  <2>. QED BY <2>1 DEF Terminate
<1>. QED BY <1>1, <1>2, <1>3, <1>4, <1>5, CalmIf

\* A child that is raised into another frame, with what child_start or the automation
\* writes into its entry.
LEMMA CalmRaise ==
    ASSUME TypeOK, StackInv, NEW a \in Assignment, NEW c \in Children, c # a.window,
           order' = Raised(c), ~Shown(c, a.display, a.frame)', x11' = x11,
           \A x \in Children \ {c} :
               state'[x] = state[x] /\ display'[x] = display[x] /\ frame'[x] = frame[x],
           tries'[a.window] = tries[a.window]
    PROVE  Calm(a)
<1>1. a.window \in Windows /\ a.window \in Children \ {c}
  BY ChildSets DEF Assignment
<1>2. tries[a.window] >= tries[a.window]
  BY <1>1 DEF TypeOK
<1>3. \A x \in Children : HasWindows(x)' = HasWindows(x)
  BY DEF HasWindows, x11
<1>4. \A x \in Children : Shown(x, a.display, a.frame)' => Shown(x, a.display, a.frame)
  BY <1>3 DEF Shown
<1>. QED BY <1>1, <1>2, <1>3, <1>4, CalmIf

LEMMA CommandIsBusy ==
    ASSUME TypeOK, BusyIsCounted, NEW c \in Commands, Active(c)
    PROVE  busy[display[c]] # 0
<1>1. display[c] \in Displays /\ c \in Holders(display[c])
  BY ChildSets DEF Holders, TypeOK
<1>2. Cardinality(Holders(display[c])) # 0
  BY <1>1, HoldersFinite, FS_EmptySet
<1>. QED BY <1>1, <1>2 DEF BusyIsCounted

\* The window that is raised into a frame of a free display is the one the frame shows.
LEMMA RaisedSettled ==
    ASSUME TypeOK, StackInv, BusyIsCounted, NoToolWindows, NEW a \in Assignment,
           busy[a.display] = 0, order' = Raised(a.window), x11' = x11,
           display'[a.window] = a.display, frame'[a.window] = a.frame,
           \A x \in Children \ {a.window} :
               state'[x] = state[x] /\ display'[x] = display[x] /\ frame'[x] = frame[x],
           state'[a.window] = "running"
    PROVE  Settled(a)'
<1>. DEFINE w == a.window
            user == Commands \cup Tools
<1>1. w \in Children /\ w \notin user
  BY ChildSets DEF Assignment
<1>2. Ranked(order) /\ order' \in [Children -> Int]
  BY <1>1, RaisedType DEF StackInv
<1>3. ASSUME NEW x \in Children, Shown(x, a.display, a.frame)'
      PROVE  x \notin user /\ order'[x] <= order'[w]
  <2>1. CASE x = w
    BY <1>1, <1>2, <2>1
  <2>2. CASE x # w
    <3>1. Shown(x, a.display, a.frame)
      BY <1>3, <2>2 DEF Shown, HasWindows, x11
    <3>2. x \notin Commands
      <4>1. SUFFICES ASSUME x \in Commands PROVE FALSE
        OBVIOUS
      <4>2. Active(x) /\ display[x] = a.display
        BY <3>1 DEF Shown, Active
      <4>. QED BY <4>1, <4>2, CommandIsBusy
    <3>3. x \notin Tools
      BY <3>1 DEF Shown, NoToolWindows
    <3>4. order'[x] < order'[w]
      BY <1>1, <1>2, <2>2, RaisedTop
    <3>. QED BY <1>1, <1>2, <3>2, <3>3, <3>4
  <2>. QED BY <2>1, <2>2
<1>4. HasWindows(w)' => Occupies(w, a.display, a.frame)'
  BY <1>1, <1>3 DEF Occupies, Shown
<1>. QED BY <1>4 DEF Settled, InPlace

SettledInv == DoneSettled /\ ReadyShown

LEMMA NothingDone ==
    ASSUME Done' = {}
    PROVE  SettledInv'
BY DEF SettledInv, DoneSettled, ReadyShown

\* A step keeps the assignments that were dealt with settled, and settles those it adds.
LEMMA SettledStep ==
    ASSUME TypeOK, TypeOK', DoneSettled, NEW N \in SUBSET Assignment, Done' \subseteq Done \cup N,
           \A a \in Done : busy'[a.display] = 0 => busy[a.display] = 0 /\ Calm(a),
           \A a \in N : busy'[a.display] = 0 => Settled(a)'
    PROVE  DoneSettled'
<1>1. Done \subseteq Assignment
  BY DoneTypes
<1>2. ASSUME NEW a \in Done, busy'[a.display] = 0 PROVE Settled(a)'
  <2>1. a \in Assignment /\ Settled(a) /\ Calm(a)
    BY <1>1, <1>2 DEF DoneSettled
  <2>. QED BY <2>1, Undisturbed
<1>. QED BY <1>2 DEF DoneSettled

\* The same for the windows on displays that are to be shown.
LEMMA ReadyStep ==
    ASSUME ReadyShown, pc \in {"apply", "place"}, NEW N, Done' \subseteq Done \cup N,
           \A a \in Done :
               /\ status'[a.display] = "ready" => status[a.display] = "ready"
               /\ state'[a.window] = "running" => state[a.window] = "running",
           x11' = x11,
           \A a \in N : status'[a.display] = "ready" /\ state'[a.window] = "running"
                            => HasWindows(a.window)
    PROVE  ReadyShown'
BY DEF ReadyShown, HasWindows, x11

\* Away from the run, what is dealt with stays so or is forgotten.
LEMMA DoneAway ==
    ASSUME TypeOK, pc \in {"idle", "reap"}, pc' \in {"idle", "reap"},
           auto' = auto, outcome' = outcome
    PROVE  Done' = Done /\ ReadyShown'
BY DEF Done, ReadyShown

\* Between two handlers a request may change what is shown, but not where the script rules.
LEMMA RequestSettled ==
    ASSUME TypeOK, TypeOK', BusyIsCounted, NoToolWindows, StackInv, DoneSettled, Request
    PROVE  SettledInv'
<1>. USE ChildSets DEF table, x11, wm, run, ctl, vars
<1>. DEFINE Calms == \A a \in Done : busy'[a.display] = 0 => busy[a.display] = 0 /\ Calm(a)
<1>1. ASSUME pc = "idle", UNCHANGED <<pc, auto, outcome>>, Calms PROVE SettledInv'
  <2>1. Done' = Done /\ ReadyShown'
    BY <1>1, DoneAway
  <2>2. Done' \subseteq Done \cup {} /\ {} \in SUBSET Assignment
    BY <2>1
  <2>3. DoneSettled'
    BY <1>1, <2>2, SettledStep
  <2>. QED BY <2>1, <2>3 DEF SettledInv
<1>2. ASSUME NEW a \in Done
      PROVE  /\ a \in Assignment /\ a.display \in Displays
             /\ a.window \in Windows /\ a.window \notin Commands \cup Tools
             /\ tries[a.window] \in Nat /\ busy[a.display] \in Nat
  BY DoneTypes DEF TypeOK
<1>. HIDE DEF Calms
<1>3. ASSUME NEW c \in Commands, NEW d \in Displays, NEW f \in Frames \cup {NoFrame}, NEW full \in BOOLEAN,
             StartCommand(c, d, f, full) PROVE SettledInv'
  <2>1. /\ Start(c, d, NewFrame(c, f), Fullscreen(c, full)) /\ ~Active(c)
        /\ pc = "idle" /\ UNCHANGED <<pc, auto, outcome, x11>>
    BY <1>3 DEF StartCommand
  <2>2. ASSUME NEW a \in Done, busy'[a.display] = 0 PROVE busy[a.display] = 0 /\ Calm(a)
    <3>1. CASE Fork(c, d)
      <4>1. a.display # d /\ busy[a.display] = 0
        <5>1. busy' = [busy EXCEPT ![d] = @ + 1] /\ busy \in [Displays -> Nat]
          BY <3>1 DEF Fork, TypeOK
        <5>2. a.display \in Displays /\ busy[a.display] \in Nat
          BY <1>2
        <5>. QED BY <2>2, <5>1, <5>2
      <4>2. ~Shown(c, a.display, a.frame)'
        BY <2>1, <4>1 DEF Start, Shown, TypeOK
      <4>3. \A x \in Children \ {c} :
               state'[x] = state[x] /\ display'[x] = display[x] /\ frame'[x] = frame[x]
        BY <2>1, <3>1 DEF Start, Fork, TypeOK
      <4>4. order' = Raised(c) /\ tries'[a.window] = tries[a.window]
        BY <1>2, <2>1 DEF Start, Counted
      <4>. QED BY <1>2, <2>1, <4>1, <4>2, <4>3, <4>4, CalmRaise
    <3>2. CASE ForkFails
      <4>1. busy[a.display] = 0
        BY <2>2, <3>2 DEF ForkFails
      <4>2. ~Shown(c, a.display, a.frame)'
        BY <2>1, <3>2 DEF ForkFails, Shown, Active
      <4>3. \A x \in Children \ {c} :
               state'[x] = state[x] /\ display'[x] = display[x] /\ frame'[x] = frame[x]
        BY <2>1, <3>2 DEF Start, ForkFails, TypeOK
      <4>4. order' = Raised(c) /\ tries'[a.window] = tries[a.window]
        BY <1>2, <2>1 DEF Start, Counted
      <4>. QED BY <1>2, <2>1, <4>1, <4>2, <4>3, <4>4, CalmRaise
    <3>. QED BY <2>1, <3>1, <3>2 DEF Start
  <2>. QED BY <1>1, <2>1, <2>2 DEF Calms
<1>4. ASSUME NEW c \in Commands, NEW d \in Displays, NEW f \in Frames \cup {NoFrame}, NEW full \in BOOLEAN,
             RejectCommand(c, d, f, full) PROVE SettledInv'
  <2>1. ASSUME NEW a \in Done, busy'[a.display] = 0 PROVE busy[a.display] = 0 /\ Calm(a)
    <3>1. /\ busy' = busy /\ UNCHANGED <<state, order, tries, live, ghost>> /\ state[c] = "stopped"
          /\ \A x \in Children \ {c} : display'[x] = display[x] /\ frame'[x] = frame[x]
      BY <1>4 DEF RejectCommand, Active, TypeOK
    <3>2. \A x \in Children : HasWindows(x)' = HasWindows(x)
      BY <3>1 DEF HasWindows
    <3>3. \A x \in Children : Shown(x, a.display, a.frame)' => Shown(x, a.display, a.frame)
      BY <3>1, <3>2 DEF Shown
    <3>4. a.window # c /\ a.window \in Children /\ tries'[a.window] >= tries[a.window]
      BY <1>2, <3>1
    <3>. QED BY <1>2, <2>1, <3>1, <3>2, <3>3, <3>4, CalmIf
  <2>. QED BY <1>1, <1>4, <2>1 DEF RejectCommand, Calms
<1>5. ASSUME NEW c \in Tools, StartTool(c) PROVE SettledInv'
  <2>1. /\ Start(c, display[c], frame[c], FALSE) /\ c \notin Commands
        /\ pc = "idle" /\ UNCHANGED <<pc, auto, outcome, x11>>
    BY <1>5 DEF StartTool
  <2>2. ASSUME NEW a \in Done, busy'[a.display] = 0 PROVE busy[a.display] = 0 /\ Calm(a)
    <3>1. ~Shown(c, a.display, a.frame)'
      BY <2>1 DEF Shown, HasWindows, NoToolWindows
    <3>2. /\ busy' = busy
          /\ \A x \in Children \ {c} :
               state'[x] = state[x] /\ display'[x] = display[x] /\ frame'[x] = frame[x]
      BY <2>1 DEF Start, Fork, ForkFails, TypeOK
    <3>3. order' = Raised(c) /\ tries'[a.window] = tries[a.window]
      BY <1>2, <2>1 DEF Start, Counted
    <3>. QED BY <1>2, <2>1, <2>2, <3>1, <3>2, <3>3, CalmRaise
  <2>. QED BY <1>1, <2>1, <2>2 DEF Calms
<1>6. ASSUME NEW c \in Commands \cup Tools, StopCommand(c) PROVE SettledInv'
  <2>1. /\ Stop({c}) /\ Active(c) /\ UNCHANGED <<display, frame, x11, busy>>
        /\ pc = "idle" /\ UNCHANGED <<pc, auto, outcome>>
    BY <1>6 DEF StopCommand
  <2>2. ASSUME NEW a \in Done, busy'[a.display] = 0 PROVE busy[a.display] = 0 /\ Calm(a)
    <3>1. tries'[a.window] >= tries[a.window]
      BY <1>2, <2>1 DEF Stop
    <3>2. Terminate({c}) /\ {c} \in SUBSET Startable /\ \A x \in {c} : Active(x)
      BY <2>1 DEF Stop
    <3>. QED BY <1>2, <2>1, <2>2, <3>1, <3>2, CalmTerminate
  <2>. QED BY <1>1, <2>1, <2>2 DEF Calms
<1>7. ASSUME NEW c \in Commands, NEW f \in Frames, MoveCommand(c, f) PROVE SettledInv'
  <2>1. /\ Active(c) /\ order' = Raised(c) /\ UNCHANGED <<state, display, tries, x11, busy>>
        /\ \A x \in Children \ {c} : frame'[x] = frame[x]
        /\ pc = "idle" /\ UNCHANGED <<pc, auto, outcome>>
    BY <1>7 DEF MoveCommand, TypeOK
  <2>2. ASSUME NEW a \in Done, busy'[a.display] = 0 PROVE busy[a.display] = 0 /\ Calm(a)
    <3>1. display[c] # a.display
      BY <2>1, <2>2, CommandIsBusy
    <3>2. ~Shown(c, a.display, a.frame)'
      BY <2>1, <3>1 DEF Shown
    <3>. QED BY <1>2, <2>1, <2>2, <3>2, CalmRaise
  <2>. QED BY <1>1, <2>1, <2>2 DEF Calms
<1>8. ASSUME NEW d \in Displays, ActivateLayout(d) PROVE SettledInv'
  <2>1. /\ UNCHANGED <<state, display, frame, order, tries, x11, busy>>
        /\ pc = "idle" /\ UNCHANGED <<pc, auto, outcome>>
    BY <1>8 DEF ActivateLayout
  <2>2. \A x \in Children : HasWindows(x)' = HasWindows(x)
    BY <2>1 DEF HasWindows
  <2>3. ASSUME NEW a \in Done, busy'[a.display] = 0 PROVE busy[a.display] = 0 /\ Calm(a)
    BY <1>2, <2>1, <2>2, <2>3, CalmUnlessShown
  <2>. QED BY <1>1, <2>1, <2>3 DEF Calms
<1>9. CASE Reset
  <2>1. Done' = {}
    BY <1>9 DEF Reset, RunAutomation, Done
  <2>. QED BY <2>1, NothingDone
<1>. QED BY <1>3, <1>4, <1>5, <1>6, <1>7, <1>8, <1>9 DEF Request

\* What moves between two handlers leaves settled what the script has settled, or has it run again.
LEMMA EventSettled ==
    ASSUME TypeOK, TypeOK', BusyIsCounted, StackInv, DoneSettled, Event
    PROVE  SettledInv'
<1>. USE ChildSets DEF table, x11, wm, run, ctl, vars
<1>1. ASSUME NEW o \in Outcomes, SetVariable(o) PROVE SettledInv'
  <2>1. Done' = {}
    BY <1>1 DEF SetVariable, RunAutomation, Done
  <2>. QED BY <2>1, NothingDone
<1>2. ASSUME NEW next \in Closings, BeginCleanup(next) PROVE SettledInv'
  <2>1. Done' = {}
    BY <1>2 DEF BeginCleanup, Done
  <2>. QED BY <2>1, NothingDone
<1>3. ASSUME pc = "idle", pc' \in {"idle", "reap"},
             UNCHANGED <<auto, outcome, busy, state, display, frame, order, tries>>,
             \A x \in Children : HasWindows(x)' /\ ~HasWindows(x) => x \in Commands /\ Active(x)
      PROVE  SettledInv'
  <2>1. Done' = Done /\ ReadyShown'
    BY <1>3, DoneAway
  <2>2. ASSUME NEW a \in Done, busy'[a.display] = 0 PROVE busy[a.display] = 0 /\ Calm(a)
    <3>1. a \in Assignment /\ a.window \in Children /\ a.window \notin Commands
      BY DoneTypes
    <3>2. \A x \in Children : display[x] = a.display /\ HasWindows(x)' => HasWindows(x)
      BY <1>3, <2>2, CommandIsBusy
    <3>. QED BY <1>3, <2>2, <3>1, <3>2, CalmUnlessShown
  <2>3. Done' \subseteq Done \cup {} /\ {} \in SUBSET Assignment
    BY <2>1
  <2>4. DoneSettled'
    BY <2>2, <2>3, SettledStep
  <2>. QED BY <2>1, <2>4 DEF SettledInv
<1>4. ASSUME NEW c \in Visible, WindowMapped(c) PROVE SettledInv'
  <2>1. CASE c \in Windows
    <3>1. Done' = {}
      BY <1>4, <2>1 DEF WindowMapped, RunIfAutomated, RunAutomation, Done
    <3>. QED BY <3>1, NothingDone
  <2>2. CASE c \notin Windows
    <3>1. c \in Commands /\ Active(c)
      BY <1>4, <2>2 DEF WindowMapped, Active
    <3>2. \A x \in Children : HasWindows(x)' /\ ~HasWindows(x) => x = c
      BY <1>4 DEF WindowMapped, HasWindows, TypeOK
    <3>3. /\ pc = "idle" /\ pc' = "idle"
          /\ UNCHANGED <<auto, outcome, busy, state, display, frame, order, tries>>
      BY <1>4, <2>2 DEF WindowMapped, RunIfAutomated
    <3>. QED BY <1>3, <3>1, <3>2, <3>3
  <2>. QED BY <2>1, <2>2
<1>5. ASSUME NEW c \in Children, NEW d \in Displays, WindowDestroyed(c, d) PROVE SettledInv'
  <2>1. \A x \in Children : HasWindows(x)' => HasWindows(x)
    BY <1>5 DEF WindowDestroyed, HasWindows, TypeOK
  <2>2. /\ pc = "idle" /\ pc' = "idle"
        /\ UNCHANGED <<auto, outcome, busy, state, display, frame, order, tries>>
    BY <1>5 DEF WindowDestroyed
  <2>. QED BY <1>3, <2>1, <2>2
<1>6. CASE BeginReap
  <2>1. \A x \in Children : HasWindows(x)' => HasWindows(x)
    BY <1>6 DEF BeginReap, HasWindows
  <2>2. /\ pc = "idle" /\ pc' = "reap"
        /\ UNCHANGED <<auto, outcome, busy, state, display, frame, order, tries>>
    BY <1>6 DEF BeginReap
  <2>. QED BY <1>3, <2>1, <2>2
<1>. QED BY <1>1, <1>2, <1>4, <1>5, <1>6 DEF Event

\* The steps of the run: h is the assignment at hand, N what the step is done with.
LEMMA RunStep ==
    ASSUME TypeOK, TypeOK', DoneSettled, ReadyShown, RunInv, pc \in {"apply", "place"},
           NEW N \in SUBSET Assignment, Done' = Done \cup N, busy' = busy, x11' = x11,
           \A a \in Done :
               /\ Calm(a)
               /\ status'[a.display] = "ready" => status[a.display] = "ready"
               /\ state'[a.window] = "running" => state[a.window] = "running",
           \A a \in N :
               /\ busy[a.display] = 0 => Settled(a)'
               /\ status'[a.display] = "ready" /\ state'[a.window] = "running"
                    => HasWindows(a.window)
    PROVE  SettledInv'
BY SettledStep, ReadyStep DEF SettledInv

\* The run decides about an assignment without touching the children.
LEMMA DecideStep ==
    ASSUME TypeOK, TypeOK', StackInv, DoneSettled, ReadyShown, RunInv, pc \in {"apply", "place"},
           todo # <<>>, NEW s \in {"ready", "busy", "waiting"},
           s = "busy" <=> busy[Head(todo).display] > 0,
           s = "ready" => status[Head(todo).display] = "ready" /\ state[Head(todo).window] # "running",
           NextAssignment(s), UNCHANGED <<table, x11, busy, outcome>>,
           busy[Head(todo).display] = 0 => Settled(Head(todo))
    PROVE  SettledInv'
<1>. USE DEF table
<1>h. PICK h \in Assignment : h = Head(todo)
  BY HeadType
<1>1. h \in Assignment /\ h.window \in Children /\ h.display \in Displays
  BY ChildSets DEF Assignment
<1>2. Done' = Done \cup {h}
  BY <1>h, NextAssignmentOnTrack DEF RunInv
<1>3. \A x \in Children : HasWindows(x)' = HasWindows(x)
  BY DEF HasWindows, x11
<1>4. ASSUME NEW a \in Assignment PROVE Calm(a)
  <2>1. a.window \in Children
    BY ChildSets DEF Assignment
  <2>. QED BY <1>3, <2>1, CalmUnlessShown
<1>5. ASSUME NEW a \in Done
      PROVE  status'[a.display] = "ready" => status[a.display] = "ready"
  <2>1. a.display \in Displays
    BY DoneTypes
  <2>. QED BY <1>h, <1>1, <2>1 DEF NextAssignment, TypeOK
<1>6. busy[h.display] = 0 => Settled(h)'
  BY <1>h, <1>1, <1>4, Undisturbed
<1>7. ~(status'[h.display] = "ready" /\ state'[h.window] = "running")
  BY <1>h, <1>1 DEF NextAssignment, TypeOK
<1>8. PICK N \in SUBSET Assignment : N = {h}
  OBVIOUS
<1>9. \A a \in N : /\ busy[a.display] = 0 => Settled(a)'
                   /\ status'[a.display] = "ready" /\ state'[a.window] = "running"
                        => HasWindows(a.window)
  BY <1>6, <1>7, <1>8
<1>10. \A a \in Done : /\ Calm(a)
                       /\ status'[a.display] = "ready" => status[a.display] = "ready"
                       /\ state'[a.window] = "running" => state[a.window] = "running"
  BY <1>4, <1>5, DoneTypes
<1>11. Done' = Done \cup N
  BY <1>2, <1>8
<1>. QED BY <1>9, <1>10, <1>11, RunStep

\* child_stop within the run: what it stops needs no window, and nothing else is touched.
LEMMA StopStep ==
    ASSUME TypeOK, TypeOK', StackInv, DoneSettled, ReadyShown, RunInv, pc \in {"apply", "place"},
           NEW S \in SUBSET Windows, \A c \in S : Active(c), Stop(S),
           UNCHANGED <<display, frame, x11, busy>>,
           NEW N \in SUBSET Assignment, Done' = Done \cup N, \A a \in N : a.window \in S,
           \A d \in Displays : status'[d] = "ready" => status[d] = "ready"
    PROVE  SettledInv'
<1>. USE ChildSets
<1>1. \A c \in S : state'[c] = "terminated"
  BY DEF Stop, Terminate
<1>2. ASSUME NEW a \in Done
      PROVE  /\ Calm(a)
             /\ status'[a.display] = "ready" => status[a.display] = "ready"
             /\ state'[a.window] = "running" => state[a.window] = "running"
  <2>1. a \in Assignment /\ a.window \in Windows /\ a.window \in Children /\ a.display \in Displays
    BY DoneTypes
  <2>2. a.window \notin S => tries'[a.window] >= tries[a.window]
    BY <2>1 DEF Stop, TypeOK
  <2>3. Calm(a)
    BY <2>1, <2>2, CalmTerminate DEF Stop
  <2>4. state'[a.window] = "running" => state[a.window] = "running"
    BY <1>1, <2>1 DEF Stop, Terminate
  <2>. QED BY <2>1, <2>3, <2>4
<1>3. ASSUME NEW a \in N PROVE Settled(a)' /\ state'[a.window] # "running"
  BY <1>1 DEF Settled
<1>4. \A a \in N : /\ busy[a.display] = 0 => Settled(a)'
                   /\ status'[a.display] = "ready" /\ state'[a.window] = "running"
                        => HasWindows(a.window)
  BY <1>3
<1>5. \A a \in Done : /\ Calm(a)
                      /\ status'[a.display] = "ready" => status[a.display] = "ready"
                      /\ state'[a.window] = "running" => state[a.window] = "running"
  BY <1>2
<1>. QED BY <1>4, <1>5, RunStep

\* A window that is started or raised settles its assignment and disturbs no other one.
LEMMA RaiseStep ==
    ASSUME TypeOK, TypeOK', BusyIsCounted, NoToolWindows, StackInv, DoneSettled, ReadyShown, RunInv,
           pc = "place", NEW h \in Assignment, h = Head(todo),
           NEW s \in {"ready", "waiting"}, NextAssignment(s), outcome' = outcome,
           s = "ready" => status[h.display] = "ready" /\ HasWindows(h.window),
           order' = Raised(h.window), busy' = busy, x11' = x11,
           display'[h.window] = h.display, frame'[h.window] = h.frame,
           \A x \in Children \ {h.window} :
               state'[x] = state[x] /\ display'[x] = display[x] /\ frame'[x] = frame[x],
           \A w \in Windows \ {h.window} : tries'[w] = tries[w],
           state'[h.window] = "stopped" => tries'[h.window] > 0
    PROVE  SettledInv'
<1>1. /\ todo # <<>> /\ h.window \in Windows /\ h.window \in Children
      /\ h.display \in Displays /\ h.frame \in Frames /\ busy[h.display] = 0
  BY PlaceHead DEF RunInv
<1>2. Done' = Done \cup {h}
  BY <1>1, NextAssignmentOnTrack DEF RunInv
<1>3. \A a \in Done : a.window # h.window /\ (a.display # h.display \/ a.frame # h.frame)
  BY <1>1, DoneGrows DEF RunInv, NextAssignment
<1>4. ASSUME NEW a \in Done
      PROVE  /\ Calm(a)
             /\ status'[a.display] = "ready" => status[a.display] = "ready"
             /\ state'[a.window] = "running" => state[a.window] = "running"
  <2>1. /\ a \in Assignment /\ a.window \in Windows \ {h.window}
        /\ a.window \in Children \ {h.window} /\ a.display \in Displays
    BY <1>3, DoneTypes
  <2>2. ~Shown(h.window, a.display, a.frame)'
    BY <1>3 DEF Shown
  <2>3. Calm(a)
    BY <1>1, <2>1, <2>2, CalmRaise
  <2>4. status'[a.display] = "ready" => status[a.display] = "ready"
    <3>1. status' = [status EXCEPT ![h.display] = s]
      BY DEF NextAssignment
    <3>2. status'[a.display] = s \/ status'[a.display] = status[a.display]
      BY <2>1, <3>1 DEF TypeOK
    <3>3. a.display = h.display \/ status'[a.display] = status[a.display]
      BY <3>1
    <3>. QED BY <3>2, <3>3
  <2>. QED BY <2>1, <2>3, <2>4
<1>5. Settled(h)'
  <2>1. CASE state'[h.window] = "running"
    BY <1>1, <2>1, RaisedSettled
  <2>2. CASE state'[h.window] # "running"
    BY <1>1, <2>2 DEF Settled
  <2>. QED BY <2>1, <2>2
<1>6. status'[h.display] = "ready" => HasWindows(h.window)
  BY <1>1 DEF NextAssignment, TypeOK
<1>s. {h} \in SUBSET Assignment
  OBVIOUS
<1>7. PICK N \in SUBSET Assignment : N = {h}
  BY <1>s, Zenon
<1>8. \A a \in N : /\ busy[a.display] = 0 => Settled(a)'
                   /\ status'[a.display] = "ready" /\ state'[a.window] = "running"
                        => HasWindows(a.window)
  BY <1>5, <1>6, <1>7
<1>9. \A a \in Done : /\ Calm(a)
                      /\ status'[a.display] = "ready" => status[a.display] = "ready"
                      /\ state'[a.window] = "running" => state[a.window] = "running"
  BY <1>4
<1>10. Done' = Done \cup N
  BY <1>2, <1>7
<1>. QED BY <1>8, <1>9, <1>10, RunStep

\* What the daemon does by itself settles one assignment after the other.
LEMMA ContinueSettled ==
    ASSUME TypeOK, TypeOK', BusyIsCounted, NoToolWindows, StackInv, RunInv, SettledInv, Continue
    PROVE  SettledInv'
<1>. USE ChildSets DEF table, x11, wm, run, ctl, vars
<1>a. DoneSettled /\ ReadyShown /\ CleanupIsQuiet /\ RunIsOnTrack /\ PlaceIsFree
  BY DEF SettledInv, RunInv
<1>1. ASSUME NEW w \in Windows, StartKeepalive(w) PROVE SettledInv'
  <2>1. Done' = {}
    BY <1>1 DEF StartKeepalive, Done
  <2>. QED BY <2>1, NothingDone
<1>2. ASSUME NEW c \in Startable, ReapChild(c) PROVE SettledInv'
  <2>1. Done' = {}
    BY <1>2 DEF ReapChild, RunAutomation, Done
  <2>. QED BY <2>1, NothingDone
<1>3. CASE FinishInit \/ CleanupRound \/ FinishExit \/ FinishReload
  <2>1. Done' = {}
    BY <1>a, <1>3 DEF FinishInit, CleanupRound, FinishExit, FinishReload, CleanupIsQuiet, Done
  <2>. QED BY <2>1, NothingDone
<1>4. CASE EndReap
  <2>1. CASE pc' = "cleanup"
    <3>1. Done' = {}
      BY <2>1 DEF Done
    <3>. QED BY <3>1, NothingDone
  <2>2. CASE pc' = "idle"
    <3>1. Done' = Done /\ ReadyShown'
      BY <1>4, <2>2, DoneAway DEF EndReap
    <3>2. UNCHANGED <<state, display, frame, order, tries, live, ghost, busy>>
      BY <1>4 DEF EndReap
    <3>3. \A x \in Children : HasWindows(x)' = HasWindows(x)
      BY <3>2 DEF HasWindows
    <3>4. \A a \in Done : a.window \in Children /\ a \in Assignment
      BY DoneTypes
    <3>5. ASSUME NEW a \in Done PROVE Calm(a)
      BY <3>2, <3>3, <3>4, CalmUnlessShown
    <3>6. Done' \subseteq Done \cup {} /\ {} \in SUBSET Assignment
      BY <3>1
    <3>7. DoneSettled'
      BY <1>a, <3>2, <3>5, <3>6, SettledStep
    <3>. QED BY <3>1, <3>7 DEF SettledInv
  <2>. QED BY <1>4, <2>1, <2>2 DEF EndReap
<1>5. CASE Script
  <2>1. todo' = outcome'.assign /\ pc' = "apply" /\ outcome'.assign \in Seq(Assignment)
    BY <1>5 DEF Script, TypeOK
  <2>2. 1..(Len(outcome'.assign) - Len(todo')) = {}
    BY <2>1
  <2>3. Done' = {}
    BY <2>1, <2>2 DEF Done
  <2>. QED BY <2>3, NothingDone
<1>6. CASE SkipBusy
  <2>1. busy[Head(todo).display] > 0
    BY <1>a, <1>6, StatusIsBusy DEF SkipBusy
  <2>2. busy[Head(todo).display] # 0
    BY <2>1
  <2>. QED BY <1>a, <1>6, <2>1, <2>2, DecideStep DEF SkipBusy
<1>7. CASE Evict
  <2>1. PICK S \in SUBSET Windows : S = Evicted(Head(todo))
    BY DEF Evicted
  <2>2. \A c \in S : Active(c)
    BY <2>1 DEF Evicted, Occupies, Shown, Active
  <2>3. Done' = Done \cup {} /\ status' = status
    BY <1>7 DEF Evict, Done
  <2>4. Stop(S) /\ pc = "apply" /\ UNCHANGED <<display, frame, x11, busy>>
    BY <1>7, <2>1 DEF Evict
  <2>5. {} \in SUBSET Assignment
    OBVIOUS
  <2>. QED BY <1>a, <2>2, <2>3, <2>4, <2>5, StopStep
<1>8. CASE GiveUp
  <2>1. /\ todo # <<>> /\ Head(todo).window \in Windows /\ busy[Head(todo).display] = 0
        /\ Head(todo).window \in Children
    BY <1>a, <1>8, PlaceHead DEF GiveUp
  <2>2. /\ status[Head(todo).display] \in {"ready", "busy", "waiting"}
        /\ status[Head(todo).display] = "busy" <=> busy[Head(todo).display] > 0
    BY <1>a, <1>8, <2>1, StatusIsBusy DEF GiveUp
  <2>3. state[Head(todo).window] = "stopped" /\ tries[Head(todo).window] > 0
    BY <1>8, <2>1 DEF GiveUp, Active, Retry, TypeOK
  <2>4. Settled(Head(todo))
    BY <2>3 DEF Settled
  <2>. QED BY <1>a, <1>8, <2>1, <2>2, <2>3, <2>4, DecideStep DEF GiveUp
<1>9. CASE AwaitWindow
  <2>1. /\ todo # <<>> /\ busy[Head(todo).display] = 0 /\ Head(todo).window \in Children
    BY <1>a, <1>9, PlaceHead DEF AwaitWindow
  <2>2. Settled(Head(todo))
    BY <1>9 DEF AwaitWindow, Settled, Active, InPlace
  <2>. QED BY <1>a, <1>9, <2>1, <2>2, DecideStep DEF AwaitWindow
<1>10. CASE StartWindow
  <2>1. PICK h \in Assignment : h = Head(todo)
    BY <1>a, <1>10, PlaceHead DEF StartWindow
  <2>2. /\ h.window \in Windows /\ h.window \in Children /\ h.window \notin Commands
        /\ busy[h.display] = 0 /\ todo # <<>>
    BY <1>a, <1>10, <2>1, PlaceHead DEF StartWindow
  <2>3. /\ ~Active(h.window) /\ Start(h.window, h.display, h.frame, FALSE)
        /\ NextAssignment("waiting") /\ pc = "place" /\ x11' = x11 /\ outcome' = outcome
    BY <1>10, <2>1 DEF StartWindow
  <2>4. /\ busy' = busy
        /\ \A x \in Children \ {h.window} :
               state'[x] = state[x] /\ display'[x] = display[x] /\ frame'[x] = frame[x]
    <3>1. busy' = busy /\ \A x \in Children \ {h.window} : state'[x] = state[x]
      BY <2>2, <2>3 DEF Start, Fork, ForkFails, TypeOK
    <3>2. \A x \in Children \ {h.window} : display'[x] = display[x] /\ frame'[x] = frame[x]
      BY <2>3 DEF Start, TypeOK
    <3>. QED BY <3>1, <3>2
  <2>5. display'[h.window] = h.display /\ frame'[h.window] = h.frame /\ order' = Raised(h.window)
    BY <2>2, <2>3 DEF Start, TypeOK
  <2>6. /\ \A w \in Windows \ {h.window} : tries'[w] = tries[w]
        /\ tries'[h.window] > 0
    BY <2>2, <2>3 DEF Start, Counted, TypeOK
  <2>. QED BY <1>a, <2>1, <2>3, <2>4, <2>5, <2>6, RaiseStep
<1>11. CASE RaiseWindow
  <2>1. PICK h \in Assignment : h = Head(todo)
    BY <1>a, <1>11, PlaceHead DEF RaiseWindow
  <2>2. /\ h.window \in Windows /\ h.window \in Children /\ busy[h.display] = 0 /\ todo # <<>>
    BY <1>a, <1>11, <2>1, PlaceHead DEF RaiseWindow
  <2>3. /\ Active(h.window) /\ display[h.window] = h.display /\ HasWindows(h.window)
        /\ frame' = [frame EXCEPT ![h.window] = h.frame] /\ order' = Raised(h.window)
        /\ NextAssignment(status[h.display]) /\ pc = "place"
        /\ UNCHANGED <<state, display, tries, x11, busy, outcome>>
    BY <1>11, <2>1 DEF RaiseWindow
  <2>4. status[h.display] \in {"ready", "waiting"}
    BY <1>a, <2>1, <2>2, <2>3, StatusIsBusy
  <2>5. frame'[h.window] = h.frame /\ \A x \in Children \ {h.window} : frame'[x] = frame[x]
    BY <2>2, <2>3 DEF TypeOK
  <2>6. state'[h.window] # "stopped"
    BY <2>3 DEF Active
  <2>. QED BY <1>a, <2>1, <2>3, <2>4, <2>5, <2>6, RaiseStep
<1>12. CASE StopMovedWindow
  <2>1. PICK h \in Assignment : h = Head(todo)
    BY <1>a, <1>12, PlaceHead DEF StopMovedWindow
  <2>2. /\ h.window \in Windows /\ h.display \in Displays /\ busy[h.display] = 0 /\ todo # <<>>
    BY <1>a, <1>12, <2>1, PlaceHead DEF StopMovedWindow
  <2>3. /\ Active(h.window) /\ Stop({h.window}) /\ NextAssignment("waiting") /\ pc = "place"
        /\ UNCHANGED <<display, frame, x11, busy, outcome>>
    BY <1>12, <2>1 DEF StopMovedWindow
  <2>4. Done' = Done \cup {h}
    BY <1>a, <2>1, <2>2, <2>3, NextAssignmentOnTrack
  <2>5. \A d \in Displays : status'[d] = "ready" => status[d] = "ready"
    BY <2>1, <2>2, <2>3 DEF NextAssignment, TypeOK
  <2>6. PICK S \in SUBSET Windows, N \in SUBSET Assignment : S = {h.window} /\ N = {h}
    BY <2>2
  <2>7. /\ \A c \in S : Active(c)
        /\ \A a \in N : a.window \in S
        /\ Done' = Done \cup N /\ Stop(S)
    BY <2>3, <2>4, <2>6
  <2>. QED BY <1>a, <2>3, <2>5, <2>7, StopStep
<1>13. CASE ApplyLayouts
  <2>1. /\ pc = "apply" /\ todo = <<>> /\ pc' \in {"idle", "reap"}
        /\ UNCHANGED <<state, display, frame, order, tries, x11, busy, outcome, auto>>
    BY <1>13 DEF ApplyLayouts, TypeOK
  <2>2. Done' \subseteq Done /\ ReadyShown'
    <3>1. outcome.assign \in Seq(Assignment)
      BY DEF TypeOK
    <3>2. 1..(Len(outcome.assign) - Len(todo)) = DOMAIN outcome.assign
      BY <2>1, <3>1
    <3>. QED BY <2>1, <3>2 DEF Done, ReadyShown
  <2>3. \A x \in Children : HasWindows(x)' = HasWindows(x)
    BY <2>1 DEF HasWindows
  <2>4. \A a \in Done : a.window \in Children /\ a \in Assignment
    BY DoneTypes
  <2>5. ASSUME NEW a \in Done PROVE Calm(a)
    BY <2>1, <2>3, <2>4, CalmUnlessShown
  <2>6. Done' \subseteq Done \cup {} /\ {} \in SUBSET Assignment
    BY <2>2
  <2>7. DoneSettled'
    BY <1>a, <2>1, <2>5, <2>6, SettledStep
  <2>. QED BY <2>2, <2>7 DEF SettledInv
<1>. QED BY <1>1, <1>2, <1>3, <1>4, <1>5, <1>6, <1>7, <1>8, <1>9, <1>10, <1>11, <1>12, <1>13
   DEF Continue

LEMMA InitSettledInv == Init => SettledInv
<1>. SUFFICES ASSUME Init PROVE SettledInv
  OBVIOUS
<1>1. Done = {}
  BY DEF Init, Done
<1>. QED BY <1>1 DEF SettledInv, DoneSettled, ReadyShown

LEMMA NextSettledInv ==
    ASSUME TypeOK, BusyIsCounted, NoToolWindows, StackInv, RunInv, SettledInv, [Next]_vars
    PROVE  SettledInv'
<1>. USE DEF table, x11, wm, run, ctl, vars
<1>1. TypeOK'
  BY NextType
<1>2. CASE Request
  BY <1>1, <1>2, RequestSettled DEF SettledInv
<1>3. CASE Event
  BY <1>1, <1>3, EventSettled DEF SettledInv
<1>4. CASE Continue
  BY <1>1, <1>4, ContinueSettled
<1>5. CASE Process \/ UNCHANGED vars
  <2>1. /\ UNCHANGED <<pc, auto, outcome, todo, status, busy>>
        /\ UNCHANGED <<state, display, frame, order, tries, live, ghost>>
    BY <1>5 DEF Process, Exec, Exit, Killed, ProcStep
  <2>2. Done' = Done
    BY <2>1 DEF Done
  <2>3. \A x \in Children : HasWindows(x)' = HasWindows(x)
    BY <2>1 DEF HasWindows
  <2>4. \A a \in Done : a.window \in Children /\ a \in Assignment
    BY DoneTypes
  <2>5. ASSUME NEW a \in Done PROVE Calm(a)
    BY <2>1, <2>3, <2>4, CalmUnlessShown
  <2>6. Done' \subseteq Done \cup {} /\ {} \in SUBSET Assignment
    BY <2>2
  <2>7. DoneSettled'
    BY <1>1, <2>1, <2>5, <2>6, SettledStep DEF SettledInv
  <2>8. ReadyShown'
    BY <2>1, <2>2, <2>3, <2>4 DEF SettledInv, ReadyShown
  <2>. QED BY <2>7, <2>8 DEF SettledInv
<1>. QED BY <1>2, <1>3, <1>4, <1>5 DEF Next, Down

\* Between two handlers nothing is left to do, so everything asked for is settled.
LEMMA SettledConverges ==
    ASSUME TypeOK, SettledInv
    PROVE  Converged
<1>1. pc = "idle" /\ auto => Done = Requested
  BY DEF Done, Requested
<1>. QED BY <1>1 DEF SettledInv, DoneSettled, Settled, Converged

\* When the layouts are sent nothing is left to do either, and no display that gets one is busy.
LEMMA SettledIsShown ==
    ASSUME TypeOK, RunInv, SettledInv
    PROVE  LayoutShowsAssigned
<1>. SUFFICES ASSUME pc = "apply", todo = <<>>,
                     NEW a \in Requested, a.display \in Complete, state[a.window] = "running"
              PROVE  HasWindows(a.window) /\ InPlace(a)
  BY DEF LayoutShowsAssigned
<1>1. a \in Done
  <2>1. outcome.assign \in Seq(Assignment)
    BY DEF TypeOK
  <2>2. 1..(Len(outcome.assign) - Len(todo)) = DOMAIN outcome.assign
    BY <2>1
  <2>. QED BY <2>2 DEF Done, Requested
<1>2. status[a.display] = "ready" /\ a.display \in Displays
  BY <1>1, DoneTypes DEF Complete
<1>3. busy[a.display] = 0
  BY <1>2 DEF RunInv, RunIsOnTrack, TypeOK
<1>4. Settled(a) /\ HasWindows(a.window)
  BY <1>1, <1>2, <1>3 DEF SettledInv, DoneSettled, ReadyShown
<1>. QED BY <1>4 DEF Settled

-----------------------------------------------------------------------------
(* Theorems *)

\* Every variable keeps its type.
THEOREM TypeCorrect == Spec => []TypeOK
<1>. QED BY InitType, NextType, PTL DEF Spec

\* No keepalive window runs before control_loop has started it.
THEOREM PendingIsStopped == Spec => []PendingStopped
<1>. QED BY TypeCorrect, InitPendingStopped, NextPendingStopped, PTL DEF Spec

\* child_start is only called for an entry without a process, and child_reap finds
\* the entry of every exited child still waiting for it.
THEOREM StoppedIsReaped == Spec => []StoppedIffReaped
<1>. QED BY TypeCorrect, PendingIsStopped, InitStoppedIffReaped, NextStoppedIffReaped, PTL DEF Spec

\* display_t.busy is the number of user commands on the display, so the automation,
\* the reload and /status, which read it, see a busy display exactly when one runs.
THEOREM BusyCorrect == Spec => []BusyIsCounted
<1>. QED BY TypeCorrect, PendingIsStopped, StoppedIsReaped, InitBusyIsCounted,
            NextBusyIsCounted, PTL DEF Spec

\* The undo that child_reap sends for a fullscreen command finds an only to take back.
THEOREM UndoCorrect == Spec => []UndoIsMatched
<1>. QED BY TypeCorrect, StoppedIsReaped, InitUndoIsMatched, NextUndoIsMatched, PTL DEF Spec

\* While cleanup_all runs, on reload or on exit, no child is started.
THEOREM NothingStartsWhileClosing == Spec => NoStartWhileClosing
<1>1. Spec => []ClosingQuiet
  BY InitClosingQuiet, NextClosingQuiet, PTL DEF Spec
<1>2. TypeOK /\ ClosingQuiet /\ [Next]_vars =>
        [closing # "no" =>
           \A c \in Startable : state[c] = "stopped" => state'[c] = "stopped"]_vars
  BY ClosingStartsNothing
<1>. QED BY <1>1, <1>2, TypeCorrect, PTL DEF Spec, NoStartWhileClosing

\* child_occupant finds the topmost child of a frame: whatever is started, raised and stopped in
\* between, a running child has a place in the stack and no other child has the same.
THEOREM StackCorrect == Spec => []StackIsStrict
<1>1. Spec => []StackInv
  BY TypeCorrect, PendingIsStopped, InitStackInv, NextStackInv, PTL DEF Spec
<1>2. StackInv => StackIsStrict
  BY DEF StackInv
<1>. QED BY <1>1, <1>2, PTL

\* Between two handlers the screen is as the script asks for, on every display that no user command
\* holds: whatever was requested, mapped, destroyed, reaped or set meanwhile, the script was run
\* again where it had to be.  The invariant says the same of the part a run is done with.
THEOREM AutomationConverges == Spec => []Converged
<1>1. Spec => [](StackInv /\ RunInv)
  BY TypeCorrect, PendingIsStopped, InitClosingQuiet, NextClosingQuiet, InitStackInv, NextStackInv,
     InitRunInv, NextRunInv, PTL DEF Spec
<1>2. Spec => []NoToolWindows
  BY TypeCorrect, InitNoToolWindows, NextNoToolWindows, PTL DEF Spec
<1>3. Spec => []SettledInv
  BY <1>1, <1>2, TypeCorrect, BusyCorrect, InitSettledInv, NextSettledInv, PTL DEF Spec
<1>. QED BY <1>3, TypeCorrect, SettledConverges, PTL

\* A run that activates a layout on a display has there, for each window it assigned that runs, the
\* window mapped and on top of its frame.
THEOREM LayoutsShowTheScript == Spec => []LayoutShowsAssigned
<1>1. Spec => [](StackInv /\ RunInv)
  BY TypeCorrect, PendingIsStopped, InitClosingQuiet, NextClosingQuiet, InitStackInv, NextStackInv,
     InitRunInv, NextRunInv, PTL DEF Spec
<1>2. Spec => []NoToolWindows
  BY TypeCorrect, InitNoToolWindows, NextNoToolWindows, PTL DEF Spec
<1>3. Spec => []SettledInv
  BY <1>1, <1>2, TypeCorrect, BusyCorrect, InitSettledInv, NextSettledInv, PTL DEF Spec
<1>. QED BY <1>1, <1>3, TypeCorrect, SettledIsShown, PTL

=============================================================================
