--------------------------- MODULE MainLoopProofs ---------------------------
(***************************************************************************)
(* Theorems about MainLoop, for every set of children.                     *)
(***************************************************************************)
EXTENDS MainLoop, TLAPS

\* The parts of TypeOK that are propositional, and those that are not.
BooleansOK ==
    /\ pidSignaled \in BOOLEAN /\ shutdownRequested \in BOOLEAN
    /\ input \in BOOLEAN /\ configured \in BOOLEAN /\ unserved \in BOOLEAN

OthersOK ==
    /\ reloadRequested \in 0..3
    /\ pc \in {"loop", "check", "enter", "select", "interrupted", "signals", "reap",
               "reload", "switch", "postpone", "cleanup", "parse", "clear", "after", "down"}
    /\ primary \in {"none", "ready", "all"} /\ secondary \in {"none", "ready", "all"}
    /\ proc \in [Children -> {"none", "running", "zombie"}]

LEMMA TypeParts == TypeOK <=> BooleansOK /\ OthersOK
BY Zenon DEF TypeOK, BooleansOK, OthersOK

\* No variable leaves its type, whatever signals arrive.
THEOREM TypeCorrect == Spec => []TypeOK
<1>1. Init => TypeOK
  <2>1. Init => BooleansOK
    BY Zenon DEF Init, BooleansOK
  <2>2. Init => OthersOK
    BY DEF Init, OthersOK
  <2>. QED BY <2>1, <2>2, TypeParts
<1>2. TypeOK /\ [Next]_vars => TypeOK'
  <2> SUFFICES ASSUME TypeOK, [Next]_vars PROVE TypeOK'
    OBVIOUS
  <2>1. CASE Signal
    <3>1. OthersOK'
      BY <2>1, TypeParts DEF Signal, Sighup, Sigterm, Exit, Interrupt, Up, sets, OthersOK
    <3>2. CASE Sighup
      <4>1. BooleansOK'
        BY Zenon, <3>2, TypeParts DEF Sighup, BooleansOK
      <4>. QED BY <3>1, <4>1, TypeParts, PTL
    <3>3. CASE Sigterm
      <4>1. BooleansOK'
        BY Zenon, <3>3, TypeParts DEF Sigterm, BooleansOK
      <4>. QED BY <3>1, <4>1, TypeParts, PTL
    <3>4. ASSUME NEW c \in Children, Exit(c) PROVE TypeOK'
      <4>1. BooleansOK'
        BY Zenon, <3>4, TypeParts DEF Exit, BooleansOK
      <4>. QED BY <3>1, <4>1, TypeParts, PTL
    <3>. QED BY <2>1, <3>2, <3>3, <3>4 DEF Signal
  <2>2. CASE Input
    BY <2>2 DEF Input, flags, sets, TypeOK
  <2>3. CASE Handle \/ Check \/ EnterSelect \/ SelectReady \/ Interrupted \/ BeginReap
    BY <2>3 DEF Handle, Check, EnterSelect, SelectReady, Interrupted, BeginReap,
                flags, sets, TypeOK
  <2>4. CASE EndReap \/ NoReload \/ BeginReload \/ Postpone \/ Acknowledge \/ BeginCleanup
    BY <2>4 DEF EndReap, NoReload, BeginReload, Postpone, Acknowledge, BeginCleanup,
                Swap, flags, sets, TypeOK
  <2>5. CASE BeginParse \/ ParseSucceeds \/ ParseFails
    BY <2>5 DEF BeginParse, ParseSucceeds, ParseFails, flags, sets, TypeOK
  <2>9. CASE ClearRequest \/ AfterReload \/ Leave
    BY <2>9 DEF ClearRequest, AfterReload, Leave, Swap, flags, sets, TypeOK
  <2>6. ASSUME NEW c \in Children, Reap(c) PROVE TypeOK'
    BY <2>6 DEF Reap, flags, sets, TypeOK
  <2>7. ASSUME NEW c \in Children, CleanupReap(c) PROVE TypeOK'
    BY <2>7 DEF CleanupReap, flags, sets, TypeOK
  <2>8. CASE Down \/ UNCHANGED vars
    BY <2>8 DEF Down, vars, TypeOK
  <2>. QED BY <2>1, <2>2, <2>3, <2>4, <2>5, <2>6, <2>7, <2>8, <2>9 DEF Next, Loop
<1>. QED BY <1>1, <1>2, PTL DEF Spec

-----------------------------------------------------------------------------

\* A child that exited is announced by pid_signaled until the reap loop looks for
\* it: the flag is reset before the loop, and an exit sets it again.
THEOREM ExitsAreKept == Spec => []NoExitForgotten
<1>1. Init => NoExitForgotten
  BY DEF Init, NoExitForgotten, Zombies
<1>2. TypeOK /\ NoExitForgotten /\ [Next]_vars => NoExitForgotten'
  <2> SUFFICES ASSUME TypeOK, NoExitForgotten, [Next]_vars PROVE NoExitForgotten'
    OBVIOUS
  <2>1. CASE Sighup \/ Sigterm
    BY <2>1 DEF Sighup, Sigterm, Interrupt, sets, NoExitForgotten, Zombies
  \* An exit sets the flag.
  <2>2. ASSUME NEW c \in Children, Exit(c) PROVE NoExitForgotten'
    BY <2>2 DEF Exit, NoExitForgotten
  <2>3. CASE Input
    BY <2>3 DEF Input, flags, sets, NoExitForgotten, Zombies
  \* A handler starts processes, and ends none.
  <2>4. CASE Handle
    <3>1. Zombies' \subseteq Zombies
      BY <2>4 DEF Handle, Zombies, TypeOK
    <3>. QED BY <2>4, <3>1 DEF Handle, flags, NoExitForgotten
  <2>5. CASE Check \/ EnterSelect \/ SelectReady \/ Interrupted
    BY <2>5 DEF Check, EnterSelect, SelectReady, Interrupted, flags, sets,
                NoExitForgotten, Zombies
  \* The flag is reset and the loop entered in one step.
  <2>6. CASE BeginReap
    BY <2>6 DEF BeginReap, sets, NoExitForgotten, Zombies
  <2>7. ASSUME NEW c \in Children, Reap(c) PROVE NoExitForgotten'
    BY <2>7 DEF Reap, NoExitForgotten
  \* The loop is left when waitpid finds nothing.
  <2>8. CASE EndReap
    BY <2>8 DEF EndReap, flags, NoExitForgotten, Zombies
  <2>9. CASE NoReload \/ BeginReload \/ Postpone \/ Acknowledge \/ BeginCleanup
    BY <2>9 DEF NoReload, BeginReload, Postpone, Acknowledge, BeginCleanup, Swap,
                flags, sets, NoExitForgotten, Zombies
  <2>10. CASE BeginParse \/ ParseSucceeds \/ ParseFails \/ ClearRequest
    BY <2>10 DEF BeginParse, ParseSucceeds, ParseFails, ClearRequest, flags, sets,
                 NoExitForgotten, Zombies
  <2>11. CASE AfterReload \/ Leave
    BY <2>11 DEF AfterReload, Leave, Swap, flags, sets, NoExitForgotten, Zombies
  <2>12. ASSUME NEW c \in Children, CleanupReap(c) PROVE NoExitForgotten'
    <3>1. Zombies' \subseteq Zombies
      BY <2>12 DEF CleanupReap, Zombies, TypeOK
    <3>. QED BY <2>12, <3>1 DEF CleanupReap, flags, NoExitForgotten
  <2>13. CASE Down \/ UNCHANGED vars
    BY <2>13 DEF Down, vars, NoExitForgotten, Zombies
  <2>. QED
    BY <2>1, <2>2, <2>3, <2>4, <2>5, <2>6, <2>7, <2>8, <2>9, <2>10, <2>11, <2>12, <2>13
       DEF Next, Loop, Signal
<1>. QED BY <1>1, <1>2, TypeCorrect, PTL DEF Spec

-----------------------------------------------------------------------------

Reloading == reloadRequested \in {1, 3}

\* Whenever secondary still holds every descriptor asked for, a signal is on
\* record that will have it emptied before the next round.
SetsInv ==
    /\ pc = "loop" => primary # "all"
    /\ pc = "interrupted" => pidSignaled \/ Reloading \/ shutdownRequested
    /\ pc = "signals" /\ secondary = "all" => pidSignaled \/ Reloading
    /\ pc = "reload" /\ secondary = "all" => Reloading
    /\ pc \in {"switch", "postpone", "cleanup", "parse", "clear", "after"} => secondary # "all"

\* The handlers of a round never see a descriptor that select did not report.
THEOREM FdsAreReported == Spec => []FdsWereReported
<1>1. Init => SetsInv
  BY DEF Init, SetsInv
<1>2. TypeOK /\ SetsInv /\ [Next]_vars => SetsInv'
  <2> SUFFICES ASSUME TypeOK, SetsInv, [Next]_vars PROVE SetsInv'
    OBVIOUS
  <2>. USE DEF SetsInv, Reloading, TypeOK
  \* A signal leaves a mark that outlives the call it interrupts.
  <2>1. CASE Signal
    BY <2>1 DEF Signal, Sighup, Sigterm, Exit, Interrupt, Up, sets
  <2>2. CASE Input
    BY <2>2 DEF Input, flags, sets
  <2>3. CASE Handle \/ Check \/ EnterSelect \/ SelectReady
    BY <2>3 DEF Handle, Check, EnterSelect, SelectReady, flags, sets
  <2>4. CASE Interrupted \/ BeginReap \/ EndReap
    BY <2>4 DEF Interrupted, BeginReap, EndReap, flags, sets
  \* A set that is left as it was passed to select goes no further than here.
  <2>5. CASE NoReload \/ BeginReload
    BY <2>5 DEF NoReload, BeginReload, Swap, flags, sets
  <2>6. CASE Postpone \/ Acknowledge \/ BeginCleanup \/ BeginParse
    BY <2>6 DEF Postpone, Acknowledge, BeginCleanup, BeginParse, flags, sets
  <2>7. CASE ParseSucceeds \/ ParseFails \/ ClearRequest \/ AfterReload \/ Leave
    BY <2>7 DEF ParseSucceeds, ParseFails, ClearRequest, AfterReload, Leave, Swap,
                flags, sets
  <2>8. ASSUME NEW c \in Children, Reap(c) \/ CleanupReap(c) PROVE SetsInv'
    BY <2>8 DEF Reap, CleanupReap, flags, sets
  <2>9. CASE Down \/ UNCHANGED vars
    BY <2>9 DEF Down, vars
  <2>. QED BY <2>1, <2>2, <2>3, <2>4, <2>5, <2>6, <2>7, <2>8, <2>9 DEF Next, Loop
<1>3. SetsInv => FdsWereReported
  BY DEF SetsInv, FdsWereReported
<1>. QED BY <1>1, <1>2, <1>3, TypeCorrect, PTL DEF Spec

=============================================================================
