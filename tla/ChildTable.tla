----------------------------- MODULE ChildTable -----------------------------
(***************************************************************************)
(* The child table of rpcd (src/daemon/child.c) together with the two      *)
(* clients that drive it: the HTTP API handlers (src/daemon/api.c) and the *)
(* automation run (control_run_automation, src/daemon/control.c).          *)
(*                                                                         *)
(* The daemon is one thread.  `pc` is where that thread is; "idle" is the  *)
(* main loop between two handlers.  Only the child processes and the X     *)
(* server move while a handler is in progress, and X events are handled    *)
(* only between handlers.                                                  *)
(*                                                                         *)
(* Abstractions                                                            *)
(*  - A script is known by its outcome: the assignments that survive and   *)
(*    the displays for which it asks a layout.  Changing a variable moves  *)
(*    between outcomes.                                                    *)
(*  - `order` holds ranks 1..k in place of the numbers child_restack       *)
(*    leaves, which are only compared; RaiseOrder has these numbers.       *)
(*  - Windows of a child are not told apart: `live` are the displays where *)
(*    the X server still shows one it recorded, `ghost` says an entry is   *)
(*    left whose window is gone and which no event will remove.            *)
(*  - Commands without windows never map one: DISPLAY is unset for them.   *)
(*  - Allocation failures and pid reuse are left out.                      *)
(***************************************************************************)
EXTENDS Integers, FiniteSets, Sequences

CONSTANTS
    Commands,        \* user commands that open windows (mode user)
    Tools,           \* user commands without windows (mode user_no_windows)
    Windows,         \* automated windows
    Repatriated,     \* windows found in the layout at startup
    Ondemand,        \* windows of mode ondemand
    Keepalive,       \* windows of mode keepalive; the rest are lazy
    Visible,         \* children whose program opens a window sooner or later
    Displays, DefaultDisplay,
    DefaultLayouts,  \* displays configured with a default layout
    Frames, DefaultFrame,
    NoFrame,         \* frame_id -1
    Outcomes,        \* what the automation script can come to
    Closings,        \* the ends this instance may come to: "reload", "exit"
    StartRetries,    \* WINDOW_START_RETRIES
    MaxOnlys         \* bound of the model: "only"s outstanding on a display

Startable == Commands \cup Tools \cup Windows
Children  == Startable \cup Repatriated

Assignment == [window : Windows, display : Displays, frame : Frames]

ASSUME ChildrenAssumption ==
    /\ IsFiniteSet(Children)
    /\ Commands \cap Tools = {}
    /\ (Commands \cup Tools) \cap Windows = {}
    /\ Startable \cap Repatriated = {}
    /\ Ondemand \subseteq Windows
    /\ Keepalive \subseteq Windows \ Ondemand
    /\ Visible \subseteq Commands \cup Windows

ASSUME DisplayAssumption ==
    /\ DefaultDisplay \in Displays
    /\ DefaultLayouts \subseteq Displays
    /\ DefaultFrame \in Frames
    /\ NoFrame \notin Frames

\* No window is assigned twice and no frame is: EntriesAreDistinct in AutomationScript.
ASSUME OutcomeAssumption ==
    /\ Outcomes # {}
    /\ \A o \in Outcomes :
         /\ o.assign \in Seq(Assignment)
         /\ o.layout \subseteq Displays
         /\ \A i, j \in DOMAIN o.assign : i # j =>
              /\ o.assign[i].window # o.assign[j].window
              /\ <<o.assign[i].display, o.assign[i].frame>> # <<o.assign[j].display, o.assign[j].frame>>

ASSUME BoundAssumption ==
    /\ StartRetries \in Nat \ {0} /\ MaxOnlys \in Nat
    /\ Closings \subseteq {"reload", "exit"}

VARIABLES
    state,    \* rpcd_child_t.state
    proc,     \* the operating system's view of rpcd_child_t.instance
    display,  \* rpcd_child_t.display_id
    frame,    \* rpcd_child_t.frame_id
    order,    \* rpcd_child_t.order: -1 stopped, 0 never raised, else rank
    tries,    \* rpcd_child_t.start_iteration (read for windows only)
    restore,  \* rpcd_child_t.restore_layout
    live,     \* displays with a recorded window that the X server shows
    ghost,    \* an entry of rpcd_child_t.windows whose window is gone
    busy,     \* display_t.busy
    onlys,    \* external: "only"s the window manager ran since the last layout
    current,  \* display_t.current_layout is set
    outcome,  \* what the script comes to for the current variable values
    auto,     \* init_done of control.c: automation runs
    pc, ret,  \* where the daemon is, and where it returns to after automation
    pending,  \* keepalive windows control_loop has yet to start
    todo,     \* assignments the automation run has yet to apply
    status,   \* display_status[].status of the automation run
    closing   \* cleanup_all in progress, and what follows it

table == <<state, proc, display, frame, order, tries>>
x11   == <<live, ghost>>
wm    == <<onlys, current>>
run   == <<todo, status>>
ctl   == <<pc, ret, pending, closing, auto>>
vars  == <<table, restore, x11, busy, wm, outcome, run, ctl>>

-----------------------------------------------------------------------------
(* The table *)

Active(c)     == state[c] # "stopped"
HasWindows(c) == live[c] # {} \/ ghost[c]

\* The processes a child can have: "forked" has not reached exec and still has
\* the daemon's signal handlers, "alive" runs the program, "termed" has been sent
\* SIGTERM, "killed" SIGKILL.
ProcStates == {"none", "forked", "alive", "termed", "killed", "zombie"}

Shown(c, d, f) ==
    /\ display[c] = d /\ frame[c] = f
    /\ state[c] = "running"
    /\ HasWindows(c)

\* child_occupant returns c: a command wins over any window, and among the others
\* the one raised last.
Occupies(c, d, f) ==
    LET user == Commands \cup Tools
    IN  /\ Shown(c, d, f)
        /\ \A x \in Children : Shown(x, d, f) =>
             \/ c \in user /\ x \notin user
             \/ (c \in user <=> x \in user) /\ order[x] <= order[c]

Below(c, S) == Cardinality({x \in S : 0 < order[x] /\ order[x] < order[c]})

\* The ranks once the children of S left the stack.
Lowered(S) ==
    [c \in Children |-> IF c \in S THEN -1
                        ELSE IF order[c] > 0 THEN order[c] - Below(c, S)
                        ELSE order[c]]

OthersStacked(c) == {x \in Children \ {c} : order[x] > 0}

\* Mutant: child_restack returns the highest order, not the one above it.
RaisedToTie(c) == [Lowered({c}) EXCEPT ![c] = Cardinality(OthersStacked(c))]

\* The ranks once c is on top of the stack.
Raised(c) == [Lowered({c}) EXCEPT ![c] = 1 + Cardinality(OthersStacked(c))]

\* kill() on the process group.  Before exec SIGTERM runs the handler inherited
\* from the daemon, and a child of `early` has not even called setpgrp yet: there
\* is no such group.
Signalled(c, early) ==
    CASE state[c] = "running" /\ proc[c] = "alive" -> "termed"
      [] state[c] = "terminated" /\ proc[c] \in {"forked", "alive", "termed"} /\ c \notin early -> "killed"
      [] OTHER -> proc[c]

\* Mutant: child_stop declares the child stopped instead of waiting for its exit.
TerminateAtOnce(S) ==
    /\ state' = [c \in Children |-> IF c \in S THEN "stopped" ELSE state[c]]
    /\ proc' = [c \in Children |-> IF c \in S THEN Signalled(c, {}) ELSE proc[c]]
    /\ order' = Lowered(S \ Repatriated)

\* child_stop for every child of S, all of them active.
Terminate(S) ==
    /\ state' = [c \in Children |->
                    IF c \in S \cap Repatriated THEN "stopped"
                    ELSE IF c \in S THEN "terminated" ELSE state[c]]
    /\ \E early \in SUBSET {c \in S : proc[c] = "forked"} :
         proc' = [c \in Children |-> IF c \in S THEN Signalled(c, early) ELSE proc[c]]
    /\ order' = Lowered(S \ Repatriated)

Stop(S) ==
    /\ Terminate(S)
    /\ tries' = [w \in Windows |-> IF w \in S THEN 0 ELSE tries[w]]

Fork(c, d) ==
    /\ state' = [state EXCEPT ![c] = "running"]
    /\ proc' = [proc EXCEPT ![c] = "forked"]
    /\ busy' = IF c \in Commands THEN [busy EXCEPT ![d] = @ + 1] ELSE busy

ForkFails == UNCHANGED <<state, proc, busy>>

\* Mutant: starts are not counted.
CountedNever(c) == tries

Counted(c) == [w \in Windows |-> IF w = c THEN tries[w] + 1 ELSE tries[w]]

\* child_start; `full` is the restore_layout it finds.
Start(c, d, f, full) ==
    /\ order' = Raised(c)
    /\ display' = [display EXCEPT ![c] = d]
    /\ frame' = [frame EXCEPT ![c] = f]
    /\ tries' = Counted(c)
    /\ onlys' = IF full THEN [onlys EXCEPT ![d] = @ + 1] ELSE onlys
    /\ Fork(c, d) \/ ForkFails

\* Mutant: no child_discard_restores.
ActivateKeepingRestores(D) ==
    /\ onlys' = [d \in Displays |-> IF d \in D THEN 0 ELSE onlys[d]]
    /\ current' = [d \in Displays |-> d \in D \/ current[d]]
    /\ UNCHANGED restore

\* x11_activate_layout on every display of D.
Activate(D) ==
    /\ onlys' = [d \in Displays |-> IF d \in D THEN 0 ELSE onlys[d]]
    /\ current' = [d \in Displays |-> d \in D \/ current[d]]
    /\ restore' = [c \in Commands |-> restore[c] /\ display[c] \notin D]

\* control_run_automation, entered from a handler that continues at r.
RunAutomation(r) ==
    /\ pc' = IF auto THEN "script" ELSE r
    /\ ret' = r

-----------------------------------------------------------------------------
(* Startup *)

Empty == [assign |-> <<>>, layout |-> {}]

InitialState  == [c \in Children |-> IF c \in Repatriated THEN "running" ELSE "stopped"]
InitialStatus == [d \in Displays |-> "ready"]

\* Where the windows are that were found: in any frame of any display.
Places == [Repatriated -> [display : Displays, frame : Frames]]

InitialDisplay(place) ==
    [c \in Children |-> IF c \in Repatriated THEN place[c].display ELSE DefaultDisplay]
InitialFrame(place) ==
    [c \in Children |-> IF c \in Repatriated THEN place[c].frame ELSE DefaultFrame]
InitialLive(place) ==
    [c \in Children |-> IF c \in Repatriated THEN {place[c].display} ELSE {}]

\* The state config_parse leaves, once x11_loop has loaded the default layouts.
Init ==
    /\ state = InitialState
    /\ proc = [c \in Children |-> "none"]
    /\ \E place \in Places :
         /\ display = InitialDisplay(place)
         /\ frame = InitialFrame(place)
         /\ live = InitialLive(place)
    /\ order = [c \in Children |-> 0]
    /\ tries = [c \in Windows |-> 0]
    /\ restore = [c \in Commands |-> FALSE]
    /\ ghost = [c \in Children |-> FALSE]
    /\ busy = [d \in Displays |-> 0]
    /\ onlys = [d \in Displays |-> 0]
    /\ current = [d \in Displays |-> d \in DefaultLayouts]
    /\ outcome \in Outcomes
    /\ auto = FALSE
    /\ pc = "init" /\ ret = "idle"
    /\ pending = Keepalive
    /\ todo = <<>>
    /\ status = InitialStatus
    /\ closing = "no"

\* control_loop starts each keepalive window once, on the first display.
StartKeepalive(w) ==
    /\ pc = "init" /\ w \in pending
    /\ Start(w, DefaultDisplay, DefaultFrame, FALSE)
    /\ pending' = pending \ {w}
    /\ UNCHANGED <<restore, x11, current, outcome, run, pc, ret, closing, auto>>

\* ... and then runs the script for the first time.
FinishInit ==
    /\ pc = "init" /\ pending = {}
    /\ auto' = TRUE
    /\ pc' = "script" /\ ret' = "idle"
    /\ UNCHANGED <<table, restore, x11, busy, wm, outcome, run, pending, closing>>

-----------------------------------------------------------------------------
(* HTTP requests, each handled while the daemon is between two handlers *)

\* What api_parse_json leaves in the entry; the frame may be missing from the
\* request, and nothing but a finished instance clears restore_layout.
NewFrame(c, f) == IF f = NoFrame THEN frame[c] ELSE f

Fullscreen(c, full) == full \/ restore[c]

StartCommand(c, d, f, full) ==
    /\ pc = "idle" /\ ~Active(c)
    /\ Fullscreen(c, full) => onlys[d] < MaxOnlys
    /\ restore' = [restore EXCEPT ![c] = Fullscreen(c, full)]
    /\ Start(c, d, NewFrame(c, f), Fullscreen(c, full))
    /\ UNCHANGED <<x11, current, outcome, run, ctl>>

\* A request whose arguments are refused after display, frame and fullscreen
\* have been stored.
RejectCommand(c, d, f, full) ==
    /\ pc = "idle" /\ ~Active(c)
    /\ Fullscreen(c, full) => onlys[d] < MaxOnlys
    /\ display' = [display EXCEPT ![c] = d]
    /\ frame' = [frame EXCEPT ![c] = NewFrame(c, f)]
    /\ restore' = [restore EXCEPT ![c] = Fullscreen(c, full)]
    /\ UNCHANGED <<state, proc, order, tries, x11, busy, wm, outcome, run, ctl>>

StartTool(c) ==
    /\ pc = "idle" /\ ~Active(c)
    /\ Start(c, display[c], frame[c], FALSE)
    /\ UNCHANGED <<restore, x11, current, outcome, run, ctl>>

StopCommand(c) ==
    /\ pc = "idle" /\ Active(c)
    /\ Stop({c})
    /\ UNCHANGED <<display, frame, restore, x11, busy, wm, outcome, run, ctl>>

\* /move: child_raise, then the current layout again if there is one.
MoveCommand(c, f) ==
    /\ pc = "idle" /\ Active(c)
    /\ frame' = [frame EXCEPT ![c] = f]
    /\ order' = Raised(c)
    /\ \/ /\ current[display[c]]
          /\ Activate({display[c]})
       \/ /\ ~current[display[c]]
          /\ UNCHANGED <<wm, restore>>
    /\ UNCHANGED <<state, proc, display, tries, x11, busy, outcome, run, ctl>>

\* /layout
ActivateLayout(d) ==
    /\ pc = "idle"
    /\ Activate({d})
    /\ UNCHANGED <<table, x11, busy, outcome, run, ctl>>

\* /reset: discard restores, stop the commands, load the default layouts,
\* forget failed starts, then run the script.
Reset ==
    /\ pc = "idle"
    /\ Terminate({c \in Commands : Active(c)})
    /\ tries' = [w \in Windows |-> 0]
    /\ restore' = [c \in Commands |-> FALSE]
    /\ onlys' = [d \in Displays |-> IF d \in DefaultLayouts THEN 0 ELSE onlys[d]]
    /\ current' = [d \in Displays |-> d \in DefaultLayouts \/ current[d]]
    /\ RunAutomation("idle")
    /\ UNCHANGED <<display, frame, x11, busy, outcome, run, pending, closing, auto>>

-----------------------------------------------------------------------------
(* Control input and X events *)

\* A control line that changes a variable (control_command).
SetVariable(o) ==
    /\ pc = "idle"
    /\ outcome' = o
    /\ RunAutomation("idle")
    /\ UNCHANGED <<table, restore, x11, busy, wm, run, pending, closing, auto>>

\* Mutant: mapping an automated window does not rerun the script.
RunIfNeverAutomated(c) == UNCHANGED <<pc, ret>>

RunIfAutomated(c) ==
    IF c \in Windows THEN RunAutomation("idle") ELSE UNCHANGED <<pc, ret>>

\* The first ConfigureNotify of a window whose process is c's
\* (x11_handle_event, child_match_window).
WindowMapped(c) ==
    /\ pc = "idle"
    /\ state[c] = "running" /\ proc[c] \in {"alive", "zombie"}
    /\ live' = [live EXCEPT ![c] = @ \cup {display[c]}]
    /\ RunIfAutomated(c)
    /\ UNCHANGED <<table, restore, ghost, busy, wm, outcome, run, pending, closing, auto>>

\* DestroyNotify for the last window of c on d.  child_discard_window finds the
\* entry only while c is still on d, and x11_handle_event never tracked a
\* repatriated window.
WindowDestroyed(c, d) ==
    /\ pc = "idle"
    /\ d \in live[c]
    /\ live' = [live EXCEPT ![c] = @ \ {d}]
    /\ ghost' = [ghost EXCEPT ![c] = @ \/ c \in Repatriated \/ display[c] # d]
    /\ UNCHANGED <<table, restore, busy, wm, outcome, run, ctl>>

-----------------------------------------------------------------------------
(* child_reap *)

\* SIGCHLD was seen (when it is, is the subject of MainLoop).
BeginReap ==
    /\ pc = "idle"
    /\ \E c \in Startable : proc[c] = "zombie"
    /\ pc' = "reap"
    /\ UNCHANGED <<table, restore, x11, busy, wm, outcome, run, ret, pending, closing, auto>>

\* Mutant: the first display is unlocked, whichever the command was on.
UnlockedFirst(c) == [busy EXCEPT ![DefaultDisplay] = IF @ > 0 THEN @ - 1 ELSE @]

\* x11_unlock, x11_rollback
Unlocked(c) == IF busy[display[c]] > 0 THEN [busy EXCEPT ![display[c]] = @ - 1] ELSE busy
Undone(c)   == IF onlys[display[c]] > 0 THEN [onlys EXCEPT ![display[c]] = @ - 1] ELSE onlys

\* Mutant: child_stop has unlocked the display, and it is unlocked once more.
ReleaseTwice(c) ==
    /\ busy' = [busy EXCEPT ![display[c]] = @ - 2]
    /\ frame' = [frame EXCEPT ![c] = NoFrame]
    /\ restore' = [restore EXCEPT ![c] = FALSE]
    /\ onlys' = IF restore[c] THEN Undone(c) ELSE onlys

Release(c) ==
    /\ busy' = Unlocked(c)
    /\ frame' = [frame EXCEPT ![c] = NoFrame]
    /\ restore' = [restore EXCEPT ![c] = FALSE]
    /\ onlys' = IF restore[c] THEN Undone(c) ELSE onlys

\* One round of the loop that finds an exited child; the script runs after each.
ReapChild(c) ==
    /\ pc = "reap" /\ proc[c] = "zombie"
    /\ proc' = [proc EXCEPT ![c] = "none"]
    /\ state' = [state EXCEPT ![c] = "stopped"]
    /\ IF c \in Commands THEN Release(c) ELSE UNCHANGED <<busy, frame, restore, onlys>>
    /\ RunAutomation("reap")
    /\ UNCHANGED <<display, order, tries, x11, current, outcome, run, pending, closing, auto>>

\* waitpid has nothing more to report; child_cleanup is the other caller.
EndReap ==
    /\ pc = "reap"
    /\ \A c \in Startable : proc[c] # "zombie"
    /\ pc' = IF closing = "no" THEN "idle" ELSE "cleanup"
    /\ UNCHANGED <<table, restore, x11, busy, wm, outcome, run, ret, pending, closing, auto>>

-----------------------------------------------------------------------------
(* control_run_automation *)

Ready == [d \in Displays |-> IF busy[d] > 0 THEN "busy" ELSE "ready"]

Script ==
    /\ pc = "script"
    /\ todo' = outcome.assign
    /\ status' = Ready
    /\ pc' = "apply"
    /\ UNCHANGED <<table, restore, x11, busy, wm, outcome, ret, pending, closing, auto>>

\* The assignment is dealt with; `s` becomes its display's status.
NextAssignment(s) ==
    /\ pc' = "apply"
    /\ todo' = Tail(todo)
    /\ status' = [status EXCEPT ![Head(todo).display] = s]

SkipBusy ==
    /\ pc = "apply" /\ todo # <<>>
    /\ status[Head(todo).display] = "busy"
    /\ NextAssignment("busy")
    /\ UNCHANGED <<table, restore, x11, busy, wm, outcome, ret, pending, closing, auto>>

\* The ondemand window, other than the one requested, that has to leave the frame.
Evicted(a) ==
    {c \in Ondemand \ {a.window} : Occupies(c, a.display, a.frame)}

Evict ==
    /\ pc = "apply" /\ todo # <<>>
    /\ status[Head(todo).display] # "busy"
    /\ Stop(Evicted(Head(todo)))
    /\ pc' = "place"
    /\ UNCHANGED <<display, frame, restore, x11, busy, wm, outcome, run, ret, pending, closing, auto>>

Retry(w) == tries[w] < StartRetries

GiveUp ==
    /\ pc = "place"
    /\ ~Active(Head(todo).window) /\ ~Retry(Head(todo).window)
    /\ NextAssignment(status[Head(todo).display])
    /\ UNCHANGED <<table, restore, x11, busy, wm, outcome, ret, pending, closing, auto>>

StartWindow ==
    /\ pc = "place"
    /\ LET a == Head(todo)
       IN  /\ ~Active(a.window) /\ Retry(a.window)
           /\ Start(a.window, a.display, a.frame, FALSE)
    /\ NextAssignment("waiting")
    /\ UNCHANGED <<restore, x11, current, outcome, ret, pending, closing, auto>>

\* Mutant: the display of a running window is not compared with the one asked for.
LeaveMovedWindow ==
    /\ pc = "place"
    /\ Active(Head(todo).window) /\ display[Head(todo).window] # Head(todo).display
    /\ NextAssignment("waiting")
    /\ UNCHANGED <<table, restore, x11, busy, wm, outcome, ret, pending, closing, auto>>

StopMovedWindow ==
    /\ pc = "place"
    /\ LET a == Head(todo)
       IN  /\ Active(a.window) /\ display[a.window] # a.display
           /\ Stop({a.window})
    /\ NextAssignment("waiting")
    /\ UNCHANGED <<display, frame, restore, x11, busy, wm, outcome, ret, pending, closing, auto>>

AwaitWindow ==
    /\ pc = "place"
    /\ LET a == Head(todo)
       IN  /\ Active(a.window) /\ display[a.window] = a.display
           /\ ~HasWindows(a.window)
    /\ NextAssignment("waiting")
    /\ UNCHANGED <<table, restore, x11, busy, wm, outcome, ret, pending, closing, auto>>

RaiseWindow ==
    /\ pc = "place"
    /\ LET a == Head(todo)
       IN  /\ Active(a.window) /\ display[a.window] = a.display
           /\ HasWindows(a.window)
           /\ frame' = [frame EXCEPT ![a.window] = a.frame]
           /\ order' = Raised(a.window)
    /\ NextAssignment(status[Head(todo).display])
    /\ UNCHANGED <<state, proc, display, tries, restore, x11, busy, wm, outcome, ret, pending, closing, auto>>

\* Mutant: a display that waits for a window gets its layout at once.
CompleteUnlessBusy == {d \in outcome.layout : status[d] # "busy"}

Complete == {d \in outcome.layout : status[d] = "ready"}

ApplyLayouts ==
    /\ pc = "apply" /\ todo = <<>>
    /\ Activate(Complete)
    /\ status' = InitialStatus \* not read again before Script sets it
    /\ pc' = ret
    /\ UNCHANGED <<table, x11, busy, outcome, todo, ret, pending, closing, auto>>

-----------------------------------------------------------------------------
(* cleanup_all, on reload and on exit *)

\* Mutant: child_cleanup before control_cleanup.
BeginCleanupAutomated(next) ==
    /\ pc = "idle"
    /\ closing' = next
    /\ pc' = "cleanup"
    /\ UNCHANGED <<table, restore, x11, busy, wm, outcome, run, ret, pending, auto>>

\* control_cleanup first: no automation while the children are stopped.
BeginCleanup(next) ==
    /\ pc = "idle"
    /\ auto' = FALSE
    /\ closing' = next
    /\ pc' = "cleanup"
    /\ UNCHANGED <<table, restore, x11, busy, wm, outcome, run, ret, pending>>

\* One round of the loop of child_cleanup.
CleanupRound ==
    /\ pc = "cleanup"
    /\ \E c \in Children : Active(c)
    /\ Stop({c \in Children : Active(c)})
    /\ pc' = "reap"
    /\ UNCHANGED <<display, frame, restore, x11, busy, wm, outcome, run, ret, pending, closing, auto>>

FinishExit ==
    /\ pc = "cleanup" /\ closing = "exit"
    /\ \A c \in Children : ~Active(c)
    /\ pc' = "down"
    /\ UNCHANGED <<table, restore, x11, busy, wm, outcome, run, ret, pending, closing, auto>>

\* The modules are freed and configured anew.
FinishReload ==
    /\ pc = "cleanup" /\ closing = "reload"
    /\ \A c \in Children : ~Active(c)
    /\ state' = InitialState
    /\ \E place \in Places :
         /\ display' = InitialDisplay(place)
         /\ frame' = InitialFrame(place)
         /\ live' = InitialLive(place)
    /\ order' = [c \in Children |-> 0]
    /\ tries' = [w \in Windows |-> 0]
    /\ restore' = [c \in Commands |-> FALSE]
    /\ ghost' = [c \in Children |-> FALSE]
    /\ busy' = [d \in Displays |-> 0]
    /\ onlys' = [d \in Displays |-> 0]
    /\ current' = [d \in Displays |-> d \in DefaultLayouts]
    /\ outcome' \in Outcomes
    /\ pc' = "init" /\ ret' = "idle"
    /\ pending' = Keepalive
    /\ closing' = "no"
    /\ UNCHANGED <<proc, run, auto>>

Down ==
    /\ pc = "down"
    /\ UNCHANGED vars

-----------------------------------------------------------------------------
(* The child processes *)

ProcStep(c, from, to) ==
    /\ proc[c] \in from
    /\ proc' = [proc EXCEPT ![c] = to]
    /\ UNCHANGED <<state, display, frame, order, tries, restore, x11, busy, wm, outcome, run, ctl>>

Exec(c)   == ProcStep(c, {"forked"}, "alive")
\* execvp failed, the program ended, or SIGTERM ended it.
Exit(c)   == ProcStep(c, {"forked", "alive", "termed"}, "zombie")
Killed(c) == ProcStep(c, {"killed"}, "zombie")

-----------------------------------------------------------------------------

Request ==
    \/ \E c \in Commands, d \in Displays, f \in Frames \cup {NoFrame}, full \in BOOLEAN :
          StartCommand(c, d, f, full) \/ RejectCommand(c, d, f, full)
    \/ \E c \in Tools : StartTool(c)
    \/ \E c \in Commands \cup Tools : StopCommand(c)
    \/ \E c \in Commands, f \in Frames : MoveCommand(c, f)
    \/ \E d \in Displays : ActivateLayout(d)
    \/ Reset

Event ==
    \/ \E o \in Outcomes : SetVariable(o)
    \/ \E c \in Visible : WindowMapped(c)
    \/ \E c \in Children, d \in Displays : WindowDestroyed(c, d)
    \/ BeginReap
    \/ \E next \in Closings : BeginCleanup(next)

\* What the daemon does by itself once it is in a handler.
Continue ==
    \/ \E w \in Windows : StartKeepalive(w)
    \/ FinishInit
    \/ \E c \in Startable : ReapChild(c)
    \/ EndReap
    \/ Script \/ SkipBusy \/ Evict \/ GiveUp \/ StartWindow \/ StopMovedWindow
    \/ AwaitWindow \/ RaiseWindow \/ ApplyLayouts
    \/ CleanupRound \/ FinishExit \/ FinishReload

Process ==
    \E c \in Startable : Exec(c) \/ Exit(c) \/ Killed(c)

Next == Request \/ Event \/ Continue \/ Process \/ Down

Spec == Init /\ [][Next]_vars

\* The thread goes on once it is in a handler, and the kernel lets a process
\* reach exec and ends one that was sent SIGKILL.  No program has to exit, and
\* no request, event or signal has to arrive.
Fairness ==
    /\ WF_vars(Continue)
    /\ \A c \in Startable : WF_vars(Exec(c)) /\ WF_vars(Killed(c))

FairSpec == Spec /\ Fairness

-----------------------------------------------------------------------------
(* Properties *)

TypeOK ==
    /\ state \in [Children -> {"stopped", "running", "terminated"}]
    /\ proc \in [Children -> ProcStates]
    /\ display \in [Children -> Displays]
    /\ frame \in [Children -> Frames \cup {NoFrame}]
    /\ order \in [Children -> Int]
    /\ tries \in [Windows -> Nat]
    /\ restore \in [Commands -> BOOLEAN]
    /\ live \in [Children -> SUBSET Displays]
    /\ ghost \in [Children -> BOOLEAN]
    /\ busy \in [Displays -> Nat]
    /\ onlys \in [Displays -> Nat]
    /\ current \in [Displays -> BOOLEAN]
    /\ outcome \in Outcomes
    /\ auto \in BOOLEAN
    /\ pc \in {"init", "idle", "reap", "script", "apply", "place", "cleanup", "down"}
    /\ ret \in {"idle", "reap"}
    /\ pending \subseteq Keepalive
    /\ todo \in Seq(Assignment)
    /\ status \in [Displays -> {"ready", "busy", "waiting"}]
    /\ closing \in {"no", "reload", "exit"}
    /\ pc = "place" => todo # <<>>

Holders(d) == {c \in Commands : Active(c) /\ display[c] = d}

\* display_t.busy, counted up by child_start and down by child_reap, is the number
\* of user commands with windows that have an instance on the display; so
\* x11_unlock never finds the counter at zero ("Unmatched display unlock").
BusyIsCounted == \A d \in Displays : busy[d] = Cardinality(Holders(d))

\* An entry is stopped exactly when no process of it is left to be waited for: no
\* second instance is started over a first, and no exit goes unmatched.
StoppedIffReaped ==
    \A c \in Startable : state[c] = "stopped" <=> proc[c] = "none"

FullscreenHolders(d) == {c \in Holders(d) : restore[c]}

\* The "undo" that child_reap sends for a fullscreen command always takes back an
\* "only", never a layout somebody activated meanwhile (child_discard_restores in
\* x11_activate_layout is there for this).
UndoIsMatched ==
    \A d \in Displays : Cardinality(FullscreenHolders(d)) <= onlys[d]

Stacked == {c \in Children : order[c] > 0}

\* What child_occupant relies on: a running child is in the stack (its unsigned
\* comparison would put an order of -1 on top), and no two share a place.
StackIsStrict ==
    /\ \A c \in Startable : state[c] = "running" => c \in Stacked
    /\ \A c, x \in Stacked : order[c] = order[x] => c = x

Requested == {outcome.assign[i] : i \in DOMAIN outcome.assign}

InPlace(a) ==
    /\ display[a.window] = a.display
    /\ HasWindows(a.window) => Occupies(a.window, a.display, a.frame)

\* Between two handlers, on every display without a user command, each window the
\* script asks for is in its frame, or a start of it has failed, or its process is
\* being terminated: no event that should have rerun the script was missed.
Converged ==
    pc = "idle" /\ auto =>
        \A a \in {r \in Requested : busy[r.display] = 0} :
            CASE state[a.window] = "running" -> InPlace(a)
              [] state[a.window] = "stopped" -> tries[a.window] > 0
              [] OTHER -> TRUE

\* When an automation run activates a layout on a display, every running window
\* it assigned there is the one its frame will show.
LayoutShowsAssigned ==
    pc = "apply" /\ todo = <<>> =>
        \A a \in {r \in Requested : r.display \in Complete} :
            state[a.window] = "running" => HasWindows(a.window) /\ InPlace(a)

\* No child is started between cleanup_all and the new configuration.
NoStartWhileClosing ==
    [][closing # "no" =>
         \A c \in Startable : state[c] = "stopped" => state'[c] = "stopped"]_vars

\* A handler always comes to its end: the reap loop and the script it runs do not
\* restart failing windows forever, and child_cleanup gets rid of every process.
HandlersReturn == pc # "idle" ~> pc \in {"idle", "down"}

\* README: "This should terminate all processes within that group": a child marked
\* terminated has been signalled.
TerminatedIsSignalled ==
    \A c \in Startable : state[c] = "terminated" => proc[c] \in {"termed", "killed", "zombie"}

\* README: "Changes are only made on displays that are not currently running any
\* user commands."
BusyDisplayUntouched ==
    [][(pc \in {"apply", "place"}) =>
         \A c \in Children :
             busy[display[c]] > 0 /\ state[c] = "running" => state'[c] = "running"]_vars

=============================================================================
