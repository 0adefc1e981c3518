------------------------------ MODULE MainLoop ------------------------------
(***************************************************************************)
(* The main loop of rpcd (src/daemon/rpcd.c) against its signals: SIGCHLD, *)
(* SIGHUP and SIGTERM set flags that the loop looks at between select and  *)
(* the next round.  Every place where a signal may fall between a look at  *)
(* a flag and what is done about it is a step of its own.                  *)
(*                                                                         *)
(* Abstractions                                                            *)
(*  - A child is known by whether its process runs or waits to be reaped;  *)
(*    what the handlers do to the table is in ChildTable.                  *)
(*  - Of a descriptor set, only what a handler can rely on is kept: "none" *)
(*    is the empty set, "ready" what select reported, "all" every          *)
(*    descriptor asked for (what an interrupted or omitted select leaves). *)
(*  - Handlers start a child only for a descriptor that is ready.  That    *)
(*    the first round after the configuration was read starts keepalive    *)
(*    windows in any case (control_loop) is left out: such a child does    *)
(*    nothing here that one started later does not.                        *)
(*  - An exit and the SIGCHLD it raises are one step: the kernel delivers  *)
(*    the signal before it returns to the daemon.                          *)
(***************************************************************************)
EXTENDS Naturals

CONSTANTS
    Commands,   \* user commands with windows: an instance makes its display busy
    Others      \* commands without windows and automated windows

Children == Commands \cup Others

ASSUME ChildrenAreDistinct == Commands \cap Others = {}

VARIABLES
    pidSignaled,        \* pid_signaled
    reloadRequested,    \* reload_requested: 1 requested, 2 acknowledged, 3 forced
    shutdownRequested,  \* shutdown_requested
    pc,                 \* where the loop is
    primary, secondary, \* the descriptor sets of main
    input,              \* a descriptor has something to read
    proc,               \* the children: "none", "running" or "zombie"
    configured,         \* a configuration is in force
    unserved            \* history: a SIGHUP since the configuration was last read

vars == <<pidSignaled, reloadRequested, shutdownRequested, pc, primary, secondary,
          input, proc, configured, unserved>>

flags == <<pidSignaled, reloadRequested, shutdownRequested>>
sets  == <<primary, secondary>>

Zombies == {c \in Children : proc[c] = "zombie"}

\* A display is busy while an instance of a user command is not reaped.
Busy == \E c \in Commands : proc[c] # "none"

\* The first configuration has been read and the handlers are installed.
Init ==
    /\ pidSignaled = FALSE /\ reloadRequested = 0 /\ shutdownRequested = FALSE
    /\ pc = "loop"
    /\ primary = "none" /\ secondary = "none"
    /\ input = FALSE
    /\ proc = [c \in Children |-> "none"]
    /\ configured = TRUE
    /\ unserved = FALSE

-----------------------------------------------------------------------------
(* Signals: the handler runs at once, and a select it interrupts returns *)

Interrupt == pc' = IF pc = "select" THEN "interrupted" ELSE pc

Up == pc # "down"

\* Mutant: the handler counts the signals.
SighupCounted ==
    /\ Up
    /\ reloadRequested' = reloadRequested + 1
    /\ unserved' = TRUE
    /\ Interrupt
    /\ UNCHANGED <<pidSignaled, shutdownRequested, sets, input, proc, configured>>

Sighup ==
    /\ Up
    /\ reloadRequested' = IF reloadRequested = 0 THEN 1 ELSE 3
    /\ unserved' = TRUE
    /\ Interrupt
    /\ UNCHANGED <<pidSignaled, shutdownRequested, sets, input, proc, configured>>

Sigterm ==
    /\ Up
    /\ shutdownRequested' = TRUE
    /\ Interrupt
    /\ UNCHANGED <<pidSignaled, reloadRequested, sets, input, proc, configured, unserved>>

\* The child exits, and SIGCHLD arrives.
Exit(c) ==
    /\ Up
    /\ proc[c] = "running"
    /\ proc' = [proc EXCEPT ![c] = "zombie"]
    /\ pidSignaled' = TRUE
    /\ Interrupt
    /\ UNCHANGED <<reloadRequested, shutdownRequested, sets, input, configured, unserved>>

\* A client, a control input or the X server writes.
Input ==
    /\ configured
    /\ input' = TRUE
    /\ UNCHANGED <<flags, pc, sets, proc, configured, unserved>>

-----------------------------------------------------------------------------
(* One round of the loop *)

\* api_loop, x11_loop and control_loop: descriptors that are ready are served,
\* which may start a child.
Handle ==
    /\ pc = "loop" /\ ~shutdownRequested
    /\ IF primary = "none"
       THEN UNCHANGED <<input, proc>>
       ELSE /\ input' = FALSE
            /\ \/ UNCHANGED proc
               \/ \E c \in {x \in Children : proc[x] = "none"} :
                    proc' = [proc EXCEPT ![c] = "running"]
    /\ secondary' = "all"
    /\ pc' = "check"
    /\ UNCHANGED <<flags, primary, configured, unserved>>

\* pid_signaled ? 0 : select(...)
Check ==
    /\ pc = "check"
    /\ pc' = IF pidSignaled THEN "signals" ELSE "enter"
    /\ UNCHANGED <<flags, sets, input, proc, configured, unserved>>

\* select starts to wait: a signal that came since the check went unseen.
EnterSelect ==
    /\ pc = "enter"
    /\ pc' = "select"
    /\ UNCHANGED <<flags, sets, input, proc, configured, unserved>>

SelectReady ==
    /\ pc = "select" /\ input
    /\ secondary' = "ready"
    /\ pc' = "signals"
    /\ UNCHANGED <<flags, primary, input, proc, configured, unserved>>

\* EINTR leaves the descriptor set as it was passed.
Interrupted ==
    /\ pc = "interrupted"
    /\ pc' = IF shutdownRequested THEN "down" ELSE "signals"
    /\ UNCHANGED <<flags, sets, input, proc, configured, unserved>>

\* pid_signaled is reset before child_reap looks for zombies.
BeginReap ==
    /\ pc = "signals"
    /\ pidSignaled' = FALSE
    /\ pc' = IF pidSignaled THEN "reap" ELSE "reload"
    /\ UNCHANGED <<reloadRequested, shutdownRequested, sets, input, proc, configured, unserved>>

\* waitpid finds c; automation, run for every child reaped, may start a window.
Reap(c) ==
    /\ pc = "reap" /\ proc[c] = "zombie"
    /\ \E w \in {x \in Others : proc[x] = "none"} \cup {c} :
         proc' = [[proc EXCEPT ![c] = "none"] EXCEPT
                     ![w] = IF w = c THEN "none" ELSE "running"]
    /\ UNCHANGED <<flags, pc, sets, input, configured, unserved>>

\* Mutant: child_reap does not repeat waitpid, though one SIGCHLD may stand for many.
EndReapEarly ==
    /\ pc = "reap"
    /\ secondary' = "none"
    /\ pc' = "reload"
    /\ UNCHANGED <<flags, primary, input, proc, configured, unserved>>

\* Mutant: no FD_ZERO after child_reap.
EndReapKeepingSet ==
    /\ pc = "reap" /\ Zombies = {}
    /\ pc' = "reload"
    /\ UNCHANGED <<flags, sets, input, proc, configured, unserved>>

EndReap ==
    /\ pc = "reap" /\ Zombies = {}
    /\ secondary' = "none"
    /\ pc' = "reload"
    /\ UNCHANGED <<flags, primary, input, proc, configured, unserved>>

-----------------------------------------------------------------------------
(* reload *)

\* The next round starts with the descriptors selected in this one.
Swap ==
    /\ pc' = "loop"
    /\ primary' = secondary'

NoReload ==
    /\ pc = "reload" /\ reloadRequested = 0
    /\ secondary' = secondary
    /\ Swap
    /\ UNCHANGED <<flags, input, proc, configured, unserved>>

BeginReload ==
    /\ pc = "reload" /\ reloadRequested # 0
    /\ secondary' = IF reloadRequested # 2 THEN "none" ELSE secondary
    /\ pc' = "switch"
    /\ UNCHANGED <<flags, primary, input, proc, configured, unserved>>

\* Mutant: a reload once postponed is not looked at again.
MayReloadUnlessPostponed == reloadRequested = 3 \/ (reloadRequested = 1 /\ ~Busy)

\* Forced, or no display is busy.
MayReload == reloadRequested = 3 \/ ~Busy

Postpone ==
    /\ pc = "switch" /\ ~MayReload
    /\ pc' = "postpone"
    /\ UNCHANGED <<flags, sets, input, proc, configured, unserved>>

Acknowledge ==
    /\ pc = "postpone"
    /\ reloadRequested' = 2
    /\ pc' = "after"
    /\ UNCHANGED <<pidSignaled, shutdownRequested, sets, input, proc, configured, unserved>>

BeginCleanup ==
    /\ pc = "switch" /\ MayReload
    /\ pc' = "cleanup"
    /\ UNCHANGED <<flags, sets, input, proc, configured, unserved>>

\* child_cleanup kills until child_reap has reaped every child.
CleanupReap(c) ==
    /\ pc = "cleanup" /\ proc[c] = "zombie"
    /\ proc' = [proc EXCEPT ![c] = "none"]
    /\ UNCHANGED <<flags, pc, sets, input, configured, unserved>>

\* The descriptors are closed, and config_parse starts to read.
BeginParse ==
    /\ pc = "cleanup" /\ \A c \in Children : proc[c] = "none"
    /\ input' = FALSE
    /\ configured' = FALSE
    /\ unserved' = FALSE
    /\ pc' = "parse"
    /\ UNCHANGED <<flags, sets, proc>>

ParseSucceeds ==
    /\ pc = "parse"
    /\ configured' = TRUE
    /\ pc' = "clear"
    /\ UNCHANGED <<flags, sets, input, proc, unserved>>

\* reload returns before the flag is reset; main cleans up what was read.
ParseFails ==
    /\ pc = "parse"
    /\ pc' = "after"
    /\ UNCHANGED <<flags, sets, input, proc, configured, unserved>>

ClearRequest ==
    /\ pc = "clear"
    /\ reloadRequested' = 0
    /\ pc' = "after"
    /\ UNCHANGED <<pidSignaled, shutdownRequested, sets, input, proc, configured, unserved>>

AfterReload ==
    /\ pc = "after"
    /\ secondary' = IF reloadRequested = 0 THEN "none" ELSE secondary
    /\ Swap
    /\ UNCHANGED <<flags, input, proc, configured, unserved>>

-----------------------------------------------------------------------------

\* while(!shutdown_requested)
Leave ==
    /\ pc = "loop" /\ shutdownRequested
    /\ pc' = "down"
    /\ UNCHANGED <<flags, sets, input, proc, configured, unserved>>

Down == pc = "down" /\ UNCHANGED vars

Loop ==
    \/ Handle \/ Check \/ EnterSelect \/ SelectReady \/ Interrupted
    \/ BeginReap \/ EndReap \/ NoReload \/ BeginReload \/ Postpone \/ Acknowledge
    \/ BeginCleanup \/ BeginParse \/ ParseSucceeds \/ ParseFails \/ ClearRequest
    \/ AfterReload \/ Leave
    \/ \E c \in Children : Reap(c) \/ CleanupReap(c)

Signal == Sighup \/ Sigterm \/ \E c \in Children : Exit(c)

Next == Loop \/ Signal \/ Input \/ Down

Spec == Init /\ [][Next]_vars

\* The daemon runs unless it waits in select, and child_cleanup, which sends
\* SIGKILL, outlives any child.
FairSpec ==
    /\ Spec
    /\ WF_vars(Loop)
    /\ \A c \in Children : WF_vars(pc = "cleanup" /\ Exit(c))

\* A web client polls /status every five seconds, so input never dries up.
PolledSpec == FairSpec /\ WF_vars(Input)

-----------------------------------------------------------------------------
(* Properties *)

TypeOK ==
    /\ pidSignaled \in BOOLEAN /\ shutdownRequested \in BOOLEAN
    /\ reloadRequested \in 0..3
    /\ pc \in {"loop", "check", "enter", "select", "interrupted", "signals", "reap",
               "reload", "switch", "postpone", "cleanup", "parse", "clear", "after", "down"}
    /\ primary \in {"none", "ready", "all"} /\ secondary \in {"none", "ready", "all"}
    /\ input \in BOOLEAN /\ configured \in BOOLEAN /\ unserved \in BOOLEAN
    /\ proc \in [Children -> {"none", "running", "zombie"}]

\* The flag is reset before waitpid, never after: an exit nobody has collected is
\* always announced by pid_signaled, unless the reap loop is still to look for it.
NoExitForgotten ==
    Zombies # {} => pidSignaled \/ pc \in {"reap", "down"}

\* The handlers of a round only see descriptors that select reported; one that was
\* merely asked for would make api_accept block (the FIXME in main).
FdsWereReported == pc = "loop" => primary # "all"

\* A postponed reload does not stay postponed once no display is busy.
PostponedReloadHappens == []<>(reloadRequested # 2 \/ Busy \/ ~configured \/ pc = "down")

\* A child that exited is reaped, and automation run for it.
ExitIsReaped == \A c \in Children : proc[c] = "zombie" ~> proc[c] # "zombie" \/ pc = "down"

\* README: "When the daemon receives SIGHUP, it will try to reload the configuration
\* file": while a SIGHUP has not been followed by a reading, a request is on record.
SighupIsRecorded == unserved => reloadRequested # 0 \/ pc = "down"

=============================================================================
