---------------------------- MODULE WindowTracking ----------------------------
(***************************************************************************)
(* How rpcd learns of the windows of its children: the event loop of the   *)
(* displays (x11.c) and the matching of windows to children (child.c).     *)
(*                                                                         *)
(* Abstractions                                                            *)
(*  - What programs and handlers do within a round is done before its      *)
(*    select, but for the exits of programs.                               *)
(*  - No code sets a window filter ("TODO filters" in child_config), so    *)
(*    the strategies that compare one match nothing.                       *)
(*  - The repatriated windows of a display are one entry.  It comes before *)
(*    the automated windows, as displays do in the configuration.          *)
(*  - Commands without windows are left out: they have no DISPLAY.         *)
(*  - Failing allocations, forks and automation runs are left out, and the *)
(*    windows that x11_run_command makes for itself.                       *)
(***************************************************************************)
EXTENDS Integers, FiniteSets, Sequences

CONSTANTS
    CommandCount, WindowCount, DisplayCount,
    Ids,           \* window ids: two X servers may give out the same
    Repatriating,  \* displays configured with repatriate
    Workloads      \* what is open at startup, what programs open and how often they start

Displays    == 1..DisplayCount
Users       == 1..CommandCount
Repatriated == CommandCount + 1..CommandCount + DisplayCount
Automated   == CommandCount + DisplayCount + 1..CommandCount + DisplayCount + WindowCount
Startable   == Users \cup Automated
Children    == Startable \cup Repatriated

External == 0   \* the opener of a window that no child opens
Nobody   == 0

Openings == [opener : Startable \cup {External}, on : Displays, id : Ids,
             pid : {"own", "helper", "orphan", "none"}, configures : Nat]

ASSUME CountAssumption ==
    CommandCount \in Nat /\ WindowCount \in Nat /\ DisplayCount \in Nat \ {0}

\* The oldest window first.
ASSUME WorkloadAssumption ==
    /\ IsFiniteSet(Ids) /\ Repatriating \subseteq Displays
    /\ \A w \in Workloads : /\ w.old \in [Displays -> Seq(Ids)]
                            /\ w.configures \in Nat
                            /\ w.openings \subseteq Openings
                            /\ w.starts \in Nat

VARIABLES
    up,         \* the daemon runs
    at,         \* the display x11_loop is at, or Select
    ready,      \* displays that select reported
    automating, \* control_run_automation, called by child_match_window
    state,      \* rpcd_child_t.state, of commands and then windows
    where,      \* rpcd_child_t.display_id
    listed,     \* rpcd_child_t.windows; `on` is history
    tracked,    \* windows[] of x11.c
    proc,       \* external: the processes of the children
    shown,      \* external: the windows of each X server
    openings,   \* external: the windows that programs have yet to open
    events,     \* what a server sent and the daemon has not handled, the oldest first
    queued,     \* how many of these Xlib has read
    preread,    \* history: x11_run_command has read some of them
    used,       \* history: ids that a server gave out
    doubtful,   \* history: windows listed where child_discard_window may not find them
    starts      \* how often children may still be started

loop    == <<up, at, ready, automating>>
table   == <<state, where, listed, proc>>
xserver == <<shown, openings, used>>
xlib    == <<events, queued, preread>>
history == <<doubtful, starts>>
vars    == <<loop, table, tracked, xserver, xlib, history>>

Select == DisplayCount + 1   \* select, and the handlers of all else but the displays

Window(opener, pid, configures) == [opener |-> opener, pid |-> pid, configures |-> configures]
Event(kind, id) == [kind |-> kind, id |-> id]
Entry(d, id) == [id |-> id, on |-> d]
Entries(c) == {listed[c][n] : n \in DOMAIN listed[c]}
Present(d, id) == id \in DOMAIN shown[d]
RepatriatedOn(d) == CommandCount + d

\* x11_config selects the events of a display before x11_ok repatriates its windows, and the
\* window manager's answer is read behind what was sent: here for the last of the windows.
Initially(old) ==
    /\ listed = [c \in Children |->
                    IF c - CommandCount \in Repatriating
                    THEN [n \in DOMAIN old[c - CommandCount] |->
                             Entry(c - CommandCount, old[c - CommandCount][n])]
                    ELSE <<>>]
    /\ used = [d \in Displays |-> {old[d][n] : n \in DOMAIN old[d]}]
    /\ preread \in [Displays -> BOOLEAN]
    /\ \A d \in Displays : preread[d] => d \in Repatriating /\ old[d] # <<>>
    /\ events = [d \in Displays |-> IF preread[d]
                                    THEN <<Event("create", old[d][Len(old[d])])>> ELSE <<>>]

Init ==
    /\ up = TRUE /\ at = Select /\ ready = {} /\ automating = FALSE
    /\ state = [c \in Children |-> IF c \in Repatriated THEN "running" ELSE "stopped"]
    /\ where = [c \in Children |-> IF c \in Repatriated THEN c - CommandCount ELSE 1]
    /\ tracked = <<>>
    /\ proc = [c \in Startable |-> "none"]
    /\ \E w \in Workloads, pid \in {"orphan", "none"} :
         /\ Initially(w.old) /\ openings = w.openings /\ starts = w.starts
         /\ shown = [d \in Displays |-> [id \in used[d] |-> Window(External, pid, w.configures)]]
    /\ queued = [d \in Displays |-> Len(events[d])]
    /\ doubtful = UNION {Entries(c) : c \in Repatriated}

-----------------------------------------------------------------------------
(* Programs and X servers, as far as the daemon hears of them *)

Send(d, e) == events' = [events EXCEPT ![d] = Append(@, e)] /\ UNCHANGED <<queued, preread>>

\* The program of a child opens a window, or a process that it started ("helper"), or any
\* other program; it names its process to the window manager or does not.
Open(w) ==
    /\ w.opener # External => proc[w.opener] = "alive" /\ where[w.opener] = w.on
    /\ ~Present(w.on, w.id)
    /\ shown' = [shown EXCEPT ![w.on] = [id \in DOMAIN @ \cup {w.id} |->
                   IF id = w.id THEN Window(w.opener, w.pid, w.configures) ELSE @[id]]]
    /\ openings' = openings \ {w}
    /\ used' = [used EXCEPT ![w.on] = @ \cup {w.id}]
    /\ Send(w.on, Event("create", w.id))

Configure(d, id) ==
    /\ Present(d, id) /\ shown[d][id].configures > 0
    /\ shown' = [shown EXCEPT ![d][id].configures = @ - 1]
    /\ Send(d, Event("configure", id))
    /\ UNCHANGED <<openings, used>>

Close(d, id) ==
    /\ Present(d, id)
    /\ shown' = [shown EXCEPT ![d] = [i \in DOMAIN @ \ {id} |-> @[i]]]
    /\ Send(d, Event("destroy", id))
    /\ UNCHANGED <<openings, used>>

\* The windows of c whose _NET_WM_PID says `from` now lead elsewhere.
Redirected(c, from, to) ==
    [d \in Displays |-> [id \in DOMAIN shown[d] |->
        IF shown[d][id].opener = c /\ shown[d][id].pid = from
        THEN [shown[d][id] EXCEPT !.pid = to] ELSE shown[d][id]]]

\* What the program had started gets another parent.
Exit(c) ==
    /\ proc[c] = "alive"
    /\ proc' = [proc EXCEPT ![c] = "zombie"]
    /\ shown' = Redirected(c, "helper", "orphan")
    /\ UNCHANGED <<loop, state, where, listed, tracked, openings, used, xlib, history>>

Environment ==
    \/ /\ at = Select
       /\ \/ \E w \in openings : Open(w)
          \/ \E d \in Displays, id \in Ids : Configure(d, id) \/ Close(d, id)
       /\ UNCHANGED <<loop, table, tracked, history>>
    \/ \E c \in Startable : Exit(c)

-----------------------------------------------------------------------------
(* Handlers, of requests and of automation *)

CanHandle(c) == up /\ IF automating THEN c \in Automated ELSE at = Select

\* The child's windows on another display are not looked for under this one.
Assigned(c, d) ==
    /\ where' = [where EXCEPT ![c] = d]
    /\ doubtful' = IF d = where[c] THEN doubtful ELSE doubtful \cup Entries(c)

Start(c, d) ==
    /\ CanHandle(c) /\ state[c] = "stopped" /\ starts > 0
    /\ state' = [state EXCEPT ![c] = "running"]
    /\ proc' = [proc EXCEPT ![c] = "alive"]
    /\ starts' = starts - 1
    /\ Assigned(c, d)
    /\ UNCHANGED <<loop, listed, tracked, xserver, xlib>>

\* A request that is refused after its display was stored.
Refuse(c, d) ==
    /\ up /\ at = Select /\ c \in Users /\ state[c] = "stopped"
    /\ Assigned(c, d)
    /\ UNCHANGED <<loop, state, listed, proc, tracked, xserver, xlib, starts>>

Stop(c) ==
    /\ CanHandle(c) /\ state[c] = "running"
    /\ state' = [state EXCEPT ![c] = "terminated"]
    /\ UNCHANGED <<loop, where, listed, proc, tracked, xserver, xlib, history>>

\* x11_run_command: XMaskEvent reads all that was sent before the window manager's answer.
RunCommand(d) ==
    /\ up /\ at = Select /\ queued[d] < Len(events[d])
    /\ queued' = [queued EXCEPT ![d] = Len(events[d])]
    /\ preread' = [preread EXCEPT ![d] = TRUE]
    /\ UNCHANGED <<loop, table, tracked, xserver, events, history>>

Handlers ==
    \/ \E c \in Startable, d \in Displays : Start(c, d) \/ Refuse(c, d)
    \/ \E c \in Startable : Stop(c)
    \/ \E d \in Displays : RunCommand(d)

-----------------------------------------------------------------------------
(* child_match_window and child_discard_window *)

Runs(c, d) == state[c] = "running" /\ where[c] = d

\* A process that is gone has the parent 0, which is the instance of a repatriated window if
\* there is one on the display and it has not been stopped.
Vanished(d) == {Nobody} \cup {RepatriatedOn(e) : e \in Repatriating \cap {d}}

\* What climbing from the window's process comes to: a child, init, or 0.
Climb(d, window) ==
    LET child == IF window.opener \in Startable /\ Runs(window.opener, d)
                 THEN window.opener ELSE Nobody
    IN  CASE window.pid = "own"    -> {child}
          [] window.pid = "helper" -> {child} \cup Vanished(d)
          [] window.pid \in {"orphan", "gone"} -> Vanished(d)

\* The first user command that runs.
Heuristic(d) ==
    LET running == {c \in Users : Runs(c, d)} IN
    IF running = {} THEN {Nobody} ELSE {c \in running : \A x \in running : c <= x}

\* Mutant: a process that is not found is no process.
MatchesAnyway(d, window) ==
    IF window.pid = "none" THEN Heuristic(d)
    ELSE UNION {IF c = Nobody THEN Heuristic(d) ELSE {c} : c \in Climb(d, window)}

\* The children child_match_window may come to.
Matches(d, window) == IF window.pid = "none" THEN Heuristic(d) ELSE Climb(d, window)

Positions(c, id) == {n \in DOMAIN listed[c] : listed[c][n].id = id}
Listing(d, id) == {c \in Children : where[c] = d /\ Positions(c, id) # {}}
Least(S) == CHOOSE n \in S : \A m \in S : n <= m

RemoveAt(s, n) == SubSeq(s, 1, n - 1) \o SubSeq(s, n + 1, Len(s))

\* Mutant: the entry is zeroed and stays.
DiscardedInPlace(d, id) ==
    LET found == Listing(d, id) IN
    IF found = {} THEN listed
    ELSE [listed EXCEPT ![Least(found)][Least(Positions(Least(found), id))].id = 0]

\* Mutant: only children that run are looked at.
DiscardedIfRunning(d, id) ==
    LET found == {c \in Listing(d, id) : state[c] = "running"} IN
    IF found = {} THEN listed
    ELSE [listed EXCEPT ![Least(found)] = RemoveAt(@, Least(Positions(Least(found), id)))]

\* The first entry with that id, of the first child of the display that has one.
Discarded(d, id) ==
    LET found == Listing(d, id) IN
    IF found = {} THEN listed
    ELSE [listed EXCEPT ![Least(found)] = RemoveAt(@, Least(Positions(Least(found), id)))]

-----------------------------------------------------------------------------
(* x11_handle_event *)

\* Mutant: entries are not used again.
TrackedAtEnd(id) == Append(tracked, [id |-> id, state |-> "unconfigured"])

\* CreateNotify: the first entry that is free.
Tracked(id) ==
    LET free == {u \in DOMAIN tracked : tracked[u].state = "inactive"}
        new  == [id |-> id, state |-> "unconfigured"]
    IN  IF free = {} THEN Append(tracked, new) ELSE [tracked EXCEPT ![Least(free)] = new]

\* Mutant: a window that is configured again is taken for new.
UnconfiguredOrActive(id) == {u \in DOMAIN tracked : tracked[u].id = id /\ tracked[u].state # "inactive"}

Unconfigured(id) == {u \in DOMAIN tracked : tracked[u].id = id /\ tracked[u].state = "unconfigured"}

Tracking(id) == {u \in DOMAIN tracked : tracked[u].id = id}

HandleCreate(id) ==
    /\ tracked' = Tracked(id)
    /\ UNCHANGED <<up, automating, listed>>

\* The server answers a question about a window that is gone with an error, and no handler
\* of errors is installed: Xlib ends the program.
HandleConfigure(d, id) ==
    IF Unconfigured(id) = {} THEN UNCHANGED <<up, automating, listed, tracked>>
    ELSE /\ tracked' = [tracked EXCEPT ![Least(Unconfigured(id))].state = "active"]
         /\ IF ~Present(d, id)
            THEN up' = FALSE /\ UNCHANGED <<automating, listed>>
            ELSE \E c \in Matches(d, shown[d][id]) :
                    /\ listed' = IF c = Nobody THEN listed
                                 ELSE [listed EXCEPT ![c] = Append(@, Entry(d, id))]
                    /\ automating' = (c \in Automated \cup Repatriated)
                    /\ UNCHANGED up

\* The first entry with that id, whatever its state.
HandleDestroy(d, id) ==
    /\ IF Tracking(id) = {} THEN UNCHANGED <<tracked, listed>>
       ELSE LET u == Least(Tracking(id)) IN
            /\ listed' = IF tracked[u].state = "active" THEN Discarded(d, id) ELSE listed
            /\ tracked' = [tracked EXCEPT ![u].state = "inactive"]
    /\ UNCHANGED <<up, automating>>

-----------------------------------------------------------------------------
(* x11_loop, a round of main and its select *)

\* The next display that was reported, or select: x11_loop does nothing for the others.
NextStop(d) == Least({e \in ready : e > d} \cup {Select})

\* Mutant: one event is handled for each report.
NextStopAfterEvent(d) == NextStop(d)

\* XPending is asked again.
AfterEvent(d) == d

\* XPending reads all there is.
HandleEvent(d) ==
    LET e == Head(events[d]) IN
    /\ at' = AfterEvent(d)
    /\ events' = [events EXCEPT ![d] = Tail(@)]
    /\ queued' = [queued EXCEPT ![d] = Len(events'[d])]
    /\ preread' = [preread EXCEPT ![d] = @ /\ Len(events[d]) > 1]
    /\ CASE e.kind = "create"    -> HandleCreate(e.id)
         [] e.kind = "configure" -> HandleConfigure(d, e.id)
         [] e.kind = "destroy"   -> HandleDestroy(d, e.id)
    /\ UNCHANGED <<ready, state, where, proc, xserver, history>>

NextDisplay ==
    /\ at' = NextStop(at)
    /\ UNCHANGED <<up, ready, automating, table, tracked, xserver, xlib, history>>

\* A display is served if select reported it, and then until nothing waits.
Serve(d) ==
    /\ up /\ at = d /\ ~automating
    /\ IF events[d] # <<>> THEN HandleEvent(d) ELSE NextDisplay

EndAutomation ==
    /\ up /\ automating
    /\ automating' = FALSE
    /\ UNCHANGED <<up, at, ready, table, tracked, xserver, xlib, history>>

\* The displays whose connection has something to read: what Xlib holds does not count.
Readable == {d \in Displays : queued[d] < Len(events[d])}
Exited == {c \in Startable : proc[c] = "zombie"}

\* child_reap: a pid means nothing once its process was waited for.
Reap ==
    /\ state' = [c \in Children |-> IF c \in Exited THEN "stopped" ELSE state[c]]
    /\ proc' = [c \in Startable |-> IF c \in Exited THEN "none" ELSE proc[c]]
    /\ shown' = [d \in Displays |-> [id \in DOMAIN shown[d] |->
                    IF shown[d][id].opener \in Exited /\ shown[d][id].pid = "own"
                    THEN [shown[d][id] EXCEPT !.pid = "gone"] ELSE shown[d][id]]]

\* After SIGCHLD nothing counts as reported.
SelectReturns ==
    /\ up /\ at = Select
    /\ IF Exited # {} THEN Reap /\ ready' = {}
       ELSE /\ Readable # {} /\ ready' = Readable
            /\ UNCHANGED <<state, proc, shown>>
    /\ at' = Least(ready' \cup {Select})
    /\ UNCHANGED <<up, automating, where, listed, tracked, openings, used, xlib, history>>

Round == SelectReturns \/ EndAutomation \/ \E d \in Displays : Serve(d)

Next == Round \/ Handlers \/ Environment

\* The thread does not stop within a round, and select returns if there is something to read.
Spec == Init /\ [][Next]_vars /\ WF_vars(Round)

-----------------------------------------------------------------------------
(* Properties *)

WindowType == [opener : Startable \cup {External},
               pid : {"own", "helper", "orphan", "gone", "none"}, configures : Nat]

\* The type invariant of the tables and of what goes between server and daemon.
WindowTypeOK ==
    /\ up \in BOOLEAN /\ at \in 1..Select /\ ready \subseteq Displays
    /\ automating \in BOOLEAN /\ (automating => at # Select)
    /\ state \in [Children -> {"stopped", "running", "terminated"}]
    /\ where \in [Children -> Displays]
    /\ listed \in [Children -> Seq([id : Ids, on : Displays])]
    /\ tracked \in Seq([id : Ids, state : {"inactive", "unconfigured", "active"}])
    /\ proc \in [Startable -> {"none", "alive", "zombie"}]
    /\ DOMAIN shown = Displays /\ used \in [Displays -> SUBSET Ids]
    /\ \A d \in Displays : /\ DOMAIN shown[d] \subseteq used[d]
                           /\ \A id \in DOMAIN shown[d] : shown[d][id] \in WindowType
    /\ openings \subseteq Openings /\ starts \in Nat
    /\ events \in [Displays -> Seq([kind : {"create", "configure", "destroy"}, id : Ids])]
    /\ queued \in [Displays -> Nat] /\ preread \in [Displays -> BOOLEAN]
    /\ \A d \in Displays : queued[d] <= Len(events[d])
    /\ \A c \in Startable : state[c] = "stopped" <=> proc[c] = "none"

Collides(id) == \E d, e \in Displays : d # e /\ id \in used[d] /\ id \in used[e]
Waiting(d, kind, id) == \E n \in DOMAIN events[d] : events[d][n] = Event(kind, id)

\* The windows that are tracked are those that are open, or whose DestroyNotify is on its
\* way, each by the one entry a DestroyNotify looks at, although entries are used again and
\* keep the ids of former windows (x11_handle_event).  Unless two servers use an id.
TrackedIsFound ==
    \A d \in Displays : \A id \in used[d] : ~Collides(id) =>
        LET in == {u \in Tracking(id) : tracked[u].state # "inactive"} IN
        /\ in # {} => /\ in = {Least(Tracking(id))}
                      /\ Present(d, id) \/ Waiting(d, "destroy", id)
        /\ Present(d, id) /\ ~Waiting(d, "create", id) /\ shown[d][id].opener # External
              => in # {}

\* Nothing is promised about windows whose id two servers use, and about windows that were in
\* the list of a child when it moved to another display, by a start there or by a request for
\* it that was refused: child_discard_window looks for them on the new one (child.c:586).
Certain(e) == ~Collides(e.id) /\ e \notin doubtful

\* No window counts as that of two children, or twice as that of one: child_occupant and the
\* layouts would show it in two frames.  Of those that are certain: not if two servers use its
\* id, or its child has moved or started again on another display with it.
ListedOnce ==
    \A c, x \in Startable : \A n \in DOMAIN listed[c], m \in DOMAIN listed[x] :
        listed[c][n] = listed[x][m] /\ Certain(listed[c][n]) => c = x /\ n = m

\* A child has no windows that are gone: a display would count as used for ever, and
\* automation would wait for nothing.  Even if the child was stopped and reaped, or started
\* again on the same display, before its DestroyNotify is handled.  The code does leave such
\* windows of a child that has moved or started again on another display meanwhile, and of ids
\* that two servers use: these are not certain.
NoneDangles ==
    \A c \in Startable : \A e \in Entries(c) :
        Certain(e) => Present(e.on, e.id) \/ Waiting(e.on, "destroy", e.id)

\* A window that names a process belongs to the child that process descends from and to no
\* other; only one that names none is given to a user command by guess (child_match_window).
\* Ids that two servers use, and windows of children that have changed displays with them,
\* are left out.
PidDecides ==
    \A c \in Startable : \A e \in Entries(c) :
        Certain(e) /\ Present(e.on, e.id) /\ ~Waiting(e.on, "destroy", e.id) =>
            IF shown[e.on][e.id].pid = "none" THEN c \in Users
            ELSE shown[e.on][e.id].opener = c

\* What a server sent is handled, unless x11_run_command has read some of it: that waits in
\* Xlib until the server sends something else, as select does not see it.
EventsAreHandled ==
    \A d \in Displays : events[d] # <<>> ~> (events[d] = <<>> \/ preread[d] \/ ~up)
=============================================================================
