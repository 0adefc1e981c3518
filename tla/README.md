# A TLA+ model of rpcd

`rpcd` (src/daemon) is a single-threaded daemon that runs programs on one or more
X displays managed by *ratpoison*. HTTP clients start, stop and move *user commands* and
choose *layouts*; an *automation script*, driven by variables that control inputs set,
keeps *automated windows* in the frames it assigns them to whenever a display is not
used by a command.

This directory models the parts of the daemon in which order matters: the table of
children and everything that acts on it, the automation, the main loop with its signals, the
inputs from which requests and commands are put together, and the windows of the children.
Each module says at its top what it abstracts from. `PROJECT.json` maps every definition
to the lines it models and lists runs, mutants, hazards, findings and theorems.

## Inventory

| Part | State | Operations | What makes it correct |
|---|---|---|---|
| Child table (child.c) | per child: lifecycle state, process, display, frame, stack order, start iterations, layout to restore, windows | start, stop, raise, reap, match and discard windows, repatriate, clean up | one process per entry; the display lock counts commands; the stack is strict; an undo matches an only |
| HTTP requests (api.c) | none of its own beyond a request | /command, /stop, /layout, /move, /reset, /select, /status, /commands, /layouts | a refused request does no harm later |
| HTTP connections (api.c) | per client: buffer, offset, method, endpoint, payload size, state | accept, receive, header line, body, disconnect | a request is handled once and whole however it arrives |
| Automation script (control.c) | operations, variables, entries of assign[], layout per display | parse a line, run | the result is the one the README gives the script |
| Automation result (control.c) | display status of the run | per assignment: skip, evict, give up, start, stop, wait, raise; layouts | it converges, never restarts forever, applies a layout only over complete frames |
| Control input (control.c) | descriptors, line buffers | accept, read, line, close | every line is seen once and whole |
| Window tracking (x11.c, child.c) | windows[] of the displays, windows of each child, Xlib's queue | create, configure, destroy; match and discard | each window has one child, and none when it is gone |
| Displays (x11.c) | busy, current and default layout, X connection | lock, unlock, only, undo, activate, events | see child table |
| Layouts (layout.c) | frames per layout | parse, find | configuration only |
| Main loop (rpcd.c) | three flags set by signal handlers, descriptor sets | a round: handle, select, reap, reload | no signal is forgotten; handlers get only ready descriptors |
| Configuration (config.c) | section | parse a line | configuration only |
| easy_json, easy_args, cli, webclient | none that outlives a call | parse, request, display | not modelled |

Everything runs on one thread. Components call each other directly: an API handler
calls the child table, which calls x11.c to lock, unlock and change layouts;
child_reap and child_match_window call the automation, which starts and stops
children; signal handlers only set flags that the main loop reads. What runs concurrently with
the daemon are the children it forks (which inherit its signal handlers
until they exec), the X servers with their window managers, the clients, and signals.

The hard behaviours: a handler that starts a chain (an exit is reaped, the script runs, a
window is started, fails, is reaped in the same loop); events that come late (a window is
destroyed after its child moved, a layout is undone after another was chosen); stops that
meet a process before exec; signals between a test and its consequence. The
hazards in `PROJECT.json` list them line by line.

## Modules

### ChildTable

The core. `pc` says where the daemon's thread is: `"idle"` between handlers, `"reap"` in
child_reap, `"script"`, `"apply"` and `"place"` in control_run_automation,
`"cleanup"` in child_cleanup, `"init"` in the first round of control_loop. `ret` is where
automation returns to, because child_reap calls it within its loop.

| State | Code |
|---|---|
| `state`, `display`, `frame`, `order`, `tries`, `restore` | fields of rpcd_child_t |
| `proc` | what the operating system knows of rpcd_child_t.instance |
| `live`, `ghost` | rpcd_child_t.windows against what the X server still shows |
| `busy`, `current` | fields of display_t |
| `onlys` | the window manager's undo stack: `only`s since the last layout |
| `outcome` | what the script comes to for the present variables (AutomationScript) |
| `todo`, `status` | assign[] and display_status[] of a run |
| `auto`, `closing`, `pending` | init_done of control.c; cleanup_all; the loop over keepalive windows |

Each API handler is one action, because nothing else of the daemon runs during it. The
handlers that call automation hand over to its steps, one per assignment and branch, between
which only the children's processes move. child_reap is one step per round of its loop.

A process is `forked` until it execs: a SIGTERM then only runs the handler it inherited
from the daemon, and before setpgrp even SIGKILL finds no group. That time is not
short: the child sleeps a random time of up to seconds before it execs (child.c).

child_restack renumbers the stack on each call. `order` holds ranks in its place: the code only
compares the numbers, and checks for -1 and 0. `StackIsStrict` is about these ranks; that the numbers
of the code, and its comparison of them, come to the same is what RaiseOrder is for.

Windows found at startup (`Places`) may be in any frame of any display.

Checked (MCChildTable):

| Run | Instance | Shows |
|---|---|---|
| `child_table_commands` | 2 commands, 2 displays, 1 repatriated window, exit | `TypeOK`, `BusyIsCounted`, `StoppedIffReaped`, `UndoIsMatched` |
| `child_table_automation` | 2 automated windows (ondemand, keepalive), 1 tool, 2 frames on one display, 3 outcomes of the script | `StackIsStrict`, `Converged`, `LayoutShowsAssigned` |
| `child_table_moves` | 1 command, 1 keepalive window, 2 displays, 2 outcomes, reload | `Converged`, `NoStartWhileClosing`, `HandlersReturn` (liveness) |
| `move_on_busy_display` | as `child_table_moves` | a violation, see below |
| `stop_before_exec` | as `child_table_moves` | a violation, see below |

*Bounds.* Two commands on two displays are the least at which a counter of one display can
be confused with the other's. Three outcomes of two windows over two frames give every
relation between two runs of the script: the same window in the same frame, in the other's frame, and
not requested. `StartRetries` is 2 in place of 4: the counter is compared with the
bound only, and 2 tells the first try, a retry and giving up apart. `MaxOnlys`
bounds the `only`s outstanding on a display; it is large enough for two fullscreen commands
on one display. The commands of an instance are symmetric; no liveness is checked under
symmetry.

*Fairness.* `FairSpec` lets the thread go on once it is in a handler (it is the only
thread, and it does not wait within one, apart from the window manager's answers, which
are taken to arrive), a process reach exec, and SIGKILL take effect. No program has to exit and
no request, event or signal has to come. Under it `HandlersReturn` says that child_reap with
the automation it calls, and child_cleanup, come to an end.

### RaiseOrder

The numbers themselves: `Shifted` and `Top` are what child_restack does to rpcd_child_t.order,
`Start`, `Move`, `Stop`, `Reap` and `Reload` what becomes of it else, and `Occupant` is the loop of
child_occupant with its comparison of a signed number with a size_t (`AsSize`: -1 is the greatest of
all). `stack` is history: the children that were raised since they were stopped, in order.

Run `raise_order` checks `NumbersFollowStack`, that the numbers have the order of that stack over every
sequence of starts, failing forks, raises, stops, exits and reloads, and `OccupantIsRaisedLast`, that what
child_occupant finds is what was raised last among the commands in the frame, or among
the windows if there is no command. *Bounds.* Two commands, an automated window and a window found at
startup: two loops of child_occupant, ties, and a number of 0. child_restack closes the gap below the lowest number only: a
child that is raised again and again above another gets ever greater numbers, so that `MaxOrder` has
to bound them. 6 leaves room for gaps between three children that can be raised. `SizeMax` is 255:
any number above `MaxOrder` does.

### AutomationScript

The script's two halves: `ConfigLine` appends what control_config_automation makes of a
line, and `Test`, `SkipAhead`, `SetLayout`, `Replace`, `Register`, `Stop` interpret the
operations. `Executed`, `Requested` and `Decided` are the README's meaning of a script, over its
lines and independent of the interpreter's index and entries: which lines a run comes to, what
their assigns request and which layout they leave. The result, `Requests` and
`layout`, is what ChildTable calls an outcome; `EntriesAreDistinct` is what
ChildTable assumes of outcomes (`OutcomeAssumption`).

Run `script` checks every script of up to three lines over ten statements and conditional
assigns and skips, and each is run again after every change of the variable, so
that what one run leaves could disturb the next. Three lines suffice for an assign
that takes a frame and a window from two different entries. `RunEnds` needs fairness of the
interpreter's steps only: it is a loop without waiting.

### MainLoop

One action per place in a round of the loop where a signal makes a difference: after the test of
`pid_signaled`, on entering select, between the reset of a flag and the work it stands for,
around the reading of the configuration. Children are reduced to none, running, zombie.

Run `main_loop` assumes, beyond that the thread runs (`FairSpec`), that some input keeps
arriving (`PolledSpec`): every open web client asks for /status every five seconds
(webclient/js/rpcd.js). Then every exit is reaped and every postponed reload happens.
Run `main_loop_quiet` leaves that out and fails, see below. Two commands and a
window make signals coalesce and let automation start a child while others are reaped. That the first
round of control_loop after a configuration starts keepalive windows, though no descriptor is ready
(control.c:773), is not in this module: ChildTable has it.

### HttpConnection, ControlInput, Inputs and Exchange

HttpConnection is the HTTP server up to a complete request: `Accept` is api_accept, `Drop`,
`ReceiveEnd` and `Receive` are what a call of api_data starts with, `Line`, `Body` and
`KeepRest` what it makes of the buffer. ControlInput is the same for control inputs:
`ControlAccept`, `Read` and `ReadNothing`, then `EndLine`, `StripByte`, `KeepByte`
and `EndScan` for each byte of the scan in control_data.

| State | Code |
|---|---|
| `clients`, `inputs` | clients[] of api.c; fds[] of control.c, both with `fd` an index into the connections |
| `batch`, `scan` | the locals of api_data and control_data, and the part of the buffer they are going through |
| `conns`, `streams` | what clients and writers sent, how much of it has arrived and been read, what came of it |
| `files` | which number each descriptor has; the lowest free one is given out |
| `at`, `ready`, `asked` | the place in a round; the sets primary and secondary of main |
| `spoiled`, `misread`, `overlong`, `reported` | history, for the properties only |

Tokens stand for bytes. A control input is modelled byte by byte because the index arithmetic
of its scan is what can go wrong; a header line is one token for its content between its
CR and LF, which are tokens of their own because they may be separated.

Inputs composes both as main does: api_loop and control_loop over the slots, each handler for
the descriptors that select reported, and descriptor numbers that are used again within a
round. Exchange is what the server promises, without buffers, slots or rounds: a request has one
outcome, the one it asks for, what is owed does not stay owed, and the server gives up only over a client
that hung up, one that cannot be taken on (`GiveUp`: accept fails), or a spoiled connection. Inputs has it as
`INSTANCE Exchange WITH` an exchange for each connection. `RequestsAreDecided` is the
specification of Exchange, which is about safety, and `RequestsAreAnswered` its liveness.
Two words of Exchange say where the
promise ends: a connection is *spoiled* when it took over what another left in its
slot, or when a CR LF came in two pieces (both below); the server is *held up* while it
waits in a read of a control client.

What a refused client leaves is modelled to the token (`RestAfter`). api_disconnect has set recv_offset
to 0 before api_data removes the line, so that what is kept begins too early by what had been in the
buffer before the last recv: the end of the refused line may stay, with a NUL in place of its CR. The
client that gets the slot next is spoiled by it, unless nothing is left. The rest may also hold a line
that opens the slot again, for a request without a client.

Run `inputs` checks this and, besides, `SlotUntilOutcome`, `HttpBufferBounded`, `LinesAreWhole`,
`ControlBufferBounded`, `HandlersHaveInput` and the liveness of control inputs, `TextIsRead`.
`LinesAreWhole` compares what was obeyed with the lines of the text as the README has them, by
positions: `AreLines` says that a command was obeyed for each end of line, with what came before
it, and `Begun` is what the entry must hold of the next line.

*Bounds.* MCInputs runs seven workloads, each in every cutting into pieces and
every order. They are chosen for the branches: refusal at the first and at the last line,
payloads below and above the limit, a reused HTTP slot, a reused control entry, stripped
bytes, a line that is too long, and a control client beside a HTTP client that closes in the same
round (the reuse of numbers). `RecvChunk`, `SizeLimit`, `Chunk` and `Limit` are a few tokens in place
of kilobytes: smaller than the requests and lines of the workloads, so that a buffer grows, fills,
and meets its limit.

*Fairness.* `WF_vars(Round)`: the thread goes on within a round, and select returns when a
descriptor is ready. Clients and writers owe nothing. The runs do not check for deadlock, because a
daemon whose clients have all finished waits in select for ever.

### WindowTracking

How the daemon learns of windows: `HandleCreate`, `HandleConfigure` and `HandleDestroy` are the
cases of x11_handle_event, `Matches` is child_match_window, `Discarded` child_discard_window,
`Serve` and `NextDisplay` the loop of x11_loop, `SelectReturns` the end of a round of main with
the child_reap that follows a SIGCHLD.

| State | Code |
|---|---|
| `listed`, `where`, `state` | rpcd_child_t.windows, display_id and state |
| `tracked` | windows[] of x11.c, one table for all displays |
| `events`, `queued` | what a server has sent and the daemon not handled; how much of it Xlib holds already |
| `proc`, `shown`, `openings` | programs and servers: processes, windows, what they will still open |
| `preread`, `used`, `doubtful` | history, for the properties only |

A window's process (`pid`) is the child's own, a process the child started (`helper`), one with
another parent (`orphan`), gone, or not named. `Climb` is what the walk up the processes
arrives at for each, with the process exiting at any point: a process that is gone
reads as parent 0, which is the instance of a repatriated window.

Run `windows` checks `TrackedIsFound` (the table finds each window by the first entry with its id,
though entries keep former ids), `ListedOnce`, `NoneDangles` and `PidDecides` over what handlers
do meanwhile (starts, stops, refused requests, the commands to the window manager), and
`EventsAreHandled` (liveness).

*Bounds.* One command, one automated window, two displays of which one repatriates, two ids and
five workloads: windows placed twice (also one from before the daemon, whose CreateNotify may
have been read before it listed the windows), windows with no process, an id used
again by another child, a child started again on any display, windows from before
the daemon, and two servers giving out one id. Two starts are what it takes for windows of a former
instance to meet those of the next.

*Where the properties stop.* Three conditions of the code make them fail, and each is named where it
is excluded: ids two servers share (`Collides`: the table is one for all displays), a child that moved to
another display while it had windows (`doubtful`: child_discard_window looks on the new one, child.c:586),
both taken out by `Certain`, by which `ListedOnce`, `NoneDangles` and `PidDecides` are restricted,
and events Xlib read during x11_run_command (`preread`: select does not see them). `up` is for
the X error of a window that is gone when it is asked for its properties, which ends the daemon.

*Fairness.* As in Inputs. Programs may do nothing.

## What is proved

Every safety invariant and action property that a run checks, but those of RaiseOrder, and the safety
part of the refinement, for every value of the constants that the named assumptions of the modules
admit. The proofs are in modules named after the component; SequenceLemmas has the typing of
an updated sequence.

Beyond types the assumptions on constants are these. `StartRetries` is not 0 (ChildTable; 4 in
control.h). A window and a frame have one assignment in an outcome (ChildTable; proved of
AutomationScript). No script and no skip is so long that the index wraps around (AutomationScript;
the index is a size_t). `RecvChunk` and `SizeLimit` are at least 2 (HttpConnection; 4096 and
10240 bytes in api.h). At most one input is a socket (ControlInput, one of its abstractions; used
for `HandlersHaveInput` alone).

### ChildTableProofs

For any finite sets of commands, windows and repatriated windows, any displays and frames.

| Theorem | States | Rests on |
|---|---|---|
| `TypeCorrect` | `TypeOK` | inductive; one step per action |
| `StoppedIsReaped` | `StoppedIffReaped` | `PendingStopped` |
| `BusyCorrect` | `BusyIsCounted` | `StoppedIffReaped` |
| `UndoCorrect` | `UndoIsMatched` | `StoppedIffReaped` |
| `NothingStartsWhileClosing` | `NoStartWhileClosing`, an action property | `ClosingQuiet` |
| `StackCorrect` | `StackIsStrict` | `StackInv` |
| `AutomationConverges` | `Converged` | `StackInv`, `RunInv`, `SettledInv` |
| `LayoutsShowTheScript` | `LayoutShowsAssigned` | `RunInv`, `SettledInv`, `StackInv` |

control_loop starts the keepalive windows without a look at their state, so `StoppedIffReaped`
needs `PendingStopped`, that they are stopped while it has yet to start them. Reaping a
command lowers `busy` only because its entry was still counted, and matches one `only` only because
a command is reaped once. `StepKinds` reduces the thirty actions to what they can do to the
children (keep, start, terminate, reap, a process step, the reset on reload), and
`UndoKinds` says that every step but the start and the reaping of a command leaves, on each display,
no more fullscreen commands and no fewer `only`s, or no fullscreen command at all, which is
what child_discard_restores achieves when a layout clears the undo stack.

`StackIsStrict` is not inductive: that two children have different ranks does not follow, after one
is taken out, from their ranks having been different. `StackInv` adds `Ranked`: the rank of
a child is the number of children up to it. The counting that this needs is done
with the library's theorems on cardinalities, once for a child that goes and once for one that is raised.

`Converged` speaks of the moments between two handlers, and has to be carried through an automation run.
`RunInv` says that what is left to do is the end of what the script asked for and that
a display counts as busy in the run just if it is. `SettledInv` says that each assignment
already dealt with is settled: its window is in its frame, or on the way out, or a start of it failed.
That a window is in its frame depends on the ranks, which is where `StackInv` comes in, and on tools having no
windows (`NoToolWindows`).
The step that could undo that is an assignment dealt with later, which evicts a window; that
it never evicts a settled one is where `OutcomeAssumption` is used.

### AutomationScriptProofs

For any lines, any length of scripts and any values of variables.

| Theorem | States |
|---|---|
| `TypeCorrect` | `TypeOK` |
| `EntriesFit` | `EntriesAreAllocated`: a registration always enlarges the array |
| `EntriesDiffer` | `EntriesAreDistinct`, which justifies `OutcomeAssumption` of ChildTable |
| `ScriptFollowed` | `ScriptIsFollowed`: the result is the one the README gives the script, if no skip counts past an `if` |

`ScriptFollowed` is restricted as the property is, to scripts in which no skip counts past an `if`
(`SkipsArePlain`); without that it fails, see below. Its invariant is `ScriptInv`. `Parsed` has a map
from each line to the index of its first operation; an `if` has two, so the map is not the identity and a skip need not end at the
start of a line. `RunsAsDocumented` says that the index is at the start of a line, at its body after
a condition that held, or past the end; that the lines left out so far are those no run
comes to (`Between`); and that the entries and layouts are what the lines before request
(`FollowedTo`). That skips which count no `if` lead from the start of a line to the start of a line
is arithmetic on the map.

### MainLoopProofs

For any set of children: `TypeCorrect` (`TypeOK`); `ExitsAreKept` (`NoExitForgotten`, inductive
over the type); `FdsAreReported` (`FdsWereReported`). The strengthening `SetsInv` of the last follows a
descriptor set that select left as it was passed: as long as one is there, some flag is on
record that has it emptied before the sets are swapped.

### HttpConnectionProofs, ControlInputProofs and InputsProofs

For any conversations, plans, chunks and limits.

| Theorem | States | Rests on |
|---|---|---|
| `HttpTypeCorrect`, `HttpBuffersBounded` | `HttpTypeOK`, `HttpBufferBounded` | `HttpBounds` |
| `SlotsUntilOutcome` | `SlotUntilOutcome` | `SlotInv` |
| `ControlTypeCorrect`, `ControlBuffersBounded` | `ControlTypeOK`, `ControlBufferBounded` | `ControlInv` |
| `LinesObeyedWhole` | `LinesAreWhole` | `LineInv` |
| `PartsImplemented` | Inputs implements HttpSpec and ControlSpec | |
| `InputsSafe` | all of the above in Inputs | `PartsImplemented` |
| `RequestsDecided` | `RequestsAreDecided`: Inputs implements Exchange | `OutcomeInv` |
| `HandlersAlwaysHaveInput` | `HandlersHaveInput` | `RoundInv` |

Types and bounds are proved together, because that a received piece fits is part of what
types the buffer, and the byte kept free at its end is what makes the next recv ask for at least one.
The scan of control_data never leaves the buffer although its index is relative to an offset that
changes under it. `SlotInv` adds that a connection which waits to be accepted has no outcome, and
that the connection api_data works for has the slot it started with or an outcome: a line
may close the slot while the rest of the buffer is gone through.

`LineInv` says of an entry at rest that what is in it goes on where the lines obeyed so far
end; of one that is scanned, that this holds for the bytes already looked at and that the buffer
has the bytes still to be looked at where they were read, though the kept ones are moved down over those
that were stripped; that each stream is read into one entry; and that nothing was
obeyed for a client before it is accepted. The last two are what makes it irrelevant
whose the entry was before.

`RequestsDecided` maps each step of Inputs to a step of Exchange or a stutter. What that needs to
know is `OutcomeInv`: the buffer of a slot, the header lines handled and the bytes still to be
received make up the request of its connection, unless that is spoiled, and an end of line is never cut
in two between them. Of a free slot it says nothing, as anything may be left there: a client that
takes it over as it is left is spoiled unless it is empty. If an unspoiled client is closed by a line,
what the call still goes through has no first line of a request, so that the slot stays closed. An outcome is then the one
that was asked for (`executed` what was sent, or refused for a reason the request has), and the daemon
goes down only over a client that hung up or cannot be accepted, or over a spoiled connection.

`RoundInv` is about the numbers of descriptors and the sets. `Filed`: the numbers are 1 to k and each
open descriptor has one. `Kinds`: what waits at the socket is a client. `AskedOpen`: what was
asked for in this round is open and has had its turn. `ReadyOpen` says of every number select reported
that it still stands for the same descriptor, which has input until its turn (`Waiting`), or was closed
and is free (`Freed`), or was given to a client of the control socket (`Given`), whose turn in this round
is over unless a HTTP client had the number. The last clause holds because a control input that closes
frees an entry of fds[] that lies before the one at hand, and control_input takes the first free
one; where api_loop closes, nothing of the sort can be said, and the exception in
`HandlersHaveInput` is the result.

### WindowTrackingProofs

For any numbers of children and displays, any ids and any workloads.

| Theorem | States | Rests on |
|---|---|---|
| `TypeCorrect` | `WindowTypeOK` | inductive |
| `TrackingCorrect` | `TrackedIsFound` | `TrackInv` |
| `ListingCorrect` | `ListedOnce` | `TrackInv`, `ListInv` |
| `NoneIsLeft` | `NoneDangles` | `TrackInv`, `ListInv` |
| `MatchingCorrect` | `PidDecides` | `TrackInv`, `ListInv` |

`TrackInv` has four parts. The ids the daemon knows are ids a server gave out (`IdsAreUsed`).
In the events of one server, the creations and destructions of one id take turns, and the last is what
holds now (`TakeTurns`). A former entry of an id comes after the one in use
(`FoundFirst`): the search from the front finds that one. And an id that is tracked is present or its
end is on the way, one that is present and not tracked is announced (`TrackedInTurn`). `ListInv` adds that
what a child lists is tracked and on the child's display, and that no window is listed twice.

### What stays with TLC

Liveness, because the provers do not reach fairness: `HandlersReturn`, `RunEnds`,
`PostponedReloadHappens`, `ExitIsReaped`, `TextIsRead`, `RequestsAreAnswered`,
`EventsAreHandled`. The numbers of RaiseOrder. And the runs that find a disagreement, since what they show is a
behaviour.

## Where code and documentation disagree

- README.md:122, changes only on displays without user commands. The automation stops a
  window on a busy display when the script moves it elsewhere (`move_on_busy_display`).
- README.md:239, a stop terminates the process group. A stop before exec is swallowed
  (`stop_before_exec`); a second stop sends SIGKILL, and works once the group exists.
- README.md:118, automation runs when a child terminates. A SIGCHLD between the test of
  pid_signaled and select waits for the next input (`main_loop_quiet`).
- README.md:229, SIGHUP reloads. One that comes during a reload is forgotten
  (`sighup_during_reload`).

Met while reading, with no run: README.md:131 has skip count instructions, and it counts operations,
of which an `if` has two (control.c:446), so that `skip 1` before an `if` skips the condition and
executes its body (`ScriptIsFollowed` excludes such scripts by `SkipsArePlain`); endpoints.txt:59 says /reset stops all running commands, and
child_stop_commands leaves those without windows running (child.c:82); README.md:230 postpones
a reload while a user command runs, and a command without windows makes no display
busy (rpcd.c:60).

More of that kind, from the inputs. The model has them, and a property or the specification names the
exception:

- A CR LF that comes in two pieces is never found, because the scan starts at the new bytes
  (api.c:677): the request is not answered.
- A client that is closed by a header line leaves the rest of the buffer in its slot (api.c:688, with a
  FIXME): the next client of the slot is answered for that. The rest is taken from the wrong place, as
  recv_offset was set to 0 meanwhile (api.c:109, api.c:692), and a line in it may open the slot for a
  request without a client, whose answer then fails to be sent.
- An answer that cannot be sent ends the daemon (api.c:705), and so does a client that is gone before it is
  accepted (api.c:132).
- The index of the scan in control_data is not adjusted when recv_offset becomes 0
  (control.c:206): if a line that began in an earlier read ends, and another follows it in
  the same read, the last bytes are not looked at and others are looked at twice. README.md:163 has commands ended by a newline.
- A number closed by api_loop and given to a control client in the same round counts as reported,
  and its read waits (control.c:800, rpcd.c:153).

And from the windows:

- The heuristic for a window that names no process takes the first running user command of the table
  (child.c:524 and below), README.md:275 has the last one started.
- One table tracks the windows of all displays by their ids alone (x11.c:131).
- A repatriated window is not in that table, so that its end is not noticed.
- XMaskEvent moves events into Xlib's queue, where select does not see them (x11.c:265).
- No handler for X errors is installed: a window that is gone when asked for its properties ends the
  daemon (x11.c:51).
- child_match_window compares filters[0] where the name has filters[1] (child.c:510-511). No code sets a
  filter.

## Not modelled

- The text of layouts (layout.c), their scaling and their transfer to the window manager: a pure
  computation on one file, whose result no other part looks at except for the frames it has.
- The configuration parser (config.c): sequential, it fills the tables that are constants here. Its
  section for automation is in AutomationScript.
- easy_json and easy_args: libraries without state. Memory is a matter for a tool that works on C.
- The command line client and the web client: one request, one output. That the web client polls is used
  in MainLoop.
- /status, /commands, /layouts and /select: they change nothing here.
- Memory exhaustion. A window manager that does not answer. Reuse of process ids. Window
  filters, which no code sets.
- Two spellings of a window's name, which child_window_find takes for one and the
  script's interpreter for two (control.c:416), and an `if` within an `if` (control.c:452, which README.md:153
  excludes).
- A configuration that fails half way through a reload, as far as the descriptors are concerned
  (MainLoop has the loop without configuration).

## Plan

1. The safety side of termination: a measure that every step of child_reap with the automation it
   calls lowers, proved as an action property beside the liveness property `HandlersReturn`.
2. RaiseOrder with proofs: `NumbersFollowStack` for any number of children, and that comparing its
   numbers and comparing ChildTable's ranks agree.
3. The windows of ChildTable (`live`, `ghost`) as an abstraction of WindowTracking, as far as one display
   goes.
