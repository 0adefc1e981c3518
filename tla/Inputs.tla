------------------------------- MODULE Inputs -------------------------------
(***************************************************************************)
(* The rounds of rpcd's main loop over its descriptors: the HTTP server    *)
(* and the control inputs, each handler called for the descriptors that    *)
(* select reported, in the order of the slots.  Descriptors are numbers,   *)
(* and a number that has been closed is given out again.                   *)
(*                                                                         *)
(* Abstractions                                                            *)
(*  - The X displays' descriptors, which are open as long as the           *)
(*    configuration is in force, are left out.                             *)
(*  - Signals and reloads are in MainLoop.                                 *)
(*  - What clients do in a round is done before it or after it, or while   *)
(*    the daemon waits for them: a round handles a descriptor once, and    *)
(*    whether something came before select or before the handler makes no  *)
(*    difference to it.                                                    *)
(***************************************************************************)
EXTENDS HttpConnection, ControlInput

CONSTANTS
    Workloads,    \* what clients and writers have in store
    MaxExchanges, \* no conversation is longer
    MaxStreams    \* no plan has more inputs and clients

ASSUME WorkloadAssumption ==
    Workloads \subseteq [conversation : Conversations, plan : Plans]

VARIABLES
    files,     \* what each number is open for
    at,        \* the handler whose turn it is: a stage of the round and a slot
    ready,     \* the set in of api_loop and control_loop: primary of main
    asked,     \* the set out: secondary of main
    reported   \* history: what the numbers were open for when select returned

loopVars == <<files, at, ready, asked, reported>>
vars == <<httpVars, controlVars, loopVars>>

Nobody == <<"none", 0>>
Listener == <<"listen", 0>>

OpenFiles ==
    {Listener}
    \cup {<<"http", clients[i].fd>> : i \in {j \in DOMAIN clients : clients[j].fd # Closed}}
    \cup {<<"control", inputs[i].fd>> : i \in {j \in DOMAIN inputs : inputs[j].fd # Unused}}

\* A descriptor that is opened gets the lowest number that is free.
Numbered(open) ==
    LET kept  == [n \in DOMAIN files |-> IF files[n] \in open THEN files[n] ELSE Nobody]
        fresh == {d \in open : \A n \in DOMAIN files : files[n] # d}
        slot  == CHOOSE n \in 1..(Len(kept) + 1) :
                    /\ n \in DOMAIN kept => kept[n] = Nobody
                    /\ \A l \in 1..(n - 1) : kept[l] # Nobody
    IN  IF fresh = {} THEN kept
        ELSE [n \in DOMAIN kept \cup {slot} |->
                 IF n = slot THEN CHOOSE d \in fresh : TRUE ELSE kept[n]]

\* FD_ISSET and the numbers to set for a descriptor.
Isset(d) == \E n \in ready \cap DOMAIN files : files[n] = d
NumbersOf(d) == {n \in DOMAIN files : files[n] = d}

Init ==
    /\ \E w \in Workloads : script = w.conversation /\ ControlStart(w.plan)
    /\ HttpInit
    /\ files = [n \in 1..(Len(inputs) + 1) |->
                  IF n = 1 THEN Listener ELSE <<"control", n - 1>>]
    /\ at = <<"listen", 0>>
    /\ ready = {} /\ asked = {} /\ reported = <<>>

-----------------------------------------------------------------------------
(* api_loop *)

Listen ==
    /\ up /\ at[1] = "listen"
    /\ IF Isset(Listener) THEN Accept ELSE UNCHANGED httpVars
    /\ UNCHANGED <<controlVars, ready, reported>>
    /\ files' = Numbered(OpenFiles')
    /\ asked' = asked \cup NumbersOf(Listener)
    /\ at' = <<"api", 1>>

\* Mutant: a client is asked for again only if it had nothing to say.
AskedIfIdle(d) == IF Isset(d) THEN {} ELSE NumbersOf(d)

\* The descriptor of a slot is asked for again, unless its handler has closed it.
Asked(d) == {n \in DOMAIN files' : files'[n] = d}

ApiSlot(i) ==
    LET d == <<"http", clients[i].fd>> IN
    /\ up /\ at = <<"api", i>>
    /\ IF batch # NoBatch THEN HandleBatch
       ELSE IF clients[i].fd # Closed /\ Isset(d) THEN ApiData(i)
       ELSE UNCHANGED httpVars
    /\ UNCHANGED <<controlVars, ready, reported>>
    /\ files' = Numbered(OpenFiles')
    /\ IF batch' = NoBatch
       THEN asked' = asked \cup Asked(d) /\ at' = <<"api", i + 1>>
       ELSE UNCHANGED <<asked, at>>

EndApi ==
    /\ up /\ at[1] = "api" /\ at[2] \notin DOMAIN clients
    /\ at' = <<"control", 1>>
    /\ UNCHANGED <<httpVars, controlVars, files, ready, asked, reported>>

(* control_loop *)

\* A read of a client that has written nothing waits for it.
ControlSlot(i) ==
    LET d == <<"control", inputs[i].fd>> IN
    /\ up /\ at = <<"control", i>>
    /\ IF scan # NoScan THEN HandleScan
       ELSE IF inputs[i].fd # Unused /\ Isset(d) THEN ControlAccept(i) \/ ControlData(i)
       ELSE UNCHANGED controlVars
    /\ UNCHANGED <<httpVars, ready, reported>>
    /\ files' = Numbered(OpenFiles')
    /\ IF scan' = NoScan
       THEN asked' = asked \cup Asked(d) /\ at' = <<"control", i + 1>>
       ELSE UNCHANGED <<asked, at>>

\* Nothing looks at the set of this round any more.
EndControl ==
    /\ up /\ at[1] = "control" /\ at[2] \notin DOMAIN inputs
    /\ at' = <<"select", 0>>
    /\ ready' = {} /\ reported' = <<>>
    /\ UNCHANGED <<httpVars, controlVars, files, asked>>

(* select *)

HasInput(d) ==
    CASE d = Listener    -> accepted < Len(conns)
      [] d[1] = "http"   -> Readable(d[2])
      [] OTHER           ->
           IF streams[d[2]].type = "socket" THEN opened < Len(streams)
           ELSE streams[d[2]].read < streams[d[2]].written \/ streams[d[2]].gone

\* Mutant: a select that was interrupted leaves the set as it was passed.
ReportedAll == asked

Reported == {n \in asked : HasInput(files[n])}

Select ==
    /\ up /\ at[1] = "select"
    /\ Reported # {}
    /\ ready' = Reported
    /\ reported' = files
    /\ asked' = {}
    /\ at' = <<"listen", 0>>
    /\ UNCHANGED <<httpVars, controlVars, files>>

Round ==
    \/ Listen
    \/ \E i \in DOMAIN clients : ApiSlot(i)
    \/ EndApi
    \/ \E i \in DOMAIN inputs : ControlSlot(i)
    \/ EndControl
    \/ Select

\* The daemon waits in read for a client that has nothing to say.
Blocked ==
    /\ up /\ at[1] = "control" /\ at[2] \in DOMAIN inputs /\ scan = NoScan
    /\ LET s == inputs[at[2]].fd IN
        /\ s # Unused /\ Isset(<<"control", s>>)
        /\ streams[s].type = "client"
        /\ ~HasInput(<<"control", s>>)

Environment ==
    /\ at[1] = "select" \/ Blocked
    /\ \/ HttpEnvironment /\ UNCHANGED controlVars
       \/ ControlEnvironment /\ UNCHANGED httpVars
    /\ UNCHANGED loopVars

Next == Round \/ Environment

\* The thread does not stop within a round, and select returns.
Spec == Init /\ [][Next]_vars /\ WF_vars(Round)

-----------------------------------------------------------------------------
(* Properties *)

\* The descriptor whose handler is called next.
Turn ==
    CASE at[1] = "listen" -> Listener
      [] at[1] = "api" /\ at[2] \in DOMAIN clients -> <<"http", clients[at[2]].fd>>
      [] at[1] = "control" /\ at[2] \in DOMAIN inputs -> <<"control", inputs[at[2]].fd>>
      [] OTHER -> Nobody

\* A handler that is called finds something to read or to accept, so that it does not wait,
\* and does not take a FIFO for broken.  With one exception: a client of the control socket
\* that has been accepted in this round and got the number of a HTTP client that was served and
\* closed in this round (control_loop looks at the bit of the new client, api_loop does not).
HandlersHaveInput ==
    Turn # Nobody /\ Isset(Turn) /\ batch = NoBatch /\ scan = NoScan =>
        \/ HasInput(Turn)
        \/ Blocked /\ \E n \in NumbersOf(Turn) : reported[n][1] = "http"

\* What is written to a control input is read, unless its descriptor has been closed, or the
\* daemon went down or waits for another client.
IsUnread(s) ==
    /\ s \in DOMAIN streams
    /\ Unread(s)
    /\ s > opened \/ \E i \in DOMAIN inputs : inputs[i].fd = s

TextIsRead == \A s \in 1..MaxStreams : IsUnread(s) ~> (~IsUnread(s) \/ ~up \/ Blocked)

\* The HTTP server does what Exchange promises: whatever the order in which its clients and
\* the control inputs are served, a request has one outcome and the one it asks for, unless its
\* client hung up or its connection is spoiled, and nothing ends the daemon but a client that
\* hung up or cannot be accepted, or a spoiled connection (api_accept, api_data,
\* api_handle_header, api_handle_body).
Exchanges == INSTANCE Exchange WITH
    exchanges <- [c \in DOMAIN conns |->
                     [request |-> conns[c].request,
                      sent    |-> conns[c].arrived = Len(Text(conns[c].request)),
                      gone    |-> conns[c].gone,
                      taken   |-> c <= accepted,
                      spoiled |-> conns[c].spoiled,
                      result  |-> conns[c].result]],
    heldUp <- Blocked

RequestsAreDecided == Exchanges!Spec

\* And a request that has been sent gets its outcome.
RequestsAreAnswered == Exchanges!Answered
=============================================================================
