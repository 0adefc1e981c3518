---------------------------- MODULE ControlInput ----------------------------
(***************************************************************************)
(* The control inputs of rpcd (src/daemon/control.c): FIFOs, sockets and   *)
(* their clients, and how lines are taken from what arrives on them.  What *)
(* a command does is SetVariable of ChildTable and AutomationScript.       *)
(*                                                                         *)
(* Abstractions                                                            *)
(*  - A byte is an end of line, another control character, an equals sign  *)
(*    or one of a few others.                                              *)
(*  - Of the receive buffer, what lies before recv_offset is kept between  *)
(*    two calls: what lies behind is written before it is read again.      *)
(*  - At most one of the inputs is a socket.                              *)
(*  - Memory exhaustion, and errors of read other than having nothing to   *)
(*    read, are left out.                                                  *)
(***************************************************************************)
EXTENDS Integers, Sequences, FiniteSets

CONSTANTS
    Chunk,       \* CLIENT_RECV_CHUNK, in bytes
    Limit,       \* CLIENT_RECV_LIMIT, in bytes
    Plans        \* inputs that may be configured, and the texts of clients to come

NewLine   == "newline"
Unprinted == "control"
Equals    == "equals"
Nul       == "nul"

Bytes == {NewLine, Unprinted, Equals, "a", "b", "1", "2"}
Memory == Bytes \cup {Nul}

\* A stream of bytes that may be read from a descriptor.
Source == [type : {"fifo", "socket", "client"}, text : Seq(Bytes)]

ASSUME PlanAssumption ==
    Plans \subseteq [configured : Seq(Source), callers : Seq(Seq(Bytes))]
ASSUME SocketAssumption ==
    \A plan \in Plans : \A i, j \in DOMAIN plan.configured :
        plan.configured[i].type = "socket" /\ plan.configured[j].type = "socket" => i = j
ASSUME ChunkAssumption == Chunk \in Nat \ {0} /\ Limit \in Nat

VARIABLES
    inputs,   \* fds[]; fd is an index into streams, 0 if negative
    streams,  \* every descriptor, with what was written to it and read from it
    opened,   \* how many of them the daemon has
    scan,     \* what control_data has read and is going through
    callers   \* the texts of the clients still to connect

controlVars == <<inputs, streams, opened, scan, callers>>

Unused == 0

\* A descriptor on which nothing has been written yet.  overlong and misread record
\* that a line was cut, and that the scan left the bytes that were read.
Stream(source) ==
    [type |-> source.type, text |-> source.text, written |-> 0, read |-> 0, gone |-> FALSE,
     obeyed |-> <<>>, overlong |-> FALSE, misread |-> FALSE]

\* A new entry of fds[].
Input(type, fd) == [type |-> type, fd |-> fd, allocated |-> 0, buf |-> <<>>]

\* control_data is not running.
NoScan == [slot |-> 0, buf |-> <<>>, offset |-> 0, size |-> 0, head |-> 1, kept |-> 0]

\* What is configured is open; the clients of the plan are still to come.
ControlStart(plan) ==
    /\ inputs = [i \in DOMAIN plan.configured |-> Input(plan.configured[i].type, i)]
    /\ streams = [i \in DOMAIN plan.configured |-> Stream(plan.configured[i])]
    /\ opened = Len(plan.configured)
    /\ scan = NoScan
    /\ callers = plan.callers

ControlInit == \E plan \in Plans : ControlStart(plan)

-----------------------------------------------------------------------------
(* What others do *)

\* A client connects to the socket and waits to be accepted.
Call ==
    /\ callers # <<>>
    /\ \E i \in DOMAIN streams : streams[i].type = "socket"
    /\ streams' = Append(streams, Stream([type |-> "client", text |-> Head(callers)]))
    /\ callers' = Tail(callers)
    /\ UNCHANGED <<inputs, opened, scan>>

\* Some more of the text is written.
Write(s) ==
    /\ ~streams[s].gone
    /\ \E n \in (streams[s].written + 1)..Len(streams[s].text) :
         streams' = [streams EXCEPT ![s].written = n]
    /\ UNCHANGED <<inputs, opened, scan, callers>>

\* A client closes its end; the daemon itself keeps a FIFO open for writing.
Close(s) ==
    /\ streams[s].type = "client" /\ ~streams[s].gone
    /\ streams' = [streams EXCEPT ![s].gone = TRUE]
    /\ UNCHANGED <<inputs, opened, scan, callers>>

-----------------------------------------------------------------------------
(* control_accept and control_input *)

FreeInputs == {i \in DOMAIN inputs : inputs[i].fd = Unused}

\* The first free entry, or a new one.
FirstFree(j) ==
    IF FreeInputs = {} THEN j = Len(inputs) + 1
    ELSE j \in FreeInputs /\ \A l \in FreeInputs : j <= l

\* control_input keeps the memory of the entry it takes, and nothing else.
Reused(i, fd) ==
    IF i \in DOMAIN inputs THEN [Input("client", fd) EXCEPT !.allocated = inputs[i].allocated]
    ELSE Input("client", fd)

ControlAccept(i) ==
    /\ scan = NoScan
    /\ inputs[i].fd # Unused /\ inputs[i].type = "socket"
    /\ opened < Len(streams)
    /\ opened' = opened + 1
    /\ \E j \in 1..(Len(inputs) + 1) :
         /\ FirstFree(j)
         /\ inputs' = [l \in DOMAIN inputs \cup {j} |->
                         IF l = j THEN Reused(j, opened') ELSE inputs[l]]
    /\ UNCHANGED <<streams, scan, callers>>

-----------------------------------------------------------------------------
(* control_data: what is read *)

\* Mutant: the buffer is extended for each read.
EnlargedAlways(k) == [k EXCEPT !.allocated = @ + Chunk]

Enlarged(k) ==
    IF k.allocated - Len(k.buf) < Chunk THEN [k EXCEPT !.allocated = @ + Chunk] ELSE k

\* control_close
ControlClosed(k) == [k EXCEPT !.fd = Unused, !.buf = <<>>]

Unread(s) == streams[s].read < streams[s].written

\* There is nothing to read: the client has closed its end, or a FIFO, on which read does not
\* wait, was not ready.
ReadNothing(i) ==
    LET s == inputs[i].fd IN
    /\ scan = NoScan
    /\ s # Unused /\ ~Unread(s)
    /\ inputs[i].type = "fifo" \/ (inputs[i].type = "client" /\ streams[s].gone)
    /\ inputs' = [inputs EXCEPT ![i] = ControlClosed(Enlarged(@))]
    /\ UNCHANGED <<streams, opened, scan, callers>>

\* Mutant: all of the room is taken for filled.
ReadCountRoom(k) == k.allocated - Len(k.buf)

\* How much read returns.
ReadCount(k) ==
    LET unread == streams[k.fd].written - streams[k.fd].read
        room   == k.allocated - Len(k.buf)
    IN  IF unread <= room THEN unread ELSE room

Read(i) ==
    LET k == Enlarged(inputs[i])
        s == k.fd
        n == streams[s].read + ReadCount(k)
    IN  /\ scan = NoScan
        /\ s # Unused /\ k.type # "socket" /\ Unread(s)
        /\ inputs' = [inputs EXCEPT ![i] = k]
        /\ streams' = [streams EXCEPT ![s].read = n]
        /\ scan' = [slot |-> i, offset |-> Len(k.buf), size |-> n - streams[s].read,
                    buf |-> k.buf \o SubSeq(streams[s].text, streams[s].read + 1, n),
                    head |-> 1, kept |-> 0]
        /\ UNCHANGED <<opened, callers>>

ControlData(i) == ReadNothing(i) \/ Read(i)

-----------------------------------------------------------------------------
(* control_data: the scan of the size new bytes.  head and kept are u and c of the code, *)
(* counted from 1 and 0; both are relative to recv_offset, here offset.                  *)

AtByte == scan # NoScan /\ scan.head <= scan.size
Byte == scan.buf[scan.offset + scan.head]

\* What has been kept of the line.
LineSoFar == SubSeq(scan.buf, 1, scan.offset + scan.kept)

\* The line is ended by a NUL, and so is the name in it, by control_command.
AfterCommand ==
    LET names == {p \in DOMAIN LineSoFar : LineSoFar[p] = Equals} IN
    [p \in DOMAIN scan.buf |->
        IF p = Len(LineSoFar) + 1 \/ (p \in names /\ \A q \in names : p <= q) THEN Nul
        ELSE scan.buf[p]]

\* The line is obeyed and recv_offset reset; the index goes on.  If the line had begun in an
\* earlier read, the index is now short of the byte it should be at, and the last bytes of
\* the read are never looked at.
EndLine ==
    /\ AtByte /\ Byte = NewLine
    /\ LET s == inputs[scan.slot].fd IN
        streams' = [streams EXCEPT
            ![s].obeyed = Append(@, LineSoFar),
            ![s].misread = @ \/ (scan.offset > 0 /\ scan.head < scan.size)]
    /\ scan' = [scan EXCEPT !.buf = AfterCommand, !.offset = 0, !.kept = 0, !.head = @ + 1]
    /\ UNCHANGED <<inputs, opened, callers>>

StripByte ==
    /\ AtByte /\ Byte \in {Unprinted, Nul}
    /\ scan' = [scan EXCEPT !.head = @ + 1]
    /\ UNCHANGED <<inputs, streams, opened, callers>>

\* Mutant: a byte is not moved over those that were stripped.
KeepByteInPlace ==
    /\ AtByte /\ Byte \notin {NewLine, Unprinted, Nul}
    /\ scan' = [scan EXCEPT !.kept = @ + 1, !.head = @ + 1]
    /\ UNCHANGED <<inputs, streams, opened, callers>>

KeepByte ==
    /\ AtByte /\ Byte \notin {NewLine, Unprinted, Nul}
    /\ scan' = [scan EXCEPT !.buf[scan.offset + scan.kept + 1] = Byte,
                            !.kept = @ + 1, !.head = @ + 1]
    /\ UNCHANGED <<inputs, streams, opened, callers>>

\* What is left waits for more, unless it is too long.
EndScan ==
    /\ scan # NoScan /\ ~AtByte
    /\ LET k == inputs[scan.slot] IN
        IF Len(LineSoFar) <= Limit
        THEN /\ inputs' = [inputs EXCEPT ![scan.slot].buf = LineSoFar]
             /\ UNCHANGED streams
        ELSE /\ inputs' = [inputs EXCEPT ![scan.slot] =
                              IF k.type = "client" THEN ControlClosed(k)
                              ELSE [k EXCEPT !.buf = <<>>]]
             /\ streams' = [streams EXCEPT ![k.fd].overlong = TRUE]
    /\ scan' = NoScan
    /\ UNCHANGED <<opened, callers>>

HandleScan == EndLine \/ StripByte \/ KeepByte \/ EndScan

ControlEnvironment ==
    \/ Call
    \/ \E s \in DOMAIN streams : Write(s) \/ Close(s)

ControlNext ==
    \/ ControlEnvironment
    \/ \E i \in DOMAIN inputs : ControlAccept(i) \/ ControlData(i)
    \/ HandleScan

ControlSpec == ControlInit /\ [][ControlNext]_controlVars

-----------------------------------------------------------------------------
(* Properties *)

Printed(byte) == byte \notin {NewLine, Unprinted}

StreamType ==
    [type : {"fifo", "socket", "client"}, text : Seq(Bytes), written : Nat, read : Nat,
     gone : BOOLEAN, obeyed : Seq(Seq(Memory)), overlong : BOOLEAN, misread : BOOLEAN]

ScanType ==
    [slot : DOMAIN inputs, buf : Seq(Memory), offset : Nat, size : Nat,
     head : Nat \ {0}, kept : Nat]

\* The type invariant: of fds[], of what was written and read, and of the scan, which stays
\* within the buffer.
ControlTypeOK ==
    /\ callers \in Seq(Seq(Bytes))
    /\ opened \in 0..Len(streams)
    /\ inputs \in Seq([type : {"fifo", "socket", "client"}, fd : 0..opened,
                       allocated : Nat, buf : Seq(Memory)])
    /\ streams \in Seq(StreamType)
    /\ \A s \in DOMAIN streams : /\ streams[s].read <= streams[s].written
                                 /\ streams[s].written <= Len(streams[s].text)
    /\ scan \in {NoScan} \cup ScanType
    /\ scan # NoScan => /\ scan.offset + scan.size <= Len(scan.buf)
                        /\ scan.kept < scan.head /\ scan.head <= scan.size + 1

\* The ends of lines among the first n bytes of a text, and what follows the last of them
\* but for control characters: the beginning of the next line.
Ends(text, n) == {p \in 1..n : text[p] = NewLine}
Begun(text, n) == {r \in 1..n : Printed(text[r]) /\ \A e \in r..n : text[e] # NewLine}

\* The line has the bytes at these positions, in their order.
Rank(p, set) == Cardinality({r \in set : r <= p})
Spells(line, text, set) ==
    Len(line) = Cardinality(set) /\ \A p \in set : line[Rank(p, set)] = text[p]

\* The lines among the first n bytes of a text, as README.md has them: what comes before each
\* end of line.
AreLines(obeyed, text, n) ==
    /\ Len(obeyed) = Cardinality(Ends(text, n))
    /\ \A p \in Ends(text, n) : Spells(obeyed[Rank(p, Ends(text, n))], text, Begun(text, p - 1))

\* The commands obeyed on behalf of a descriptor are the lines that were written to it,
\* whole, in order and each once, and its entry holds the beginning of the next one and
\* nothing that anyone else wrote: however the text arrives, and whoever had the entry
\* before.  Except after a line that was cut, and after the scan saw other bytes than were
\* read (control_data).
LinesAreWhole ==
    \A i \in DOMAIN inputs :
        LET s == inputs[i].fd IN
        s # Unused /\ scan = NoScan /\ ~streams[s].misread /\ ~streams[s].overlong =>
            /\ AreLines(streams[s].obeyed, streams[s].text, streams[s].read)
            /\ Spells(inputs[i].buf, streams[s].text, Begun(streams[s].text, streams[s].read))

\* A buffer never outgrows the limit by two chunks or more, and what is kept of a line
\* fits into it (control_data, control_input).
ControlBufferBounded ==
    \A i \in DOMAIN inputs :
        /\ inputs[i].allocated < Limit + 2 * Chunk
        /\ Len(inputs[i].buf) <= Limit
        /\ Len(inputs[i].buf) <= inputs[i].allocated
=============================================================================
