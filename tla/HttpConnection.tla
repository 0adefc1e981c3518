--------------------------- MODULE HttpConnection ---------------------------
(***************************************************************************)
(* The HTTP server of rpcd (src/daemon/api.c) up to the point where a      *)
(* request is complete: client slots, the receive buffer, the header       *)
(* lines, and what a failed answer does to the daemon.  What the requests  *)
(* do to the children is in ChildTable.                                    *)
(*                                                                         *)
(* Abstractions                                                            *)
(*  - A client sends one request and waits for its answer.  The network    *)
(*    may deliver it in pieces of any length.                              *)
(*  - Bytes are tokens: CR, LF and NUL, a byte of the payload, and one     *)
(*    token for the rest of a line, known by what api_handle_header tells  *)
(*    apart.  Where bytes of a refused line are kept, the model keeps the  *)
(*    end of the line and what follows it: a part of a line that would be  *)
(*    a line of its own is left out, no client sends one.                  *)
(*  - Memory exhaustion is left out.                                       *)
(***************************************************************************)
EXTENDS Integers, Sequences

CONSTANTS
    Targets,      \* the endpoints asked for
    RecvChunk,    \* RECV_CHUNK, in tokens
    SizeLimit,    \* HARD_SIZE_LIMIT, in tokens
    Conversations \* what clients may ask for: sequences of requests, one per client

Closed == 0   \* a file descriptor of -1

\* A request, and how long the payload is that it announces and brings.
Request == [method : {"get", "post", "options"}, target : Targets, payload : Nat]

ASSUME ConversationAssumption == Conversations \subseteq Seq(Request)
ASSUME SizeAssumption == RecvChunk \in Nat \ {0, 1} /\ SizeLimit \in Nat \ {0, 1}

Token(k, x) == [kind |-> k, arg |-> x]
CR == Token("cr", 0)
LF == Token("lf", 0)
NUL == Token("nul", 0)

Payload(r) == [i \in 1..r.payload |-> Token("byte", r.target)]

\* What a client sends.
Text(r) ==
    <<Token(r.method, r.target), CR, LF>>
    \o (IF r.payload > 0 THEN <<Token("length", r.payload), CR, LF>> ELSE <<>>)
    \o <<CR, LF>>
    \o Payload(r)

VARIABLES
    script,   \* the requests of clients still to come
    clients,  \* clients[]; fd is an index into conns
    conns,    \* every connection, with what has reached the daemon and its outcome
    accepted, \* how many of them have been accepted
    batch,    \* what api_data has received and is going through
    up        \* main has not left its loop

httpVars == <<script, clients, conns, accepted, batch, up>>

FreshClient ==
    [fd |-> Closed, allocated |-> 0, buf |-> <<>>, payload |-> 0, method |-> "unknown",
     state |-> "new", endpoint |-> <<>>]

\* api_data is not running.
NoBatch == [slot |-> 0, conn |-> Closed, text |-> <<>>, start |-> 0]

HttpInit ==
    /\ script \in Conversations
    /\ clients = <<>>
    /\ conns = <<>>
    /\ accepted = 0
    /\ batch = NoBatch
    /\ up = TRUE

-----------------------------------------------------------------------------
(* Clients *)

\* arrived and read count tokens.  A connection is spoiled when nothing can be promised
\* about it: it took over the remains of another one, or a CR LF came in two pieces.
Connection(r) ==
    [request |-> r, arrived |-> 0, read |-> 0, gone |-> FALSE, spoiled |-> FALSE,
     result |-> "none"]

Connect ==
    /\ script # <<>>
    /\ conns' = Append(conns, Connection(Head(script)))
    /\ script' = Tail(script)
    /\ UNCHANGED <<clients, accepted, batch, up>>

\* Some more of the request reaches the daemon.  After the outcome nobody reads it.
Arrive(c) ==
    /\ ~conns[c].gone /\ conns[c].result = "none"
    /\ \E n \in (conns[c].arrived + 1)..Len(Text(conns[c].request)) :
         conns' = [conns EXCEPT ![c].arrived = n]
    /\ UNCHANGED <<script, clients, accepted, batch, up>>

\* The client hangs up; what has arrived can still be read.
HangUp(c) ==
    /\ ~conns[c].gone /\ conns[c].result = "none"
    /\ conns' = [conns EXCEPT ![c].gone = TRUE]
    /\ UNCHANGED <<script, clients, accepted, batch, up>>

-----------------------------------------------------------------------------
(* Slots *)

\* Mutant: what was received stays.
DisconnectedOnly(k) == [FreshClient EXCEPT !.allocated = k.allocated, !.buf = k.buf]

\* api_disconnect; the buffer itself stays.
Disconnected(k) == [FreshClient EXCEPT !.allocated = k.allocated]

\* Mutant: a slot that expects a request is free.
FreeSlotsNew == {i \in DOMAIN clients : clients[i].state = "new"}

FreeSlots == {i \in DOMAIN clients : clients[i].fd = Closed}

\* The first free slot, or a new one.
AcceptSlot(i) ==
    IF FreeSlots = {} THEN i = Len(clients) + 1
    ELSE i \in FreeSlots /\ \A j \in FreeSlots : i <= j

\* The slot is taken over as it is.
TakeClient ==
    /\ accepted' = accepted + 1
    /\ \E i \in 1..(Len(clients) + 1) :
         LET slot == IF i \in DOMAIN clients THEN clients[i] ELSE FreshClient IN
         /\ AcceptSlot(i)
         /\ clients' = [j \in DOMAIN clients \cup {i} |->
                           IF j = i THEN [slot EXCEPT !.fd = accepted'] ELSE clients[j]]
         /\ conns' = [conns EXCEPT ![accepted'].spoiled = slot # Disconnected(slot)]
    /\ UNCHANGED <<script, batch, up>>

\* The client has gone, or there is no descriptor left for it: the daemon ends.
AcceptFails ==
    /\ up' = FALSE
    /\ UNCHANGED <<script, clients, conns, accepted, batch>>

\* api_accept
Accept ==
    /\ up /\ batch = NoBatch
    /\ accepted < Len(conns)
    /\ TakeClient \/ AcceptFails

-----------------------------------------------------------------------------
(* api_handle_header: the client after a line.  Its answers are not checked. *)

\* The first line of a request.
Initiation(k, line) ==
    IF line = <<>> \/ Head(line).kind \notin {"get", "post"} THEN Disconnected(k)
    ELSE [k EXCEPT !.method = Head(line).kind, !.endpoint = <<Head(line).arg>>,
                   !.state = "headers"]

EndOfHeader(k) ==
    IF k.method = "post" /\ k.payload = 0 THEN Disconnected(k)
    ELSE [k EXCEPT !.state = "data"]

\* A NUL ends a string.
EmptyLine(line) == line = <<>> \/ Head(line) = NUL

HandleHeader(k, line) ==
    CASE line # <<>> /\ Head(line).kind \in {"cr", "lf"} -> Disconnected(k)
      [] OTHER ->
           IF k.state = "new" THEN Initiation(k, line)
           ELSE IF EmptyLine(line) THEN EndOfHeader(k)
           ELSE IF Head(line).kind = "length" THEN [k EXCEPT !.payload = Head(line).arg]
           ELSE k

-----------------------------------------------------------------------------
(* api_data: what is received *)

\* Mutant: no limit.
OversizedNever(k) == FALSE

Oversized(k) == Len(k.buf) >= SizeLimit

Allocated(k) ==
    IF k.allocated - Len(k.buf) < RecvChunk THEN k.allocated + RecvChunk ELSE k.allocated

Readable(c) == conns[c].read < conns[c].arrived \/ conns[c].gone

\* recv_offset is at the limit: the client is dropped before anything is received.
Drop(i) ==
    LET c == clients[i].fd IN
    /\ up /\ batch = NoBatch
    /\ c # Closed /\ Readable(c)
    /\ Oversized(clients[i])
    /\ clients' = [clients EXCEPT ![i] = Disconnected(@)]
    /\ conns' = [conns EXCEPT ![c].result = "dropped"]
    /\ UNCHANGED <<script, accepted, batch, up>>

\* recv reports the end of the connection.
ReceiveEnd(i) ==
    LET c == clients[i].fd IN
    /\ up /\ batch = NoBatch
    /\ c # Closed /\ ~Oversized(clients[i])
    /\ conns[c].gone /\ conns[c].read = conns[c].arrived
    /\ clients' = [clients EXCEPT
                     ![i] = [Disconnected(@) EXCEPT !.allocated = Allocated(clients[i])]]
    /\ conns' = [conns EXCEPT ![c].result = "lost"]
    /\ UNCHANGED <<script, accepted, batch, up>>

\* Mutant: all of the room is taken for filled.
ReceivedRoom(k) == Allocated(k) - Len(k.buf) - 1

\* How much recv returns: the last byte of the buffer is kept free.
Received(k) ==
    LET unread == conns[k.fd].arrived - conns[k.fd].read
        room   == Allocated(k) - Len(k.buf) - 1
    IN  IF unread <= room THEN unread ELSE room

\* All up to the n-th token of text have been received.
Torn(text, n) == n < Len(text) /\ text[n] = CR /\ text[n + 1] = LF

\* The scan for an end of line will start at the new bytes.
Receive(i) ==
    LET k    == clients[i]
        c    == k.fd
        text == Text(conns[c].request)
        n    == conns[c].read + Received(k)
    IN  /\ up /\ batch = NoBatch
        /\ c # Closed /\ ~Oversized(k)
        /\ conns[c].read < conns[c].arrived
        /\ clients' = [clients EXCEPT ![i].allocated = Allocated(k)]
        /\ conns' = [conns EXCEPT ![c].read = n, ![c].spoiled = @ \/ Torn(text, n)]
        /\ batch' = [slot |-> i, conn |-> c, start |-> Len(k.buf),
                     text |-> k.buf \o SubSeq(text, conns[c].read + 1, n)]
        /\ UNCHANGED <<script, accepted, up>>

ApiData(i) == Drop(i) \/ ReceiveEnd(i) \/ Receive(i)

-----------------------------------------------------------------------------
(* api_data: the lines of what has been received, and the payload.  The slot may have been *)
(* closed by a line: the rest of the buffer is gone through all the same, and a line of it   *)
(* may open the slot again for a request that has no client.                                *)

Client == clients[batch.slot]

LineEnds ==
    {p \in (batch.start + 1)..(Len(batch.text) - 1) :
        batch.text[p] = CR /\ batch.text[p + 1] = LF}

NoMoreLines == Client.state = "data" \/ LineEnds = {}

\* What is left when the line that ends at p has been removed.  One that closed the client has
\* set recv_offset to 0: what is kept begins too early by what had been received before, with
\* a NUL in place of the CR, and ends as much too early.
RestAfter(p, k) ==
    IF k.fd # Closed THEN SubSeq(batch.text, p + 2, Len(batch.text))
    ELSE SubSeq([batch.text EXCEPT ![p] = NUL],
                p + 2 - batch.start, Len(batch.text) - batch.start)

\* The first line is handled and removed.
Line ==
    /\ up /\ batch # NoBatch /\ ~NoMoreLines
    /\ \E p \in LineEnds :
         /\ \A q \in LineEnds : p <= q
         /\ LET k == HandleHeader(Client, SubSeq(batch.text, 1, p - 1)) IN
             /\ clients' = [clients EXCEPT ![batch.slot] = k]
             /\ conns' = IF Client.fd # Closed /\ k.fd = Closed
                         THEN [conns EXCEPT ![batch.conn].result = "refused"] ELSE conns
             /\ batch' = [batch EXCEPT !.text = RestAfter(p, k), !.start = 0]
    /\ UNCHANGED <<script, accepted, up>>

PayloadComplete(k) == k.payload > 0 => Len(batch.text) = k.payload

\* Whether the answer fails to be sent: it may if the client hung up, and it does if the
\* slot has been closed.
AnswerFails ==
    IF Client.fd = Closed THEN {TRUE}
    ELSE IF conns[batch.conn].gone THEN BOOLEAN ELSE {FALSE}

\* What api_handle_body executes, against what the client asked for.
Outcome(r) ==
    IF /\ Client.endpoint = <<r.target>>
       /\ SubSeq(batch.text, 1, Client.payload) = Payload(r)
    THEN "executed" ELSE "garbled"

\* The daemon ends if the answer cannot be sent.
Body ==
    /\ up /\ batch # NoBatch /\ NoMoreLines
    /\ Client.state = "data" /\ PayloadComplete(Client)
    /\ \E failed \in AnswerFails : up' = ~failed
    /\ clients' = [clients EXCEPT ![batch.slot] = Disconnected(@)]
    /\ conns' = [conns EXCEPT ![batch.conn].result = Outcome(conns[batch.conn].request)]
    /\ batch' = NoBatch
    /\ UNCHANGED <<script, accepted>>

\* What is left waits for more.
KeepRest ==
    /\ up /\ batch # NoBatch /\ NoMoreLines
    /\ ~(Client.state = "data" /\ PayloadComplete(Client))
    /\ clients' = [clients EXCEPT ![batch.slot].buf = batch.text]
    /\ batch' = NoBatch
    /\ UNCHANGED <<script, conns, accepted, up>>

HandleBatch == Line \/ Body \/ KeepRest

HttpEnvironment ==
    \/ Connect
    \/ \E c \in DOMAIN conns : Arrive(c) \/ HangUp(c)

HttpNext ==
    \/ HttpEnvironment
    \/ Accept
    \/ \E i \in DOMAIN clients : ApiData(i)
    \/ HandleBatch

HttpSpec == HttpInit /\ [][HttpNext]_httpVars

-----------------------------------------------------------------------------
(* Properties *)

TokenSet ==
    [kind : {"get", "post", "options", "byte"}, arg : Targets]
    \cup [kind : {"cr", "lf", "nul"}, arg : {0}]
    \cup [kind : {"length"}, arg : Nat]

ClientType ==
    [fd : 0..accepted, allocated : Nat, buf : Seq(TokenSet), payload : Nat,
     method : {"unknown", "get", "post"}, state : {"new", "headers", "data"},
     endpoint : {<<>>} \cup {<<t>> : t \in Targets}]

ConnectionType ==
    [request : Request, arrived : Nat, read : Nat, gone : BOOLEAN, spoiled : BOOLEAN,
     result : {"none", "executed", "garbled", "refused", "dropped", "lost"}]

BatchType == [slot : DOMAIN clients, conn : 1..accepted, text : Seq(TokenSet), start : Nat]

\* The type invariant: of clients[], of the connections and of what api_data goes through;
\* nothing is read that has not arrived.
HttpTypeOK ==
    /\ script \in Seq(Request)
    /\ accepted \in 0..Len(conns)
    /\ clients \in Seq(ClientType)
    /\ conns \in Seq(ConnectionType)
    /\ \A c \in DOMAIN conns : /\ conns[c].read <= conns[c].arrived
                               /\ conns[c].arrived <= Len(Text(conns[c].request))
    /\ batch \in {NoBatch} \cup BatchType
    /\ up \in BOOLEAN

\* A connection that has been accepted has one slot until it has an outcome, and none from
\* then on: no connection is forgotten without being closed, none is closed twice, and no
\* slot is given to two, although a slot may be closed while its buffer is being gone through
\* (api_accept, api_handle_header, api_data).
SlotUntilOutcome ==
    /\ \A i, j \in DOMAIN clients :
         clients[i].fd = clients[j].fd /\ clients[i].fd # Closed => i = j
    /\ \A c \in 1..accepted :
         conns[c].result = "none" <=> \E i \in DOMAIN clients : clients[i].fd = c

\* The receive buffer never outgrows the limit by two chunks or more, whatever a client
\* announces and sends, and there is always a byte left to end what is in it (api_data).
HttpBufferBounded ==
    /\ \A i \in DOMAIN clients :
         /\ clients[i].allocated < SizeLimit + 2 * RecvChunk
         /\ clients[i].buf # <<>> => Len(clients[i].buf) < clients[i].allocated
    /\ batch # NoBatch => Len(batch.text) < clients[batch.slot].allocated
=============================================================================
