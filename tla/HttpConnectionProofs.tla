------------------------ MODULE HttpConnectionProofs ------------------------
(***************************************************************************)
(* Theorems about HttpConnection: for any requests, in any number, and any *)
(* size of the chunks and of the limit.                                    *)
(***************************************************************************)
EXTENDS HttpConnection, SequenceLemmas, TLAPS

GoodConnection ==
    {e \in ConnectionType : e.read <= e.arrived /\ e.arrived <= Len(Text(e.request))}

\* The type invariant, in the parts the steps are about.
HttpTyped ==
    /\ script \in Seq(Request)
    /\ accepted \in 0..Len(conns)
    /\ clients \in Seq(ClientType)
    /\ conns \in Seq(GoodConnection)
    /\ batch \in {NoBatch} \cup BatchType
    /\ up \in BOOLEAN

HttpBounds == HttpTyped /\ HttpBufferBounded

LEMMA HttpTypedParts == HttpTyped => HttpTypeOK
<1>. SUFFICES ASSUME HttpTyped PROVE HttpTypeOK
  OBVIOUS
<1>1. \A c \in 1..Len(conns) : conns[c] \in GoodConnection
  BY ElementOfSeq DEF HttpTyped
<1>2. \A c \in 1..Len(conns) : conns[c] \in ConnectionType
  BY <1>1 DEF GoodConnection
<1>3. conns \in Seq(ConnectionType)
  BY <1>2 DEF HttpTyped
<1>. QED BY <1>1, <1>3 DEF HttpTyped, HttpTypeOK, GoodConnection

-----------------------------------------------------------------------------
(* Texts and tokens *)

LEMMA TokensTyped ==
    /\ CR \in TokenSet /\ LF \in TokenSet /\ NUL \in TokenSet
    /\ \A m \in {"get", "post", "options"}, t \in Targets : Token(m, t) \in TokenSet
    /\ \A t \in Targets : Token("byte", t) \in TokenSet
    /\ \A n \in Nat : Token("length", n) \in TokenSet
BY DEF CR, LF, NUL, Token, TokenSet

LEMMA TextTyped ==
    ASSUME NEW r \in Request
    PROVE  Text(r) \in Seq(TokenSet)
<1>1. /\ r.method \in {"get", "post", "options"} /\ r.target \in Targets /\ r.payload \in Nat
  BY DEF Request
<1>. DEFINE first == <<Token(r.method, r.target), CR, LF>>
            length == IF r.payload > 0 THEN <<Token("length", r.payload), CR, LF>> ELSE <<>>
            blank == <<CR, LF>>
<1>2. first \in Seq(TokenSet) /\ blank \in Seq(TokenSet)
  BY <1>1, TokensTyped
<1>3. length \in Seq(TokenSet)
  BY <1>1, TokensTyped
<1>4. Payload(r) \in Seq(TokenSet)
  BY <1>1, TokensTyped DEF Payload
<1>. HIDE DEF first, length, blank
<1>5. first \o length \o blank \o Payload(r) \in Seq(TokenSet)
  BY <1>2, <1>3, <1>4, ConcatProperties
<1>. QED BY <1>5 DEF Text, first, length, blank

-----------------------------------------------------------------------------
(* What a slot goes through *)

LEMMA ClientTyped ==
    ASSUME NEW k \in ClientType
    PROVE  /\ k.fd \in 0..accepted /\ k.allocated \in Nat /\ k.buf \in Seq(TokenSet)
           /\ Len(k.buf) \in Nat /\ k.payload \in Nat
BY DEF ClientType

LEMMA DisconnectedTyped ==
    ASSUME accepted \in Nat, NEW k \in ClientType
    PROVE  /\ Disconnected(k) \in ClientType
           /\ Disconnected(k).fd = Closed
           /\ Disconnected(k).allocated = k.allocated
           /\ Disconnected(k).buf = <<>>
<1>. DEFINE e == [fd |-> Closed, allocated |-> k.allocated, buf |-> <<>>, payload |-> 0,
                  method |-> "unknown", state |-> "new", endpoint |-> <<>>]
<1>1. Disconnected(k) = e
  BY DEF Disconnected, FreshClient
<1>2. e \in ClientType
  BY DEF ClientType, Closed
<1>. QED BY <1>1, <1>2

\* A line leaves the memory of the client alone; it changes what is kept of the request or
\* closes the client.
HeaderResult(k, e) ==
    /\ e \in ClientType /\ e.fd \in {k.fd, Closed} /\ e.allocated = k.allocated
    /\ e.buf \in {k.buf, <<>>}

LEMMA HandleHeaderTyped ==
    ASSUME accepted \in Nat, NEW k \in ClientType, NEW line \in Seq(TokenSet)
    PROVE  HeaderResult(k, HandleHeader(k, line))
<1>1. HeaderResult(k, Disconnected(k))
  BY DisconnectedTyped DEF HeaderResult
<1>2. HeaderResult(k, k)
  BY DEF HeaderResult
<1>3. line # <<>> => Head(line) \in TokenSet
  BY HeadTailProperties
<1>4. HeaderResult(k, Initiation(k, line))
  <2>1. CASE line = <<>> \/ Head(line).kind \notin {"get", "post"}
    BY <1>1, <2>1 DEF Initiation
  <2>2. CASE line # <<>> /\ Head(line).kind \in {"get", "post"}
    <3>. DEFINE m == Head(line).kind
                t == <<Head(line).arg>>
                e1 == [k EXCEPT !.method = m]
                e2 == [e1 EXCEPT !.endpoint = t]
                e3 == [e2 EXCEPT !.state = "headers"]
    <3>1. m \in {"unknown", "get", "post"} /\ t \in {<<>>} \cup {<<x>> : x \in Targets}
      BY <1>3, <2>2 DEF TokenSet
    <3>2. Initiation(k, line) = e3
      BY <2>2 DEF Initiation
    <3>. HIDE DEF m, t
    <3>3. e3 = [fd |-> k.fd, allocated |-> k.allocated, buf |-> k.buf, payload |-> k.payload,
                method |-> m, state |-> "headers", endpoint |-> t]
      <4>1. k = [fd |-> k.fd, allocated |-> k.allocated, buf |-> k.buf, payload |-> k.payload,
                 method |-> k.method, state |-> k.state, endpoint |-> k.endpoint]
        BY DEF ClientType
      <4>2. e1 = [fd |-> k.fd, allocated |-> k.allocated, buf |-> k.buf, payload |-> k.payload,
                  method |-> m, state |-> k.state, endpoint |-> k.endpoint]
        BY <4>1
      <4>. HIDE DEF e1
      <4>3. e2 = [fd |-> k.fd, allocated |-> k.allocated, buf |-> k.buf, payload |-> k.payload,
                  method |-> m, state |-> k.state, endpoint |-> t]
        BY <4>2
      <4>. HIDE DEF e2
      <4>. QED BY <4>3
    <3>4. e3 \in ClientType
      <4>. DEFINE T == {<<>>} \cup {<<x>> : x \in Targets}
      <4>1. t \in T
        BY <3>1
      <4>2. k.fd \in 0..accepted /\ k.allocated \in Nat /\ k.buf \in Seq(TokenSet) /\ k.payload \in Nat
        BY ClientTyped
      <4>3. ClientType = [fd : 0..accepted, allocated : Nat, buf : Seq(TokenSet), payload : Nat,
                          method : {"unknown", "get", "post"}, state : {"new", "headers", "data"},
                          endpoint : T]
        BY DEF ClientType
      <4>. HIDE DEF T, e3
      <4>. QED BY <3>1, <3>3, <4>1, <4>2, <4>3
    <3>. HIDE DEF e3
    <3>. QED BY <3>2, <3>3, <3>4 DEF HeaderResult
  <2>. QED BY <2>1, <2>2
<1>5. HeaderResult(k, EndOfHeader(k))
  <2>1. HeaderResult(k, [k EXCEPT !.state = "data"])
    BY DEF HeaderResult, ClientType
  <2>. QED BY <1>1, <2>1 DEF EndOfHeader
<1>6. CASE line # <<>> /\ Head(line).kind = "length"
  <2>. DEFINE n == Head(line).arg
              e == [k EXCEPT !.payload = n]
  <2>1. n \in Nat
    BY <1>3, <1>6 DEF TokenSet
  <2>. HIDE DEF n
  <2>2. HeaderResult(k, e)
    BY <2>1 DEF HeaderResult, ClientType
  <2>3. Head(line) # NUL
    BY <1>6 DEF NUL, Token
  <2>. QED BY <1>1, <1>4, <1>5, <1>6, <2>2, <2>3 DEF HandleHeader, EmptyLine, n
<1>7. CASE ~(line # <<>> /\ Head(line).kind = "length")
  BY <1>1, <1>2, <1>4, <1>5, <1>7 DEF HandleHeader, EmptyLine
<1>. QED BY <1>6, <1>7

-----------------------------------------------------------------------------
(* What a connection goes through *)

Results == {"none", "executed", "garbled", "refused", "dropped", "lost"}

LEMMA ConnectionTyped ==
    ASSUME NEW e \in GoodConnection
    PROVE  /\ e.request \in Request /\ e.arrived \in Nat /\ e.read \in Nat
           /\ e.read <= e.arrived /\ e.arrived <= Len(Text(e.request))
           /\ e.spoiled \in BOOLEAN /\ e.gone \in BOOLEAN /\ e.result \in Results
BY DEF GoodConnection, ConnectionType, Results

LEMMA ConnectionNew ==
    ASSUME NEW r \in Request
    PROVE  Connection(r) \in GoodConnection /\ Connection(r).result = "none"
<1>1. Len(Text(r)) \in Nat
  BY TextTyped
<1>. QED BY <1>1 DEF Connection, GoodConnection, ConnectionType

LEMMA ConnectionArrived ==
    ASSUME NEW e \in GoodConnection, NEW n \in Nat, e.arrived <= n, n <= Len(Text(e.request))
    PROVE  [e EXCEPT !.arrived = n] \in GoodConnection
           /\ [e EXCEPT !.arrived = n].result = e.result
<1>. DEFINE f == [e EXCEPT !.arrived = n]
<1>1. f \in ConnectionType
  BY DEF GoodConnection, ConnectionType
<1>2. f.arrived = n /\ f.read = e.read /\ f.request = e.request
  BY DEF GoodConnection, ConnectionType
<1>3. f.result = e.result
  BY DEF GoodConnection, ConnectionType
<1>4. e.read <= n
  BY ConnectionTyped
<1>. QED BY <1>1, <1>2, <1>3, <1>4 DEF GoodConnection

LEMMA ConnectionGone ==
    ASSUME NEW e \in GoodConnection
    PROVE  [e EXCEPT !.gone = TRUE] \in GoodConnection
           /\ [e EXCEPT !.gone = TRUE].result = e.result
<1>. DEFINE f == [e EXCEPT !.gone = TRUE]
<1>1. f \in ConnectionType
  BY DEF GoodConnection, ConnectionType
<1>2. f.arrived = e.arrived /\ f.read = e.read /\ f.request = e.request
  BY DEF GoodConnection, ConnectionType
<1>3. f.result = e.result
  BY DEF GoodConnection, ConnectionType
<1>. QED BY <1>1, <1>2, <1>3 DEF GoodConnection

LEMMA ConnectionRead ==
    ASSUME NEW e \in GoodConnection, NEW n \in Nat, n <= e.arrived
    PROVE  [e EXCEPT !.read = n] \in GoodConnection
           /\ [e EXCEPT !.read = n].result = e.result
           /\ [e EXCEPT !.read = n].spoiled = e.spoiled
<1>. DEFINE f == [e EXCEPT !.read = n]
<1>1. f \in ConnectionType
  BY DEF GoodConnection, ConnectionType
<1>2. f.arrived = e.arrived /\ f.read = n /\ f.request = e.request
  BY DEF GoodConnection, ConnectionType
<1>3. f.result = e.result
  BY DEF GoodConnection, ConnectionType
<1>4. f.spoiled = e.spoiled
  BY DEF GoodConnection, ConnectionType
<1>. QED BY <1>1, <1>2, <1>3, <1>4, ConnectionTyped DEF GoodConnection

LEMMA ConnectionSpoiled ==
    ASSUME NEW e \in GoodConnection, NEW b \in BOOLEAN
    PROVE  [e EXCEPT !.spoiled = b] \in GoodConnection
           /\ [e EXCEPT !.spoiled = b].result = e.result
<1>. DEFINE f == [e EXCEPT !.spoiled = b]
<1>1. f \in ConnectionType
  BY DEF GoodConnection, ConnectionType
<1>2. f.arrived = e.arrived /\ f.read = e.read /\ f.request = e.request
  BY DEF GoodConnection, ConnectionType
<1>3. f.result = e.result
  BY DEF GoodConnection, ConnectionType
<1>. QED BY <1>1, <1>2, <1>3 DEF GoodConnection

LEMMA ConnectionResult ==
    ASSUME NEW e \in GoodConnection, NEW v \in Results
    PROVE  [e EXCEPT !.result = v] \in GoodConnection
           /\ [e EXCEPT !.result = v].result = v
<1>. DEFINE f == [e EXCEPT !.result = v]
<1>1. f \in ConnectionType
  BY DEF GoodConnection, ConnectionType, Results
<1>2. f.arrived = e.arrived /\ f.read = e.read /\ f.request = e.request
  BY DEF GoodConnection, ConnectionType
<1>3. f.result = v
  BY DEF GoodConnection, ConnectionType
<1>. QED BY <1>1, <1>2, <1>3, ConnectionTyped DEF GoodConnection

\* Of the connections, what the slots depend on: which have an outcome.
Kept(old, new) ==
    /\ new \in Seq(GoodConnection) /\ Len(new) = Len(old)
    /\ \A d \in 1..Len(old) : new[d].result = old[d].result

Decided(old, new, c) ==
    /\ new \in Seq(GoodConnection) /\ Len(new) = Len(old)
    /\ \A d \in 1..Len(old) :
         IF d = c THEN new[d].result # "none" ELSE new[d].result = old[d].result

LEMMA ConnectionKept ==
    ASSUME NEW old \in Seq(GoodConnection), NEW c \in 1..Len(old),
           NEW f \in GoodConnection, f.result = old[c].result
    PROVE  Kept(old, [old EXCEPT ![c] = f])
BY Replaced DEF Kept

LEMMA ConnectionDecided ==
    ASSUME NEW old \in Seq(GoodConnection), NEW c \in 1..Len(old),
           NEW v \in Results \ {"none"}
    PROVE  Decided(old, [old EXCEPT ![c].result = v], c)
<1>. DEFINE f == [old[c] EXCEPT !.result = v]
            new == [old EXCEPT ![c] = f]
<1>1. old[c] \in GoodConnection
  BY ElementOfSeq
<1>2. f \in GoodConnection /\ f.result = v
  BY <1>1, ConnectionResult
<1>3. [old EXCEPT ![c].result = v] = new
  OBVIOUS
<1>. HIDE DEF f
<1>. QED BY <1>2, <1>3, Replaced DEF Decided

-----------------------------------------------------------------------------
(* The buffers *)

LEMMA BoundsInit == HttpInit => HttpBounds
<1>. SUFFICES ASSUME HttpInit PROVE HttpBounds
  OBVIOUS
<1>1. HttpTyped
  BY ConversationAssumption DEF HttpInit, HttpTyped
<1>. QED BY <1>1 DEF HttpInit, HttpBounds, HttpBufferBounded

\* A step of a client changes the connections alone.
LEMMA ConnectionsKeepBounds ==
    ASSUME HttpBounds, UNCHANGED <<clients, accepted, batch, up>>,
           script' \in Seq(Request), conns' \in Seq(GoodConnection), Len(conns) <= Len(conns')
    PROVE  HttpBounds'
<1>1. accepted' \in 0..Len(conns')
  BY DEF HttpBounds, HttpTyped
<1>2. ClientType' = ClientType /\ BatchType' = BatchType
  BY DEF ClientType, BatchType
<1>3. HttpTyped'
  BY <1>1, <1>2 DEF HttpBounds, HttpTyped
<1>. QED BY <1>3 DEF HttpBounds, HttpBufferBounded

WithinBounds(k) ==
    /\ k.allocated < SizeLimit + 2 * RecvChunk
    /\ k.buf # <<>> => Len(k.buf) < k.allocated

\* A step of a handler changes one slot.
LEMMA SlotKeepsBounds ==
    ASSUME HttpBounds, NEW i \in DOMAIN clients, NEW e \in ClientType, WithinBounds(e),
           clients' = [clients EXCEPT ![i] = e], UNCHANGED <<script, accepted>>,
           conns' \in Seq(GoodConnection), Len(conns') = Len(conns), up' \in BOOLEAN,
           \/ batch' = NoBatch
           \/ batch' \in BatchType /\ batch'.slot = i /\ Len(batch'.text) < e.allocated
    PROVE  HttpBounds'
<1>1. clients \in Seq(ClientType) /\ ClientType' = ClientType
  BY DEF HttpBounds, HttpTyped, ClientType
<1>2. /\ clients' \in Seq(ClientType) /\ DOMAIN clients' = DOMAIN clients
      /\ \A l \in DOMAIN clients : clients'[l] = IF l = i THEN e ELSE clients[l]
  BY <1>1, Replaced
<1>3. BatchType' = BatchType
  BY <1>2 DEF BatchType
<1>4. HttpTyped'
  BY <1>1, <1>2, <1>3 DEF HttpBounds, HttpTyped
<1>5. HttpBufferBounded'
  <2>1. ASSUME NEW l \in DOMAIN clients' PROVE WithinBounds(clients'[l])
    BY <1>2 DEF HttpBounds, HttpBufferBounded, WithinBounds
  <2>2. batch' # NoBatch => Len(batch'.text) < clients'[batch'.slot].allocated
    BY <1>2
  <2>. QED BY <2>1, <2>2 DEF HttpBufferBounded, WithinBounds
<1>. QED BY <1>4, <1>5 DEF HttpBounds

LEMMA SlotBounds ==
    ASSUME HttpBounds, NEW i \in DOMAIN clients
    PROVE  /\ clients[i] \in ClientType /\ WithinBounds(clients[i])
           /\ accepted \in Nat /\ conns \in Seq(GoodConnection)
BY ElementOfSeq DEF HttpBounds, HttpTyped, HttpBufferBounded, WithinBounds

\* A slot that has been closed, and one that has been extended for another recv.
LEMMA DisconnectedBounds ==
    ASSUME accepted \in Nat, NEW k \in ClientType, WithinBounds(k)
    PROVE  Disconnected(k) \in ClientType /\ WithinBounds(Disconnected(k))
BY DisconnectedTyped DEF WithinBounds

LEMMA AllocatedBounds ==
    ASSUME NEW k \in ClientType, WithinBounds(k), ~Oversized(k)
    PROVE  /\ Allocated(k) \in Nat /\ Allocated(k) < SizeLimit + 2 * RecvChunk
           /\ Len(k.buf) + 1 < Allocated(k)
<1>. DEFINE a == k.allocated
            l == Len(k.buf)
<1>1. a \in Nat /\ l \in Nat /\ a < SizeLimit + 2 * RecvChunk /\ l < SizeLimit
      /\ (l = 0 \/ l < a)
  <2>1. a \in Nat /\ l \in Nat /\ k.buf \in Seq(TokenSet)
    BY ClientTyped
  <2>2. a < SizeLimit + 2 * RecvChunk /\ (k.buf # <<>> => l < a) /\ ~(l >= SizeLimit)
    BY DEF WithinBounds, Oversized
  <2>3. k.buf = <<>> => l = 0
    OBVIOUS
  <2>. HIDE DEF a, l
  <2>. QED BY <2>1, <2>2, <2>3, SizeAssumption
<1>2. Allocated(k) = IF a - l < RecvChunk THEN a + RecvChunk ELSE a
  BY DEF Allocated
<1>. HIDE DEF a, l
<1>3. /\ Allocated(k) \in Nat /\ Allocated(k) < SizeLimit + 2 * RecvChunk
      /\ l + 1 < Allocated(k)
  BY <1>1, <1>2, SizeAssumption
<1>. QED BY <1>3 DEF l

LEMMA Extended ==
    ASSUME NEW k \in ClientType, NEW n \in Nat
    PROVE  /\ [k EXCEPT !.allocated = n] \in ClientType
           /\ [k EXCEPT !.allocated = n].buf = k.buf
           /\ [k EXCEPT !.allocated = n].fd = k.fd
           /\ [k EXCEPT !.allocated = n].allocated = n
<1>1. [k EXCEPT !.allocated = n] \in ClientType
  BY DEF ClientType
<1>2. [k EXCEPT !.allocated = n].buf = k.buf
  BY DEF ClientType
<1>3. [k EXCEPT !.allocated = n].fd = k.fd
  BY DEF ClientType
<1>4. [k EXCEPT !.allocated = n].allocated = n
  BY DEF ClientType
<1>. QED BY <1>1, <1>2, <1>3, <1>4

LEMMA ConnectKeepsBounds == HttpBounds /\ Connect => HttpBounds'
<1>. SUFFICES ASSUME HttpBounds, Connect PROVE HttpBounds'
  OBVIOUS
<1>. DEFINE r == Head(script)
<1>1. r \in Request /\ Tail(script) \in Seq(Request)
  BY HeadTailProperties DEF Connect, HttpBounds, HttpTyped
<1>2. Connection(r) \in GoodConnection /\ conns \in Seq(GoodConnection)
  BY <1>1, ConnectionNew DEF HttpBounds, HttpTyped
<1>3. conns' = Append(conns, Connection(r)) /\ script' = Tail(script)
  BY DEF Connect
<1>. HIDE DEF r
<1>4. conns' \in Seq(GoodConnection) /\ Len(conns) <= Len(conns')
  BY <1>2, <1>3, AppendProperties
<1>. QED BY <1>1, <1>3, <1>4, ConnectionsKeepBounds DEF Connect

\* What a client does to its connection leaves the outcome as it was.
LEMMA ArriveKept ==
    ASSUME HttpBounds, NEW c \in DOMAIN conns, Arrive(c) \/ HangUp(c)
    PROVE  Kept(conns, conns')
<1>1. /\ conns \in Seq(GoodConnection) /\ conns[c] \in GoodConnection
      /\ c \in 1..Len(conns)
  BY ElementOfSeq DEF HttpBounds, HttpTyped
<1>2. CASE Arrive(c)
  <2>1. PICK n \in (conns[c].arrived + 1)..Len(Text(conns[c].request)) :
          conns' = [conns EXCEPT ![c].arrived = n]
    BY <1>2 DEF Arrive
  <2>. DEFINE f == [conns[c] EXCEPT !.arrived = n]
  <2>2. n \in Nat /\ conns[c].arrived <= n /\ n <= Len(Text(conns[c].request))
    BY <1>1, <2>1, ConnectionTyped
  <2>3. f \in GoodConnection /\ f.result = conns[c].result
    BY <1>1, <2>2, ConnectionArrived
  <2>4. conns' = [conns EXCEPT ![c] = f]
    BY <2>1
  <2>. HIDE DEF f
  <2>. QED BY <1>1, <2>3, <2>4, ConnectionKept
<1>3. CASE HangUp(c)
  <2>. DEFINE f == [conns[c] EXCEPT !.gone = TRUE]
  <2>1. f \in GoodConnection /\ f.result = conns[c].result
    BY <1>1, ConnectionGone
  <2>2. conns' = [conns EXCEPT ![c] = f]
    BY <1>3 DEF HangUp
  <2>. HIDE DEF f
  <2>. QED BY <1>1, <2>1, <2>2, ConnectionKept
<1>. QED BY <1>2, <1>3

LEMMA ArriveKeepsBounds ==
    ASSUME HttpBounds, NEW c \in DOMAIN conns, Arrive(c) \/ HangUp(c)
    PROVE  HttpBounds'
BY ArriveKept, ConnectionsKeepBounds DEF Kept, Arrive, HangUp, HttpBounds, HttpTyped

\* The slot that is taken for a client, and what becomes of it.
LEMMA AcceptedSlot ==
    ASSUME HttpBounds, Accept, TakeClient
    PROVE  \E i \in 1..(Len(clients) + 1), e \in ClientType' :
              /\ clients' = [j \in DOMAIN clients \cup {i} |-> IF j = i THEN e ELSE clients[j]]
              /\ e.fd = accepted + 1 /\ WithinBounds(e)
              /\ i \in DOMAIN clients => clients[i].fd = Closed
<1>1. PICK i \in 1..(Len(clients) + 1) :
        LET slot == IF i \in DOMAIN clients THEN clients[i] ELSE FreshClient IN
        /\ AcceptSlot(i)
        /\ clients' = [j \in DOMAIN clients \cup {i} |->
                         IF j = i THEN [slot EXCEPT !.fd = accepted'] ELSE clients[j]]
  BY DEF TakeClient
<1>. DEFINE slot == IF i \in DOMAIN clients THEN clients[i] ELSE FreshClient
            e == [slot EXCEPT !.fd = accepted']
<1>2. accepted \in Nat /\ accepted' = accepted + 1 /\ clients \in Seq(ClientType)
  BY DEF HttpBounds, HttpTyped, TakeClient
<1>3. slot \in ClientType /\ WithinBounds(slot)
  <2>1. FreshClient \in ClientType /\ WithinBounds(FreshClient)
    BY <1>2, SizeAssumption DEF FreshClient, ClientType, Closed, WithinBounds
  <2>. QED BY <2>1, SlotBounds
<1>4. clients' = [j \in DOMAIN clients \cup {i} |-> IF j = i THEN e ELSE clients[j]]
  BY <1>1
<1>5. i \in DOMAIN clients => clients[i].fd = Closed
  <2>1. CASE FreeSlots = {}
    BY <1>1, <1>2, <2>1 DEF AcceptSlot
  <2>2. CASE FreeSlots # {}
    BY <1>1, <2>2 DEF AcceptSlot, FreeSlots
  <2>. QED BY <2>1, <2>2
<1>. HIDE DEF slot
<1>6. e \in ClientType'
  <2>1. slot = [fd |-> slot.fd, allocated |-> slot.allocated, buf |-> slot.buf,
                payload |-> slot.payload, method |-> slot.method, state |-> slot.state,
                endpoint |-> slot.endpoint]
    BY <1>3 DEF ClientType
  <2>2. e = [fd |-> accepted', allocated |-> slot.allocated, buf |-> slot.buf,
             payload |-> slot.payload, method |-> slot.method, state |-> slot.state,
             endpoint |-> slot.endpoint]
    BY <2>1
  <2>3. accepted' \in 0..accepted'
    BY <1>2
  <2>. HIDE DEF e
  <2>. QED BY <1>3, <2>2, <2>3 DEF ClientType
<1>7. e.fd = accepted + 1
  BY <1>2, <1>3 DEF ClientType
<1>8. e.allocated = slot.allocated /\ e.buf = slot.buf
  BY <1>3 DEF ClientType
<1>. HIDE DEF e
<1>9. WithinBounds(e)
  BY <1>3, <1>8 DEF WithinBounds
<1>. QED BY <1>4, <1>5, <1>6, <1>7, <1>9

\* The entries after Accept: the old ones and the one taken.
LEMMA AcceptedClients ==
    ASSUME HttpBounds, Accept, TakeClient, NEW i \in 1..(Len(clients) + 1), NEW e \in ClientType',
           clients' = [j \in DOMAIN clients \cup {i} |-> IF j = i THEN e ELSE clients[j]]
    PROVE  /\ clients' \in Seq(ClientType') /\ DOMAIN clients' = DOMAIN clients \cup {i}
           /\ clients'[i] = e
           /\ \A j \in DOMAIN clients : j # i => clients'[j] = clients[j]
<1>1. /\ clients \in Seq(ClientType) /\ DOMAIN clients = 1..Len(clients) /\ Len(clients) \in Nat
      /\ accepted \in Nat /\ accepted' = accepted + 1
  BY DEF HttpBounds, HttpTyped, TakeClient
<1>2. PICK n \in Nat : DOMAIN clients \cup {i} = 1..n
  <2>1. CASE i \in DOMAIN clients
    BY <2>1, <1>1
  <2>2. CASE i = Len(clients) + 1
    BY <2>2, <1>1
  <2>. QED BY <2>1, <2>2, <1>1
<1>3. ASSUME NEW k \in ClientType PROVE k \in ClientType'
  <2>1. 0..accepted \subseteq 0..accepted'
    BY <1>1
  <2>. QED BY <2>1 DEF ClientType
<1>4. \A j \in 1..n : (IF j = i THEN e ELSE clients[j]) \in ClientType'
  <2>1. \A j \in 1..Len(clients) : clients[j] \in ClientType
    BY <1>1, ElementOfSeq
  <2>. QED BY <1>1, <1>2, <1>3, <2>1
<1>5. clients' = [j \in 1..n |-> IF j = i THEN e ELSE clients[j]]
  BY <1>2
<1>6. clients' \in Seq(ClientType')
  BY <1>4, <1>5
<1>. QED BY <1>1, <1>2, <1>5, <1>6

LEMMA AcceptKept ==
    ASSUME HttpBounds, Accept, TakeClient
    PROVE  Kept(conns, conns')
<1>. DEFINE c == accepted + 1
<1>1. PICK b \in BOOLEAN : conns' = [conns EXCEPT ![c].spoiled = b]
  <2>1. PICK i : conns' = [conns EXCEPT ![accepted'].spoiled =
                    (IF i \in DOMAIN clients THEN clients[i] ELSE FreshClient)
                    # Disconnected(IF i \in DOMAIN clients THEN clients[i] ELSE FreshClient)]
    BY DEF TakeClient
  <2>. QED BY <2>1 DEF TakeClient
<1>2. conns \in Seq(GoodConnection) /\ c \in 1..Len(conns)
  BY DEF HttpBounds, HttpTyped, Accept
<1>. DEFINE f == [conns[c] EXCEPT !.spoiled = b]
<1>3. f \in GoodConnection /\ f.result = conns[c].result
  BY <1>2, ElementOfSeq, ConnectionSpoiled
<1>4. conns' = [conns EXCEPT ![c] = f]
  BY <1>1
<1>. HIDE DEF f, c
<1>. QED BY <1>2, <1>3, <1>4, ConnectionKept

LEMMA AcceptKeepsBounds == HttpBounds /\ Accept => HttpBounds'
<1>. SUFFICES ASSUME HttpBounds, Accept PROVE HttpBounds'
  OBVIOUS
<1>0. CASE AcceptFails
  BY <1>0 DEF AcceptFails, HttpBounds, HttpTyped, BatchType, ClientType, HttpBufferBounded
<1>. SUFFICES ASSUME TakeClient PROVE HttpBounds'
  BY <1>0 DEF Accept
<1>1. PICK i \in 1..(Len(clients) + 1), e \in ClientType' :
        /\ clients' = [j \in DOMAIN clients \cup {i} |-> IF j = i THEN e ELSE clients[j]]
        /\ WithinBounds(e)
  BY AcceptedSlot
<1>2. /\ clients' \in Seq(ClientType') /\ DOMAIN clients' = DOMAIN clients \cup {i}
      /\ clients'[i] = e
      /\ \A j \in DOMAIN clients : j # i => clients'[j] = clients[j]
  BY <1>1, AcceptedClients
<1>3. conns' \in Seq(GoodConnection) /\ Len(conns') = Len(conns)
  BY AcceptKept DEF Kept
<1>4. accepted' \in 0..Len(conns') /\ batch' = NoBatch /\ script' = script /\ up' = up
  BY <1>3 DEF HttpBounds, HttpTyped, Accept, TakeClient
<1>5. HttpTyped'
  BY <1>2, <1>3, <1>4 DEF HttpBounds, HttpTyped
<1>6. HttpBufferBounded'
  <2>1. ASSUME NEW l \in DOMAIN clients' PROVE WithinBounds(clients'[l])
    BY <1>1, <1>2, SlotBounds
  <2>. QED BY <1>4, <2>1 DEF HttpBufferBounded, WithinBounds
<1>. QED BY <1>5, <1>6 DEF HttpBounds

\* What the handlers make of the slot and of the connection.
LEMMA HeldConnection ==
    ASSUME HttpBounds, NEW i \in DOMAIN clients, clients[i].fd # Closed
    PROVE  /\ clients[i].fd \in 1..accepted /\ clients[i].fd \in 1..Len(conns)
           /\ conns[clients[i].fd] \in GoodConnection
<1>1. clients[i].fd \in 1..accepted /\ accepted \in 0..Len(conns)
  BY SlotBounds, ClientTyped DEF Closed, HttpBounds, HttpTyped
<1>2. clients[i].fd \in 1..Len(conns) /\ conns \in Seq(GoodConnection)
  BY <1>1 DEF HttpBounds, HttpTyped
<1>. QED BY <1>1, <1>2, ElementOfSeq

LEMMA DropEffect ==
    ASSUME HttpBounds, NEW i \in DOMAIN clients, Drop(i)
    PROVE  /\ clients' = [clients EXCEPT ![i] = Disconnected(clients[i])]
           /\ Decided(conns, conns', clients[i].fd)
BY HeldConnection, SlotBounds, ConnectionDecided DEF Drop, Results

LEMMA DropKeepsBounds ==
    ASSUME HttpBounds, NEW i \in DOMAIN clients, Drop(i)
    PROVE  HttpBounds'
<1>. DEFINE e == Disconnected(clients[i])
<1>1. e \in ClientType /\ WithinBounds(e)
  BY SlotBounds, DisconnectedBounds
<1>2. UNCHANGED <<script, accepted, up>> /\ batch' = NoBatch /\ up \in BOOLEAN
  BY DEF Drop, HttpBounds, HttpTyped
<1>3. clients' = [clients EXCEPT ![i] = e] /\ conns' \in Seq(GoodConnection) /\ Len(conns') = Len(conns)
  BY DropEffect DEF Decided
<1>. HIDE DEF e
<1>. QED BY <1>1, <1>2, <1>3, SlotKeepsBounds

\* The slot after a recv that finds the connection closed.
LEMMA EndedSlot ==
    ASSUME HttpBounds, NEW i \in DOMAIN clients, ReceiveEnd(i)
    PROVE  \E e \in ClientType :
              /\ clients' = [clients EXCEPT ![i] = e]
              /\ e.fd = Closed /\ WithinBounds(e)
<1>. DEFINE k == clients[i]
            a == Allocated(k)
            d == Disconnected(k)
            e == [d EXCEPT !.allocated = a]
<1>1. k \in ClientType /\ WithinBounds(k) /\ accepted \in Nat /\ ~Oversized(k)
  BY SlotBounds DEF ReceiveEnd
<1>2. a \in Nat /\ a < SizeLimit + 2 * RecvChunk
  BY <1>1, AllocatedBounds
<1>3. d \in ClientType /\ d.fd = Closed /\ d.buf = <<>>
  BY <1>1, DisconnectedTyped
<1>4. clients' = [clients EXCEPT ![i] = e]
  BY DEF ReceiveEnd
<1>. HIDE DEF k, a, d
<1>5. e \in ClientType /\ e.fd = Closed /\ e.buf = <<>> /\ e.allocated = a
  BY <1>2, <1>3, Extended
<1>. HIDE DEF e
<1>. QED BY <1>2, <1>4, <1>5 DEF WithinBounds

LEMMA ReceiveEndEffect ==
    ASSUME HttpBounds, NEW i \in DOMAIN clients, ReceiveEnd(i)
    PROVE  Decided(conns, conns', clients[i].fd)
BY HeldConnection, SlotBounds, ConnectionDecided DEF ReceiveEnd, Results

LEMMA ReceiveEndKeepsBounds ==
    ASSUME HttpBounds, NEW i \in DOMAIN clients, ReceiveEnd(i)
    PROVE  HttpBounds'
<1>1. PICK e \in ClientType : clients' = [clients EXCEPT ![i] = e] /\ WithinBounds(e)
  BY EndedSlot
<1>2. UNCHANGED <<script, accepted, up>> /\ batch' = NoBatch /\ up \in BOOLEAN
  BY DEF ReceiveEnd, HttpBounds, HttpTyped
<1>3. conns' \in Seq(GoodConnection) /\ Len(conns') = Len(conns)
  BY ReceiveEndEffect DEF Decided
<1>. QED BY <1>1, <1>2, <1>3, SlotKeepsBounds

\* How far recv gets in what the client sends.
LEMMA ReceivedCount ==
    ASSUME HttpBounds, NEW i \in DOMAIN clients, Receive(i)
    PROVE  LET k == clients[i]
               g == conns[k.fd]
               n == g.read + Received(k)
           IN  /\ n \in Nat /\ g.read < n /\ n <= g.arrived
               /\ n - g.read < Allocated(k) - Len(k.buf)
<1>. DEFINE k == clients[i]
            g == conns[k.fd]
            n == g.read + Received(k)
            r == g.read
            w == g.arrived
            l == Len(k.buf)
            a == Allocated(k)
            m == Received(k)
<1>1. k \in ClientType /\ l \in Nat /\ ~Oversized(k)
  BY SlotBounds, ClientTyped DEF Receive
<1>2. a \in Nat /\ l + 1 < a
  BY <1>1, SlotBounds, AllocatedBounds
<1>3. g \in GoodConnection
  BY HeldConnection DEF Receive
<1>4. r \in Nat /\ w \in Nat /\ r < w
  BY <1>3, ConnectionTyped DEF Receive
<1>5. m = IF w - r <= a - l - 1 THEN w - r ELSE a - l - 1
  BY DEF Received
<1>6. n = r + m
  OBVIOUS
<1>. HIDE DEF r, w, l, a, m, n
<1>7. n \in Nat /\ r < n /\ n <= w /\ n - r < a - l
  BY <1>1, <1>2, <1>4, <1>5, <1>6
<1>. QED BY <1>7 DEF r, w, l, a, n

\* What recv puts into the buffer, and what it makes of the connection.
LEMMA ReceiveEffect ==
    ASSUME HttpBounds, NEW i \in DOMAIN clients, Receive(i)
    PROVE  /\ clients' = [clients EXCEPT ![i].allocated = Allocated(clients[i])]
           /\ batch' \in BatchType /\ batch'.slot = i /\ batch'.conn = clients[i].fd
           /\ Len(batch'.text) < Allocated(clients[i])
           /\ Kept(conns, conns')
<1>. DEFINE k == clients[i]
            c == k.fd
            g == conns[c]
            text == Text(g.request)
            n == g.read + Received(k)
            piece == SubSeq(text, g.read + 1, n)
            whole == k.buf \o piece
<1>1. k \in ClientType /\ k.buf \in Seq(TokenSet) /\ Len(k.buf) \in Nat /\ ~Oversized(k)
  BY SlotBounds, ClientTyped DEF Receive
<1>2. Allocated(k) \in Nat /\ Len(k.buf) + 1 < Allocated(k)
  BY <1>1, SlotBounds, AllocatedBounds
<1>3. /\ c \in 1..accepted /\ c \in 1..Len(conns) /\ g \in GoodConnection
      /\ conns \in Seq(GoodConnection)
  BY HeldConnection, SlotBounds DEF Receive
<1>4. /\ text \in Seq(TokenSet) /\ Len(text) \in Nat /\ g.read \in Nat /\ g.arrived \in Nat
      /\ g.arrived <= Len(text) /\ g.read < g.arrived /\ g.spoiled \in BOOLEAN
  <2>1. g.request \in Request /\ g.read \in Nat /\ g.arrived \in Nat /\ g.arrived <= Len(text)
    BY <1>3, ConnectionTyped
  <2>2. g.spoiled \in BOOLEAN
    BY <1>3, ConnectionTyped
  <2>3. text \in Seq(TokenSet)
    BY <2>1, TextTyped
  <2>4. g.read < g.arrived
    BY DEF Receive
  <2>. HIDE DEF text, g
  <2>. QED BY <2>1, <2>2, <2>3, <2>4
<1>5. n \in Nat /\ g.read < n /\ n <= g.arrived /\ n - g.read < Allocated(k) - Len(k.buf)
  BY ReceivedCount
<1>6. piece \in Seq(TokenSet) /\ Len(piece) = n - g.read
  <2>. DEFINE m == g.read + 1
  <2>1. m \in Int /\ n \in Int /\ m <= n /\ n - m + 1 = n - g.read
    BY <1>4, <1>5
  <2>2. \A p \in m..n : text[p] \in TokenSet
    BY <1>4, <1>5, ElementOfSeq
  <2>. HIDE DEF m, n, text
  <2>3. /\ SubSeq(text, m, n) \in Seq(TokenSet)
        /\ Len(SubSeq(text, m, n)) = IF m <= n THEN n - m + 1 ELSE 0
    BY <2>1, <2>2, SubSeqProperties
  <2>. QED BY <2>1, <2>3 DEF m
<1>. HIDE DEF piece
<1>7. whole \in Seq(TokenSet) /\ Len(whole) = Len(k.buf) + Len(piece)
  <2>1. piece \in Seq(TokenSet) /\ k.buf \in Seq(TokenSet)
    BY <1>1, <1>6
  <2>. HIDE DEF k
  <2>. QED BY <2>1, ConcatProperties
<1>8. Len(whole) < Allocated(k)
  <2>. DEFINE l == Len(k.buf)
              a == Allocated(k)
              p == Len(piece)
              r == g.read
              w == Len(whole)
  <2>1. w = l + p /\ p = n - r /\ n - r < a - l /\ l \in Nat /\ a \in Nat /\ r \in Nat /\ n \in Nat
    BY <1>1, <1>2, <1>4, <1>5, <1>6, <1>7
  <2>. HIDE DEF l, a, p, r, w, n
  <2>2. w < a
    BY <2>1
  <2>. QED BY <2>2 DEF w, a
<1>9. batch' = [slot |-> i, conn |-> c, start |-> Len(k.buf), text |-> whole]
  BY DEF Receive, piece
<1>10. Kept(conns, conns')
  <2>. DEFINE b == g.spoiled \/ Torn(text, n)
              f1 == [g EXCEPT !.read = n]
              f2 == [f1 EXCEPT !.spoiled = b]
  <2>1. f1 \in GoodConnection /\ f1.result = g.result /\ f1.spoiled = g.spoiled
    BY <1>3, <1>5, ConnectionRead
  <2>2. b \in BOOLEAN
    BY <1>4 DEF Torn
  <2>. HIDE DEF f1, b
  <2>3. f2 \in GoodConnection /\ f2.result = g.result
    BY <2>1, <2>2, ConnectionSpoiled
  <2>4. conns' = [conns EXCEPT ![c] = f2]
    <3>1. conns' = [conns EXCEPT ![c].read = n, ![c].spoiled = b]
      BY DEF Receive, b
    <3>. QED BY <1>3, <3>1 DEF f1
  <2>. HIDE DEF f2, c
  <2>. QED BY <1>3, <2>3, <2>4, ConnectionKept
<1>11. clients' = [clients EXCEPT ![i].allocated = Allocated(clients[i])]
  BY DEF Receive
<1>. HIDE DEF whole, c
<1>12. batch' \in BatchType /\ batch'.slot = i /\ batch'.conn = c /\ batch'.text = whole
  BY <1>1, <1>3, <1>7, <1>9 DEF BatchType
<1>. QED BY <1>8, <1>10, <1>11, <1>12 DEF c

LEMMA ReceiveKeepsBounds ==
    ASSUME HttpBounds, NEW i \in DOMAIN clients, Receive(i)
    PROVE  HttpBounds'
<1>. DEFINE k == clients[i]
            a == Allocated(k)
            e == [k EXCEPT !.allocated = a]
<1>1. k \in ClientType /\ WithinBounds(k) /\ ~Oversized(k) /\ Len(k.buf) \in Nat
  BY SlotBounds, ClientTyped DEF Receive
<1>2. a \in Nat /\ a < SizeLimit + 2 * RecvChunk /\ Len(k.buf) + 1 < a
  BY <1>1, AllocatedBounds
<1>3. clients' = [clients EXCEPT ![i] = e]
  BY ReceiveEffect
<1>4. batch' \in BatchType /\ batch'.slot = i /\ Len(batch'.text) < a
  BY ReceiveEffect
<1>5. conns' \in Seq(GoodConnection) /\ Len(conns') = Len(conns)
  BY ReceiveEffect DEF Kept
<1>6. UNCHANGED <<script, accepted, up>> /\ up \in BOOLEAN
  BY DEF Receive, HttpBounds, HttpTyped
<1>. HIDE DEF k, a
<1>7. e \in ClientType /\ e.buf = k.buf /\ e.allocated = a
  BY <1>1, <1>2, Extended
<1>. HIDE DEF e
<1>8. WithinBounds(e)
  BY <1>1, <1>2, <1>7 DEF WithinBounds
<1>. QED BY <1>3, <1>4, <1>5, <1>6, <1>7, <1>8, SlotKeepsBounds

LEMMA BatchTyped ==
    ASSUME HttpBounds, batch # NoBatch
    PROVE  /\ batch \in BatchType /\ batch.slot \in DOMAIN clients
           /\ batch.conn \in 1..Len(conns) /\ batch.conn \in 1..accepted
           /\ batch.text \in Seq(TokenSet) /\ Len(batch.text) \in Nat
           /\ Len(batch.text) < Client.allocated
           /\ Client \in ClientType /\ WithinBounds(Client)
           /\ accepted \in Nat /\ conns \in Seq(GoodConnection)
<1>1. batch \in BatchType /\ accepted \in 0..Len(conns) /\ conns \in Seq(GoodConnection)
  BY DEF HttpBounds, HttpTyped
<1>2. /\ batch.slot \in DOMAIN clients /\ batch.conn \in 1..accepted
      /\ batch.text \in Seq(TokenSet)
  BY <1>1 DEF BatchType
<1>3. Len(batch.text) < Client.allocated
  BY DEF HttpBounds, HttpBufferBounded, Client
<1>4. Client \in ClientType /\ WithinBounds(Client)
  BY <1>2, SlotBounds DEF Client
<1>. QED BY <1>1, <1>2, <1>3, <1>4

\* What is kept after a line is shorter, and made of what came after its first token and of the
\* NUL that ends it.
LEMMA RestTyped ==
    ASSUME HttpBounds, batch # NoBatch, NEW p \in 1..(Len(batch.text) - 1), p > batch.start,
           NEW k
    PROVE  /\ RestAfter(p, k) \in Seq(TokenSet)
           /\ Len(RestAfter(p, k)) < Len(batch.text)
           /\ \A q \in 1..Len(RestAfter(p, k)) :
                \E i \in 2..Len(batch.text) : RestAfter(p, k)[q] \in {batch.text[i], NUL}
<1>1. /\ batch.text \in Seq(TokenSet) /\ Len(batch.text) \in Nat /\ batch.start \in Nat
      /\ \A i \in 1..Len(batch.text) : batch.text[i] \in TokenSet
  BY BatchTyped, ElementOfSeq DEF BatchType
<1>2. ASSUME NEW x \in Seq(TokenSet), Len(x) = Len(batch.text),
             \A i \in 1..Len(x) : x[i] \in {batch.text[i], NUL},
             NEW s \in Nat, s < p
      PROVE  LET rest == SubSeq(x, p + 2 - s, Len(x) - s) IN
             /\ rest \in Seq(TokenSet) /\ Len(rest) < Len(x)
             /\ \A q \in 1..Len(rest) : \E i \in 2..Len(x) : rest[q] \in {batch.text[i], NUL}
  <2>. DEFINE m == p + 2 - s
              n == Len(x) - s
              rest == SubSeq(x, m, n)
  <2>1. m \in Int /\ n \in Int /\ m >= 3 /\ n <= Len(x) /\ Len(x) \in Nat /\ n - m + 1 < Len(x)
        /\ p < Len(x)
    BY <1>1, <1>2
  <2>. HIDE DEF m, n
  <2>2. \A i \in m..n : x[i] \in TokenSet
    BY <1>2, <2>1, ElementOfSeq
  <2>3. /\ rest \in Seq(TokenSet) /\ Len(rest) = IF m <= n THEN n - m + 1 ELSE 0
        /\ \A q \in 1..(n - m + 1) : rest[q] = x[m + q - 1]
    BY <2>1, <2>2, SubSeqProperties
  <2>. HIDE DEF rest
  <2>4. Len(rest) < Len(x)
    BY <2>1, <2>3
  <2>5. ASSUME NEW q \in 1..Len(rest)
        PROVE  \E i \in 2..Len(x) : rest[q] \in {batch.text[i], NUL}
    <3>1. q \in 1..(n - m + 1) /\ m + q - 1 \in 2..Len(x)
      BY <2>1, <2>3
    <3>2. rest[q] = x[m + q - 1]
      BY <2>3, <3>1
    <3>3. m + q - 1 \in 1..Len(x)
      BY <3>1
    <3>. QED BY <1>2, <3>1, <3>2, <3>3
  <2>. QED BY <2>3, <2>4, <2>5 DEF rest, m, n
<1>3. CASE k.fd # Closed
  <2>1. 0 \in Nat /\ 0 < p /\ p + 2 - 0 = p + 2 /\ Len(batch.text) - 0 = Len(batch.text)
    BY <1>1
  <2>. DEFINE rest == SubSeq(batch.text, p + 2 - 0, Len(batch.text) - 0)
  <2>2. RestAfter(p, k) = rest
    BY <1>3, <2>1 DEF RestAfter
  <2>3. /\ rest \in Seq(TokenSet) /\ Len(rest) < Len(batch.text)
        /\ \A q \in 1..Len(rest) :
             \E i \in 2..Len(batch.text) : rest[q] \in {batch.text[i], NUL}
    BY <1>1, <1>2, <2>1
  <2>. HIDE DEF rest
  <2>. QED BY <2>2, <2>3
<1>4. CASE k.fd = Closed
  <2>. DEFINE x == [batch.text EXCEPT ![p] = NUL]
  <2>1. /\ x \in Seq(TokenSet) /\ Len(x) = Len(batch.text)
        /\ \A i \in 1..Len(x) : x[i] = IF i = p THEN NUL ELSE batch.text[i]
    BY <1>1, TokensTyped, Replaced
  <2>. HIDE DEF x
  <2>. DEFINE rest == SubSeq(x, p + 2 - batch.start, Len(x) - batch.start)
  <2>2. RestAfter(p, k) = rest
    BY <1>4, <2>1 DEF RestAfter, x
  <2>3. DOMAIN x = 1..Len(x) /\ \A i \in 1..Len(x) : x[i] \in {batch.text[i], NUL}
    BY <2>1
  <2>4. /\ rest \in Seq(TokenSet) /\ Len(rest) < Len(x)
        /\ \A q \in 1..Len(rest) : \E i \in 2..Len(x) : rest[q] \in {batch.text[i], NUL}
    BY <1>1, <1>2, <2>1, <2>3
  <2>. HIDE DEF rest
  <2>. QED BY <2>1, <2>2, <2>4
<1>. QED BY <1>3, <1>4

\* A line changes the client of the batch, shortens what there is to go through, and gives the
\* connection an outcome if it closes the client.
LEMMA LineEffect ==
    ASSUME HttpBounds, Line
    PROVE  \E k \in ClientType :
              /\ clients' = [clients EXCEPT ![batch.slot] = k]
              /\ k.fd \in {Client.fd, Closed} /\ k.allocated = Client.allocated
              /\ WithinBounds(k)
              /\ batch' \in BatchType /\ batch'.slot = batch.slot /\ batch'.conn = batch.conn
              /\ Len(batch'.text) < k.allocated
              /\ IF Client.fd # Closed /\ k.fd = Closed THEN Decided(conns, conns', batch.conn)
                 ELSE conns' = conns
<1>1. batch # NoBatch
  BY DEF Line
<1>2. PICK p \in LineEnds :
        /\ LET k == HandleHeader(Client, SubSeq(batch.text, 1, p - 1)) IN
            /\ clients' = [clients EXCEPT ![batch.slot] = k]
            /\ conns' = IF Client.fd # Closed /\ k.fd = Closed
                        THEN [conns EXCEPT ![batch.conn].result = "refused"] ELSE conns
            /\ batch' = [batch EXCEPT !.text = RestAfter(p, k), !.start = 0]
  BY DEF Line
<1>. DEFINE line == SubSeq(batch.text, 1, p - 1)
            k == HandleHeader(Client, line)
            rest == RestAfter(p, k)
<1>3. batch.start \in Nat /\ p \in Nat /\ 1 <= p /\ p < Len(batch.text)
  BY <1>1, <1>2, BatchTyped DEF LineEnds, BatchType
<1>4. \A q \in 1..Len(batch.text) : batch.text[q] \in TokenSet
  BY <1>1, BatchTyped, ElementOfSeq
<1>5. line \in Seq(TokenSet)
  <2>1. \A q \in 1..(p - 1) : batch.text[q] \in TokenSet
    BY <1>1, <1>3, <1>4, BatchTyped
  <2>. QED BY <1>3, <2>1, SubSeqProperties
<1>6. rest \in Seq(TokenSet) /\ Len(rest) < Len(batch.text)
  <2>1. p \in 1..(Len(batch.text) - 1) /\ p > batch.start
    BY <1>1, <1>2, <1>3, BatchTyped DEF LineEnds
  <2>. HIDE DEF k
  <2>. QED BY <1>1, <2>1, RestTyped
<1>. HIDE DEF line
<1>7. HeaderResult(Client, k)
  BY <1>1, <1>5, BatchTyped, HandleHeaderTyped
<1>. HIDE DEF rest
<1>8. clients' = [clients EXCEPT ![batch.slot] = k]
  BY <1>2 DEF line
<1>9. conns' = IF Client.fd # Closed /\ k.fd = Closed
               THEN [conns EXCEPT ![batch.conn].result = "refused"] ELSE conns
  BY <1>2 DEF line
<1>10. batch' = [slot |-> batch.slot, conn |-> batch.conn, text |-> rest, start |-> 0]
  <2>1. batch = [slot |-> batch.slot, conn |-> batch.conn, text |-> batch.text,
                 start |-> batch.start]
    BY <1>1, BatchTyped DEF BatchType
  <2>. DEFINE b1 == [batch EXCEPT !.text = rest]
  <2>2. batch' = [b1 EXCEPT !.start = 0]
    BY <1>2 DEF rest, line
  <2>3. b1 = [slot |-> batch.slot, conn |-> batch.conn, text |-> rest, start |-> batch.start]
    BY <2>1
  <2>. HIDE DEF b1
  <2>. QED BY <2>2, <2>3
<1>. HIDE DEF k
<1>11. batch' \in BatchType /\ batch'.slot = batch.slot /\ batch'.conn = batch.conn
  <2>1. batch.slot \in DOMAIN clients /\ batch.conn \in 1..accepted
    BY <1>1, BatchTyped
  <2>. QED BY <1>6, <1>10, <2>1 DEF BatchType
<1>12. k \in ClientType /\ k.fd \in {Client.fd, Closed} /\ k.allocated = Client.allocated
       /\ WithinBounds(k)
  BY <1>1, <1>7, BatchTyped DEF HeaderResult, WithinBounds
<1>13. Len(batch'.text) < k.allocated
  <2>1. Len(rest) \in Nat /\ Len(batch.text) \in Nat /\ Len(batch.text) < k.allocated
        /\ k.allocated \in Nat
    BY <1>1, <1>6, <1>12, BatchTyped, ClientTyped
  <2>. QED BY <1>6, <1>10, <2>1
<1>14. IF Client.fd # Closed /\ k.fd = Closed THEN Decided(conns, conns', batch.conn)
       ELSE conns' = conns
  BY <1>1, <1>9, BatchTyped, ConnectionDecided DEF Results
<1>. QED BY <1>8, <1>11, <1>12, <1>13, <1>14

LEMMA LineKeepsBounds == HttpBounds /\ Line => HttpBounds'
<1>. SUFFICES ASSUME HttpBounds, Line PROVE HttpBounds'
  OBVIOUS
<1>1. PICK k \in ClientType :
        /\ clients' = [clients EXCEPT ![batch.slot] = k] /\ WithinBounds(k)
        /\ batch' \in BatchType /\ batch'.slot = batch.slot /\ Len(batch'.text) < k.allocated
        /\ IF Client.fd # Closed /\ k.fd = Closed THEN Decided(conns, conns', batch.conn)
           ELSE conns' = conns
  BY LineEffect
<1>2. batch.slot \in DOMAIN clients /\ conns \in Seq(GoodConnection)
  BY BatchTyped DEF Line
<1>3. conns' \in Seq(GoodConnection) /\ Len(conns') = Len(conns)
  BY <1>1, <1>2 DEF Decided
<1>4. UNCHANGED <<script, accepted, up>> /\ up \in BOOLEAN
  BY DEF Line, HttpBounds, HttpTyped
<1>. QED BY <1>1, <1>2, <1>3, <1>4, SlotKeepsBounds

LEMMA BodyEffect ==
    ASSUME HttpBounds, Body
    PROVE  /\ clients' = [clients EXCEPT ![batch.slot] = Disconnected(Client)]
           /\ Decided(conns, conns', batch.conn)
<1>1. conns' = [conns EXCEPT ![batch.conn].result = Outcome(conns[batch.conn].request)]
  BY DEF Body
<1>2. Outcome(conns[batch.conn].request) \in Results \ {"none"}
  BY DEF Outcome, Results
<1>3. Decided(conns, conns', batch.conn)
  <2>. DEFINE v == Outcome(conns[batch.conn].request)
              c == batch.conn
  <2>1. conns' = [conns EXCEPT ![c].result = v] /\ v \in Results \ {"none"}
    BY <1>1, <1>2
  <2>2. conns \in Seq(GoodConnection) /\ c \in 1..Len(conns)
    BY BatchTyped DEF Body
  <2>. HIDE DEF v, c
  <2>3. Decided(conns, conns', c)
    BY <2>1, <2>2, ConnectionDecided
  <2>. QED BY <2>3 DEF c
<1>. QED BY <1>3 DEF Body, Client

LEMMA BodyKeepsBounds == HttpBounds /\ Body => HttpBounds'
<1>. SUFFICES ASSUME HttpBounds, Body PROVE HttpBounds'
  OBVIOUS
<1>. DEFINE e == Disconnected(Client)
<1>1. e \in ClientType /\ WithinBounds(e) /\ batch.slot \in DOMAIN clients
  BY BatchTyped, DisconnectedBounds DEF Body
<1>2. clients' = [clients EXCEPT ![batch.slot] = e]
  BY BodyEffect
<1>3. conns' \in Seq(GoodConnection) /\ Len(conns') = Len(conns)
  BY BodyEffect DEF Decided
<1>4. up' \in BOOLEAN
  <2>1. PICK failed \in AnswerFails : up' = ~failed
    BY DEF Body
  <2>2. AnswerFails \subseteq BOOLEAN
    BY DEF AnswerFails
  <2>. QED BY <2>1, <2>2, Zenon
<1>5. UNCHANGED <<script, accepted>> /\ batch' = NoBatch
  BY DEF Body
<1>. HIDE DEF e
<1>. QED BY <1>1, <1>2, <1>3, <1>4, <1>5, SlotKeepsBounds

\* What is left is kept in the slot, and nothing else changes.
LEMMA KeepRestEffect ==
    ASSUME HttpBounds, KeepRest
    PROVE  \E e \in ClientType :
              /\ clients' = [clients EXCEPT ![batch.slot] = e]
              /\ e.fd = Client.fd /\ WithinBounds(e)
<1>. DEFINE k == Client
            b == batch.text
            e == [k EXCEPT !.buf = b]
<1>1. k \in ClientType /\ b \in Seq(TokenSet) /\ WithinBounds(k) /\ Len(b) < k.allocated
  BY BatchTyped DEF KeepRest
<1>2. clients' = [clients EXCEPT ![batch.slot] = e]
  BY DEF KeepRest, Client
<1>. HIDE DEF k, b
<1>3. e \in ClientType
  BY <1>1 DEF ClientType
<1>4. e.fd = k.fd /\ e.allocated = k.allocated /\ e.buf = b
  BY <1>1 DEF ClientType
<1>. HIDE DEF e
<1>5. WithinBounds(e)
  BY <1>1, <1>4 DEF WithinBounds
<1>. QED BY <1>2, <1>3, <1>4, <1>5 DEF k

LEMMA KeepRestKeepsBounds == HttpBounds /\ KeepRest => HttpBounds'
<1>. SUFFICES ASSUME HttpBounds, KeepRest PROVE HttpBounds'
  OBVIOUS
<1>1. PICK e \in ClientType : clients' = [clients EXCEPT ![batch.slot] = e] /\ WithinBounds(e)
  BY KeepRestEffect
<1>2. batch.slot \in DOMAIN clients
  BY BatchTyped DEF KeepRest
<1>3. UNCHANGED <<script, conns, accepted, up>> /\ batch' = NoBatch
  BY DEF KeepRest
<1>4. up \in BOOLEAN /\ conns \in Seq(GoodConnection)
  BY DEF HttpBounds, HttpTyped
<1>. QED BY <1>1, <1>2, <1>3, <1>4, SlotKeepsBounds

LEMMA BoundsNext == HttpBounds /\ [HttpNext]_httpVars => HttpBounds'
<1>. SUFFICES ASSUME HttpBounds, [HttpNext]_httpVars PROVE HttpBounds'
  OBVIOUS
<1>1. CASE HttpEnvironment
  BY <1>1, ConnectKeepsBounds, ArriveKeepsBounds DEF HttpEnvironment
<1>2. CASE Accept
  BY <1>2, AcceptKeepsBounds
<1>3. CASE \E i \in DOMAIN clients : ApiData(i)
  BY <1>3, DropKeepsBounds, ReceiveEndKeepsBounds, ReceiveKeepsBounds DEF ApiData
<1>4. CASE HandleBatch
  BY <1>4, LineKeepsBounds, BodyKeepsBounds, KeepRestKeepsBounds DEF HandleBatch
<1>5. CASE UNCHANGED httpVars
  BY <1>5 DEF httpVars, HttpBounds, HttpTyped, HttpBufferBounded, ClientType, BatchType
<1>. QED BY <1>1, <1>2, <1>3, <1>4, <1>5 DEF HttpNext

\* The slots of clients[], the connections and what api_data goes through are of their types
\* (api_accept, api_data, api_handle_header).
THEOREM HttpTypeCorrect == HttpSpec => []HttpTypeOK
<1>1. HttpBounds => HttpTypeOK
  BY HttpTypedParts DEF HttpBounds
<1>. QED BY <1>1, BoundsInit, BoundsNext, PTL DEF HttpSpec

\* The receive buffers stay within the limit and two chunks, whatever a client announces and
\* sends, with a byte left for the end (api_data).
THEOREM HttpBuffersBounded == HttpSpec => []HttpBufferBounded
<1>1. HttpBounds => HttpBufferBounded
  BY DEF HttpBounds
<1>. QED BY <1>1, BoundsInit, BoundsNext, PTL DEF HttpSpec

-----------------------------------------------------------------------------
(* The slots *)

\* What carries the property over a call of api_data: connections that wait to be accepted have
\* no outcome, and the slot whose buffer is being gone through is that of its connection or has
\* been closed with an outcome.
WaitingHaveNone == \A c \in (accepted + 1)..Len(conns) : conns[c].result = "none"

BatchHasSlot ==
    batch # NoBatch => \/ Client.fd = batch.conn
                       \/ Client.fd = Closed /\ conns[batch.conn].result # "none"

SlotInv == SlotUntilOutcome /\ WaitingHaveNone /\ BatchHasSlot

LEMMA SlotInit == HttpInit => SlotInv
BY DEF HttpInit, SlotInv, SlotUntilOutcome, WaitingHaveNone, BatchHasSlot

LEMMA AllBounds ==
    ASSUME HttpBounds
    PROVE  /\ accepted \in Nat /\ Len(conns) \in Nat /\ accepted <= Len(conns)
           /\ DOMAIN conns = 1..Len(conns) /\ conns \in Seq(GoodConnection)
           /\ clients \in Seq(ClientType)
           /\ \A i \in DOMAIN clients : clients[i].fd \in 0..accepted
BY SlotBounds, ClientTyped DEF HttpBounds, HttpTyped

\* A step that changes neither who has which slot nor which connections have an outcome.
LEMMA SameSlots ==
    ASSUME HttpBounds, SlotInv, accepted' = accepted,
           DOMAIN clients' = DOMAIN clients,
           \A i \in DOMAIN clients : clients'[i].fd = clients[i].fd,
           Len(conns) \in Nat, Len(conns') \in Nat, Len(conns) <= Len(conns'),
           \A d \in 1..Len(conns) : conns'[d].result = conns[d].result,
           \A d \in (Len(conns) + 1)..Len(conns') : conns'[d].result = "none",
           \/ batch' = NoBatch
           \/ batch' = batch
           \/ batch'.slot \in DOMAIN clients /\ batch'.conn = clients[batch'.slot].fd
    PROVE  SlotInv'
<1>1. SlotUntilOutcome'
  <2>1. \A i, j \in DOMAIN clients' :
          clients'[i].fd = clients'[j].fd /\ clients'[i].fd # Closed => i = j
    BY DEF SlotInv, SlotUntilOutcome
  <2>2. ASSUME NEW c \in 1..accepted'
        PROVE  conns'[c].result = "none" <=> \E i \in DOMAIN clients' : clients'[i].fd = c
    <3>1. c \in 1..accepted /\ conns'[c].result = conns[c].result
      BY AllBounds
    <3>2. conns[c].result = "none" <=> \E i \in DOMAIN clients : clients[i].fd = c
      BY <3>1 DEF SlotInv, SlotUntilOutcome
    <3>. QED BY <3>1, <3>2
  <2>. QED BY <2>1, <2>2 DEF SlotUntilOutcome
<1>2. WaitingHaveNone'
  <2>1. ASSUME NEW c \in (accepted + 1)..Len(conns') PROVE conns'[c].result = "none"
    <3>1. CASE c <= Len(conns)
      BY <3>1, AllBounds DEF SlotInv, WaitingHaveNone
    <3>2. CASE ~(c <= Len(conns))
      BY <3>2, AllBounds
    <3>. QED BY <3>1, <3>2
  <2>. QED BY <2>1 DEF WaitingHaveNone
<1>3. BatchHasSlot'
  <2>1. CASE batch' = NoBatch
    BY <2>1 DEF BatchHasSlot
  <2>2. CASE batch' = batch /\ batch # NoBatch
    <3>1. batch.slot \in DOMAIN clients /\ batch.conn \in 1..Len(conns)
      BY <2>2, BatchTyped
    <3>. QED BY <2>2, <3>1 DEF BatchHasSlot, SlotInv, Client
  <2>3. CASE batch'.slot \in DOMAIN clients /\ batch'.conn = clients[batch'.slot].fd
    BY <2>3 DEF BatchHasSlot, Client
  <2>. QED BY <2>1, <2>2, <2>3
<1>. QED BY <1>1, <1>2, <1>3 DEF SlotInv

\* A slot is closed, and its connection has an outcome from then on.
LEMMA ClosedSlot ==
    ASSUME HttpBounds, SlotInv, accepted' = accepted,
           NEW i \in DOMAIN clients, NEW e \in ClientType, e.fd = Closed,
           clients' = [clients EXCEPT ![i] = e],
           NEW c \in 1..accepted, Decided(conns, conns', c),
           clients[i].fd = c \/ (clients[i].fd = Closed /\ conns[c].result # "none"),
           batch' = NoBatch \/ (batch'.slot = i /\ batch'.conn = c)
    PROVE  SlotInv'
<1>1. /\ DOMAIN clients' = DOMAIN clients
      /\ \A l \in DOMAIN clients : clients'[l] = IF l = i THEN e ELSE clients[l]
  BY AllBounds, Replaced
<1>2. Len(conns') = Len(conns) /\ DOMAIN conns' = DOMAIN conns
  BY AllBounds DEF Decided
<1>3. \A d \in 1..Len(conns) :
        IF d = c THEN conns'[d].result # "none" ELSE conns'[d].result = conns[d].result
  BY DEF Decided
<1>4. SlotUntilOutcome'
  <2>1. \A l, m \in DOMAIN clients' :
          clients'[l].fd = clients'[m].fd /\ clients'[l].fd # Closed => l = m
    BY <1>1 DEF SlotInv, SlotUntilOutcome
  <2>2. ASSUME NEW d \in 1..accepted'
        PROVE  conns'[d].result = "none" <=> \E l \in DOMAIN clients' : clients'[l].fd = d
    <3>1. CASE d = c
      <4>1. conns'[d].result # "none"
        BY <3>1, <1>3, AllBounds
      <4>2. ASSUME NEW l \in DOMAIN clients, clients'[l].fd = c PROVE FALSE
        <5>1. l # i /\ clients[l].fd = c
          BY <1>1, <4>2 DEF Closed
        <5>. QED BY <5>1 DEF SlotInv, SlotUntilOutcome, Closed
      <4>. QED BY <1>1, <3>1, <4>1, <4>2
    <3>2. CASE d # c
      <4>1. conns'[d].result = conns[d].result
        BY <3>2, <1>3, AllBounds
      <4>2. \A l \in DOMAIN clients : clients'[l].fd = d <=> clients[l].fd = d
        BY <1>1, <3>2 DEF Closed
      <4>. QED BY <1>1, <4>1, <4>2 DEF SlotInv, SlotUntilOutcome
    <3>. QED BY <3>1, <3>2
  <2>. QED BY <2>1, <2>2 DEF SlotUntilOutcome
<1>5. WaitingHaveNone'
  BY <1>2, <1>3, AllBounds DEF SlotInv, WaitingHaveNone
<1>6. BatchHasSlot'
  BY <1>1, <1>3, AllBounds DEF BatchHasSlot, Client
<1>. QED BY <1>4, <1>5, <1>6 DEF SlotInv

LEMMA AcceptKeepsSlots == HttpBounds /\ SlotInv /\ Accept => SlotInv'
<1>. SUFFICES ASSUME HttpBounds, SlotInv, Accept PROVE SlotInv'
  OBVIOUS
<1>0. CASE AcceptFails
  BY <1>0 DEF AcceptFails, SlotInv, SlotUntilOutcome, WaitingHaveNone, BatchHasSlot, Client
<1>. SUFFICES ASSUME TakeClient PROVE SlotInv'
  BY <1>0 DEF Accept
<1>. DEFINE c == accepted + 1
<1>1. PICK i \in 1..(Len(clients) + 1), e \in ClientType' :
        /\ clients' = [j \in DOMAIN clients \cup {i} |-> IF j = i THEN e ELSE clients[j]]
        /\ e.fd = c /\ (i \in DOMAIN clients => clients[i].fd = Closed)
  BY AcceptedSlot
<1>2. /\ DOMAIN clients' = DOMAIN clients \cup {i} /\ clients'[i] = e
      /\ \A j \in DOMAIN clients : j # i => clients'[j] = clients[j]
  BY <1>1, AcceptedClients
<1>3. accepted' = c /\ c \in 1..Len(conns) /\ batch' = NoBatch
  BY AllBounds DEF Accept, TakeClient
<1>4. Len(conns') = Len(conns) /\ \A d \in 1..Len(conns) : conns'[d].result = conns[d].result
  BY AcceptKept DEF Kept
<1>5. SlotUntilOutcome'
  <2>1. ASSUME NEW l \in DOMAIN clients', NEW m \in DOMAIN clients',
               clients'[l].fd = clients'[m].fd, clients'[l].fd # Closed
        PROVE  l = m
    <3>1. CASE l = i /\ m # i
      <4>1. clients'[l].fd = c /\ clients'[m].fd = clients[m].fd /\ m \in DOMAIN clients
        BY <1>1, <1>2, <3>1
      <4>2. clients[m].fd \in 0..accepted /\ accepted \in Nat
        BY <4>1, AllBounds
      <4>3. clients[m].fd = c
        BY <2>1, <4>1
      <4>. QED BY <4>2, <4>3
    <3>2. CASE m = i /\ l # i
      <4>1. clients'[m].fd = c /\ clients'[l].fd = clients[l].fd /\ l \in DOMAIN clients
        BY <1>1, <1>2, <3>2
      <4>2. clients[l].fd \in 0..accepted /\ accepted \in Nat
        BY <4>1, AllBounds
      <4>3. clients[l].fd = c
        BY <2>1, <4>1
      <4>. QED BY <4>2, <4>3
    <3>3. CASE l # i /\ m # i
      BY <1>2, <2>1, <3>3 DEF SlotInv, SlotUntilOutcome
    <3>. QED BY <3>1, <3>2, <3>3
  <2>2. ASSUME NEW d \in 1..accepted'
        PROVE  conns'[d].result = "none" <=> \E l \in DOMAIN clients' : clients'[l].fd = d
    <3>1. CASE d = c
      <4>1. conns'[d].result = "none"
        BY <1>3, <1>4, <3>1, AllBounds DEF SlotInv, WaitingHaveNone
      <4>. QED BY <1>1, <1>2, <3>1, <4>1
    <3>2. CASE d # c
      <4>1. d \in 1..accepted /\ conns'[d].result = conns[d].result
        BY <1>3, <1>4, <3>2, AllBounds
      <4>2. (\E l \in DOMAIN clients' : clients'[l].fd = d)
              <=> \E l \in DOMAIN clients : clients[l].fd = d
        <5>1. d # Closed
          BY <4>1 DEF Closed
        <5>2. ASSUME NEW l \in DOMAIN clients', clients'[l].fd = d
              PROVE  l \in DOMAIN clients /\ clients[l].fd = d
          <6>1. l # i
            BY <1>1, <1>2, <3>2, <5>2
          <6>. QED BY <1>2, <5>2, <6>1
        <5>3. ASSUME NEW l \in DOMAIN clients, clients[l].fd = d
              PROVE  l \in DOMAIN clients' /\ clients'[l].fd = d
          <6>1. l # i
            BY <1>1, <5>1, <5>3
          <6>. QED BY <1>2, <5>3, <6>1
        <5>. QED BY <5>2, <5>3
      <4>. QED BY <4>1, <4>2 DEF SlotInv, SlotUntilOutcome
    <3>. QED BY <3>1, <3>2
  <2>. QED BY <2>1, <2>2 DEF SlotUntilOutcome
<1>6. WaitingHaveNone'
  BY <1>3, <1>4, AllBounds DEF SlotInv, WaitingHaveNone
<1>7. BatchHasSlot'
  BY <1>3 DEF BatchHasSlot
<1>. QED BY <1>5, <1>6, <1>7 DEF SlotInv

LEMMA EnvironmentKeepsSlots == HttpBounds /\ SlotInv /\ HttpEnvironment => SlotInv'
<1>. SUFFICES ASSUME HttpBounds, SlotInv, HttpEnvironment PROVE SlotInv'
  OBVIOUS
<1>1. CASE Connect
  <2>. DEFINE f == Connection(Head(script))
  <2>1. Head(script) \in Request
    BY <1>1, HeadTailProperties DEF Connect, HttpBounds, HttpTyped
  <2>2. f \in GoodConnection /\ f.result = "none"
    BY <2>1, ConnectionNew
  <2>3. conns' = Append(conns, f) /\ UNCHANGED <<clients, accepted, batch>>
    BY <1>1 DEF Connect
  <2>. HIDE DEF f
  <2>4. /\ Len(conns') = Len(conns) + 1
        /\ \A d \in 1..Len(conns) : conns'[d] = conns[d]
        /\ conns'[Len(conns) + 1] = f
    BY <2>2, <2>3, AllBounds, AppendProperties
  <2>5. \A d \in (Len(conns) + 1)..Len(conns') : conns'[d].result = "none"
    BY <2>2, <2>4, AllBounds
  <2>. QED BY <2>3, <2>4, <2>5, AllBounds, SameSlots
<1>2. CASE \E c \in DOMAIN conns : Arrive(c) \/ HangUp(c)
  <2>1. Kept(conns, conns') /\ UNCHANGED <<clients, accepted, batch>>
    BY <1>2, ArriveKept DEF Arrive, HangUp
  <2>. QED BY <2>1, AllBounds, SameSlots DEF Kept
<1>. QED BY <1>1, <1>2 DEF HttpEnvironment

LEMMA ApiDataKeepsSlots ==
    ASSUME HttpBounds, SlotInv, NEW i \in DOMAIN clients, ApiData(i)
    PROVE  SlotInv'
<1>1. CASE Drop(i)
  <2>1. /\ clients' = [clients EXCEPT ![i] = Disconnected(clients[i])]
        /\ Decided(conns, conns', clients[i].fd)
    BY <1>1, DropEffect
  <2>2. Disconnected(clients[i]) \in ClientType /\ Disconnected(clients[i]).fd = Closed
    BY SlotBounds, DisconnectedTyped
  <2>3. accepted' = accepted /\ batch' = NoBatch /\ clients[i].fd # Closed
    BY <1>1 DEF Drop
  <2>4. clients[i].fd \in 1..accepted
    BY <2>3, HeldConnection
  <2>. QED BY <2>1, <2>2, <2>3, <2>4, ClosedSlot
<1>2. CASE ReceiveEnd(i)
  <2>1. PICK e \in ClientType : clients' = [clients EXCEPT ![i] = e] /\ e.fd = Closed
    BY <1>2, EndedSlot
  <2>2. Decided(conns, conns', clients[i].fd)
    BY <1>2, ReceiveEndEffect
  <2>3. accepted' = accepted /\ batch' = NoBatch /\ clients[i].fd # Closed
    BY <1>2 DEF ReceiveEnd
  <2>4. clients[i].fd \in 1..accepted
    BY <2>3, HeldConnection
  <2>. QED BY <2>1, <2>2, <2>3, <2>4, ClosedSlot
<1>3. CASE Receive(i)
  <2>. DEFINE e == [clients[i] EXCEPT !.allocated = Allocated(clients[i])]
  <2>1. clients' = [clients EXCEPT ![i] = e]
    BY <1>3, ReceiveEffect
  <2>2. e \in ClientType /\ e.fd = clients[i].fd
    BY <1>3, SlotBounds, AllocatedBounds, Extended DEF Receive
  <2>. HIDE DEF e
  <2>3. /\ DOMAIN clients' = DOMAIN clients
        /\ \A l \in DOMAIN clients : clients'[l].fd = clients[l].fd
    BY <2>1, <2>2, AllBounds, Replaced
  <2>4. Kept(conns, conns') /\ batch'.slot = i /\ batch'.conn = clients[i].fd
    BY <1>3, ReceiveEffect
  <2>5. accepted' = accepted
    BY <1>3 DEF Receive
  <2>. QED BY <2>3, <2>4, <2>5, AllBounds, SameSlots DEF Kept
<1>. QED BY <1>1, <1>2, <1>3 DEF ApiData

LEMMA HandleBatchKeepsSlots == HttpBounds /\ SlotInv /\ HandleBatch => SlotInv'
<1>. SUFFICES ASSUME HttpBounds, SlotInv, HandleBatch PROVE SlotInv'
  OBVIOUS
<1>1. /\ batch # NoBatch /\ batch.slot \in DOMAIN clients
      /\ batch.conn \in 1..accepted /\ batch.conn \in 1..Len(conns)
  BY BatchTyped DEF HandleBatch, Line, Body, KeepRest
<1>2. Client.fd = batch.conn \/ (Client.fd = Closed /\ conns[batch.conn].result # "none")
  BY <1>1 DEF SlotInv, BatchHasSlot
<1>3. CASE Line
  <2>1. PICK k \in ClientType :
          /\ clients' = [clients EXCEPT ![batch.slot] = k]
          /\ k.fd \in {Client.fd, Closed}
          /\ batch'.slot = batch.slot /\ batch'.conn = batch.conn
          /\ IF Client.fd # Closed /\ k.fd = Closed THEN Decided(conns, conns', batch.conn)
             ELSE conns' = conns
    BY <1>3, LineEffect
  <2>2. accepted' = accepted
    BY <1>3 DEF Line
  <2>3. CASE Client.fd # Closed /\ k.fd = Closed
    BY <1>1, <1>2, <2>1, <2>2, <2>3, ClosedSlot DEF Client
  <2>4. CASE k.fd = Client.fd
    <3>1. conns' = conns
      BY <2>1, <2>4
    <3>2. /\ DOMAIN clients' = DOMAIN clients
          /\ \A l \in DOMAIN clients : clients'[l] = IF l = batch.slot THEN k ELSE clients[l]
      BY <2>1, AllBounds, Replaced
    <3>3. \A l \in DOMAIN clients : clients'[l].fd = clients[l].fd
      BY <2>4, <3>2 DEF Client
    <3>4. SlotUntilOutcome' /\ WaitingHaveNone'
      BY <2>2, <3>1, <3>2, <3>3 DEF SlotInv, SlotUntilOutcome, WaitingHaveNone
    <3>5. Client'.fd = Client.fd
      BY <1>1, <2>1, <3>3 DEF Client
    <3>6. BatchHasSlot'
      BY <1>2, <2>1, <3>1, <3>5 DEF BatchHasSlot
    <3>. QED BY <3>4, <3>6 DEF SlotInv
  <2>. QED BY <2>1, <2>3, <2>4
<1>4. CASE Body
  <2>1. Disconnected(Client) \in ClientType /\ Disconnected(Client).fd = Closed
    BY <1>1, BatchTyped, DisconnectedTyped
  <2>2. /\ clients' = [clients EXCEPT ![batch.slot] = Disconnected(Client)]
        /\ Decided(conns, conns', batch.conn)
    BY <1>4, BodyEffect
  <2>3. accepted' = accepted /\ batch' = NoBatch
    BY <1>4 DEF Body
  <2>. QED BY <1>1, <1>2, <2>1, <2>2, <2>3, ClosedSlot DEF Client
<1>5. CASE KeepRest
  <2>1. PICK e \in ClientType : clients' = [clients EXCEPT ![batch.slot] = e] /\ e.fd = Client.fd
    BY <1>5, KeepRestEffect
  <2>2. /\ DOMAIN clients' = DOMAIN clients
        /\ \A l \in DOMAIN clients : clients'[l].fd = clients[l].fd
    BY <2>1, AllBounds, Replaced DEF Client
  <2>3. UNCHANGED <<conns, accepted>> /\ batch' = NoBatch
    BY <1>5 DEF KeepRest
  <2>. QED BY <2>2, <2>3, AllBounds, SameSlots
<1>. QED BY <1>3, <1>4, <1>5 DEF HandleBatch

LEMMA SlotNext == HttpBounds /\ SlotInv /\ [HttpNext]_httpVars => SlotInv'
<1>. SUFFICES ASSUME HttpBounds, SlotInv, [HttpNext]_httpVars PROVE SlotInv'
  OBVIOUS
<1>1. CASE UNCHANGED httpVars
  BY <1>1 DEF httpVars, SlotInv, SlotUntilOutcome, WaitingHaveNone, BatchHasSlot, Client
<1>2. CASE HttpNext
  BY <1>2, EnvironmentKeepsSlots, AcceptKeepsSlots, ApiDataKeepsSlots, HandleBatchKeepsSlots
     DEF HttpNext
<1>. QED BY <1>1, <1>2

\* A connection that has been accepted has exactly one slot until it has an outcome, and none
\* afterwards: none is forgotten, closed twice or mixed up with another (api_accept, api_data,
\* api_handle_header, api_disconnect).
THEOREM SlotsUntilOutcome == HttpSpec => []SlotUntilOutcome
<1>1. SlotInv => SlotUntilOutcome
  BY DEF SlotInv
<1>. QED BY <1>1, BoundsInit, BoundsNext, SlotInit, SlotNext, PTL DEF HttpSpec

-----------------------------------------------------------------------------
(* What is received *)

HeaderLength(r) == IF r.payload = 0 THEN 5 ELSE 8

LEMMA TextShape ==
    ASSUME NEW r \in Request
    PROVE  /\ Text(r) \in Seq(TokenSet) /\ Len(Text(r)) = HeaderLength(r) + r.payload
           /\ Text(r)[1] = Token(r.method, r.target) /\ Text(r)[2] = CR /\ Text(r)[3] = LF
           /\ r.payload = 0 => Text(r)[4] = CR /\ Text(r)[5] = LF
           /\ r.payload > 0 => /\ Text(r)[4] = Token("length", r.payload)
                               /\ Text(r)[5] = CR /\ Text(r)[6] = LF
                               /\ Text(r)[7] = CR /\ Text(r)[8] = LF
           /\ \A n \in 1..r.payload : Text(r)[HeaderLength(r) + n] = Token("byte", r.target)
<1>1. /\ r.method \in {"get", "post", "options"} /\ r.target \in Targets /\ r.payload \in Nat
  BY DEF Request
<1>. DEFINE first == <<Token(r.method, r.target), CR, LF>>
            length == IF r.payload > 0 THEN <<Token("length", r.payload), CR, LF>> ELSE <<>>
            blank == <<CR, LF>>
            l == IF r.payload > 0 THEN 3 ELSE 0
            two == first \o length
            three == two \o blank
<1>2. first \in Seq(TokenSet) /\ blank \in Seq(TokenSet) /\ Len(first) = 3 /\ Len(blank) = 2
  BY <1>1, TokensTyped
<1>3. length \in Seq(TokenSet) /\ Len(length) = l
  BY <1>1, TokensTyped
<1>4. /\ Payload(r) \in Seq(TokenSet) /\ Len(Payload(r)) = r.payload
      /\ \A n \in 1..r.payload : Payload(r)[n] = Token("byte", r.target)
  BY <1>1, TokensTyped DEF Payload
<1>5. first[1] = Token(r.method, r.target) /\ first[2] = CR /\ first[3] = LF
  OBVIOUS
<1>6. r.payload > 0 => length[1] = Token("length", r.payload) /\ length[2] = CR /\ length[3] = LF
  OBVIOUS
<1>7. blank[1] = CR /\ blank[2] = LF
  OBVIOUS
<1>8. l \in {0, 3} /\ (r.payload = 0 <=> l = 0) /\ HeaderLength(r) = 5 + l
  BY <1>1 DEF HeaderLength
<1>9. Text(r) = three \o Payload(r)
  BY DEF Text
<1>. HIDE DEF first, length, blank, l
<1>10. /\ two \in Seq(TokenSet) /\ Len(two) = 3 + l
       /\ \A n \in 1..(3 + l) : two[n] = IF n <= 3 THEN first[n] ELSE length[n - 3]
  <2>1. /\ two \in Seq(TokenSet) /\ Len(two) = Len(first) + Len(length)
        /\ \A n \in 1..(Len(first) + Len(length)) :
             two[n] = IF n <= Len(first) THEN first[n] ELSE length[n - Len(first)]
    BY <1>2, <1>3, ConcatProperties
  <2>. HIDE DEF two
  <2>. QED BY <2>1, <1>2, <1>3
<1>. HIDE DEF two
<1>11. /\ three \in Seq(TokenSet) /\ Len(three) = 5 + l
       /\ \A n \in 1..(5 + l) : three[n] = IF n <= 3 + l THEN two[n] ELSE blank[n - (3 + l)]
  <2>1. /\ three \in Seq(TokenSet) /\ Len(three) = Len(two) + Len(blank)
        /\ \A n \in 1..(Len(two) + Len(blank)) :
             three[n] = IF n <= Len(two) THEN two[n] ELSE blank[n - Len(two)]
    BY <1>2, <1>10, ConcatProperties
  <2>2. Len(two) + Len(blank) = 5 + l
    BY <1>2, <1>8, <1>10
  <2>. HIDE DEF three
  <2>. QED BY <2>1, <2>2, <1>10
<1>. HIDE DEF three
<1>12. /\ Text(r) \in Seq(TokenSet) /\ Len(Text(r)) = 5 + l + r.payload
       /\ \A n \in 1..(5 + l + r.payload) :
            Text(r)[n] = IF n <= 5 + l THEN three[n] ELSE Payload(r)[n - (5 + l)]
  BY <1>1, <1>4, <1>8, <1>9, <1>11, ConcatProperties
<1>13. \A n \in 1..(5 + l) : Text(r)[n] = three[n]
  BY <1>1, <1>8, <1>12
<1>14. \A n \in 1..r.payload : Text(r)[HeaderLength(r) + n] = Token("byte", r.target)
  BY <1>1, <1>4, <1>8, <1>12
<1>15. Text(r)[1] = Token(r.method, r.target) /\ Text(r)[2] = CR /\ Text(r)[3] = LF
  BY <1>5, <1>8, <1>10, <1>11, <1>13
<1>16. CASE r.payload = 0
  <2>1. l = 0
    BY <1>8, <1>16
  <2>2. Text(r)[4] = CR /\ Text(r)[5] = LF
    BY <2>1, <1>7, <1>11, <1>13
  <2>. QED BY <1>1, <1>8, <1>12, <1>14, <1>15, <1>16, <2>2
<1>17. CASE r.payload > 0
  <2>1. l = 3
    BY <1>1, <1>8, <1>17
  <2>2. /\ Text(r)[4] = Token("length", r.payload)
        /\ Text(r)[5] = CR /\ Text(r)[6] = LF
    BY <2>1, <1>6, <1>10, <1>11, <1>13, <1>17
  <2>3. Text(r)[7] = CR /\ Text(r)[8] = LF
    BY <2>1, <1>7, <1>11, <1>13
  <2>. QED BY <1>1, <1>8, <1>12, <1>14, <1>15, <1>17, <2>2, <2>3
<1>. QED BY <1>1, <1>16, <1>17

IsMethod(x) == x.kind \in {"get", "post", "options"}

\* Only the first token of a request names a method; each CR is followed by its LF, within
\* the header.
LEMMA TextTokens ==
    ASSUME NEW r \in Request, NEW p \in 1..Len(Text(r))
    PROVE  /\ Text(r)[p] \in TokenSet
           /\ IsMethod(Text(r)[p]) => p = 1
           /\ Text(r)[p] = CR => /\ p + 1 <= Len(Text(r)) /\ Text(r)[p + 1] = LF
                                 /\ p < HeaderLength(r) /\ p # 1
<1>. DEFINE t == Text(r)
            h == HeaderLength(r)
            n == r.payload
<1>1. /\ r.method \in {"get", "post", "options"} /\ r.target \in Targets /\ n \in Nat
  BY DEF Request
<1>2. /\ t \in Seq(TokenSet) /\ Len(t) = h + n
      /\ t[1] = Token(r.method, r.target) /\ t[2] = CR /\ t[3] = LF
      /\ n = 0 => t[4] = CR /\ t[5] = LF
      /\ n > 0 => /\ t[4] = Token("length", n) /\ t[5] = CR /\ t[6] = LF
                  /\ t[7] = CR /\ t[8] = LF
      /\ \A i \in 1..n : t[h + i] = Token("byte", r.target)
  BY TextShape
<1>3. h = IF n = 0 THEN 5 ELSE 8
  BY DEF HeaderLength
<1>4. /\ ~IsMethod(CR) /\ ~IsMethod(LF) /\ ~IsMethod(Token("length", n))
      /\ ~IsMethod(Token("byte", r.target))
  BY DEF IsMethod, CR, LF, Token
<1>5. /\ Token(r.method, r.target) # CR /\ LF # CR /\ Token("length", n) # CR
      /\ Token("byte", r.target) # CR
  <2>1. Token(r.method, r.target).kind # "cr" /\ CR.kind = "cr" /\ LF.kind # "cr"
        /\ Token("length", n).kind # "cr" /\ Token("byte", r.target).kind # "cr"
    BY <1>1 DEF CR, LF, Token
  <2>. QED BY <2>1
<1>6. t[p] \in TokenSet
  BY <1>2, ElementOfSeq
<1>. HIDE DEF t, h, n
<1>7. p \in 1..(h + n)
  BY <1>2 DEF t
<1>8. CASE p > h
  <2>1. p - h \in 1..n /\ p = h + (p - h)
    BY <1>1, <1>3, <1>7, <1>8
  <2>2. t[p] = Token("byte", r.target)
    BY <1>2, <2>1
  <2>. QED BY <2>2, <1>4, <1>5, <1>6 DEF t
<1>9. CASE n = 0 /\ p <= h
  <2>1. p \in {1, 2, 3, 4, 5} /\ Len(t) = 5 /\ h = 5
    BY <1>2, <1>3, <1>7, <1>9
  <2>2. IsMethod(t[p]) => p = 1
    BY <2>1, <1>2, <1>4, <1>9
  <2>3. t[p] = CR => p + 1 <= Len(t) /\ t[p + 1] = LF /\ p < h /\ p # 1
    BY <2>1, <1>2, <1>5, <1>9
  <2>. QED BY <2>2, <2>3, <1>6 DEF t, h
<1>10. CASE n > 0 /\ p <= h
  <2>1. p \in {1, 2, 3, 4, 5, 6, 7, 8} /\ Len(t) = 8 + n /\ h = 8
    BY <1>1, <1>2, <1>3, <1>7, <1>10
  <2>2. IsMethod(t[p]) => p = 1
    BY <2>1, <1>2, <1>4, <1>10
  <2>3. t[p] = CR => p + 1 <= Len(t) /\ t[p + 1] = LF /\ p < h /\ p # 1
    BY <2>1, <1>1, <1>2, <1>5, <1>10
  <2>. QED BY <2>2, <2>3, <1>6 DEF t, h
<1>. QED BY <1>1, <1>3, <1>7, <1>8, <1>9, <1>10

\* A piece of a text, its elements, and what is left of it after its first a elements.
LEMMA Piece ==
    ASSUME NEW S, NEW t \in Seq(S), NEW h \in Nat, NEW a \in Nat, NEW n \in Nat,
           h + a <= n, n <= Len(t)
    PROVE  /\ SubSeq(t, h + 1, n) \in Seq(S) /\ Len(SubSeq(t, h + 1, n)) = n - h
           /\ \A q \in 1..(n - h) : SubSeq(t, h + 1, n)[q] = t[h + q]
           /\ SubSeq(SubSeq(t, h + 1, n), a + 1, n - h) = SubSeq(t, h + a + 1, n)
<1>1. Len(t) \in Nat /\ \A q \in 1..Len(t) : t[q] \in S
  BY LenProperties, ElementOfSeq
<1>. DEFINE s == SubSeq(t, h + 1, n)
            rest == SubSeq(s, a + 1, n - h)
            tail == SubSeq(t, h + a + 1, n)
<1>2. \A q \in (h + 1)..n : t[q] \in S
  BY <1>1
<1>3. s \in Seq(S) /\ Len(s) = n - h /\ \A q \in 1..(n - h) : s[q] = t[h + q]
  <2>1. /\ s \in Seq(S) /\ Len(s) = IF h + 1 <= n THEN n - (h + 1) + 1 ELSE 0
        /\ \A q \in 1..(n - (h + 1) + 1) : s[q] = t[(h + 1) + q - 1]
    BY <1>2, SubSeqProperties
  <2>. HIDE DEF s
  <2>2. Len(s) = n - h
    BY <2>1
  <2>3. ASSUME NEW q \in 1..(n - h) PROVE s[q] = t[h + q]
    <3>1. q \in 1..(n - (h + 1) + 1) /\ (h + 1) + q - 1 = h + q
      OBVIOUS
    <3>. QED BY <2>1, <3>1
  <2>. QED BY <2>1, <2>2, <2>3
<1>. HIDE DEF s
<1>4. /\ rest \in Seq(S) /\ Len(rest) = n - (h + a)
      /\ \A q \in 1..(n - (h + a)) : rest[q] = t[(h + a) + q]
  <2>1. \A q \in (a + 1)..(n - h) : s[q] \in S
    BY <1>3, ElementOfSeq
  <2>2. /\ rest \in Seq(S) /\ Len(rest) = IF a + 1 <= n - h THEN (n - h) - (a + 1) + 1 ELSE 0
        /\ \A q \in 1..((n - h) - (a + 1) + 1) : rest[q] = s[(a + 1) + q - 1]
    BY <2>1, SubSeqProperties
  <2>. HIDE DEF rest
  <2>3. Len(rest) = n - (h + a)
    BY <2>2
  <2>4. ASSUME NEW q \in 1..(n - (h + a)) PROVE rest[q] = t[(h + a) + q]
    <3>1. q \in 1..((n - h) - (a + 1) + 1) /\ (a + 1) + q - 1 = a + q /\ a + q \in 1..(n - h)
      OBVIOUS
    <3>2. rest[q] = s[a + q]
      BY <2>2, <3>1
    <3>3. s[a + q] = t[h + (a + q)] /\ h + (a + q) = (h + a) + q
      BY <1>3, <3>1
    <3>. QED BY <3>2, <3>3
  <2>. QED BY <2>2, <2>3, <2>4
<1>5. /\ tail \in Seq(S) /\ Len(tail) = n - (h + a)
      /\ \A q \in 1..(n - (h + a)) : tail[q] = t[(h + a) + q]
  <2>1. \A q \in (h + a + 1)..n : t[q] \in S
    BY <1>1
  <2>2. /\ tail \in Seq(S) /\ Len(tail) = IF h + a + 1 <= n THEN n - (h + a + 1) + 1 ELSE 0
        /\ \A q \in 1..(n - (h + a + 1) + 1) : tail[q] = t[(h + a + 1) + q - 1]
    BY <2>1, SubSeqProperties
  <2>. HIDE DEF tail
  <2>3. Len(tail) = n - (h + a)
    BY <2>2
  <2>4. ASSUME NEW q \in 1..(n - (h + a)) PROVE tail[q] = t[(h + a) + q]
    <3>1. q \in 1..(n - (h + a + 1) + 1) /\ (h + a + 1) + q - 1 = (h + a) + q
      OBVIOUS
    <3>. QED BY <2>2, <3>1
  <2>. QED BY <2>2, <2>3, <2>4
<1>. HIDE DEF rest, tail
<1>6. rest = tail
  <2>1. Len(rest) = Len(tail) /\ \A q \in 1..Len(rest) : rest[q] = tail[q]
    BY <1>4, <1>5
  <2>. QED BY <1>4, <1>5, <2>1, SeqEqual
<1>. QED BY <1>3, <1>6 DEF s, rest, tail

NoMethod(text) == \A p \in 1..Len(text) : ~IsMethod(text[p])

\* How many tokens of its request a client is through with, and what has been received of
\* the others.
Taken(k, r) ==
    IF k.state = "new" THEN 0
    ELSE IF k.state = "data" THEN HeaderLength(r)
    ELSE IF k.payload = 0 THEN 3 ELSE 6
Left(k, e) == SubSeq(Text(e.request), Taken(k, e.request) + 1, e.read)

\* A client whose connection is not spoiled holds what its request says.
Follows(k, e) ==
    LET r == e.request IN
    /\ Taken(k, r) <= e.read
    /\ e.read > 0 => ~Torn(Text(r), e.read)
    /\ k.payload \in {0, r.payload}
    /\ IF k.state = "new" THEN k.payload = 0
       ELSE k.method = r.method /\ k.endpoint = <<r.target>>
    /\ k.state = "data" => k.payload = r.payload /\ (r.method = "post" => r.payload > 0)

\* Between two calls of api_data no line is complete, nor the payload.
Waits(k, e) ==
    /\ Follows(k, e) /\ k.buf = Left(k, e)
    /\ IF k.state = "data" THEN e.read < Len(Text(e.request))
       ELSE \A p \in 1..Len(k.buf) : k.buf[p] # CR

\* Within one the scan misses no line.
Goes(k, e, text, start) ==
    /\ Follows(k, e) /\ text = Left(k, e)
    /\ k.state # "data" => \A p \in 1..Len(text) : text[p] = CR => p > start

\* The request is one that is refused.
Refusable(r) == r.method = "options" \/ (r.method = "post" /\ r.payload = 0)

LEMMA RecordTyped ==
    ASSUME NEW k \in ClientType
    PROVE  /\ k.state \in {"new", "headers", "data"} /\ k.method \in {"unknown", "get", "post"}
           /\ k = [fd |-> k.fd, allocated |-> k.allocated, buf |-> k.buf, payload |-> k.payload,
                   method |-> k.method, state |-> k.state, endpoint |-> k.endpoint]
BY DEF ClientType

\* What a line makes of a client that has not come to the payload.
LEMMA HeaderNew ==
    ASSUME NEW k \in ClientType, NEW line \in Seq(TokenSet), k.state = "new"
    PROVE  IF line # <<>> /\ Head(line).kind \in {"get", "post"}
           THEN \E j : /\ j = HandleHeader(k, line)
                       /\ j.state = "headers" /\ j.method = Head(line).kind
                       /\ j.endpoint = <<Head(line).arg>> /\ j.payload = k.payload
                       /\ j.fd = k.fd
           ELSE HandleHeader(k, line) = Disconnected(k)
<1>1. CASE line # <<>> /\ Head(line).kind \in {"get", "post"}
  <2>. DEFINE m == Head(line).kind
              t == <<Head(line).arg>>
              e1 == [k EXCEPT !.method = m]
              e2 == [e1 EXCEPT !.endpoint = t]
              e3 == [e2 EXCEPT !.state = "headers"]
  <2>1. HandleHeader(k, line) = e3
    BY <1>1 DEF HandleHeader, Initiation
  <2>. HIDE DEF m, t
  <2>2. e3.state = "headers" /\ e3.method = m /\ e3.endpoint = t /\ e3.payload = k.payload
        /\ e3.fd = k.fd
    <3>1. e1 = [fd |-> k.fd, allocated |-> k.allocated, buf |-> k.buf, payload |-> k.payload,
                method |-> m, state |-> k.state, endpoint |-> k.endpoint]
      BY RecordTyped
    <3>. HIDE DEF e1
    <3>2. e2 = [fd |-> k.fd, allocated |-> k.allocated, buf |-> k.buf, payload |-> k.payload,
                method |-> m, state |-> k.state, endpoint |-> t]
      BY <3>1
    <3>. HIDE DEF e2
    <3>3. e3 = [fd |-> k.fd, allocated |-> k.allocated, buf |-> k.buf, payload |-> k.payload,
                method |-> m, state |-> "headers", endpoint |-> t]
      BY <3>2
    <3>. HIDE DEF e3
    <3>. QED BY <3>3
  <2>. HIDE DEF e3
  <2>. QED BY <1>1, <2>1, <2>2 DEF m, t
<1>2. CASE ~(line # <<>> /\ Head(line).kind \in {"get", "post"})
  BY <1>2 DEF HandleHeader, Initiation
<1>. QED BY <1>1, <1>2

LEMMA HeaderAnnounces ==
    ASSUME NEW k \in ClientType, NEW line \in Seq(TokenSet), k.state = "headers",
           line # <<>>, Head(line).kind = "length"
    PROVE  LET j == HandleHeader(k, line) IN
           /\ j.state = "headers" /\ j.method = k.method /\ j.endpoint = k.endpoint
           /\ j.payload = Head(line).arg /\ j.fd = k.fd
<1>. DEFINE n == Head(line).arg
            j == [k EXCEPT !.payload = n]
<1>1. HandleHeader(k, line) = j
  <2>1. Head(line) # NUL
    BY DEF NUL, Token
  <2>. QED BY <2>1 DEF HandleHeader, EmptyLine
<1>. HIDE DEF n
<1>2. j.state = "headers" /\ j.method = k.method /\ j.endpoint = k.endpoint
      /\ j.payload = n /\ j.fd = k.fd
  BY RecordTyped
<1>. HIDE DEF j
<1>. QED BY <1>1, <1>2 DEF n

LEMMA HeaderEnd ==
    ASSUME NEW k \in ClientType, k.state = "headers", NEW line, EmptyLine(line)
    PROVE  IF k.method = "post" /\ k.payload = 0 THEN HandleHeader(k, line) = Disconnected(k)
           ELSE \E j : /\ j = HandleHeader(k, line)
                       /\ j.state = "data" /\ j.method = k.method /\ j.endpoint = k.endpoint
                       /\ j.payload = k.payload /\ j.fd = k.fd
<1>. DEFINE j == [k EXCEPT !.state = "data"]
<1>1. HandleHeader(k, line) = EndOfHeader(k)
  <2>1. NUL.kind = "nul"
    BY DEF NUL, Token
  <2>. QED BY <2>1 DEF HandleHeader, EmptyLine
<1>2. j.state = "data" /\ j.method = k.method /\ j.endpoint = k.endpoint
      /\ j.payload = k.payload /\ j.fd = k.fd
  BY RecordTyped
<1>. HIDE DEF j
<1>. QED BY <1>1, <1>2 DEF EndOfHeader, j

\* Whatever the line, the client moves on from its first one, or is closed.
LEMMA HeaderMoves ==
    ASSUME accepted \in Nat, NEW k \in ClientType, NEW line \in Seq(TokenSet), k.state # "data"
    PROVE  LET j == HandleHeader(k, line) IN
           /\ j.fd = Closed => j.state = "new" \/ k.fd = Closed
           /\ j.fd # Closed => j.state # "new"
<1>1. Disconnected(k).fd = Closed /\ Disconnected(k).state = "new"
  BY DEF Disconnected, FreshClient
<1>2. CASE k.state = "new"
  BY <1>1, <1>2, HeaderNew
<1>3. CASE k.state = "headers"
  <2>1. CASE line # <<>> /\ Head(line).kind \in {"cr", "lf"}
    BY <1>1, <2>1 DEF HandleHeader
  <2>2. CASE EmptyLine(line)
    BY <1>1, <1>3, <2>2, HeaderEnd
  <2>3. CASE line # <<>> /\ Head(line).kind = "length"
    BY <1>3, <2>3, HeaderAnnounces
  <2>4. CASE ~EmptyLine(line) /\ Head(line).kind \notin {"cr", "lf", "length"}
    <3>1. HandleHeader(k, line) = k
      BY <1>3, <2>4 DEF HandleHeader
    <3>. QED BY <3>1, <1>3
  <2>. QED BY <2>1, <2>2, <2>3, <2>4 DEF EmptyLine
<1>. QED BY <1>2, <1>3, RecordTyped

LEMMA FollowsTyped ==
    ASSUME NEW k \in ClientType, NEW e \in GoodConnection, Follows(k, e)
    PROVE  /\ e.request \in Request /\ Text(e.request) \in Seq(TokenSet)
           /\ e.read \in Nat /\ e.read <= Len(Text(e.request)) /\ Len(Text(e.request)) \in Nat
           /\ Taken(k, e.request) \in Nat /\ Taken(k, e.request) <= e.read
           /\ Left(k, e) \in Seq(TokenSet) /\ Len(Left(k, e)) = e.read - Taken(k, e.request)
           /\ \A q \in 1..(e.read - Taken(k, e.request)) :
                Left(k, e)[q] = Text(e.request)[Taken(k, e.request) + q]
<1>1. /\ e.request \in Request /\ e.read \in Nat /\ e.arrived \in Nat
      /\ e.read <= e.arrived /\ e.arrived <= Len(Text(e.request))
  BY ConnectionTyped
<1>2. Text(e.request) \in Seq(TokenSet) /\ Len(Text(e.request)) \in Nat
  BY <1>1, TextTyped
<1>3. Taken(k, e.request) \in Nat /\ Taken(k, e.request) <= e.read
  <2>1. Taken(k, e.request) \in Nat
    BY DEF Taken, HeaderLength
  <2>. QED BY <2>1 DEF Follows
<1>. DEFINE t == Text(e.request)
            h == Taken(k, e.request)
            n == e.read
<1>4. n <= Len(t)
  BY <1>1, <1>2
<1>5. Left(k, e) = SubSeq(t, h + 1, n)
  BY DEF Left
<1>. HIDE DEF t, h, n
<1>6. t \in Seq(TokenSet) /\ h \in Nat /\ 0 \in Nat /\ n \in Nat /\ h + 0 <= n /\ n <= Len(t)
  BY <1>1, <1>2, <1>3, <1>4 DEF t, h, n
<1>7. /\ SubSeq(t, h + 1, n) \in Seq(TokenSet) /\ Len(SubSeq(t, h + 1, n)) = n - h
      /\ \A q \in 1..(n - h) : SubSeq(t, h + 1, n)[q] = t[h + q]
  BY <1>6, Piece
<1>. QED BY <1>1, <1>2, <1>3, <1>4, <1>5, <1>7 DEF t, h, n

\* The first line that is left of a request is what was sent as its next one, and leads to
\* the next part of the request or to a refusal that is due.
LEMMA LineFollows ==
    ASSUME accepted \in Nat, NEW k \in ClientType, NEW e \in GoodConnection,
           NEW text, NEW start \in Nat, Goes(k, e, text, start), k.state # "data",
           k.fd # Closed, NEW p \in 1..(Len(text) - 1), text[p] = CR,
           \A q \in 1..(p - 1) : text[q] # CR
    PROVE  LET j == HandleHeader(k, SubSeq(text, 1, p - 1)) IN
           IF j.fd = Closed THEN Refusable(e.request)
           ELSE Goes(j, e, SubSeq(text, p + 2, Len(text)), 0)
<1>. DEFINE r == e.request
            t == Text(r)
            h == Taken(k, r)
            n == e.read
            line == SubSeq(text, 1, p - 1)
            j == HandleHeader(k, line)
<1>1. Follows(k, e) /\ text = Left(k, e)
  BY DEF Goes
<1>2. /\ r \in Request /\ t \in Seq(TokenSet) /\ n \in Nat /\ n <= Len(t) /\ Len(t) \in Nat
      /\ h \in Nat /\ h <= n /\ Left(k, e) \in Seq(TokenSet) /\ Len(Left(k, e)) = n - h
      /\ \A q \in 1..(n - h) : Left(k, e)[q] = t[h + q]
  BY <1>1, FollowsTyped
<1>3. /\ text \in Seq(TokenSet) /\ Len(text) = n - h
      /\ \A q \in 1..(n - h) : text[q] = t[h + q]
  BY <1>1, <1>2
<1>4. /\ r.method \in {"get", "post", "options"} /\ r.target \in Targets /\ r.payload \in Nat
  BY <1>2 DEF Request
<1>5. /\ Len(t) = HeaderLength(r) + r.payload
      /\ t[1] = Token(r.method, r.target) /\ t[2] = CR /\ t[3] = LF
      /\ r.payload = 0 => t[4] = CR /\ t[5] = LF
      /\ r.payload > 0 => /\ t[4] = Token("length", r.payload)
                          /\ t[5] = CR /\ t[6] = LF /\ t[7] = CR /\ t[8] = LF
  BY <1>2, TextShape
<1>6. Token(r.method, r.target) # CR /\ Token("length", r.payload) # CR
  BY <1>4 DEF Token, CR
<1>7. \A m \in {"get", "post", "options", "length"} : \A x : Token(m, x).kind = m /\ Token(m, x).arg = x
  BY DEF Token
<1>8. k.state \in {"new", "headers"} /\ Disconnected(k).fd = Closed
  BY RecordTyped DEF Disconnected, FreshClient
<1>9. /\ k.payload \in {0, r.payload} /\ (n > 0 => ~Torn(t, n))
      /\ (k.state = "new" => k.payload = 0)
      /\ (k.state # "new" => k.method = r.method /\ k.endpoint = <<r.target>>)
  BY <1>1 DEF Follows
<1>10. h = IF k.state = "new" THEN 0 ELSE IF k.payload = 0 THEN 3 ELSE 6
  BY <1>8 DEF Taken
<1>11. p \in Nat /\ p >= 1 /\ p + 1 <= n - h /\ h + p + 1 <= n
  BY <1>2, <1>3
\* What is left after the line.
<1>12. SubSeq(text, p + 2, Len(text)) = SubSeq(t, h + p + 2, n)
  <2>. DEFINE a == p + 1
  <2>1. a \in Nat /\ h + a <= n
    BY <1>2, <1>11
  <2>2. SubSeq(SubSeq(t, h + 1, n), a + 1, n - h) = SubSeq(t, h + a + 1, n)
    <3>. HIDE DEF a, t, h, n
    <3>. QED BY <1>2, <2>1, Piece
  <2>3. text = SubSeq(t, h + 1, n)
    BY <1>1 DEF Left
  <2>4. a + 1 = p + 2 /\ h + a + 1 = h + p + 2
    BY <1>2, <1>11
  <2>. HIDE DEF a, t, h, n
  <2>. QED BY <1>3, <2>2, <2>3, <2>4
\* It is enough that the client is through with the line.
<1>13. ASSUME j.fd # Closed, j.state \in {"headers", "data"},
              Taken(j, r) = h + p + 1, j.method = r.method, j.endpoint = <<r.target>>,
              j.payload \in {0, r.payload},
              j.state = "data" => j.payload = r.payload /\ (r.method = "post" => r.payload > 0)
       PROVE  Goes(j, e, SubSeq(text, p + 2, Len(text)), 0)
  <2>1. Follows(j, e)
    <3>1. Taken(j, r) <= n
      BY <1>11, <1>13
    <3>2. j.state # "new"
      BY <1>13
    <3>. QED BY <1>9, <1>13, <3>1, <3>2 DEF Follows
  <2>2. SubSeq(text, p + 2, Len(text)) = Left(j, e)
    <3>1. (h + p + 1) + 1 = h + p + 2
      BY <1>2, <1>11
    <3>. QED BY <1>12, <1>13, <3>1 DEF Left
  <2>. HIDE DEF j
  <2>. QED BY <2>1, <2>2 DEF Goes
<1>14. CASE k.state = "new"
  <2>1. h = 0 /\ p # 1
    BY <1>3, <1>5, <1>6, <1>10, <1>11, <1>14
  <2>2. p = 2
    <3>1. text[2] = CR
      <4>1. 2 \in 1..(n - h) /\ h + 2 = 2
        BY <1>2, <1>11, <2>1
      <4>. QED BY <1>3, <1>5, <4>1
    <3>2. ~(2 \in 1..(p - 1))
      BY <3>1
    <3>. QED BY <1>11, <2>1, <3>2
  <2>3. line \in Seq(TokenSet) /\ line # <<>> /\ Head(line) = t[1]
    <3>1. line = SubSeq(text, 1, 1)
      BY <2>2
    <3>2. 1 \in 1..Len(text) /\ text[1] = t[1]
      BY <1>2, <1>3, <1>11, <2>1
    <3>3. /\ SubSeq(text, 1, 1) \in Seq(TokenSet)
          /\ Len(SubSeq(text, 1, 1)) = 1 /\ SubSeq(text, 1, 1)[1] = text[1]
      <4>1. \A i \in 1..1 : text[i] \in TokenSet
        BY <1>3, <3>2, ElementOfSeq
      <4>2. /\ SubSeq(text, 1, 1) \in Seq(TokenSet)
            /\ Len(SubSeq(text, 1, 1)) = IF 1 <= 1 THEN 1 - 1 + 1 ELSE 0
            /\ \A i \in 1..(1 - 1 + 1) : SubSeq(text, 1, 1)[i] = text[1 + i - 1]
        BY <4>1, SubSeqProperties
      <4>. QED BY <4>2
    <3>. HIDE DEF line
    <3>4. line \in Seq(TokenSet) /\ Len(line) = 1 /\ line[1] = t[1]
      BY <3>1, <3>2, <3>3
    <3>5. line # <<>>
      <4>1. line = <<>> => Len(line) = 0
        OBVIOUS
      <4>. QED BY <3>4, <4>1
    <3>. QED BY <3>4, <3>5
  <2>4. Head(line).kind = r.method /\ Head(line).arg = r.target
    BY <1>4, <1>5, <1>7, <2>3
  <2>. HIDE DEF line
  <2>5. CASE r.method = "options"
    <3>1. j = Disconnected(k)
      BY <1>14, <2>3, <2>4, <2>5, HeaderNew
    <3>. HIDE DEF j
    <3>2. j.fd = Closed /\ Refusable(r)
      BY <1>8, <2>5, <3>1 DEF Refusable
    <3>. QED BY <3>2 DEF j, line
  <2>6. CASE r.method \in {"get", "post"}
    <3>1. /\ j.state = "headers" /\ j.method = r.method /\ j.endpoint = <<r.target>>
          /\ j.payload = 0 /\ j.fd = k.fd
      BY <1>9, <1>14, <2>3, <2>4, <2>6, HeaderNew
    <3>2. Taken(j, r) = h + p + 1
      <4>. HIDE DEF j
      <4>. QED BY <2>1, <2>2, <3>1 DEF Taken
    <3>. HIDE DEF j
    <3>3. Goes(j, e, SubSeq(text, p + 2, Len(text)), 0)
      BY <1>13, <3>1, <3>2
    <3>. QED BY <3>1, <3>3 DEF j, line
  <2>. QED BY <1>4, <2>5, <2>6
<1>15. CASE k.state = "headers" /\ k.payload = 0 /\ r.payload > 0
  <2>1. h = 3 /\ t[4] = Token("length", r.payload) /\ t[5] = CR
    BY <1>5, <1>10, <1>15
  <2>2. p = 2
    <3>1. p # 1
      BY <1>3, <1>6, <1>11, <2>1
    <3>2. text[2] = CR
      BY <1>3, <1>11, <2>1, <3>1
    <3>3. ~(2 \in 1..(p - 1))
      BY <3>2
    <3>. QED BY <1>11, <3>1, <3>3
  <2>3. line \in Seq(TokenSet) /\ line # <<>> /\ Head(line) = t[4]
    <3>1. line = SubSeq(text, 1, 1)
      BY <2>2
    <3>2. 1 \in 1..Len(text) /\ text[1] = t[4]
      BY <1>2, <1>3, <1>11, <2>1
    <3>3. /\ SubSeq(text, 1, 1) \in Seq(TokenSet)
          /\ Len(SubSeq(text, 1, 1)) = 1 /\ SubSeq(text, 1, 1)[1] = text[1]
      <4>1. \A i \in 1..1 : text[i] \in TokenSet
        BY <1>3, <3>2, ElementOfSeq
      <4>2. /\ SubSeq(text, 1, 1) \in Seq(TokenSet)
            /\ Len(SubSeq(text, 1, 1)) = IF 1 <= 1 THEN 1 - 1 + 1 ELSE 0
            /\ \A i \in 1..(1 - 1 + 1) : SubSeq(text, 1, 1)[i] = text[1 + i - 1]
        BY <4>1, SubSeqProperties
      <4>. QED BY <4>2
    <3>. HIDE DEF line
    <3>4. line \in Seq(TokenSet) /\ Len(line) = 1 /\ line[1] = t[4]
      BY <3>1, <3>2, <3>3
    <3>5. line # <<>>
      <4>1. line = <<>> => Len(line) = 0
        OBVIOUS
      <4>. QED BY <3>4, <4>1
    <3>. QED BY <3>4, <3>5
  <2>4. Head(line).kind = "length" /\ Head(line).arg = r.payload
    BY <1>7, <2>1, <2>3
  <2>. HIDE DEF line
  <2>5. /\ j.state = "headers" /\ j.method = r.method /\ j.endpoint = <<r.target>>
        /\ j.payload = r.payload /\ j.fd = k.fd
    BY <1>9, <1>15, <2>3, <2>4, HeaderAnnounces
  <2>6. Taken(j, r) = h + p + 1
    <3>. HIDE DEF j
    <3>. QED BY <1>4, <1>15, <2>1, <2>2, <2>5 DEF Taken
  <2>. HIDE DEF j
  <2>7. Goes(j, e, SubSeq(text, p + 2, Len(text)), 0)
    BY <1>13, <2>5, <2>6
  <2>. QED BY <2>5, <2>7 DEF j, line
<1>16. CASE k.state = "headers" /\ k.payload = r.payload
  <2>1. t[h + 1] = CR /\ HeaderLength(r) = h + 2
    BY <1>4, <1>5, <1>10, <1>16 DEF HeaderLength
  <2>2. p = 1
    <3>1. text[1] = CR
      BY <1>3, <1>11, <2>1
    <3>2. ~(1 \in 1..(p - 1))
      BY <3>1
    <3>. QED BY <1>11, <3>2
  <2>3. EmptyLine(line)
    BY <2>2, SubSeqEmpty DEF EmptyLine
  <2>. HIDE DEF line
  <2>4. CASE r.method = "post" /\ r.payload = 0
    <3>1. j = Disconnected(k)
      BY <1>9, <1>16, <2>3, <2>4, HeaderEnd
    <3>. HIDE DEF j
    <3>2. j.fd = Closed /\ Refusable(r)
      BY <1>8, <2>4, <3>1 DEF Refusable
    <3>. QED BY <3>2 DEF j, line
  <2>5. CASE ~(r.method = "post" /\ r.payload = 0)
    <3>1. /\ j.state = "data" /\ j.method = r.method /\ j.endpoint = <<r.target>>
          /\ j.payload = r.payload /\ j.fd = k.fd
      BY <1>9, <1>16, <2>3, <2>5, HeaderEnd
    <3>2. Taken(j, r) = h + p + 1
      <4>. HIDE DEF j
      <4>. QED BY <1>2, <2>1, <2>2, <3>1 DEF Taken
    <3>. HIDE DEF j
    <3>3. Goes(j, e, SubSeq(text, p + 2, Len(text)), 0)
      BY <1>4, <1>13, <2>5, <3>1, <3>2
    <3>. QED BY <3>1, <3>3 DEF j, line
  <2>. QED BY <2>4, <2>5
<1>. QED BY <1>4, <1>8, <1>9, <1>14, <1>15, <1>16

SameRequest(j, k) ==
    j.state = k.state /\ j.payload = k.payload /\ j.method = k.method /\ j.endpoint = k.endpoint

\* What is received goes on where the buffer ends, and brings the next end of a line.
LEMMA ReceivedFollows ==
    ASSUME NEW k \in ClientType, NEW e \in GoodConnection, Waits(k, e),
           NEW j \in ClientType, SameRequest(j, k), NEW f \in GoodConnection,
           f.request = e.request, e.read < f.read, ~Torn(Text(e.request), f.read)
    PROVE  Goes(j, f, k.buf \o SubSeq(Text(e.request), e.read + 1, f.read), Len(k.buf))
<1>. DEFINE r == e.request
            t == Text(r)
            h == Taken(k, r)
            m == e.read
            n == f.read
            piece == SubSeq(t, m + 1, n)
<1>1. Follows(k, e) /\ k.buf = Left(k, e)
  BY DEF Waits
<1>2. /\ r \in Request /\ t \in Seq(TokenSet) /\ m \in Nat /\ m <= Len(t) /\ Len(t) \in Nat
      /\ h \in Nat /\ h <= m /\ Left(k, e) \in Seq(TokenSet) /\ Len(Left(k, e)) = m - h
      /\ \A q \in 1..(m - h) : Left(k, e)[q] = t[h + q]
  BY <1>1, FollowsTyped
<1>3. n \in Nat /\ m < n /\ n <= Len(t)
  BY <1>2, ConnectionTyped
<1>4. Taken(j, f.request) = h
  BY DEF SameRequest, Taken
<1>5. Follows(j, f)
  BY <1>1, <1>2, <1>3, <1>4 DEF Follows, SameRequest
<1>6. k.buf \o piece = Left(j, f)
  <2>1. h + 1 \in 1..(Len(t) + 1) /\ m \in ((h + 1) - 1)..Len(t) /\ n \in m..Len(t)
    BY <1>2, <1>3
  <2>2. SubSeq(t, h + 1, m) \o SubSeq(t, m + 1, n) = SubSeq(t, h + 1, n)
    <3>. HIDE DEF t, h, m, n
    <3>. QED BY <1>2, <2>1, ConcatAdjacentSubSeq
  <2>3. k.buf = SubSeq(t, h + 1, m)
    BY <1>1 DEF Left
  <2>4. Left(j, f) = SubSeq(t, h + 1, n)
    BY <1>4 DEF Left
  <2>. QED BY <2>2, <2>3, <2>4
<1>7. ASSUME j.state # "data", NEW p \in 1..Len(k.buf \o piece), (k.buf \o piece)[p] = CR
      PROVE  p > Len(k.buf)
  <2>1. piece \in Seq(TokenSet) /\ k.buf \in Seq(TokenSet) /\ Len(k.buf) \in Nat
    <3>1. n <= Len(t) /\ n \in Nat /\ m \in Nat /\ 0 \in Nat /\ m + 0 <= n
      BY <1>2, <1>3
    <3>2. SubSeq(t, m + 1, n) \in Seq(TokenSet)
      <4>. HIDE DEF t, m, n
      <4>. QED BY <1>2, <3>1, Piece
    <3>. QED BY <3>2, ClientTyped
  <2>. HIDE DEF piece
  <2>2. Len(k.buf \o piece) = Len(k.buf) + Len(piece)
        /\ \A i \in 1..(Len(k.buf) + Len(piece)) :
             (k.buf \o piece)[i] = IF i <= Len(k.buf) THEN k.buf[i] ELSE piece[i - Len(k.buf)]
    BY <2>1, ConcatProperties
  <2>3. ASSUME p <= Len(k.buf) PROVE FALSE
    <3>1. p \in 1..Len(k.buf) /\ k.buf[p] = CR
      BY <1>7, <2>1, <2>2, <2>3
    <3>. QED BY <1>7, <3>1 DEF Waits, SameRequest
  <2>4. p \in Nat
    OBVIOUS
  <2>. QED BY <2>1, <2>3, <2>4
<1>. QED BY <1>5, <1>6, <1>7 DEF Goes

\* What is left when no line is complete waits for more.
LEMMA RestWaits ==
    ASSUME NEW k \in ClientType, NEW e \in GoodConnection, NEW text, NEW start \in Nat,
           Goes(k, e, text, start), e.read > 0,
           \/ k.state = "data"
           \/ \A p \in (start + 1)..(Len(text) - 1) : ~(text[p] = CR /\ text[p + 1] = LF),
           ~(k.state = "data" /\ (k.payload > 0 => Len(text) = k.payload)),
           NEW j \in ClientType, SameRequest(j, k), j.buf = text
    PROVE  Waits(j, e)
<1>. DEFINE r == e.request
            t == Text(r)
            h == Taken(k, r)
            n == e.read
<1>1. Follows(k, e) /\ text = Left(k, e)
  BY DEF Goes
<1>2. /\ r \in Request /\ t \in Seq(TokenSet) /\ n \in Nat /\ n <= Len(t) /\ Len(t) \in Nat
      /\ h \in Nat /\ h <= n /\ Left(k, e) \in Seq(TokenSet) /\ Len(Left(k, e)) = n - h
      /\ \A q \in 1..(n - h) : Left(k, e)[q] = t[h + q]
  BY <1>1, FollowsTyped
<1>3. Follows(j, e) /\ Left(j, e) = Left(k, e)
  BY <1>1 DEF Follows, SameRequest, Taken, Left
<1>4. CASE k.state = "data"
  <2>1. h = HeaderLength(r) /\ k.payload = r.payload /\ r.payload > 0 /\ Len(text) # r.payload
    BY <1>1, <1>4 DEF Taken, Follows
  <2>2. Len(t) = HeaderLength(r) + r.payload /\ r.payload \in Nat
    BY <1>2, TextShape DEF Request
  <2>3. n # Len(t)
    BY <1>1, <1>2, <2>1, <2>2
  <2>. QED BY <1>1, <1>2, <1>3, <1>4, <2>3 DEF Waits, SameRequest
<1>5. CASE k.state # "data"
  <2>1. ASSUME NEW p \in 1..Len(text), text[p] = CR PROVE FALSE
    <3>1. p > start /\ p \in 1..(n - h) /\ h + p \in 1..Len(t)
      BY <1>1, <1>2, <1>5, <2>1 DEF Goes
    <3>2. t[h + p] = CR
      BY <1>1, <1>2, <2>1, <3>1
    <3>3. h + p + 1 <= Len(t) /\ t[h + p + 1] = LF
      <4>. HIDE DEF t, h
      <4>1. \A q \in 1..Len(t) : t[q] = CR => q + 1 <= Len(t) /\ t[q + 1] = LF
        BY <1>2, TextTokens DEF t
      <4>. QED BY <3>1, <3>2, <4>1
    <3>4. CASE h + p = n
      BY <1>1, <1>2, <3>1, <3>2, <3>3, <3>4 DEF Follows, Torn
    <3>5. CASE h + p # n
      <4>1. p + 1 \in 1..(n - h) /\ p \in (start + 1)..(Len(text) - 1)
        BY <1>1, <1>2, <3>1, <3>5
      <4>2. text[p + 1] = LF
        <5>1. h + (p + 1) = h + p + 1
          BY <1>2, <3>1
        <5>. QED BY <1>1, <1>2, <3>3, <4>1, <5>1
      <4>. QED BY <1>5, <2>1, <4>1, <4>2
    <3>. QED BY <3>4, <3>5
  <2>. QED BY <1>1, <1>3, <1>5, <2>1 DEF Waits, SameRequest
<1>. QED BY <1>4, <1>5

\* A payload that is complete is the one that was sent, and the request is not to be refused.
LEMMA BodyFollows ==
    ASSUME NEW k \in ClientType, NEW e \in GoodConnection, NEW text, NEW start \in Nat,
           Goes(k, e, text, start), k.state = "data", k.payload > 0 => Len(text) = k.payload
    PROVE  /\ k.endpoint = <<e.request.target>>
           /\ SubSeq(text, 1, k.payload) = Payload(e.request)
           /\ ~Refusable(e.request)
<1>. DEFINE r == e.request
            t == Text(r)
            h == Taken(k, r)
            n == e.read
<1>1. Follows(k, e) /\ text = Left(k, e)
  BY DEF Goes
<1>2. /\ r \in Request /\ t \in Seq(TokenSet) /\ n \in Nat /\ n <= Len(t) /\ Len(t) \in Nat
      /\ h \in Nat /\ h <= n /\ Left(k, e) \in Seq(TokenSet) /\ Len(Left(k, e)) = n - h
      /\ \A q \in 1..(n - h) : Left(k, e)[q] = t[h + q]
  BY <1>1, FollowsTyped
<1>3. k.method = r.method /\ k.endpoint = <<r.target>> /\ k.payload = r.payload
      /\ (r.method = "post" => r.payload > 0)
  BY <1>1 DEF Follows
<1>4. ~Refusable(r)
  BY <1>3, RecordTyped DEF Refusable
<1>5. h = HeaderLength(r) /\ r.payload \in Nat
      /\ \A i \in 1..r.payload : t[h + i] = Token("byte", r.target)
  BY <1>2, TextShape DEF Taken, Request
<1>6. /\ Payload(r) \in Seq(TokenSet) /\ Len(Payload(r)) = r.payload
      /\ \A i \in 1..r.payload : Payload(r)[i] = Token("byte", r.target)
  <2>1. r.target \in Targets /\ r.payload \in Nat
    BY <1>2 DEF Request
  <2>. HIDE DEF r
  <2>. QED BY <2>1, TokensTyped DEF Payload
<1>7. CASE r.payload = 0
  <2>1. SubSeq(text, 1, r.payload) = <<>>
    BY <1>7, SubSeqEmpty
  <2>2. Payload(r) = <<>>
    BY <1>6, <1>7
  <2>. QED BY <1>3, <1>4, <2>1, <2>2
<1>8. CASE r.payload > 0
  <2>1. Len(text) = r.payload /\ text \in Seq(TokenSet)
    BY <1>1, <1>2, <1>3, <1>8
  <2>2. SubSeq(text, 1, r.payload) = text
    BY <2>1, SubSeqFull
  <2>3. \A i \in 1..Len(text) : text[i] = Payload(r)[i]
    BY <1>1, <1>2, <1>5, <1>6, <2>1
  <2>4. text = Payload(r)
    BY <1>6, <2>1, <2>3, SeqEqual
  <2>. QED BY <1>3, <1>4, <2>2, <2>4
<1>. QED BY <1>5, <1>7, <1>8

\* Only a payload fills the buffer.
LEMMA LimitFollows ==
    ASSUME NEW k \in ClientType, NEW e \in GoodConnection, Waits(k, e), Oversized(k)
    PROVE  e.request.payload > SizeLimit /\ ~Refusable(e.request)
<1>. DEFINE r == e.request
            t == Text(r)
            h == Taken(k, r)
            n == e.read
<1>1. Follows(k, e) /\ k.buf = Left(k, e)
  BY DEF Waits
<1>2. /\ r \in Request /\ t \in Seq(TokenSet) /\ n \in Nat /\ n <= Len(t) /\ Len(t) \in Nat
      /\ h \in Nat /\ h <= n /\ Left(k, e) \in Seq(TokenSet) /\ Len(Left(k, e)) = n - h
      /\ \A q \in 1..(n - h) : Left(k, e)[q] = t[h + q]
  BY <1>1, FollowsTyped
<1>3. n - h >= SizeLimit /\ SizeLimit \in Nat /\ SizeLimit >= 2
  BY <1>1, <1>2, SizeAssumption DEF Oversized
<1>4. /\ Len(t) = HeaderLength(r) + r.payload /\ r.payload \in Nat /\ t[2] = CR
      /\ r.payload = 0 => t[4] = CR
      /\ r.payload > 0 => t[5] = CR /\ t[7] = CR
  BY <1>2, TextShape DEF Request
<1>5. CASE k.state = "data"
  <2>1. h = HeaderLength(r) /\ n < Len(t)
    BY <1>5 DEF Taken, Waits
  <2>2. r.payload > SizeLimit
    BY <1>2, <1>3, <1>4, <2>1 DEF HeaderLength
  <2>3. k.method = r.method
    BY <1>1, <1>5 DEF Follows
  <2>. QED BY <1>3, <2>2, <2>3, RecordTyped DEF Refusable
<1>6. CASE k.state # "data"
  <2>1. \A q \in 1..(n - h) : t[h + q] # CR
    BY <1>1, <1>2, <1>6 DEF Waits
  <2>2. 1 \in 1..(n - h) /\ 2 \in 1..(n - h)
    BY <1>2, <1>3
  <2>3. t[h + 1] # CR /\ t[h + 2] # CR
    BY <2>1, <2>2
  <2>4. h = 0 \/ (h = 3 /\ k.payload = 0) \/ (h = 6 /\ k.payload # 0)
    BY <1>6 DEF Taken
  <2>5. k.payload \in {0, r.payload}
    BY <1>1 DEF Follows
  <2>. QED BY <1>4, <2>3, <2>4, <2>5
<1>. QED BY <1>5, <1>6

\* A client whose connection is not spoiled, between two calls of api_data and within one.
Keeps(k, e) == e.spoiled \/ Waits(k, e)

Scans(k, e, text, start) == e.spoiled \/ (e.read > 0 /\ Goes(k, e, text, start))

\* When such a client has been closed, the rest of its request does not open the slot again.
IsOver(k, e, text) == e.spoiled \/ (k.state = "new" /\ NoMethod(text))

\* Nothing is known of a connection before it is accepted.
UntouchedBefore ==
    \A c \in (accepted + 1)..Len(conns) : conns[c].read = 0 /\ ~conns[c].spoiled

\* What a slot holds that is free does not matter: a client that takes over any of it is spoiled.
BetweenCalls(i) == clients[i].fd # Closed => Keeps(clients[i], conns[clients[i].fd])

WithinCall ==
    IF Client.fd = Closed THEN IsOver(Client, conns[batch.conn], batch.text)
    ELSE Scans(Client, conns[Client.fd], batch.text, batch.start)

OutcomeInv ==
    /\ UntouchedBefore
    /\ \A i \in DOMAIN clients : batch.slot # i => BetweenCalls(i)
    /\ batch # NoBatch => WithinCall

LEMMA OutcomeInit == HttpInit => OutcomeInv
BY DEF HttpInit, OutcomeInv, UntouchedBefore

\* Of a connection, what has been received of which request.
SameText(e, f) == f.request = e.request /\ f.read = e.read /\ f.spoiled = e.spoiled

LEMMA SameTextKeeps ==
    ASSUME NEW k, NEW e, NEW f, SameText(e, f)
    PROVE  /\ Keeps(k, e) => Keeps(k, f)
           /\ \A text, start : Scans(k, e, text, start) => Scans(k, f, text, start)
           /\ \A text : IsOver(k, e, text) => IsOver(k, f, text)
<1>1. Left(k, f) = Left(k, e) /\ (Follows(k, f) <=> Follows(k, e))
  BY DEF SameText, Left, Follows
<1>2. Waits(k, f) <=> Waits(k, e)
  BY <1>1 DEF Waits, SameText
<1>3. \A text, start : Goes(k, f, text, start) <=> Goes(k, e, text, start)
  BY <1>1 DEF Goes
<1>. QED BY <1>2, <1>3 DEF Keeps, Scans, IsOver, SameText

\* A step that changes the connections alone, and nothing of what has been received.
LEMMA SameTextsKeep ==
    ASSUME HttpBounds, OutcomeInv, UNCHANGED <<clients, batch, accepted>>,
           Len(conns') \in Nat, Len(conns) <= Len(conns'),
           \A d \in 1..Len(conns) : SameText(conns[d], conns'[d]),
           \A d \in (Len(conns) + 1)..Len(conns') : conns'[d].read = 0 /\ ~conns'[d].spoiled
    PROVE  OutcomeInv'
<1>1. UntouchedBefore'
  <2>1. ASSUME NEW d \in (accepted + 1)..Len(conns')
        PROVE  conns'[d].read = 0 /\ ~conns'[d].spoiled
    <3>1. CASE d <= Len(conns)
      BY <3>1, AllBounds DEF OutcomeInv, UntouchedBefore, SameText
    <3>2. CASE ~(d <= Len(conns))
      BY <3>2, AllBounds
    <3>. QED BY <3>1, <3>2
  <2>. QED BY <2>1 DEF UntouchedBefore
<1>2. ASSUME NEW i \in DOMAIN clients, clients[i].fd # Closed
      PROVE  SameText(conns[clients[i].fd], conns'[clients[i].fd])
  BY <1>2, HeldConnection
<1>3. ASSUME NEW i \in DOMAIN clients, batch.slot # i PROVE BetweenCalls(i)'
  <2>1. BetweenCalls(i)
    BY <1>3 DEF OutcomeInv
  <2>. QED BY <1>2, <2>1, SameTextKeeps DEF BetweenCalls
<1>4. ASSUME batch # NoBatch PROVE WithinCall'
  <2>1. WithinCall /\ batch.slot \in DOMAIN clients
    BY <1>4, BatchTyped DEF OutcomeInv
  <2>2. Client' = Client /\ batch' = batch
    BY DEF Client
  <2>3. CASE Client.fd = Closed
    <3>1. SameText(conns[batch.conn], conns'[batch.conn])
      BY <1>4, BatchTyped
    <3>2. IsOver(Client, conns'[batch.conn], batch.text)
      BY <2>1, <2>3, <3>1, SameTextKeeps DEF WithinCall
    <3>. QED BY <2>2, <2>3, <3>2 DEF WithinCall
  <2>4. CASE Client.fd # Closed
    <3>1. SameText(conns[Client.fd], conns'[Client.fd])
      BY <1>2, <2>1, <2>4 DEF Client
    <3>2. Scans(Client, conns[Client.fd], batch.text, batch.start)
      BY <2>1, <2>4 DEF WithinCall
    <3>3. Scans(Client, conns'[Client.fd], batch.text, batch.start)
      BY <3>1, <3>2, SameTextKeeps
    <3>. QED BY <2>2, <2>4, <3>3 DEF WithinCall
  <2>. QED BY <2>3, <2>4
<1>. QED BY <1>1, <1>3, <1>4 DEF OutcomeInv

\* A step of a handler: one slot changes, and the connection that has it or had it.
LEMMA SlotKeepsOutcomes ==
    ASSUME HttpBounds, OutcomeInv, accepted' = accepted,
           NEW i \in DOMAIN clients, NEW k \in ClientType, clients' = [clients EXCEPT ![i] = k],
           NEW c \in 1..accepted, Len(conns') = Len(conns),
           \A d \in 1..Len(conns) : d # c => SameText(conns[d], conns'[d]),
           \A l \in DOMAIN clients : l # i => clients[l].fd # c,
           batch = NoBatch \/ batch.slot = i,
           \/ batch' = NoBatch /\ (k.fd # Closed => Keeps(k, conns'[k.fd]))
           \/ /\ batch'.slot = i /\ batch'.conn = c
              /\ IF k.fd = Closed THEN IsOver(k, conns'[c], batch'.text)
                 ELSE Scans(k, conns'[k.fd], batch'.text, batch'.start)
    PROVE  OutcomeInv'
<1>1. /\ DOMAIN clients' = DOMAIN clients /\ clients'[i] = k
      /\ \A l \in DOMAIN clients : l # i => clients'[l] = clients[l]
  BY AllBounds, Replaced
<1>2. UntouchedBefore'
  BY AllBounds DEF OutcomeInv, UntouchedBefore, SameText
<1>4. 0 \notin DOMAIN clients
  BY AllBounds
<1>5. ASSUME NEW l \in DOMAIN clients, batch'.slot # l PROVE BetweenCalls(l)'
  <2>1. CASE l = i
    BY <1>1, <1>5, <2>1 DEF BetweenCalls
  <2>2. CASE l # i
    <3>1. batch.slot # l
      BY <1>4, <2>2 DEF NoBatch
    <3>2. BetweenCalls(l) /\ clients'[l] = clients[l]
      BY <1>1, <2>2, <3>1 DEF OutcomeInv
    <3>3. clients[l].fd # Closed => SameText(conns[clients[l].fd], conns'[clients[l].fd])
      BY <2>2, HeldConnection
    <3>. QED BY <3>2, <3>3, SameTextKeeps DEF BetweenCalls
  <2>. QED BY <2>1, <2>2
<1>6. ASSUME batch' # NoBatch PROVE WithinCall'
  BY <1>1, <1>6 DEF WithinCall, Client
<1>. QED BY <1>1, <1>2, <1>5, <1>6 DEF OutcomeInv

LEMMA EnvironmentKeepsOutcomes == HttpBounds /\ OutcomeInv /\ HttpEnvironment => OutcomeInv'
<1>. SUFFICES ASSUME HttpBounds, OutcomeInv, HttpEnvironment PROVE OutcomeInv'
  OBVIOUS
<1>1. CASE Connect
  <2>. DEFINE f == Connection(Head(script))
  <2>1. Head(script) \in Request
    BY <1>1, HeadTailProperties DEF Connect, HttpBounds, HttpTyped
  <2>2. f \in GoodConnection /\ f.read = 0 /\ ~f.spoiled
    BY <2>1, ConnectionNew DEF Connection
  <2>3. conns' = Append(conns, f) /\ UNCHANGED <<clients, accepted, batch>>
    BY <1>1 DEF Connect
  <2>. HIDE DEF f
  <2>4. /\ Len(conns') = Len(conns) + 1
        /\ \A d \in 1..Len(conns) : conns'[d] = conns[d]
        /\ conns'[Len(conns) + 1] = f
    BY <2>2, <2>3, AllBounds, AppendProperties
  <2>5. \A d \in (Len(conns) + 1)..Len(conns') : conns'[d].read = 0 /\ ~conns'[d].spoiled
    BY <2>2, <2>4, AllBounds
  <2>6. \A d \in 1..Len(conns) : SameText(conns[d], conns'[d])
    BY <2>4 DEF SameText
  <2>. QED BY <2>3, <2>4, <2>5, <2>6, AllBounds, SameTextsKeep
<1>2. ASSUME NEW c \in DOMAIN conns, Arrive(c) \/ HangUp(c) PROVE OutcomeInv'
  <2>1. PICK f : conns' = [conns EXCEPT ![c] = f] /\ SameText(conns[c], f)
    <3>1. conns[c] \in GoodConnection
      BY <1>2, AllBounds, ElementOfSeq
    <3>2. CASE Arrive(c)
      <4>1. PICK n : conns' = [conns EXCEPT ![c].arrived = n]
        BY <3>2 DEF Arrive
      <4>2. SameText(conns[c], [conns[c] EXCEPT !.arrived = n])
        BY <3>1 DEF SameText, GoodConnection, ConnectionType
      <4>. QED BY <4>1, <4>2
    <3>3. CASE HangUp(c)
      <4>1. conns' = [conns EXCEPT ![c].gone = TRUE]
        BY <3>3 DEF HangUp
      <4>2. SameText(conns[c], [conns[c] EXCEPT !.gone = TRUE])
        BY <3>1 DEF SameText, GoodConnection, ConnectionType
      <4>. QED BY <4>1, <4>2
    <3>. QED BY <1>2, <3>2, <3>3
  <2>2. Len(conns') = Len(conns)
    BY <1>2, ArriveKept DEF Kept
  <2>3. \A d \in 1..Len(conns) : SameText(conns[d], conns'[d])
    BY <1>2, <2>1, AllBounds DEF SameText
  <2>4. UNCHANGED <<clients, accepted, batch>>
    BY <1>2 DEF Arrive, HangUp
  <2>. QED BY <2>2, <2>3, <2>4, AllBounds, SameTextsKeep
<1>. QED BY <1>1, <1>2 DEF HttpEnvironment

\* The slot that Accept takes holds nothing of a request, unless the connection is spoiled.
LEMMA AcceptKeepsOutcomes == HttpBounds /\ OutcomeInv /\ Accept => OutcomeInv'
<1>. SUFFICES ASSUME HttpBounds, OutcomeInv, Accept PROVE OutcomeInv'
  OBVIOUS
<1>0. CASE AcceptFails
  BY <1>0 DEF AcceptFails, OutcomeInv, UntouchedBefore, BetweenCalls, WithinCall, Client
<1>. SUFFICES ASSUME TakeClient PROVE OutcomeInv'
  BY <1>0 DEF Accept
<1>. DEFINE c == accepted + 1
<1>1. PICK i \in 1..(Len(clients) + 1) :
        LET slot == IF i \in DOMAIN clients THEN clients[i] ELSE FreshClient IN
        /\ AcceptSlot(i)
        /\ clients' = [j \in DOMAIN clients \cup {i} |->
                         IF j = i THEN [slot EXCEPT !.fd = accepted'] ELSE clients[j]]
        /\ conns' = [conns EXCEPT ![accepted'].spoiled = slot # Disconnected(slot)]
  BY DEF TakeClient
<1>. DEFINE slot == IF i \in DOMAIN clients THEN clients[i] ELSE FreshClient
            k == [slot EXCEPT !.fd = accepted']
            b == slot # Disconnected(slot)
<1>2. batch = NoBatch /\ batch' = NoBatch /\ accepted' = c /\ c \in 1..Len(conns) /\ c \in Nat
      /\ c # Closed
  BY AllBounds DEF Accept, TakeClient, Closed
<1>3. clients' = [j \in DOMAIN clients \cup {i} |-> IF j = i THEN k ELSE clients[j]]
      /\ conns' = [conns EXCEPT ![c].spoiled = b]
  BY <1>1, <1>2
<1>4. i \in DOMAIN clients => clients[i].fd = Closed
  BY <1>1, AllBounds DEF AcceptSlot, FreeSlots
<1>5. slot \in ClientType
  BY AllBounds, SlotBounds DEF FreshClient, ClientType, Closed
<1>6. ~b => slot.payload = 0 /\ slot.buf = <<>> /\ slot.state = "new"
  BY DEF Disconnected, FreshClient
<1>. HIDE DEF slot, b
<1>7. k.fd = c /\ k.state = slot.state /\ k.payload = slot.payload /\ k.buf = slot.buf
  BY <1>2, <1>5, RecordTyped
<1>8. k \in ClientType'
  <2>1. slot = [fd |-> slot.fd, allocated |-> slot.allocated, buf |-> slot.buf,
                payload |-> slot.payload, method |-> slot.method, state |-> slot.state,
                endpoint |-> slot.endpoint]
    BY <1>5, RecordTyped
  <2>2. k = [fd |-> c, allocated |-> slot.allocated, buf |-> slot.buf,
             payload |-> slot.payload, method |-> slot.method, state |-> slot.state,
             endpoint |-> slot.endpoint]
    BY <1>2, <2>1
  <2>3. c \in 0..accepted'
    BY <1>2
  <2>. HIDE DEF k, c
  <2>. QED BY <1>5, <2>2, <2>3 DEF ClientType
<1>. HIDE DEF k
<1>9. /\ DOMAIN clients' = DOMAIN clients \cup {i} /\ clients'[i] = k
      /\ \A j \in DOMAIN clients : j # i => clients'[j] = clients[j]
  BY <1>3, <1>8, AcceptedClients
<1>10. /\ Len(conns') = Len(conns) /\ \A d \in 1..Len(conns) : d # c => conns'[d] = conns[d]
       /\ conns'[c] = [conns[c] EXCEPT !.spoiled = b]
  BY <1>2, <1>3, AllBounds, AcceptKept DEF Kept
<1>11. conns[c] \in GoodConnection /\ conns[c].read = 0
  BY <1>2, AllBounds, ElementOfSeq DEF OutcomeInv, UntouchedBefore
<1>12. conns'[c].read = 0 /\ conns'[c].spoiled = b
  BY <1>10, <1>11 DEF GoodConnection, ConnectionType
<1>13. Keeps(k, conns'[c])
  <2>1. ASSUME ~b PROVE Waits(k, conns'[c])
    <3>1. /\ k.payload = 0 /\ k.buf = <<>> /\ k.state = "new"
          /\ Taken(k, conns'[c].request) = 0
      BY <1>6, <1>7, <2>1 DEF Taken
    <3>2. Left(k, conns'[c]) = <<>>
      BY <1>12, <3>1, SubSeqEmpty DEF Left
    <3>. QED BY <1>12, <3>1, <3>2 DEF Waits, Follows
  <2>. QED BY <1>12, <2>1 DEF Keeps
<1>14. UntouchedBefore'
  <2>1. ASSUME NEW d \in (accepted' + 1)..Len(conns')
        PROVE  conns'[d].read = 0 /\ ~conns'[d].spoiled
    <3>1. d \in 1..Len(conns) /\ d # c /\ d \in (accepted + 1)..Len(conns)
      BY <1>2, <1>10, AllBounds
    <3>2. conns'[d] = conns[d]
      BY <1>10, <3>1
    <3>. QED BY <3>1, <3>2 DEF OutcomeInv, UntouchedBefore
  <2>. QED BY <2>1 DEF UntouchedBefore
<1>15. ASSUME NEW l \in DOMAIN clients' PROVE BetweenCalls(l)'
  <2>1. CASE l = i
    BY <1>2, <1>7, <1>9, <1>13, <2>1 DEF BetweenCalls
  <2>2. CASE l # i
    <3>1. l \in DOMAIN clients /\ clients'[l] = clients[l]
      BY <1>9, <2>2
    <3>2. BetweenCalls(l)
      BY <1>2, <3>1, AllBounds DEF OutcomeInv, NoBatch
    <3>3. clients[l].fd # Closed => conns'[clients[l].fd] = conns[clients[l].fd]
      BY <1>2, <1>10, <3>1, HeldConnection, AllBounds
    <3>. QED BY <3>1, <3>2, <3>3 DEF BetweenCalls
  <2>. QED BY <2>1, <2>2
<1>. QED BY <1>2, <1>14, <1>15 DEF OutcomeInv

\* An outcome is all that a connection gets when its slot is closed.
LEMMA ResultSameText ==
    ASSUME HttpBounds, NEW c \in 1..Len(conns), NEW v, conns' = [conns EXCEPT ![c].result = v]
    PROVE  Len(conns') = Len(conns) /\ \A d \in 1..Len(conns) : SameText(conns[d], conns'[d])
<1>1. \A d \in 1..Len(conns) : conns[d] \in GoodConnection
  BY AllBounds, ElementOfSeq
<1>2. SameText(conns[c], [conns[c] EXCEPT !.result = v])
  BY <1>1 DEF SameText, GoodConnection, ConnectionType
<1>3. \A d \in 1..Len(conns) : SameText(conns[d], conns'[d])
  BY <1>2, AllBounds DEF SameText
<1>. QED BY <1>3, AllBounds

LEMMA OthersHave ==
    ASSUME HttpBounds, SlotInv, NEW i \in DOMAIN clients, clients[i].fd # Closed
    PROVE  \A l \in DOMAIN clients : l # i => clients[l].fd # clients[i].fd
BY DEF SlotInv, SlotUntilOutcome

LEMMA ClosingKeepsOutcomes ==
    ASSUME HttpBounds, SlotInv, OutcomeInv, NEW i \in DOMAIN clients, Drop(i) \/ ReceiveEnd(i)
    PROVE  OutcomeInv'
<1>. DEFINE c == clients[i].fd
            d == Disconnected(clients[i])
<1>1. c # Closed /\ batch = NoBatch /\ batch' = NoBatch /\ accepted' = accepted
  BY DEF Drop, ReceiveEnd
<1>2. c \in 1..accepted /\ c \in 1..Len(conns)
  BY <1>1, HeldConnection
<1>3. d \in ClientType /\ d.fd = Closed
  BY SlotBounds, DisconnectedTyped
<1>4. PICK k \in ClientType : clients' = [clients EXCEPT ![i] = k] /\ k.fd = Closed
  <2>1. CASE Drop(i)
    BY <1>3, <2>1 DEF Drop
  <2>2. CASE ReceiveEnd(i)
    <3>. DEFINE a == Allocated(clients[i])
                k == [d EXCEPT !.allocated = a]
    <3>1. a \in Nat
      BY <2>2, SlotBounds, AllocatedBounds DEF ReceiveEnd
    <3>2. clients' = [clients EXCEPT ![i] = k]
      BY <2>2 DEF ReceiveEnd
    <3>. HIDE DEF a, d
    <3>3. k \in ClientType /\ k.fd = Closed
      BY <1>3, <3>1, Extended
    <3>. HIDE DEF k
    <3>. QED BY <3>2, <3>3
  <2>. QED BY <2>1, <2>2
<1>5. Len(conns') = Len(conns) /\ \A e \in 1..Len(conns) : SameText(conns[e], conns'[e])
  BY <1>2, ResultSameText DEF Drop, ReceiveEnd
<1>6. \A l \in DOMAIN clients : l # i => clients[l].fd # c
  BY <1>1, OthersHave
<1>. HIDE DEF c
<1>. QED BY <1>1, <1>2, <1>4, <1>5, <1>6, SlotKeepsOutcomes

\* What recv makes of the connection.
LEMMA ReceivedConnection ==
    ASSUME HttpBounds, NEW i \in DOMAIN clients, Receive(i)
    PROVE  LET k == clients[i]
               e == conns[k.fd]
               n == e.read + Received(k)
               f == conns'[k.fd]
           IN  /\ k.fd # Closed /\ k.fd \in 1..Len(conns) /\ e \in GoodConnection
               /\ f \in GoodConnection /\ f.request = e.request /\ f.read = n /\ e.read < n
               /\ f.spoiled = (e.spoiled \/ Torn(Text(e.request), n))
               /\ f = [[e EXCEPT !.read = n] EXCEPT !.spoiled = f.spoiled]
               /\ conns' = [conns EXCEPT ![k.fd] = f]
               /\ \A d \in 1..Len(conns) : d # k.fd => conns'[d] = conns[d]
<1>. DEFINE k == clients[i]
            c == k.fd
            e == conns[c]
            n == e.read + Received(k)
            b == e.spoiled \/ Torn(Text(e.request), n)
            g == [e EXCEPT !.read = n]
            f == [g EXCEPT !.spoiled = b]
<1>1. c # Closed /\ conns' = [conns EXCEPT ![c].read = n, ![c].spoiled = @ \/ Torn(Text(e.request), n)]
  BY DEF Receive
<1>2. c \in 1..Len(conns) /\ e \in GoodConnection
  BY <1>1, HeldConnection
<1>3. n \in Nat /\ e.read < n /\ n <= e.arrived
  BY ReceivedCount
<1>4. b \in BOOLEAN
  BY <1>2, ConnectionTyped DEF Torn
<1>5. conns' = [conns EXCEPT ![c] = f]
  BY <1>1, <1>2, AllBounds
<1>. HIDE DEF e, n, c, b
<1>6. g \in GoodConnection /\ g.request = e.request /\ g.read = n
  BY <1>2, <1>3, ConnectionRead DEF GoodConnection, ConnectionType
<1>. HIDE DEF g
<1>7. f \in GoodConnection /\ f.request = e.request /\ f.read = n /\ f.spoiled = b
  BY <1>4, <1>6, ConnectionSpoiled DEF GoodConnection, ConnectionType
<1>. HIDE DEF f
<1>8. conns'[c] = f /\ \A d \in 1..Len(conns) : d # c => conns'[d] = conns[d]
  BY <1>2, <1>5, AllBounds
<1>. QED BY <1>1, <1>2, <1>3, <1>5, <1>7, <1>8 DEF e, n, c, b, g, f

LEMMA ReceiveKeepsOutcomes ==
    ASSUME HttpBounds, SlotInv, OutcomeInv, NEW i \in DOMAIN clients, Receive(i)
    PROVE  OutcomeInv'
<1>. DEFINE k == clients[i]
            c == k.fd
            e == conns[c]
            n == e.read + Received(k)
            f == conns'[c]
            a == Allocated(k)
            j == [k EXCEPT !.allocated = a]
            t == Text(e.request)
            piece == SubSeq(t, e.read + 1, n)
            whole == k.buf \o piece
<1>1. /\ c # Closed /\ c \in 1..Len(conns) /\ e \in GoodConnection
      /\ f \in GoodConnection /\ f.request = e.request /\ f.read = n /\ e.read < n
      /\ f.spoiled = (e.spoiled \/ Torn(Text(e.request), n))
      /\ \A d \in 1..Len(conns) : d # c => conns'[d] = conns[d]
  BY ReceivedConnection
<1>2. batch = NoBatch /\ accepted' = accepted /\ clients' = [clients EXCEPT ![i] = j]
      /\ batch' = [slot |-> i, conn |-> c, start |-> Len(k.buf), text |-> whole]
  BY DEF Receive
<1>3. k \in ClientType /\ k.buf \in Seq(TokenSet) /\ Len(k.buf) \in Nat
  BY SlotBounds, ClientTyped
<1>4. j \in ClientType /\ j.fd = c /\ SameRequest(j, k)
  <2>1. a \in Nat
    BY <1>3, SlotBounds, AllocatedBounds DEF Receive
  <2>. HIDE DEF a, k
  <2>2. j \in ClientType /\ j.fd = k.fd
    BY <1>3, <2>1, Extended
  <2>3. SameRequest(j, k)
    BY <1>3, RecordTyped DEF SameRequest
  <2>. QED BY <2>2, <2>3
<1>5. Keeps(k, e)
  <2>1. batch.slot # i
    BY <1>2, AllBounds DEF NoBatch
  <2>2. BetweenCalls(i)
    BY <2>1 DEF OutcomeInv
  <2>. QED BY <1>1, <2>2 DEF BetweenCalls
<1>6. /\ e.request \in Request /\ t \in Seq(TokenSet) /\ e.read \in Nat /\ n \in Nat
      /\ n <= Len(t) /\ Len(t) \in Nat
  <2>1. f.read \in Nat /\ f.arrived \in Nat /\ f.read <= f.arrived /\ f.arrived <= Len(Text(f.request))
    BY <1>1, ConnectionTyped
  <2>2. e.request \in Request /\ e.read \in Nat
    BY <1>1, ConnectionTyped
  <2>3. t \in Seq(TokenSet) /\ Len(t) \in Nat
    BY <2>2, TextTyped
  <2>. QED BY <1>1, <2>1, <2>2, <2>3
<1>. HIDE DEF j
<1>8. Scans(j, f, whole, Len(k.buf))
  <2>1. f.read > 0
    BY <1>1, <1>6
  <2>3. ASSUME ~f.spoiled PROVE Goes(j, f, whole, Len(k.buf))
    <3>1. Waits(k, e) /\ ~Torn(Text(e.request), f.read)
      BY <1>1, <1>5, <2>3 DEF Keeps
    <3>. HIDE DEF k, f, e
    <3>2. Goes(j, f, k.buf \o SubSeq(Text(e.request), e.read + 1, f.read), Len(k.buf))
      BY <1>1, <1>3, <1>4, <3>1, ReceivedFollows
    <3>. QED BY <1>1, <3>2
  <2>. HIDE DEF whole, f
  <2>. QED BY <2>1, <2>3 DEF Scans
<1>9. \A l \in DOMAIN clients : l # i => clients[l].fd # c
  BY <1>1, OthersHave
<1>10. c \in 1..accepted
  BY <1>1, HeldConnection
<1>11. Len(conns') = Len(conns) /\ \A d \in 1..Len(conns) : d # c => SameText(conns[d], conns'[d])
  <2>1. Len(conns') = Len(conns)
    BY ReceiveEffect DEF Kept
  <2>. QED BY <1>1, <2>1 DEF SameText
<1>12. /\ batch'.slot = i /\ batch'.conn = c
       /\ batch'.text = whole /\ batch'.start = Len(k.buf)
  <2>. HIDE DEF whole, c, k
  <2>. QED BY <1>2
<1>13. j.fd # Closed /\ Scans(j, conns'[j.fd], batch'.text, batch'.start)
  <2>. HIDE DEF whole, k
  <2>. QED BY <1>1, <1>4, <1>8, <1>12
<1>15. batch = NoBatch \/ batch.slot = i
  BY <1>2
<1>16. clients' = [clients EXCEPT ![i] = j] /\ accepted' = accepted
  BY <1>2 DEF j
<1>. HIDE DEF c, whole, k, e, f, n, t, piece
<1>17. PICK x \in ClientType : x = j
  BY <1>4
<1>18. PICK y \in 1..accepted : y = c
  BY <1>10
<1>19. /\ clients' = [clients EXCEPT ![i] = x] /\ accepted' = accepted
       /\ Len(conns') = Len(conns)
       /\ \A d \in 1..Len(conns) : d # y => SameText(conns[d], conns'[d])
       /\ \A l \in DOMAIN clients : l # i => clients[l].fd # y
  BY <1>9, <1>11, <1>16, <1>17, <1>18 DEF k
<1>20. /\ batch'.slot = i /\ batch'.conn = y
       /\ x.fd # Closed /\ Scans(x, conns'[x.fd], batch'.text, batch'.start)
  BY <1>12, <1>13, <1>17, <1>18
<1>21. \/ batch' = NoBatch /\ (x.fd # Closed => Keeps(x, conns'[x.fd]))
       \/ /\ batch'.slot = i /\ batch'.conn = y
          /\ IF x.fd = Closed THEN IsOver(x, conns'[y], batch'.text)
             ELSE Scans(x, conns'[x.fd], batch'.text, batch'.start)
  BY <1>20
<1>. HIDE DEF a, j
<1>. QED BY <1>15, <1>19, <1>21, SlotKeepsOutcomes

\* The first line of what is gone through, and what it makes of the client.
LEMMA LineTaken ==
    ASSUME HttpBounds, Line
    PROVE  \E p \in LineEnds :
              LET line == SubSeq(batch.text, 1, p - 1)
                  k == HandleHeader(Client, line)
              IN  /\ \A q \in LineEnds : p <= q
                  /\ p \in 1..(Len(batch.text) - 1) /\ p > batch.start
                  /\ batch.text[p] = CR /\ line \in Seq(TokenSet)
                  /\ Client.state # "data" /\ k \in ClientType
                  /\ clients' = [clients EXCEPT ![batch.slot] = k]
                  /\ conns' = IF Client.fd # Closed /\ k.fd = Closed
                              THEN [conns EXCEPT ![batch.conn].result = "refused"] ELSE conns
                  /\ batch'.slot = batch.slot /\ batch'.conn = batch.conn
                  /\ batch'.start = 0 /\ batch'.text = RestAfter(p, k)
<1>1. batch # NoBatch /\ Client.state # "data"
  BY DEF Line, NoMoreLines
<1>2. PICK p \in LineEnds :
        /\ \A q \in LineEnds : p <= q
        /\ LET k == HandleHeader(Client, SubSeq(batch.text, 1, p - 1)) IN
            /\ clients' = [clients EXCEPT ![batch.slot] = k]
            /\ conns' = IF Client.fd # Closed /\ k.fd = Closed
                        THEN [conns EXCEPT ![batch.conn].result = "refused"] ELSE conns
            /\ batch' = [batch EXCEPT !.text = RestAfter(p, k), !.start = 0]
  BY DEF Line
<1>. DEFINE line == SubSeq(batch.text, 1, p - 1)
            k == HandleHeader(Client, line)
            rest == RestAfter(p, k)
<1>3. batch.start \in Nat /\ batch.text \in Seq(TokenSet) /\ Len(batch.text) \in Nat
  BY <1>1, BatchTyped DEF BatchType
<1>4. p \in 1..(Len(batch.text) - 1) /\ p > batch.start /\ batch.text[p] = CR
  BY <1>2, <1>3 DEF LineEnds
<1>5. line \in Seq(TokenSet)
  <2>1. \A q \in 1..(p - 1) : batch.text[q] \in TokenSet
    BY <1>3, <1>4, ElementOfSeq
  <2>. QED BY <1>4, <2>1, SubSeqProperties
<1>6. k \in ClientType
  <2>. HIDE DEF line
  <2>. QED BY <1>1, <1>5, BatchTyped, HandleHeaderTyped DEF HeaderResult
<1>. HIDE DEF k, rest
<1>7. /\ batch'.slot = batch.slot /\ batch'.conn = batch.conn
      /\ batch'.start = 0 /\ batch'.text = rest
  <2>1. batch = [slot |-> batch.slot, conn |-> batch.conn, text |-> batch.text,
                 start |-> batch.start]
    BY <1>1, BatchTyped DEF BatchType
  <2>. DEFINE b1 == [batch EXCEPT !.text = rest]
  <2>2. batch' = [b1 EXCEPT !.start = 0]
    BY <1>2 DEF rest, k
  <2>3. b1 = [slot |-> batch.slot, conn |-> batch.conn, text |-> rest, start |-> batch.start]
    BY <2>1
  <2>. HIDE DEF b1
  <2>. QED BY <2>2, <2>3
<1>8. /\ clients' = [clients EXCEPT ![batch.slot] = k]
      /\ conns' = IF Client.fd # Closed /\ k.fd = Closed
                  THEN [conns EXCEPT ![batch.conn].result = "refused"] ELSE conns
  BY <1>2 DEF k
<1>. HIDE DEF line
<1>9. /\ \A q \in LineEnds : p <= q
      /\ p \in 1..(Len(batch.text) - 1) /\ p > batch.start
      /\ batch.text[p] = CR /\ line \in Seq(TokenSet)
      /\ Client.state # "data" /\ k \in ClientType
      /\ clients' = [clients EXCEPT ![batch.slot] = k]
      /\ conns' = IF Client.fd # Closed /\ k.fd = Closed
                  THEN [conns EXCEPT ![batch.conn].result = "refused"] ELSE conns
      /\ batch'.slot = batch.slot /\ batch'.conn = batch.conn
      /\ batch'.start = 0 /\ batch'.text = rest
  BY <1>1, <1>2, <1>4, <1>5, <1>6, <1>7, <1>8
<1>. QED BY <1>9 DEF line, k, rest

\* The connection whose buffer is being gone through is that of the client, if it is open.
LEMMA BatchOutcome ==
    ASSUME HttpBounds, SlotInv, OutcomeInv, batch # NoBatch, Client.fd # Closed
    PROVE  /\ Client.fd = batch.conn /\ conns[batch.conn] \in GoodConnection
           /\ conns[batch.conn].result = "none"
           /\ Scans(Client, conns[batch.conn], batch.text, batch.start)
           /\ \A l \in DOMAIN clients : l # batch.slot => clients[l].fd # batch.conn
<1>1. batch.slot \in DOMAIN clients /\ batch.conn \in 1..accepted /\ batch.conn \in 1..Len(conns)
  BY BatchTyped
<1>2. Client.fd = batch.conn
  BY DEF SlotInv, BatchHasSlot
<1>3. conns[batch.conn].result = "none"
  BY <1>1, <1>2 DEF SlotInv, SlotUntilOutcome, Client
<1>4. Scans(Client, conns[batch.conn], batch.text, batch.start)
  BY <1>2 DEF OutcomeInv, WithinCall
<1>5. \A l \in DOMAIN clients : l # batch.slot => clients[l].fd # batch.conn
  BY <1>1, <1>2, OthersHave DEF Client
<1>6. conns[batch.conn] \in GoodConnection
  BY <1>1, BatchTyped, ElementOfSeq
<1>. QED BY <1>2, <1>3, <1>4, <1>5, <1>6

\* No slot but that of the batch has its connection, even if the slot has been closed.
LEMMA BatchAlone ==
    ASSUME HttpBounds, SlotInv, batch # NoBatch
    PROVE  \A l \in DOMAIN clients : l # batch.slot => clients[l].fd # batch.conn
<1>1. batch.slot \in DOMAIN clients /\ batch.conn \in 1..accepted
  BY BatchTyped
<1>2. CASE Client.fd = batch.conn
  BY <1>1, <1>2 DEF SlotInv, SlotUntilOutcome, Client, Closed
<1>3. CASE conns[batch.conn].result # "none"
  BY <1>1, <1>3 DEF SlotInv, SlotUntilOutcome
<1>. QED BY <1>2, <1>3 DEF SlotInv, BatchHasSlot

\* A first line that closes the client is due to be refused; another one is followed by what
\* was sent next.
LEMMA LineScans ==
    ASSUME HttpBounds, SlotInv, OutcomeInv, batch # NoBatch, NEW p \in LineEnds,
           \A q \in LineEnds : p <= q, p \in 1..(Len(batch.text) - 1), p > batch.start,
           batch.text[p] = CR, SubSeq(batch.text, 1, p - 1) \in Seq(TokenSet),
           Client.state # "data"
    PROVE  LET k == HandleHeader(Client, SubSeq(batch.text, 1, p - 1))
               rest == RestAfter(p, k)
               e == conns[batch.conn]
           IN  /\ IF k.fd = Closed THEN IsOver(k, e, rest) ELSE Scans(k, e, rest, 0)
               /\ Client.fd # Closed /\ k.fd = Closed => e.spoiled \/ Refusable(e.request)
<1>. DEFINE text == batch.text
            line == SubSeq(text, 1, p - 1)
            k == HandleHeader(Client, line)
            rest == RestAfter(p, k)
            e == conns[batch.conn]
            start == batch.start
<1>1. /\ text \in Seq(TokenSet) /\ Len(text) \in Nat /\ start \in Nat
      /\ Client \in ClientType /\ accepted \in Nat
  BY BatchTyped DEF BatchType
\* The token that names the method is not in what is kept.
<1>2. ASSUME \A i \in 2..Len(text) : ~IsMethod(text[i]) PROVE NoMethod(rest)
  <2>1. ~IsMethod(NUL)
    BY DEF IsMethod, NUL, Token
  <2>2. \A q \in 1..Len(rest) : \E i \in 2..Len(text) : rest[q] \in {text[i], NUL}
    <3>. HIDE DEF k
    <3>. QED BY RestTyped
  <2>. HIDE DEF rest
  <2>. QED BY <1>2, <2>1, <2>2 DEF NoMethod
<1>4. Disconnected(Client).state = "new" /\ Disconnected(Client).fd = Closed
  BY DEF Disconnected, FreshClient
<1>3. batch.conn \in 1..Len(conns)
  BY BatchTyped
<1>5. CASE Client.fd = Closed
  <2>0. CASE e.spoiled
    <3>1. k.fd = Closed
      <4>1. HeaderResult(Client, k)
        <5>. HIDE DEF line
        <5>. QED BY <1>1, HandleHeaderTyped DEF line
      <4>. QED BY <1>5, <4>1 DEF HeaderResult
    <3>. QED BY <1>5, <2>0, <3>1 DEF IsOver
  <2>. SUFFICES ASSUME ~e.spoiled
                PROVE  k.fd = Closed /\ IsOver(k, e, rest)
    BY <1>5, <2>0
  <2>1. Client.state = "new" /\ NoMethod(text)
    BY <1>5 DEF OutcomeInv, WithinCall, IsOver
  <2>2. line # <<>> => Head(line) = text[1]
    <3>1. ASSUME line # <<>> PROVE Head(line) = text[1]
      <4>1. p # 1
        BY <3>1, SubSeqEmpty
      <4>2. p - 1 \in 1..Len(text) /\ 1 \in 1..(p - 1)
        BY <1>1, <4>1
      <4>3. Head(SubSeq(text, 1, p - 1)) = text[1]
        <5>1. 1 \in 1..Len(text) /\ p - 1 \in 1..Len(text)
          BY <1>1, <4>2
        <5>. HIDE DEF text
        <5>. QED BY <1>1, <4>2, <5>1, HeadTailOfSubSeq
      <4>. QED BY <4>3
    <3>. QED BY <3>1
  <2>3. ~(line # <<>> /\ Head(line).kind \in {"get", "post"})
    BY <1>1, <2>1, <2>2 DEF NoMethod, IsMethod
  <2>4. k = Disconnected(Client)
    <3>. HIDE DEF line
    <3>. QED BY <1>1, <2>1, <2>3, HeaderNew DEF line
  <2>5. NoMethod(rest)
    BY <1>2, <2>1, <1>1 DEF NoMethod
  <2>. HIDE DEF k, rest
  <2>. QED BY <1>4, <2>4, <2>5 DEF IsOver
<1>6. CASE Client.fd # Closed
  <2>1. e \in GoodConnection /\ Scans(Client, e, text, start)
    BY <1>6, BatchOutcome
  <2>2. /\ k.fd = Closed => k.state = "new"
        /\ k.fd # Closed => k.state # "new"
    <3>. HIDE DEF line
    <3>. QED BY <1>1, <1>6, HeaderMoves DEF line
  <2>3. ASSUME ~e.spoiled
        PROVE  IF k.fd = Closed THEN Refusable(e.request) ELSE Goes(k, e, rest, 0)
    <3>1. e.read > 0 /\ Goes(Client, e, text, start)
      BY <2>1, <2>3 DEF Scans
    <3>2. ASSUME NEW q \in 1..(p - 1), text[q] = CR PROVE FALSE
      <4>1. Follows(Client, e) /\ text = Left(Client, e)
        BY <3>1 DEF Goes
      <4>2. q \in 1..Len(text) /\ q > start /\ q + 1 \in 1..Len(text)
        BY <1>1, <3>1, <3>2 DEF Goes
      <4>. DEFINE t == Text(e.request)
                  h == Taken(Client, e.request)
                  n == e.read
      <4>3. /\ e.request \in Request /\ n \in Nat /\ n <= Len(t) /\ Len(t) \in Nat
            /\ h \in Nat /\ h <= n /\ Len(text) = n - h
            /\ \A i \in 1..(n - h) : text[i] = t[h + i]
        BY <1>1, <2>1, <4>1, FollowsTyped
      <4>4. h + q \in 1..Len(t) /\ t[h + q] = CR
        <5>1. q \in 1..(n - h)
          BY <4>2, <4>3
        <5>2. text[q] = t[h + q]
          BY <4>3, <5>1
        <5>3. h + q \in 1..Len(t)
          <6>. HIDE DEF t, h, n
          <6>. QED BY <4>3, <5>1
        <5>. QED BY <3>2, <5>2, <5>3
      <4>5. t[h + q + 1] = LF
        BY <4>3, <4>4, TextTokens
      <4>6. text[q + 1] = LF
        <5>1. h + (q + 1) = h + q + 1
          BY <4>3
        <5>. QED BY <4>2, <4>3, <4>5, <5>1
      <4>7. q \in LineEnds
        BY <1>1, <3>2, <4>2, <4>6 DEF LineEnds
      <4>. QED BY <4>7
    <3>3. k.fd # Closed => rest = SubSeq(text, p + 2, Len(text))
      BY DEF RestAfter
    <3>4. IF k.fd = Closed THEN Refusable(e.request)
          ELSE Goes(k, e, SubSeq(text, p + 2, Len(text)), 0)
      <4>. HIDE DEF e, rest
      <4>. QED BY <1>1, <1>6, <2>1, <3>1, <3>2, LineFollows
    <3>. HIDE DEF e, k, rest
    <3>. QED BY <3>3, <3>4
  <2>4. ASSUME ~e.spoiled PROVE e.read > 0 /\ NoMethod(rest)
    <3>1. e.read > 0 /\ Follows(Client, e) /\ text = Left(Client, e)
      BY <2>1, <2>4 DEF Scans, Goes
    <3>2. ASSUME NEW q \in 2..Len(text) PROVE ~IsMethod(text[q])
      <4>. DEFINE t == Text(e.request)
                  h == Taken(Client, e.request)
                  n == e.read
      <4>1. /\ e.request \in Request /\ n \in Nat /\ n <= Len(t) /\ Len(t) \in Nat
            /\ h \in Nat /\ h <= n /\ Len(text) = n - h
            /\ \A i \in 1..(n - h) : text[i] = t[h + i]
        BY <1>1, <2>1, <3>1, FollowsTyped
      <4>2. q \in 1..(n - h) /\ h + q \in 1..Len(t) /\ h + q # 1
        <5>. HIDE DEF t, h, n
        <5>. QED BY <4>1
      <4>3. text[q] = t[h + q]
        BY <4>1, <4>2
      <4>. QED BY <4>1, <4>2, <4>3, TextTokens
    <3>. QED BY <1>2, <3>1, <3>2
  <2>. HIDE DEF k, e, rest
  <2>5. k.fd # Closed => Scans(k, e, rest, 0)
    BY <2>3, <2>4 DEF Scans
  <2>6. k.fd = Closed => IsOver(k, e, rest)
    BY <2>2, <2>4 DEF IsOver
  <2>. QED BY <2>3, <2>5, <2>6 DEF k, e, rest
<1>. QED BY <1>5, <1>6

LEMMA LineKeepsOutcomes == HttpBounds /\ SlotInv /\ OutcomeInv /\ Line => OutcomeInv'
<1>. SUFFICES ASSUME HttpBounds, SlotInv, OutcomeInv, Line PROVE OutcomeInv'
  OBVIOUS
<1>1. batch # NoBatch /\ accepted' = accepted
  BY DEF Line
<1>2. /\ batch.slot \in DOMAIN clients /\ batch.conn \in 1..accepted
      /\ batch.conn \in 1..Len(conns)
  BY <1>1, BatchTyped
<1>3. PICK p \in LineEnds :
        LET line == SubSeq(batch.text, 1, p - 1)
            k == HandleHeader(Client, line)
        IN  /\ \A q \in LineEnds : p <= q
            /\ p \in 1..(Len(batch.text) - 1) /\ p > batch.start
            /\ batch.text[p] = CR /\ line \in Seq(TokenSet)
            /\ Client.state # "data" /\ k \in ClientType
            /\ clients' = [clients EXCEPT ![batch.slot] = k]
            /\ conns' = IF Client.fd # Closed /\ k.fd = Closed
                        THEN [conns EXCEPT ![batch.conn].result = "refused"] ELSE conns
            /\ batch'.slot = batch.slot /\ batch'.conn = batch.conn
            /\ batch'.start = 0 /\ batch'.text = RestAfter(p, k)
  BY LineTaken
<1>. DEFINE h == HandleHeader(Client, SubSeq(batch.text, 1, p - 1))
            rest == RestAfter(p, h)
<1>4. IF h.fd = Closed THEN IsOver(h, conns[batch.conn], rest)
      ELSE Scans(h, conns[batch.conn], rest, 0)
  BY <1>1, <1>3, LineScans
<1>5. PICK i \in DOMAIN clients, c \in 1..accepted : i = batch.slot /\ c = batch.conn
  BY <1>2
<1>6. PICK k \in ClientType : k = h
  BY <1>3
<1>7. Len(conns') = Len(conns) /\ \A d \in 1..Len(conns) : SameText(conns[d], conns'[d])
  <2>1. CASE conns' = [conns EXCEPT ![batch.conn].result = "refused"]
    BY <1>2, <2>1, ResultSameText
  <2>2. CASE conns' = conns
    BY <2>2 DEF SameText
  <2>. QED BY <1>3, <2>1, <2>2
<1>8. \A l \in DOMAIN clients : l # i => clients[l].fd # c
  BY <1>1, <1>5, BatchAlone
<1>9. k.fd # Closed => k.fd = c
  <2>1. h.fd \in {Client.fd, Closed}
    <3>1. HeaderResult(Client, HandleHeader(Client, SubSeq(batch.text, 1, p - 1)))
      BY <1>1, <1>3, BatchTyped, HandleHeaderTyped
    <3>. QED BY <3>1 DEF HeaderResult
  <2>2. Client.fd # Closed => Client.fd = batch.conn
    BY <1>1, BatchOutcome
  <2>. QED BY <1>5, <1>6, <2>1, <2>2
<1>10. IF k.fd = Closed THEN IsOver(k, conns'[c], batch'.text)
       ELSE Scans(k, conns'[k.fd], batch'.text, batch'.start)
  <2>1. batch'.text = rest /\ batch'.start = 0
    BY <1>3
  <2>2. SameText(conns[c], conns'[c])
    BY <1>2, <1>5, <1>7
  <2>3. IF k.fd = Closed THEN IsOver(k, conns[c], rest) ELSE Scans(k, conns[c], rest, 0)
    BY <1>4, <1>5, <1>6
  <2>. HIDE DEF rest, h
  <2>4. IF k.fd = Closed THEN IsOver(k, conns'[c], rest) ELSE Scans(k, conns'[c], rest, 0)
    BY <2>2, <2>3, SameTextKeeps
  <2>. QED BY <1>9, <2>1, <2>4
<1>11. /\ clients' = [clients EXCEPT ![i] = k] /\ batch'.slot = i /\ batch'.conn = c
       /\ accepted' = accepted /\ Len(conns') = Len(conns)
       /\ \A d \in 1..Len(conns) : d # c => SameText(conns[d], conns'[d])
       /\ batch = NoBatch \/ batch.slot = i
  BY <1>1, <1>3, <1>5, <1>6, <1>7
<1>12. \/ batch' = NoBatch /\ (k.fd # Closed => Keeps(k, conns'[k.fd]))
       \/ /\ batch'.slot = i /\ batch'.conn = c
          /\ IF k.fd = Closed THEN IsOver(k, conns'[c], batch'.text)
             ELSE Scans(k, conns'[k.fd], batch'.text, batch'.start)
  BY <1>10, <1>11
<1>. HIDE DEF h, rest
<1>. QED BY <1>8, <1>11, <1>12, SlotKeepsOutcomes

\* A client whose payload is gone through is open, and its answer is not sent only if it hung
\* up, unless its connection is spoiled.
LEMMA BodyOpen ==
    ASSUME HttpBounds, SlotInv, OutcomeInv, Body, ~conns[batch.conn].spoiled
    PROVE  /\ batch # NoBatch /\ Client.fd = batch.conn /\ Client.fd # Closed
           /\ conns[batch.conn].gone \/ up' = TRUE
<1>1. batch # NoBatch /\ Client.state = "data"
  BY DEF Body
<1>2. Client.fd # Closed
  BY <1>1 DEF OutcomeInv, WithinCall, IsOver
<1>3. Client.fd = batch.conn
  BY <1>1, <1>2, BatchOutcome
<1>. QED BY <1>1, <1>2, <1>3 DEF Body, AnswerFails

LEMMA BodyKeepsOutcomes == HttpBounds /\ SlotInv /\ OutcomeInv /\ Body => OutcomeInv'
<1>. SUFFICES ASSUME HttpBounds, SlotInv, OutcomeInv, Body PROVE OutcomeInv'
  OBVIOUS
<1>1. /\ batch # NoBatch /\ accepted' = accepted /\ batch' = NoBatch
      /\ clients' = [clients EXCEPT ![batch.slot] = Disconnected(Client)]
  BY BodyEffect DEF Body
<1>2. /\ batch.slot \in DOMAIN clients /\ batch.conn \in 1..accepted
      /\ batch.conn \in 1..Len(conns) /\ Client \in ClientType /\ accepted \in Nat
  BY <1>1, BatchTyped
<1>3. Disconnected(Client) \in ClientType /\ Disconnected(Client).fd = Closed
  BY <1>2, DisconnectedTyped
<1>4. PICK i \in DOMAIN clients, c \in 1..accepted : i = batch.slot /\ c = batch.conn
  BY <1>2
<1>5. PICK k \in ClientType : k = Disconnected(Client)
  BY <1>3
<1>6. Len(conns') = Len(conns) /\ \A d \in 1..Len(conns) : SameText(conns[d], conns'[d])
  BY <1>2, ResultSameText DEF Body
<1>7. \A l \in DOMAIN clients : l # i => clients[l].fd # c
  BY <1>1, <1>4, BatchAlone
<1>8. /\ clients' = [clients EXCEPT ![i] = k] /\ k.fd = Closed
      /\ accepted' = accepted /\ batch' = NoBatch /\ Len(conns') = Len(conns)
      /\ \A d \in 1..Len(conns) : d # c => SameText(conns[d], conns'[d])
      /\ batch = NoBatch \/ batch.slot = i
  BY <1>1, <1>3, <1>4, <1>5, <1>6
<1>. QED BY <1>7, <1>8, SlotKeepsOutcomes

LEMMA KeepRestKeepsOutcomes == HttpBounds /\ SlotInv /\ OutcomeInv /\ KeepRest => OutcomeInv'
<1>. SUFFICES ASSUME HttpBounds, SlotInv, OutcomeInv, KeepRest PROVE OutcomeInv'
  OBVIOUS
<1>. DEFINE text == batch.text
            e == conns[batch.conn]
            j == [Client EXCEPT !.buf = text]
<1>1. /\ batch # NoBatch /\ accepted' = accepted /\ batch' = NoBatch /\ conns' = conns
      /\ NoMoreLines /\ ~(Client.state = "data" /\ PayloadComplete(Client))
      /\ clients' = [clients EXCEPT ![batch.slot].buf = text]
  BY DEF KeepRest
<1>2. /\ batch.slot \in DOMAIN clients /\ batch.conn \in 1..accepted
      /\ batch.conn \in 1..Len(conns) /\ Client \in ClientType /\ accepted \in Nat
      /\ text \in Seq(TokenSet) /\ Len(text) \in Nat /\ batch.start \in Nat
  BY <1>1, BatchTyped DEF BatchType
<1>3. clients' = [clients EXCEPT ![batch.slot] = j]
  BY <1>1, <1>2, AllBounds DEF Client
<1>4. j \in ClientType /\ j.fd = Client.fd /\ SameRequest(j, Client) /\ j.buf = text
  <2>1. j = [fd |-> Client.fd, allocated |-> Client.allocated, buf |-> text,
             payload |-> Client.payload, method |-> Client.method, state |-> Client.state,
             endpoint |-> Client.endpoint]
    BY <1>2, RecordTyped
  <2>2. j \in ClientType
    <3>. HIDE DEF j, text
    <3>. QED BY <1>2, <2>1 DEF ClientType
  <2>. HIDE DEF j, text
  <2>. QED BY <2>1, <2>2 DEF SameRequest
<1>. HIDE DEF j
<1>7. ASSUME j.fd # Closed PROVE j.fd = batch.conn /\ Keeps(j, e)
  <2>1. /\ Client.fd = batch.conn /\ e \in GoodConnection
        /\ Scans(Client, e, text, batch.start)
    BY <1>1, <1>4, <1>7, BatchOutcome
  <2>4. ASSUME ~e.spoiled PROVE Waits(j, e)
    <3>1. e.read > 0 /\ Goes(Client, e, text, batch.start)
      BY <2>1, <2>4 DEF Scans
    <3>2. \/ Client.state = "data"
          \/ \A p \in (batch.start + 1)..(Len(text) - 1) : ~(text[p] = CR /\ text[p + 1] = LF)
      BY <1>1 DEF NoMoreLines, LineEnds
    <3>3. ~(Client.state = "data" /\ (Client.payload > 0 => Len(text) = Client.payload))
      BY <1>1 DEF PayloadComplete
    <3>4. PICK k \in ClientType : k = Client
      BY <1>2
    <3>5. PICK s \in Nat : s = batch.start
      BY <1>2
    <3>6. PICK f \in GoodConnection : f = e
      BY <2>1
    <3>7. PICK t : t = text
      OBVIOUS
    <3>8. /\ Goes(k, f, t, s) /\ f.read > 0 /\ SameRequest(j, k) /\ j.buf = t
          /\ ~(k.state = "data" /\ (k.payload > 0 => Len(t) = k.payload))
      BY <1>4, <3>1, <3>3, <3>4, <3>5, <3>6, <3>7
    <3>9. \/ k.state = "data"
          \/ \A p \in (s + 1)..(Len(t) - 1) : ~(t[p] = CR /\ t[p + 1] = LF)
      BY <3>2, <3>4, <3>5, <3>7
    <3>10. Waits(j, f)
      <4>. HIDE DEF text, e
      <4>. QED BY <1>4, <3>8, <3>9, RestWaits
    <3>. QED BY <3>6, <3>10
  <2>. HIDE DEF e
  <2>. QED BY <1>4, <2>1, <2>4 DEF Keeps
<1>8. PICK i \in DOMAIN clients, c \in 1..accepted : i = batch.slot /\ c = batch.conn
  BY <1>2
<1>9. PICK k \in ClientType : k = j
  BY <1>4
<1>10. \A l \in DOMAIN clients : l # i => clients[l].fd # c
  BY <1>1, <1>8, BatchAlone
<1>11. batch' = NoBatch /\ (k.fd # Closed => Keeps(k, conns'[k.fd]))
  BY <1>1, <1>7, <1>9
<1>12. /\ clients' = [clients EXCEPT ![i] = k] /\ accepted' = accepted
       /\ Len(conns') = Len(conns)
       /\ \A d \in 1..Len(conns) : d # c => SameText(conns[d], conns'[d])
       /\ batch = NoBatch \/ batch.slot = i
  BY <1>1, <1>3, <1>8, <1>9 DEF SameText
<1>. HIDE DEF e, text
<1>. QED BY <1>10, <1>11, <1>12, SlotKeepsOutcomes

LEMMA OutcomeStutters == OutcomeInv /\ UNCHANGED httpVars => OutcomeInv'
BY DEF httpVars, OutcomeInv, UntouchedBefore, BetweenCalls, WithinCall, Client

LEMMA OutcomeNext == HttpBounds /\ SlotInv /\ OutcomeInv /\ [HttpNext]_httpVars => OutcomeInv'
<1>. SUFFICES ASSUME HttpBounds, SlotInv, OutcomeInv, [HttpNext]_httpVars PROVE OutcomeInv'
  OBVIOUS
<1>1. CASE HttpEnvironment
  BY <1>1, EnvironmentKeepsOutcomes
<1>2. CASE Accept
  BY <1>2, AcceptKeepsOutcomes
<1>3. ASSUME NEW i \in DOMAIN clients, ApiData(i) PROVE OutcomeInv'
  BY <1>3, ClosingKeepsOutcomes, ReceiveKeepsOutcomes DEF ApiData
<1>4. CASE HandleBatch
  BY <1>4, LineKeepsOutcomes, BodyKeepsOutcomes, KeepRestKeepsOutcomes DEF HandleBatch
<1>5. CASE UNCHANGED httpVars
  BY <1>5, OutcomeStutters
<1>. QED BY <1>1, <1>2, <1>3, <1>4, <1>5 DEF HttpNext
=============================================================================
