------------------------- MODULE ControlInputProofs -------------------------
(***************************************************************************)
(* Theorems about ControlInput: for any configured inputs, texts and       *)
(* clients, and any size of chunk and limit.                               *)
(***************************************************************************)
EXTENDS ControlInput, SequenceLemmas, FiniteSetTheorems, TLAPS

InputType ==
    [type : {"fifo", "socket", "client"}, fd : 0..opened, allocated : Nat, buf : Seq(Memory)]

GoodStream == {e \in StreamType : e.read <= e.written /\ e.written <= Len(e.text)}

ScanFits ==
    scan # NoScan => /\ scan.offset + scan.size <= Len(scan.buf)
                     /\ scan.kept < scan.head /\ scan.head <= scan.size + 1

\* The type invariant, in the parts the steps are about.
ControlTyped ==
    /\ callers \in Seq(Seq(Bytes))
    /\ opened \in 0..Len(streams)
    /\ inputs \in Seq(InputType)
    /\ streams \in Seq(GoodStream)
    /\ scan \in {NoScan} \cup ScanType
    /\ ScanFits

LEMMA ControlTypedParts == ControlTyped => ControlTypeOK
<1>. SUFFICES ASSUME ControlTyped PROVE ControlTypeOK
  OBVIOUS
<1>1. \A s \in 1..Len(streams) : streams[s] \in GoodStream
  BY ElementOfSeq DEF ControlTyped
<1>2. \A s \in 1..Len(streams) : streams[s] \in StreamType
  BY <1>1 DEF GoodStream
<1>3. streams \in Seq(StreamType)
  BY <1>2 DEF ControlTyped
<1>. QED BY <1>1, <1>3 DEF ControlTyped, ControlTypeOK, InputType, ScanFits, GoodStream

LEMMA InputTyped ==
    ASSUME ControlTyped, NEW i \in DOMAIN inputs
    PROVE  /\ inputs[i] \in InputType
           /\ inputs[i].buf \in Seq(Memory) /\ Len(inputs[i].buf) \in Nat
           /\ inputs[i].allocated \in Nat /\ inputs[i].fd \in 0..opened
<1>1. inputs[i] \in InputType
  BY ElementOfSeq DEF ControlTyped
<1>2. inputs[i].buf \in Seq(Memory) /\ inputs[i].allocated \in Nat /\ inputs[i].fd \in 0..opened
  BY <1>1 DEF InputType
<1>. QED BY <1>1, <1>2

LEMMA EnlargedTyped ==
    ASSUME opened \in Nat, NEW k \in InputType
    PROVE  /\ Enlarged(k) \in InputType
           /\ Enlarged(k).buf = k.buf
           /\ Enlarged(k).fd = k.fd
           /\ Enlarged(k).type = k.type
<1>. DEFINE larger == k.allocated + Chunk
<1>1. k.allocated \in Nat /\ larger \in Nat
  BY ChunkAssumption DEF InputType
<1>2. CASE k.allocated - Len(k.buf) < Chunk
  <2>. DEFINE e == [k EXCEPT !.allocated = larger]
  <2>1. Enlarged(k) = e
    BY <1>2 DEF Enlarged
  <2>. HIDE DEF larger
  <2>2. e \in InputType
    BY <1>1 DEF InputType
  <2>3. e.buf = k.buf
    BY DEF InputType
  <2>4. e.fd = k.fd
    BY DEF InputType
  <2>5. e.type = k.type
    BY DEF InputType
  <2>. QED BY <2>1, <2>2, <2>3, <2>4, <2>5
<1>3. CASE ~(k.allocated - Len(k.buf) < Chunk)
  BY <1>3 DEF Enlarged
<1>. QED BY <1>2, <1>3

LEMMA EnlargedAllocated ==
    ASSUME opened \in Nat, NEW k \in InputType
    PROVE  Enlarged(k).allocated =
             IF k.allocated - Len(k.buf) < Chunk THEN k.allocated + Chunk ELSE k.allocated
BY DEF Enlarged, InputType

\* The buffer of an entry is replaced.
LEMMA BufferReplaced ==
    ASSUME opened \in Nat, NEW k \in InputType, NEW b \in Seq(Memory)
    PROVE  /\ [k EXCEPT !.buf = b] \in InputType
           /\ [k EXCEPT !.buf = b].buf = b
           /\ [k EXCEPT !.buf = b].allocated = k.allocated
<1>1. [k EXCEPT !.buf = b] \in InputType
  BY DEF InputType
<1>2. [k EXCEPT !.buf = b].buf = b
  BY DEF InputType
<1>3. [k EXCEPT !.buf = b].allocated = k.allocated
  BY DEF InputType
<1>. QED BY <1>1, <1>2, <1>3

LEMMA ClosedTyped ==
    ASSUME opened \in Nat, NEW k \in InputType
    PROVE  /\ ControlClosed(k) \in InputType
           /\ ControlClosed(k).buf = <<>>
           /\ ControlClosed(k).allocated = k.allocated
<1>1. ControlClosed(k) \in InputType
  <2>. DEFINE e == [k EXCEPT !.fd = Unused]
  <2>1. e \in InputType
    BY DEF InputType, Unused
  <2>2. ControlClosed(k) = [e EXCEPT !.buf = <<>>]
    BY DEF ControlClosed
  <2>3. <<>> \in Seq(Memory)
    OBVIOUS
  <2>. HIDE DEF e
  <2>. QED BY <2>1, <2>2, <2>3, BufferReplaced
<1>2. ControlClosed(k).buf = <<>>
  BY DEF InputType, ControlClosed
<1>3. ControlClosed(k).allocated = k.allocated
  BY DEF InputType, ControlClosed
<1>. QED BY <1>1, <1>2, <1>3

\* What may happen to a stream.
LEMMA StreamTyped ==
    ASSUME NEW e \in GoodStream
    PROVE  /\ e \in StreamType
           /\ e.read \in Nat /\ e.written \in Nat /\ e.text \in Seq(Bytes)
           /\ e.obeyed \in Seq(Seq(Memory))
           /\ e.read <= e.written /\ e.written <= Len(e.text)
           /\ e.misread \in BOOLEAN
BY DEF GoodStream, StreamType

LEMMA StreamWritten ==
    ASSUME NEW e \in GoodStream, NEW n \in Nat, e.written <= n, n <= Len(e.text)
    PROVE  [e EXCEPT !.written = n] \in GoodStream
<1>. DEFINE f == [e EXCEPT !.written = n]
<1>1. f \in StreamType
  BY DEF GoodStream, StreamType
<1>2. f.written = n /\ f.read = e.read /\ f.text = e.text
  BY DEF GoodStream, StreamType
<1>3. e.read <= n
  BY StreamTyped
<1>. QED BY <1>1, <1>2, <1>3 DEF GoodStream

LEMMA StreamRead ==
    ASSUME NEW e \in GoodStream, NEW n \in Nat, n <= e.written
    PROVE  [e EXCEPT !.read = n] \in GoodStream
BY StreamTyped DEF GoodStream, StreamType

LEMMA StreamGone ==
    ASSUME NEW e \in GoodStream
    PROVE  [e EXCEPT !.gone = TRUE] \in GoodStream
BY StreamTyped DEF GoodStream, StreamType

LEMMA StreamCut ==
    ASSUME NEW e \in GoodStream
    PROVE  [e EXCEPT !.overlong = TRUE] \in GoodStream
BY StreamTyped DEF GoodStream, StreamType

LEMMA StreamObeyed ==
    ASSUME NEW e \in GoodStream, NEW line \in Seq(Memory), NEW b \in BOOLEAN
    PROVE  [e EXCEPT !.obeyed = Append(@, line), !.misread = b] \in GoodStream
<1>. DEFINE o == Append(e.obeyed, line)
            f == [e EXCEPT !.obeyed = o]
<1>1. o \in Seq(Seq(Memory))
  BY StreamTyped, AppendProperties
<1>. HIDE DEF o
<1>2. f \in GoodStream
  BY <1>1, StreamTyped DEF GoodStream, StreamType
<1>. HIDE DEF f
<1>3. [f EXCEPT !.misread = b] \in GoodStream
  BY <1>2, StreamTyped DEF GoodStream, StreamType
<1>. QED BY <1>3 DEF f, o

LEMMA StreamNew ==
    ASSUME NEW source \in Source
    PROVE  Stream(source) \in GoodStream
BY DEF Stream, Source, GoodStream, StreamType

LEMMA ScanTyped ==
    ASSUME ControlTyped, scan # NoScan
    PROVE  /\ scan \in ScanType /\ scan.slot \in DOMAIN inputs
           /\ scan.buf \in Seq(Memory) /\ Len(scan.buf) \in Nat
           /\ scan.offset \in Nat /\ scan.size \in Nat
           /\ scan.head \in Nat /\ scan.kept \in Nat
           /\ scan.offset + scan.size <= Len(scan.buf)
           /\ scan.kept < scan.head /\ scan.head <= scan.size + 1
BY DEF ControlTyped, ScanType, ScanFits

-----------------------------------------------------------------------------
(* The buffers *)

\* The bound that carries the invariant over a call of control_data.
ScanAllocated == scan # NoScan => Len(scan.buf) <= inputs[scan.slot].allocated

ControlInv == ControlTyped /\ ControlBufferBounded /\ ScanAllocated

LEMMA EnlargedBounded ==
    ASSUME ControlInv, NEW i \in DOMAIN inputs
    PROVE  /\ Enlarged(inputs[i]).allocated < Limit + 2 * Chunk
           /\ Len(inputs[i].buf) < Enlarged(inputs[i]).allocated
           /\ Enlarged(inputs[i]).allocated \in Nat
<1>. DEFINE k == inputs[i]
            l == Len(k.buf)
<1>1. k \in InputType /\ k.allocated \in Nat /\ l \in Nat /\ opened \in Nat
  BY InputTyped DEF ControlInv, ControlTyped
<1>2. k.allocated < Limit + 2 * Chunk /\ l <= Limit /\ l <= k.allocated
  BY DEF ControlInv, ControlBufferBounded
<1>3. Enlarged(k).allocated = IF k.allocated - l < Chunk THEN k.allocated + Chunk ELSE k.allocated
  BY <1>1, EnlargedAllocated
<1>. HIDE DEF k, l
<1>4. /\ Enlarged(k).allocated < Limit + 2 * Chunk
      /\ l < Enlarged(k).allocated
      /\ Enlarged(k).allocated \in Nat
  BY <1>1, <1>2, <1>3, ChunkAssumption
<1>. QED BY <1>4 DEF k, l

LEMMA ControlInvInit == ControlInit => ControlInv
<1>. SUFFICES ASSUME NEW plan \in Plans, ControlStart(plan) PROVE ControlInv
  BY DEF ControlInit
<1>1. plan.configured \in Seq(Source) /\ plan.callers \in Seq(Seq(Bytes))
  BY PlanAssumption
<1>. DEFINE c == plan.configured
<1>2. \A i \in 1..Len(c) : c[i] \in Source
  BY <1>1, ElementOfSeq
<1>3. streams \in [1..Len(c) -> GoodStream] /\ streams \in Seq(GoodStream) /\ Len(streams) = Len(c)
  <2>1. \A i \in 1..Len(c) : Stream(c[i]) \in GoodStream
    BY <1>2, StreamNew
  <2>2. DOMAIN c = 1..Len(c) /\ Len(c) \in Nat
    BY <1>1
  <2>3. streams = [i \in 1..Len(c) |-> Stream(c[i])]
    BY <2>2 DEF ControlStart
  <2>. QED BY <2>1, <2>2, <2>3
<1>4. /\ inputs \in Seq(InputType)
      /\ \A i \in DOMAIN inputs : inputs[i].allocated = 0 /\ inputs[i].buf = <<>>
  <2>1. DOMAIN c = 1..Len(c) /\ Len(c) \in Nat /\ opened = Len(c)
    BY <1>1 DEF ControlStart
  <2>2. inputs = [i \in 1..Len(c) |-> Input(c[i].type, i)]
    BY <2>1 DEF ControlStart
  <2>3. ASSUME NEW i \in 1..Len(c)
        PROVE  /\ Input(c[i].type, i) \in InputType
               /\ Input(c[i].type, i).allocated = 0 /\ Input(c[i].type, i).buf = <<>>
    <3>1. c[i].type \in {"fifo", "socket", "client"}
      BY <1>2 DEF Source
    <3>. QED BY <3>1, <2>1 DEF Input, InputType
  <2>. QED BY <2>1, <2>2, <2>3
<1>5. ControlTyped
  BY <1>1, <1>3, <1>4 DEF ControlStart, ControlTyped, ScanFits
<1>6. ControlBufferBounded
  BY <1>4, ChunkAssumption DEF ControlBufferBounded
<1>. QED BY <1>5, <1>6 DEF ControlInv, ScanAllocated, ControlStart

\* A step that leaves the scan alone, and the buffers within their bounds.
LEMMA NoScanKeeps ==
    ASSUME ControlInv, scan = NoScan, UNCHANGED scan, ControlTyped', ControlBufferBounded'
    PROVE  ControlInv'
BY DEF ControlInv, ScanAllocated

\* A step of a client changes the streams alone.
LEMMA StreamsKeep ==
    ASSUME ControlInv, UNCHANGED <<inputs, opened, scan>>,
           callers' \in Seq(Seq(Bytes)), streams' \in Seq(GoodStream),
           Len(streams) <= Len(streams')
    PROVE  ControlInv'
<1>1. opened' \in 0..Len(streams')
  BY DEF ControlInv, ControlTyped
<1>2. InputType' = InputType /\ ScanType' = ScanType
  BY DEF InputType, ScanType
<1>3. ControlTyped'
  BY <1>1, <1>2 DEF ControlInv, ControlTyped, ScanFits
<1>. QED BY <1>3 DEF ControlInv, ControlBufferBounded, ScanAllocated

LEMMA CallKeeps == ControlInv /\ Call => ControlInv'
<1>. SUFFICES ASSUME ControlInv, Call PROVE ControlInv'
  OBVIOUS
<1>. DEFINE source == [type |-> "client", text |-> Head(callers)]
<1>1. Head(callers) \in Seq(Bytes) /\ Tail(callers) \in Seq(Seq(Bytes))
  BY HeadTailProperties DEF Call, ControlInv, ControlTyped
<1>2. Stream(source) \in GoodStream
  BY <1>1, StreamNew DEF Source
<1>3. streams \in Seq(GoodStream)
  BY DEF ControlInv, ControlTyped
<1>4. Append(streams, Stream(source)) \in Seq(GoodStream)
      /\ Len(Append(streams, Stream(source))) = Len(streams) + 1
  BY <1>2, <1>3, AppendProperties
<1>. QED BY <1>1, <1>3, <1>4, StreamsKeep DEF Call

LEMMA WriteKeeps ==
    ASSUME ControlInv, NEW s \in DOMAIN streams, Write(s)
    PROVE  ControlInv'
<1>1. streams \in Seq(GoodStream) /\ streams[s] \in GoodStream
  BY ElementOfSeq DEF ControlInv, ControlTyped
<1>2. PICK n \in (streams[s].written + 1)..Len(streams[s].text) :
        streams' = [streams EXCEPT ![s].written = n]
  BY DEF Write
<1>. DEFINE e == [streams[s] EXCEPT !.written = n]
<1>3. n \in Nat /\ streams[s].written <= n /\ n <= Len(streams[s].text)
  BY <1>1, <1>2, StreamTyped
<1>4. e \in GoodStream
  BY <1>1, <1>3, StreamWritten
<1>5. streams' = [streams EXCEPT ![s] = e]
  BY <1>2
<1>. HIDE DEF e
<1>6. streams' \in Seq(GoodStream) /\ Len(streams') = Len(streams)
  BY <1>1, <1>4, <1>5, Replaced
<1>. QED BY <1>1, <1>6, StreamsKeep DEF Write, ControlInv, ControlTyped

LEMMA CloseKeeps ==
    ASSUME ControlInv, NEW s \in DOMAIN streams, Close(s)
    PROVE  ControlInv'
<1>1. streams \in Seq(GoodStream) /\ streams[s] \in GoodStream
  BY ElementOfSeq DEF ControlInv, ControlTyped
<1>. DEFINE e == [streams[s] EXCEPT !.gone = TRUE]
<1>2. e \in GoodStream
  BY <1>1, StreamGone
<1>3. streams' = [streams EXCEPT ![s] = e]
  BY DEF Close
<1>. HIDE DEF e
<1>4. streams' \in Seq(GoodStream) /\ Len(streams') = Len(streams)
  BY <1>1, <1>2, <1>3, Replaced
<1>. QED BY <1>1, <1>4, StreamsKeep DEF Close, ControlInv, ControlTyped

LEMMA AcceptKeeps ==
    ASSUME ControlInv, NEW i \in DOMAIN inputs, ControlAccept(i)
    PROVE  ControlInv'
<1>1. /\ inputs \in Seq(InputType) /\ DOMAIN inputs = 1..Len(inputs) /\ Len(inputs) \in Nat
      /\ opened \in Nat /\ opened' = opened + 1 /\ opened' \in 0..Len(streams)
  BY DEF ControlInv, ControlTyped, ControlAccept
<1>2. PICK j \in 1..(Len(inputs) + 1) :
        inputs' = [l \in DOMAIN inputs \cup {j} |->
                     IF l = j THEN Reused(j, opened') ELSE inputs[l]]
  BY DEF ControlAccept
<1>. DEFINE e == Reused(j, opened')
<1>3. \A l \in 1..Len(inputs) : inputs[l] \in InputType /\ inputs[l] \in InputType'
  <2>1. \A l \in 1..Len(inputs) : inputs[l] \in InputType
    BY <1>1, ElementOfSeq
  <2>2. ASSUME NEW k \in InputType PROVE k \in InputType'
    <3>1. 0..opened \subseteq 0..opened'
      BY <1>1
    <3>. QED BY <3>1 DEF InputType
  <2>. QED BY <2>1, <2>2
<1>4. /\ e \in InputType' /\ e.buf = <<>> /\ e.allocated \in Nat
      /\ e.allocated < Limit + 2 * Chunk
  <2>. DEFINE fresh == Input("client", opened')
  <2>1. fresh \in InputType' /\ fresh.buf = <<>> /\ fresh.allocated = 0
    BY <1>1 DEF Input, InputType
  <2>2. CASE j \notin DOMAIN inputs
    BY <2>1, <2>2, ChunkAssumption DEF Reused
  <2>3. CASE j \in DOMAIN inputs
    <3>. DEFINE a == inputs[j].allocated
    <3>1. a \in Nat /\ a < Limit + 2 * Chunk
      BY <2>3, InputTyped DEF ControlInv, ControlBufferBounded
    <3>2. e = [fresh EXCEPT !.allocated = a]
      BY <2>3 DEF Reused
    <3>. HIDE DEF a, fresh, e
    <3>3. e \in InputType'
      BY <2>1, <3>1, <3>2 DEF InputType
    <3>4. e.buf = <<>>
      BY <2>1, <3>2 DEF InputType
    <3>5. e.allocated = a
      BY <2>1, <3>2 DEF InputType
    <3>. QED BY <3>1, <3>3, <3>4, <3>5
  <2>. QED BY <2>2, <2>3
<1>. HIDE DEF e
<1>6. PICK n \in Nat : DOMAIN inputs \cup {j} = 1..n
  <2>1. CASE j \in DOMAIN inputs
    BY <2>1, <1>1
  <2>2. CASE j = Len(inputs) + 1
    BY <2>2, <1>1
  <2>. QED BY <2>1, <2>2, <1>1
<1>7. inputs' = [l \in 1..n |-> IF l = j THEN e ELSE inputs[l]]
  BY <1>2, <1>6 DEF e
<1>8. inputs' \in Seq(InputType')
  <2>1. \A l \in 1..n : (IF l = j THEN e ELSE inputs[l]) \in InputType'
    BY <1>1, <1>3, <1>4, <1>6
  <2>. QED BY <1>7, <2>1
<1>9. ControlTyped'
  BY <1>1, <1>8 DEF ControlInv, ControlTyped, ControlAccept, ScanFits
<1>10. ControlBufferBounded'
  <2>1. ASSUME NEW l \in DOMAIN inputs'
        PROVE  /\ inputs'[l].allocated < Limit + 2 * Chunk
               /\ Len(inputs'[l].buf) <= Limit
               /\ Len(inputs'[l].buf) <= inputs'[l].allocated
    <3>1. CASE l = j
      BY <3>1, <1>4, <1>7, <1>6, ChunkAssumption
    <3>2. CASE l # j
      <4>1. l \in DOMAIN inputs /\ inputs'[l] = inputs[l]
        BY <3>2, <1>6, <1>7
      <4>. QED BY <4>1 DEF ControlInv, ControlBufferBounded
    <3>. QED BY <3>1, <3>2
  <2>. QED BY <2>1 DEF ControlBufferBounded
<1>. QED BY <1>9, <1>10, NoScanKeeps DEF ControlAccept

\* One entry is replaced by one within the bounds, while nothing is being scanned or from the
\* end of the scan on.
LEMMA EntryKeeps ==
    ASSUME ControlInv, NEW i \in DOMAIN inputs, NEW e \in InputType,
           inputs' = [inputs EXCEPT ![i] = e], UNCHANGED <<opened, callers>>,
           e.allocated < Limit + 2 * Chunk, Len(e.buf) <= Limit, Len(e.buf) <= e.allocated,
           streams' \in Seq(GoodStream), Len(streams') = Len(streams),
           scan' \in {NoScan} \cup ScanType, ScanFits', ScanAllocated'
    PROVE  ControlInv'
<1>1. inputs \in Seq(InputType) /\ InputType' = InputType
  BY DEF ControlInv, ControlTyped, InputType
<1>2. /\ inputs' \in Seq(InputType) /\ DOMAIN inputs' = DOMAIN inputs
      /\ \A l \in DOMAIN inputs : inputs'[l] = IF l = i THEN e ELSE inputs[l]
  BY <1>1, Replaced
<1>3. ScanType' = ScanType
  BY <1>2 DEF ScanType
<1>4. ControlTyped'
  BY <1>1, <1>2, <1>3 DEF ControlInv, ControlTyped
<1>5. ControlBufferBounded'
  BY <1>2 DEF ControlInv, ControlBufferBounded
<1>. QED BY <1>4, <1>5 DEF ControlInv

LEMMA ReadNothingKeeps ==
    ASSUME ControlInv, NEW i \in DOMAIN inputs, ReadNothing(i)
    PROVE  ControlInv'
<1>. DEFINE k == Enlarged(inputs[i])
            e == ControlClosed(k)
<1>1. k \in InputType /\ k.allocated < Limit + 2 * Chunk /\ k.allocated \in Nat /\ opened \in Nat
  BY InputTyped, EnlargedTyped, EnlargedBounded DEF ControlInv, ControlTyped
<1>2. e \in InputType /\ e.buf = <<>> /\ e.allocated = k.allocated
  BY <1>1, ClosedTyped
<1>3. inputs' = [inputs EXCEPT ![i] = e]
  BY DEF ReadNothing
<1>. HIDE DEF k, e
<1>4. Len(e.buf) <= Limit /\ Len(e.buf) <= e.allocated
  BY <1>1, <1>2, ChunkAssumption
<1>5. scan' = NoScan /\ streams' = streams /\ opened' = opened /\ callers' = callers
  BY DEF ReadNothing
<1>. QED BY <1>1, <1>2, <1>3, <1>4, <1>5, EntryKeeps
     DEF ControlInv, ControlTyped, ScanFits, ScanAllocated

LEMMA ReadKeeps ==
    ASSUME ControlInv, NEW i \in DOMAIN inputs, Read(i)
    PROVE  ControlInv'
<1>. DEFINE k == Enlarged(inputs[i])
            s == k.fd
            n == streams[s].read + ReadCount(k)
            piece == SubSeq(streams[s].text, streams[s].read + 1, n)
            b == k.buf \o piece
<1>1. /\ k \in InputType /\ k.allocated < Limit + 2 * Chunk /\ k.allocated \in Nat
      /\ k.buf = inputs[i].buf /\ k.fd = inputs[i].fd /\ opened \in Nat
      /\ Len(k.buf) < k.allocated /\ Len(k.buf) <= Limit
      /\ k.buf \in Seq(Memory) /\ Len(k.buf) \in Nat
  BY InputTyped, EnlargedTyped, EnlargedBounded DEF ControlInv, ControlTyped, ControlBufferBounded
<1>2. s \in 1..Len(streams)
  BY <1>1, InputTyped DEF Read, ControlInv, ControlTyped, Unused
<1>3. streams \in Seq(GoodStream) /\ streams[s] \in GoodStream
  BY <1>2, ElementOfSeq DEF ControlInv, ControlTyped
<1>. DEFINE str == streams[s]
<1>4. /\ str.read \in Nat /\ str.written \in Nat /\ str.text \in Seq(Bytes)
      /\ str.read <= str.written /\ str.written <= Len(str.text)
  BY <1>3, StreamTyped
<1>5. str.read < str.written
  BY <1>1 DEF Read, Unread
<1>6. /\ n \in Nat /\ str.read < n /\ n <= str.written
      /\ n - str.read <= k.allocated - Len(k.buf)
  <2>1. ReadCount(k) = IF str.written - str.read <= k.allocated - Len(k.buf)
                       THEN str.written - str.read ELSE k.allocated - Len(k.buf)
    BY DEF ReadCount
  <2>. DEFINE r == str.read
              w == str.written
              l == Len(k.buf)
              a == k.allocated
              c == ReadCount(k)
  <2>2. c = (IF w - r <= a - l THEN w - r ELSE a - l)
    BY <2>1
  <2>3. r \in Nat /\ w \in Nat /\ r < w /\ l \in Nat /\ a \in Nat /\ l < a
    BY <1>1, <1>4, <1>5
  <2>4. n = r + c
    OBVIOUS
  <2>. HIDE DEF r, w, l, a, c, n
  <2>5. n \in Nat /\ r < n /\ n <= w /\ n - r <= a - l
    BY <2>2, <2>3, <2>4
  <2>. QED BY <2>5 DEF r, w, l, a
<1>7. piece \in Seq(Memory) /\ Len(piece) = n - str.read
  <2>1. \A p \in (str.read + 1)..n : str.text[p] \in Memory
    <3>1. \A p \in 1..Len(str.text) : str.text[p] \in Bytes
      BY <1>4, ElementOfSeq
    <3>. QED BY <3>1, <1>4, <1>6 DEF Memory
  <2>2. str.read + 1 \in Int /\ n \in Int
    BY <1>4, <1>6
  <2>3. str.read + 1 <= n /\ n - (str.read + 1) + 1 = n - str.read
    BY <1>4, <1>6
  <2>. DEFINE t == str.text
              m == str.read + 1
  <2>. HIDE DEF n, m, t
  <2>4. SubSeq(t, m, n) \in Seq(Memory) /\ Len(SubSeq(t, m, n)) = IF m <= n THEN n - m + 1 ELSE 0
    BY <2>1, <2>2, SubSeqProperties DEF m, t
  <2>. QED BY <2>3, <2>4 DEF m, t
<1>. HIDE DEF piece
<1>8. b \in Seq(Memory) /\ Len(b) = Len(k.buf) + (n - str.read)
  <2>1. piece \in Seq(Memory) /\ k.buf \in Seq(Memory)
    BY <1>1, <1>7
  <2>. HIDE DEF k
  <2>2. b \in Seq(Memory) /\ Len(b) = Len(k.buf) + Len(piece)
    BY <2>1, ConcatProperties
  <2>. QED BY <2>2, <1>7
<1>. DEFINE new == [slot |-> i, offset |-> Len(k.buf), size |-> n - str.read, buf |-> b,
                    head |-> 1, kept |-> 0]
<1>9. scan' = new
  BY DEF Read, piece
<1>10. streams' = [streams EXCEPT ![s] = [str EXCEPT !.read = n]]
  BY DEF Read
<1>11. inputs' = [inputs EXCEPT ![i] = k] /\ opened' = opened /\ callers' = callers
  BY DEF Read
<1>. HIDE DEF n, b, k, str
<1>12. streams' \in Seq(GoodStream) /\ Len(streams') = Len(streams)
  <2>1. [str EXCEPT !.read = n] \in GoodStream
    BY <1>3, <1>6, StreamRead DEF str
  <2>. QED BY <1>3, <1>10, <2>1, Replaced
<1>13. n - str.read \in Nat
  BY <1>4, <1>6
<1>14. inputs \in Seq(InputType) /\ DOMAIN inputs' = DOMAIN inputs /\ inputs'[i] = k
  BY <1>1, <1>11, Replaced DEF ControlInv, ControlTyped
<1>15. new \in ScanType'
  BY <1>1, <1>8, <1>13, <1>14 DEF ScanType
<1>16. ScanFits'
  BY <1>9, <1>8, <1>1, <1>13 DEF ScanFits
<1>17. ScanAllocated'
  BY <1>9, <1>14, <1>8, <1>6, <1>1, <1>13 DEF ScanAllocated
<1>18. Len(k.buf) <= k.allocated
  BY <1>1
<1>. QED BY <1>1, <1>9, <1>11, <1>12, <1>14, <1>15, <1>16, <1>17, <1>18, EntryKeeps
     DEF ScanType

\* A step of the scan that leaves the entries alone.
LEMMA ScanKeeps ==
    ASSUME ControlInv, scan # NoScan, UNCHANGED <<inputs, opened, callers>>,
           streams' \in Seq(GoodStream), Len(streams') = Len(streams),
           scan' \in ScanType, scan'.slot = scan.slot, Len(scan'.buf) = Len(scan.buf), ScanFits'
    PROVE  ControlInv'
<1>1. InputType' = InputType /\ ScanType' = ScanType
  BY DEF InputType, ScanType
<1>2. ControlTyped'
  BY <1>1 DEF ControlInv, ControlTyped
<1>. QED BY <1>2 DEF ControlInv, ControlBufferBounded, ScanAllocated

LEMMA LineTyped ==
    ASSUME ControlTyped, scan # NoScan
    PROVE  /\ LineSoFar \in Seq(Memory)
           /\ Len(LineSoFar) = scan.offset + scan.kept
           /\ scan.offset + scan.kept <= Len(scan.buf)
<1>. DEFINE n == scan.offset + scan.kept
<1>1. n \in Nat /\ n <= Len(scan.buf)
  BY ScanTyped
<1>2. \A p \in 1..n : scan.buf[p] \in Memory
  BY <1>1, ScanTyped, ElementOfSeq
<1>. QED BY <1>1, <1>2, SubSeqProperties DEF LineSoFar

LEMMA EndLineKeeps == ControlInv /\ EndLine => ControlInv'
<1>. SUFFICES ASSUME ControlInv, EndLine PROVE ControlInv'
  OBVIOUS
<1>. DEFINE s == inputs[scan.slot].fd
            cut == streams[s].misread \/ (scan.offset > 0 /\ scan.head < scan.size)
            f == [streams[s] EXCEPT !.obeyed = Append(@, LineSoFar), !.misread = cut]
            new == [scan EXCEPT !.buf = AfterCommand, !.offset = 0, !.kept = 0, !.head = @ + 1]
<1>1. ControlTyped /\ scan # NoScan /\ scan.head <= scan.size
  BY DEF ControlInv, EndLine, AtByte
<1>2. streams \in Seq(GoodStream) /\ streams' = [streams EXCEPT ![s] = f]
  BY <1>1 DEF EndLine, ControlTyped
<1>3. streams' \in Seq(GoodStream) /\ Len(streams') = Len(streams)
  <2>1. ASSUME s \in 1..Len(streams) PROVE f \in GoodStream
    <3>1. streams[s] \in GoodStream
      BY <1>2, <2>1, ElementOfSeq
    <3>2. cut \in BOOLEAN
      BY <3>1, StreamTyped
    <3>. QED BY <1>1, <3>1, <3>2, LineTyped, StreamObeyed
  <2>. HIDE DEF f
  <2>. QED BY <1>2, <2>1, Replaced
<1>4. AfterCommand \in Seq(Memory) /\ Len(AfterCommand) = Len(scan.buf)
  <2>1. scan.buf \in Seq(Memory)
    BY <1>1, ScanTyped
  <2>2. \A p \in 1..Len(scan.buf) : scan.buf[p] \in Memory
    BY <2>1, ElementOfSeq
  <2>. QED BY <2>1, <2>2 DEF AfterCommand, Memory
<1>5. /\ scan \in ScanType /\ scan.slot \in DOMAIN inputs /\ scan.size \in Nat
      /\ scan.head \in Nat \ {0} /\ scan.head + 1 \in Nat \ {0}
      /\ scan.offset + scan.size <= Len(scan.buf) /\ scan.offset \in Nat
  BY <1>1, ScanTyped DEF ScanType
<1>6. new = [slot |-> scan.slot, buf |-> AfterCommand, offset |-> 0, size |-> scan.size,
             head |-> scan.head + 1, kept |-> 0]
  <2>. DEFINE s1 == [scan EXCEPT !.buf = AfterCommand]
              s2 == [s1 EXCEPT !.offset = 0]
              s3 == [s2 EXCEPT !.kept = 0]
              s4 == [s3 EXCEPT !.head = s3.head + 1]
  <2>1. new = s4
    OBVIOUS
  <2>2. scan = [slot |-> scan.slot, buf |-> scan.buf, offset |-> scan.offset,
                size |-> scan.size, head |-> scan.head, kept |-> scan.kept]
    BY <1>5 DEF ScanType
  <2>. HIDE DEF new
  <2>. QED BY <2>1, <2>2
<1>7. scan' = new
  BY DEF EndLine
<1>. HIDE DEF new
<1>8. scan' \in ScanType
  BY <1>4, <1>5, <1>6, <1>7 DEF ScanType
<1>9. ScanFits'
  BY <1>1, <1>4, <1>5, <1>6, <1>7 DEF ScanFits
<1>. QED BY <1>1, <1>3, <1>4, <1>6, <1>7, <1>8, <1>9, ScanKeeps DEF EndLine

LEMMA StripByteKeeps == ControlInv /\ StripByte => ControlInv'
<1>. SUFFICES ASSUME ControlInv, StripByte PROVE ControlInv'
  OBVIOUS
<1>1. ControlTyped /\ scan # NoScan /\ scan.head <= scan.size
  BY DEF ControlInv, StripByte, AtByte
<1>2. scan \in ScanType
  BY <1>1, ScanTyped
<1>3. scan' = [slot |-> scan.slot, buf |-> scan.buf, offset |-> scan.offset,
               size |-> scan.size, head |-> scan.head + 1, kept |-> scan.kept]
  BY <1>2 DEF StripByte, ScanType
<1>4. scan' \in ScanType /\ ScanFits'
  BY <1>1, <1>2, <1>3, ScanTyped DEF ScanType, ScanFits
<1>. QED BY <1>1, <1>3, <1>4, ScanKeeps DEF StripByte, ControlInv, ControlTyped

LEMMA KeepByteKeeps == ControlInv /\ KeepByte => ControlInv'
<1>. SUFFICES ASSUME ControlInv, KeepByte PROVE ControlInv'
  OBVIOUS
<1>1. ControlTyped /\ scan # NoScan /\ scan.head <= scan.size
  BY DEF ControlInv, KeepByte, AtByte
<1>2. scan \in ScanType /\ scan.buf \in Seq(Memory)
  BY <1>1, ScanTyped
<1>. DEFINE p == scan.offset + scan.kept + 1
            b == [scan.buf EXCEPT ![p] = Byte]
<1>3. Byte \in Memory
  <2>1. scan.offset + scan.head \in 1..Len(scan.buf)
    BY <1>1, <1>2, ScanTyped DEF ScanType
  <2>. QED BY <2>1, <1>2, ElementOfSeq DEF Byte
<1>4. b \in Seq(Memory) /\ Len(b) = Len(scan.buf)
  <2>. DEFINE old == scan.buf
  <2>. HIDE DEF p, old
  <2>1. old \in Seq(Memory) /\ b = [old EXCEPT ![p] = Byte]
    BY <1>2 DEF old
  <2>. HIDE DEF b
  <2>2. b \in Seq(Memory) /\ Len(b) = Len(old)
    BY <2>1, <1>3, Replaced
  <2>. QED BY <2>2 DEF old
<1>5. scan' = [slot |-> scan.slot, buf |-> b, offset |-> scan.offset, size |-> scan.size,
               head |-> scan.head + 1, kept |-> scan.kept + 1]
  BY <1>2 DEF KeepByte, ScanType
<1>. HIDE DEF b
<1>6. scan' \in ScanType /\ ScanFits'
  BY <1>1, <1>2, <1>4, <1>5, ScanTyped DEF ScanType, ScanFits
<1>. QED BY <1>1, <1>4, <1>5, <1>6, ScanKeeps DEF KeepByte, ControlInv, ControlTyped

LEMMA EndScanKeeps == ControlInv /\ EndScan => ControlInv'
<1>. SUFFICES ASSUME ControlInv, EndScan PROVE ControlInv'
  OBVIOUS
<1>. DEFINE i == scan.slot
            k == inputs[i]
<1>1. /\ ControlTyped /\ scan # NoScan /\ i \in DOMAIN inputs /\ k \in InputType
      /\ opened \in Nat /\ streams \in Seq(GoodStream)
      /\ UNCHANGED <<opened, callers>> /\ scan' = NoScan
  BY ScanTyped, InputTyped DEF ControlInv, EndScan, ControlTyped
<1>2. LineSoFar \in Seq(Memory) /\ Len(LineSoFar) <= Len(scan.buf)
  BY <1>1, LineTyped
<1>3. k.allocated < Limit + 2 * Chunk /\ Len(scan.buf) <= k.allocated /\ k.allocated \in Nat
  BY <1>1, InputTyped DEF ControlInv, ControlBufferBounded, ScanAllocated
<1>4. <<>> \in Seq(Memory) /\ Len(<<>>) = 0
  OBVIOUS
<1>5. streams' \in Seq(GoodStream) /\ Len(streams') = Len(streams)
  <2>1. CASE Len(LineSoFar) <= Limit
    BY <1>1, <2>1 DEF EndScan
  <2>2. CASE ~(Len(LineSoFar) <= Limit)
    <3>. DEFINE s == k.fd
                f == [streams[s] EXCEPT !.overlong = TRUE]
    <3>1. streams' = [streams EXCEPT ![s] = f]
      BY <2>2 DEF EndScan
    <3>2. ASSUME s \in 1..Len(streams) PROVE f \in GoodStream
      BY <1>1, <3>2, ElementOfSeq, StreamCut
    <3>. HIDE DEF f, s
    <3>. QED BY <1>1, <3>1, <3>2, Replaced
  <2>. QED BY <2>1, <2>2
<1>6. ScanFits' /\ ScanAllocated'
  BY <1>1 DEF ScanFits, ScanAllocated
<1>. HIDE DEF k, i
<1>7. ASSUME NEW e \in InputType, inputs' = [inputs EXCEPT ![i] = e],
             e.allocated = k.allocated, Len(e.buf) <= Limit, Len(e.buf) <= k.allocated
      PROVE  ControlInv'
  BY <1>1, <1>3, <1>5, <1>6, <1>7, EntryKeeps
<1>8. CASE Len(LineSoFar) <= Limit
  <2>. DEFINE e == [k EXCEPT !.buf = LineSoFar]
  <2>1. e \in InputType /\ e.buf = LineSoFar /\ e.allocated = k.allocated
    BY <1>1, <1>2, BufferReplaced
  <2>2. inputs' = [inputs EXCEPT ![i] = e]
    BY <1>8 DEF EndScan, k, i
  <2>3. Len(LineSoFar) \in Nat /\ Len(scan.buf) \in Nat
    BY <1>1, <1>2, ScanTyped
  <2>. HIDE DEF e
  <2>4. Len(e.buf) <= k.allocated
    BY <1>2, <1>3, <2>1, <2>3
  <2>. QED BY <1>7, <1>8, <2>1, <2>2, <2>4
<1>9. CASE ~(Len(LineSoFar) <= Limit) /\ k.type = "client"
  <2>1. inputs' = [inputs EXCEPT ![i] = ControlClosed(k)]
    BY <1>9 DEF EndScan, k, i
  <2>2. /\ ControlClosed(k) \in InputType /\ ControlClosed(k).buf = <<>>
        /\ ControlClosed(k).allocated = k.allocated
    BY <1>1, ClosedTyped
  <2>3. Len(ControlClosed(k).buf) <= Limit /\ Len(ControlClosed(k).buf) <= k.allocated
    BY <1>3, <1>4, <2>2, ChunkAssumption
  <2>. QED BY <1>7, <2>1, <2>2, <2>3
<1>10. CASE ~(Len(LineSoFar) <= Limit) /\ k.type # "client"
  <2>. DEFINE e == [k EXCEPT !.buf = <<>>]
  <2>1. e \in InputType /\ e.buf = <<>> /\ e.allocated = k.allocated
    BY <1>1, <1>4, BufferReplaced
  <2>2. inputs' = [inputs EXCEPT ![i] = e]
    BY <1>10 DEF EndScan, k, i
  <2>. HIDE DEF e
  <2>3. Len(e.buf) <= Limit /\ Len(e.buf) <= k.allocated
    BY <1>3, <1>4, <2>1, ChunkAssumption
  <2>. QED BY <1>7, <2>1, <2>2, <2>3
<1>. QED BY <1>8, <1>9, <1>10

LEMMA ControlStutters == ControlInv /\ UNCHANGED controlVars => ControlInv'
BY DEF controlVars, ControlInv, ControlTyped, ControlBufferBounded, ScanAllocated, ScanFits,
       InputType, ScanType

LEMMA ControlInvNext == ControlInv /\ [ControlNext]_controlVars => ControlInv'
<1>. SUFFICES ASSUME ControlInv, [ControlNext]_controlVars PROVE ControlInv'
  OBVIOUS
<1>1. CASE Call
  BY <1>1, CallKeeps
<1>2. CASE \E s \in DOMAIN streams : Write(s) \/ Close(s)
  BY <1>2, WriteKeeps, CloseKeeps
<1>3. CASE \E i \in DOMAIN inputs : ControlAccept(i)
  BY <1>3, AcceptKeeps
<1>4. CASE \E i \in DOMAIN inputs : ControlData(i)
  BY <1>4, ReadNothingKeeps, ReadKeeps DEF ControlData
<1>5. CASE HandleScan
  BY <1>5, EndLineKeeps, StripByteKeeps, KeepByteKeeps, EndScanKeeps DEF HandleScan
<1>6. CASE UNCHANGED controlVars
  BY <1>6, ControlStutters
<1>. QED BY <1>1, <1>2, <1>3, <1>4, <1>5, <1>6 DEF ControlNext, ControlEnvironment

\* The entries of fds[], what is read and the scan are of their types, and the scan stays
\* within what has been read and kept (control_data).
THEOREM ControlTypeCorrect == ControlSpec => []ControlTypeOK
<1>1. ControlInv => ControlTypeOK
  BY ControlTypedParts DEF ControlInv
<1>. QED BY <1>1, ControlInvInit, ControlInvNext, PTL DEF ControlSpec

\* The receive buffers of the control inputs stay within the limit and two chunks, and a
\* line that is kept within them (control_data, control_input).
THEOREM ControlBuffersBounded == ControlSpec => []ControlBufferBounded
<1>1. ControlInv => ControlBufferBounded
  BY DEF ControlInv
<1>. QED BY <1>1, ControlInvInit, ControlInvNext, PTL DEF ControlSpec

-----------------------------------------------------------------------------
(* Positions in a text, and the lines they end and begin *)

\* A position after the others has the last rank, and they keep theirs.
LEMMA RankOfNext ==
    ASSUME NEW n \in Nat, NEW S \in SUBSET (1..n)
    PROVE  /\ Cardinality(S) \in Nat
           /\ Cardinality(S \cup {n + 1}) = Cardinality(S) + 1
           /\ Rank(n + 1, S \cup {n + 1}) = Cardinality(S) + 1
           /\ \A p \in S : /\ Rank(p, S \cup {n + 1}) = Rank(p, S)
                           /\ Rank(p, S) \in 1..Cardinality(S)
<1>1. IsFiniteSet(S)
  <2>1. IsFiniteSet(1..n)
    BY FS_Interval
  <2>. QED BY <2>1, FS_Subset
<1>2. Cardinality(S) \in Nat /\ Cardinality(S \cup {n + 1}) = Cardinality(S) + 1
  <2>1. n + 1 \notin S
    <3>1. n + 1 \notin 1..n
      OBVIOUS
    <3>. QED BY <3>1
  <2>. QED BY <1>1, <2>1, FS_CardinalityType, FS_AddElement
<1>3. Rank(n + 1, S \cup {n + 1}) = Cardinality(S) + 1
  <2>1. \A r \in S \cup {n + 1} : r <= n + 1
    OBVIOUS
  <2>2. {r \in S \cup {n + 1} : r <= n + 1} = S \cup {n + 1}
    BY <2>1
  <2>. QED BY <1>2, <2>2 DEF Rank
<1>4. ASSUME NEW p \in S
      PROVE  Rank(p, S \cup {n + 1}) = Rank(p, S) /\ Rank(p, S) \in 1..Cardinality(S)
  <2> DEFINE T == {r \in S : r <= p}
  <2>1. {r \in S \cup {n + 1} : r <= p} = T
    OBVIOUS
  <2>2. T \in SUBSET S /\ p \in T
    OBVIOUS
  <2> HIDE DEF T
  <2>3. IsFiniteSet(T) /\ Cardinality(T) <= Cardinality(S) /\ Cardinality(T) \in Nat
    BY <1>1, <2>2, FS_Subset, FS_CardinalityType
  <2>4. Cardinality(T) # 0
    BY <2>2, <2>3, FS_EmptySet
  <2>5. Rank(p, S) = Cardinality(T) /\ Rank(p, S \cup {n + 1}) = Cardinality(T)
    BY <2>1 DEF Rank, T
  <2>. QED BY <1>2, <2>3, <2>4, <2>5
<1>. QED BY <1>2, <1>3, <1>4

\* A byte is kept after the others.
LEMMA SpellsMore ==
    ASSUME NEW M, NEW line \in Seq(M), NEW b \in M, NEW text, NEW n \in Nat,
           NEW S \in SUBSET (1..n), Spells(line, text, S), text[n + 1] = b
    PROVE  Spells(Append(line, b), text, S \cup {n + 1})
<1>1. /\ Cardinality(S) \in Nat
      /\ Cardinality(S \cup {n + 1}) = Cardinality(S) + 1
      /\ Rank(n + 1, S \cup {n + 1}) = Cardinality(S) + 1
      /\ \A p \in S : /\ Rank(p, S \cup {n + 1}) = Rank(p, S)
                      /\ Rank(p, S) \in 1..Cardinality(S)
  BY RankOfNext
<1>2. Len(line) = Cardinality(S) /\ \A p \in S : line[Rank(p, S)] = text[p]
  BY DEF Spells
<1>3. /\ Len(Append(line, b)) = Len(line) + 1
      /\ Append(line, b)[Len(line) + 1] = b
      /\ \A j \in 1..Len(line) : Append(line, b)[j] = line[j]
  OBVIOUS
<1>4. ASSUME NEW p \in S \cup {n + 1}
      PROVE  Append(line, b)[Rank(p, S \cup {n + 1})] = text[p]
  <2>1. CASE p = n + 1
    BY <1>1, <1>2, <1>3, <2>1
  <2>2. CASE p \in S
    BY <1>1, <1>2, <1>3, <2>2
  <2>. QED BY <2>1, <2>2
<1>. QED BY <1>1, <1>2, <1>3, <1>4 DEF Spells

LEMMA EndsAre ==
    ASSUME NEW text, NEW n \in Nat
    PROVE  /\ Ends(text, n) \in SUBSET (1..n)
           /\ Begun(text, n) \in SUBSET (1..n)
           /\ text[n + 1] = NewLine => /\ Ends(text, n + 1) = Ends(text, n) \cup {n + 1}
                                       /\ Begun(text, n + 1) = {}
           /\ text[n + 1] # NewLine => /\ Ends(text, n + 1) = Ends(text, n)
                                       /\ Begun(text, n + 1) =
                                            IF Printed(text[n + 1]) THEN Begun(text, n) \cup {n + 1}
                                            ELSE Begun(text, n)
<1>1. Ends(text, n) \in SUBSET (1..n) /\ Begun(text, n) \in SUBSET (1..n)
  BY DEF Ends, Begun
<1>2. 1..(n + 1) = (1..n) \cup {n + 1}
  OBVIOUS
<1>3. Ends(text, n + 1) = Ends(text, n) \cup (IF text[n + 1] = NewLine THEN {n + 1} ELSE {})
  BY <1>2 DEF Ends
<1>4. \A r \in 1..(n + 1) : r..(n + 1) = (r..n) \cup {n + 1}
  OBVIOUS
<1>5. text[n + 1] = NewLine => Begun(text, n + 1) = {}
  BY <1>4 DEF Begun
<1>6. ASSUME text[n + 1] # NewLine
      PROVE  Begun(text, n + 1) = IF Printed(text[n + 1]) THEN Begun(text, n) \cup {n + 1}
                                  ELSE Begun(text, n)
  <2>1. \A r \in 1..n : r \in Begun(text, n + 1) <=> r \in Begun(text, n)
    BY <1>2, <1>4, <1>6 DEF Begun
  <2>2. n + 1 \in Begun(text, n + 1) <=> Printed(text[n + 1])
    <3>1. (n + 1)..n = {}  OBVIOUS
    <3>. QED BY <1>2, <1>4, <1>6, <3>1 DEF Begun
  <2>3. Begun(text, n + 1) \subseteq 1..(n + 1) /\ Begun(text, n) \subseteq 1..n
    BY DEF Begun
  <2>. QED BY <1>2, <2>1, <2>2, <2>3
<1>. QED BY <1>1, <1>3, <1>5, <1>6

\* At the beginning of a text nothing has been obeyed or kept.
LEMMA WholeAtStart ==
    ASSUME NEW text
    PROVE  AreLines(<<>>, text, 0) /\ Spells(<<>>, text, Begun(text, 0))
<1>1. Ends(text, 0) = {} /\ Begun(text, 0) = {}
  BY DEF Ends, Begun
<1>2. Cardinality({}) = 0 /\ Len(<<>>) = 0
  BY FS_EmptySet
<1>. QED BY <1>1, <1>2 DEF AreLines, Spells

\* The lines are those so far and the one that ends now.
LEMMA LineMore ==
    ASSUME NEW L, NEW obeyed \in Seq(L), NEW line \in L, NEW text, NEW n \in Nat,
           AreLines(obeyed, text, n), Spells(line, text, Begun(text, n)), text[n + 1] = NewLine
    PROVE  /\ AreLines(Append(obeyed, line), text, n + 1)
           /\ Spells(<<>>, text, Begun(text, n + 1))
<1> DEFINE S == Ends(text, n)
<1>1. S \in SUBSET (1..n) /\ Ends(text, n + 1) = S \cup {n + 1} /\ Begun(text, n + 1) = {}
  BY EndsAre
<1>2. /\ Cardinality(S) \in Nat
      /\ Cardinality(S \cup {n + 1}) = Cardinality(S) + 1
      /\ Rank(n + 1, S \cup {n + 1}) = Cardinality(S) + 1
      /\ \A p \in S : /\ Rank(p, S \cup {n + 1}) = Rank(p, S)
                      /\ Rank(p, S) \in 1..Cardinality(S)
  BY <1>1, RankOfNext
<1>3. Len(obeyed) = Cardinality(S)
      /\ \A p \in S : Spells(obeyed[Rank(p, S)], text, Begun(text, p - 1))
  BY DEF AreLines
<1>4. /\ Len(Append(obeyed, line)) = Len(obeyed) + 1
      /\ Append(obeyed, line)[Len(obeyed) + 1] = line
      /\ \A j \in 1..Len(obeyed) : Append(obeyed, line)[j] = obeyed[j]
  OBVIOUS
<1> HIDE DEF S
<1>5. ASSUME NEW p \in S \cup {n + 1}
      PROVE  Spells(Append(obeyed, line)[Rank(p, S \cup {n + 1})], text, Begun(text, p - 1))
  <2>1. CASE p = n + 1
    <3>1. p - 1 = n
      BY <2>1
    <3>. QED BY <1>2, <1>3, <1>4, <2>1, <3>1
  <2>2. CASE p \in S
    <3>1. Append(obeyed, line)[Rank(p, S \cup {n + 1})] = obeyed[Rank(p, S)]
      BY <1>2, <1>3, <1>4, <2>2
    <3>. QED BY <1>3, <2>2, <3>1
  <2>. QED BY <2>1, <2>2
<1>6. AreLines(Append(obeyed, line), text, n + 1)
  BY <1>1, <1>2, <1>3, <1>4, <1>5 DEF AreLines
<1>7. Spells(<<>>, text, {})
  BY FS_EmptySet DEF Spells
<1>. QED BY <1>1, <1>6, <1>7

\* The byte is not the end of a line.
LEMMA LineGoesOn ==
    ASSUME NEW M, NEW line \in Seq(M), NEW b \in M, NEW obeyed, NEW text, NEW n \in Nat,
           AreLines(obeyed, text, n), Spells(line, text, Begun(text, n)), text[n + 1] = b,
           b # NewLine
    PROVE  /\ AreLines(obeyed, text, n + 1)
           /\ Printed(b) => Spells(Append(line, b), text, Begun(text, n + 1))
           /\ ~Printed(b) => Spells(line, text, Begun(text, n + 1))
<1>1. /\ Ends(text, n + 1) = Ends(text, n) /\ Begun(text, n) \in SUBSET (1..n)
      /\ Begun(text, n + 1) = IF Printed(b) THEN Begun(text, n) \cup {n + 1} ELSE Begun(text, n)
  BY EndsAre
<1>2. AreLines(obeyed, text, n + 1)
  BY <1>1 DEF AreLines
<1>3. PICK S \in SUBSET (1..n) : S = Begun(text, n)
  BY <1>1
<1>4. Spells(Append(line, b), text, S \cup {n + 1})
  BY <1>3, SpellsMore
<1>. QED BY <1>1, <1>2, <1>3, <1>4

-----------------------------------------------------------------------------
(* The lines *)

\* The first n bytes of a stream are the lines that have been obeyed and this one.
Whole(e, line, n) ==
    \/ e.misread \/ e.overlong
    \/ AreLines(e.obeyed, e.text, n) /\ Spells(line, e.text, Begun(e.text, n))

\* What a stream keeps in a step that does not read from it.
SameSoFar(e, f) ==
    /\ f.text = e.text /\ f.read = e.read /\ f.obeyed = e.obeyed
    /\ f.misread = e.misread /\ f.overlong = e.overlong

\* An entry that is not being read from.
Resting(i) == i \in DOMAIN inputs /\ inputs[i].fd # Unused /\ ~(scan # NoScan /\ scan.slot = i)

\* How many bytes the scan has gone through.
Scanned == streams[inputs[scan.slot].fd].read - scan.size + scan.head - 1

ScanWhole ==
    scan # NoScan =>
        LET e == streams[inputs[scan.slot].fd] IN
        /\ inputs[scan.slot].fd # Unused
        /\ scan.size <= e.read
        /\ Whole(e, LineSoFar, Scanned)
        /\ e.misread \/ e.overlong \/
             \A j \in scan.head..scan.size :
                scan.buf[scan.offset + j] = e.text[e.read - scan.size + j]

\* The inductive invariant: each stream is read into one entry, what is in the entry goes on
\* where the lines that were obeyed end, and the scan has the rest of what was read before it.
LineInv ==
    /\ \A i, j \in DOMAIN inputs :
         inputs[i].fd # Unused /\ inputs[i].fd = inputs[j].fd => i = j
    /\ \A s \in DOMAIN streams : s > opened => streams[s].read = 0 /\ streams[s].obeyed = <<>>
    /\ \A i \in DOMAIN inputs :
         Resting(i) => Whole(streams[inputs[i].fd], inputs[i].buf, streams[inputs[i].fd].read)
    /\ ScanWhole

LEMMA LineInvWhole == LineInv => LinesAreWhole
BY DEF LineInv, Resting, Whole, LinesAreWhole

LEMMA StreamKeepsSoFar ==
    ASSUME NEW e \in GoodStream
    PROVE  /\ \A n : SameSoFar(e, [e EXCEPT !.written = n])
           /\ SameSoFar(e, [e EXCEPT !.gone = TRUE])
<1>1. ASSUME NEW n PROVE SameSoFar(e, [e EXCEPT !.written = n])
  BY DEF GoodStream, StreamType, SameSoFar
<1>2. SameSoFar(e, [e EXCEPT !.gone = TRUE])
  BY DEF GoodStream, StreamType, SameSoFar
<1>. QED BY <1>1, <1>2

LEMMA WholeSame ==
    ASSUME NEW e, NEW f, SameSoFar(e, f), NEW line, NEW n, Whole(e, line, n)
    PROVE  Whole(f, line, n)
BY DEF SameSoFar, Whole

\* A step of a client: the entries and the scan stay, and the streams are the same so far.
LEMMA ClientsKeepLines ==
    ASSUME ControlTyped, LineInv, UNCHANGED <<inputs, opened, scan>>,
           DOMAIN streams \subseteq DOMAIN streams',
           \A s \in DOMAIN streams : SameSoFar(streams[s], streams'[s]),
           \A s \in DOMAIN streams' \ DOMAIN streams :
                streams'[s].read = 0 /\ streams'[s].obeyed = <<>>
    PROVE  LineInv'
<1>1. ASSUME NEW i \in DOMAIN inputs, inputs[i].fd # Unused
      PROVE  inputs[i].fd \in DOMAIN streams
    BY <1>1, InputTyped DEF ControlTyped, Unused
<1>2. ASSUME NEW i \in DOMAIN inputs', Resting(i)'
      PROVE  Whole(streams[inputs[i].fd], inputs[i].buf, streams[inputs[i].fd].read)'
  <2>1. i \in DOMAIN inputs /\ Resting(i)
    BY <1>2 DEF Resting
  <2>2. PICK e, f, line, n : /\ e = streams[inputs[i].fd] /\ f = streams'[inputs[i].fd]
                             /\ line = inputs[i].buf /\ n = e.read
    OBVIOUS
  <2>3. Whole(e, line, n) /\ SameSoFar(e, f)
    BY <1>1, <2>1, <2>2 DEF LineInv, Resting
  <2>4. Whole(f, line, n) /\ f.read = n
    BY <2>2, <2>3, WholeSame DEF SameSoFar
  <2>. QED BY <2>2, <2>4 DEF Whole
<1>3. ScanWhole'
  <2> SUFFICES ASSUME scan # NoScan
               PROVE  ScanWhole'
    BY DEF ScanWhole
  <2>1. scan.slot \in DOMAIN inputs
    BY ScanTyped
  <2>2. PICK e, f, line, n : /\ e = streams[inputs[scan.slot].fd]
                             /\ f = streams'[inputs[scan.slot].fd]
                             /\ line = LineSoFar /\ n = Scanned
    OBVIOUS
  <2>3. inputs[scan.slot].fd # Unused /\ Whole(e, line, n) /\ scan.size <= e.read
        /\ (e.misread \/ e.overlong \/
             \A j \in scan.head..scan.size :
                scan.buf[scan.offset + j] = e.text[e.read - scan.size + j])
    BY <2>2 DEF LineInv, ScanWhole
  <2>4. SameSoFar(e, f)
    BY <1>1, <2>1, <2>2, <2>3
  <2>5. Whole(f, line, n)
    BY <2>3, <2>4, WholeSame
  <2>6. LineSoFar' = line /\ Scanned' = n
    BY <2>2, <2>4 DEF LineSoFar, Scanned, SameSoFar
  <2>7. scan.size <= f.read /\ (f.misread \/ f.overlong \/
             \A j \in scan.head..scan.size :
                scan.buf[scan.offset + j] = f.text[f.read - scan.size + j])
    BY <2>3, <2>4 DEF SameSoFar
  <2>8. Whole(f, LineSoFar', Scanned')
    BY <2>5, <2>6
  <2>9. Whole(streams[inputs[scan.slot].fd], LineSoFar, Scanned)'
    BY <2>2, <2>8 DEF Whole
  <2>. QED BY <2>2, <2>3, <2>7, <2>9 DEF ScanWhole
<1>4. ASSUME NEW s \in DOMAIN streams', s > opened'
      PROVE  streams'[s].read = 0 /\ streams'[s].obeyed = <<>>
  BY <1>4 DEF LineInv, SameSoFar
<1>. QED BY <1>2, <1>3, <1>4 DEF LineInv

LEMMA StreamRange ==
    ASSUME ControlTyped
    PROVE  /\ streams \in Seq(GoodStream) /\ DOMAIN streams = 1..Len(streams)
           /\ \A s \in DOMAIN streams : streams[s] \in GoodStream
           /\ \A i \in DOMAIN inputs : /\ inputs[i].fd \in 0..opened
                                       /\ inputs[i].fd # Unused => inputs[i].fd \in DOMAIN streams
<1>1. streams \in Seq(GoodStream) /\ DOMAIN streams = 1..Len(streams) /\ opened \in 0..Len(streams)
  BY DEF ControlTyped
<1>2. \A s \in DOMAIN streams : streams[s] \in GoodStream
  BY <1>1, ElementOfSeq
<1>. QED BY <1>1, <1>2, InputTyped DEF Unused

LEMMA CallKeepsLines == ControlTyped /\ LineInv /\ Call => LineInv'
<1> SUFFICES ASSUME ControlTyped, LineInv, Call PROVE LineInv'
  OBVIOUS
<1>1. PICK f \in GoodStream : streams' = Append(streams, f) /\ f.read = 0 /\ f.obeyed = <<>>
  <2> DEFINE source == [type |-> "client", text |-> Head(callers)]
  <2>1. source \in Source
    BY HeadTailProperties DEF Call, ControlTyped, Source
  <2>2. streams' = Append(streams, Stream(source))
    BY DEF Call
  <2>3. Stream(source).read = 0 /\ Stream(source).obeyed = <<>>
    BY DEF Stream
  <2>. QED BY <2>1, <2>2, <2>3, StreamNew
<1>2. streams \in Seq(GoodStream) /\ DOMAIN streams = 1..Len(streams) /\ Len(streams) \in Nat
  BY StreamRange
<1>3. /\ DOMAIN streams' = 1..(Len(streams) + 1) /\ streams'[Len(streams) + 1] = f
      /\ \A s \in DOMAIN streams : streams'[s] = streams[s]
  BY <1>1, <1>2
<1>4. \A s \in DOMAIN streams : SameSoFar(streams[s], streams'[s])
  BY <1>3 DEF SameSoFar
<1>5. \A s \in DOMAIN streams' \ DOMAIN streams : streams'[s].read = 0 /\ streams'[s].obeyed = <<>>
  BY <1>1, <1>2, <1>3
<1>. QED BY <1>2, <1>3, <1>4, <1>5, ClientsKeepLines DEF Call

LEMMA WritersKeepLines ==
    ASSUME ControlTyped, LineInv, NEW s \in DOMAIN streams, Write(s) \/ Close(s)
    PROVE  LineInv'
<1>1. PICK e \in GoodStream : e = streams[s]
  BY StreamRange
<1>2. PICK f : streams' = [streams EXCEPT ![s] = f] /\ SameSoFar(e, f)
  <2>1. CASE Write(s)
    <3>1. PICK n : streams' = [streams EXCEPT ![s].written = n]
      BY <2>1 DEF Write
    <3>2. streams' = [streams EXCEPT ![s] = [e EXCEPT !.written = n]]
      BY <1>1, <3>1
    <3>. QED BY <3>2, StreamKeepsSoFar
  <2>2. CASE Close(s)
    <3>1. streams' = [streams EXCEPT ![s] = [e EXCEPT !.gone = TRUE]]
      BY <1>1, <2>2 DEF Close
    <3>. QED BY <3>1, StreamKeepsSoFar
  <2>. QED BY <2>1, <2>2
<1>3. DOMAIN streams' = DOMAIN streams
      /\ \A t \in DOMAIN streams : streams'[t] = IF t = s THEN f ELSE streams[t]
  BY <1>2, StreamRange
<1>4. \A t \in DOMAIN streams : SameSoFar(streams[t], streams'[t])
  BY <1>1, <1>2, <1>3 DEF SameSoFar
<1>. QED BY <1>3, <1>4, ClientsKeepLines DEF Write, Close

\* The new client's entry is empty, and so is what was read from it.
LEMMA AcceptKeepsLines ==
    ASSUME ControlTyped, LineInv, NEW i \in DOMAIN inputs, ControlAccept(i)
    PROVE  LineInv'
<1>1. /\ scan = NoScan /\ opened < Len(streams) /\ opened' = opened + 1
      /\ UNCHANGED <<streams, scan, callers>>
  BY DEF ControlAccept
<1>2. PICK j \in 1..(Len(inputs) + 1) :
        inputs' = [l \in DOMAIN inputs \cup {j} |->
                     IF l = j THEN Reused(j, opened') ELSE inputs[l]]
  BY DEF ControlAccept
<1>3. /\ opened \in Nat /\ Len(streams) \in Nat /\ opened' \in DOMAIN streams
      /\ \A l \in DOMAIN inputs : inputs[l].fd \in 0..opened
  BY <1>1, StreamRange DEF ControlTyped
<1>4. PICK e : e = Reused(j, opened')
  OBVIOUS
<1>5. e.fd = opened' /\ e.buf = <<>>
  <2>1. CASE j \in DOMAIN inputs
    BY <1>4, <2>1 DEF Reused, Input
  <2>2. CASE j \notin DOMAIN inputs
    BY <1>4, <2>2 DEF Reused, Input
  <2>. QED BY <2>1, <2>2
<1>6. DOMAIN inputs' = DOMAIN inputs \cup {j} /\ inputs'[j] = e
      /\ \A l \in DOMAIN inputs \ {j} : inputs'[l] = inputs[l]
  BY <1>2, <1>4
<1>7. \A l \in DOMAIN inputs \ {j} : inputs'[l].fd # opened'
  BY <1>1, <1>3, <1>6
<1>8. \A k, l \in DOMAIN inputs' :
         inputs'[k].fd # Unused /\ inputs'[k].fd = inputs'[l].fd => k = l
  BY <1>5, <1>6, <1>7 DEF LineInv
<1>9. \A s \in DOMAIN streams : s > opened + 1 => streams[s].read = 0 /\ streams[s].obeyed = <<>>
  BY <1>3, StreamRange DEF LineInv
<1>10. streams[opened'].read = 0 /\ streams[opened'].obeyed = <<>>
  BY <1>1, <1>3 DEF LineInv
<1>11. ASSUME NEW l \in DOMAIN inputs', Resting(l)'
       PROVE  Whole(streams[inputs[l].fd], inputs[l].buf, streams[inputs[l].fd].read)'
  <2>1. CASE l = j
    <3>1. PICK f : f = streams[opened']
      OBVIOUS
    <3>2. Whole(f, <<>>, 0)
      BY <1>10, <3>1, WholeAtStart DEF Whole
    <3>3. /\ streams'[inputs'[l].fd] = f /\ inputs'[l].buf = <<>> /\ f.read = 0
      BY <1>1, <1>5, <1>6, <1>10, <2>1, <3>1
    <3>. QED BY <3>2, <3>3 DEF Whole
  <2>2. CASE l # j
    <3>1. l \in DOMAIN inputs /\ inputs'[l] = inputs[l]
      BY <1>6, <2>2
    <3>2. Resting(l)
      BY <1>1, <1>11, <3>1 DEF Resting
    <3>3. Whole(streams[inputs[l].fd], inputs[l].buf, streams[inputs[l].fd].read)
      BY <3>1, <3>2 DEF LineInv
    <3>. QED BY <1>1, <3>1, <3>3 DEF Whole
  <2>. QED BY <2>1, <2>2
<1>12. ScanWhole'
  BY <1>1 DEF ScanWhole
<1>. QED BY <1>1, <1>8, <1>9, <1>11, <1>12 DEF LineInv

\* A step of control_data concerns one entry and the stream it is for.
LEMMA OthersKeepLines ==
    ASSUME ControlTyped, LineInv, NEW k \in DOMAIN inputs, inputs[k].fd # Unused,
           DOMAIN inputs' = DOMAIN inputs,
           \A i \in DOMAIN inputs \ {k} : inputs'[i] = inputs[i],
           inputs'[k].fd \in {inputs[k].fd, Unused},
           DOMAIN streams' = DOMAIN streams,
           \A s \in DOMAIN streams \ {inputs[k].fd} : streams'[s] = streams[s],
           opened' = opened,
           scan = NoScan \/ scan.slot = k,
           scan' = NoScan \/ scan'.slot = k,
           Resting(k)' =>
             Whole(streams[inputs[k].fd], inputs[k].buf, streams[inputs[k].fd].read)',
           ScanWhole'
    PROVE  LineInv'
<1>1. \A i, j \in DOMAIN inputs' :
         inputs'[i].fd # Unused /\ inputs'[i].fd = inputs'[j].fd => i = j
  BY DEF LineInv
<1>2. ASSUME NEW s \in DOMAIN streams', s > opened'
      PROVE  streams'[s].read = 0 /\ streams'[s].obeyed = <<>>
  <2>1. s # inputs[k].fd
    BY <1>2, StreamRange DEF ControlTyped
  <2>. QED BY <1>2, <2>1 DEF LineInv
<1>3. ASSUME NEW i \in DOMAIN inputs', Resting(i)', i # k
      PROVE  Whole(streams[inputs[i].fd], inputs[i].buf, streams[inputs[i].fd].read)'
  <2>1. inputs'[i] = inputs[i] /\ inputs[i].fd # Unused /\ i \in DOMAIN inputs
    BY <1>3 DEF Resting
  <2>2. Resting(i)
    BY <1>3, <2>1 DEF Resting
  <2>3. inputs[i].fd # inputs[k].fd /\ inputs[i].fd \in DOMAIN streams
    BY <1>3, <2>1, StreamRange DEF LineInv
  <2>4. Whole(streams[inputs[i].fd], inputs[i].buf, streams[inputs[i].fd].read)
    BY <2>1, <2>2 DEF LineInv
  <2>. QED BY <2>1, <2>3, <2>4 DEF Whole
<1>. QED BY <1>1, <1>2, <1>3 DEF LineInv

LEMMA ReadNothingKeepsLines ==
    ASSUME ControlTyped, LineInv, NEW k \in DOMAIN inputs, ReadNothing(k)
    PROVE  LineInv'
<1> DEFINE e == ControlClosed(Enlarged(inputs[k]))
<1>1. /\ scan = NoScan /\ inputs[k].fd # Unused /\ inputs' = [inputs EXCEPT ![k] = e]
      /\ UNCHANGED <<streams, opened, scan, callers>>
  BY DEF ReadNothing
<1>2. e.fd = Unused
  <2>1. opened \in Nat /\ inputs[k] \in InputType
    BY InputTyped DEF ControlTyped
  <2>2. PICK g \in InputType : g = Enlarged(inputs[k])
    BY <2>1, EnlargedTyped
  <2>3. ControlClosed(g).fd = Unused
    BY DEF ControlClosed, InputType
  <2>. QED BY <2>2, <2>3
<1> HIDE DEF e
<1>3. /\ DOMAIN inputs' = DOMAIN inputs /\ inputs'[k].fd = Unused
      /\ \A i \in DOMAIN inputs \ {k} : inputs'[i] = inputs[i]
  BY <1>1, <1>2 DEF ControlTyped
<1>4. ~Resting(k)' /\ ScanWhole'
  BY <1>1, <1>3 DEF Resting, ScanWhole
<1>. QED BY <1>1, <1>3, <1>4, OthersKeepLines

\* What is read of a text.
LEMMA PieceOf ==
    ASSUME NEW t \in Seq(Bytes), NEW m \in Nat, NEW n \in Nat, m <= n, n <= Len(t)
    PROVE  /\ SubSeq(t, m + 1, n) \in Seq(Bytes) /\ Len(SubSeq(t, m + 1, n)) = n - m
           /\ \A j \in 1..(n - m) : SubSeq(t, m + 1, n)[j] = t[m + j]
<1>1. PICK l \in Int : l = m + 1
  OBVIOUS
<1>2. \A j \in l..n : t[j] \in Bytes
  BY <1>1, ElementOfSeq
<1>3. /\ SubSeq(t, l, n) \in Seq(Bytes)
      /\ Len(SubSeq(t, l, n)) = IF l <= n THEN n - l + 1 ELSE 0
      /\ \A j \in 1..(n - l + 1) : SubSeq(t, l, n)[j] = t[l + j - 1]
  BY <1>2, SubSeqProperties
<1>4. n - l + 1 = n - m /\ (~(l <= n) => n - m = 0)
  BY <1>1
<1>5. \A j \in 1..(n - m) : l + j - 1 = m + j
  BY <1>1
<1>. QED BY <1>1, <1>3, <1>4, <1>5

\* What is read comes after what is kept, and the scan begins where it stopped.
LEMMA ReadKeepsLines ==
    ASSUME ControlTyped, ControlTyped', LineInv, NEW k \in DOMAIN inputs, Read(k)
    PROVE  LineInv'
<1> DEFINE g == Enlarged(inputs[k])
<1>1. /\ opened \in Nat /\ inputs[k] \in InputType
      /\ g \in InputType /\ g.buf = inputs[k].buf /\ g.fd = inputs[k].fd
  BY InputTyped, EnlargedTyped DEF ControlTyped
<1>2. PICK s : s = inputs[k].fd
  OBVIOUS
<1>3. PICK b \in Seq(Memory) : b = inputs[k].buf
  BY <1>1 DEF InputType
<1>4. PICK e \in GoodStream : e = streams[s]
  BY <1>1, <1>2, StreamRange DEF Read
<1>5. /\ scan = NoScan /\ s # Unused /\ s \in DOMAIN streams
  BY <1>1, <1>2, StreamRange DEF Read
<1>6. PICK n : n = e.read + ReadCount(g)
  OBVIOUS
<1>7. /\ inputs' = [inputs EXCEPT ![k] = g]
      /\ streams' = [streams EXCEPT ![s] = [e EXCEPT !.read = n]]
      /\ scan' = [slot |-> k, offset |-> Len(b), size |-> n - e.read,
                  buf |-> b \o SubSeq(e.text, e.read + 1, n), head |-> 1, kept |-> 0]
      /\ UNCHANGED <<opened, callers>>
  BY <1>1, <1>2, <1>3, <1>4, <1>6 DEF Read
<1>8. PICK f : f = [e EXCEPT !.read = n]
  OBVIOUS
<1>9. /\ f.text = e.text /\ f.obeyed = e.obeyed /\ f.misread = e.misread
      /\ f.overlong = e.overlong /\ f.read = n
  BY <1>8 DEF GoodStream, StreamType
<1> HIDE DEF g
<1>10. /\ DOMAIN inputs' = DOMAIN inputs /\ inputs'[k] = g
       /\ \A i \in DOMAIN inputs \ {k} : inputs'[i] = inputs[i]
  BY <1>7 DEF ControlTyped
<1>11. /\ DOMAIN streams' = DOMAIN streams /\ streams'[s] = f
       /\ \A t \in DOMAIN streams \ {s} : streams'[t] = streams[t]
  BY <1>5, <1>7, <1>8, StreamRange
<1>12. scan' # NoScan
  <2>1. k # 0
    BY DEF ControlTyped
  <2>. QED BY <1>7, <2>1 DEF NoScan
<1>13. n \in Nat /\ e.read \in Nat /\ n - e.read \in Nat
       /\ n <= Len(e.text) /\ e.text \in Seq(Bytes)
  <2>1. f \in GoodStream
    <3>1. streams' \in Seq(GoodStream)
      BY DEF ControlTyped
    <3>2. \A t \in DOMAIN streams' : streams'[t] \in GoodStream
      BY <3>1, ElementOfSeq
    <3>. QED BY <1>5, <1>11, <3>2
  <2>2. f.read \in Nat /\ f.read <= f.written /\ f.written <= Len(f.text)
        /\ f.written \in Nat /\ f.text \in Seq(Bytes)
    BY <2>1, StreamTyped
  <2>3. scan' \in ScanType'
    BY <1>12 DEF ControlTyped
  <2>4. n - e.read \in Nat
    BY <1>7, <2>3 DEF ScanType
  <2>. QED BY <1>9, <2>2, <2>4, StreamTyped
<1>14. Whole(e, b, e.read)
  <2>1. Resting(k)
    BY <1>2, <1>5 DEF Resting
  <2>. QED BY <1>2, <1>3, <1>4, <2>1 DEF LineInv
<1>15. Whole(f, b, e.read)
  BY <1>9, <1>14 DEF Whole
<1> DEFINE piece == SubSeq(e.text, e.read + 1, n)
<1>16. /\ piece \in Seq(Bytes) /\ Len(piece) = n - e.read
       /\ \A j \in 1..(n - e.read) : piece[j] = e.text[e.read + j]
  <2>1. PICK t \in Seq(Bytes), m \in Nat : t = e.text /\ m = e.read
    BY <1>13
  <2>2. m <= n /\ n <= Len(t)
    BY <1>13, <2>1
  <2>3. /\ SubSeq(t, m + 1, n) \in Seq(Bytes) /\ Len(SubSeq(t, m + 1, n)) = n - m
        /\ \A j \in 1..(n - m) : SubSeq(t, m + 1, n)[j] = t[m + j]
    BY <1>13, <2>2, PieceOf
  <2>. QED BY <2>1, <2>3
<1> HIDE DEF piece
<1>17. PICK q \in Seq(Memory) : q = piece /\ Len(q) = n - e.read
  <2>1. Bytes \subseteq Memory
    BY DEF Memory
  <2>2. \A j \in 1..Len(piece) : piece[j] \in Memory
    BY <1>16, <2>1, ElementOfSeq
  <2>3. piece \in Seq(Memory)
    BY <1>16, <2>2
  <2>. QED BY <1>16, <2>3
<1>18. scan' = [slot |-> k, offset |-> Len(b), size |-> n - e.read, buf |-> b \o q,
                head |-> 1, kept |-> 0]
  BY <1>7, <1>17 DEF piece
<1>19. Len(b) \in Nat /\ Len(q) \in Nat /\ SubSeq(b \o q, 1, Len(b)) = b
       /\ \A j \in 1..Len(q) : (b \o q)[Len(b) + j] = q[j]
  OBVIOUS
<1>20. LineSoFar' = b
  <2>1. LineSoFar' = SubSeq(b \o q, 1, Len(b) + 0)
    BY <1>18 DEF LineSoFar
  <2>. QED BY <1>19, <2>1
<1>21. inputs'[k].fd = s
  BY <1>1, <1>2, <1>10
<1>22. Scanned' = e.read
  <2>1. Scanned' = n - (n - e.read) + 1 - 1
    BY <1>9, <1>11, <1>18, <1>21 DEF Scanned
  <2>. QED BY <1>13, <2>1
<1>23. \A j \in 1..(n - e.read) : (b \o q)[Len(b) + j] = f.text[n - (n - e.read) + j]
  <2>1. n - (n - e.read) = e.read
    BY <1>13
  <2>. QED BY <1>9, <1>16, <1>17, <1>19, <2>1
<1>24. n - e.read <= n
  BY <1>13
<1>25. ScanWhole'
  <2>1. streams'[inputs'[scan'.slot].fd] = f /\ inputs'[scan'.slot].fd # Unused
    BY <1>5, <1>11, <1>18, <1>21
  <2>2. Whole(f, LineSoFar', Scanned')
    BY <1>15, <1>20, <1>22
  <2>3. Whole(streams[inputs[scan.slot].fd], LineSoFar, Scanned)'
    BY <2>1, <2>2 DEF Whole
  <2>4. scan'.size <= f.read
    BY <1>9, <1>18, <1>24
  <2>5. \A j \in scan'.head..scan'.size :
            scan'.buf[scan'.offset + j] = f.text[f.read - scan'.size + j]
    BY <1>9, <1>18, <1>23
  <2>. QED BY <2>1, <2>3, <2>4, <2>5 DEF ScanWhole
<1>26. ~Resting(k)' /\ scan'.slot = k
  BY <1>12, <1>18 DEF Resting
<1>. QED BY <1>2, <1>5, <1>7, <1>10, <1>11, <1>21, <1>25, <1>26, OthersKeepLines

\* The byte the scan is at is the next one of the text.
LEMMA NextByte ==
    ASSUME ControlTyped, LineInv, AtByte
    PROVE  \E e \in GoodStream, n \in Nat :
             /\ scan # NoScan /\ scan.slot \in DOMAIN inputs
             /\ inputs[scan.slot].fd # Unused /\ inputs[scan.slot].fd \in DOMAIN streams
             /\ e = streams[inputs[scan.slot].fd] /\ n = Scanned
             /\ n + 1 = e.read - scan.size + scan.head
             /\ scan.size <= e.read
             /\ Whole(e, LineSoFar, n)
             /\ e.misread \/ e.overlong \/ (e.text[n + 1] = Byte /\ Byte \in Bytes)
             /\ e.misread \/ e.overlong \/
                  \A j \in scan.head..scan.size :
                     scan.buf[scan.offset + j] = e.text[e.read - scan.size + j]
<1>1. scan # NoScan /\ scan.head <= scan.size /\ scan.slot \in DOMAIN inputs
  BY ScanTyped DEF AtByte
<1>2. /\ scan.head \in Nat /\ scan.size \in Nat /\ scan.head >= 1
  BY <1>1, ScanTyped
<1>3. inputs[scan.slot].fd # Unused
  BY <1>1 DEF LineInv, ScanWhole
<1>4. inputs[scan.slot].fd \in DOMAIN streams
  BY <1>1, <1>3, StreamRange
<1>5. PICK e \in GoodStream : e = streams[inputs[scan.slot].fd]
  BY <1>4, StreamRange
<1>6. /\ scan.size <= e.read /\ Whole(e, LineSoFar, Scanned)
      /\ e.misread \/ e.overlong \/
           \A j \in scan.head..scan.size :
              scan.buf[scan.offset + j] = e.text[e.read - scan.size + j]
  BY <1>1, <1>5 DEF LineInv, ScanWhole
<1>7. /\ e.read \in Nat /\ e.text \in Seq(Bytes) /\ e.read <= Len(e.text)
  <2>1. e.read \in Nat /\ e.text \in Seq(Bytes) /\ e.read <= e.written /\ e.written <= Len(e.text)
        /\ e.written \in Nat
    BY StreamTyped
  <2>. QED BY <2>1
<1>8. PICK n \in Int : n = e.read - scan.size + scan.head - 1
  BY <1>2, <1>7
<1>9. Scanned = n
  BY <1>5, <1>8 DEF Scanned
<1>10. n \in Nat /\ n + 1 = e.read - scan.size + scan.head /\ n + 1 \in 1..Len(e.text)
  BY <1>1, <1>2, <1>6, <1>7, <1>8
<1>11. e.misread \/ e.overlong \/ (e.text[n + 1] = Byte /\ Byte \in Bytes)
  <2>1. e.text[n + 1] \in Bytes
    BY <1>7, <1>10, ElementOfSeq
  <2>2. scan.head \in scan.head..scan.size
    BY <1>1, <1>2
  <2>. QED BY <1>6, <1>10, <2>1, <2>2 DEF Byte
<1>. QED BY <1>1, <1>3, <1>4, <1>5, <1>6, <1>9, <1>10, <1>11

\* A step of the scan: the entry stays, and the stream but for what has been obeyed.
LEMMA ScanKeepsLines ==
    ASSUME ControlTyped, LineInv, scan # NoScan, scan' # NoScan, scan'.slot = scan.slot,
           scan'.size = scan.size, scan'.head = scan.head + 1,
           UNCHANGED <<inputs, opened>>, inputs[scan.slot].fd # Unused,
           NEW e, NEW f, NEW n \in Nat, NEW line, NEW b,
           e = streams[inputs[scan.slot].fd], streams' = [streams EXCEPT ![inputs[scan.slot].fd] = f],
           f.read = e.read, n + 1 = e.read - scan.size + scan.head, scan.size <= e.read,
           e.read \in Nat,
           LineSoFar' = line, Whole(f, line, n + 1),
           f.misread \/ f.overlong \/
             \A j \in (scan.head + 1)..scan.size :
                scan'.buf[scan'.offset + j] = f.text[e.read - scan.size + j]
    PROVE  LineInv'
<1>1. scan.slot \in DOMAIN inputs /\ scan.size \in Nat /\ scan.head \in Nat
  BY ScanTyped
<1>2. PICK k, s : k = scan.slot /\ s = inputs[k].fd
  OBVIOUS
<1>3. s \in DOMAIN streams /\ k \in DOMAIN inputs /\ s # Unused
  BY <1>1, <1>2, StreamRange
<1>4. /\ DOMAIN streams' = DOMAIN streams /\ streams'[s] = f
      /\ \A t \in DOMAIN streams \ {s} : streams'[t] = streams[t]
  BY <1>2, <1>3, StreamRange
<1>5. streams'[inputs'[scan'.slot].fd] = f
  BY <1>2, <1>4
<1>6. Scanned' = n + 1
  <2>1. Scanned' = e.read - scan.size + (scan.head + 1) - 1
    BY <1>5 DEF Scanned
  <2>. QED BY <1>1, <2>1
<1>7. Whole(f, LineSoFar', Scanned')
  BY <1>6
<1>8. Whole(streams[inputs[scan.slot].fd], LineSoFar, Scanned)'
  BY <1>5, <1>7 DEF Whole
<1>9. ScanWhole'
  BY <1>5, <1>8 DEF ScanWhole
<1>10. ~Resting(k)'
  BY <1>2 DEF Resting
<1>. QED BY <1>2, <1>3, <1>4, <1>9, <1>10, OthersKeepLines

\* The stream that is scanned, with the scan's parts as they are in the record.
LEMMA ScanRecord ==
    ASSUME ControlTyped, scan # NoScan
    PROVE  scan = [slot |-> scan.slot, buf |-> scan.buf, offset |-> scan.offset,
                   size |-> scan.size, head |-> scan.head, kept |-> scan.kept]
BY ScanTyped DEF ScanType

\* The line ends: it is obeyed, and the next one begins.
LEMMA EndLineKeepsLines == ControlTyped /\ LineInv /\ EndLine => LineInv'
<1> SUFFICES ASSUME ControlTyped, LineInv, EndLine PROVE LineInv'
  OBVIOUS
<1>1. AtByte /\ Byte = NewLine /\ UNCHANGED <<inputs, opened>>
  BY DEF EndLine
<1>2. PICK e \in GoodStream, n \in Nat :
             /\ scan # NoScan /\ scan.slot \in DOMAIN inputs
             /\ inputs[scan.slot].fd # Unused /\ inputs[scan.slot].fd \in DOMAIN streams
             /\ e = streams[inputs[scan.slot].fd] /\ n = Scanned
             /\ n + 1 = e.read - scan.size + scan.head
             /\ scan.size <= e.read
             /\ Whole(e, LineSoFar, n)
             /\ e.misread \/ e.overlong \/ (e.text[n + 1] = Byte /\ Byte \in Bytes)
             /\ e.misread \/ e.overlong \/
                  \A j \in scan.head..scan.size :
                     scan.buf[scan.offset + j] = e.text[e.read - scan.size + j]
  BY <1>1, NextByte
<1>3. /\ LineSoFar \in Seq(Memory) /\ Len(LineSoFar) = scan.offset + scan.kept
      /\ scan.buf \in Seq(Memory) /\ scan.offset \in Nat /\ scan.size \in Nat
      /\ scan.head \in Nat /\ scan.kept \in Nat /\ Len(scan.buf) \in Nat
      /\ scan.offset + scan.size <= Len(scan.buf)
      /\ scan.kept < scan.head /\ scan.head <= scan.size
  BY <1>1, <1>2, ScanTyped, LineTyped DEF AtByte
<1>4. PICK line \in Seq(Memory) : line = LineSoFar
  BY <1>3
<1>5. PICK cut : cut = (e.misread \/ (scan.offset > 0 /\ scan.head < scan.size))
  OBVIOUS
<1>6. PICK f : f = [e EXCEPT !.obeyed = Append(@, line), !.misread = cut]
  OBVIOUS
<1>7. streams' = [streams EXCEPT ![inputs[scan.slot].fd] = f]
  BY <1>2, <1>4, <1>5, <1>6 DEF EndLine
<1>8. /\ f.text = e.text /\ f.read = e.read /\ f.overlong = e.overlong /\ f.misread = cut
      /\ f.obeyed = Append(e.obeyed, line)
  BY <1>6 DEF GoodStream, StreamType
<1>9. scan' = [slot |-> scan.slot, buf |-> AfterCommand, offset |-> 0,
               size |-> scan.size, head |-> scan.head + 1, kept |-> 0]
  <2>1. PICK r : r = AfterCommand
    OBVIOUS
  <2>2. scan' = [scan EXCEPT !.buf = r, !.offset = 0, !.kept = 0, !.head = @ + 1]
    BY <2>1 DEF EndLine
  <2>3. scan' = [slot |-> scan.slot, buf |-> r, offset |-> 0,
               size |-> scan.size, head |-> scan.head + 1, kept |-> 0]
    BY <1>2, <2>2, ScanRecord
  <2>. QED BY <2>1, <2>3
<1>10. LineSoFar' = <<>>
  <2>1. LineSoFar' = SubSeq(AfterCommand, 1, 0 + 0)
    BY <1>9 DEF LineSoFar
  <2>. QED BY <2>1, SubSeqEmpty
<1>11. Whole(f, <<>>, n + 1)
  <2>1. CASE f.misread \/ f.overlong
    BY <2>1 DEF Whole
  <2>2. CASE ~f.misread /\ ~f.overlong
    <3>1. ~e.misread /\ ~e.overlong
      BY <1>5, <1>8, <2>2
    <3>2. AreLines(e.obeyed, e.text, n) /\ Spells(line, e.text, Begun(e.text, n))
      BY <1>2, <1>4, <3>1 DEF Whole
    <3>3. PICK obeyed, text : /\ obeyed = e.obeyed /\ obeyed \in Seq(Seq(Memory))
                              /\ text = e.text
      BY StreamTyped
    <3>4. /\ AreLines(obeyed, text, n) /\ Spells(line, text, Begun(text, n))
          /\ text[n + 1] = NewLine
      BY <1>1, <1>2, <3>1, <3>2, <3>3
    <3>. obeyed \in Seq(Seq(Memory))
      BY <3>3
    <3>5. /\ AreLines(Append(obeyed, line), text, n + 1)
          /\ Spells(<<>>, text, Begun(text, n + 1))
      BY <3>4, LineMore
    <3>. QED BY <1>8, <3>3, <3>5 DEF Whole
  <2>. QED BY <2>1, <2>2
<1>12. f.misread \/ f.overlong \/
         \A j \in (scan.head + 1)..scan.size :
            scan'.buf[scan'.offset + j] = f.text[e.read - scan.size + j]
  <2> SUFFICES ASSUME ~f.misread, ~f.overlong, NEW j \in (scan.head + 1)..scan.size
               PROVE  scan'.buf[scan'.offset + j] = f.text[e.read - scan.size + j]
    OBVIOUS
  <2>1. scan.offset = 0 /\ ~e.misread /\ ~e.overlong
    <3>1. scan.head < scan.size
      BY <1>3
    <3>2. ~cut /\ ~f.overlong
      BY <1>8
    <3>3. ~e.misread /\ ~(scan.offset > 0)
      BY <1>5, <3>1, <3>2
    <3>4. scan.offset = 0
      BY <1>3, <3>3
    <3>. QED BY <1>8, <3>2, <3>3, <3>4
  <2>2. j \in DOMAIN scan.buf /\ j \in scan.head..scan.size
    BY <1>3, <2>1
  <2>3. j # Len(LineSoFar) + 1 /\ j \notin DOMAIN LineSoFar
    BY <1>3, <2>1
  <2>4. AfterCommand[j] = scan.buf[j]
    BY <2>2, <2>3 DEF AfterCommand
  <2>5. scan.buf[scan.offset + j] = e.text[e.read - scan.size + j]
    BY <1>2, <2>1, <2>2
  <2>6. scan'.buf[scan'.offset + j] = AfterCommand[0 + j]
    BY <1>9
  <2>7. 0 + j = j /\ scan.offset + j = j
    BY <1>3, <2>1
  <2>. QED BY <1>8, <2>4, <2>5, <2>6, <2>7
<1>13. scan' # NoScan /\ scan'.slot = scan.slot /\ scan'.size = scan.size
       /\ scan'.head = scan.head + 1
  <2>1. scan.slot # 0
    BY <1>2 DEF ControlTyped
  <2>. QED BY <1>9, <2>1 DEF NoScan
<1>14. e.read \in Nat
  BY StreamTyped
<1>. QED BY <1>1, <1>2, <1>7, <1>8, <1>10, <1>11, <1>12, <1>13, <1>14, ScanKeepsLines

\* A control character is left out.
LEMMA StripByteKeepsLines == ControlTyped /\ LineInv /\ StripByte => LineInv'
<1> SUFFICES ASSUME ControlTyped, LineInv, StripByte PROVE LineInv'
  OBVIOUS
<1>1. AtByte /\ Byte \in {Unprinted, Nul} /\ UNCHANGED <<inputs, opened, streams>>
  BY DEF StripByte
<1>2. PICK e \in GoodStream, n \in Nat :
             /\ scan # NoScan /\ scan.slot \in DOMAIN inputs
             /\ inputs[scan.slot].fd # Unused /\ inputs[scan.slot].fd \in DOMAIN streams
             /\ e = streams[inputs[scan.slot].fd] /\ n = Scanned
             /\ n + 1 = e.read - scan.size + scan.head
             /\ scan.size <= e.read
             /\ Whole(e, LineSoFar, n)
             /\ e.misread \/ e.overlong \/ (e.text[n + 1] = Byte /\ Byte \in Bytes)
             /\ e.misread \/ e.overlong \/
                  \A j \in scan.head..scan.size :
                     scan.buf[scan.offset + j] = e.text[e.read - scan.size + j]
  BY <1>1, NextByte
<1>3. LineSoFar \in Seq(Memory) /\ scan.size \in Nat /\ scan.head \in Nat
  BY <1>2, ScanTyped, LineTyped
<1>4. PICK line \in Seq(Memory) : line = LineSoFar
  BY <1>3
<1>5. scan' = [slot |-> scan.slot, buf |-> scan.buf, offset |-> scan.offset,
               size |-> scan.size, head |-> scan.head + 1, kept |-> scan.kept]
  BY <1>2, ScanRecord DEF StripByte
<1>6. LineSoFar' = line
  BY <1>4, <1>5 DEF LineSoFar
<1>7. Whole(e, line, n + 1)
  <2>1. CASE e.misread \/ e.overlong
    BY <2>1 DEF Whole
  <2>2. CASE ~e.misread /\ ~e.overlong
    <3>1. AreLines(e.obeyed, e.text, n) /\ Spells(line, e.text, Begun(e.text, n))
      BY <1>2, <1>4, <2>2 DEF Whole
    <3>2. PICK b \in Memory : b = Byte /\ e.text[n + 1] = b /\ b # NewLine /\ ~Printed(b)
      BY <1>1, <1>2, <2>2 DEF Printed, Bytes, Memory, Unprinted, Nul, NewLine, Equals
    <3>3. PICK obeyed, text : obeyed = e.obeyed /\ text = e.text
      OBVIOUS
    <3>4. /\ AreLines(obeyed, text, n) /\ Spells(line, text, Begun(text, n))
          /\ text[n + 1] = b
      BY <3>1, <3>2, <3>3
    <3>5. AreLines(obeyed, text, n + 1) /\ (~Printed(b) => Spells(line, text, Begun(text, n + 1)))
      BY <3>2, <3>4, LineGoesOn
    <3>. QED BY <3>2, <3>3, <3>5 DEF Whole
  <2>. QED BY <2>1, <2>2
<1>8. e.misread \/ e.overlong \/
         \A j \in (scan.head + 1)..scan.size :
            scan'.buf[scan'.offset + j] = e.text[e.read - scan.size + j]
  <2>1. (scan.head + 1)..scan.size \subseteq scan.head..scan.size
    BY <1>3
  <2>. QED BY <1>2, <1>5, <2>1
<1>9. scan' # NoScan /\ scan'.slot = scan.slot /\ scan'.size = scan.size
       /\ scan'.head = scan.head + 1
  <2>1. scan.slot # 0
    BY <1>2 DEF ControlTyped
  <2>. QED BY <1>5, <2>1 DEF NoScan
<1>10. e.read \in Nat
  BY StreamTyped
<1>11. streams' = [streams EXCEPT ![inputs[scan.slot].fd] = e]
  BY <1>1, <1>2, StreamRange
<1>. QED BY <1>1, <1>2, <1>6, <1>7, <1>8, <1>9, <1>10, <1>11, ScanKeepsLines

\* Any other byte is kept, over those that were left out.
LEMMA KeepByteKeepsLines == ControlTyped /\ LineInv /\ KeepByte => LineInv'
<1> SUFFICES ASSUME ControlTyped, LineInv, KeepByte PROVE LineInv'
  OBVIOUS
<1>1. AtByte /\ Byte \notin {NewLine, Unprinted, Nul} /\ UNCHANGED <<inputs, opened, streams>>
  BY DEF KeepByte
<1>2. PICK e \in GoodStream, n \in Nat :
             /\ scan # NoScan /\ scan.slot \in DOMAIN inputs
             /\ inputs[scan.slot].fd # Unused /\ inputs[scan.slot].fd \in DOMAIN streams
             /\ e = streams[inputs[scan.slot].fd] /\ n = Scanned
             /\ n + 1 = e.read - scan.size + scan.head
             /\ scan.size <= e.read
             /\ Whole(e, LineSoFar, n)
             /\ e.misread \/ e.overlong \/ (e.text[n + 1] = Byte /\ Byte \in Bytes)
             /\ e.misread \/ e.overlong \/
                  \A j \in scan.head..scan.size :
                     scan.buf[scan.offset + j] = e.text[e.read - scan.size + j]
  BY <1>1, NextByte
<1>3. /\ LineSoFar \in Seq(Memory) /\ Len(LineSoFar) = scan.offset + scan.kept
      /\ scan.buf \in Seq(Memory) /\ scan.offset \in Nat /\ scan.size \in Nat
      /\ scan.head \in Nat /\ scan.kept \in Nat /\ Len(scan.buf) \in Nat
      /\ scan.offset + scan.size <= Len(scan.buf)
      /\ scan.kept < scan.head /\ scan.head <= scan.size
  BY <1>1, <1>2, ScanTyped, LineTyped DEF AtByte
<1>4. PICK line \in Seq(Memory) : line = LineSoFar
  BY <1>3
<1>5. PICK buf \in Seq(Memory), m \in Nat :
         buf = scan.buf /\ m = scan.offset + scan.kept /\ m + 1 <= Len(buf)
  BY <1>3
<1>6. PICK byte \in Memory : byte = Byte
  <2>1. PICK o, h, z, l \in Nat : /\ o = scan.offset /\ h = scan.head /\ z = scan.size
                                  /\ l = Len(scan.buf) /\ o + z <= l /\ h >= 1 /\ h <= z
    BY <1>3
  <2>2. o + h \in 1..l
    <3>1. o + z <= l /\ h >= 1 /\ h <= z
      BY <2>1
    <3>. QED BY <3>1
  <2>3. scan.offset + scan.head \in 1..Len(scan.buf)
    BY <2>1, <2>2
  <2>. QED BY <1>3, <2>3, ElementOfSeq DEF Byte
<1>7. PICK next : next = [buf EXCEPT ![m + 1] = byte]
  OBVIOUS
<1>8. scan' = [slot |-> scan.slot, buf |-> next, offset |-> scan.offset,
               size |-> scan.size, head |-> scan.head + 1, kept |-> scan.kept + 1]
  <2>1. scan' = [scan EXCEPT !.buf = next, !.kept = @ + 1, !.head = @ + 1]
    <3>1. [scan.buf EXCEPT ![scan.offset + scan.kept + 1] = Byte] = next
      BY <1>5, <1>6, <1>7
    <3>. QED BY <3>1 DEF KeepByte
  <2>. QED BY <1>2, <2>1, ScanRecord
<1>9. LineSoFar' = Append(line, byte)
  <2>1. LineSoFar' = SubSeq(next, 1, m + 1)
    <3>1. scan.offset + (scan.kept + 1) = m + 1
      <4>1. PICK o, c \in Nat : o = scan.offset /\ c = scan.kept /\ m = o + c
        BY <1>3, <1>5
      <4>. QED BY <4>1
    <3>. QED BY <1>8, <3>1 DEF LineSoFar
  <2>2. line = SubSeq(buf, 1, m)
    BY <1>4, <1>5 DEF LineSoFar
  <2>3. SubSeq(next, 1, m + 1) = Append(SubSeq(buf, 1, m), byte)
    BY <1>5, <1>7
  <2>. QED BY <2>1, <2>2, <2>3
<1>10. Whole(e, Append(line, byte), n + 1)
  <2>1. CASE e.misread \/ e.overlong
    BY <2>1 DEF Whole
  <2>2. CASE ~e.misread /\ ~e.overlong
    <3>1. AreLines(e.obeyed, e.text, n) /\ Spells(line, e.text, Begun(e.text, n))
      BY <1>2, <1>4, <2>2 DEF Whole
    <3>2. e.text[n + 1] = byte /\ byte # NewLine /\ Printed(byte)
      BY <1>1, <1>2, <1>6, <2>2 DEF Printed
    <3>3. PICK obeyed, text : obeyed = e.obeyed /\ text = e.text
      OBVIOUS
    <3>4. /\ AreLines(obeyed, text, n) /\ Spells(line, text, Begun(text, n))
          /\ text[n + 1] = byte
      BY <3>1, <3>2, <3>3
    <3>5. /\ AreLines(obeyed, text, n + 1)
          /\ Printed(byte) => Spells(Append(line, byte), text, Begun(text, n + 1))
      BY <3>2, <3>4, LineGoesOn
    <3>. QED BY <3>2, <3>3, <3>5 DEF Whole
  <2>. QED BY <2>1, <2>2
<1>11. e.misread \/ e.overlong \/
         \A j \in (scan.head + 1)..scan.size :
            scan'.buf[scan'.offset + j] = e.text[e.read - scan.size + j]
  <2> SUFFICES ASSUME ~e.misread, ~e.overlong, NEW j \in (scan.head + 1)..scan.size
               PROVE  scan'.buf[scan'.offset + j] = e.text[e.read - scan.size + j]
    OBVIOUS
  <2>1. j \in scan.head..scan.size /\ scan.offset + j # m + 1
    BY <1>3, <1>5
  <2>2. next[scan.offset + j] = buf[scan.offset + j]
    <3>1. scan.offset + j \in 1..Len(scan.buf)
      BY <1>3
    <3>. QED BY <1>5, <1>7, <2>1, <3>1
  <2>. QED BY <1>2, <1>5, <1>8, <2>1, <2>2
<1>12. scan' # NoScan /\ scan'.slot = scan.slot /\ scan'.size = scan.size
       /\ scan'.head = scan.head + 1
  <2>1. scan.slot # 0
    BY <1>2 DEF ControlTyped
  <2>. QED BY <1>8, <2>1 DEF NoScan
<1>13. e.read \in Nat
  BY StreamTyped
<1>14. streams' = [streams EXCEPT ![inputs[scan.slot].fd] = e]
  BY <1>1, <1>2, StreamRange
<1>. QED BY <1>1, <1>2, <1>9, <1>10, <1>11, <1>12, <1>13, <1>14, ScanKeepsLines

\* The scan ends: what is left of the line is in the entry, unless it was too long.
LEMMA EndScanKeepsLines == ControlTyped /\ LineInv /\ EndScan => LineInv'
<1> SUFFICES ASSUME ControlTyped, LineInv, EndScan PROVE LineInv'
  OBVIOUS
<1>1. PICK k : k = scan.slot
  OBVIOUS
<1>2. scan # NoScan /\ ~AtByte /\ scan' = NoScan /\ UNCHANGED opened
  BY DEF EndScan
<1>3. k \in DOMAIN inputs /\ inputs[k] \in InputType /\ inputs \in Seq(InputType)
  BY <1>1, <1>2, ScanTyped, InputTyped DEF ControlTyped
<1>4. inputs[k].fd # Unused
  BY <1>1, <1>2 DEF LineInv, ScanWhole
<1>5. PICK s : s = inputs[k].fd
  OBVIOUS
<1>6. s \in DOMAIN streams
  BY <1>3, <1>4, <1>5, StreamRange
<1>7. PICK e \in GoodStream : e = streams[s]
  BY <1>6, StreamRange
<1>8. PICK line \in Seq(Memory) : line = LineSoFar
  BY <1>2, LineTyped
<1>9. Whole(e, line, e.read)
  <2>1. PICK r, h, z \in Nat : r = e.read /\ h = scan.head /\ z = scan.size /\ h = z + 1
    <3>1. /\ scan.head \in Nat /\ scan.size \in Nat /\ scan.head <= scan.size + 1
          /\ ~(scan.head <= scan.size)
      BY <1>2, ScanTyped DEF AtByte
    <3>2. scan.head = scan.size + 1
      BY <3>1
    <3>3. e.read \in Nat
      BY StreamTyped
    <3>. QED BY <3>1, <3>2, <3>3
  <2>2. Scanned = r
    <3>1. Scanned = r - z + h - 1
      BY <1>1, <1>5, <1>7, <2>1 DEF Scanned
    <3>. QED BY <2>1, <3>1
  <2>3. Whole(e, LineSoFar, Scanned)
    BY <1>1, <1>2, <1>5, <1>7 DEF LineInv, ScanWhole
  <2>. QED BY <1>8, <2>1, <2>2, <2>3
<1>10. PICK j, f : /\ inputs' = [inputs EXCEPT ![k] = j] /\ streams' = [streams EXCEPT ![s] = f]
                   /\ j.fd \in {s, Unused}
                   /\ j.fd # Unused => Whole(f, j.buf, f.read)
  <2>1. CASE Len(LineSoFar) <= Limit
    <3>1. PICK j : j = [inputs[k] EXCEPT !.buf = line]
      OBVIOUS
    <3>2. inputs' = [inputs EXCEPT ![k] = j] /\ streams' = [streams EXCEPT ![s] = e]
      BY <1>1, <1>6, <1>7, <1>8, <2>1, <3>1, StreamRange DEF EndScan
    <3>3. j.fd = s /\ j.buf = line
      BY <1>3, <1>5, <3>1 DEF InputType
    <3>. QED BY <1>9, <3>2, <3>3
  <2>2. CASE ~(Len(LineSoFar) <= Limit)
    <3>1. PICK j : j = IF inputs[k].type = "client" THEN ControlClosed(inputs[k])
                       ELSE [inputs[k] EXCEPT !.buf = <<>>]
      OBVIOUS
    <3>2. PICK f : f = [e EXCEPT !.overlong = TRUE]
      OBVIOUS
    <3>3. inputs' = [inputs EXCEPT ![k] = j] /\ streams' = [streams EXCEPT ![s] = f]
      BY <1>1, <1>5, <1>7, <2>2, <3>1, <3>2 DEF EndScan
    <3>4. j.fd \in {s, Unused}
      <4>1. CASE inputs[k].type = "client"
        BY <1>3, <3>1, <4>1 DEF ControlClosed, InputType
      <4>2. CASE inputs[k].type # "client"
        BY <1>3, <1>5, <3>1, <4>2 DEF InputType
      <4>. QED BY <4>1, <4>2
    <3>5. f.overlong
      BY <3>2 DEF GoodStream, StreamType
    <3>6. Whole(f, j.buf, f.read)
      BY <3>5 DEF Whole
    <3>. QED BY <3>3, <3>4, <3>6
  <2>. QED BY <2>1, <2>2
<1>11. /\ DOMAIN inputs' = DOMAIN inputs /\ inputs'[k] = j
       /\ \A i \in DOMAIN inputs \ {k} : inputs'[i] = inputs[i]
  BY <1>3, <1>10
<1>12. /\ DOMAIN streams' = DOMAIN streams /\ streams'[s] = f
       /\ \A t \in DOMAIN streams \ {s} : streams'[t] = streams[t]
  BY <1>6, <1>10, StreamRange
<1>13. ASSUME Resting(k)'
       PROVE  Whole(streams[inputs[k].fd], inputs[k].buf, streams[inputs[k].fd].read)'
  <2>1. inputs'[k].fd # Unused
    BY <1>13 DEF Resting
  <2>2. j.fd = s /\ streams'[inputs'[k].fd] = f /\ inputs'[k].buf = j.buf
    BY <1>10, <1>11, <1>12, <2>1
  <2>3. Whole(f, j.buf, f.read)
    BY <1>10, <1>11, <2>1
  <2>. QED BY <2>2, <2>3 DEF Whole
<1>14. ScanWhole'
  BY <1>2 DEF ScanWhole
<1>15. inputs'[k].fd \in {inputs[k].fd, Unused}
  BY <1>5, <1>10, <1>11
<1>. QED BY <1>1, <1>2, <1>3, <1>4, <1>5, <1>11, <1>12, <1>13, <1>14, <1>15, OthersKeepLines

LEMMA LinesStutter == LineInv /\ UNCHANGED controlVars => LineInv'
BY DEF controlVars, LineInv, Resting, ScanWhole, Whole, Scanned, LineSoFar

LEMMA LineInvInit == ControlInit => LineInv
<1> SUFFICES ASSUME NEW plan \in Plans, ControlStart(plan) PROVE LineInv
  BY DEF ControlInit
<1>1. PICK c \in Seq(Source) : c = plan.configured
  BY PlanAssumption
<1>2. DOMAIN c = 1..Len(c) /\ Len(c) \in Nat
  OBVIOUS
<1>3. /\ inputs = [i \in DOMAIN c |-> Input(c[i].type, i)]
      /\ streams = [i \in DOMAIN c |-> Stream(c[i])]
      /\ opened = Len(c) /\ scan = NoScan
  BY <1>1 DEF ControlStart
<1>4. \A i \in DOMAIN inputs : inputs[i].fd = i /\ inputs[i].buf = <<>> /\ i \in DOMAIN streams
  BY <1>3 DEF Input
<1>5. \A s \in DOMAIN streams : s <= opened /\ streams[s].read = 0 /\ streams[s].obeyed = <<>>
  BY <1>2, <1>3 DEF Stream
<1>6. ASSUME NEW i \in DOMAIN inputs
      PROVE  Whole(streams[inputs[i].fd], inputs[i].buf, streams[inputs[i].fd].read)
  <2>1. PICK e : e = streams[i]
    OBVIOUS
  <2>2. e.obeyed = <<>> /\ e.read = 0
    BY <1>4, <1>5, <2>1
  <2>3. Whole(e, <<>>, 0)
    BY <2>2, WholeAtStart DEF Whole
  <2>. QED BY <1>4, <2>1, <2>2, <2>3
<1>7. \A s \in DOMAIN streams : ~(s > opened)
  BY <1>2, <1>3
<1>. QED BY <1>3, <1>4, <1>6, <1>7 DEF LineInv, ScanWhole

LEMMA LineInvNext ==
    ControlTyped /\ ControlTyped' /\ LineInv /\ [ControlNext]_controlVars => LineInv'
<1> SUFFICES ASSUME ControlTyped, ControlTyped', LineInv, [ControlNext]_controlVars
             PROVE  LineInv'
  OBVIOUS
<1>1. CASE Call
  BY <1>1, CallKeepsLines
<1>2. CASE \E s \in DOMAIN streams : Write(s) \/ Close(s)
  BY <1>2, WritersKeepLines
<1>3. CASE \E i \in DOMAIN inputs : ControlAccept(i)
  BY <1>3, AcceptKeepsLines
<1>4. CASE \E i \in DOMAIN inputs : ControlData(i)
  BY <1>4, ReadNothingKeepsLines, ReadKeepsLines DEF ControlData
<1>5. CASE HandleScan
  BY <1>5, EndLineKeepsLines, StripByteKeepsLines, KeepByteKeepsLines, EndScanKeepsLines
     DEF HandleScan
<1>6. CASE UNCHANGED controlVars
  BY <1>6, LinesStutter
<1>. QED BY <1>1, <1>2, <1>3, <1>4, <1>5, <1>6 DEF ControlNext, ControlEnvironment

\* The commands obeyed on behalf of a descriptor are the lines that were written to it, whole,
\* in order and each once, however the text arrives and whoever had the entry before
\* (control_data): for any text, any chunk and any limit.
THEOREM LinesObeyedWhole == ControlSpec => []LinesAreWhole
<1>1. ControlInv => ControlTyped
  BY DEF ControlInv
<1>2. ControlInv /\ LineInv /\ [ControlNext]_controlVars => ControlInv' /\ LineInv'
  <2>1. ControlInv /\ [ControlNext]_controlVars => ControlInv'
    BY ControlInvNext
  <2>2. ControlInv' => ControlTyped'
    BY DEF ControlInv
  <2>. QED BY <1>1, <2>1, <2>2, LineInvNext
<1>. QED BY <1>2, ControlInvInit, LineInvInit, LineInvWhole, PTL DEF ControlSpec
=============================================================================
