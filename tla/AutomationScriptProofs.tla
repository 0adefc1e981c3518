----------------------- MODULE AutomationScriptProofs -----------------------
(***************************************************************************)
(* Theorems about AutomationScript, for scripts of any length over any     *)
(* lines.                                                                  *)
(***************************************************************************)
EXTENDS AutomationScript, TLAPS

Entries == [display : Displays, frame : Frames, requested : Windows \cup {NoWindow}]

LEMMA LineType == ASSUME NEW l \in Lines PROVE l \in Seq(Operation)
<1>1. CASE l \in {<<s>> : s \in Statement}
  <2>1. PICK s \in Statement : l = <<s>>
    BY <1>1
  <2>2. s \in Operation
    BY DEF Operation
  <2>. QED BY <2>1, <2>2
<1>2. CASE l \in {<<c, s>> : c \in Condition, s \in Statement}
  <2>1. PICK c \in Condition, s \in Statement : l = <<c, s>>
    BY <1>2
  <2>2. c \in Operation /\ s \in Operation
    BY DEF Operation
  <2>. QED BY <2>1, <2>2
<1>. QED BY <1>1, <1>2, LineAssumption

\* Whatever a step adds to the index, it stays one.
LEMMA AdvanceType ==
    ASSUME TypeOK, NEW n \in Nat, Advance(n)
    PROVE  u' \in Nat
BY BoundAssumption DEF Advance, TypeOK

LEMMA CurrentType == TypeOK /\ Running => Current \in Operation
BY DEF TypeOK, Running, Current

\* An assign leaves entries of the same slots.
LEMMA InvalidatedType ==
    ASSUME TypeOK, NEW o \in Assign
    PROVE  /\ Invalidated(o) \in Seq(Entries)
           /\ Len(Invalidated(o)) = Len(assign)
           /\ DOMAIN Invalidated(o) = DOMAIN assign
<1>1. assign \in Seq(Entries)
  BY DEF TypeOK, Entries
<1>2. ASSUME NEW p \in 1..Len(assign) PROVE Invalidated(o)[p] \in Entries
  <2>1. assign[p] \in Entries
    BY <1>1, <1>2
  <2>2. o.window \in Windows
    BY DEF Assign
  <2>. QED BY <1>1, <2>1, <2>2 DEF Invalidated, Entries
<1>3. Invalidated(o) \in [1..Len(assign) -> Entries]
  <2>1. DOMAIN assign = 1..Len(assign)
    BY <1>1
  <2>2. DOMAIN Invalidated(o) = 1..Len(assign)
    BY <2>1 DEF Invalidated
  <2>3. Invalidated(o) = [p \in 1..Len(assign) |-> Invalidated(o)[p]]
    BY <2>1, Zenon DEF Invalidated
  <2> HIDE DEF Invalidated
  <2>. QED BY <1>2, <2>2, <2>3
<1>4. PICK n \in Nat : n = Len(assign)
  BY <1>1
<1>5. Invalidated(o) \in [1..n -> Entries] /\ DOMAIN assign = 1..n
  BY <1>1, <1>3, <1>4
<1> HIDE DEF Invalidated
<1>. QED BY <1>4, <1>5

LEMMA RegisteredType ==
    ASSUME TypeOK, NEW o \in Assign
    PROVE  [display |-> o.display, frame |-> o.frame, requested |-> o.window] \in Entries
BY DEF Assign, Entries

\* No line and no run takes a variable out of its type, and the reading of a
\* configuration starts without the entries and the array of the last one.
THEOREM TypeCorrect == Spec => []TypeOK
<1>1. Init => TypeOK
  BY DEF Init, TypeOK
<1>2. TypeOK /\ [Next]_vars => TypeOK'
  <2> SUFFICES ASSUME TypeOK, [Next]_vars PROVE TypeOK'
    OBVIOUS
  <2>1. ASSUME NEW l \in Lines, ConfigLine(l) PROVE TypeOK'
    BY <2>1, LineType DEF ConfigLine, TypeOK
  <2>2. CASE FinishConfig
    BY <2>2 DEF FinishConfig, TypeOK
  <2>3. CASE Reload
    BY <2>3 DEF Reload, TypeOK
  <2>4. ASSUME NEW x \in Variables, NEW v \in Values, SetVariable(x, v) PROVE TypeOK'
    BY <2>4 DEF SetVariable, Begin, TypeOK
  <2>5. CASE Test
    <3>1. u' \in Nat
      BY <2>5, AdvanceType DEF Test
    <3>. QED BY <2>5, <3>1 DEF Test, TypeOK
  <2>6. CASE SkipAhead
    <3>1. Current.count \in Nat
      BY <2>6, BoundAssumption DEF SkipAhead, Skip
    <3>2. u' \in Nat
      BY <2>6, <3>1, AdvanceType DEF SkipAhead
    <3>. QED BY <2>6, <3>2 DEF SkipAhead, TypeOK
  <2>7. CASE SetLayout
    <3>1. u' \in Nat
      BY <2>7, AdvanceType DEF SetLayout
    <3>2. CASE Current \in Layout
      BY <2>7, <3>1, <3>2 DEF SetLayout, Layout, TypeOK, Running
    <3>3. CASE Current \in Default /\ Current \notin Layout
      <4>1. DefaultLayout[Current.display] \in Layouts \cup {NoLayout}
        BY <3>3, NameAssumption DEF Default
      <4>. QED BY <2>7, <3>1, <3>3, <4>1 DEF SetLayout, TypeOK, Running
    <3>. QED BY <2>7, <3>2, <3>3 DEF SetLayout
  <2>8. CASE Replace
    <3>1. u' \in Nat
      BY <2>8, AdvanceType DEF Replace
    <3>2. assign' \in Seq(Entries)
      BY <2>8, InvalidatedType DEF Replace
    <3>. QED BY <2>8, <3>1, <3>2 DEF Replace, Running, TypeOK, Entries
  <2>9. CASE Register
    <3>1. u' \in Nat
      BY <2>9, AdvanceType DEF Register
    <3>2. assign' \in Seq(Entries)
      BY <2>9, InvalidatedType, RegisteredType DEF Register
    <3>3. nassign' \in Nat
      BY <2>9 DEF Register, TypeOK
    <3>. QED BY <2>9, <3>1, <3>2, <3>3 DEF Register, Running, TypeOK, Entries
  <2>10. CASE Stop
    BY <2>10 DEF Stop, TypeOK
  <2>11. CASE UNCHANGED vars
    BY <2>11 DEF vars, TypeOK
  <2>. QED
    BY <2>1, <2>2, <2>3, <2>4, <2>5, <2>6, <2>7, <2>8, <2>9, <2>10, <2>11
       DEF Next, Interpret
<1>. QED BY <1>1, <1>2, PTL DEF Spec

-----------------------------------------------------------------------------

\* The array has room for every entry: active_assigns <= nassign before a
\* registration, which then makes room for one more.
THEOREM EntriesFit == Spec => []EntriesAreAllocated
<1>1. Init => EntriesAreAllocated
  BY DEF Init, EntriesAreAllocated
<1>2. TypeOK /\ EntriesAreAllocated /\ [Next]_vars => EntriesAreAllocated'
  <2> SUFFICES ASSUME TypeOK, EntriesAreAllocated, [Next]_vars PROVE EntriesAreAllocated'
    OBVIOUS
  <2>1. ASSUME assign' = <<>>, nassign' \in Nat PROVE EntriesAreAllocated'
    BY <2>1 DEF EntriesAreAllocated
  <2>2. ASSUME UNCHANGED <<assign, nassign>> PROVE EntriesAreAllocated'
    BY <2>2 DEF EntriesAreAllocated
  <2>3. CASE Reload \/ \E x \in Variables, v \in Values : SetVariable(x, v)
    BY <2>1, <2>3 DEF Reload, SetVariable, Begin, TypeOK
  <2>4. CASE Replace
    BY <2>4, InvalidatedType DEF Replace, EntriesAreAllocated
  <2>5. CASE Register
    <3>1. Invalidated(Current) \in Seq(Entries) /\ Len(Invalidated(Current)) = Len(assign)
      BY <2>5, InvalidatedType DEF Register
    <3>2. Len(assign') = Len(assign) + 1
      BY <2>5, <3>1, RegisteredType DEF Register
    <3>3. Len(assign) \in Nat /\ nassign \in Nat
      BY DEF TypeOK
    <3>4. nassign' = nassign + 1
      BY <2>5 DEF Register, NeedsRoom, EntriesAreAllocated
    <3>. QED BY <3>2, <3>3, <3>4 DEF EntriesAreAllocated
  <2>6. CASE \/ \E l \in Lines : ConfigLine(l)
             \/ FinishConfig \/ Test \/ SkipAhead \/ SetLayout \/ Stop \/ UNCHANGED vars
    BY <2>2, <2>6 DEF ConfigLine, FinishConfig, Test, SkipAhead, SetLayout, Stop, vars
  <2>. QED BY <2>3, <2>4, <2>5, <2>6 DEF Next, Interpret
<1>. QED BY <1>1, <1>2, TypeCorrect, PTL DEF Spec

-----------------------------------------------------------------------------

\* What an assign makes of one entry, in terms of the entry before.
LEMMA InvalidatedEntry ==
    ASSUME TypeOK, NEW o \in Assign, NEW p \in DOMAIN assign
    PROVE  /\ Invalidated(o)[p].display = assign[p].display
           /\ Invalidated(o)[p].frame = assign[p].frame
           /\ SameSlot(assign[p], o) => Invalidated(o)[p].requested = o.window
           /\ ~SameSlot(assign[p], o) =>
                /\ Invalidated(o)[p].requested # o.window
                /\ \/ Invalidated(o)[p].requested = NoWindow
                   \/ Invalidated(o)[p].requested = assign[p].requested
<1>1. assign[p] \in Entries
  <2>1. assign \in Seq(Entries)
    BY DEF TypeOK, Entries
  <2>. QED BY <2>1
<1>2. o.window \in Windows /\ o.window # NoWindow
  BY NameAssumption DEF Assign
<1>3. Invalidated(o)[p] =
        IF SameSlot(assign[p], o) THEN [assign[p] EXCEPT !.requested = o.window]
        ELSE IF assign[p].requested = o.window
             THEN [assign[p] EXCEPT !.requested = NoWindow]
             ELSE assign[p]
  BY Zenon DEF Invalidated
<1>4. CASE SameSlot(assign[p], o)
  <2>1. Invalidated(o)[p] = [assign[p] EXCEPT !.requested = o.window]
    BY <1>3, <1>4
  <2> HIDE DEF Invalidated
  <2>. QED BY <1>1, <1>4, <2>1 DEF Entries
<1>5. CASE ~SameSlot(assign[p], o)
  <2>1. Invalidated(o)[p] = IF assign[p].requested = o.window
                            THEN [assign[p] EXCEPT !.requested = NoWindow]
                            ELSE assign[p]
    BY <1>3, <1>5
  <2> HIDE DEF Invalidated
  <2>. QED BY <1>1, <1>2, <1>5, <2>1 DEF Entries
<1>. QED BY <1>4, <1>5

\* Entries of distinct slots stay distinct when a window is assigned.
LEMMA InvalidatedDistinct ==
    ASSUME TypeOK, EntriesAreDistinct, NEW o \in Assign,
           NEW p \in DOMAIN assign, NEW q \in DOMAIN assign, p # q
    PROVE  /\ ~SameSlot(Invalidated(o)[p], Invalidated(o)[q])
           /\ Invalidated(o)[p].requested # NoWindow =>
                Invalidated(o)[p].requested # Invalidated(o)[q].requested
<1>1. ~SameSlot(assign[p], assign[q])
  BY DEF EntriesAreDistinct
<1>2. ~(SameSlot(assign[p], o) /\ SameSlot(assign[q], o))
  BY <1>1 DEF SameSlot
<1>3. assign[p].requested # NoWindow => assign[p].requested # assign[q].requested
  BY DEF EntriesAreDistinct, InForce
<1>4. ~SameSlot(Invalidated(o)[p], Invalidated(o)[q])
  BY <1>1, InvalidatedEntry DEF SameSlot
<1>. QED BY <1>2, <1>3, <1>4, InvalidatedEntry

\* After any sequence of assigns no two entries share a frame or a window.
THEOREM EntriesDiffer == Spec => []EntriesAreDistinct
<1>1. Init => EntriesAreDistinct
  BY DEF Init, EntriesAreDistinct
<1>2. TypeOK /\ EntriesAreDistinct /\ [Next]_vars => EntriesAreDistinct'
  <2> SUFFICES ASSUME TypeOK, EntriesAreDistinct, [Next]_vars PROVE EntriesAreDistinct'
    OBVIOUS
  <2>1. ASSUME assign' = <<>> PROVE EntriesAreDistinct'
    BY <2>1 DEF EntriesAreDistinct
  <2>2. ASSUME UNCHANGED assign PROVE EntriesAreDistinct'
    BY <2>2 DEF EntriesAreDistinct, InForce
  <2>3. CASE Reload \/ \E x \in Variables, v \in Values : SetVariable(x, v)
    BY <2>1, <2>3 DEF Reload, SetVariable, Begin
  <2>4. CASE Replace
    <3>1. Current \in Assign /\ assign' = Invalidated(Current)
      BY <2>4 DEF Replace
    <3>2. DOMAIN assign' = DOMAIN assign
      BY <3>1, InvalidatedType
    <3>. QED BY <3>1, <3>2, InvalidatedDistinct DEF EntriesAreDistinct, InForce
  <2>5. CASE Register
    <3> DEFINE o == Current
               n == Len(assign)
               e == [display |-> o.display, frame |-> o.frame, requested |-> o.window]
    <3>1. o \in Assign /\ assign' = Append(Invalidated(o), e)
      BY <2>5 DEF Register
    <3>2. /\ Invalidated(o) \in Seq(Entries) /\ Len(Invalidated(o)) = n
          /\ DOMAIN Invalidated(o) = DOMAIN assign /\ e \in Entries
      BY <3>1, InvalidatedType, RegisteredType
    <3>3. n \in Nat /\ DOMAIN assign = 1..n
      BY DEF TypeOK
    <3> HIDE DEF o, n, e
    <3>4. /\ DOMAIN assign' = 1..(n + 1) /\ assign'[n + 1] = e
          /\ \A p \in 1..n : assign'[p] = Invalidated(o)[p]
      BY <3>1, <3>2, <3>3
    <3>5. ASSUME NEW p \in 1..n
          PROVE  ~SameSlot(assign'[p], e) /\ assign'[p].requested # e.requested
      <4>1. ~SameSlot(assign[p], o)
        BY <2>5, <3>3 DEF Register, o
      <4>2. assign'[p] = Invalidated(o)[p]
        BY <3>4
      <4>3. e.display = o.display /\ e.frame = o.frame /\ e.requested = o.window
        BY DEF e
      <4>. QED BY <3>1, <3>3, <4>1, <4>2, <4>3, InvalidatedEntry DEF SameSlot
    <3>6. ASSUME NEW p \in 1..(n + 1), NEW q \in 1..(n + 1), p # q
          PROVE  /\ ~SameSlot(assign'[p], assign'[q])
                 /\ assign'[p].requested # NoWindow =>
                      assign'[p].requested # assign'[q].requested
      <4>1. CASE p \in 1..n /\ q \in 1..n
        <5>1. assign'[p] = Invalidated(o)[p] /\ assign'[q] = Invalidated(o)[q]
          BY <3>4, <4>1
        <5>. QED BY <3>1, <3>3, <3>6, <4>1, <5>1, InvalidatedDistinct
      <4>2. CASE p = n + 1 /\ q \in 1..n
        BY <3>4, <3>5, <4>2 DEF SameSlot
      <4>3. CASE p \in 1..n /\ q = n + 1
        BY <3>4, <3>5, <4>3
      <4>. QED BY <3>3, <3>6, <4>1, <4>2, <4>3
    <3>. QED BY <3>4, <3>6 DEF EntriesAreDistinct, InForce
  <2>6. CASE \/ \E l \in Lines : ConfigLine(l)
             \/ FinishConfig \/ Test \/ SkipAhead \/ SetLayout \/ Stop \/ UNCHANGED vars
    BY <2>2, <2>6 DEF ConfigLine, FinishConfig, Test, SkipAhead, SetLayout, Stop, vars
  <2>. QED BY <2>3, <2>4, <2>5, <2>6 DEF Next, Interpret
<1>. QED BY <1>1, <1>2, TypeCorrect, PTL DEF Spec

-----------------------------------------------------------------------------
(* What a script means *)

\* f maps each line, and the end, to the index of its first operation.
IsStart(f) ==
    /\ f \in [1..(Len(lines) + 1) -> Nat]
    /\ f[1] = 0 /\ f[Len(lines) + 1] = Len(operations)
    /\ \A k \in 1..Len(lines) :
         /\ f[k + 1] = f[k] + Len(lines[k])
         /\ \A j \in 1..Len(lines[k]) : operations[f[k] + j] = lines[k][j]
    /\ \A i, j \in 1..(Len(lines) + 1) : i <= j =>
         /\ f[j] - f[i] <= 2 * (j - i)
         /\ j - i <= f[j] - f[i]
         /\ (\A l \in i..(j - 1) : Len(lines[l]) = 1) => f[j] - f[i] = j - i

\* A run that comes to line k has left nothing out before it.
Between(k) ==
    /\ k \in DOMAIN lines => k \in Reached
    /\ \A j \in Reached, l \in DOMAIN lines : j < k /\ Follows(l, j) => l <= k

Before(k) == {i \in Executed : i < k}

\* What the lines before k request is what the entries and layouts say.
FollowedTo(k) ==
    /\ Requests = Requested(Before(k))
    /\ \A d \in Displays : layout[d] = Decided(Before(k), d)

\* The index is at line k, at the body of line k, or past the end.
AtLine(f, k) == k \in 1..Len(lines) /\ u = f[k]
InBody(f, k) ==
    k \in 1..Len(lines) /\ Len(lines[k]) = 2 /\ Holds(lines[k][1]) /\ u = f[k] + 1
AtEnd(k) == k > Len(lines) /\ u >= Len(operations)

Parsed == \E f \in [1..(Len(lines) + 1) -> Nat] : IsStart(f)

RunsAsDocumented ==
    \E f \in [1..(Len(lines) + 1) -> Nat], k \in Nat \ {0} :
        /\ IsStart(f)
        /\ AtLine(f, k) \/ InBody(f, k) \/ AtEnd(k)
        /\ Between(k) /\ FollowedTo(k)

ScriptInv ==
    /\ Len(lines) <= MaxLines
    /\ Parsed
    /\ phase = "config" => u = 0 /\ layout = [d \in Displays |-> NoLayout]
    /\ phase = "run" /\ SkipsArePlain => RunsAsDocumented
    /\ phase = "idle" /\ SkipsArePlain => AsDocumented

LEMMA OperationsApart ==
    /\ Statement \cap Condition = {}
    /\ Assign \cap Skip = {} /\ Assign \cap Done = {} /\ Skip \cap Done = {}
    /\ (Layout \cup Default) \cap (Assign \cup Skip \cup Done) = {}
    /\ Layout \cap Default = {}
BY DEF Statement, Condition, Assign, Skip, Done, Layout, Default

LEMMA LineShape ==
    ASSUME NEW l \in Lines
    PROVE  /\ Len(l) = 1 => l = <<l[1]>> /\ l[1] \in Statement
           /\ Len(l) = 2 => l = <<l[1], l[2]>> /\ l[1] \in Condition /\ l[2] \in Statement
           /\ Len(l) \in {1, 2}
<1>1. CASE l \in {<<s>> : s \in Statement}
  BY <1>1
<1>2. CASE l \in {<<c, s>> : c \in Condition, s \in Statement}
  BY <1>2
<1>. QED BY <1>1, <1>2, LineAssumption

\* The bodies of lines are statements.
LEMMA BodyType ==
    ASSUME TypeOK, NEW k \in DOMAIN lines
    PROVE  lines[k] \in Lines /\ Body(k) \in Statement /\ Len(lines[k]) \in {1, 2}
<1>1. lines[k] \in Lines
  BY DEF TypeOK
<1>2. PICK l \in Lines : l = lines[k]
  BY <1>1
<1>3. l[Len(l)] \in Statement
  <2>1. CASE Len(l) = 1
    BY <2>1, LineShape
  <2>2. CASE Len(l) = 2
    BY <2>2, LineShape
  <2>. QED BY <2>1, <2>2, LineShape
<1>. QED BY <1>2, <1>3, LineShape DEF Body

\* A run that comes to a line which only line m follows comes to m next.
LEMMA Moves ==
    ASSUME TypeOK, NEW k \in DOMAIN lines, Between(k), NEW m \in Nat, m > k,
           \A l \in DOMAIN lines : Follows(l, k) => l = m,
           m \in DOMAIN lines => Follows(m, k)
    PROVE  /\ Between(m)
           /\ Before(m) = Before(k) \cup (Executed \cap {k})
           /\ m > Len(lines) => Before(m) = Executed
<1>1. lines \in Seq(Lines) /\ DOMAIN lines = 1..Len(lines) /\ Len(lines) \in Nat
  BY DEF TypeOK
<1>2. Reached \subseteq DOMAIN lines /\ Executed \subseteq Reached /\ k \in Reached
  BY DEF Reached, Executed, Between
<1>3. ASSUME NEW j \in DOMAIN lines, NEW l \in DOMAIN lines, Follows(l, j) PROVE l > j
  <2>1. CASE Met(j) /\ Body(j) \in Skip
    <3>1. Body(j).count \in Nat
      BY <2>1, BoundAssumption DEF Skip
    <3>. QED BY <1>1, <1>3, <2>1, <3>1 DEF Follows
  <2>2. CASE ~(Met(j) /\ Body(j) \in Skip)
    BY <1>1, <1>3, <2>2 DEF Follows
  <2>. QED BY <2>1, <2>2
<1>4. ASSUME NEW j \in Reached, NEW l \in DOMAIN lines, Follows(l, j) PROVE l \in Reached
  <2> SUFFICES ASSUME NEW S \in SUBSET DOMAIN lines, 1 \in S,
                      \A a \in S, b \in DOMAIN lines : Follows(b, a) => b \in S
               PROVE  l \in S
    BY <1>4, Zenon DEF Reached
  <2>1. j \in S
    BY <1>4, Zenon DEF Reached
  <2>. QED BY <2>1, <1>4
<1>5. ASSUME NEW i \in Reached PROVE ~(k < i /\ i < m)
  <2> DEFINE S == {j \in Reached : ~(k < j /\ j < m)}
  <2>1. 1 \in S
    <3>1. 1 \in Reached
      BY <1>1 DEF Reached
    <3>. QED BY <3>1, <1>1
  <2>2. ASSUME NEW a \in S, NEW b \in DOMAIN lines, Follows(b, a) PROVE b \in S
    <3>1. b \in Reached /\ b > a
      BY <2>2, <1>2, <1>3, <1>4
    <3>2. CASE a = k
      <4>1. Follows(b, k)  BY <2>2, <3>2
      <4>. QED BY <3>1, <4>1, <1>1
    <3>3. CASE a < k
      <4>1. b <= k  BY <2>2, <3>3 DEF Between
      <4>. QED BY <3>1, <4>1, <1>1
    <3>4. CASE a >= m
      BY <3>1, <3>4, <1>1, <1>2
    <3>. QED BY <3>2, <3>3, <3>4, <1>1, <1>2
  <2>3. S \in SUBSET DOMAIN lines
    BY <1>2
  <2>4. i \in S
    <3> HIDE DEF S
    <3>. QED BY <2>1, <2>2, <2>3, Zenon DEF Reached
  <2>. QED BY <2>4
<1>6. Between(m)
  <2>1. m \in DOMAIN lines => m \in Reached
    BY <1>2, <1>4
  <2>2. ASSUME NEW j \in Reached, NEW l \in DOMAIN lines, j < m, Follows(l, j) PROVE l <= m
    <3>1. CASE j = k
      BY <2>2, <3>1, <1>1
    <3>2. CASE j < k
      <4>1. l <= k  BY <2>2, <3>2 DEF Between
      <4>. QED BY <4>1, <1>1
    <3>. QED BY <3>1, <3>2, <2>2, <1>1, <1>2, <1>5
  <2>. QED BY <2>1, <2>2 DEF Between
<1>7. Before(m) = Before(k) \cup (Executed \cap {k})
  BY <1>1, <1>2, <1>5 DEF Before
<1>8. m > Len(lines) => Before(m) = Executed
  BY <1>1, <1>2 DEF Before
<1>. QED BY <1>6, <1>7, <1>8

\* What is requested once line k has been executed, all others having come before it.
LEMMA RequestedOnce ==
    ASSUME TypeOK, NEW k \in DOMAIN lines, NEW E \in SUBSET DOMAIN lines,
           \A i \in E : i < k
    PROVE  /\ Body(k) \notin Assign => Requested(E \cup {k}) = Requested(E)
           /\ Body(k) \in Assign => Requested(E \cup {k}) =
                {r \in Requested(E) :
                    /\ ~(r.display = Body(k).display /\ r.frame = Body(k).frame)
                    /\ r.window # Body(k).window}
                \cup {[display |-> Body(k).display, frame |-> Body(k).frame,
                       window |-> Body(k).window]}
<1> DEFINE A(F) == {i \in F : Body(i) \in Assign}
           R(i) == [display |-> Body(i).display, frame |-> Body(i).frame,
                    window |-> Body(i).window]
           F == E \cup {k}
<1>1. DOMAIN lines \subseteq Nat
  BY DEF TypeOK
<1>2. Requested(E) = {R(i) : i \in {l \in A(E) : \A j \in A(E) : ~Overwrites(j, l)}}
  BY Zenon DEF Requested
<1>3. Requested(F) = {R(i) : i \in {l \in A(F) : \A j \in A(F) : ~Overwrites(j, l)}}
  BY Zenon DEF Requested
<1>4. ASSUME Body(k) \notin Assign PROVE Requested(F) = Requested(E)
  <2>1. A(F) = A(E)
    BY <1>4
  <2> HIDE DEF A, R, F
  <2>. QED BY <1>2, <1>3, <2>1
<1>5. ASSUME Body(k) \in Assign
      PROVE  Requested(F) = {r \in Requested(E) :
                    /\ ~(r.display = Body(k).display /\ r.frame = Body(k).frame)
                    /\ r.window # Body(k).window} \cup {R(k)}
  <2>1. A(F) = A(E) \cup {k}
    BY <1>5
  <2>2. ASSUME NEW i \in A(E) PROVE ~Overwrites(i, k) /\ ~Overwrites(k, k)
    BY <1>1, <2>2 DEF Overwrites
  <2>3. ~Overwrites(k, k)
    BY <1>1 DEF Overwrites
  <2>4. ASSUME NEW i \in A(E)
        PROVE  Overwrites(k, i) <=>
                 ~(/\ ~(R(i).display = R(k).display /\ R(i).frame = R(k).frame)
                   /\ R(i).window # R(k).window)
    BY <1>1, <2>4 DEF Overwrites, SameSlot
  <2>5. R(k).display = Body(k).display /\ R(k).frame = Body(k).frame
        /\ R(k).window = Body(k).window
    OBVIOUS
  <2> HIDE DEF A, R, F
  <2>6. ASSUME NEW r PROVE r \in Requested(F) <=>
              \/ r = R(k)
              \/ \E i \in A(E) : r = R(i) /\ ~Overwrites(k, i)
                                 /\ \A j \in A(E) : ~Overwrites(j, i)
    BY <1>3, <2>1, <2>2, <2>3
  <2>7. ASSUME NEW r PROVE r \in Requested(E) <=>
              \E i \in A(E) : r = R(i) /\ \A j \in A(E) : ~Overwrites(j, i)
    BY <1>2
  <2>. QED BY <2>4, <2>5, <2>6, <2>7
<1>. QED BY <1>4, <1>5

\* The layout that is decided once line k has been executed.
LEMMA DecidedOnce ==
    ASSUME TypeOK, NEW k \in DOMAIN lines, NEW E \in SUBSET DOMAIN lines,
           \A i \in E : i < k, NEW d \in Displays
    PROVE  Decided(E \cup {k}, d) =
             IF Body(k) \in Layout \cup Default /\ Body(k).display = d
             THEN IF Body(k) \in Layout THEN Body(k).layout ELSE DefaultLayout[d]
             ELSE Decided(E, d)
<1> DEFINE T(F) == {i \in F : Body(i) \in Layout \cup Default /\ Body(i).display = d}
           F == E \cup {k}
           Last(U) == CHOOSE i \in U : \A j \in U : j <= i
           V(U) == CASE U = {} -> NoLayout
                     [] U # {} /\ Body(Last(U)) \in Layout -> Body(Last(U)).layout
                     [] OTHER -> DefaultLayout[d]
<1>1. DOMAIN lines \subseteq Nat
  BY DEF TypeOK
<1>2. Decided(E, d) = V(T(E)) /\ Decided(F, d) = V(T(F))
  BY Zenon DEF Decided
<1>3. CASE Body(k) \in Layout \cup Default /\ Body(k).display = d
  <2>1. T(F) = T(E) \cup {k}
    BY <1>3
  <2>2. \A i \in T(F) : i <= k
    BY <1>1
  <2>3. k \in T(F) /\ T(F) \subseteq Nat
    BY <1>1, <1>3
  <2>4. Last(T(F)) = k
    <3> HIDE DEF T, F
    <3>1. \A j \in T(F) : j <= Last(T(F))
      BY <2>2, <2>3
    <3>2. Last(T(F)) \in T(F)
      BY <2>2, <2>3
    <3>. QED BY <2>2, <2>3, <3>1, <3>2
  <2>5. V(T(F)) = IF Body(k) \in Layout THEN Body(k).layout ELSE DefaultLayout[d]
    <3> HIDE DEF T, F, Last
    <3>1. T(F) # {}  BY <2>3
    <3>. QED BY <2>4, <3>1
  <2>. QED BY <1>2, <1>3, <2>5
<1>4. CASE ~(Body(k) \in Layout \cup Default /\ Body(k).display = d)
  <2>1. T(F) = T(E)
    BY <1>4
  <2> HIDE DEF T, F, V
  <2>. QED BY <1>2, <1>4, <2>1 DEF F
<1>. QED BY <1>3, <1>4

\* What an assign makes of the requests.
LEMMA RequestsOnce ==
    ASSUME TypeOK, Replace \/ Register
    PROVE  /\ Current \in Assign
           /\ Requests' = {r \in Requests :
                    /\ ~(r.display = Current.display /\ r.frame = Current.frame)
                    /\ r.window # Current.window}
                \cup {[display |-> Current.display, frame |-> Current.frame,
                       window |-> Current.window]}
<1> DEFINE R(e) == [display |-> e.display, frame |-> e.frame, window |-> e.requested]
           o == Current
           n == Len(assign)
<1>1. o \in Assign /\ o.window \in Windows /\ o.window # NoWindow
  BY NameAssumption DEF Replace, Register, Assign
<1>2. assign \in Seq(Entries) /\ n \in Nat /\ DOMAIN assign = 1..n
  BY DEF TypeOK, Entries
<1>3. /\ Invalidated(o) \in Seq(Entries) /\ Len(Invalidated(o)) = n
      /\ DOMAIN Invalidated(o) = 1..n
  BY <1>1, <1>2, InvalidatedType
<1>4. ASSUME NEW p \in 1..n
      PROVE  Invalidated(o)[p] =
              IF SameSlot(assign[p], o) THEN [assign[p] EXCEPT !.requested = o.window]
              ELSE IF assign[p].requested = o.window
                   THEN [assign[p] EXCEPT !.requested = NoWindow]
                   ELSE assign[p]
  BY <1>2, Zenon DEF Invalidated
<1> DEFINE I == Invalidated(o)
<1>5. ASSUME NEW p \in 1..n
      PROVE  /\ I[p].display = assign[p].display /\ I[p].frame = assign[p].frame
             /\ I[p].requested = IF SameSlot(assign[p], o) THEN o.window
                                 ELSE IF assign[p].requested = o.window THEN NoWindow
                                      ELSE assign[p].requested
  <2>1. PICK e \in Entries : e = assign[p]
    BY <1>2
  <2>2. PICK f : f = I[p]
    OBVIOUS
  <2>3. f = IF SameSlot(e, o) THEN [e EXCEPT !.requested = o.window]
              ELSE IF e.requested = o.window THEN [e EXCEPT !.requested = NoWindow] ELSE e
    BY <1>4, <2>1, <2>2
  <2> HIDE DEF I, o
  <2>4. /\ f.display = e.display /\ f.frame = e.frame
        /\ f.requested = IF SameSlot(e, o) THEN o.window
                         ELSE IF e.requested = o.window THEN NoWindow ELSE e.requested
    BY <2>3 DEF Entries
  <2>. QED BY <2>1, <2>2, <2>4
<1>6. Requests = {R(assign[p]) : p \in {q \in 1..n : assign[q].requested # NoWindow}}
  BY <1>2, Zenon DEF Requests, InForce
<1> DEFINE K == {r \in Requests : /\ ~(r.display = o.display /\ r.frame = o.frame)
                                  /\ r.window # o.window}
           Ro == [display |-> o.display, frame |-> o.frame, window |-> o.window]
<1>7. ASSUME NEW r
      PROVE  r \in K <=> \E p \in 1..n : /\ r = R(assign[p])
                                         /\ assign[p].requested # NoWindow
                                         /\ ~SameSlot(assign[p], o)
                                         /\ assign[p].requested # o.window
  <2>1. r \in Requests <=> \E p \in 1..n : r = R(assign[p]) /\ assign[p].requested # NoWindow
    BY <1>6
  <2>2. \A p \in 1..n : r = R(assign[p]) =>
          /\ (r.display = o.display /\ r.frame = o.frame) <=> SameSlot(assign[p], o)
          /\ r.window = assign[p].requested
    BY DEF SameSlot
  <2> HIDE DEF R, o
  <2>. QED BY <2>1, <2>2
<1>8. ASSUME NEW r
      PROVE  (\E p \in 1..n : r = R(I[p]) /\ I[p].requested # NoWindow) <=>
                \/ r \in K
                \/ r = Ro /\ \E p \in 1..n : SameSlot(assign[p], o)
  <2>1. ASSUME NEW p \in 1..n
        PROVE  (r = R(I[p]) /\ I[p].requested # NoWindow) <=>
                \/ r = Ro /\ SameSlot(assign[p], o)
                \/ /\ r = R(assign[p]) /\ assign[p].requested # NoWindow
                   /\ ~SameSlot(assign[p], o) /\ assign[p].requested # o.window
    <3>1. CASE SameSlot(assign[p], o)
      <4>1. I[p].display = o.display /\ I[p].frame = o.frame /\ I[p].requested = o.window
        BY <1>5, <3>1 DEF SameSlot
      <4>2. R(I[p]) = Ro
        BY <4>1
      <4> HIDE DEF I, R, Ro, o
      <4>. QED BY <1>1, <3>1, <4>1, <4>2 DEF o
    <3>2. CASE ~SameSlot(assign[p], o) /\ assign[p].requested = o.window
      <4>1. I[p].requested = NoWindow
        BY <1>5, <3>2
      <4> HIDE DEF I, R, Ro, o
      <4>. QED BY <4>1, <3>2
    <3>3. CASE ~SameSlot(assign[p], o) /\ assign[p].requested # o.window
      <4>1. R(I[p]) = R(assign[p]) /\ I[p].requested = assign[p].requested
        BY <1>5, <3>3
      <4> HIDE DEF I, R, Ro, o
      <4>. QED BY <4>1, <3>3
    <3>. QED BY <3>1, <3>2, <3>3
  <2> HIDE DEF I, R, Ro, K
  <2>. QED BY <1>7, <2>1
<1>9. CASE Replace
  <2>1. assign' = I /\ \E p \in 1..n : SameSlot(assign[p], o)
    BY <1>2, <1>9 DEF Replace
  <2>2. Requests' = {R(I[p]) : p \in {q \in 1..n : I[q].requested # NoWindow}}
    <3> HIDE DEF I
    <3>1. DOMAIN assign' = 1..n
      BY <1>3, <2>1 DEF I
    <3>. QED BY <2>1, <3>1 DEF Requests, InForce
  <2>3. Requests' = K \cup {Ro}
    <3> HIDE DEF I, R, K, Ro
    <3>. QED BY <1>8, <2>1, <2>2
  <2>. QED BY <1>1, <2>3
<1>10. CASE Register
  <2> DEFINE e == [display |-> o.display, frame |-> o.frame, requested |-> o.window]
  <2>1. assign' = Append(I, e) /\ \A p \in 1..n : ~SameSlot(assign[p], o)
    BY <1>2, <1>10 DEF Register
  <2>2. e \in Entries
    BY <1>1, RegisteredType
  <2>3. R(e) = Ro /\ e.requested # NoWindow
    BY <1>1
  <2> HIDE DEF I, e
  <2>4. /\ DOMAIN assign' = 1..(n + 1) /\ assign'[n + 1] = e
        /\ \A p \in 1..n : assign'[p] = I[p]
    BY <1>2, <1>3, <2>1, <2>2 DEF I
  <2>5. Requests' = {R(assign'[p]) : p \in {q \in 1..(n + 1) : assign'[q].requested # NoWindow}}
    BY <2>4 DEF Requests, InForce
  <2>6. ASSUME NEW r
        PROVE  r \in Requests' <=> \/ \E p \in 1..n : r = R(I[p]) /\ I[p].requested # NoWindow
                                   \/ r = R(e) /\ e.requested # NoWindow
    <3>1. r \in Requests' <=> \E p \in 1..(n + 1) : r = R(assign'[p]) /\ assign'[p].requested # NoWindow
      <4> HIDE DEF R
      <4>. QED BY <2>5
    <3> HIDE DEF R
    <3>. QED BY <1>2, <2>4, <3>1
  <2>7. Requests' = K \cup {Ro}
    <3> HIDE DEF R, K, Ro
    <3>. QED BY <1>8, <2>1, <2>3, <2>6
  <2>. QED BY <1>1, <2>7
<1>. QED BY <1>9, <1>10

\* A line is read: its operations come after those of the others.
LEMMA ParsedOnce ==
    ASSUME TypeOK, TypeOK', Parsed, NEW l \in Lines, ConfigLine(l)
    PROVE  Parsed'
<1>1. PICK f \in [1..(Len(lines) + 1) -> Nat] : IsStart(f)
  BY DEF Parsed
<1>2. PICK n \in Nat : n = Len(lines)
  BY DEF TypeOK
<1>3. PICK s \in Seq(Operation) : s = operations
  BY DEF TypeOK
<1>4. lines \in Seq(Lines) /\ lines' = Append(lines, l) /\ operations' = operations \o l
  BY DEF TypeOK, ConfigLine
<1>5. /\ Len(lines') = n + 1 /\ lines'[n + 1] = l
      /\ \A i \in 1..n : lines'[i] = lines[i]
  BY <1>2, <1>4
<1>6. l \in Seq(Operation) /\ Len(l) \in {1, 2}
  BY LineType, LineShape
<1>7. PICK t \in Seq(Operation), m \in {1, 2} : t = l /\ m = Len(l)
  BY <1>6
<1>8. PICK c \in Nat : c = Len(s)
  BY <1>3
<1>9. f \in [1..(n + 1) -> Nat] /\ f[1] = 0 /\ f[n + 1] = c
  BY <1>1, <1>2, <1>3, <1>8 DEF IsStart
<1>10. /\ \A k \in 1..n : /\ f[k + 1] = f[k] + Len(lines[k])
                          /\ \A j \in 1..Len(lines[k]) : s[f[k] + j] = lines[k][j]
       /\ \A i, j \in 1..(n + 1) : i <= j =>
            /\ f[j] - f[i] <= 2 * (j - i)
            /\ j - i <= f[j] - f[i]
            /\ (\A a \in i..(j - 1) : Len(lines[a]) = 1) => f[j] - f[i] = j - i
  BY <1>1, <1>2, <1>3 DEF IsStart
<1>20. \A i, j \in 1..(n + 1) : i <= j => f[j] - f[i] <= 2 * (j - i) /\ j - i <= f[j] - f[i]
  BY <1>10
<1>11. /\ Len(s \o t) = c + m
       /\ \A j \in 1..c : (s \o t)[j] = s[j]
       /\ \A j \in 1..m : (s \o t)[c + j] = l[j]
  BY <1>3, <1>7, <1>8
<1> DEFINE g == [i \in 1..(n + 2) |-> IF i = n + 2 THEN c + m ELSE f[i]]
<1>12. g \in [1..(n + 2) -> Nat]
  BY <1>9
<1>13. g[n + 2] = c + m /\ \A i \in 1..(n + 1) : g[i] = f[i]
  BY <1>9
<1> HIDE DEF g
<1>14. ASSUME NEW k \in 1..(n + 1)
       PROVE  /\ g[k + 1] = g[k] + Len(lines'[k])
              /\ \A j \in 1..Len(lines'[k]) : operations'[g[k] + j] = lines'[k][j]
  <2>1. CASE k = n + 1
    <3>1. lines'[k] = l /\ operations' = s \o t /\ k + 1 = n + 2 /\ g[k] = c /\ g[k + 1] = c + m
          /\ Len(l) = m
      BY <1>3, <1>4, <1>5, <1>7, <1>9, <1>13, <2>1
    <3>. QED BY <1>11, <3>1
  <2>2. CASE k \in 1..n
    <3>1. /\ g[k + 1] = f[k + 1] /\ g[k] = f[k] /\ lines'[k] = lines[k]
          /\ f[k + 1] = f[k] + Len(lines[k])
      <4>1. k \in 1..(n + 1) /\ k + 1 \in 1..(n + 1)
        BY <2>2
      <4>. QED BY <1>5, <1>10, <1>13, <2>2, <4>1
    <3>2. ASSUME NEW j \in 1..Len(lines[k]) PROVE operations'[f[k] + j] = lines[k][j]
      <4>1. f[n + 1] - f[k + 1] >= n - k
        <5>1. k + 1 \in 1..(n + 1) /\ n + 1 \in 1..(n + 1) /\ k + 1 <= n + 1
          BY <2>2
        <5>2. (n + 1) - (k + 1) <= f[n + 1] - f[k + 1]
          BY <1>20, <5>1
        <5>. QED BY <1>9, <2>2, <5>1, <5>2
      <4>2. Len(lines[k]) \in Nat
        BY <1>2, <1>4, <2>2, LineShape
      <4>3. f[k] \in Nat /\ f[k + 1] \in Nat
        BY <1>9, <2>2
      <4>4. f[k] + j \in 1..c
        <5>1. f[k + 1] <= c
          BY <1>9, <2>2, <4>1, <4>3
        <5>2. PICK a \in Nat, b \in Nat, e \in Nat : a = f[k] /\ b = f[k + 1] /\ e = Len(lines[k])
          BY <4>2, <4>3
        <5>3. b = a + e /\ b <= c /\ j \in 1..e
          BY <3>1, <5>1, <5>2
        <5>4. a + j \in 1..c
          BY <5>3
        <5>. QED BY <5>2, <5>4
      <4>. QED BY <1>3, <1>4, <1>7, <1>10, <1>11, <2>2, <4>4
    <3>. QED BY <3>1, <3>2
  <2>. QED BY <2>1, <2>2
<1>15. ASSUME NEW i \in 1..(n + 2), NEW j \in 1..(n + 2), i <= j
       PROVE  /\ g[j] - g[i] <= 2 * (j - i)
              /\ j - i <= g[j] - g[i]
              /\ (\A a \in i..(j - 1) : Len(lines'[a]) = 1) => g[j] - g[i] = j - i
  <2>1. CASE j \in 1..(n + 1)
    <3>1. g[i] = f[i] /\ g[j] = f[j] /\ \A a \in i..(j - 1) : lines'[a] = lines[a]
      BY <1>5, <1>13, <1>15, <2>1
    <3>2. i \in 1..(n + 1)
      BY <1>15, <2>1
    <3>3. f[j] - f[i] <= 2 * (j - i) /\ j - i <= f[j] - f[i]
      BY <1>15, <1>20, <2>1, <3>2
    <3>4. (\A a \in i..(j - 1) : Len(lines[a]) = 1) => f[j] - f[i] = j - i
      BY <1>10, <1>15, <2>1, <3>2
    <3>. QED BY <3>1, <3>3, <3>4
  <2>2. CASE i = n + 2
    <3>1. i = j /\ g[i] \in Nat
      BY <1>12, <1>15, <2>2
    <3>. QED BY <1>15, <3>1
  <2>3. CASE j = n + 2 /\ i \in 1..(n + 1)
    <3>1. g[i] = f[i] /\ g[j] = c + m /\ f[i] \in Nat
      BY <1>9, <1>13, <2>3
    <3>2. /\ c - f[i] <= 2 * (n + 1 - i)
          /\ n + 1 - i <= c - f[i]
          /\ (\A a \in i..n : Len(lines[a]) = 1) => c - f[i] = n + 1 - i
      <4>1. n + 1 - 1 = n /\ n + 1 \in 1..(n + 1)  OBVIOUS
      <4>2. i <= n + 1 /\ f[n + 1] = c
        BY <1>9, <2>3
      <4>3. c - f[i] <= 2 * (n + 1 - i) /\ n + 1 - i <= c - f[i]
        <5>1. f[n + 1] - f[i] <= 2 * ((n + 1) - i) /\ (n + 1) - i <= f[n + 1] - f[i]
          BY <1>20, <2>3, <4>1, <4>2
        <5>. QED BY <4>2, <5>1
      <4>4. (\A a \in i..((n + 1) - 1) : Len(lines[a]) = 1) => f[n + 1] - f[i] = (n + 1) - i
        BY <1>10, <2>3, <4>1, <4>2
      <4>. QED BY <4>1, <4>2, <4>3, <4>4
    <3>3. (\A a \in i..(j - 1) : Len(lines'[a]) = 1) => m = 1 /\ \A a \in i..n : Len(lines[a]) = 1
      <4>1. n + 1 \in i..(j - 1) /\ \A a \in i..n : a \in i..(j - 1) /\ a \in 1..n
        BY <2>3
      <4>. QED BY <1>5, <1>7, <4>1
    <3>4. g[j] - g[i] = m + (c - f[i]) /\ j - i = 1 + (n + 1 - i) /\ m \in {1, 2}
      BY <2>3, <3>1
    <3>5. n + 1 - i \in Int /\ c - f[i] \in Int
      BY <2>3, <3>1
    <3> DEFINE x == n + 1 - i
               y == c - f[i]
    <3> HIDE DEF x, y
    <3>6. x \in Int /\ y \in Int /\ g[j] - g[i] = m + y /\ j - i = 1 + x
      BY <3>4, <3>5 DEF x, y
    <3>7. y <= 2 * x /\ x <= y
      BY <3>2 DEF x, y
    <3>8. (\A a \in i..(j - 1) : Len(lines'[a]) = 1) => m = 1 /\ y = x
      BY <3>2, <3>3 DEF x, y
    <3>9. m + y <= 2 * (1 + x) /\ 1 + x <= m + y /\ (m = 1 /\ y = x => m + y = 1 + x)
      BY <3>4, <3>6, <3>7
    <3>. QED BY <3>6, <3>8, <3>9
  <2>. QED BY <1>15, <2>1, <2>2, <2>3
<1>16. Len(operations') = c + m
  BY <1>3, <1>4, <1>7, <1>11
<1>17. g[1] = 0 /\ g[n + 2] = Len(operations')
  BY <1>9, <1>13, <1>16
<1>18. Len(lines') + 1 = n + 2
  BY <1>5
<1>19. g \in [1..(Len(lines') + 1) -> Nat] /\ IsStart(g)'
  <2>1. g \in [1..(Len(lines') + 1) -> Nat]
    BY <1>12, <1>18
  <2>2. /\ g[Len(lines') + 1] = Len(operations')
        /\ \A k \in 1..Len(lines') :
             /\ g[k + 1] = g[k] + Len(lines'[k])
             /\ \A j \in 1..Len(lines'[k]) : operations'[g[k] + j] = lines'[k][j]
    BY <1>5, <1>14, <1>17, <1>18
  <2>3. \A i, j \in 1..(Len(lines') + 1) : i <= j =>
         /\ g[j] - g[i] <= 2 * (j - i)
         /\ j - i <= g[j] - g[i]
         /\ (\A a \in i..(j - 1) : Len(lines'[a]) = 1) => g[j] - g[i] = j - i
    BY <1>15, <1>18
  <2>. QED BY <1>17, <2>1, <2>2, <2>3 DEF IsStart
<1>. QED BY <1>19 DEF Parsed

\* A run begins at the first line, with nothing requested.
LEMMA RunsFromStart ==
    TypeOK /\ Parsed /\ u = 0 /\ assign = <<>> /\ layout = [d \in Displays |-> NoLayout]
        => RunsAsDocumented
<1> SUFFICES ASSUME TypeOK, Parsed, u = 0, assign = <<>>,
                    layout = [d \in Displays |-> NoLayout]
             PROVE  RunsAsDocumented
  OBVIOUS
<1>1. PICK f \in [1..(Len(lines) + 1) -> Nat] : IsStart(f)
  BY DEF Parsed
<1>2. lines \in Seq(Lines) /\ DOMAIN lines = 1..Len(lines) /\ Len(lines) \in Nat
      /\ operations \in Seq(Operation)
  BY DEF TypeOK
<1>3. AtLine(f, 1) \/ AtEnd(1)
  <2>1. CASE Len(lines) = 0
    BY <1>1, <1>2, <2>1 DEF AtEnd, IsStart
  <2>2. CASE Len(lines) # 0
    BY <1>1, <1>2, <2>2 DEF AtLine, IsStart
  <2>. QED BY <2>1, <2>2
<1>4. Reached \subseteq Nat \ {0} /\ Executed \subseteq Reached
  <2>1. Reached \subseteq DOMAIN lines /\ Executed \subseteq Reached
    BY DEF Reached, Executed
  <2>2. DOMAIN lines \subseteq Nat \ {0}
    BY <1>2
  <2>. QED BY <2>1, <2>2
<1>5. Between(1)
  <2>1. 1 \in DOMAIN lines => 1 \in Reached
    BY DEF Reached
  <2>. QED BY <1>4, <2>1 DEF Between
<1>6. Before(1) = {}
  <2>1. \A i \in Nat \ {0} : ~(i < 1)
    OBVIOUS
  <2>. QED BY <1>4, <2>1 DEF Before
<1>7. Requests = {} /\ Requested({}) = {} /\ \A d \in Displays : Decided({}, d) = NoLayout
  BY DEF Requests, InForce, Requested, Decided
<1>8. FollowedTo(1)
  BY <1>6, <1>7 DEF FollowedTo
<1>. QED BY <1>1, <1>3, <1>5, <1>8 DEF RunsAsDocumented

\* Where the interpreter is, in terms of lines.
LEMMA LineAt ==
    ASSUME TypeOK, Running, NEW f \in [1..(Len(lines) + 1) -> Nat], NEW k \in Nat \ {0},
           IsStart(f), AtLine(f, k) \/ InBody(f, k) \/ AtEnd(k)
    PROVE  /\ k \in DOMAIN lines
           /\ f[k + 1] \in Nat /\ f[k + 1] <= Len(operations)
           /\ Len(operations) <= 2 * Len(lines)
           /\ Current \in Statement => Current = Body(k) /\ Met(k) /\ u + 1 = f[k + 1]
           /\ Current \in Condition => /\ u = f[k] /\ u + 2 = f[k + 1]
                                       /\ Len(lines[k]) = 2 /\ Current = lines[k][1]
<1>1. /\ lines \in Seq(Lines) /\ DOMAIN lines = 1..Len(lines) /\ Len(lines) \in Nat
      /\ operations \in Seq(Operation) /\ u \in Nat /\ u < Len(operations)
  BY DEF TypeOK, Running
<1>2. k \in 1..Len(lines)
  BY <1>1 DEF AtLine, InBody, AtEnd
<1>3. lines[k] \in Lines /\ Body(k) \in Statement /\ Len(lines[k]) \in {1, 2}
  BY <1>1, <1>2, BodyType
<1>4. f[k] \in Nat /\ f[k + 1] \in Nat /\ f[k + 1] = f[k] + Len(lines[k])
      /\ \A j \in 1..Len(lines[k]) : operations[f[k] + j] = lines[k][j]
  <2>1. k \in 1..(Len(lines) + 1) /\ k + 1 \in 1..(Len(lines) + 1)
    BY <1>1, <1>2
  <2>2. f[k] \in Nat /\ f[k + 1] \in Nat
    BY <2>1
  <2>3. f[k + 1] = f[k] + Len(lines[k])
      /\ \A j \in 1..Len(lines[k]) : operations[f[k] + j] = lines[k][j]
    BY <1>2 DEF IsStart
  <2>. QED BY <2>2, <2>3
<1>5. f[k + 1] <= Len(operations) /\ Len(operations) <= 2 * Len(lines)
  <2>1. k + 1 \in 1..(Len(lines) + 1) /\ Len(lines) + 1 \in 1..(Len(lines) + 1)
        /\ 1 \in 1..(Len(lines) + 1)
    BY <1>1, <1>2
  <2>2. \A i, j \in 1..(Len(lines) + 1) : i <= j => f[j] - f[i] <= 2 * (j - i) /\ j - i <= f[j] - f[i]
    BY DEF IsStart
  <2>3. f[Len(lines) + 1] - f[1] <= 2 * ((Len(lines) + 1) - 1)
    BY <1>1, <2>1, <2>2
  <2>4. (Len(lines) + 1) - (k + 1) <= f[Len(lines) + 1] - f[k + 1]
    BY <1>1, <1>2, <2>1, <2>2
  <2>5. f[Len(lines) + 1] = Len(operations) /\ f[1] = 0
    BY DEF IsStart
  <2>6. Len(operations) \in Nat
    BY <1>1
  <2>. QED BY <1>1, <1>2, <1>4, <2>3, <2>4, <2>5, <2>6
<1>6. CASE AtLine(f, k) /\ Len(lines[k]) = 1
  <2>1. u = f[k] /\ Current = lines[k][1] /\ Body(k) = lines[k][1] /\ Met(k)
    BY <1>3, <1>4, <1>6 DEF AtLine, Current, Body, Met
  <2>. QED BY <1>2, <1>1, <1>3, <1>4, <1>5, <1>6, <2>1, OperationsApart
<1>7. CASE AtLine(f, k) /\ Len(lines[k]) = 2
  <2>1. u = f[k] /\ Current = lines[k][1]
    BY <1>3, <1>4, <1>7 DEF AtLine, Current
  <2>2. Current \in Condition
    BY <1>3, <1>7, <2>1, LineShape
  <2>. QED BY <1>2, <1>1, <1>3, <1>4, <1>5, <1>7, <2>1, <2>2, OperationsApart
<1>8. CASE InBody(f, k)
  <2>1. u = f[k] + 1 /\ Len(lines[k]) = 2 /\ Holds(lines[k][1])
    BY <1>8 DEF InBody
  <2>2. Current = lines[k][2] /\ Body(k) = lines[k][2] /\ Met(k)
    <3>1. u + 1 = f[k] + 2
      BY <1>4, <2>1
    <3>. QED BY <1>4, <2>1, <3>1 DEF Current, Body, Met
  <2>. QED BY <1>1, <1>2, <1>3, <1>4, <1>5, <2>1, <2>2, OperationsApart
<1>. QED BY <1>1, <1>2, <1>3, <1>6, <1>7, <1>8 DEF AtEnd, AtLine

LEMMA SameStart ==
    ASSUME UNCHANGED <<lines, operations>>
    PROVE  (\A f : IsStart(f)' <=> IsStart(f)) /\ (Parsed => Parsed')
<1>1. \A f : IsStart(f)' <=> IsStart(f)
  BY DEF IsStart
<1>. QED BY <1>1 DEF Parsed

\* What the lines mean depends on nothing but the lines and the variables.
LEMMA SameMeaning ==
    ASSUME UNCHANGED <<lines, operations, value>>
    PROVE  /\ Executed' = Executed
           /\ SkipsArePlain' <=> SkipsArePlain
           /\ \A f : IsStart(f)' <=> IsStart(f)
           /\ \A k : Between(k)' <=> Between(k)
           /\ \A k : Before(k)' = Before(k)
           /\ \A E : Requested(E)' = Requested(E)
           /\ \A E, d : Decided(E, d)' = Decided(E, d)
           /\ Parsed => Parsed'
<1>1. \A i : Body(i)' = Body(i)
  BY DEF Body
<1>2. \A i : Met(i)' = Met(i)
  BY DEF Met, Holds, Compare, Resolve
<1>3. \A i, j : Follows(j, i)' = Follows(j, i)
  BY <1>1, <1>2 DEF Follows
<1>4. Reached' = Reached
  BY <1>3 DEF Reached
<1>5. Executed' = Executed
  BY <1>1, <1>2, <1>4 DEF Executed
<1>6. \A f : IsStart(f)' <=> IsStart(f)
  BY SameStart
<1>7. SkipsArePlain' <=> SkipsArePlain
  BY <1>1 DEF SkipsArePlain
<1>8. \A k : Between(k)' <=> Between(k)
  BY <1>3, <1>4 DEF Between
<1>9. \A k : Before(k)' = Before(k)
  BY <1>5 DEF Before
<1>10. \A E : Requested(E)' = Requested(E)
  BY DEF Requested, Overwrites, SameSlot, Body
<1>11. \A E, d : Decided(E, d)' = Decided(E, d)
  BY DEF Decided, Body
<1>12. Parsed => Parsed'
  BY SameStart
<1>. QED BY <1>5, <1>6, <1>7, <1>8, <1>9, <1>10, <1>11, <1>12

\* A run that comes from line k to line m, having done what line k asks for.
LEMMA MovesOn ==
    ASSUME TypeOK, UNCHANGED <<lines, operations, value>>,
           NEW f \in [1..(Len(lines) + 1) -> Nat], NEW k \in DOMAIN lines, NEW m \in Nat, m > k,
           IsStart(f), Between(k),
           \A l \in DOMAIN lines : Follows(l, k) => l = m,
           m \in DOMAIN lines => Follows(m, k),
           m <= Len(lines) + 1 => u' = f[m],
           m > Len(lines) + 1 => u' >= Len(operations),
           Requests' = Requested(Before(k) \cup (Executed \cap {k})),
           \A d \in Displays :
                layout'[d] = Decided(Before(k) \cup (Executed \cap {k}), d)
    PROVE  RunsAsDocumented'
<1>1. Between(m) /\ Before(m) = Before(k) \cup (Executed \cap {k})
  BY Moves
<1>2. Between(m)' /\ IsStart(f)' /\ Before(m)' = Before(m)
  BY <1>1, SameMeaning
<1>3. PICK E : E = Before(m)
  OBVIOUS
<1>4. Requested(E)' = Requested(E) /\ \A d : Decided(E, d)' = Decided(E, d)
  BY SameMeaning
<1>5. Requests' = Requested(E) /\ \A d \in Displays : layout'[d] = Decided(E, d)
  BY <1>1, <1>3
<1>6. FollowedTo(m)'
  <2>1. Requests' = Requested(Before(m))'
    BY <1>2, <1>3, <1>4, <1>5
  <2>2. \A d \in Displays : layout'[d] = Decided(Before(m), d)'
    BY <1>2, <1>3, <1>4, <1>5
  <2>. QED BY <2>1, <2>2 DEF FollowedTo
<1>7. Len(lines) \in Nat /\ DOMAIN lines = 1..Len(lines) /\ operations \in Seq(Operation)
  BY DEF TypeOK
<1>8. (AtLine(f, m) \/ AtEnd(m))'
  <2>1. CASE m <= Len(lines)
    BY <1>7, <2>1 DEF AtLine
  <2>2. CASE m = Len(lines) + 1
    <3>1. f[m] = Len(operations)
      BY <2>2 DEF IsStart
    <3>. QED BY <1>7, <2>2, <3>1 DEF AtEnd
  <2>3. CASE m > Len(lines) + 1
    BY <1>7, <2>3 DEF AtEnd
  <2>. QED BY <1>7, <2>1, <2>2, <2>3
<1>9. m \in Nat \ {0}
  BY <1>7
<1>10. f \in [1..(Len(lines') + 1) -> Nat]
  OBVIOUS
<1>. QED BY <1>2, <1>6, <1>8, <1>9, <1>10 DEF RunsAsDocumented

\* The same for a line that the next one follows.
LEMMA NextLine ==
    ASSUME TypeOK, UNCHANGED <<lines, operations, value>>,
           NEW f \in [1..(Len(lines) + 1) -> Nat], NEW k \in DOMAIN lines,
           IsStart(f), Between(k),
           \A l \in DOMAIN lines : Follows(l, k) <=> l = k + 1,
           u' = f[k + 1],
           Requests' = Requested(Before(k) \cup (Executed \cap {k})),
           \A d \in Displays :
                layout'[d] = Decided(Before(k) \cup (Executed \cap {k}), d)
    PROVE  RunsAsDocumented'
<1>1. DOMAIN lines = 1..Len(lines) /\ Len(lines) \in Nat
  BY DEF TypeOK
<1>2. PICK m \in Nat : m = k + 1
  BY <1>1
<1>3. m > k /\ ~(m > Len(lines) + 1) /\ u' = f[m]
  BY <1>1, <1>2
<1>4. \A l \in DOMAIN lines : Follows(l, k) <=> l = m
  BY <1>2
<1>. QED BY <1>3, <1>4, MovesOn

\* The index of the interpreter does not wrap around.
LEMMA NoWrap ==
    ASSUME TypeOK, Len(lines) <= MaxLines, Running, Len(operations) <= 2 * Len(lines),
           NEW n \in Skips \cup {0, 1}, Advance(n)
    PROVE  u' = u + n + 1
<1>1. u \in Nat /\ Len(operations) \in Nat /\ Len(lines) \in Nat /\ MaxLines \in Nat
      /\ SizeModulus \in Nat \ {0} /\ n \in Nat /\ u < Len(operations)
  BY BoundAssumption DEF TypeOK, Running
<1>2. u + n + 1 < SizeModulus
  <2>1. CASE n \in Skips \cup {0}
    <3>1. n + 2 * MaxLines + 1 < SizeModulus
      BY <2>1, BoundAssumption
    <3>. QED BY <1>1, <3>1
  <2>2. CASE n = 1
    <3>1. 0 + 2 * MaxLines + 1 < SizeModulus
      BY BoundAssumption
    <3>. QED BY <1>1, <2>2, <3>1
  <2>. QED BY <2>1, <2>2
<1>3. (u + n + 1) % SizeModulus = u + n + 1
  BY <1>1, <1>2
<1>. QED BY <1>3 DEF Advance

LEMMA TestGoesOn ==
    ASSUME TypeOK, Len(lines) <= MaxLines, RunsAsDocumented, Test
    PROVE  RunsAsDocumented'
<1>1. PICK f \in [1..(Len(lines) + 1) -> Nat], k \in Nat \ {0} :
        /\ IsStart(f)
        /\ AtLine(f, k) \/ InBody(f, k) \/ AtEnd(k)
        /\ Between(k) /\ FollowedTo(k)
  BY DEF RunsAsDocumented
<1>2. /\ Running /\ Current \in Condition
      /\ UNCHANGED <<lines, operations, value, assign, layout>>
      /\ Advance(IF Holds(Current) THEN 0 ELSE 1)
  BY DEF Test
<1>3. /\ k \in DOMAIN lines /\ Len(operations) <= 2 * Len(lines)
      /\ u = f[k] /\ u + 2 = f[k + 1] /\ Len(lines[k]) = 2 /\ Current = lines[k][1]
  BY <1>1, <1>2, LineAt
<1>4. DOMAIN lines = 1..Len(lines) /\ Len(lines) \in Nat /\ u \in Nat
  BY DEF TypeOK
<1>5. Requests' = Requests
  BY <1>2 DEF Requests, InForce
<1>6. CASE Holds(Current)
  <2>1. u' = u + 1
    <3>1. Advance(0)
      BY <1>2, <1>6
    <3>. QED BY <1>2, <1>3, <1>4, <3>1, NoWrap
  <2>2. InBody(f, k)'
    <3>1. Holds(lines[k][1])'
      <4>1. PICK c : c = lines[k][1]
        OBVIOUS
      <4>2. Holds(c) /\ lines'[k][1] = c
        BY <1>2, <1>3, <1>6, <4>1
      <4>3. Holds(c)' <=> Holds(c)
        BY <1>2 DEF Holds, Compare, Resolve
      <4>. QED BY <4>2, <4>3
    <3>. QED BY <1>2, <1>3, <1>4, <2>1, <3>1 DEF InBody
  <2>3. FollowedTo(k)'
    <3>1. PICK E : E = Before(k)
      OBVIOUS
    <3>2. Before(k)' = E /\ Requested(E)' = Requested(E) /\ \A d : Decided(E, d)' = Decided(E, d)
      BY <1>2, <3>1, SameMeaning
    <3>. QED BY <1>1, <1>2, <1>5, <3>1, <3>2 DEF FollowedTo
  <2>4. IsStart(f)' /\ Between(k)'
    BY <1>1, <1>2, SameMeaning
  <2>5. f \in [1..(Len(lines') + 1) -> Nat]
    BY <1>2
  <2>. QED BY <1>1, <2>2, <2>3, <2>4, <2>5 DEF RunsAsDocumented
<1>7. CASE ~Holds(Current)
  <2>1. u' = f[k + 1]
    <3>1. Advance(1)
      BY <1>2, <1>7
    <3>2. u' = u + 1 + 1
      BY <1>2, <1>3, <1>4, <3>1, NoWrap
    <3>. QED BY <1>3, <1>4, <3>2
  <2>2. ~Met(k)
    BY <1>3, <1>7 DEF Met
  <2>3. \A l \in DOMAIN lines : Follows(l, k) <=> l = k + 1
    BY <2>2 DEF Follows
  <2>4. Before(k) \cup (Executed \cap {k}) = Before(k)
    BY <2>2 DEF Executed
  <2>5. /\ Requests' = Requested(Before(k) \cup (Executed \cap {k}))
        /\ \A d \in Displays : layout'[d] = Decided(Before(k) \cup (Executed \cap {k}), d)
    BY <1>1, <1>2, <1>5, <2>4 DEF FollowedTo
  <2>. QED BY <1>1, <1>2, <1>3, <2>1, <2>3, <2>5, NextLine
<1>. QED BY <1>6, <1>7

LEMMA SkipGoesOn ==
    ASSUME TypeOK, Len(lines) <= MaxLines, RunsAsDocumented, SkipsArePlain, SkipAhead
    PROVE  RunsAsDocumented'
<1>1. PICK f \in [1..(Len(lines) + 1) -> Nat], k \in Nat \ {0} :
        /\ IsStart(f)
        /\ AtLine(f, k) \/ InBody(f, k) \/ AtEnd(k)
        /\ Between(k) /\ FollowedTo(k)
  BY DEF RunsAsDocumented
<1>2. /\ Running /\ Current \in Skip
      /\ UNCHANGED <<lines, operations, value, assign, layout>>
      /\ Advance(Current.count)
  BY DEF SkipAhead
<1>3. Current \in Statement
  BY <1>2 DEF Statement
<1>4. /\ k \in DOMAIN lines /\ Len(operations) <= 2 * Len(lines)
      /\ Current = Body(k) /\ Met(k) /\ u + 1 = f[k + 1]
      /\ f[k + 1] \in Nat
  BY <1>1, <1>2, <1>3, LineAt
<1>5. PICK n \in Skips : n = Current.count
  BY <1>2 DEF Skip
<1>6. DOMAIN lines = 1..Len(lines) /\ Len(lines) \in Nat /\ u \in Nat /\ n \in Nat
  BY BoundAssumption DEF TypeOK
<1>7. u' = u + n + 1
  BY <1>2, <1>4, <1>5, NoWrap
<1>8. \A l \in DOMAIN lines : Follows(l, k) <=> l = k + 1 + n
  BY <1>2, <1>4, <1>5 DEF Follows
<1>9. ASSUME NEW j \in 1..(Len(lines) + 1), k + 1 <= j, j <= k + 1 + n
      PROVE  f[j] - f[k + 1] = j - (k + 1)
  <2>1. \A l \in (k + 1)..(j - 1) : Len(lines[l]) = 1
    <3> SUFFICES ASSUME NEW l \in (k + 1)..(j - 1) PROVE Len(lines[l]) = 1
      OBVIOUS
    <3>1. l \in DOMAIN lines /\ k < l /\ l <= k + n
      BY <1>4, <1>6, <1>9
    <3>. QED BY <1>2, <1>4, <1>5, <3>1 DEF SkipsArePlain
  <2>2. k + 1 \in 1..(Len(lines) + 1)
    BY <1>4, <1>6
  <2>. QED BY <1>1, <1>9, <2>1, <2>2 DEF IsStart
<1> DEFINE m == k + 1 + n
<1>10. m <= Len(lines) + 1 => u' = f[m]
  <2> SUFFICES ASSUME m <= Len(lines) + 1 PROVE u' = f[m]
    OBVIOUS
  <2>1. m \in 1..(Len(lines) + 1) /\ k + 1 <= m /\ m <= k + 1 + n
    BY <1>4, <1>6
  <2>2. f[m] - f[k + 1] = m - (k + 1) /\ f[m] \in Nat
    BY <1>9, <2>1
  <2>. QED BY <1>4, <1>6, <1>7, <2>2
<1>11. m > Len(lines) + 1 => u' >= Len(operations)
  <2> SUFFICES ASSUME m > Len(lines) + 1 PROVE u' >= Len(operations)
    OBVIOUS
  <2>1. Len(lines) + 1 \in 1..(Len(lines) + 1) /\ k + 1 <= Len(lines) + 1
        /\ Len(lines) + 1 <= k + 1 + n
    BY <1>4, <1>6
  <2>2. f[Len(lines) + 1] - f[k + 1] = (Len(lines) + 1) - (k + 1)
    BY <1>9, <2>1
  <2>3. f[Len(lines) + 1] = Len(operations) /\ Len(operations) \in Nat
    BY <1>1 DEF IsStart, TypeOK
  <2>. QED BY <1>4, <1>6, <1>7, <2>1, <2>2, <2>3
<1>12. Before(k) \cup (Executed \cap {k}) = Before(k)
  BY <1>2, <1>4 DEF Executed
<1>13. Requests' = Requests
  BY <1>2 DEF Requests, InForce
<1>14. /\ Requests' = Requested(Before(k) \cup (Executed \cap {k}))
       /\ \A d \in Displays : layout'[d] = Decided(Before(k) \cup (Executed \cap {k}), d)
  BY <1>1, <1>2, <1>12, <1>13 DEF FollowedTo
<1>15. m \in Nat /\ m > k
  BY <1>4, <1>6
<1> HIDE DEF m
<1>16. \A l \in DOMAIN lines : Follows(l, k) <=> l = m
  BY <1>8 DEF m
<1>. QED BY <1>1, <1>2, <1>4, <1>10, <1>11, <1>14, <1>15, <1>16, MovesOn

\* A layout line, or an assign, is executed and the next line follows.
LEMMA Acts ==
    ASSUME TypeOK, Len(lines) <= MaxLines, RunsAsDocumented, Running, Current \in Statement,
           Current \notin Skip \cup Done, Advance(0)
    PROVE  \E f \in [1..(Len(lines) + 1) -> Nat], k \in DOMAIN lines :
             /\ IsStart(f) /\ Between(k) /\ FollowedTo(k)
             /\ Body(k) = Current /\ u' = f[k + 1]
             /\ \A l \in DOMAIN lines : Follows(l, k) <=> l = k + 1
             /\ Executed \cap {k} = {k}
<1>1. PICK f \in [1..(Len(lines) + 1) -> Nat], k \in Nat \ {0} :
        /\ IsStart(f)
        /\ AtLine(f, k) \/ InBody(f, k) \/ AtEnd(k)
        /\ Between(k) /\ FollowedTo(k)
  BY DEF RunsAsDocumented
<1>2. /\ k \in DOMAIN lines /\ Len(operations) <= 2 * Len(lines)
      /\ Current = Body(k) /\ Met(k) /\ u + 1 = f[k + 1]
  BY <1>1, LineAt
<1>3. u' = f[k + 1]
  <2>1. u' = u + 0 + 1
    BY <1>2, NoWrap
  <2>2. u \in Nat
    BY DEF TypeOK
  <2>. QED BY <1>2, <2>1, <2>2
<1>4. \A l \in DOMAIN lines : Follows(l, k) <=> l = k + 1
  BY <1>2 DEF Follows
<1>5. k \in Executed
  BY <1>1, <1>2 DEF Executed, Between
<1>. QED BY <1>1, <1>2, <1>3, <1>4, <1>5

LEMMA BeforeEarlier ==
    ASSUME TypeOK, NEW k \in DOMAIN lines
    PROVE  Before(k) \in SUBSET DOMAIN lines /\ \A i \in Before(k) : i < k
BY DEF Before, Executed, Reached

LEMMA LayoutGoesOn ==
    ASSUME TypeOK, Len(lines) <= MaxLines, RunsAsDocumented, SetLayout
    PROVE  RunsAsDocumented'
<1>1. /\ Running /\ Current \in Layout \cup Default /\ Advance(0)
      /\ UNCHANGED <<lines, operations, value, assign>>
      /\ layout' = [layout EXCEPT ![Current.display] =
                       IF Current \in Layout THEN Current.layout
                       ELSE DefaultLayout[Current.display]]
  BY DEF SetLayout
<1>2. Current \in Statement /\ Current \notin Skip \cup Done /\ Current \notin Assign
  BY <1>1, OperationsApart DEF Statement
<1>3. PICK f \in [1..(Len(lines) + 1) -> Nat], k \in DOMAIN lines :
             /\ IsStart(f) /\ Between(k) /\ FollowedTo(k)
             /\ Body(k) = Current /\ u' = f[k + 1]
             /\ \A l \in DOMAIN lines : Follows(l, k) <=> l = k + 1
             /\ Executed \cap {k} = {k}
  BY <1>1, <1>2, Acts
<1>4. PICK E \in SUBSET DOMAIN lines : E = Before(k) /\ \A i \in E : i < k
  BY BeforeEarlier
<1>5. Requests' = Requests
  BY <1>1 DEF Requests, InForce
<1>6. Requests' = Requested(E \cup {k})
  <2>1. Requested(E \cup {k}) = Requested(E)
    BY <1>2, <1>3, <1>4, RequestedOnce
  <2>. QED BY <1>3, <1>4, <1>5, <2>1 DEF FollowedTo
<1>7. ASSUME NEW d \in Displays PROVE layout'[d] = Decided(E \cup {k}, d)
  <2>1. Decided(E \cup {k}, d) =
             IF Body(k) \in Layout \cup Default /\ Body(k).display = d
             THEN IF Body(k) \in Layout THEN Body(k).layout ELSE DefaultLayout[d]
             ELSE Decided(E, d)
    BY <1>4, DecidedOnce
  <2>2. layout[d] = Decided(E, d)
    BY <1>3, <1>4 DEF FollowedTo
  <2>3. layout \in [Displays -> Layouts \cup {NoLayout}]
    BY DEF TypeOK
  <2>. QED BY <1>1, <1>3, <2>1, <2>2, <2>3
<1>. QED BY <1>1, <1>3, <1>4, <1>6, <1>7, NextLine

LEMMA AssignGoesOn ==
    ASSUME TypeOK, Len(lines) <= MaxLines, RunsAsDocumented, Replace \/ Register
    PROVE  RunsAsDocumented'
<1>1. /\ Running /\ Current \in Assign /\ Advance(0)
      /\ UNCHANGED <<lines, operations, value, layout>>
  BY DEF Replace, Register
<1>2. Current \in Statement /\ Current \notin Skip \cup Done
      /\ Current \notin Layout \cup Default
  BY <1>1, OperationsApart DEF Statement
<1>3. PICK f \in [1..(Len(lines) + 1) -> Nat], k \in DOMAIN lines :
             /\ IsStart(f) /\ Between(k) /\ FollowedTo(k)
             /\ Body(k) = Current /\ u' = f[k + 1]
             /\ \A l \in DOMAIN lines : Follows(l, k) <=> l = k + 1
             /\ Executed \cap {k} = {k}
  BY <1>1, <1>2, Acts
<1>4. PICK E \in SUBSET DOMAIN lines : E = Before(k) /\ \A i \in E : i < k
  BY BeforeEarlier
<1>5. Requests' = Requested(E \cup {k})
  <2>1. Requests = Requested(E)
    BY <1>3, <1>4 DEF FollowedTo
  <2>2. Requested(E \cup {k}) =
                {r \in Requested(E) :
                    /\ ~(r.display = Body(k).display /\ r.frame = Body(k).frame)
                    /\ r.window # Body(k).window}
                \cup {[display |-> Body(k).display, frame |-> Body(k).frame,
                       window |-> Body(k).window]}
    BY <1>1, <1>3, <1>4, RequestedOnce
  <2>. QED BY <1>3, <2>1, <2>2, RequestsOnce
<1>6. ASSUME NEW d \in Displays PROVE layout'[d] = Decided(E \cup {k}, d)
  <2>1. Decided(E \cup {k}, d) = Decided(E, d)
    BY <1>2, <1>3, <1>4, DecidedOnce
  <2>. QED BY <1>1, <1>3, <1>4, <2>1 DEF FollowedTo
<1>. QED BY <1>1, <1>3, <1>4, <1>5, <1>6, NextLine

\* A run that stops has followed the script to its end, or to the line that ends it.
LEMMA StopsAsDocumented ==
    ASSUME TypeOK, RunsAsDocumented, Stop
    PROVE  AsDocumented'
<1>1. PICK f \in [1..(Len(lines) + 1) -> Nat], k \in Nat \ {0} :
        /\ IsStart(f)
        /\ AtLine(f, k) \/ InBody(f, k) \/ AtEnd(k)
        /\ Between(k) /\ FollowedTo(k)
  BY DEF RunsAsDocumented
<1>2. /\ UNCHANGED <<lines, operations, value, assign, layout>>
      /\ phase = "run" /\ (Running => Current \in Done)
  BY DEF Stop
<1>3. /\ lines \in Seq(Lines) /\ DOMAIN lines = 1..Len(lines) /\ Len(lines) \in Nat
      /\ operations \in Seq(Operation) /\ Len(operations) \in Nat
  BY DEF TypeOK
<1>4. Before(k) = Executed
  <2>1. CASE Running
    <3>1. Current \in Statement
      BY <1>2, <2>1 DEF Statement
    <3>2. k \in DOMAIN lines /\ Current = Body(k) /\ Met(k)
      BY <1>1, <2>1, <3>1, LineAt
    <3>3. \A l \in DOMAIN lines : ~Follows(l, k)
      BY <1>2, <2>1, <3>2, OperationsApart DEF Follows
    <3>4. Executed \cap {k} = {}
      BY <1>2, <2>1, <3>2 DEF Executed
    <3>5. PICK m \in Nat : m = Len(lines) + 1
      BY <1>3
    <3>6. m > k /\ m \notin DOMAIN lines /\ m > Len(lines)
      BY <1>3, <3>2, <3>5
    <3>7. Before(m) = Before(k) \cup (Executed \cap {k}) /\ Before(m) = Executed
      BY <1>1, <3>2, <3>3, <3>6, Moves
    <3>. QED BY <3>4, <3>7
  <2>2. CASE ~Running
    <3>1. u >= Len(operations)
      BY <1>2, <1>3, <2>2 DEF Running, TypeOK
    <3>2. ASSUME k \in 1..Len(lines) PROVE f[k] + Len(lines[k]) <= Len(operations)
                                           /\ f[k] \in Nat /\ Len(lines[k]) \in {1, 2}
      <4>1. k \in 1..(Len(lines) + 1) /\ k + 1 \in 1..(Len(lines) + 1)
            /\ Len(lines) + 1 \in 1..(Len(lines) + 1) /\ k + 1 <= Len(lines) + 1
        BY <1>3, <3>2
      <4>2. f[k + 1] = f[k] + Len(lines[k]) /\ f[Len(lines) + 1] = Len(operations)
        BY <1>1, <3>2 DEF IsStart
      <4>3. (Len(lines) + 1) - (k + 1) <= f[Len(lines) + 1] - f[k + 1]
        BY <1>1, <4>1 DEF IsStart
      <4>4. f[k] \in Nat /\ f[k + 1] \in Nat
        BY <4>1
      <4>5. Len(lines[k]) \in {1, 2}
        BY <1>3, <3>2, BodyType
      <4>. QED BY <1>3, <3>2, <4>2, <4>3, <4>4, <4>5
    <3>3. AtEnd(k)
      <4>1. CASE AtLine(f, k)
        <5>1. k \in 1..Len(lines) /\ u = f[k]
          BY <4>1 DEF AtLine
        <5>2. PICK l \in {1, 2} : l = Len(lines[k])
          BY <3>2, <5>1
        <5>3. f[k] + l <= Len(operations) /\ f[k] \in Nat
          BY <3>2, <5>1, <5>2
        <5>4. ~(f[k] >= Len(operations))
          BY <1>3, <5>3
        <5>. QED BY <3>1, <5>1, <5>4
      <4>2. CASE InBody(f, k)
        <5>1. k \in 1..Len(lines) /\ u = f[k] + 1 /\ Len(lines[k]) = 2
          BY <4>2 DEF InBody
        <5>2. f[k] + 2 <= Len(operations) /\ f[k] \in Nat
          BY <3>2, <5>1
        <5>3. ~(f[k] + 1 >= Len(operations))
          BY <1>3, <5>2
        <5>. QED BY <3>1, <5>1, <5>3
      <4>. QED BY <1>1, <4>1, <4>2
    <3>4. \A i \in Executed : i < k
      BY <1>3, <3>3 DEF AtEnd, Executed, Reached
    <3>. QED BY <3>4 DEF Before
  <2>. QED BY <2>1, <2>2
<1>5. PICK E : E = Executed
  OBVIOUS
<1>6. Requests' = Requests
  BY <1>2 DEF Requests, InForce
<1>7. Executed' = E /\ Requested(E)' = Requested(E) /\ \A d : Decided(E, d)' = Decided(E, d)
  BY <1>2, <1>5, SameMeaning
<1>. QED BY <1>1, <1>2, <1>4, <1>5, <1>6, <1>7 DEF AsDocumented, FollowedTo

\* Whatever a script in which no skip counts past an `if` makes of the variables, a run does
\* what the README says the script means (control_run_automation).  Without that restriction it
\* does not: a skip may lead from a condition to its body.
THEOREM ScriptFollowed == Spec => []ScriptIsFollowed
<1>1. Init => ScriptInv
  <2> SUFFICES ASSUME Init PROVE ScriptInv
    OBVIOUS
  <2> DEFINE f == [i \in 1..(0 + 1) |-> 0]
  <2>1. lines = <<>> /\ operations = <<>> /\ u = 0 /\ phase = "config"
        /\ layout = [d \in Displays |-> NoLayout]
    BY DEF Init
  <2>2. f \in [1..(Len(lines) + 1) -> Nat] /\ IsStart(f)
    BY <2>1 DEF IsStart
  <2>3. Parsed
    BY <2>2 DEF Parsed
  <2>. QED BY <2>1, <2>3, BoundAssumption DEF ScriptInv
<1>0. (TypeOK /\ Parsed /\ u = 0 /\ assign = <<>> /\ layout = [d \in Displays |-> NoLayout]
         => RunsAsDocumented)'
  BY RunsFromStart, PTL
<1>2. TypeOK /\ TypeOK' /\ ScriptInv /\ [Next]_vars => ScriptInv'
  <2> SUFFICES ASSUME TypeOK, TypeOK', ScriptInv, [Next]_vars PROVE ScriptInv'
    OBVIOUS
  <2>1. ASSUME TypeOK', Parsed', u' = 0, assign' = <<>>, layout' = [d \in Displays |-> NoLayout]
        PROVE  RunsAsDocumented'
    BY <1>0, <2>1
  <2>2. ASSUME NEW l \in Lines, ConfigLine(l) PROVE ScriptInv'
    <3>1. Parsed'
      BY <2>2, ParsedOnce DEF ScriptInv
    <3>2. Len(lines') <= MaxLines
      BY <2>2, BoundAssumption DEF ConfigLine, TypeOK
    <3>. QED BY <2>2, <3>1, <3>2 DEF ConfigLine, ScriptInv
  <2>3. CASE FinishConfig
    <3>1. UNCHANGED <<lines, operations, value>> /\ u' = 0 /\ assign' = <<>>
          /\ layout' = [d \in Displays |-> NoLayout] /\ phase' = "run"
      BY <2>3 DEF FinishConfig, ScriptInv, TypeOK
    <3>2. Parsed'
      BY <3>1, SameMeaning DEF ScriptInv
    <3>3. RunsAsDocumented'
      BY <2>1, <3>1, <3>2
    <3>. QED BY <3>1, <3>2, <3>3 DEF ScriptInv
  <2>4. CASE Reload
    <3> DEFINE f == [i \in 1..(0 + 1) |-> 0]
    <3>1. lines' = <<>> /\ operations' = <<>> /\ u' = 0 /\ phase' = "config"
          /\ layout' = [d \in Displays |-> NoLayout]
      BY <2>4 DEF Reload
    <3>2. f \in [1..(Len(lines') + 1) -> Nat] /\ IsStart(f)'
      BY <3>1 DEF IsStart
    <3>3. Parsed'
      BY <3>2 DEF Parsed
    <3>. QED BY <3>1, <3>3, BoundAssumption DEF ScriptInv
  <2>5. ASSUME NEW x \in Variables, NEW v \in Values, SetVariable(x, v) PROVE ScriptInv'
    <3>1. /\ UNCHANGED <<lines, operations>> /\ u' = 0 /\ assign' = <<>> /\ phase' = "run"
          /\ layout' = [d \in Displays |-> NoLayout]
      BY <2>5 DEF SetVariable, Begin
    <3>2. Parsed'
      BY <3>1, SameStart DEF ScriptInv
    <3>3. RunsAsDocumented'
      BY <2>1, <3>1, <3>2
    <3>. QED BY <3>1, <3>2, <3>3 DEF ScriptInv
  <2>6. ASSUME UNCHANGED <<lines, operations, value>>, phase = "run", phase' = "run",
               SkipsArePlain => RunsAsDocumented'
        PROVE  ScriptInv'
    <3>1. Parsed' /\ (SkipsArePlain' <=> SkipsArePlain)
      BY <2>6, SameMeaning DEF ScriptInv
    <3>. QED BY <2>6, <3>1 DEF ScriptInv
  <2>7. Len(lines) <= MaxLines /\ (phase = "run" /\ SkipsArePlain => RunsAsDocumented)
    BY DEF ScriptInv
  <2>8. CASE Test
    <3>1. UNCHANGED <<lines, operations, value>> /\ phase = "run" /\ phase' = "run"
      BY <2>8 DEF Test, Running
    <3>. QED BY <2>6, <2>7, <2>8, <3>1, TestGoesOn
  <2>9. CASE SkipAhead
    <3>1. UNCHANGED <<lines, operations, value>> /\ phase = "run" /\ phase' = "run"
      BY <2>9 DEF SkipAhead, Running
    <3>. QED BY <2>6, <2>7, <2>9, <3>1, SkipGoesOn
  <2>10. CASE SetLayout
    <3>1. UNCHANGED <<lines, operations, value>> /\ phase = "run" /\ phase' = "run"
      BY <2>10 DEF SetLayout, Running
    <3>. QED BY <2>6, <2>7, <2>10, <3>1, LayoutGoesOn
  <2>11. CASE Replace \/ Register
    <3>1. UNCHANGED <<lines, operations, value>> /\ phase = "run" /\ phase' = "run"
      BY <2>11 DEF Replace, Register, Running
    <3>. QED BY <2>6, <2>7, <2>11, <3>1, AssignGoesOn
  <2>12. CASE Stop
    <3>1. UNCHANGED <<lines, operations, value>> /\ phase = "run" /\ phase' = "idle"
      BY <2>12 DEF Stop
    <3>2. Parsed' /\ (SkipsArePlain' <=> SkipsArePlain)
      BY <3>1, SameMeaning DEF ScriptInv
    <3>3. SkipsArePlain => AsDocumented'
      BY <2>7, <2>12, <3>1, StopsAsDocumented
    <3>. QED BY <2>7, <3>1, <3>2, <3>3 DEF ScriptInv
  <2>13. CASE UNCHANGED vars
    <3>1. /\ UNCHANGED <<lines, operations, value, u, assign, layout, phase>>
      BY <2>13 DEF vars
    <3>2. Requests' = Requests
      BY <3>1 DEF Requests, InForce
    <3>3. Parsed' /\ (SkipsArePlain' <=> SkipsArePlain)
      BY <3>1, SameMeaning DEF ScriptInv
    <3>4. AsDocumented => AsDocumented'
      <4>1. PICK E : E = Executed
        OBVIOUS
      <4>2. Executed' = E /\ Requested(E)' = Requested(E) /\ \A d : Decided(E, d)' = Decided(E, d)
        BY <3>1, <4>1, SameMeaning
      <4>. QED BY <3>1, <3>2, <4>1, <4>2 DEF AsDocumented
    <3>5. RunsAsDocumented => RunsAsDocumented'
      <4> SUFFICES ASSUME RunsAsDocumented PROVE RunsAsDocumented'
        OBVIOUS
      <4>1. PICK f \in [1..(Len(lines) + 1) -> Nat], k \in Nat \ {0} :
              /\ IsStart(f)
              /\ AtLine(f, k) \/ InBody(f, k) \/ AtEnd(k)
              /\ Between(k) /\ FollowedTo(k)
        BY DEF RunsAsDocumented
      <4>2. PICK E : E = Before(k)
        OBVIOUS
      <4>3. Before(k)' = E /\ Requested(E)' = Requested(E)
            /\ \A d : Decided(E, d)' = Decided(E, d)
        BY <3>1, <4>2, SameMeaning
      <4>4. FollowedTo(k)'
        BY <3>1, <3>2, <4>1, <4>2, <4>3 DEF FollowedTo
      <4>5. (AtLine(f, k) \/ InBody(f, k) \/ AtEnd(k))'
        <5>1. \A c : Holds(c)' <=> Holds(c)
          BY <3>1 DEF Holds, Compare, Resolve
        <5>2. PICK c : c = lines[k][1]
          OBVIOUS
        <5>3. Holds(c) <=> Holds(lines[k][1])'
          BY <3>1, <5>1, <5>2
        <5>. QED BY <3>1, <4>1, <5>2, <5>3 DEF AtLine, InBody, AtEnd
      <4>6. IsStart(f)' /\ Between(k)'
        BY <3>1, <4>1, SameMeaning
      <4>7. f \in [1..(Len(lines') + 1) -> Nat]
        BY <3>1
      <4>. QED BY <4>4, <4>5, <4>6, <4>7 DEF RunsAsDocumented
    <3>. QED BY <3>1, <3>3, <3>4, <3>5 DEF ScriptInv
  <2>. QED BY <2>2, <2>3, <2>4, <2>5, <2>8, <2>9, <2>10, <2>11, <2>12, <2>13
             DEF Next, Interpret
<1>3. ScriptInv => ScriptIsFollowed
  BY DEF ScriptInv, ScriptIsFollowed
<1>. QED BY <1>1, <1>2, <1>3, TypeCorrect, PTL DEF Spec

=============================================================================
