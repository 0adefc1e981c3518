------------------------ MODULE WindowTrackingProofs ------------------------
(***************************************************************************)
(* Theorems about WindowTracking, for every number of displays, commands   *)
(* and windows, every set of window ids and every workload.                *)
(***************************************************************************)
EXTENDS WindowTracking, WellFoundedInduction, SequenceTheorems, TLAPS

USE CountAssumption, WorkloadAssumption

LEMMA ChildSets ==
    /\ Children = Startable \cup Repatriated /\ Startable \cap Repatriated = {}
    /\ Startable = Users \cup Automated /\ Users \cap Automated = {}
    /\ Children \subseteq Nat /\ Nobody \notin Children /\ External \notin Startable
    /\ \A c \in Repatriated : c - CommandCount \in Displays
    /\ \A c \in Startable : c - CommandCount \notin Displays
    /\ \A d \in Displays : RepatriatedOn(d) \in Repatriated /\ RepatriatedOn(d) - CommandCount = d
BY DEF Children, Startable, Users, Automated, Repatriated, Displays, Nobody, External, RepatriatedOn

LEMMA DisplaySets ==
    /\ Displays \subseteq Nat /\ Select \in Nat /\ Select \notin Displays
    /\ 1..Select = Displays \cup {Select} /\ 1 \in Displays
BY DEF Displays, Select

\* A set of places has a first one.
LEMMA LeastIsLeast ==
    ASSUME NEW S \in SUBSET Nat, S # {}
    PROVE  Least(S) \in S /\ \A m \in S : Least(S) <= m
<1>. DEFINE R == OpToRel(<, Nat)
<1>1. IsWellFoundedOn(R, Nat)
  BY NatLessThanWellFounded
<1>2. \A m, n \in Nat : <<m, n>> \in R <=> m < n
  BY DEF OpToRel
<1>. HIDE DEF R
<1>3. PICK n \in S : \A m \in S : ~(<<m, n>> \in R)
  BY <1>1, WFMin
<1>4. ASSUME NEW m \in S PROVE n <= m
  <2>1. m \in Nat /\ n \in Nat
    OBVIOUS
  <2>2. ~(m < n)
    BY <1>2, <1>3, <2>1
  <2>. QED BY <2>1, <2>2
<1>. QED BY <1>4 DEF Least

\* The entries behind the one that is taken out move up.
LEMMA RemoveAtShifts ==
    ASSUME NEW S, NEW s \in Seq(S), NEW n \in DOMAIN s
    PROVE  /\ RemoveAt(s, n) \in Seq(S)
           /\ DOMAIN RemoveAt(s, n) = 1..Len(s) - 1
           /\ \A m \in DOMAIN RemoveAt(s, n) :
                 RemoveAt(s, n)[m] = s[IF m < n THEN m ELSE m + 1]
<1>. DEFINE a == SubSeq(s, 1, n - 1)
            b == SubSeq(s, n + 1, Len(s))
<1>0. Len(s) \in Nat /\ n \in 1..Len(s)
  OBVIOUS
<1>1. a \in Seq(S) /\ Len(a) = n - 1 /\ \A i \in 1..n - 1 : a[i] = s[i]
  <2>1. \A i \in 1..n - 1 : s[i] \in S
    BY <1>0
  <2>. QED BY <1>0, <2>1, SubSeqProperties
<1>2. b \in Seq(S) /\ Len(b) = Len(s) - n /\ \A i \in 1..Len(s) - n : b[i] = s[n + i]
  <2>1. \A i \in n + 1..Len(s) : s[i] \in S
    BY <1>0
  <2>2. \A i \in 1..Len(s) - n : i \in 1..Len(s) - (n + 1) + 1 /\ n + 1 + i - 1 = n + i
    BY <1>0
  <2>3. /\ b \in Seq(S)
        /\ Len(b) = IF n + 1 <= Len(s) THEN Len(s) - (n + 1) + 1 ELSE 0
        /\ \A i \in 1..Len(s) - (n + 1) + 1 : b[i] = s[n + 1 + i - 1]
    BY <1>0, <2>1, SubSeqProperties
  <2>. QED BY <1>0, <2>2, <2>3
<1>. HIDE DEF a, b
<1>3. /\ a \o b \in Seq(S) /\ Len(a \o b) = Len(s) - 1
      /\ \A m \in 1..Len(s) - 1 : (a \o b)[m] = IF m <= Len(a) THEN a[m] ELSE b[m - Len(a)]
  <2>1. Len(a) + Len(b) = Len(s) - 1
    BY <1>0, <1>1, <1>2
  <2>2. /\ a \o b \in Seq(S) /\ Len(a \o b) = Len(a) + Len(b)
        /\ \A m \in 1..Len(a) + Len(b) : (a \o b)[m] = IF m <= Len(a) THEN a[m] ELSE b[m - Len(a)]
    BY <1>1, <1>2, ConcatProperties
  <2>. QED BY <2>1, <2>2
<1>4. ASSUME NEW m \in 1..Len(s) - 1 PROVE (a \o b)[m] = s[IF m < n THEN m ELSE m + 1]
  <2>1. CASE m < n
    BY <1>0, <1>1, <1>3, <2>1
  <2>2. CASE ~(m < n)
    <3>1. m - (n - 1) \in 1..Len(s) - n /\ n + (m - (n - 1)) = m + 1 /\ ~(m <= n - 1)
      BY <1>0, <2>2
    <3>. QED BY <1>1, <1>2, <1>3, <2>2, <3>1
  <2>. QED BY <2>1, <2>2
<1>5. RemoveAt(s, n) = a \o b
  BY DEF RemoveAt, a, b
<1>6. DOMAIN (a \o b) = 1..Len(s) - 1
  BY <1>3, LenProperties
<1>. QED BY <1>3, <1>4, <1>5, <1>6

-----------------------------------------------------------------------------
(* Types *)

EntryType   == [id : Ids, on : Displays]
TrackedType == [id : Ids, state : {"inactive", "unconfigured", "active"}]
EventType   == [kind : {"create", "configure", "destroy"}, id : Ids]

\* The slot that a window is tracked in: a free one, or a new one at the end.
LEMMA TrackedSlot ==
    ASSUME tracked \in Seq(TrackedType), NEW id \in Ids
    PROVE  \E u \in 1..Len(tracked) + 1 :
              /\ u \in DOMAIN tracked => tracked[u].state = "inactive"
              /\ \A v \in DOMAIN tracked : tracked[v].state = "inactive" => u <= v
              /\ DOMAIN Tracked(id) = DOMAIN tracked \cup {u}
              /\ Tracked(id) \in Seq(TrackedType)
              /\ Tracked(id)[u] = [id |-> id, state |-> "unconfigured"]
              /\ \A v \in DOMAIN tracked \ {u} : Tracked(id)[v] = tracked[v]
<1>. DEFINE free == {u \in DOMAIN tracked : tracked[u].state = "inactive"}
            new  == [id |-> id, state |-> "unconfigured"]
            n    == Len(tracked)
<1>0. n \in Nat /\ DOMAIN tracked = 1..n /\ new \in TrackedType
  BY DEF TrackedType
<1>1. CASE free = {}
  <2>1. Tracked(id) = Append(tracked, new)
    BY <1>1 DEF Tracked
  <2>2. /\ Append(tracked, new) \in Seq(TrackedType)
        /\ Len(Append(tracked, new)) = n + 1
        /\ Append(tracked, new)[n + 1] = new
        /\ \A v \in 1..n : Append(tracked, new)[v] = tracked[v]
    BY <1>0, AppendProperties
  <2>3. DOMAIN Append(tracked, new) = 1..n \cup {n + 1}
    BY <1>0, <2>2
  <2>. HIDE DEF new
  <2>4. n + 1 \in 1..n + 1 /\ n + 1 \notin DOMAIN tracked
    BY <1>0
  <2>5. \A v \in DOMAIN tracked : tracked[v].state # "inactive"
    BY <1>1
  <2>. QED BY <1>0, <2>1, <2>2, <2>3, <2>4, <2>5 DEF new
<1>2. CASE free # {}
  <2>1. Tracked(id) = [tracked EXCEPT ![Least(free)] = new]
    BY <1>2 DEF Tracked
  <2>2. Least(free) \in free /\ \A v \in free : Least(free) <= v
    <3>1. free \in SUBSET Nat
      BY <1>0
    <3>. QED BY <1>2, <3>1, LeastIsLeast
  <2>. HIDE DEF new
  <2>3. PICK u \in DOMAIN tracked : u = Least(free)
    BY <2>2
  <2>4. u \in 1..n + 1
    BY <1>0
  <2>5. Tracked(id) \in Seq(TrackedType)
    BY <1>0, <2>1, <2>3, ExceptSeq
  <2>6. /\ DOMAIN Tracked(id) = DOMAIN tracked \cup {u} /\ Tracked(id)[u] = new
        /\ \A v \in DOMAIN tracked \ {u} : Tracked(id)[v] = tracked[v]
    BY <2>1, <2>3
  <2>. QED BY <2>2, <2>3, <2>4, <2>5, <2>6 DEF new
<1>. QED BY <1>1, <1>2

\* An entry is taken from the list of one child, if any has one for the window.
LEMMA DiscardedEntry ==
    ASSUME listed \in [Children -> Seq(EntryType)], NEW d \in Displays, NEW id \in Ids
    PROVE  \/ Listing(d, id) = {} /\ Discarded(d, id) = listed
           \/ \E c \in Children : \E n \in DOMAIN listed[c] :
                 /\ where[c] = d /\ listed[c][n].id = id
                 /\ Discarded(d, id) = [listed EXCEPT ![c] = RemoveAt(@, n)]
<1>. DEFINE found == Listing(d, id)
            c == Least(found)
            n == Least(Positions(c, id))
<1>. SUFFICES ASSUME found # {}
              PROVE  \E x \in Children : \E m \in DOMAIN listed[x] :
                        /\ where[x] = d /\ listed[x][m].id = id
                        /\ Discarded(d, id) = [listed EXCEPT ![x] = RemoveAt(@, m)]
  BY DEF Discarded
<1>1. Discarded(d, id) = [listed EXCEPT ![c] = RemoveAt(@, n)]
  BY DEF Discarded
<1>2. c \in found
  BY ChildSets, LeastIsLeast DEF Listing
<1>3. c \in Children /\ where[c] = d /\ Positions(c, id) # {}
  BY <1>2 DEF Listing
<1>4. n \in Positions(c, id)
  <2>1. Positions(c, id) \in SUBSET Nat
    BY <1>3 DEF Positions
  <2>. QED BY <1>3, <2>1, LeastIsLeast
<1>5. n \in DOMAIN listed[c] /\ listed[c][n].id = id
  BY <1>4 DEF Positions
<1>. QED BY <1>1, <1>3, <1>5

\* What a step does, as far as windows are concerned: it leaves them alone ...
LeavesWindows ==
    /\ UNCHANGED <<events, used, tracked, listed>>
    /\ DOMAIN shown' = DOMAIN shown
    /\ \A d \in Displays :
          /\ DOMAIN shown'[d] = DOMAIN shown[d]
          /\ \A id \in DOMAIN shown[d] :
                /\ shown'[d][id].opener = shown[d][id].opener
                /\ shown'[d][id].pid = "none" <=> shown[d][id].pid = "none"
    /\ \/ UNCHANGED <<where, doubtful>>
       \/ \E c \in Startable, d \in Displays : Assigned(c, d)

\* ... or an X server tells of one, that was opened, configured or closed ...
Tells(d, id, kind) ==
    /\ kind = "create"    => ~Present(d, id) /\ DOMAIN shown'[d] = DOMAIN shown[d] \cup {id}
    /\ kind = "configure" => Present(d, id) /\ DOMAIN shown'[d] = DOMAIN shown[d]
    /\ kind = "destroy"   => Present(d, id) /\ DOMAIN shown'[d] = DOMAIN shown[d] \ {id}
    /\ \A e \in Displays \ {d} : shown'[e] = shown[e]
    /\ \A i \in DOMAIN shown'[d] :
          i # id \/ kind # "create" =>
            /\ shown'[d][i].opener = shown[d][i].opener
            /\ shown'[d][i].pid = shown[d][i].pid
    /\ events' = [events EXCEPT ![d] = Append(@, Event(kind, id))]
    /\ used' = [used EXCEPT ![d] = @ \cup {id}]
    /\ UNCHANGED <<tracked, listed, where, doubtful>>

\* ... or the daemon handles what it was told.
Handles(d) ==
    /\ events[d] # <<>>
    /\ events' = [events EXCEPT ![d] = Tail(@)]
    /\ \/ Head(events[d]).kind = "create" /\ HandleCreate(Head(events[d]).id)
       \/ Head(events[d]).kind = "configure" /\ HandleConfigure(d, Head(events[d]).id)
       \/ Head(events[d]).kind = "destroy" /\ HandleDestroy(d, Head(events[d]).id)
    /\ UNCHANGED <<used, shown, where, doubtful>>

LEMMA StepKinds ==
    ASSUME WindowTypeOK, [Next]_vars
    PROVE  \/ LeavesWindows
           \/ \E d \in Displays, id \in Ids, kind \in {"create", "configure", "destroy"} :
                 Tells(d, id, kind)
           \/ \E d \in Displays : Handles(d)
<1>. DEFINE Kinds == \/ LeavesWindows
                     \/ \E d \in Displays, id \in Ids, kind \in {"create", "configure", "destroy"} :
                           Tells(d, id, kind)
                     \/ \E d \in Displays : Handles(d)
<1>. SUFFICES Kinds
  OBVIOUS
<1>. USE DEF loop, table, xserver, xlib, history, vars
<1>1. ASSUME NEW w \in openings, Open(w), UNCHANGED <<loop, table, tracked, history>> PROVE Kinds
  <2>. DEFINE d == w.on
              id == w.id
              window == Window(w.opener, w.pid, w.configures)
  <2>1. d \in Displays /\ id \in Ids
    BY DEF WindowTypeOK, Openings
  <2>2. ~Present(d, id) /\ shown' = [shown EXCEPT ![d] = [i \in DOMAIN @ \cup {id} |->
                                                          IF i = id THEN window ELSE @[i]]]
    BY <1>1 DEF Open
  <2>3. /\ events' = [events EXCEPT ![d] = Append(@, Event("create", id))]
        /\ used' = [used EXCEPT ![d] = @ \cup {id}]
        /\ UNCHANGED <<tracked, listed, where, doubtful>>
    BY <1>1 DEF Open, Send
  <2>. HIDE DEF d, id, window
  <2>4. /\ shown'[d] = [i \in DOMAIN shown[d] \cup {id} |-> IF i = id THEN window ELSE shown[d][i]]
        /\ \A e \in Displays \ {d} : shown'[e] = shown[e]
    BY <2>1, <2>2 DEF WindowTypeOK
  <2>5. /\ DOMAIN shown'[d] = DOMAIN shown[d] \cup {id}
        /\ \A i \in DOMAIN shown'[d] : i # id => shown'[d][i] = shown[d][i]
    BY <2>4
  <2>6. Tells(d, id, "create")
    BY <2>2, <2>3, <2>4, <2>5 DEF Tells
  <2>. QED BY <2>1, <2>6
<1>2. ASSUME NEW d \in Displays, NEW id \in Ids, Configure(d, id),
             UNCHANGED <<loop, table, tracked, history>> PROVE Kinds
  <2>1. id \in DOMAIN shown[d] /\ id \in used[d] /\ DOMAIN shown = Displays /\ Present(d, id)
    BY <1>2 DEF Configure, Present, WindowTypeOK
  <2>2. /\ shown' = [shown EXCEPT ![d][id].configures = @ - 1]
        /\ events' = [events EXCEPT ![d] = Append(@, Event("configure", id))]
        /\ UNCHANGED <<used, tracked, listed, where, doubtful>>
    BY <1>2 DEF Configure, Send
  <2>3. /\ DOMAIN shown'[d] = DOMAIN shown[d]
        /\ \A e \in Displays \ {d} : shown'[e] = shown[e]
        /\ \A i \in DOMAIN shown[d] \ {id} : shown'[d][i] = shown[d][i]
        /\ shown'[d][id] = [shown[d][id] EXCEPT !.configures = @ - 1]
    BY <2>1, <2>2
  <2>4. shown[d][id] \in WindowType
    BY <2>1 DEF WindowTypeOK
  <2>5. shown'[d][id].opener = shown[d][id].opener /\ shown'[d][id].pid = shown[d][id].pid
    BY <2>3, <2>4 DEF WindowType
  <2>6. used' = [used EXCEPT ![d] = @ \cup {id}]
    BY <2>1, <2>2 DEF WindowTypeOK
  <2>7. Tells(d, id, "configure")
    BY <2>1, <2>2, <2>3, <2>5, <2>6 DEF Tells
  <2>. QED BY <2>7
<1>3. ASSUME NEW d \in Displays, NEW id \in Ids, Close(d, id),
             UNCHANGED <<loop, table, tracked, history>> PROVE Kinds
  <2>1. id \in DOMAIN shown[d] /\ id \in used[d] /\ DOMAIN shown = Displays /\ Present(d, id)
    BY <1>3 DEF Close, Present, WindowTypeOK
  <2>2. /\ shown' = [shown EXCEPT ![d] = [i \in DOMAIN @ \ {id} |-> @[i]]]
        /\ events' = [events EXCEPT ![d] = Append(@, Event("destroy", id))]
        /\ UNCHANGED <<used, tracked, listed, where, doubtful>>
    BY <1>3 DEF Close, Send
  <2>3. /\ shown'[d] = [i \in DOMAIN shown[d] \ {id} |-> shown[d][i]]
        /\ \A e \in Displays \ {d} : shown'[e] = shown[e]
    BY <2>1, <2>2
  <2>4. used' = [used EXCEPT ![d] = @ \cup {id}]
    BY <2>1, <2>2 DEF WindowTypeOK
  <2>5. Tells(d, id, "destroy")
    BY <2>1, <2>2, <2>3, <2>4 DEF Tells
  <2>. QED BY <2>5
<1>4. ASSUME UNCHANGED <<events, used, tracked, listed, shown>>,
             UNCHANGED <<where, doubtful>> \/ \E c \in Startable, d \in Displays : Assigned(c, d)
      PROVE  Kinds
  BY <1>4 DEF LeavesWindows
<1>5. ASSUME NEW c \in Startable, Exit(c) PROVE Kinds
  <2>1. shown' = Redirected(c, "helper", "orphan")
    BY <1>5 DEF Exit
  <2>2. /\ DOMAIN shown' = DOMAIN shown
        /\ \A d \in Displays : DOMAIN shown'[d] = DOMAIN shown[d]
        /\ \A d \in Displays : \A id \in DOMAIN shown[d] :
              shown'[d][id] = IF shown[d][id].opener = c /\ shown[d][id].pid = "helper"
                              THEN [shown[d][id] EXCEPT !.pid = "orphan"] ELSE shown[d][id]
    BY <2>1 DEF Redirected, WindowTypeOK
  <2>3. ASSUME NEW d \in Displays, NEW id \in DOMAIN shown[d]
        PROVE  /\ shown'[d][id].opener = shown[d][id].opener
               /\ shown'[d][id].pid = "none" <=> shown[d][id].pid = "none"
    <3>1. shown[d][id] \in WindowType
      BY DEF WindowTypeOK
    <3>. QED BY <2>2, <3>1 DEF WindowType
  <2>4. UNCHANGED <<events, used, tracked, listed, where, doubtful>>
    BY <1>5 DEF Exit
  <2>5. LeavesWindows
    BY <2>2, <2>3, <2>4 DEF LeavesWindows
  <2>. QED BY <2>5
<1>6. ASSUME NEW c \in Startable, NEW d \in Displays, Start(c, d) \/ Refuse(c, d) PROVE Kinds
  BY <1>4, <1>6 DEF Start, Refuse
<1>7. ASSUME NEW c \in Startable, Stop(c) PROVE Kinds
  BY <1>4, <1>7 DEF Stop
<1>8. ASSUME NEW d \in Displays, RunCommand(d) PROVE Kinds
  BY <1>4, <1>8 DEF RunCommand
<1>9. CASE EndAutomation
  BY <1>4, <1>9 DEF EndAutomation
<1>10. CASE SelectReturns
  <2>1. UNCHANGED <<events, used, tracked, listed, where, doubtful>>
    BY <1>10 DEF SelectReturns
  <2>2. CASE Reap
    <3>1. /\ DOMAIN shown' = DOMAIN shown
          /\ \A d \in Displays : DOMAIN shown'[d] = DOMAIN shown[d]
          /\ \A d \in Displays : \A id \in DOMAIN shown[d] :
              shown'[d][id] = IF shown[d][id].opener \in Exited /\ shown[d][id].pid = "own"
                              THEN [shown[d][id] EXCEPT !.pid = "gone"] ELSE shown[d][id]
      BY <2>2 DEF Reap, WindowTypeOK
    <3>2. ASSUME NEW d \in Displays, NEW id \in DOMAIN shown[d]
          PROVE  /\ shown'[d][id].opener = shown[d][id].opener
                 /\ shown'[d][id].pid = "none" <=> shown[d][id].pid = "none"
      <4>1. shown[d][id] \in WindowType
        BY DEF WindowTypeOK
      <4>. QED BY <3>1, <4>1 DEF WindowType
    <3>3. LeavesWindows
      BY <2>1, <3>1, <3>2 DEF LeavesWindows
    <3>. QED BY <3>3
  <2>3. CASE shown' = shown
    BY <1>4, <2>1, <2>3
  <2>. QED BY <1>10, <2>2, <2>3 DEF SelectReturns
<1>11. ASSUME NEW d \in Displays, Serve(d) PROVE Kinds
  <2>1. CASE events[d] = <<>>
    <3>1. NextDisplay
      BY <1>11, <2>1 DEF Serve
    <3>. QED BY <1>4, <3>1 DEF NextDisplay
  <2>2. CASE events[d] # <<>>
    <3>1. HandleEvent(d)
      BY <1>11, <2>2 DEF Serve
    <3>2. Head(events[d]).kind \in {"create", "configure", "destroy"}
      <4>1. events[d] \in Seq(EventType)
        BY DEF WindowTypeOK, EventType
      <4>2. Head(events[d]) \in EventType
        BY <2>2, <4>1
      <4>. QED BY <4>2 DEF EventType
    <3>3. /\ Head(events[d]).kind = "create" => HandleCreate(Head(events[d]).id)
          /\ Head(events[d]).kind = "configure" => HandleConfigure(d, Head(events[d]).id)
          /\ Head(events[d]).kind = "destroy" => HandleDestroy(d, Head(events[d]).id)
      BY <3>1 DEF HandleEvent
    <3>4. /\ events' = [events EXCEPT ![d] = Tail(@)]
          /\ UNCHANGED <<used, shown, where, doubtful>>
      BY <3>1 DEF HandleEvent
    <3>5. Handles(d)
      BY <2>2, <3>2, <3>3, <3>4 DEF Handles
    <3>. QED BY <3>5
  <2>. QED BY <2>1, <2>2
<1>12. CASE UNCHANGED vars
  BY <1>4, <1>12
<1>. HIDE DEF Kinds
<1>. QED BY <1>1, <1>2, <1>3, <1>5, <1>6, <1>7, <1>8, <1>9, <1>10, <1>11, <1>12
   DEF Next, Round, Handlers, Environment

-----------------------------------------------------------------------------
(* The type invariant *)

LEMMA InitType == Init => WindowTypeOK
<1>. SUFFICES ASSUME Init PROVE WindowTypeOK
  OBVIOUS
<1>1. PICK w \in Workloads, pid \in {"orphan", "none"} :
          /\ Initially(w.old) /\ openings = w.openings /\ starts = w.starts
          /\ shown = [d \in Displays |-> [id \in used[d] |-> Window(External, pid, w.configures)]]
  BY DEF Init
<1>2. /\ w.old \in [Displays -> Seq(Ids)] /\ w.openings \subseteq Openings
      /\ w.configures \in Nat /\ w.starts \in Nat
  BY DEF WorkloadAssumption
<1>3. DEFINE old == w.old
<1>4. old \in [Displays -> Seq(Ids)] /\ Initially(old)
  BY <1>1, <1>2
<1>. HIDE DEF old
<1>5. ASSUME NEW d \in Displays
      PROVE  /\ old[d] \in Seq(Ids) /\ Len(old[d]) \in Nat /\ DOMAIN old[d] = 1..Len(old[d])
             /\ \A n \in DOMAIN old[d] : old[d][n] \in Ids
  BY <1>4
<1>6. used \in [Displays -> SUBSET Ids]
  <2>1. used = [d \in Displays |-> {old[d][n] : n \in DOMAIN old[d]}]
    BY <1>4 DEF Initially
  <2>2. \A d \in Displays : {old[d][n] : n \in DOMAIN old[d]} \in SUBSET Ids
    BY <1>5
  <2>. QED BY <2>1, <2>2
<1>7. preread \in [Displays -> BOOLEAN]
  BY <1>4 DEF Initially
<1>8. events \in [Displays -> Seq(EventType)]
  <2>1. events = [d \in Displays |-> IF preread[d]
                                     THEN <<Event("create", old[d][Len(old[d])])>> ELSE <<>>]
    BY <1>4 DEF Initially
  <2>2. ASSUME NEW d \in Displays
        PROVE  (IF preread[d] THEN <<Event("create", old[d][Len(old[d])])>> ELSE <<>>)
                  \in Seq(EventType)
    <3>1. CASE preread[d]
      <4>1. old[d] # <<>>
        BY <1>4, <3>1 DEF Initially
      <4>2. old[d][Len(old[d])] \in Ids
        BY <1>5, <4>1, EmptySeq
      <4>3. Event("create", old[d][Len(old[d])]) \in EventType
        BY <4>2 DEF Event, EventType
      <4>. QED BY <3>1, <4>3
    <3>2. CASE ~preread[d]
      BY <3>2
    <3>. QED BY <3>1, <3>2
  <2>. QED BY <2>1, <2>2
<1>9. queued \in [Displays -> Nat] /\ \A d \in Displays : queued[d] <= Len(events[d])
  <2>1. \A d \in Displays : Len(events[d]) \in Nat
    BY <1>8
  <2>. QED BY <2>1 DEF Init
<1>10. listed \in [Children -> Seq(EntryType)]
  <2>1. listed = [c \in Children |->
                     IF c - CommandCount \in Repatriating
                     THEN [n \in DOMAIN old[c - CommandCount] |->
                              Entry(c - CommandCount, old[c - CommandCount][n])]
                     ELSE <<>>]
    BY <1>4 DEF Initially
  <2>2. ASSUME NEW d \in Repatriating
        PROVE  [n \in DOMAIN old[d] |-> Entry(d, old[d][n])] \in Seq(EntryType)
    <3>1. d \in Displays
      BY DEF WorkloadAssumption
    <3>2. \A n \in 1..Len(old[d]) : Entry(d, old[d][n]) \in EntryType
      BY <1>5, <3>1 DEF Entry, EntryType
    <3>. DEFINE f == [n \in DOMAIN old[d] |-> Entry(d, old[d][n])]
    <3>3. f \in [1..Len(old[d]) -> EntryType] /\ Len(old[d]) \in Nat
      BY <1>5, <3>1, <3>2
    <3>. HIDE DEF f
    <3>4. f \in Seq(EntryType)
      <4>1. [1..Len(old[d]) -> EntryType] \in {[1..n -> EntryType] : n \in Nat}
        BY <3>3, Zenon
      <4>. QED BY <3>3, <4>1, SeqDef, Zenon
    <3>. QED BY <3>4 DEF f
  <2>. QED BY <2>1, <2>2
<1>11. /\ DOMAIN shown = Displays
       /\ \A d \in Displays : /\ DOMAIN shown[d] = used[d]
                              /\ \A id \in DOMAIN shown[d] : shown[d][id] \in WindowType
  <2>1. Window(External, pid, w.configures) \in WindowType
    BY <1>2 DEF WindowType, Window, External
  <2>. QED BY <1>1, <2>1
<1>12. \A c \in Startable : c \in Children /\ c \notin Repatriated
  BY ChildSets
<1>13. /\ where \in [Children -> Displays]
       /\ state \in [Children -> {"stopped", "running", "terminated"}]
       /\ \A c \in Startable : state[c] = "stopped" <=> proc[c] = "none"
  BY <1>12, ChildSets, DisplaySets DEF Init
<1>14. tracked \in Seq(TrackedType) /\ at \in 1..Select /\ openings \subseteq Openings /\ starts \in Nat
  BY <1>1, <1>2, DisplaySets DEF Init
<1>15. /\ up = TRUE /\ ready = {} /\ automating = FALSE
       /\ proc = [c \in Startable |-> "none"] /\ doubtful = UNION {Entries(c) : c \in Repatriated}
  BY DEF Init
<1>. QED BY <1>6, <1>7, <1>8, <1>9, <1>10, <1>11, <1>13, <1>14, <1>15
  DEF WindowTypeOK, EventType, EntryType, TrackedType

\* The server tells of a window.
LEMMA SendType ==
    ASSUME WindowTypeOK, NEW d \in Displays, NEW id \in Ids,
           NEW kind \in {"create", "configure", "destroy"}, Send(d, Event(kind, id))
    PROVE  /\ events' \in [Displays -> Seq(EventType)]
           /\ queued' \in [Displays -> Nat] /\ preread' \in [Displays -> BOOLEAN]
           /\ \A e \in Displays : queued'[e] <= Len(events'[e])
<1>1. events \in [Displays -> Seq(EventType)] /\ queued \in [Displays -> Nat]
  BY DEF WindowTypeOK, EventType
<1>2. Event(kind, id) \in EventType
  BY DEF Event, EventType
<1>3. events' = [events EXCEPT ![d] = Append(@, Event(kind, id))] /\ UNCHANGED <<queued, preread>>
  BY DEF Send
<1>. HIDE DEF Event
<1>4. /\ Append(events[d], Event(kind, id)) \in Seq(EventType)
      /\ Len(Append(events[d], Event(kind, id))) = Len(events[d]) + 1
  BY <1>1, <1>2
<1>5. events' \in [Displays -> Seq(EventType)]
  BY <1>1, <1>3, <1>4
<1>6. ASSUME NEW e \in Displays PROVE queued'[e] <= Len(events'[e])
  <2>1. queued[e] <= Len(events[e]) /\ Len(events[e]) \in Nat /\ queued[e] \in Nat
    BY <1>1 DEF WindowTypeOK
  <2>2. Len(events'[e]) = IF e = d THEN Len(events[e]) + 1 ELSE Len(events[e])
    BY <1>1, <1>3, <1>4
  <2>. QED BY <1>3, <2>1, <2>2
<1>. QED BY <1>3, <1>5, <1>6 DEF WindowTypeOK

\* Whose window it may be.
LEMMA MatchesType ==
    ASSUME NEW d \in Displays, NEW window \in WindowType, NEW c \in Matches(d, window)
    PROVE  c = Nobody \/ c \in Children
<1>1. c \in Heuristic(d) => c = Nobody \/ c \in Children
  BY ChildSets DEF Heuristic
<1>2. ASSUME c \in Climb(d, window), window.pid # "none" PROVE c = Nobody \/ c \in Children
  <2>1. window.pid \in {"own", "helper", "orphan", "gone"}
    BY <1>2 DEF WindowType
  <2>. QED BY <1>2, <2>1, ChildSets DEF Climb, Vanished
<1>. QED BY <1>1, <1>2 DEF Matches

LEMMA HandlersKeepTypes ==
    ASSUME WindowTypeOK, NEW d \in Displays, NEW id \in Ids,
           HandleCreate(id) \/ HandleConfigure(d, id) \/ HandleDestroy(d, id)
    PROVE  /\ up' \in BOOLEAN /\ automating' \in BOOLEAN
           /\ listed' \in [Children -> Seq(EntryType)] /\ tracked' \in Seq(TrackedType)
<1>. DEFINE Typed == /\ up' \in BOOLEAN /\ automating' \in BOOLEAN
                     /\ listed' \in [Children -> Seq(EntryType)] /\ tracked' \in Seq(TrackedType)
<1>1. /\ up \in BOOLEAN /\ automating \in BOOLEAN
      /\ listed \in [Children -> Seq(EntryType)] /\ tracked \in Seq(TrackedType)
  BY DEF WindowTypeOK, EntryType, TrackedType
<1>2. DOMAIN tracked \in SUBSET Nat /\ \A u \in DOMAIN tracked : tracked[u] \in TrackedType
  BY <1>1
\* An entry changes its state.
<1>3. ASSUME NEW u \in DOMAIN tracked, NEW s \in {"inactive", "active"}
      PROVE  [tracked EXCEPT ![u].state = s] \in Seq(TrackedType)
  <2>1. tracked[u] \in TrackedType
    BY <1>2
  <2>2. [tracked[u] EXCEPT !.state = s] \in TrackedType
    BY <2>1 DEF TrackedType
  <2>3. [tracked EXCEPT ![u] = [tracked[u] EXCEPT !.state = s]] \in Seq(TrackedType)
    BY <1>1, <2>2, ExceptSeq
  <2>4. [tracked EXCEPT ![u].state = s] = [tracked EXCEPT ![u] = [tracked[u] EXCEPT !.state = s]]
    OBVIOUS
  <2>. QED BY <2>3, <2>4
<1>4. CASE HandleCreate(id)
  <2>1. Tracked(id) \in Seq(TrackedType)
    BY <1>1, TrackedSlot
  <2>. QED BY <1>1, <1>4, <2>1 DEF HandleCreate
<1>5. CASE HandleConfigure(d, id)
  <2>1. CASE Unconfigured(id) = {}
    BY <1>1, <1>5, <2>1 DEF HandleConfigure
  <2>2. CASE Unconfigured(id) # {}
    <3>. DEFINE u == Least(Unconfigured(id))
    <3>1. u \in DOMAIN tracked
      <4>1. Unconfigured(id) \in SUBSET Nat
        BY <1>2 DEF Unconfigured
      <4>2. u \in Unconfigured(id)
        BY <2>2, <4>1, LeastIsLeast
      <4>. QED BY <4>2 DEF Unconfigured
    <3>2. tracked' = [tracked EXCEPT ![u].state = "active"]
      BY <1>5, <2>2 DEF HandleConfigure
    <3>3. tracked' \in Seq(TrackedType)
      BY <1>3, <3>1, <3>2
    <3>4. CASE ~Present(d, id)
      BY <1>1, <1>5, <2>2, <3>3, <3>4 DEF HandleConfigure
    <3>5. CASE Present(d, id)
      <4>1. PICK c \in Matches(d, shown[d][id]) :
               /\ listed' = IF c = Nobody THEN listed
                            ELSE [listed EXCEPT ![c] = Append(@, Entry(d, id))]
               /\ automating' = (c \in Automated \cup Repatriated)
               /\ UNCHANGED up
        BY <1>5, <2>2, <3>5 DEF HandleConfigure
      <4>2. c = Nobody \/ c \in Children
        <5>1. shown[d][id] \in WindowType
          BY <3>5 DEF WindowTypeOK, Present
        <5>. QED BY <5>1, MatchesType
      <4>3. Entry(d, id) \in EntryType
        BY DEF Entry, EntryType
      <4>4. listed' \in [Children -> Seq(EntryType)]
        <5>1. CASE c = Nobody
          BY <1>1, <4>1, <5>1
        <5>2. CASE c # Nobody
          <6>1. Append(listed[c], Entry(d, id)) \in Seq(EntryType)
            BY <1>1, <4>2, <4>3, <5>2
          <6>. QED BY <1>1, <4>1, <5>2, <6>1
        <5>. QED BY <5>1, <5>2
      <4>. QED BY <1>1, <3>3, <4>1, <4>4
    <3>. QED BY <3>4, <3>5
  <2>. QED BY <2>1, <2>2
<1>6. CASE HandleDestroy(d, id)
  <2>1. CASE Tracking(id) = {}
    BY <1>1, <1>6, <2>1 DEF HandleDestroy
  <2>2. CASE Tracking(id) # {}
    <3>. DEFINE u == Least(Tracking(id))
    <3>1. u \in DOMAIN tracked
      <4>1. Tracking(id) \in SUBSET Nat
        BY <1>2 DEF Tracking
      <4>2. u \in Tracking(id)
        BY <2>2, <4>1, LeastIsLeast
      <4>. QED BY <4>2 DEF Tracking
    <3>2. /\ tracked' = [tracked EXCEPT ![u].state = "inactive"]
          /\ listed' \in {listed, Discarded(d, id)} /\ UNCHANGED <<up, automating>>
      BY <1>6, <2>2 DEF HandleDestroy
    <3>3. Discarded(d, id) \in [Children -> Seq(EntryType)]
      <4>1. ASSUME NEW c \in Children, NEW n \in DOMAIN listed[c]
            PROVE  [listed EXCEPT ![c] = RemoveAt(@, n)] \in [Children -> Seq(EntryType)]
        <5>1. RemoveAt(listed[c], n) \in Seq(EntryType)
          BY <1>1, RemoveAtShifts
        <5>. QED BY <1>1, <5>1
      <4>2. \/ Discarded(d, id) = listed
            \/ \E c \in Children : \E n \in DOMAIN listed[c] :
                  Discarded(d, id) = [listed EXCEPT ![c] = RemoveAt(@, n)]
        BY <1>1, DiscardedEntry
      <4>3. CASE Discarded(d, id) = listed
        BY <1>1, <4>3
      <4>4. CASE Discarded(d, id) # listed
        <5>1. PICK c \in Children : \E n \in DOMAIN listed[c] :
                 Discarded(d, id) = [listed EXCEPT ![c] = RemoveAt(@, n)]
          BY <4>2, <4>4, Zenon
        <5>2. PICK n \in DOMAIN listed[c] : Discarded(d, id) = [listed EXCEPT ![c] = RemoveAt(@, n)]
          BY <5>1, Zenon
        <5>3. [listed EXCEPT ![c] = RemoveAt(@, n)] \in [Children -> Seq(EntryType)]
          BY <4>1
        <5>. QED BY <5>2, <5>3, Zenon
      <4>. QED BY <4>3, <4>4
    <3>4. tracked' \in Seq(TrackedType)
      BY <1>3, <3>1, <3>2
    <3>. QED BY <1>1, <3>2, <3>3, <3>4
  <2>. QED BY <2>1, <2>2
<1>. QED BY <1>4, <1>5, <1>6
\* The pid of a window leads elsewhere.
LEMMA LeadsElsewhere ==
    ASSUME NEW window \in WindowType, NEW p \in {"orphan", "gone"}
    PROVE  [window EXCEPT !.pid = p] \in WindowType
BY DEF WindowType

LEMMA NextType == WindowTypeOK /\ [Next]_vars => WindowTypeOK'
<1>. SUFFICES ASSUME WindowTypeOK, [Next]_vars PROVE WindowTypeOK'
  OBVIOUS
<1>. USE DEF loop, table, xserver, xlib, history, vars
<1>1. ASSUME NEW w \in openings, Open(w), UNCHANGED <<loop, table, tracked, history>>
      PROVE  WindowTypeOK'
  <2>1. w \in Openings
    BY DEF WindowTypeOK
  <2>2. w.on \in Displays /\ w.id \in Ids /\ Window(w.opener, w.pid, w.configures) \in WindowType
    BY <2>1 DEF Openings, Window, WindowType
  <2>3. /\ events' \in [Displays -> Seq(EventType)]
        /\ queued' \in [Displays -> Nat] /\ preread' \in [Displays -> BOOLEAN]
        /\ \A e \in Displays : queued'[e] <= Len(events'[e])
    BY <1>1, <2>2, SendType DEF Open
  <2>. DEFINE d == w.on
              id == w.id
              window == Window(w.opener, w.pid, w.configures)
  <2>4. /\ shown' = [shown EXCEPT ![d] = [i \in DOMAIN @ \cup {id} |->
                                            IF i = id THEN window ELSE @[i]]]
        /\ used' = [used EXCEPT ![d] = @ \cup {id}] /\ openings' = openings \ {w}
    BY <1>1 DEF Open
  <2>5. d \in Displays /\ id \in Ids /\ window \in WindowType
    BY <2>2
  <2>. HIDE DEF d, id, window
  <2>6. DOMAIN shown = Displays /\ used \in [Displays -> SUBSET Ids]
    BY DEF WindowTypeOK
  <2>7. DOMAIN shown' = Displays /\ used' \in [Displays -> SUBSET Ids]
    BY <2>4, <2>5, <2>6
  <2>8. ASSUME NEW e \in Displays
        PROVE  /\ DOMAIN shown'[e] \subseteq used'[e]
               /\ \A i \in DOMAIN shown'[e] : shown'[e][i] \in WindowType
    <3>1. /\ DOMAIN shown[e] \subseteq used[e]
          /\ \A i \in DOMAIN shown[e] : shown[e][i] \in WindowType
      BY DEF WindowTypeOK
    <3>2. CASE e = d
      <4>1. /\ shown'[e] = [i \in DOMAIN shown[e] \cup {id} |-> IF i = id THEN window ELSE shown[e][i]]
            /\ used'[e] = used[e] \cup {id}
        BY <2>4, <2>5, <2>6, <3>2
      <4>. QED BY <2>5, <3>1, <4>1
    <3>3. CASE e # d
      <4>1. shown'[e] = shown[e] /\ used'[e] = used[e]
        BY <2>4, <2>5, <2>6, <3>3
      <4>. QED BY <3>1, <4>1
    <3>. QED BY <3>2, <3>3
  <2>. QED BY <1>1, <2>3, <2>4, <2>7, <2>8 DEF WindowTypeOK, EventType
\* A window is there or not, and everything else of the server is as before.
<1>2. ASSUME NEW d \in Displays, NEW id \in Ids, NEW kind \in {"configure", "destroy"},
             Send(d, Event(kind, id)), DOMAIN shown' = Displays,
             \A e \in Displays \ {d} : shown'[e] = shown[e],
             DOMAIN shown'[d] \subseteq DOMAIN shown[d],
             \A i \in DOMAIN shown'[d] : shown'[d][i] \in WindowType,
             UNCHANGED <<openings, used, loop, table, tracked, history>>
      PROVE  WindowTypeOK'
  <2>1. /\ events' \in [Displays -> Seq(EventType)]
        /\ queued' \in [Displays -> Nat] /\ preread' \in [Displays -> BOOLEAN]
        /\ \A e \in Displays : queued'[e] <= Len(events'[e])
    BY <1>2, SendType
  <2>2. ASSUME NEW e \in Displays
        PROVE  /\ DOMAIN shown'[e] \subseteq used'[e]
               /\ \A i \in DOMAIN shown'[e] : shown'[e][i] \in WindowType
    <3>1. /\ DOMAIN shown[e] \subseteq used[e]
          /\ \A i \in DOMAIN shown[e] : shown[e][i] \in WindowType
      BY DEF WindowTypeOK
    <3>. QED BY <1>2, <3>1
  <2>. QED BY <1>2, <2>1, <2>2 DEF WindowTypeOK, EventType
<1>3. ASSUME NEW d \in Displays, NEW id \in Ids, Configure(d, id),
             UNCHANGED <<loop, table, tracked, history>> PROVE WindowTypeOK'
  <2>1. id \in DOMAIN shown[d] /\ DOMAIN shown = Displays
    BY <1>3 DEF Configure, Present, WindowTypeOK
  <2>2. shown' = [shown EXCEPT ![d][id].configures = @ - 1] /\ shown[d][id].configures > 0
    BY <1>3 DEF Configure
  <2>3. /\ DOMAIN shown' = Displays /\ DOMAIN shown'[d] = DOMAIN shown[d]
        /\ \A e \in Displays \ {d} : shown'[e] = shown[e]
        /\ \A i \in DOMAIN shown[d] \ {id} : shown'[d][i] = shown[d][i]
        /\ shown'[d][id] = [shown[d][id] EXCEPT !.configures = @ - 1]
    BY <2>1, <2>2
  <2>4. \A i \in DOMAIN shown[d] : shown[d][i] \in WindowType
    BY DEF WindowTypeOK
  <2>5. shown'[d][id] \in WindowType
    BY <2>1, <2>2, <2>3, <2>4 DEF WindowType
  <2>6. Send(d, Event("configure", id)) /\ UNCHANGED <<openings, used>>
    BY <1>3 DEF Configure
  <2>. QED BY <1>2, <1>3, <2>3, <2>4, <2>5, <2>6
<1>4. ASSUME NEW d \in Displays, NEW id \in Ids, Close(d, id),
             UNCHANGED <<loop, table, tracked, history>> PROVE WindowTypeOK'
  <2>1. DOMAIN shown = Displays /\ \A i \in DOMAIN shown[d] : shown[d][i] \in WindowType
    BY DEF WindowTypeOK
  <2>2. shown' = [shown EXCEPT ![d] = [i \in DOMAIN @ \ {id} |-> @[i]]]
    BY <1>4 DEF Close
  <2>3. /\ DOMAIN shown' = Displays /\ shown'[d] = [i \in DOMAIN shown[d] \ {id} |-> shown[d][i]]
        /\ \A e \in Displays \ {d} : shown'[e] = shown[e]
    BY <2>1, <2>2
  <2>4. Send(d, Event("destroy", id)) /\ UNCHANGED <<openings, used>>
    BY <1>4 DEF Close
  <2>. QED BY <1>2, <1>4, <2>1, <2>3, <2>4
\* Pids of windows lead elsewhere.
<1>5. ASSUME NEW p \in {"orphan", "gone"},
             DOMAIN shown' = Displays, UNCHANGED <<used, openings, events, queued, preread>>,
             \A d \in Displays :
                /\ DOMAIN shown'[d] = DOMAIN shown[d]
                /\ \A id \in DOMAIN shown[d] :
                      \/ shown'[d][id] = shown[d][id]
                      \/ shown'[d][id] = [shown[d][id] EXCEPT !.pid = p]
      PROVE  /\ DOMAIN shown' = Displays /\ used' \in [Displays -> SUBSET Ids]
             /\ \A d \in Displays : /\ DOMAIN shown'[d] \subseteq used'[d]
                                    /\ \A id \in DOMAIN shown'[d] : shown'[d][id] \in WindowType
             /\ openings' \subseteq Openings
             /\ events' \in [Displays -> Seq([kind : {"create", "configure", "destroy"}, id : Ids])]
             /\ queued' \in [Displays -> Nat] /\ preread' \in [Displays -> BOOLEAN]
             /\ \A d \in Displays : queued'[d] <= Len(events'[d])
  <2>1. ASSUME NEW d \in Displays, NEW id \in DOMAIN shown[d] PROVE shown'[d][id] \in WindowType
    <3>1. shown[d][id] \in WindowType
      BY DEF WindowTypeOK
    <3>2. [shown[d][id] EXCEPT !.pid = p] \in WindowType
      BY <1>5, <3>1, LeadsElsewhere
    <3>. QED BY <1>5, <3>1, <3>2
  <2>. QED BY <1>5, <2>1 DEF WindowTypeOK
<1>6. ASSUME NEW c \in Startable, Exit(c) PROVE WindowTypeOK'
  <2>1. /\ shown' = Redirected(c, "helper", "orphan") /\ proc' = [proc EXCEPT ![c] = "zombie"]
        /\ proc[c] = "alive"
        /\ UNCHANGED <<loop, state, where, listed, tracked, openings, used, xlib, history>>
    BY <1>6 DEF Exit
  <2>2. /\ DOMAIN shown' = Displays
        /\ \A d \in Displays : DOMAIN shown'[d] = DOMAIN shown[d]
        /\ \A d \in Displays : \A id \in DOMAIN shown[d] :
              shown'[d][id] = IF shown[d][id].opener = c /\ shown[d][id].pid = "helper"
                              THEN [shown[d][id] EXCEPT !.pid = "orphan"] ELSE shown[d][id]
    BY <2>1 DEF Redirected
  <2>3. /\ proc' \in [Startable -> {"none", "alive", "zombie"}]
        /\ \A x \in Startable : proc'[x] = "none" <=> proc[x] = "none"
    BY <2>1 DEF WindowTypeOK
  <2>. DEFINE p == "orphan"
  <2>4. p \in {"orphan", "gone"}
    OBVIOUS
  <2>5. \A d \in Displays :
                /\ DOMAIN shown'[d] = DOMAIN shown[d]
                /\ \A id \in DOMAIN shown[d] :
                      \/ shown'[d][id] = shown[d][id]
                      \/ shown'[d][id] = [shown[d][id] EXCEPT !.pid = p]
    BY <2>2
  <2>. HIDE DEF p
  <2>6. UNCHANGED <<used, openings, events, queued, preread>>
    BY <2>1
  <2>. QED BY <1>5, <2>1, <2>2, <2>3, <2>4, <2>5, <2>6 DEF WindowTypeOK
\* Nothing but the table changes.
<1>7. ASSUME NEW c \in Startable, NEW d \in Displays, Assigned(c, d),
             UNCHANGED <<loop, listed, tracked, xserver, xlib>>,
             starts' \in Nat,
             state' \in [Children -> {"stopped", "running", "terminated"}],
             proc' \in [Startable -> {"none", "alive", "zombie"}],
             \A x \in Startable : state'[x] = "stopped" <=> proc'[x] = "none"
      PROVE  WindowTypeOK'
  <2>1. c \in Children
    BY ChildSets
  <2>2. where' \in [Children -> Displays]
    BY <1>7, <2>1 DEF Assigned, WindowTypeOK
  <2>. QED BY <1>7, <2>2 DEF WindowTypeOK
<1>8. ASSUME NEW c \in Startable, NEW d \in Displays, Start(c, d) PROVE WindowTypeOK'
  <2>1. /\ state' = [state EXCEPT ![c] = "running"] /\ proc' = [proc EXCEPT ![c] = "alive"]
        /\ starts' = starts - 1 /\ starts > 0 /\ Assigned(c, d)
        /\ UNCHANGED <<loop, listed, tracked, xserver, xlib>>
    BY <1>8 DEF Start
  <2>2. c \in Children /\ \A x \in Startable : x \in Children
    BY ChildSets
  <2>3. /\ state \in [Children -> {"stopped", "running", "terminated"}]
        /\ proc \in [Startable -> {"none", "alive", "zombie"}] /\ starts \in Nat
        /\ \A x \in Startable : state[x] = "stopped" <=> proc[x] = "none"
    BY DEF WindowTypeOK
  <2>4. /\ state' \in [Children -> {"stopped", "running", "terminated"}]
        /\ proc' \in [Startable -> {"none", "alive", "zombie"}] /\ starts' \in Nat
        /\ \A x \in Startable : state'[x] = "stopped" <=> proc'[x] = "none"
    BY <2>1, <2>2, <2>3
  <2>. QED BY <1>7, <2>1, <2>4
<1>9. ASSUME NEW c \in Startable, NEW d \in Displays, Refuse(c, d) PROVE WindowTypeOK'
  BY <1>7, <1>9 DEF Refuse, WindowTypeOK
<1>10. ASSUME NEW c \in Startable, Stop(c) PROVE WindowTypeOK'
  <2>1. state' = [state EXCEPT ![c] = "terminated"] /\ state[c] = "running"
    BY <1>10 DEF Stop
  <2>2. c \in Children /\ \A x \in Startable : x \in Children
    BY ChildSets
  <2>3. /\ state' \in [Children -> {"stopped", "running", "terminated"}]
        /\ \A x \in Startable : state'[x] = "stopped" <=> state[x] = "stopped"
    BY <2>1, <2>2 DEF WindowTypeOK
  <2>. QED BY <1>10, <2>3 DEF Stop, WindowTypeOK
<1>11. ASSUME NEW d \in Displays, RunCommand(d) PROVE WindowTypeOK'
  <2>1. \A e \in Displays : Len(events[e]) \in Nat
    BY DEF WindowTypeOK
  <2>2. /\ queued' = [queued EXCEPT ![d] = Len(events[d])] /\ preread' = [preread EXCEPT ![d] = TRUE]
        /\ UNCHANGED <<loop, table, tracked, xserver, events, history>>
    BY <1>11 DEF RunCommand
  <2>3. /\ queued' \in [Displays -> Nat] /\ preread' \in [Displays -> BOOLEAN]
        /\ \A e \in Displays : queued'[e] <= Len(events[e])
    BY <2>1, <2>2 DEF WindowTypeOK
  <2>. QED BY <2>2, <2>3 DEF WindowTypeOK
<1>12. CASE EndAutomation
  BY <1>12 DEF EndAutomation, WindowTypeOK
<1>13. CASE SelectReturns
  <2>1. /\ at' = Least(ready' \cup {Select})
        /\ UNCHANGED <<up, automating, where, listed, tracked, openings, used, xlib, history>>
        /\ at = Select
    BY <1>13 DEF SelectReturns
  <2>2. ready' \subseteq Displays
    BY <1>13 DEF SelectReturns, Readable
  <2>3. at' \in 1..Select
    <3>1. ready' \cup {Select} \in SUBSET Nat
      BY <2>2, DisplaySets
    <3>2. at' \in ready' \cup {Select}
      BY <2>1, <3>1, LeastIsLeast
    <3>. QED BY <2>2, <3>2, DisplaySets
  <2>4. automating = FALSE
    BY <2>1 DEF WindowTypeOK
  <2>5. CASE Reap
    <3>1. /\ DOMAIN shown' = Displays
          /\ \A d \in Displays : DOMAIN shown'[d] = DOMAIN shown[d]
          /\ \A d \in Displays : \A id \in DOMAIN shown[d] :
              shown'[d][id] = IF shown[d][id].opener \in Exited /\ shown[d][id].pid = "own"
                              THEN [shown[d][id] EXCEPT !.pid = "gone"] ELSE shown[d][id]
      BY <2>5 DEF Reap
    <3>. DEFINE p == "gone"
    <3>2. p \in {"orphan", "gone"}
      OBVIOUS
    <3>3. \A d \in Displays :
                /\ DOMAIN shown'[d] = DOMAIN shown[d]
                /\ \A id \in DOMAIN shown[d] :
                      \/ shown'[d][id] = shown[d][id]
                      \/ shown'[d][id] = [shown[d][id] EXCEPT !.pid = p]
      BY <3>1
    <3>. HIDE DEF p
    <3>4. UNCHANGED <<used, openings, events, queued, preread>>
      BY <2>1
    <3>5. /\ state' = [c \in Children |-> IF c \in Exited THEN "stopped" ELSE state[c]]
          /\ proc' = [c \in Startable |-> IF c \in Exited THEN "none" ELSE proc[c]]
      BY <2>5 DEF Reap
    <3>6. \A x \in Startable : x \in Children
      BY ChildSets
    <3>7. /\ state' \in [Children -> {"stopped", "running", "terminated"}]
          /\ proc' \in [Startable -> {"none", "alive", "zombie"}]
          /\ \A x \in Startable : state'[x] = "stopped" <=> proc'[x] = "none"
      BY <3>5, <3>6 DEF WindowTypeOK
    <3>. QED BY <1>5, <2>1, <2>2, <2>3, <2>4, <3>1, <3>2, <3>3, <3>4, <3>7 DEF WindowTypeOK
  <2>6. CASE UNCHANGED <<state, proc, shown>>
    BY <2>1, <2>2, <2>3, <2>4, <2>6 DEF WindowTypeOK
  <2>. QED BY <1>13, <2>5, <2>6 DEF SelectReturns
<1>14. ASSUME NEW d \in Displays, Serve(d) PROVE WindowTypeOK'
  <2>0. up /\ at = d /\ ~automating
    BY <1>14 DEF Serve
  <2>1. CASE events[d] = <<>>
    <3>1. at' = NextStop(at) /\ UNCHANGED <<up, ready, automating, table, tracked, xserver, xlib, history>>
      BY <1>14, <2>1 DEF Serve, NextDisplay
    <3>. DEFINE S == {e \in ready : e > d} \cup {Select}
    <3>2. S \in SUBSET Nat /\ \A x \in S : x \in 1..Select
      BY DisplaySets DEF WindowTypeOK
    <3>3. at' = Least(S)
      BY <2>0, <3>1 DEF NextStop
    <3>. HIDE DEF S
    <3>4. S # {}
      BY DEF S
    <3>5. at' \in 1..Select
      BY <3>2, <3>3, <3>4, LeastIsLeast
    <3>. QED BY <2>0, <3>1, <3>5 DEF WindowTypeOK
  <2>2. CASE events[d] # <<>>
    <3>1. HandleEvent(d)
      BY <1>14, <2>2 DEF Serve
    <3>2. events \in [Displays -> Seq(EventType)]
      BY DEF WindowTypeOK, EventType
    <3>3. PICK e \in EventType : e = Head(events[d])
      BY <2>2, <3>2
    <3>4. e.kind \in {"create", "configure", "destroy"} /\ e.id \in Ids
      BY <3>3 DEF EventType
    <3>5. HandleCreate(e.id) \/ HandleConfigure(d, e.id) \/ HandleDestroy(d, e.id)
      BY <3>1, <3>3, <3>4 DEF HandleEvent
    <3>6. /\ up' \in BOOLEAN /\ automating' \in BOOLEAN
          /\ listed' \in [Children -> Seq(EntryType)] /\ tracked' \in Seq(TrackedType)
      BY <3>4, <3>5, HandlersKeepTypes
    <3>7. /\ at' = d
          /\ events' = [events EXCEPT ![d] = Tail(@)]
          /\ queued' = [queued EXCEPT ![d] = Len(events'[d])]
          /\ preread' = [preread EXCEPT ![d] = @ /\ Len(events[d]) > 1]
          /\ UNCHANGED <<ready, state, where, proc, xserver, history>>
      BY <3>1 DEF HandleEvent, AfterEvent
    <3>8. Tail(events[d]) \in Seq(EventType) /\ Len(Tail(events[d])) \in Nat
      BY <2>2, <3>2
    <3>9. events' \in [Displays -> Seq(EventType)] /\ events'[d] = Tail(events[d])
      BY <3>2, <3>7, <3>8
    <3>10. queued' \in [Displays -> Nat] /\ preread' \in [Displays -> BOOLEAN]
      BY <3>7, <3>8, <3>9 DEF WindowTypeOK
    <3>11. ASSUME NEW x \in Displays PROVE queued'[x] <= Len(events'[x])
      <4>1. CASE x = d
        BY <3>7, <3>8, <3>9, <4>1 DEF WindowTypeOK
      <4>2. CASE x # d
        BY <3>7, <4>2 DEF WindowTypeOK
      <4>. QED BY <4>1, <4>2
    <3>12. at' \in 1..Select /\ at' # Select
      BY <3>7, DisplaySets
    <3>. QED BY <3>6, <3>7, <3>9, <3>10, <3>11, <3>12 DEF WindowTypeOK, EntryType, TrackedType, EventType
  <2>. QED BY <2>1, <2>2
<1>15. CASE UNCHANGED vars
  BY <1>15 DEF WindowTypeOK
<1>. QED BY <1>1, <1>3, <1>4, <1>6, <1>8, <1>9, <1>10, <1>11, <1>12, <1>13, <1>14, <1>15
   DEF Next, Round, Handlers, Environment

\* What the daemon, the programs and the X servers keep has its type, and a child has a
\* process exactly if it is not stopped.
THEOREM TypeCorrect == Spec => []WindowTypeOK
BY InitType, NextType, PTL DEF Spec

-----------------------------------------------------------------------------
(* Windows and the entries that track them *)

\* The entries that track a window, and those of them that hold one that was placed.
In(id)     == {u \in Tracking(id) : tracked[u].state # "inactive"}
Active(id) == {u \in Tracking(id) : tracked[u].state = "active"}

\* The daemon knows no ids but those that some server gave out.
IdsAreUsed ==
    /\ \A d \in Displays : \A n \in DOMAIN events[d] : events[d][n].id \in used[d]
    /\ \A u \in DOMAIN tracked : \E d \in Displays : tracked[u].id \in used[d]
    /\ \A c \in Children : \A e \in Entries(c) : e.id \in used[e.on]

Between(d, n, m, kind, id) ==
    \E k \in DOMAIN events[d] : n < k /\ k < m /\ events[d][k] = Event(kind, id)

Opposite(kind) == IF kind = "create" THEN "destroy" ELSE "create"

\* The windows of one id on one server come and go in turn, and the last that was told of
\* them is what holds now.
TakeTurns ==
    \A d \in Displays : \A id \in Ids : \A kind \in {"create", "destroy"} :
        \A n \in DOMAIN events[d] : events[d][n] = Event(kind, id) =>
            /\ \A m \in DOMAIN events[d] : n < m /\ events[d][m] = Event(kind, id)
                  => Between(d, n, m, Opposite(kind), id)
            /\ (kind = "destroy" <=> Present(d, id))
                  => Between(d, n, Len(events[d]) + 1, Opposite(kind), id)

\* No former entry of the window comes before the one that tracks it, so a DestroyNotify
\* finds that one.
FoundFirst ==
    \A id \in Ids : ~Collides(id) => \A u \in In(id) : \A v \in Tracking(id) : u <= v

\* A window that is tracked is there or about to go, and comes again only after that; one
\* that is not tracked is about to come.
TrackedInTurn ==
    \A d \in Displays : \A id \in used[d] : ~Collides(id) =>
        /\ In(id) # {} =>
             /\ \A n \in DOMAIN events[d] : events[d][n] = Event("create", id)
                   => Between(d, 0, n, "destroy", id)
             /\ Present(d, id) \/ Waiting(d, "destroy", id)
        /\ Present(d, id) /\ ~Waiting(d, "create", id) /\ shown[d][id].opener # External
              => In(id) # {}

TrackInv == IdsAreUsed /\ TakeTurns /\ FoundFirst /\ TrackedInTurn

LEMMA CreateTracks ==
    ASSUME WindowTypeOK, NEW id \in Ids, HandleCreate(id)
    PROVE  \E u \in Nat :
              /\ Tracking(id)' = Tracking(id) \cup {u} /\ In(id)' = In(id) \cup {u}
              /\ Active(id)' = Active(id)
              /\ \A v \in Tracking(id) : v \notin In(id) => u <= v
              /\ \A i \in Ids \ {id} : /\ Tracking(i)' \subseteq Tracking(i)
                                       /\ In(i)' = In(i) /\ Active(i)' = Active(i)
<1>1. tracked \in Seq(TrackedType) /\ tracked' = Tracked(id)
  BY DEF WindowTypeOK, TrackedType, HandleCreate
<1>2. PICK u \in 1..Len(tracked) + 1 :
              /\ u \in DOMAIN tracked => tracked[u].state = "inactive"
              /\ \A v \in DOMAIN tracked : tracked[v].state = "inactive" => u <= v
              /\ DOMAIN tracked' = DOMAIN tracked \cup {u}
              /\ tracked'[u] = [id |-> id, state |-> "unconfigured"]
              /\ \A v \in DOMAIN tracked \ {u} : tracked'[v] = tracked[v]
  <2>1. tracked \in Seq(TrackedType)
    BY <1>1
  <2>2. \E u \in 1..Len(tracked) + 1 :
              /\ u \in DOMAIN tracked => tracked[u].state = "inactive"
              /\ \A v \in DOMAIN tracked : tracked[v].state = "inactive" => u <= v
              /\ DOMAIN Tracked(id) = DOMAIN tracked \cup {u}
              /\ Tracked(id) \in Seq(TrackedType)
              /\ Tracked(id)[u] = [id |-> id, state |-> "unconfigured"]
              /\ \A v \in DOMAIN tracked \ {u} : Tracked(id)[v] = tracked[v]
    BY <2>1, TrackedSlot
  <2>. QED BY <1>1, <2>2
<1>3. u \in Nat
  BY <1>1
<1>4. tracked'[u].id = id /\ tracked'[u].state = "unconfigured"
  BY <1>2
<1>5. Tracking(id)' = Tracking(id) \cup {u}
  BY <1>2, <1>4 DEF Tracking
<1>6. In(id)' = In(id) \cup {u}
  BY <1>2, <1>4 DEF In, Tracking
<1>7. Active(id)' = Active(id)
  BY <1>2, <1>4 DEF Active, Tracking
<1>8. \A v \in Tracking(id) : v \notin In(id) => u <= v
  BY <1>2 DEF In, Tracking
<1>9. ASSUME NEW i \in Ids \ {id}
      PROVE  Tracking(i)' \subseteq Tracking(i) /\ In(i)' = In(i) /\ Active(i)' = Active(i)
  BY <1>2, <1>4 DEF In, Active, Tracking
<1>. QED BY <1>3, <1>5, <1>6, <1>7, <1>8, <1>9

\* A DestroyNotify and a ConfigureNotify look for an entry.
LEMMA EntryOfWindow ==
    ASSUME WindowTypeOK, NEW id
    PROVE  /\ Tracking(id) \subseteq DOMAIN tracked /\ DOMAIN tracked \subseteq Nat
           /\ Tracking(id) # {} => /\ Least(Tracking(id)) \in Tracking(id)
                                   /\ \A v \in Tracking(id) : Least(Tracking(id)) <= v
           /\ Unconfigured(id) # {} => Least(Unconfigured(id)) \in In(id) \ Active(id)
           /\ \A u \in DOMAIN tracked : tracked[u] \in TrackedType
<1>1. tracked \in Seq(TrackedType)
  BY DEF WindowTypeOK, TrackedType
<1>2. DOMAIN tracked \subseteq Nat /\ \A u \in DOMAIN tracked : tracked[u] \in TrackedType
  BY <1>1
<1>3. Tracking(id) \in SUBSET Nat /\ Unconfigured(id) \in SUBSET Nat
  BY <1>2 DEF Tracking, Unconfigured
<1>4. Unconfigured(id) # {} => Least(Unconfigured(id)) \in Unconfigured(id)
  BY <1>3, LeastIsLeast
<1>5. Unconfigured(id) \subseteq In(id) \ Active(id)
  BY DEF Unconfigured, In, Active, Tracking
<1>6. Tracking(id) # {} => /\ Least(Tracking(id)) \in Tracking(id)
                           /\ \A v \in Tracking(id) : Least(Tracking(id)) <= v
  BY <1>3, LeastIsLeast
<1>. QED BY <1>2, <1>4, <1>5, <1>6 DEF Tracking

\* An entry changes its state.
LEMMA EntryChanges ==
    ASSUME WindowTypeOK, NEW u \in DOMAIN tracked, NEW s,
           tracked' = [tracked EXCEPT ![u].state = s]
    PROVE  /\ \A i \in Ids : Tracking(i)' = Tracking(i)
           /\ DOMAIN tracked' = DOMAIN tracked
           /\ tracked'[u].state = s /\ tracked'[u].id = tracked[u].id
           /\ \A v \in DOMAIN tracked \ {u} : tracked'[v] = tracked[v]
           /\ \A i \in Ids : u \notin Tracking(i) => In(i)' = In(i) /\ Active(i)' = Active(i)
<1>1. tracked[u] \in TrackedType
  BY EntryOfWindow
<1>2. /\ DOMAIN tracked' = DOMAIN tracked /\ tracked'[u] = [tracked[u] EXCEPT !.state = s]
      /\ \A v \in DOMAIN tracked \ {u} : tracked'[v] = tracked[v]
  OBVIOUS
<1>3. tracked'[u].state = s /\ tracked'[u].id = tracked[u].id
  BY <1>1, <1>2 DEF TrackedType
<1>4. \A i \in Ids : Tracking(i)' = Tracking(i)
  BY <1>2, <1>3 DEF Tracking
<1>5. ASSUME NEW i \in Ids, u \notin Tracking(i) PROVE In(i)' = In(i) /\ Active(i)' = Active(i)
  BY <1>2, <1>3, <1>5 DEF Tracking, In, Active
<1>. QED BY <1>2, <1>3, <1>4, <1>5

LEMMA ConfigureTracks ==
    ASSUME WindowTypeOK, NEW d \in Displays, NEW id \in Ids, HandleConfigure(d, id)
    PROVE  /\ \A i \in Ids : /\ Tracking(i)' = Tracking(i) /\ In(i)' = In(i)
                             /\ Active(i) \subseteq Active(i)'
           /\ \/ listed' = listed
              \/ /\ Present(d, id)
                 /\ In(id) \ Active(id) # {} /\ Active(id)' # {}
                 /\ \E c \in Matches(d, shown[d][id]) \ {Nobody} :
                       listed' = [listed EXCEPT ![c] = Append(@, Entry(d, id))]
<1>1. CASE Unconfigured(id) = {}
  BY <1>1 DEF HandleConfigure, Tracking, In, Active
<1>2. CASE Unconfigured(id) # {}
  <2>. DEFINE u == Least(Unconfigured(id))
  <2>1. u \in In(id) \ Active(id) /\ u \in DOMAIN tracked
    BY <1>2, EntryOfWindow DEF In
  <2>2. tracked' = [tracked EXCEPT ![u].state = "active"]
    BY <1>2 DEF HandleConfigure
  <2>3. \/ listed' = listed
        \/ /\ Present(d, id)
           /\ \E c \in Matches(d, shown[d][id]) \ {Nobody} :
                 listed' = [listed EXCEPT ![c] = Append(@, Entry(d, id))]
    BY <1>2 DEF HandleConfigure
  <2>. HIDE DEF u
  <2>4. /\ \A i \in Ids : Tracking(i)' = Tracking(i)
        /\ DOMAIN tracked' = DOMAIN tracked
        /\ tracked'[u].state = "active" /\ tracked'[u].id = tracked[u].id
        /\ \A v \in DOMAIN tracked \ {u} : tracked'[v] = tracked[v]
    BY <2>1, <2>2, EntryChanges
  <2>5. tracked[u].state # "inactive" /\ tracked[u].id = id
    BY <2>1 DEF In, Tracking
  <2>6. ASSUME NEW i \in Ids PROVE In(i)' = In(i) /\ Active(i) \subseteq Active(i)'
    BY <2>1, <2>4, <2>5 DEF Tracking, In, Active
  <2>7. u \in Active(id)'
    BY <2>1, <2>4, <2>5 DEF Tracking, Active
  <2>. QED BY <2>1, <2>3, <2>4, <2>6, <2>7
<1>. QED BY <1>1, <1>2

LEMMA DestroyTracks ==
    ASSUME WindowTypeOK, NEW d \in Displays, NEW id \in Ids, HandleDestroy(d, id)
    PROVE  /\ \A i \in Ids : Tracking(i)' = Tracking(i)
           /\ \A i \in Ids \ {id} : In(i)' = In(i) /\ Active(i)' = Active(i)
           /\ In(id)' = In(id) \ {Least(Tracking(id))}
           /\ listed' = IF Tracking(id) # {} /\ Least(Tracking(id)) \in Active(id)
                        THEN Discarded(d, id) ELSE listed
<1>1. CASE Tracking(id) = {}
  <2>1. tracked' = tracked /\ listed' = listed
    BY <1>1 DEF HandleDestroy
  <2>. QED BY <1>1, <2>1 DEF Tracking, In, Active
<1>2. CASE Tracking(id) # {}
  <2>. DEFINE u == Least(Tracking(id))
  <2>1. u \in Tracking(id) /\ u \in DOMAIN tracked
    BY <1>2, EntryOfWindow
  <2>2. /\ tracked' = [tracked EXCEPT ![u].state = "inactive"]
        /\ listed' = IF tracked[u].state = "active" THEN Discarded(d, id) ELSE listed
    BY <1>2 DEF HandleDestroy
  <2>. HIDE DEF u
  <2>3. /\ \A i \in Ids : Tracking(i)' = Tracking(i)
        /\ DOMAIN tracked' = DOMAIN tracked
        /\ tracked'[u].state = "inactive" /\ tracked'[u].id = tracked[u].id
        /\ \A v \in DOMAIN tracked \ {u} : tracked'[v] = tracked[v]
        /\ \A i \in Ids : u \notin Tracking(i) => In(i)' = In(i) /\ Active(i)' = Active(i)
    BY <2>1, <2>2, EntryChanges
  <2>4. \A i \in Ids \ {id} : u \notin Tracking(i)
    BY <2>1 DEF Tracking
  <2>5. In(id)' = In(id) \ {u}
    BY <2>1, <2>3 DEF In, Tracking
  <2>6. tracked[u].state = "active" <=> u \in Active(id)
    BY <2>1 DEF Active
  <2>. QED BY <1>2, <2>2, <2>3, <2>4, <2>5, <2>6 DEF u
<1>. QED BY <1>1, <1>2

\* A server tells of one thing more.
LEMMA Appended ==
    ASSUME WindowTypeOK, NEW d \in Displays, NEW e \in EventType,
           events' = [events EXCEPT ![d] = Append(@, e)]
    PROVE  /\ Len(events[d]) \in Nat /\ DOMAIN events[d] = 1..Len(events[d])
           /\ Len(events'[d]) = Len(events[d]) + 1
           /\ DOMAIN events'[d] = 1..Len(events[d]) + 1
           /\ \A n \in 1..Len(events[d]) : events'[d][n] = events[d][n]
           /\ events'[d][Len(events[d]) + 1] = e
           /\ \A x \in Displays \ {d} : events'[x] = events[x]
<1>1. events \in [Displays -> Seq(EventType)]
  BY DEF WindowTypeOK, EventType
<1>2. events'[d] = Append(events[d], e) /\ \A x \in Displays \ {d} : events'[x] = events[x]
  BY <1>1
<1>3. events[d] \in Seq(EventType)
  BY <1>1
<1>. QED BY <1>2, <1>3

\* The daemon takes the oldest.
LEMMA Taken ==
    ASSUME WindowTypeOK, NEW d \in Displays, Handles(d)
    PROVE  /\ Len(events[d]) \in Nat /\ DOMAIN events[d] = 1..Len(events[d])
           /\ 1 \in DOMAIN events[d] /\ events[d][1] \in EventType
           /\ events[d][1] = Head(events[d])
           /\ Len(events'[d]) = Len(events[d]) - 1
           /\ DOMAIN events'[d] = 1..Len(events[d]) - 1
           /\ \A n \in 1..Len(events[d]) - 1 : events'[d][n] = events[d][n + 1]
           /\ \A x \in Displays \ {d} : events'[x] = events[x]
<1>1. events \in [Displays -> Seq(EventType)] /\ events[d] # <<>>
  BY DEF WindowTypeOK, EventType, Handles
<1>2. events'[d] = Tail(events[d]) /\ \A x \in Displays \ {d} : events'[x] = events[x]
  BY <1>1 DEF Handles
<1>3. events[d] \in Seq(EventType)
  BY <1>1
<1>4. Len(events[d]) \in Nat /\ DOMAIN events[d] = 1..Len(events[d]) /\ 1 \in DOMAIN events[d]
  BY <1>1, <1>3
<1>5. events[d][1] \in EventType /\ events[d][1] = Head(events[d])
  BY <1>1, <1>3, <1>4
<1>6. /\ Tail(events[d]) \in Seq(EventType) /\ Len(Tail(events[d])) = Len(events[d]) - 1
      /\ \A n \in 1..Len(Tail(events[d])) : Tail(events[d])[n] = events[d][n + 1]
  BY <1>1, <1>3
<1>. QED BY <1>2, <1>4, <1>5, <1>6

\* The event that the daemon handles.
LEMMA Handled ==
    ASSUME WindowTypeOK, NEW d \in Displays, Handles(d)
    PROVE  \E h \in EventType :
              /\ h = events[d][1] /\ 1 \in DOMAIN events[d] /\ h.id \in Ids
              /\ \/ h = Event("create", h.id) /\ HandleCreate(h.id)
                 \/ h = Event("configure", h.id) /\ HandleConfigure(d, h.id)
                 \/ h = Event("destroy", h.id) /\ HandleDestroy(d, h.id)
              /\ UNCHANGED <<used, shown, where, doubtful>>
<1>1. PICK h \in EventType : h = events[d][1]
  BY Taken
<1>2. h = Head(events[d]) /\ 1 \in DOMAIN events[d]
  BY <1>1, Taken
<1>3. h.id \in Ids /\ \A k \in {"create", "configure", "destroy"} : h.kind = k => h = Event(k, h.id)
  BY DEF EventType, Event
<1>4. /\ \/ h.kind = "create" /\ HandleCreate(h.id)
         \/ h.kind = "configure" /\ HandleConfigure(d, h.id)
         \/ h.kind = "destroy" /\ HandleDestroy(d, h.id)
      /\ UNCHANGED <<used, shown, where, doubtful>>
  BY <1>2 DEF Handles
<1>. QED BY <1>1, <1>2, <1>3, <1>4

\* Ids that two servers gave out stay such, and entries that are in doubt stay in doubt.
LEMMA OnlyGrows ==
    ASSUME WindowTypeOK, [Next]_vars
    PROVE  /\ \A d \in Displays : used[d] \subseteq used'[d]
           /\ \A id : ~Collides(id)' => ~Collides(id)
           /\ \A e : Certain(e)' => Certain(e)
<1>1. used \in [Displays -> SUBSET Ids]
  BY DEF WindowTypeOK
<1>2. (\A d \in Displays : used[d] \subseteq used'[d]) /\ doubtful \subseteq doubtful'
  <2>1. CASE LeavesWindows
    BY <2>1 DEF LeavesWindows, Assigned
  <2>2. ASSUME NEW d \in Displays, NEW id \in Ids, NEW kind \in {"create", "configure", "destroy"},
               Tells(d, id, kind)
        PROVE  (\A x \in Displays : used[x] \subseteq used'[x]) /\ doubtful \subseteq doubtful'
    BY <1>1, <2>2 DEF Tells
  <2>3. ASSUME NEW d \in Displays, Handles(d)
        PROVE  (\A x \in Displays : used[x] \subseteq used'[x]) /\ doubtful \subseteq doubtful'
    BY <2>3 DEF Handles
  <2>. QED BY <2>1, <2>2, <2>3, StepKinds
<1>3. \A id : ~Collides(id)' => ~Collides(id)
  BY <1>2 DEF Collides
<1>4. \A e : Certain(e)' => Certain(e)
  BY <1>2, <1>3 DEF Certain
<1>. QED BY <1>2, <1>3, <1>4

\* What a child has listed after an event was handled it had listed before, or it is new.
LEMMA ListedBefore ==
    ASSUME WindowTypeOK, NEW d \in Displays, NEW id \in Ids,
           HandleCreate(id) \/ HandleConfigure(d, id) \/ HandleDestroy(d, id)
    PROVE  \A c \in Children : \A e \in Entries(c)' : e \in Entries(c) \/ e = Entry(d, id)
<1>. DEFINE Known == \A c \in Children : \A e \in Entries(c)' : e \in Entries(c) \/ e = Entry(d, id)
<1>1. listed \in [Children -> Seq(EntryType)]
  BY DEF WindowTypeOK, EntryType
<1>2. CASE listed' = listed
  BY <1>2 DEF Entries
<1>3. ASSUME NEW c \in Children, listed' = [listed EXCEPT ![c] = Append(@, Entry(d, id))] PROVE Known
  <2>. DEFINE new == Entry(d, id)
  <2>1. new \in EntryType
    BY DEF Entry, EntryType
  <2>. HIDE DEF new
  <2>2. listed[c] \in Seq(EntryType)
    BY <1>1
  <2>3. /\ DOMAIN Append(listed[c], new) = DOMAIN listed[c] \cup {Len(listed[c]) + 1}
        /\ Append(listed[c], new)[Len(listed[c]) + 1] = new
        /\ \A n \in DOMAIN listed[c] : Append(listed[c], new)[n] = listed[c][n]
    BY <2>1, <2>2
  <2>4. listed'[c] = Append(listed[c], new) /\ \A x \in Children \ {c} : listed'[x] = listed[x]
    BY <1>1, <1>3 DEF new
  <2>5. ASSUME NEW x \in Children, NEW e \in Entries(x)' PROVE e \in Entries(x) \/ e = new
    <3>1. CASE x = c
      BY <2>3, <2>4, <2>5, <3>1 DEF Entries
    <3>2. CASE x # c
      BY <2>4, <2>5, <3>2 DEF Entries
    <3>. QED BY <3>1, <3>2
  <2>. QED BY <2>5 DEF new
<1>4. ASSUME NEW c \in Children, NEW n \in DOMAIN listed[c], listed'[c] = RemoveAt(listed[c], n),
             \A x \in Children \ {c} : listed'[x] = listed[x]
      PROVE  Known
  <2>1. listed[c] \in Seq(EntryType)
    BY <1>1
  <2>2. /\ DOMAIN RemoveAt(listed[c], n) = 1..Len(listed[c]) - 1
        /\ \A m \in DOMAIN RemoveAt(listed[c], n) :
              RemoveAt(listed[c], n)[m] = listed[c][IF m < n THEN m ELSE m + 1]
    BY <2>1, RemoveAtShifts
  <2>3. listed'[c] = RemoveAt(listed[c], n) /\ \A x \in Children \ {c} : listed'[x] = listed[x]
    BY <1>4
  <2>4. Len(listed[c]) \in Nat /\ DOMAIN listed[c] = 1..Len(listed[c])
    BY <2>1
  <2>5. ASSUME NEW x \in Children, NEW e \in Entries(x)' PROVE e \in Entries(x)
    <3>1. CASE x = c
      <4>1. PICK m \in DOMAIN RemoveAt(listed[c], n) : e = RemoveAt(listed[c], n)[m]
        BY <2>3, <2>5, <3>1 DEF Entries
      <4>2. PICK k \in DOMAIN listed[c] : k = IF m < n THEN m ELSE m + 1
        BY <2>2, <2>4
      <4>3. e = listed[c][k]
        BY <2>2, <4>1, <4>2
      <4>. QED BY <3>1, <4>3 DEF Entries
    <3>2. CASE x # c
      BY <2>3, <2>5, <3>2 DEF Entries
    <3>. QED BY <3>1, <3>2
  <2>. QED BY <2>5
<1>. HIDE DEF Known
<1>5. CASE HandleCreate(id)
  BY <1>2, <1>5 DEF HandleCreate, Known
<1>6. CASE HandleConfigure(d, id)
  <2>1. CASE listed' = listed
    BY <1>2, <2>1 DEF Known
  <2>2. CASE listed' # listed
    <3>1. /\ Present(d, id)
          /\ \E c \in Matches(d, shown[d][id]) \ {Nobody} :
                listed' = [listed EXCEPT ![c] = Append(@, Entry(d, id))]
      BY <1>6, <2>2, ConfigureTracks
    <3>2. PICK c \in Matches(d, shown[d][id]) \ {Nobody} :
             listed' = [listed EXCEPT ![c] = Append(@, Entry(d, id))]
      BY <3>1
    <3>3. shown[d][id] \in WindowType
      BY <3>1 DEF WindowTypeOK, Present
    <3>4. c \in Children
      BY <3>3, MatchesType
    <3>. QED BY <1>3, <3>2, <3>4 DEF Known
  <2>. QED BY <2>1, <2>2
<1>7. CASE HandleDestroy(d, id)
  <2>1. listed' = listed \/ listed' = Discarded(d, id)
    BY <1>7, DestroyTracks
  <2>2. CASE listed' = listed
    BY <1>2, <2>2 DEF Known
  <2>3. CASE listed' # listed
    <3>0. \/ Discarded(d, id) = listed
          \/ \E c \in Children : \E n \in DOMAIN listed[c] :
                  Discarded(d, id) = [listed EXCEPT ![c] = RemoveAt(@, n)]
      BY <1>1, DiscardedEntry
    <3>1. PICK c \in Children : \E n \in DOMAIN listed[c] :
             listed' = [listed EXCEPT ![c] = RemoveAt(@, n)]
      BY <2>1, <2>3, <3>0, Zenon
    <3>2. PICK n \in DOMAIN listed[c] : listed' = [listed EXCEPT ![c] = RemoveAt(@, n)]
      BY <3>1, Zenon
    <3>3. listed'[c] = RemoveAt(listed[c], n) /\ \A x \in Children \ {c} : listed'[x] = listed[x]
      BY <1>1, <3>2
    <3>. QED BY <1>4, <3>3 DEF Known
  <2>. QED BY <2>2, <2>3
<1>. QED BY <1>5, <1>6, <1>7 DEF Known

LEMMA IdsStayUsed ==
    ASSUME WindowTypeOK, [Next]_vars, IdsAreUsed
    PROVE  IdsAreUsed'
<1>0. \A d \in Displays : used[d] \subseteq used'[d]
  BY OnlyGrows
<1>1. CASE LeavesWindows
  BY <1>1 DEF LeavesWindows, IdsAreUsed, Entries
<1>2. ASSUME NEW d \in Displays, NEW id \in Ids, NEW kind \in {"create", "configure", "destroy"},
             Tells(d, id, kind)
      PROVE  IdsAreUsed'
  <2>. DEFINE e == Event(kind, id)
              n == Len(events[d])
  <2>1. e \in EventType /\ e.id = id
    BY DEF Event, EventType
  <2>2. events' = [events EXCEPT ![d] = Append(@, e)] /\ UNCHANGED <<tracked, listed>>
    BY <1>2 DEF Tells
  <2>3. id \in used'[d]
    BY <1>2 DEF Tells, WindowTypeOK
  <2>. HIDE DEF e
  <2>4. /\ n \in Nat /\ DOMAIN events[d] = 1..n /\ DOMAIN events'[d] = 1..n + 1
        /\ \A m \in 1..n : events'[d][m] = events[d][m]
        /\ events'[d][n + 1] = e
        /\ \A x \in Displays \ {d} : events'[x] = events[x]
    BY <2>1, <2>2, Appended
  <2>. HIDE DEF n
  <2>5. ASSUME NEW x \in Displays, NEW m \in DOMAIN events'[x] PROVE events'[x][m].id \in used'[x]
    <3>1. CASE x # d
      BY <1>0, <2>4, <3>1 DEF IdsAreUsed
    <3>2. CASE x = d /\ m = n + 1
      BY <2>1, <2>3, <2>4, <3>2
    <3>3. CASE x = d /\ m # n + 1
      <4>1. m \in 1..n
        BY <2>4, <3>3
      <4>2. events[d][m].id \in used[d]
        BY <2>4, <4>1 DEF IdsAreUsed
      <4>. QED BY <1>0, <2>4, <3>3, <4>1, <4>2
    <3>. QED BY <3>1, <3>2, <3>3
  <2>6. \A u \in DOMAIN tracked' : \E x \in Displays : tracked'[u].id \in used'[x]
    BY <1>0, <2>2 DEF IdsAreUsed
  <2>7. ASSUME NEW c \in Children, NEW x \in Entries(c)' PROVE x.id \in used'[x.on]
    <3>1. x \in Entries(c) /\ x.on \in Displays
      <4>1. x \in Entries(c) /\ listed[c] \in Seq(EntryType)
        BY <2>2, <2>7 DEF Entries, WindowTypeOK, EntryType
      <4>2. x \in EntryType
        BY <4>1 DEF Entries
      <4>. QED BY <4>1, <4>2 DEF EntryType
    <3>. QED BY <1>0, <3>1 DEF IdsAreUsed
  <2>. QED BY <2>5, <2>6, <2>7 DEF IdsAreUsed
<1>3. ASSUME NEW d \in Displays, Handles(d) PROVE IdsAreUsed'
  <2>1. PICK h \in EventType :
              /\ h = events[d][1] /\ 1 \in DOMAIN events[d] /\ h.id \in Ids
              /\ \/ h = Event("create", h.id) /\ HandleCreate(h.id)
                 \/ h = Event("configure", h.id) /\ HandleConfigure(d, h.id)
                 \/ h = Event("destroy", h.id) /\ HandleDestroy(d, h.id)
              /\ UNCHANGED <<used, shown, where, doubtful>>
    BY <1>3, Handled
  <2>2. h.id \in used[d]
    BY <2>1 DEF IdsAreUsed
  <2>3. ASSUME NEW x \in Displays, NEW m \in DOMAIN events'[x] PROVE events'[x][m].id \in used'[x]
    <3>. DEFINE n == Len(events[d])
    <3>1. /\ n \in Nat /\ DOMAIN events[d] = 1..n /\ DOMAIN events'[d] = 1..n - 1
          /\ \A k \in 1..n - 1 : events'[d][k] = events[d][k + 1]
          /\ \A y \in Displays \ {d} : events'[y] = events[y]
      BY <1>3, Taken
    <3>. HIDE DEF n
    <3>2. CASE x = d
      <4>1. m \in 1..n - 1 /\ m + 1 \in 1..n
        BY <3>1, <3>2
      <4>. QED BY <2>1, <3>1, <3>2, <4>1 DEF IdsAreUsed
    <3>3. CASE x # d
      BY <2>1, <3>1, <3>3 DEF IdsAreUsed
    <3>. QED BY <3>2, <3>3
  <2>4. ASSUME NEW u \in DOMAIN tracked' PROVE \E x \in Displays : tracked'[u].id \in used'[x]
    <3>1. tracked'[u].id = h.id \/ (u \in DOMAIN tracked /\ tracked'[u].id = tracked[u].id)
      <4>0. tracked' \in Seq(TrackedType)
        BY NextType DEF WindowTypeOK, TrackedType
      <4>1. PICK i \in Ids : i = tracked'[u].id
        <5>1. tracked'[u] \in TrackedType
          BY <4>0
        <5>. QED BY <5>1 DEF TrackedType
      <4>2. i # h.id => Tracking(i)' \subseteq Tracking(i)
        <5>1. CASE HandleCreate(h.id)
          <6>1. \A j \in Ids \ {h.id} : Tracking(j)' \subseteq Tracking(j)
            BY <2>1, <5>1, CreateTracks
          <6>. QED BY <6>1
        <5>2. CASE HandleConfigure(d, h.id)
          <6>1. \A j \in Ids : Tracking(j)' = Tracking(j)
            BY <2>1, <5>2, ConfigureTracks
          <6>. QED BY <6>1
        <5>3. CASE HandleDestroy(d, h.id)
          <6>1. \A j \in Ids : Tracking(j)' = Tracking(j)
            BY <2>1, <5>3, DestroyTracks
          <6>. QED BY <6>1
        <5>. QED BY <2>1, <5>1, <5>2, <5>3
      <4>3. u \in Tracking(i)'
        BY <4>1 DEF Tracking
      <4>4. i # h.id => u \in DOMAIN tracked /\ tracked[u].id = i
        BY <4>2, <4>3 DEF Tracking
      <4>. QED BY <4>1, <4>4
    <3>. QED BY <2>1, <2>2, <3>1 DEF IdsAreUsed
  <2>5. ASSUME NEW c \in Children, NEW x \in Entries(c)' PROVE x.id \in used'[x.on]
    <3>1. \A y \in Children : \A e \in Entries(y)' : e \in Entries(y) \/ e = Entry(d, h.id)
      BY <2>1, ListedBefore
    <3>2. CASE x \in Entries(c)
      BY <2>1, <3>2 DEF IdsAreUsed
    <3>3. CASE x = Entry(d, h.id)
      BY <2>1, <2>2, <3>3 DEF Entry
    <3>. QED BY <3>1, <3>2, <3>3
  <2>. QED BY <2>3, <2>4, <2>5 DEF IdsAreUsed
<1>. QED BY <1>1, <1>2, <1>3, StepKinds

\* What lies between two events stays there.
LEMMA BetweenStays ==
    ASSUME WindowTypeOK, NEW d \in Displays, NEW kind, NEW id
    PROVE  /\ \A e \in EventType : events' = [events EXCEPT ![d] = Append(@, e)] =>
                /\ \A n, m \in Nat : Between(d, n, m, kind, id) => Between(d, n, m, kind, id)'
                /\ \A n \in Nat : n <= Len(events[d]) /\ e = Event(kind, id)
                      => Between(d, n, Len(events[d]) + 1, kind, id)'
           /\ Handles(d) => \A n, m \in Nat :
                 Between(d, n + 1, m, kind, id) => Between(d, n, m - 1, kind, id)'
<1>1. ASSUME NEW e \in EventType, events' = [events EXCEPT ![d] = Append(@, e)]
      PROVE  /\ \A n, m \in Nat : Between(d, n, m, kind, id) => Between(d, n, m, kind, id)'
             /\ \A n \in Nat : n <= Len(events[d]) /\ e = Event(kind, id)
                   => Between(d, n, Len(events[d]) + 1, kind, id)'
  <2>0. Len(events[d]) \in Nat
    BY <1>1, Appended
  <2>1. PICK l \in Nat :
           /\ l = Len(events[d]) /\ Len(events'[d]) = l + 1
           /\ DOMAIN events[d] = 1..l /\ DOMAIN events'[d] = 1..l + 1
           /\ \A m \in 1..l : events'[d][m] = events[d][m]
           /\ events'[d][l + 1] = e
    BY <1>1, <2>0, Appended
  <2>2. ASSUME NEW n \in Nat, NEW m \in Nat, Between(d, n, m, kind, id)
        PROVE  Between(d, n, m, kind, id)'
    <3>1. PICK k \in 1..l : n < k /\ k < m /\ events[d][k] = Event(kind, id)
      BY <2>1, <2>2 DEF Between
    <3>2. k \in DOMAIN events'[d] /\ events'[d][k] = Event(kind, id)
      BY <2>1, <3>1
    <3>. QED BY <3>1, <3>2 DEF Between, Event
  <2>3. ASSUME NEW n \in Nat, n <= l, e = Event(kind, id)
        PROVE  Between(d, n, Len(events[d]) + 1, kind, id)'
    <3>1. PICK k \in DOMAIN events'[d] : k = l + 1
      BY <2>1
    <3>2. n < k /\ k < Len(events'[d]) + 1 /\ events'[d][k] = Event(kind, id)
      BY <2>1, <2>3, <3>1
    <3>. QED BY <3>2 DEF Between, Event
  <2>. QED BY <2>1, <2>2, <2>3
<1>2. ASSUME Handles(d), NEW n \in Nat, NEW m \in Nat, Between(d, n + 1, m, kind, id)
      PROVE  Between(d, n, m - 1, kind, id)'
  <2>. DEFINE l == Len(events[d])
  <2>1. /\ l \in Nat /\ DOMAIN events[d] = 1..l /\ DOMAIN events'[d] = 1..l - 1
        /\ \A k \in 1..l - 1 : events'[d][k] = events[d][k + 1]
    BY <1>2, Taken
  <2>. HIDE DEF l
  <2>2. PICK k \in 1..l : n + 1 < k /\ k < m /\ events[d][k] = Event(kind, id)
    BY <1>2, <2>1 DEF Between
  <2>3. k - 1 \in DOMAIN events'[d] /\ n < k - 1 /\ k - 1 < m - 1 /\ k - 1 + 1 = k
    BY <2>1, <2>2
  <2>4. events'[d][k - 1] = Event(kind, id)
    BY <2>1, <2>2, <2>3
  <2>. QED BY <2>3, <2>4 DEF Between, Event
<1>. QED BY <1>1, <1>2

LEMMA TurnsStay ==
    ASSUME WindowTypeOK, [Next]_vars, TakeTurns
    PROVE  TakeTurns'
<1>1. CASE LeavesWindows
  BY <1>1 DEF LeavesWindows, TakeTurns, Between, Present
\* It is enough to show it for one event, of one display.
<1>2. SUFFICES ASSUME ~LeavesWindows, NEW d \in Displays, NEW id \in Ids,
                      NEW kind \in {"create", "destroy"},
                      NEW n \in DOMAIN events'[d], events'[d][n] = Event(kind, id)
               PROVE  /\ \A m \in DOMAIN events'[d] : n < m /\ events'[d][m] = Event(kind, id)
                            => Between(d, n, m, Opposite(kind), id)'
                      /\ (kind = "destroy" <=> Present(d, id)')
                            => Between(d, n, Len(events[d]) + 1, Opposite(kind), id)'
  BY <1>1 DEF TakeTurns, Event, Opposite
<1>3. ASSUME events'[d] = events[d], Present(d, id)' <=> Present(d, id)
      PROVE  /\ \A m \in DOMAIN events'[d] : n < m /\ events'[d][m] = Event(kind, id)
                   => Between(d, n, m, Opposite(kind), id)'
             /\ (kind = "destroy" <=> Present(d, id)')
                   => Between(d, n, Len(events[d]) + 1, Opposite(kind), id)'
  <2>1. n \in DOMAIN events[d] /\ events[d][n] = Event(kind, id)
    BY <1>2, <1>3
  <2>2. \A k, m, o : Between(d, k, m, o, id) => Between(d, k, m, o, id)'
    BY <1>3 DEF Between, Event
  <2>3. Between(d, n, Len(events[d]) + 1, Opposite(kind), id)
           => Between(d, n, Len(events[d]) + 1, Opposite(kind), id)'
    BY <1>3 DEF Between, Event, Opposite
  <2>4. /\ \A m \in DOMAIN events[d] : n < m /\ events[d][m] = Event(kind, id)
                 => Between(d, n, m, Opposite(kind), id)
        /\ (kind = "destroy" <=> Present(d, id))
                 => Between(d, n, Len(events[d]) + 1, Opposite(kind), id)
    BY <2>1 DEF TakeTurns
  <2>. QED BY <1>3, <2>2, <2>3, <2>4
<1>4. ASSUME NEW x \in Displays, NEW i \in Ids, NEW k \in {"create", "configure", "destroy"},
             Tells(x, i, k)
      PROVE  /\ \A m \in DOMAIN events'[d] : n < m /\ events'[d][m] = Event(kind, id)
                   => Between(d, n, m, Opposite(kind), id)'
             /\ (kind = "destroy" <=> Present(d, id)')
                   => Between(d, n, Len(events[d]) + 1, Opposite(kind), id)'
  <2>0. PICK e \in EventType : e = Event(k, i)
    BY DEF Event, EventType
  <2>1. events' = [events EXCEPT ![x] = Append(@, e)]
    BY <1>4, <2>0 DEF Tells
  <2>2. CASE d # x
    <3>1. events'[d] = events[d]
      BY <2>1, <2>2, Appended
    <3>2. Present(d, id)' <=> Present(d, id)
      BY <1>4, <2>2 DEF Tells, Present
    <3>. QED BY <1>3, <3>1, <3>2
  <2>3. CASE d = x
    <3>0. Len(events[d]) \in Nat /\ events' = [events EXCEPT ![d] = Append(@, e)]
      BY <2>0, <2>1, <2>3, Appended
    <3>1. PICK l \in Nat :
             /\ l = Len(events[d]) /\ Len(events'[d]) = l + 1
             /\ DOMAIN events[d] = 1..l /\ DOMAIN events'[d] = 1..l + 1
             /\ \A m \in 1..l : events'[d][m] = events[d][m]
             /\ events'[d][l + 1] = e
      BY <3>0, Appended
    <3>2. /\ Present(d, id)' <=> IF id = i THEN k # "destroy" ELSE Present(d, id)
          /\ id = i => (Present(d, id) <=> k # "create")
      BY <1>4, <2>3 DEF Tells, Present
    <3>3. e = Event(kind, id) => kind = k /\ id = i
      BY <2>0 DEF Event
    <3>4. CASE n = l + 1
      <4>1. ~(kind = "destroy" <=> Present(d, id)')
        BY <1>2, <3>1, <3>2, <3>3, <3>4
      <4>2. \A m \in DOMAIN events'[d] : ~(n < m)
        BY <3>1, <3>4
      <4>. QED BY <4>1, <4>2
    <3>5. CASE n # l + 1
      <4>1. n \in 1..l /\ n \in Nat /\ events[d][n] = Event(kind, id)
        BY <1>2, <3>1, <3>5
      <4>2. /\ \A m \in 1..l : n < m /\ events[d][m] = Event(kind, id)
                  => Between(d, n, m, Opposite(kind), id)
            /\ (kind = "destroy" <=> Present(d, id)) => Between(d, n, l + 1, Opposite(kind), id)
        BY <3>1, <4>1 DEF TakeTurns
      <4>3. \A p, m \in Nat : Between(d, p, m, Opposite(kind), id)
                                 => Between(d, p, m, Opposite(kind), id)'
        <5>1. events' = [events EXCEPT ![d] = Append(@, e)]
          BY <2>1, <2>3
        <5>2. \A o : \A p, m \in Nat : Between(d, p, m, o, id) => Between(d, p, m, o, id)'
          BY <5>1, BetweenStays
        <5>3. PICK o : o = Opposite(kind)
          OBVIOUS
        <5>4. \A p, m \in Nat : Between(d, p, m, o, id) => Between(d, p, m, o, id)'
          BY <5>2
        <5>. QED BY <5>3, <5>4 DEF Opposite
      <4>4. ASSUME NEW m \in DOMAIN events'[d], n < m, events'[d][m] = Event(kind, id)
            PROVE  Between(d, n, m, Opposite(kind), id)'
        <5>1. CASE m = l + 1
          <6>1. kind = "destroy" <=> Present(d, id)
            BY <3>1, <3>2, <3>3, <4>4, <5>1
          <6>. QED BY <4>1, <4>2, <4>3, <5>1, <6>1
        <5>2. CASE m # l + 1
          <6>1. m \in 1..l /\ m \in Nat
            BY <3>1, <5>2
          <6>. QED BY <3>1, <4>1, <4>2, <4>3, <4>4, <6>1
        <5>. QED BY <5>1, <5>2
      <4>5. ASSUME kind = "destroy" <=> Present(d, id)'
            PROVE  Between(d, n, Len(events[d]) + 1, Opposite(kind), id)'
        <5>1. CASE e = Event(Opposite(kind), id)
          <6>1. events' = [events EXCEPT ![d] = Append(@, e)]
            BY <2>1, <2>3
          <6>2. PICK o : o = Opposite(kind)
            OBVIOUS
          <6>3. e = Event(o, id) /\ n <= Len(events[d])
            BY <3>1, <4>1, <5>1, <6>2
          <6>4. Between(d, n, Len(events[d]) + 1, o, id)'
            BY <4>1, <6>1, <6>3, BetweenStays
          <6>. QED BY <6>2, <6>4 DEF Opposite
        <5>2. CASE e # Event(Opposite(kind), id)
          <6>1. id = i => k # Opposite(kind)
            BY <2>0, <5>2
          <6>2. kind = "destroy" <=> Present(d, id)
            BY <3>2, <4>5, <6>1 DEF Opposite
          <6>3. Between(d, n, l + 1, Opposite(kind), id)'
            BY <4>1, <4>2, <4>3, <6>2
          <6>. QED BY <3>1, <6>3 DEF Between
        <5>. QED BY <5>1, <5>2
      <4>. QED BY <4>4, <4>5
    <3>. QED BY <3>4, <3>5
  <2>. QED BY <2>2, <2>3
<1>5. ASSUME NEW x \in Displays, Handles(x)
      PROVE  /\ \A m \in DOMAIN events'[d] : n < m /\ events'[d][m] = Event(kind, id)
                   => Between(d, n, m, Opposite(kind), id)'
             /\ (kind = "destroy" <=> Present(d, id)')
                   => Between(d, n, Len(events[d]) + 1, Opposite(kind), id)'
  <2>1. Present(d, id)' <=> Present(d, id)
    BY <1>5 DEF Handles, Present
  <2>2. CASE d # x
    <3>1. events'[d] = events[d]
      BY <1>5, <2>2, Taken
    <3>. QED BY <1>3, <2>1, <3>1
  <2>3. CASE d = x
    <3>0. Handles(d) /\ Len(events[d]) \in Nat
      BY <1>5, <2>3, Taken
    <3>1. PICK l \in Nat :
             /\ l = Len(events[d]) /\ Len(events'[d]) = l - 1
             /\ DOMAIN events[d] = 1..l /\ DOMAIN events'[d] = 1..l - 1
             /\ \A m \in 1..l - 1 : events'[d][m] = events[d][m + 1]
      BY <3>0, Taken
    <3>2. n \in Nat /\ n + 1 \in 1..l /\ events[d][n + 1] = Event(kind, id)
      BY <1>2, <3>1
    <3>3. /\ \A m \in 1..l : n + 1 < m /\ events[d][m] = Event(kind, id)
                => Between(d, n + 1, m, Opposite(kind), id)
          /\ (kind = "destroy" <=> Present(d, id)) => Between(d, n + 1, l + 1, Opposite(kind), id)
      BY <3>1, <3>2 DEF TakeTurns
    <3>4. PICK o : o = Opposite(kind)
      OBVIOUS
    <3>5. \A m \in Nat : Between(d, n + 1, m, o, id) => Between(d, n, m - 1, o, id)'
      BY <3>0, <3>2, BetweenStays
    <3>6. ASSUME NEW m \in DOMAIN events'[d], n < m, events'[d][m] = Event(kind, id)
          PROVE  Between(d, n, m, o, id)'
      <4>1. PICK q \in 1..l : q = m + 1 /\ q - 1 = m
        BY <3>1
      <4>2. q \in Nat /\ n + 1 < q /\ events[d][q] = Event(kind, id)
        BY <3>1, <3>2, <3>6, <4>1
      <4>3. Between(d, n + 1, q, o, id)
        BY <3>3, <3>4, <4>2
      <4>4. Between(d, n, q - 1, o, id)'
        BY <3>5, <4>2, <4>3
      <4>. QED BY <4>1, <4>4
    <3>7. ASSUME kind = "destroy" <=> Present(d, id)'
          PROVE  Between(d, n, Len(events[d]) + 1, o, id)'
      <4>1. Between(d, n, l + 1 - 1, o, id)'
        BY <2>1, <3>1, <3>3, <3>4, <3>5, <3>7
      <4>2. l + 1 - 1 = Len(events'[d]) + 1
        BY <3>1
      <4>. QED BY <4>1, <4>2 DEF Between
    <3>. QED BY <3>4, <3>6, <3>7 DEF Opposite
  <2>. QED BY <2>2, <2>3
<1>. QED BY <1>2, <1>4, <1>5, StepKinds

\* A window that comes is not tracked already.
LEMMA CreateIsNew ==
    ASSUME WindowTypeOK, TrackInv, NEW d \in Displays, NEW id, 1 \in DOMAIN events[d],
           events[d][1] = Event("create", id), ~Collides(id)
    PROVE  id \in used[d] /\ In(id) = {}
<1>1. id \in used[d]
  BY DEF TrackInv, IdsAreUsed, Event
<1>2. ~Between(d, 0, 1, "destroy", id)
  <2>1. events[d] \in Seq(EventType)
    BY DEF WindowTypeOK, EventType
  <2>. QED BY <2>1 DEF Between
<1>. QED BY <1>1, <1>2 DEF TrackInv, TrackedInTurn

LEMMA FoundFirstStays ==
    ASSUME WindowTypeOK, [Next]_vars, TrackInv
    PROVE  FoundFirst'
<1>1. SUFFICES ASSUME NEW id \in Ids, ~Collides(id)'
               PROVE  \A u \in In(id)' : \A v \in Tracking(id)' : u <= v
  BY DEF FoundFirst
<1>2. ~Collides(id)
  BY <1>1, OnlyGrows
<1>3. \A u \in In(id) : \A v \in Tracking(id) : u <= v
  BY <1>2 DEF TrackInv, FoundFirst
<1>4. CASE In(id)' \subseteq In(id) /\ Tracking(id)' \subseteq Tracking(id)
  BY <1>3, <1>4
<1>5. CASE tracked' = tracked
  BY <1>4, <1>5 DEF In, Tracking
<1>6. ASSUME NEW d \in Displays, Handles(d)
      PROVE  \A u \in In(id)' : \A v \in Tracking(id)' : u <= v
  <2>1. PICK h \in EventType :
              /\ h = events[d][1] /\ 1 \in DOMAIN events[d] /\ h.id \in Ids
              /\ \/ h = Event("create", h.id) /\ HandleCreate(h.id)
                 \/ h = Event("configure", h.id) /\ HandleConfigure(d, h.id)
                 \/ h = Event("destroy", h.id) /\ HandleDestroy(d, h.id)
              /\ UNCHANGED <<used, shown, where, doubtful>>
    BY <1>6, Handled
  <2>2. CASE HandleCreate(h.id) /\ h = Event("create", h.id)
    <3>1. PICK u \in Nat :
              /\ Tracking(h.id)' = Tracking(h.id) \cup {u} /\ In(h.id)' = In(h.id) \cup {u}
              /\ \A v \in Tracking(h.id) : v \notin In(h.id) => u <= v
              /\ \A i \in Ids \ {h.id} : Tracking(i)' \subseteq Tracking(i) /\ In(i)' = In(i)
      BY <2>1, <2>2, CreateTracks
    <3>2. CASE id = h.id
      <4>1. In(id) = {}
        BY <1>2, <2>1, <2>2, <3>2, CreateIsNew
      <4>2. In(id)' = {u} /\ \A v \in Tracking(id)' : u <= v
        BY <3>1, <3>2, <4>1
      <4>. QED BY <4>2
    <3>3. CASE id # h.id
      BY <1>4, <3>1, <3>3
    <3>. QED BY <3>2, <3>3
  <2>3. CASE HandleConfigure(d, h.id)
    BY <1>4, <2>1, <2>3, ConfigureTracks
  <2>4. CASE HandleDestroy(d, h.id)
    <3>1. /\ \A i \in Ids : Tracking(i)' = Tracking(i)
          /\ \A i \in Ids \ {h.id} : In(i)' = In(i)
          /\ In(h.id)' = In(h.id) \ {Least(Tracking(h.id))}
      BY <2>1, <2>4, DestroyTracks
    <3>2. In(id)' \subseteq In(id) /\ Tracking(id)' \subseteq Tracking(id)
      BY <3>1
    <3>. QED BY <1>4, <3>2
  <2>. QED BY <2>1, <2>2, <2>3, <2>4
<1>. QED BY <1>5, <1>6, StepKinds DEF LeavesWindows, Tells

\* One window, of one server.
Tracked1(d, id) ==
    /\ In(id) # {} =>
         /\ \A n \in DOMAIN events[d] : events[d][n] = Event("create", id)
               => Between(d, 0, n, "destroy", id)
         /\ Present(d, id) \/ Waiting(d, "destroy", id)
    /\ Present(d, id) /\ ~Waiting(d, "create", id) /\ shown[d][id].opener # External
          => In(id) # {}

LEMMA TrackedInTurnStays ==
    ASSUME WindowTypeOK, [Next]_vars, TrackInv
    PROVE  TrackedInTurn'
<1>1. SUFFICES ASSUME NEW d \in Displays, NEW id \in used'[d], ~Collides(id)'
               PROVE  Tracked1(d, id)'
  BY DEF TrackedInTurn, Tracked1
<1>2. ~Collides(id) /\ id \in Ids
  <2>1. used' \in [Displays -> SUBSET Ids]
    BY NextType DEF WindowTypeOK
  <2>. QED BY <1>1, <2>1, OnlyGrows
<1>3. id \in used[d] => Tracked1(d, id)
  BY <1>2 DEF TrackInv, TrackedInTurn, Tracked1
<1>4. CASE LeavesWindows
  <2>1. /\ UNCHANGED <<events, used, tracked>> /\ DOMAIN shown'[d] = DOMAIN shown[d]
        /\ id \in DOMAIN shown[d] => shown'[d][id].opener = shown[d][id].opener
    BY <1>4 DEF LeavesWindows
  <2>2. Tracked1(d, id)
    BY <1>1, <1>3, <2>1
  <2>. QED BY <2>1, <2>2 DEF Tracked1, In, Tracking, Between, Present, Waiting
\* The daemon tracks it as before, and nothing is heard of it.
<1>5. ASSUME In(id)' = {} <=> In(id) = {}, events'[d] = events[d], shown'[d] = shown[d],
             used'[d] = used[d]
      PROVE  Tracked1(d, id)'
  <2>1. Tracked1(d, id)
    BY <1>1, <1>3, <1>5
  <2>. QED BY <1>5, <2>1 DEF Tracked1, Between, Present, Waiting
<1>6. ASSUME NEW x \in Displays, NEW i \in Ids, NEW k \in {"create", "configure", "destroy"},
             Tells(x, i, k)
      PROVE  Tracked1(d, id)'
  <2>0. PICK e \in EventType : e = Event(k, i)
    BY DEF Event, EventType
  <2>1. /\ events' = [events EXCEPT ![x] = Append(@, e)] /\ In(id)' = In(id)
        /\ used' = [used EXCEPT ![x] = @ \cup {i}] /\ used \in [Displays -> SUBSET Ids]
    BY <1>6, <2>0 DEF Tells, In, Tracking, WindowTypeOK
  <2>2. CASE d # x
    <3>1. events'[d] = events[d] /\ shown'[d] = shown[d] /\ used'[d] = used[d]
      BY <1>6, <2>1, <2>2, Appended DEF Tells
    <3>. QED BY <1>5, <2>1, <3>1
  <2>3. CASE d = x
    <3>0. Len(events[d]) \in Nat /\ events' = [events EXCEPT ![d] = Append(@, e)]
      BY <2>0, <2>1, <2>3, Appended
    <3>1. PICK l \in Nat :
             /\ l = Len(events[d]) /\ Len(events'[d]) = l + 1
             /\ DOMAIN events[d] = 1..l /\ DOMAIN events'[d] = 1..l + 1
             /\ \A m \in 1..l : events'[d][m] = events[d][m]
             /\ events'[d][l + 1] = e
      BY <3>0, Appended
    <3>2. /\ Present(d, id)' <=> IF id = i THEN k # "destroy" ELSE Present(d, id)
          /\ id = i => (Present(d, id) <=> k # "create")
          /\ Present(d, id)' /\ ~(id = i /\ k = "create") => shown'[d][id].opener = shown[d][id].opener
      BY <1>6, <2>3 DEF Tells, Present
    <3>3. \A o : e = Event(o, id) <=> k = o /\ i = id
      BY <2>0 DEF Event
    <3>4. \A o : Waiting(d, o, id)' <=> Waiting(d, o, id) \/ (k = o /\ i = id)
      <4>1. ASSUME NEW o, Waiting(d, o, id)' PROVE Waiting(d, o, id) \/ (k = o /\ i = id)
        <5>1. PICK n \in 1..l + 1 : events'[d][n] = Event(o, id)
          BY <3>1, <4>1 DEF Waiting, Event
        <5>2. CASE n = l + 1
          BY <3>1, <3>3, <5>1, <5>2
        <5>3. CASE n # l + 1
          <6>1. n \in 1..l
            BY <5>3
          <6>. QED BY <3>1, <5>1, <6>1 DEF Waiting
        <5>. QED BY <5>2, <5>3
      <4>2. ASSUME NEW o, Waiting(d, o, id) \/ (k = o /\ i = id) PROVE Waiting(d, o, id)'
        <5>1. l + 1 \in DOMAIN events'[d] /\ \A n \in DOMAIN events[d] : n \in DOMAIN events'[d]
          BY <3>1
        <5>2. CASE k = o /\ i = id
          BY <3>1, <3>3, <5>1, <5>2 DEF Waiting, Event
        <5>3. CASE Waiting(d, o, id)
          BY <3>1, <5>1, <5>3 DEF Waiting, Event
        <5>. QED BY <4>2, <5>2, <5>3
      <4>. QED BY <4>1, <4>2
    <3>5. \A n \in 1..l : Between(d, 0, n, "destroy", id) => Between(d, 0, n, "destroy", id)'
      <4>1. \A n, m \in Nat : Between(d, n, m, "destroy", id) => Between(d, n, m, "destroy", id)'
        BY <3>0, BetweenStays
      <4>2. 0 \in Nat /\ \A n \in 1..l : n \in Nat
        BY <3>1
      <4>. QED BY <4>1, <4>2
    <3>6. Waiting(d, "destroy", id) => Between(d, 0, l + 1, "destroy", id)'
      BY <3>1 DEF Waiting, Between, Event
    <3>7. CASE id \in used[d]
      <4>1. Tracked1(d, id)
        BY <1>3, <3>7
      <4>2. ASSUME In(id) # {}, NEW n \in 1..l + 1, events'[d][n] = Event("create", id)
            PROVE  Between(d, 0, n, "destroy", id)'
        <5>1. CASE n = l + 1
          <6>1. k = "create" /\ i = id
            BY <3>1, <3>3, <4>2, <5>1
          <6>2. Waiting(d, "destroy", id)
            BY <3>2, <4>1, <4>2, <6>1 DEF Tracked1
          <6>. QED BY <3>6, <5>1, <6>2
        <5>2. CASE n # l + 1
          <6>1. n \in 1..l
            BY <5>2
          <6>. QED BY <3>1, <3>5, <4>1, <4>2, <6>1 DEF Tracked1
        <5>. QED BY <5>1, <5>2
      <4>3. In(id) # {} => Present(d, id)' \/ Waiting(d, "destroy", id)'
        BY <3>2, <3>4, <4>1 DEF Tracked1
      <4>4. /\ Present(d, id)' /\ ~Waiting(d, "create", id)' /\ shown'[d][id].opener # External
            => In(id) # {}
        BY <3>2, <3>4, <4>1 DEF Tracked1
      <4>. QED BY <2>1, <3>1, <4>2, <4>3, <4>4 DEF Tracked1, Event
    <3>8. CASE id \notin used[d]
      <4>1. i = id /\ k = "create"
        <5>1. i = id
          BY <1>1, <2>1, <2>3, <3>8
        <5>2. Present(d, id) => id \in used[d]
          BY DEF WindowTypeOK, Present
        <5>. QED BY <3>2, <3>8, <5>1, <5>2
      <4>2. In(id) = {}
        <5>1. ASSUME NEW u \in In(id) PROVE FALSE
          <6>1. PICK y \in Displays : id \in used[y]
            BY <5>1 DEF TrackInv, IdsAreUsed, In, Tracking
          <6>2. id \in used'[y] /\ y # d
            BY <3>8, <6>1, OnlyGrows
          <6>. QED BY <1>1, <6>2 DEF Collides
        <5>. QED BY <5>1
      <4>3. Waiting(d, "create", id)'
        BY <3>4, <4>1
      <4>. QED BY <2>1, <4>2, <4>3 DEF Tracked1
    <3>. QED BY <3>7, <3>8
  <2>. QED BY <2>2, <2>3
<1>7. ASSUME NEW x \in Displays, Handles(x) PROVE Tracked1(d, id)'
  <2>1. PICK h \in EventType :
              /\ h = events[x][1] /\ 1 \in DOMAIN events[x] /\ h.id \in Ids
              /\ \/ h = Event("create", h.id) /\ HandleCreate(h.id)
                 \/ h = Event("configure", h.id) /\ HandleConfigure(x, h.id)
                 \/ h = Event("destroy", h.id) /\ HandleDestroy(x, h.id)
              /\ UNCHANGED <<used, shown, where, doubtful>>
    BY <1>7, Handled
  <2>2. id \in used[d] /\ h.id \in used[x] /\ Tracked1(d, id)
    BY <1>1, <1>3, <2>1 DEF TrackInv, IdsAreUsed
  <2>3. id # h.id => In(id)' = In(id)
    <3>1. CASE HandleCreate(h.id)
      <4>1. \A i \in Ids \ {h.id} : In(i)' = In(i)
        BY <2>1, <3>1, CreateTracks
      <4>. QED BY <1>2, <4>1
    <3>2. CASE HandleConfigure(x, h.id)
      <4>1. \A i \in Ids : In(i)' = In(i)
        BY <2>1, <3>2, ConfigureTracks
      <4>. QED BY <1>2, <4>1
    <3>3. CASE HandleDestroy(x, h.id)
      <4>1. \A i \in Ids \ {h.id} : In(i)' = In(i)
        BY <2>1, <3>3, DestroyTracks
      <4>. QED BY <1>2, <4>1
    <3>. QED BY <2>1, <3>1, <3>2, <3>3
  <2>4. CASE d # x
    <3>1. id # h.id
      BY <1>2, <2>2, <2>4 DEF Collides
    <3>2. events'[d] = events[d] /\ shown'[d] = shown[d] /\ used'[d] = used[d]
      BY <1>7, <2>1, <2>4, Taken
    <3>. QED BY <1>5, <2>3, <3>1, <3>2
  <2>5. CASE d = x
    <3>0. Handles(d) /\ Len(events[d]) \in Nat
      BY <1>7, <2>5, Taken
    <3>1. PICK l \in Nat :
             /\ l = Len(events[d]) /\ Len(events'[d]) = l - 1 /\ 1 <= l
             /\ DOMAIN events[d] = 1..l /\ DOMAIN events'[d] = 1..l - 1
             /\ \A m \in 1..l - 1 : events'[d][m] = events[d][m + 1]
      BY <3>0, Taken
    <3>2. events[d][1] = h
      BY <2>1, <2>5
    <3>3. Present(d, id)' = Present(d, id) /\ shown'[d] = shown[d]
      BY <2>1 DEF Present
    <3>4. \A o : Waiting(d, o, id)' => Waiting(d, o, id)
      <4>1. ASSUME NEW o, Waiting(d, o, id)' PROVE Waiting(d, o, id)
        <5>1. PICK n \in 1..l - 1 : events'[d][n] = Event(o, id)
          BY <3>1, <4>1 DEF Waiting, Event
        <5>2. PICK m \in 1..l : m = n + 1
          BY <3>1
        <5>. QED BY <3>1, <5>1, <5>2 DEF Waiting
      <4>. QED BY <4>1
    <3>5. \A o : Waiting(d, o, id) /\ h # Event(o, id) => Waiting(d, o, id)'
      <4>1. ASSUME NEW o, Waiting(d, o, id), h # Event(o, id) PROVE Waiting(d, o, id)'
        <5>1. PICK n \in 1..l : events[d][n] = Event(o, id)
          BY <3>1, <4>1 DEF Waiting
        <5>2. n # 1
          BY <3>2, <4>1, <5>1
        <5>3. PICK m \in 1..l - 1 : n = m + 1
          BY <5>2
        <5>. QED BY <3>1, <5>1, <5>3 DEF Waiting, Event
      <4>. QED BY <4>1
    \* What came between two events comes before the later one now.
    <3>6. \A n \in 1..l : \A o : Between(d, 1, n, o, id) => Between(d, 0, n - 1, o, id)'
      <4>1. ASSUME NEW n \in 1..l, NEW o, Between(d, 1, n, o, id) PROVE Between(d, 0, n - 1, o, id)'
        <5>1. \A k, m \in Nat : Between(d, k + 1, m, o, id) => Between(d, k, m - 1, o, id)'
          BY <3>0, BetweenStays
        <5>2. 0 \in Nat /\ n \in Nat /\ 0 + 1 = 1
          BY <3>1
        <5>. QED BY <4>1, <5>1, <5>2
      <4>. QED BY <4>1
    <3>7. CASE h # Event("create", id) /\ h # Event("destroy", id)
      <4>1. In(id)' = In(id)
        <5>1. id = h.id => HandleConfigure(x, h.id)
          BY <2>1, <3>7
        <5>2. CASE id = h.id
          BY <2>1, <5>1, <5>2, ConfigureTracks
        <5>. QED BY <2>3, <5>2
      <4>2. ASSUME In(id) # {}, NEW n \in 1..l - 1, events'[d][n] = Event("create", id)
            PROVE  Between(d, 0, n, "destroy", id)'
        <5>1. PICK m \in 1..l : m = n + 1 /\ m - 1 = n
          BY <3>1
        <5>2. events[d][m] = Event("create", id)
          BY <3>1, <4>2, <5>1
        <5>3. Between(d, 0, m, "destroy", id)
          BY <2>2, <3>1, <4>2, <5>2 DEF Tracked1
        <5>4. Between(d, 1, m, "destroy", id)
          BY <3>1, <3>2, <3>7, <5>3 DEF Between
        <5>. QED BY <3>6, <5>1, <5>4
      <4>3. In(id) # {} => Present(d, id)' \/ Waiting(d, "destroy", id)'
        BY <2>2, <3>3, <3>5, <3>7 DEF Tracked1
      <4>4. Present(d, id)' /\ ~Waiting(d, "create", id)' /\ shown'[d][id].opener # External
            => In(id) # {}
        BY <2>2, <3>3, <3>5, <3>7 DEF Tracked1
      <4>. QED BY <3>1, <4>1, <4>2, <4>3, <4>4 DEF Tracked1, Event
    <3>8. CASE h = Event("create", id)
      <4>0. h.id = id /\ HandleCreate(id)
        BY <2>1, <3>8 DEF Event
      <4>1. In(id)' # {}
        BY <1>2, <4>0, CreateTracks
      <4>2. /\ \A m \in 1..l : 1 < m /\ events[d][m] = Event("create", id)
                  => Between(d, 1, m, "destroy", id)
            /\ ~Present(d, id) => Between(d, 1, l + 1, "destroy", id)
        <5>1. "create" \in {"create", "destroy"} /\ Opposite("create") = "destroy"
          BY DEF Opposite
        <5>2. 1 \in DOMAIN events[d] /\ events[d][1] = Event("create", id)
          BY <3>1, <3>2, <3>8
        <5>. QED BY <1>2, <3>1, <5>1, <5>2 DEF TrackInv, TakeTurns
      <4>3. ASSUME NEW n \in 1..l - 1, events'[d][n] = Event("create", id)
            PROVE  Between(d, 0, n, "destroy", id)'
        <5>1. PICK m \in 1..l : m = n + 1 /\ m - 1 = n
          BY <3>1
        <5>2. Between(d, 1, m, "destroy", id)
          BY <3>1, <4>2, <4>3, <5>1
        <5>. QED BY <3>6, <5>1, <5>2
      <4>4. Present(d, id)' \/ Waiting(d, "destroy", id)'
        <5>1. Between(d, 1, l + 1, "destroy", id) => Waiting(d, "destroy", id)
          BY DEF Between, Waiting
        <5>2. h # Event("destroy", id)
          BY <3>8 DEF Event
        <5>. QED BY <3>3, <3>5, <4>2, <5>1, <5>2
      <4>. QED BY <3>1, <4>1, <4>3, <4>4 DEF Tracked1, Event
    <3>9. CASE h = Event("destroy", id)
      <4>0. h.id = id /\ HandleDestroy(x, id)
        BY <2>1, <3>9 DEF Event
      <4>1. In(id)' = {}
        <5>1. In(id)' = In(id) \ {Least(Tracking(id))}
          BY <1>2, <4>0, DestroyTracks
        <5>2. \A u \in In(id) : \A v \in Tracking(id) : u <= v
          BY <1>2 DEF TrackInv, FoundFirst
        <5>3. ASSUME NEW u \in In(id) PROVE u = Least(Tracking(id))
          <6>1. u \in Tracking(id) /\ u \in Nat
            BY EntryOfWindow DEF In
          <6>2. /\ Least(Tracking(id)) \in Tracking(id) /\ Least(Tracking(id)) <= u
                /\ Least(Tracking(id)) \in Nat
            BY <6>1, EntryOfWindow
          <6>. QED BY <5>2, <6>1, <6>2
        <5>. QED BY <5>1, <5>3
      <4>2. Present(d, id) => Waiting(d, "create", id)'
        <5>1. "destroy" \in {"create", "destroy"} /\ Opposite("destroy") = "create"
          BY DEF Opposite
        <5>2. 1 \in DOMAIN events[d] /\ events[d][1] = Event("destroy", id)
          BY <3>1, <3>2, <3>9
        <5>3. Present(d, id) => Between(d, 1, l + 1, "create", id)
          BY <1>2, <3>1, <5>1, <5>2 DEF TrackInv, TakeTurns
        <5>4. Between(d, 1, l + 1, "create", id) => Waiting(d, "create", id)
          BY DEF Between, Waiting
        <5>5. h # Event("create", id)
          BY <3>9 DEF Event
        <5>. QED BY <3>5, <5>3, <5>4, <5>5
      <4>. QED BY <3>3, <4>1, <4>2 DEF Tracked1
    <3>. QED BY <3>7, <3>8, <3>9
  <2>. QED BY <2>4, <2>5
<1>. QED BY <1>4, <1>6, <1>7, StepKinds

LEMMA InitTracked == Init => TrackInv
<1>. SUFFICES ASSUME Init PROVE TrackInv
  OBVIOUS
<1>1. PICK w \in Workloads : Initially(w.old)
  BY DEF Init
<1>2. PICK old \in [Displays -> Seq(Ids)] : old = w.old
  BY DEF WorkloadAssumption
<1>3. Initially(old)
  BY <1>1, <1>2
<1>4. tracked = <<>> /\ \A id : In(id) = {} /\ Tracking(id) = {}
  <2>1. tracked = <<>> /\ DOMAIN tracked = {}
    BY DEF Init
  <2>. QED BY <2>1 DEF In, Tracking
<1>5. /\ \A d \in Displays : used[d] = {old[d][n] : n \in DOMAIN old[d]}
      /\ \A d \in Displays : preread[d] => old[d] # <<>>
      /\ \A d \in Displays : events[d] = IF preread[d]
                                        THEN <<Event("create", old[d][Len(old[d])])>> ELSE <<>>
      /\ \A c \in Children : listed[c] =
            IF c - CommandCount \in Repatriating
            THEN [n \in DOMAIN old[c - CommandCount] |->
                     Entry(c - CommandCount, old[c - CommandCount][n])]
            ELSE <<>>
  BY <1>3 DEF Initially
<1>6. /\ \A d \in Displays : DOMAIN shown[d] = used[d]
      /\ \A d \in Displays : \A id \in used[d] : shown[d][id].opener = External
  BY DEF Init, Window
\* What waits is one CreateNotify at most, of a window that is there.
<1>7. ASSUME NEW d \in Displays, NEW n \in DOMAIN events[d]
      PROVE  /\ n = 1 /\ events[d][n].id \in used[d]
             /\ events[d][n] = Event("create", events[d][n].id)
  <2>1. events[d] = <<Event("create", old[d][Len(old[d])])>> /\ preread[d]
    <3>1. preread[d]
      <4>1. SUFFICES ASSUME ~preread[d] PROVE FALSE
        OBVIOUS
      <4>2. events[d] = <<>>
        BY <1>5, <4>1
      <4>. QED BY <1>7, <4>2
    <3>. QED BY <1>5, <3>1
  <2>2. n = 1 /\ events[d][n] = Event("create", old[d][Len(old[d])])
    BY <1>7, <2>1
  <2>3. old[d] \in Seq(Ids) /\ old[d] # <<>>
    BY <1>5, <2>1
  <2>4. Len(old[d]) \in DOMAIN old[d]
    BY <2>3
  <2>. QED BY <1>5, <2>2, <2>4 DEF Event
<1>8. IdsAreUsed
  <2>1. ASSUME NEW c \in Children, NEW e \in Entries(c) PROVE e.id \in used[e.on]
    <3>1. c - CommandCount \in Repatriating /\ Repatriating \subseteq Displays
      <4>1. SUFFICES ASSUME c - CommandCount \notin Repatriating PROVE FALSE
        BY DEF WorkloadAssumption
      <4>2. listed[c] = <<>>
        BY <1>5, <4>1
      <4>. QED BY <2>1, <4>2 DEF Entries
    <3>2. PICK d \in Displays : d = c - CommandCount
      BY <3>1
    <3>3. listed[c] = [n \in DOMAIN old[d] |-> Entry(d, old[d][n])]
      BY <1>5, <3>1, <3>2
    <3>4. PICK n \in DOMAIN old[d] : e = Entry(d, old[d][n])
      BY <2>1, <3>3 DEF Entries
    <3>. QED BY <1>5, <3>4 DEF Entry
  <2>. QED BY <1>4, <1>7, <2>1 DEF IdsAreUsed
<1>9. TakeTurns
  <2>1. SUFFICES ASSUME NEW d \in Displays, NEW id \in Ids, NEW kind \in {"create", "destroy"},
                        NEW n \in DOMAIN events[d], events[d][n] = Event(kind, id)
                 PROVE  /\ \A m \in DOMAIN events[d] : ~(n < m)
                        /\ ~(kind = "destroy" <=> Present(d, id))
    BY DEF TakeTurns
  <2>2. kind = "create" /\ id \in used[d]
    <3>1. events[d][n] = Event("create", events[d][n].id) /\ events[d][n].id \in used[d]
      BY <1>7
    <3>2. events[d][n].id = id
      BY <2>1 DEF Event
    <3>. QED BY <2>1, <3>1, <3>2 DEF Event
  <2>3. n = 1 /\ \A m \in DOMAIN events[d] : m = 1
    BY <1>7
  <2>. QED BY <1>6, <2>2, <2>3 DEF Present
<1>. QED BY <1>4, <1>6, <1>8, <1>9 DEF TrackInv, FoundFirst, TrackedInTurn

LEMMA TrackInvStays == WindowTypeOK /\ TrackInv /\ [Next]_vars => TrackInv'
<1>. SUFFICES ASSUME WindowTypeOK, TrackInv, [Next]_vars PROVE TrackInv'
  OBVIOUS
<1>1. IdsAreUsed /\ TakeTurns
  BY DEF TrackInv
<1>. QED BY <1>1, IdsStayUsed, TurnsStay, FoundFirstStays, TrackedInTurnStays DEF TrackInv

LEMMA TrackInvCorrect == Spec => []TrackInv
BY InitTracked, TrackInvStays, TypeCorrect, PTL DEF Spec

LEMMA FoundIfTracked == WindowTypeOK /\ TrackInv => TrackedIsFound
<1>. SUFFICES ASSUME WindowTypeOK, TrackInv, NEW d \in Displays, NEW id \in used[d], ~Collides(id)
              PROVE  /\ In(id) # {} => /\ In(id) = {Least(Tracking(id))}
                                       /\ Present(d, id) \/ Waiting(d, "destroy", id)
                     /\ Present(d, id) /\ ~Waiting(d, "create", id)
                           /\ shown[d][id].opener # External => In(id) # {}
  BY DEF TrackedIsFound, In
<1>1. id \in Ids
  BY DEF WindowTypeOK
<1>2. \A u \in In(id) : \A v \in Tracking(id) : u <= v
  BY <1>1 DEF TrackInv, FoundFirst
<1>3. ASSUME NEW u \in In(id) PROVE u = Least(Tracking(id))
  <2>1. u \in Tracking(id) /\ u \in Nat
    BY EntryOfWindow DEF In
  <2>2. /\ Least(Tracking(id)) \in Tracking(id) /\ Least(Tracking(id)) <= u
        /\ Least(Tracking(id)) \in Nat
    BY <2>1, EntryOfWindow
  <2>. QED BY <1>2, <2>1, <2>2
<1>4. In(id) # {} => In(id) = {Least(Tracking(id))}
  BY <1>3
<1>. QED BY <1>4 DEF TrackInv, TrackedInTurn

\* The windows that are tracked are open, or their DestroyNotify is on its way, each by the
\* one entry that event looks at, although entries keep the ids of former windows; and an
\* open window that a child opened is tracked once its CreateNotify was handled.
THEOREM TrackingCorrect == Spec => []TrackedIsFound
BY TypeCorrect, TrackInvCorrect, FoundIfTracked, PTL

-----------------------------------------------------------------------------
(* Windows and the children that list them *)

\* A child lists windows that are tracked, and those of its display.
ListedIsTracked ==
    /\ \A c \in Repatriated : where[c] = c - CommandCount
    /\ \A c \in Children : \A e \in Entries(c) :
          Certain(e) => where[c] = e.on /\ Active(e.id) # {}

\* ListedOnce, the repatriated windows included.
ListedApart ==
    \A c, x \in Children : \A n \in DOMAIN listed[c], m \in DOMAIN listed[x] :
        listed[c][n] = listed[x][m] /\ Certain(listed[c][n]) => c = x /\ n = m

ListInv == ListedIsTracked /\ ListedApart /\ PidDecides

\* Where an entry was before the n-th of c was taken out.
Before(x, m, c, n) == IF x = c /\ ~(m < n) THEN m + 1 ELSE m

LEMMA TakenOut ==
    ASSUME WindowTypeOK, NEW c \in Children, NEW n \in DOMAIN listed[c],
           listed'[c] = RemoveAt(listed[c], n),
           \A x \in Children \ {c} : listed'[x] = listed[x]
    PROVE  \A x \in Children : \A m \in DOMAIN listed'[x] :
              /\ Before(x, m, c, n) \in DOMAIN listed[x] /\ m \in Nat /\ n \in Nat
              /\ listed'[x][m] = listed[x][Before(x, m, c, n)]
              /\ ~(x = c /\ Before(x, m, c, n) = n)
<1>1. \A x \in Children : listed[x] \in Seq(EntryType)
  BY DEF WindowTypeOK, EntryType
<1>2. /\ DOMAIN listed'[c] = 1..Len(listed[c]) - 1
      /\ \A m \in DOMAIN listed'[c] : listed'[c][m] = listed[c][IF m < n THEN m ELSE m + 1]
  BY <1>1, RemoveAtShifts
<1>3. Len(listed[c]) \in Nat /\ DOMAIN listed[c] = 1..Len(listed[c]) /\ n \in Nat
  BY <1>1
<1>4. ASSUME NEW m \in DOMAIN listed'[c]
      PROVE  /\ Before(c, m, c, n) \in DOMAIN listed[c] /\ m \in Nat
             /\ listed'[c][m] = listed[c][Before(c, m, c, n)]
             /\ Before(c, m, c, n) # n
  BY <1>2, <1>3 DEF Before
<1>5. ASSUME NEW x \in Children \ {c}, NEW m \in DOMAIN listed'[x]
      PROVE  /\ Before(x, m, c, n) \in DOMAIN listed[x] /\ m \in Nat
             /\ listed'[x][m] = listed[x][Before(x, m, c, n)]
  BY <1>1 DEF Before
<1>. QED BY <1>3, <1>4, <1>5

\* The child that a window is listed for.
LEMMA MatchIsThere ==
    ASSUME ListedIsTracked, NEW d \in Displays, NEW window \in WindowType,
           NEW c \in Matches(d, window) \ {Nobody}
    PROVE  /\ c \in Children /\ where[c] = d
           /\ c \in Startable => IF window.pid = "none" THEN c \in Users ELSE window.opener = c
<1>1. RepatriatedOn(d) \in Repatriated /\ where[RepatriatedOn(d)] = d /\ RepatriatedOn(d) \notin Startable
  <2>1. RepatriatedOn(d) \in Repatriated /\ RepatriatedOn(d) - CommandCount = d
    BY ChildSets
  <2>2. Repatriated \cap Startable = {}
    BY ChildSets
  <2>. QED BY <2>1, <2>2 DEF ListedIsTracked
<1>2. CASE window.pid = "none"
  <2>1. c \in Heuristic(d) \ {Nobody}
    BY <1>2 DEF Matches
  <2>2. c \in Users /\ where[c] = d
    BY <2>1 DEF Heuristic, Runs
  <2>. QED BY <1>2, <2>2, ChildSets
<1>3. CASE window.pid # "none"
  <2>1. window.pid \in {"own", "helper", "orphan", "gone"}
    BY <1>3 DEF WindowType
  <2>2. c = RepatriatedOn(d) \/ (c = window.opener /\ c \in Startable /\ where[c] = d)
    BY <1>3, <2>1 DEF Matches, Climb, Vanished, Runs
  <2>. QED BY <1>1, <1>3, <2>2, ChildSets
<1>. QED BY <1>2, <1>3

\* A window is listed behind the others of its child, as the only one that is not certain
\* to be listed already.
LEMMA ConfigureLists ==
    ASSUME WindowTypeOK, TrackInv, ListInv, NEW d \in Displays, NEW id \in Ids,
           HandleConfigure(d, id), listed' # listed
    PROVE  \E c \in Children :
              /\ where[c] = d /\ Active(id)' # {} /\ Present(d, id)
              /\ c \in Startable => IF shown[d][id].pid = "none" THEN c \in Users
                                    ELSE shown[d][id].opener = c
              /\ \E n \in Nat :
                    /\ DOMAIN listed[c] = 1..n /\ DOMAIN listed'[c] = 1..n + 1
                    /\ listed'[c][n + 1] = Entry(d, id)
                    /\ \A m \in 1..n : listed'[c][m] = listed[c][m]
              /\ \A x \in Children \ {c} : listed'[x] = listed[x]
              /\ ~Collides(id) => \A x \in Children : \A e \in Entries(x) : ~(e.id = id /\ Certain(e))
<1>1. /\ Present(d, id) /\ In(id) \ Active(id) # {} /\ Active(id)' # {}
      /\ \E c \in Matches(d, shown[d][id]) \ {Nobody} :
            listed' = [listed EXCEPT ![c] = Append(@, Entry(d, id))]
  BY ConfigureTracks
<1>2. PICK c \in Matches(d, shown[d][id]) \ {Nobody} :
         listed' = [listed EXCEPT ![c] = Append(@, Entry(d, id))]
  BY <1>1
<1>3. shown[d][id] \in WindowType
  BY <1>1 DEF WindowTypeOK, Present
<1>4. /\ c \in Children /\ where[c] = d
      /\ c \in Startable => IF shown[d][id].pid = "none" THEN c \in Users
                            ELSE shown[d][id].opener = c
  BY <1>3, MatchIsThere DEF ListInv
<1>5. PICK e \in EntryType : e = Entry(d, id)
  BY DEF Entry, EntryType
<1>6. listed \in [Children -> Seq(EntryType)]
  BY DEF WindowTypeOK, EntryType
<1>7. listed'[c] = Append(listed[c], e) /\ \A x \in Children \ {c} : listed'[x] = listed[x]
  BY <1>2, <1>4, <1>5, <1>6
<1>8. \E n \in Nat : /\ DOMAIN listed[c] = 1..n /\ DOMAIN listed'[c] = 1..n + 1
                     /\ listed'[c][n + 1] = e
                     /\ \A m \in 1..n : listed'[c][m] = listed[c][m]
  <2>1. listed[c] \in Seq(EntryType)
    BY <1>4, <1>6
  <2>2. PICK n \in Nat : n = Len(listed[c])
    BY <2>1
  <2>3. /\ DOMAIN listed[c] = 1..n /\ DOMAIN listed'[c] = 1..n + 1
        /\ listed'[c][n + 1] = e
        /\ \A m \in 1..n : listed'[c][m] = listed[c][m]
    BY <1>7, <2>1, <2>2
  <2>. QED BY <2>3
<1>9. ASSUME ~Collides(id), NEW x \in Children, NEW y \in Entries(x), y.id = id, Certain(y)
      PROVE  FALSE
  <2>1. Active(id) # {}
    BY <1>9 DEF ListInv, ListedIsTracked
  <2>2. PICK u \in In(id) \ Active(id), v \in Active(id) : TRUE
    BY <1>1, <2>1
  <2>3. v \in In(id) /\ u \in Tracking(id) /\ v \in Tracking(id)
    BY DEF Active, In
  <2>4. u \in Nat /\ v \in Nat
    BY <2>3, EntryOfWindow
  <2>5. u <= v /\ v <= u
    BY <1>9, <2>2, <2>3 DEF TrackInv, FoundFirst
  <2>. QED BY <2>2, <2>4, <2>5
<1>. QED BY <1>1, <1>4, <1>5, <1>7, <1>8, <1>9

\* The entry of a window that is gone is found and taken out.
LEMMA DestroyDiscards ==
    ASSUME WindowTypeOK, TrackInv, ListInv, NEW d \in Displays, NEW id \in used[d],
           HandleDestroy(d, id), NEW c \in Children, NEW e \in Entries(c)', Certain(e)
    PROVE  e \in Entries(c) /\ e.id # id
<1>0. listed \in [Children -> Seq(EntryType)] /\ id \in Ids
  BY DEF WindowTypeOK, EntryType
<1>1. listed' = IF Tracking(id) # {} /\ Least(Tracking(id)) \in Active(id)
                THEN Discarded(d, id) ELSE listed
  BY <1>0, DestroyTracks
<1>2. \A x \in Children : \A n \in DOMAIN listed[x] :
         /\ listed[x][n] \in Entries(x) /\ listed[x][n] \in EntryType
         /\ listed[x][n].id \in used[listed[x][n].on]
  BY <1>0 DEF Entries, TrackInv, IdsAreUsed
\* Certain entries with that id are of that display.
<1>3. \A x \in Children : \A n \in DOMAIN listed[x] :
         ~Collides(id) /\ listed[x][n].id = id => listed[x][n] = Entry(d, id)
  <2>1. ASSUME NEW x \in Children, NEW n \in DOMAIN listed[x], ~Collides(id), listed[x][n].id = id
        PROVE  listed[x][n] = Entry(d, id)
    <3>1. listed[x][n] \in EntryType /\ id \in used[listed[x][n].on]
      BY <1>2, <2>1
    <3>2. listed[x][n].on = d
      BY <2>1, <3>1 DEF Collides, EntryType
    <3>. QED BY <2>1, <3>1, <3>2 DEF EntryType, Entry
  <2>. QED BY <2>1
\* If one is listed, it is the active one that is tracked, and it is found.
<1>4. ASSUME NEW n \in DOMAIN listed[c], listed[c][n] = e, e.id = id
      PROVE  \E x \in Children : \E m \in DOMAIN listed[x] :
                /\ listed[x][m] = e
                /\ listed'[x] = RemoveAt(listed[x], m)
                /\ \A y \in Children \ {x} : listed'[y] = listed[y]
  <2>1. e \in Entries(c) /\ ~Collides(id)
    BY <1>2, <1>4 DEF Certain
  <2>2. where[c] = e.on /\ Active(id) # {}
    BY <1>4, <2>1 DEF ListInv, ListedIsTracked
  <2>3. e = Entry(d, id) /\ e.on = d
    BY <1>3, <1>4, <2>1 DEF Entry
  <2>4. Tracking(id) # {} /\ Least(Tracking(id)) \in Active(id)
    <3>1. PICK u \in Active(id) : TRUE
      BY <2>2
    <3>2. u \in In(id) /\ u \in Tracking(id) /\ u \in Nat
      BY EntryOfWindow DEF Active, In
    <3>3. /\ Least(Tracking(id)) \in Tracking(id) /\ Least(Tracking(id)) <= u
          /\ Least(Tracking(id)) \in Nat
      BY <3>2, EntryOfWindow
    <3>4. u <= Least(Tracking(id))
      BY <1>0, <2>1, <3>2, <3>3 DEF TrackInv, FoundFirst
    <3>. QED BY <3>2, <3>3, <3>4
  <2>5. listed' = Discarded(d, id)
    BY <1>1, <2>4
  <2>6. Listing(d, id) # {}
    <3>1. n \in Positions(c, id)
      BY <1>4 DEF Positions
    <3>. QED BY <2>2, <2>3, <3>1 DEF Listing
  <2>7. \/ Listing(d, id) = {} /\ Discarded(d, id) = listed
        \/ \E x \in Children : \E m \in DOMAIN listed[x] :
              /\ where[x] = d /\ listed[x][m].id = id
              /\ Discarded(d, id) = [listed EXCEPT ![x] = RemoveAt(@, m)]
    BY <1>0, DiscardedEntry
  <2>8. PICK x \in Children : \E m \in DOMAIN listed[x] :
              /\ where[x] = d /\ listed[x][m].id = id
              /\ Discarded(d, id) = [listed EXCEPT ![x] = RemoveAt(@, m)]
    BY <2>6, <2>7, Zenon
  <2>9. PICK m \in DOMAIN listed[x] :
              /\ where[x] = d /\ listed[x][m].id = id
              /\ Discarded(d, id) = [listed EXCEPT ![x] = RemoveAt(@, m)]
    BY <2>8, Zenon
  <2>10. listed'[x] = RemoveAt(listed[x], m) /\ \A y \in Children \ {x} : listed'[y] = listed[y]
    BY <1>0, <2>5, <2>9
  <2>11. listed[x][m] = e
    BY <1>3, <2>1, <2>3, <2>9
  <2>. QED BY <2>10, <2>11
<1>5. e \in Entries(c)
  <2>1. \A x \in Children : \A y \in Entries(x)' : y \in Entries(x) \/ y = Entry(d, id)
    BY <1>0, ListedBefore
  <2>2. CASE listed' = listed
    BY <2>2 DEF Entries
  <2>3. CASE listed' # listed
    <3>1. \/ Discarded(d, id) = listed
          \/ \E x \in Children : \E m \in DOMAIN listed[x] :
                Discarded(d, id) = [listed EXCEPT ![x] = RemoveAt(@, m)]
      BY <1>0, DiscardedEntry
    <3>2. listed' = Discarded(d, id)
      BY <1>1, <2>3
    <3>3. PICK x \in Children : \E m \in DOMAIN listed[x] :
                Discarded(d, id) = [listed EXCEPT ![x] = RemoveAt(@, m)]
      BY <2>3, <3>1, <3>2, Zenon
    <3>4. PICK m \in DOMAIN listed[x] : Discarded(d, id) = [listed EXCEPT ![x] = RemoveAt(@, m)]
      BY <3>3, Zenon
    <3>5. listed'[x] = RemoveAt(listed[x], m) /\ \A y \in Children \ {x} : listed'[y] = listed[y]
      BY <1>0, <3>2, <3>4
    <3>6. PICK k \in DOMAIN listed'[c] : listed'[c][k] = e
      BY DEF Entries
    <3>7. Before(c, k, x, m) \in DOMAIN listed[c] /\ listed'[c][k] = listed[c][Before(c, k, x, m)]
      BY <3>5, TakenOut
    <3>. QED BY <3>6, <3>7 DEF Entries
  <2>. QED BY <2>2, <2>3
<1>6. ASSUME e.id = id PROVE FALSE
  <2>1. PICK n \in DOMAIN listed[c] : listed[c][n] = e
    BY <1>5 DEF Entries
  <2>2. PICK x \in Children : \E m \in DOMAIN listed[x] :
                /\ listed[x][m] = e
                /\ listed'[x] = RemoveAt(listed[x], m)
                /\ \A y \in Children \ {x} : listed'[y] = listed[y]
    BY <1>4, <1>6, <2>1
  <2>3. PICK m \in DOMAIN listed[x] :
                /\ listed[x][m] = e
                /\ listed'[x] = RemoveAt(listed[x], m)
                /\ \A y \in Children \ {x} : listed'[y] = listed[y]
    BY <2>2
  <2>4. PICK k \in DOMAIN listed'[c] : listed'[c][k] = e
    BY DEF Entries
  <2>5. /\ Before(c, k, x, m) \in DOMAIN listed[c] /\ listed'[c][k] = listed[c][Before(c, k, x, m)]
        /\ ~(c = x /\ Before(c, k, x, m) = m)
    BY <2>3, TakenOut
  <2>. QED BY <2>3, <2>4, <2>5 DEF ListInv, ListedApart
<1>. QED BY <1>5, <1>6

\* What is certain afterwards was listed before an event was handled, for a window that is
\* not gone now; or it is the one that the event made certain.
LEMMA ListedByEvent ==
    ASSUME WindowTypeOK, TrackInv, ListInv, [Next]_vars, NEW d \in Displays, Handles(d),
           NEW c \in Children, NEW e \in Entries(c)', Certain(e)
    PROVE  \/ /\ e \in Entries(c) /\ Active(e.id)' # {}
              /\ Waiting(e.on, "destroy", e.id) => Waiting(e.on, "destroy", e.id)'
           \/ /\ where[c] = e.on /\ Active(e.id)' # {} /\ e.on \in Displays
              /\ c \in Startable => IF shown[e.on][e.id].pid = "none" THEN c \in Users
                                    ELSE shown[e.on][e.id].opener = c
<1>1. PICK h \in EventType :
              /\ h = events[d][1] /\ 1 \in DOMAIN events[d] /\ h.id \in Ids
              /\ \/ h = Event("create", h.id) /\ HandleCreate(h.id)
                 \/ h = Event("configure", h.id) /\ HandleConfigure(d, h.id)
                 \/ h = Event("destroy", h.id) /\ HandleDestroy(d, h.id)
              /\ UNCHANGED <<used, shown, where, doubtful>>
  BY Handled
<1>2. h.id \in used[d]
  BY <1>1 DEF TrackInv, IdsAreUsed
<1>3. listed' \in [Children -> Seq(EntryType)]
  BY NextType DEF WindowTypeOK, EntryType
<1>4. e \in EntryType
  <2>1. listed'[c] \in Seq(EntryType)
    BY <1>3
  <2>. QED BY <2>1 DEF Entries
<1>5. e.id \in Ids /\ e.on \in Displays
  BY <1>4 DEF EntryType
\* Only the event that is handled does not wait any more.
<1>6. Waiting(e.on, "destroy", e.id) /\ h # Event("destroy", e.id) => Waiting(e.on, "destroy", e.id)'
  <2>1. CASE e.on # d
    <3>1. events'[e.on] = events[e.on]
      BY <1>5, <2>1, Taken
    <3>. QED BY <3>1 DEF Waiting, Event
  <2>2. ASSUME e.on = d, Waiting(d, "destroy", e.id), h # Event("destroy", e.id)
        PROVE  Waiting(d, "destroy", e.id)'
    <3>0. Len(events[d]) \in Nat
      BY Taken
    <3>1. PICK l \in Nat :
             /\ l = Len(events[d]) /\ DOMAIN events[d] = 1..l /\ DOMAIN events'[d] = 1..l - 1
             /\ \A m \in 1..l - 1 : events'[d][m] = events[d][m + 1]
      BY <3>0, Taken
    <3>2. PICK n \in 1..l : events[d][n] = Event("destroy", e.id)
      BY <2>2, <3>1 DEF Waiting
    <3>3. n # 1
      BY <1>1, <2>2, <3>2
    <3>4. PICK m \in 1..l - 1 : n = m + 1
      BY <3>3
    <3>. QED BY <3>1, <3>2, <3>4 DEF Waiting, Event
  <2>. QED BY <2>1, <2>2
<1>7. e \in Entries(c) => Active(e.id) # {}
  BY DEF ListInv, ListedIsTracked
<1>8. CASE h = Event("create", h.id) /\ HandleCreate(h.id)
  <2>1. e \in Entries(c)
    BY <1>8 DEF HandleCreate, Entries
  <2>2. Active(e.id)' # {}
    <3>1. /\ Active(h.id)' = Active(h.id)
          /\ \A i \in Ids \ {h.id} : Active(i)' = Active(i)
      BY <1>1, <1>8, CreateTracks
    <3>. QED BY <1>5, <1>7, <2>1, <3>1
  <2>3. h # Event("destroy", e.id)
    BY <1>8 DEF Event
  <2>. QED BY <1>6, <2>1, <2>2, <2>3
<1>9. CASE h = Event("configure", h.id) /\ HandleConfigure(d, h.id)
  <2>1. h # Event("destroy", e.id)
    BY <1>9 DEF Event
  <2>2. CASE e \in Entries(c)
    <3>1. Active(e.id) \subseteq Active(e.id)'
      BY <1>1, <1>5, <1>9, ConfigureTracks
    <3>. QED BY <1>6, <1>7, <2>1, <2>2, <3>1
  <2>3. CASE e \notin Entries(c)
    <3>1. listed' # listed
      BY <2>3 DEF Entries
    <3>2. PICK x \in Children :
              /\ where[x] = d /\ Active(h.id)' # {}
              /\ x \in Startable => IF shown[d][h.id].pid = "none" THEN x \in Users
                                    ELSE shown[d][h.id].opener = x
              /\ \E n \in Nat :
                    /\ DOMAIN listed[x] = 1..n /\ DOMAIN listed'[x] = 1..n + 1
                    /\ listed'[x][n + 1] = Entry(d, h.id)
                    /\ \A m \in 1..n : listed'[x][m] = listed[x][m]
              /\ \A y \in Children \ {x} : listed'[y] = listed[y]
      BY <1>1, <1>9, <3>1, ConfigureLists
    <3>3. c = x
      BY <2>3, <3>2 DEF Entries
    <3>4. e = Entry(d, h.id)
      <4>1. \A y \in Children : \A z \in Entries(y)' : z \in Entries(y) \/ z = Entry(d, h.id)
        BY <1>1, <1>9, ListedBefore
      <4>. QED BY <2>3, <4>1
    <3>5. e.on = d /\ e.id = h.id
      BY <3>4 DEF Entry
    <3>. QED BY <3>2, <3>3, <3>5
  <2>. QED BY <2>2, <2>3
<1>10. CASE h = Event("destroy", h.id) /\ HandleDestroy(d, h.id)
  <2>1. e \in Entries(c) /\ e.id # h.id
    BY <1>2, <1>10, DestroyDiscards
  <2>2. Active(e.id)' = Active(e.id)
    <3>1. \A i \in Ids \ {h.id} : Active(i)' = Active(i)
      BY <1>1, <1>10, DestroyTracks
    <3>. QED BY <1>5, <2>1, <3>1
  <2>3. h # Event("destroy", e.id)
    BY <1>10, <2>1 DEF Event
  <2>. QED BY <1>6, <1>7, <2>1, <2>2, <2>3
<1>. QED BY <1>1, <1>8, <1>9, <1>10

LEMMA ListedIsTrackedStays ==
    ASSUME WindowTypeOK, TrackInv, ListInv, [Next]_vars
    PROVE  ListedIsTracked'
<1>1. \A c \in Repatriated : where'[c] = where[c]
  <2>1. \A c \in Repatriated : c \notin Startable /\ c \in Children
    BY ChildSets
  <2>2. CASE LeavesWindows
    BY <2>1, <2>2 DEF LeavesWindows, Assigned, WindowTypeOK
  <2>3. CASE where' = where
    BY <2>3
  <2>. QED BY <2>2, <2>3, StepKinds DEF Tells, Handles
<1>2. ASSUME NEW c \in Children, NEW e \in Entries(c)', Certain(e)'
      PROVE  where'[c] = e.on /\ Active(e.id)' # {}
  <2>0. Certain(e)
    BY <1>2, OnlyGrows
  <2>1. e \in Entries(c) => where[c] = e.on /\ Active(e.id) # {}
    BY <2>0 DEF ListInv, ListedIsTracked
  <2>2. CASE LeavesWindows
    <3>1. e \in Entries(c) /\ Active(e.id)' # {}
      BY <2>1, <2>2 DEF LeavesWindows, Entries, Active, Tracking
    <3>2. ASSUME NEW x \in Startable, NEW d \in Displays, Assigned(x, d) PROVE where'[c] = where[c]
      <4>1. CASE c # x \/ d = where[x]
        BY <3>2, <4>1 DEF Assigned, WindowTypeOK
      <4>2. CASE c = x /\ d # where[x]
        <5>1. e \in doubtful'
          BY <3>1, <3>2, <4>2 DEF Assigned
        <5>. QED BY <1>2, <5>1 DEF Certain
      <4>. QED BY <4>1, <4>2
    <3>3. where'[c] = where[c]
      BY <2>2, <3>2 DEF LeavesWindows
    <3>. QED BY <2>1, <3>1, <3>3
  <2>3. ASSUME NEW d \in Displays, NEW id \in Ids, NEW kind \in {"create", "configure", "destroy"},
               Tells(d, id, kind)
        PROVE  where'[c] = e.on /\ Active(e.id)' # {}
    BY <2>1, <2>3 DEF Tells, Entries, Active, Tracking
  <2>4. ASSUME NEW d \in Displays, Handles(d) PROVE where'[c] = e.on /\ Active(e.id)' # {}
    <3>1. \/ e \in Entries(c) /\ Active(e.id)' # {}
          \/ where[c] = e.on /\ Active(e.id)' # {}
      BY <2>0, <2>4, ListedByEvent
    <3>2. where' = where
      BY <2>4 DEF Handles
    <3>. QED BY <2>1, <3>1, <3>2
  <2>. QED BY <2>2, <2>3, <2>4, StepKinds
<1>. QED BY <1>1, <1>2 DEF ListedIsTracked, ListInv

\* A ConfigureNotify that changes the lists adds one entry to one of them.
LEMMA ConfigureAdds ==
    ASSUME WindowTypeOK, TrackInv, ListInv, NEW d \in Displays, NEW id \in Ids,
           HandleConfigure(d, id), listed' # listed
    PROVE  \E y \in Children :
              /\ \E l \in Nat :
                    /\ DOMAIN listed[y] = 1..l /\ DOMAIN listed'[y] = 1..l + 1
                    /\ listed'[y][l + 1] = Entry(d, id)
                    /\ \A k \in 1..l : listed'[y][k] = listed[y][k]
              /\ \A z \in Children \ {y} : listed'[z] = listed[z]
              /\ ~Collides(id) =>
                    \A z \in Children : \A f \in Entries(z) : ~(f.id = id /\ Certain(f))
<1>1. PICK c \in Children :
         /\ where[c] = d /\ Active(id)' # {} /\ Present(d, id)
         /\ c \in Startable => IF shown[d][id].pid = "none" THEN c \in Users
                               ELSE shown[d][id].opener = c
         /\ \E n \in Nat :
               /\ DOMAIN listed[c] = 1..n /\ DOMAIN listed'[c] = 1..n + 1
               /\ listed'[c][n + 1] = Entry(d, id)
               /\ \A m \in 1..n : listed'[c][m] = listed[c][m]
         /\ \A x \in Children \ {c} : listed'[x] = listed[x]
         /\ ~Collides(id) => \A x \in Children : \A e \in Entries(x) : ~(e.id = id /\ Certain(e))
  BY ConfigureLists
<1>. QED BY <1>1

\* A DestroyNotify that changes the lists takes one entry out of one of them.
LEMMA DestroyTakesOut ==
    ASSUME WindowTypeOK, NEW d \in Displays, NEW id \in Ids, HandleDestroy(d, id), listed' # listed
    PROVE  \E y \in Children : \E k \in DOMAIN listed[y] :
              /\ listed'[y] = RemoveAt(listed[y], k)
              /\ \A z \in Children \ {y} : listed'[z] = listed[z]
<1>1. listed \in [Children -> Seq(EntryType)]
  BY DEF WindowTypeOK, EntryType
<1>2. \/ Discarded(d, id) = listed
      \/ \E y \in Children : \E k \in DOMAIN listed[y] :
            Discarded(d, id) = [listed EXCEPT ![y] = RemoveAt(@, k)]
  BY <1>1, DiscardedEntry
<1>3. listed' = Discarded(d, id)
  BY DestroyTracks
<1>4. PICK y \in Children : \E k \in DOMAIN listed[y] :
            Discarded(d, id) = [listed EXCEPT ![y] = RemoveAt(@, k)]
  BY <1>2, <1>3, Zenon
<1>5. PICK k \in DOMAIN listed[y] : Discarded(d, id) = [listed EXCEPT ![y] = RemoveAt(@, k)]
  BY <1>4, Zenon
<1>6. listed'[y] = RemoveAt(listed[y], k) /\ \A z \in Children \ {y} : listed'[z] = listed[z]
  BY <1>1, <1>3, <1>5
<1>. QED BY <1>6

\* No window that is certain comes to be listed twice, whatever the step.
LEMMA ListedApartStays ==
    ASSUME WindowTypeOK, TrackInv, ListInv, [Next]_vars
    PROVE  ListedApart'
<1>1. SUFFICES ASSUME NEW c \in Children, NEW x \in Children,
                      NEW n \in DOMAIN listed'[c], NEW m \in DOMAIN listed'[x], NEW e,
                      listed'[c][n] = e, listed'[x][m] = e, Certain(e)'
               PROVE  c = x /\ n = m
  BY DEF ListedApart, Certain, Collides
<1>2. Certain(e)
  BY <1>1, OnlyGrows
<1>3. \A y, z \in Children : \A k \in DOMAIN listed[y], l \in DOMAIN listed[z] :
         listed[y][k] = e /\ listed[z][l] = e => y = z /\ k = l
  BY <1>2 DEF ListInv, ListedApart
<1>4. CASE listed' = listed
  BY <1>1, <1>3, <1>4
<1>5. ASSUME NEW y \in Children, NEW k \in DOMAIN listed[y], listed'[y] = RemoveAt(listed[y], k),
             \A z \in Children \ {y} : listed'[z] = listed[z]
      PROVE  c = x /\ n = m
  <2>1. \A z \in Children : \A l \in DOMAIN listed'[z] :
              /\ Before(z, l, y, k) \in DOMAIN listed[z] /\ l \in Nat /\ k \in Nat
              /\ listed'[z][l] = listed[z][Before(z, l, y, k)]
              /\ ~(z = y /\ Before(z, l, y, k) = k)
    BY <1>5, TakenOut
  <2>2. c = x /\ Before(c, n, y, k) = Before(x, m, y, k)
    BY <1>1, <1>3, <2>1
  <2>3. n \in Nat /\ m \in Nat /\ k \in Nat
    BY <2>1
  <2>. QED BY <2>2, <2>3 DEF Before
<1>6. ASSUME NEW d \in Displays, Handles(d), listed' # listed PROVE c = x /\ n = m
  <2>1. PICK h \in EventType :
              /\ h = events[d][1] /\ 1 \in DOMAIN events[d] /\ h.id \in Ids
              /\ \/ h = Event("create", h.id) /\ HandleCreate(h.id)
                 \/ h = Event("configure", h.id) /\ HandleConfigure(d, h.id)
                 \/ h = Event("destroy", h.id) /\ HandleDestroy(d, h.id)
              /\ UNCHANGED <<used, shown, where, doubtful>>
    BY <1>6, Handled
  <2>2. CASE HandleConfigure(d, h.id)
    <3>1. PICK y \in Children :
              /\ \E l \in Nat :
                    /\ DOMAIN listed[y] = 1..l /\ DOMAIN listed'[y] = 1..l + 1
                    /\ listed'[y][l + 1] = Entry(d, h.id)
                    /\ \A k \in 1..l : listed'[y][k] = listed[y][k]
              /\ \A z \in Children \ {y} : listed'[z] = listed[z]
              /\ ~Collides(h.id) =>
                    \A z \in Children : \A f \in Entries(z) : ~(f.id = h.id /\ Certain(f))
      <4>1. h.id \in Ids /\ listed' # listed
        BY <1>6, <2>1
      <4>. QED BY <2>2, <4>1, ConfigureAdds
    <3>2. PICK l \in Nat : /\ DOMAIN listed[y] = 1..l /\ DOMAIN listed'[y] = 1..l + 1
                           /\ listed'[y][l + 1] = Entry(d, h.id)
                           /\ \A k \in 1..l : listed'[y][k] = listed[y][k]
      BY <3>1
    <3>3. \A z \in Children : \A k \in DOMAIN listed'[z] :
             \/ z = y /\ k = l + 1
             \/ k \in DOMAIN listed[z] /\ listed'[z][k] = listed[z][k]
      BY <3>1, <3>2
    <3>4. CASE e = Entry(d, h.id)
      <4>1. e.id = h.id /\ ~Collides(h.id)
        BY <1>2, <3>4 DEF Entry, Certain
      <4>2. \A z \in Children : \A k \in DOMAIN listed[z] : listed[z][k] # e
        BY <1>2, <3>1, <4>1 DEF Entries
      <4>. QED BY <1>1, <3>3, <4>2
    <3>5. CASE e # Entry(d, h.id)
      <4>1. /\ n \in DOMAIN listed[c] /\ listed[c][n] = e
            /\ m \in DOMAIN listed[x] /\ listed[x][m] = e
        BY <1>1, <3>2, <3>3, <3>5
      <4>. QED BY <1>3, <4>1
    <3>. QED BY <3>4, <3>5
  <2>3. CASE HandleDestroy(d, h.id)
    <3>1. h.id \in Ids /\ listed' # listed
      BY <1>6, <2>1
    <3>2. PICK y \in Children : \E k \in DOMAIN listed[y] :
                /\ listed'[y] = RemoveAt(listed[y], k)
                /\ \A z \in Children \ {y} : listed'[z] = listed[z]
      BY <2>3, <3>1, DestroyTakesOut
    <3>3. PICK k \in DOMAIN listed[y] :
                /\ listed'[y] = RemoveAt(listed[y], k)
                /\ \A z \in Children \ {y} : listed'[z] = listed[z]
      BY <3>2
    <3>. QED BY <1>5, <3>3
  <2>4. ~HandleCreate(h.id)
    BY <1>6 DEF HandleCreate
  <2>. QED BY <2>1, <2>2, <2>3, <2>4
<1>. QED BY <1>4, <1>6, StepKinds DEF LeavesWindows, Tells

LEMMA PidDecidesStays ==
    ASSUME WindowTypeOK, TrackInv, ListInv, [Next]_vars
    PROVE  PidDecides'
<1>1. SUFFICES ASSUME NEW c \in Startable, NEW e \in Entries(c)', Certain(e)',
                      Present(e.on, e.id)', ~Waiting(e.on, "destroy", e.id)'
               PROVE  IF shown'[e.on][e.id].pid = "none" THEN c \in Users
                      ELSE shown'[e.on][e.id].opener = c
  BY DEF PidDecides
<1>2. Certain(e) /\ c \in Children
  BY <1>1, OnlyGrows, ChildSets
<1>3. ASSUME e \in Entries(c), Present(e.on, e.id), ~Waiting(e.on, "destroy", e.id)
      PROVE  IF shown[e.on][e.id].pid = "none" THEN c \in Users ELSE shown[e.on][e.id].opener = c
  BY <1>2, <1>3 DEF ListInv, PidDecides
<1>4. e.on \in Displays /\ e.id \in Ids
  <2>1. listed' \in [Children -> Seq(EntryType)]
    BY NextType DEF WindowTypeOK, EntryType
  <2>2. listed'[c] \in Seq(EntryType)
    BY <1>2, <2>1
  <2>3. e \in EntryType
    BY <2>2 DEF Entries
  <2>. QED BY <2>3 DEF EntryType
<1>5. CASE LeavesWindows
  <2>1. /\ e \in Entries(c) /\ Present(e.on, e.id) /\ ~Waiting(e.on, "destroy", e.id)
        /\ shown'[e.on][e.id].opener = shown[e.on][e.id].opener
        /\ shown'[e.on][e.id].pid = "none" <=> shown[e.on][e.id].pid = "none"
    BY <1>1, <1>4, <1>5 DEF LeavesWindows, Entries, Present, Waiting, Event
  <2>. QED BY <1>3, <2>1
<1>6. ASSUME NEW d \in Displays, NEW id \in Ids, NEW kind \in {"create", "configure", "destroy"},
             Tells(d, id, kind)
      PROVE  IF shown'[e.on][e.id].pid = "none" THEN c \in Users
             ELSE shown'[e.on][e.id].opener = c
  <2>0. PICK f \in EventType : f = Event(kind, id)
    BY DEF Event, EventType
  <2>1. events' = [events EXCEPT ![d] = Append(@, f)] /\ e \in Entries(c)
    BY <1>6, <2>0 DEF Tells, Entries
  <2>2. Waiting(e.on, "destroy", e.id) => Waiting(e.on, "destroy", e.id)'
    <3>1. \A n \in DOMAIN events[e.on] : n \in DOMAIN events'[e.on] /\ events'[e.on][n] = events[e.on][n]
      <4>1. CASE e.on # d
        BY <1>4, <2>1, <4>1, Appended
      <4>2. CASE e.on = d
        BY <2>1, <4>2, Appended
      <4>. QED BY <4>1, <4>2
    <3>. QED BY <3>1 DEF Waiting, Event
  \* It is listed, so it is there already.
  <2>3. Present(e.on, e.id)
    <3>1. Active(e.id) # {} /\ e.id \in used[e.on]
      BY <1>2, <2>1 DEF ListInv, ListedIsTracked, TrackInv, IdsAreUsed
    <3>2. In(e.id) # {}
      BY <3>1 DEF Active, In
    <3>3. Present(e.on, e.id) \/ Waiting(e.on, "destroy", e.id)
      BY <1>2, <1>4, <3>1, <3>2 DEF TrackInv, TrackedInTurn, Certain
    <3>. QED BY <1>1, <2>2, <3>3
  <2>4. /\ shown'[e.on][e.id].opener = shown[e.on][e.id].opener
        /\ shown'[e.on][e.id].pid = shown[e.on][e.id].pid
    <3>1. CASE e.on # d
      BY <1>4, <1>6, <3>1 DEF Tells
    <3>2. CASE e.on = d
      <4>1. ~(e.id = id /\ kind = "create")
        BY <1>6, <2>3, <3>2 DEF Tells
      <4>. QED BY <1>1, <1>6, <3>2, <4>1 DEF Tells, Present
    <3>. QED BY <3>1, <3>2
  <2>. QED BY <1>1, <1>3, <2>1, <2>2, <2>3, <2>4
<1>7. ASSUME NEW d \in Displays, Handles(d)
      PROVE  IF shown'[e.on][e.id].pid = "none" THEN c \in Users
             ELSE shown'[e.on][e.id].opener = c
  <2>1. shown' = shown /\ Present(e.on, e.id)
    BY <1>1, <1>7 DEF Handles, Present
  <2>2. \/ /\ e \in Entries(c)
           /\ Waiting(e.on, "destroy", e.id) => Waiting(e.on, "destroy", e.id)'
        \/ IF shown[e.on][e.id].pid = "none" THEN c \in Users ELSE shown[e.on][e.id].opener = c
    BY <1>2, <1>7, ListedByEvent
  <2>. QED BY <1>1, <1>3, <2>1, <2>2
<1>. QED BY <1>5, <1>6, <1>7, StepKinds

LEMMA ListInvStays == WindowTypeOK /\ TrackInv /\ ListInv /\ [Next]_vars => ListInv'
BY ListedIsTrackedStays, ListedApartStays, PidDecidesStays DEF ListInv

\* At first only repatriated windows are listed, and they are in doubt.
LEMMA InitListed == Init => ListInv
<1>. SUFFICES ASSUME Init PROVE ListInv
  OBVIOUS
<1>1. PICK w \in Workloads : Initially(w.old)
  BY DEF Init
<1>2. ASSUME NEW c \in Children, NEW e \in Entries(c) PROVE ~Certain(e)
  <2>1. c - CommandCount \in Repatriating
    <3>1. SUFFICES ASSUME c - CommandCount \notin Repatriating PROVE FALSE
      OBVIOUS
    <3>2. listed[c] = <<>>
      BY <1>1, <3>1 DEF Initially
    <3>. QED BY <1>2, <3>2 DEF Entries
  <2>2. c \in Repatriated
    BY <2>1, ChildSets DEF WorkloadAssumption
  <2>3. e \in doubtful
    BY <1>2, <2>2 DEF Init
  <2>. QED BY <2>3 DEF Certain
<1>3. \A c \in Repatriated : where[c] = c - CommandCount
  BY ChildSets DEF Init
<1>4. ListedIsTracked
  BY <1>2, <1>3 DEF ListedIsTracked
<1>5. ListedApart
  BY <1>2 DEF ListedApart, Entries
<1>6. PidDecides
  BY <1>2, ChildSets DEF PidDecides
<1>. QED BY <1>4, <1>5, <1>6 DEF ListInv

LEMMA ListInvCorrect == Spec => []ListInv
BY InitListed, ListInvStays, TypeCorrect, TrackInvCorrect, PTL DEF Spec

LEMMA OnceIfApart == ListInv => ListedOnce
BY ChildSets DEF ListInv, ListedApart, ListedOnce

\* No window that is certain counts as that of two children or twice as that of one, whatever
\* is created, configured, destroyed and listed for whom, and in which order.  Not certain are
\* ids two servers use and windows of a child that has changed displays with them.
THEOREM ListingCorrect == Spec => []ListedOnce
BY ListInvCorrect, OnceIfApart, PTL

LEMMA ListedIsThere == WindowTypeOK /\ TrackInv /\ ListInv => NoneDangles
<1>. SUFFICES ASSUME WindowTypeOK, TrackInv, ListInv,
                     NEW c \in Startable, NEW e \in Entries(c), Certain(e)
              PROVE  Present(e.on, e.id) \/ Waiting(e.on, "destroy", e.id)
  BY DEF NoneDangles
<1>1. c \in Children
  BY ChildSets
<1>2. e \in EntryType
  <2>1. listed[c] \in Seq(EntryType)
    BY <1>1 DEF WindowTypeOK, EntryType
  <2>. QED BY <2>1 DEF Entries
<1>3. Active(e.id) # {} /\ e.id \in used[e.on] /\ e.on \in Displays
  BY <1>1, <1>2 DEF ListInv, ListedIsTracked, TrackInv, IdsAreUsed, EntryType
<1>4. In(e.id) # {}
  BY <1>3 DEF Active, In
<1>. QED BY <1>3, <1>4 DEF TrackInv, TrackedInTurn, Certain

\* A child has no windows that are gone, whether it runs, was stopped or runs again on the same
\* display when their DestroyNotify is handled.  Windows of a child that was moved or started
\* again on another display, and ids two servers use, are not certain and left out: there the
\* code does leave them (child.c:586).
THEOREM NoneIsLeft == Spec => []NoneDangles
BY TypeCorrect, TrackInvCorrect, ListInvCorrect, ListedIsThere, PTL

LEMMA PidIfListed == ListInv => PidDecides
BY DEF ListInv

\* A window that names a process is listed for the child that process descends from, or for
\* none; only one that names none is given to a user command by guess.  Of those that are
\* certain: no id two servers use, no window of a child that has changed displays with it.
THEOREM MatchingCorrect == Spec => []PidDecides
BY ListInvCorrect, PidIfListed, PTL

=============================================================================
