---------------------------- MODULE InputsProofs ----------------------------
(***************************************************************************)
(* The rounds of the main loop run the HTTP server and the control inputs  *)
(* as HttpConnection and ControlInput have them, so that what is proved of *)
(* each of them alone holds in every order in which the daemon serves      *)
(* them.  And what only the whole round has: a connection or an input      *)
(* whose turn comes has something to read, because the round serves those  *)
(* the call of select found ready, once each.                              *)
(***************************************************************************)
EXTENDS Inputs, HttpConnectionProofs, ControlInputProofs

LEMMA InputsInit == Init => HttpInit /\ ControlInit
<1>. SUFFICES ASSUME Init PROVE ControlInit
  BY DEF Init
<1>1. PICK w \in Workloads : ControlStart(w.plan)
  BY DEF Init
<1>2. w.plan \in Plans
  BY WorkloadAssumption
<1>. QED BY <1>1, <1>2 DEF ControlInit

\* A step of a round, or of a client, is one of the HTTP server or leaves it as it is.
LEMMA InputsHttp == [Next]_vars => [HttpNext]_httpVars
<1>. SUFFICES ASSUME [Next]_vars PROVE [HttpNext]_httpVars
  OBVIOUS
<1>1. CASE Listen
  BY <1>1 DEF Listen, HttpNext
<1>2. ASSUME NEW i \in DOMAIN clients, ApiSlot(i) PROVE [HttpNext]_httpVars
  BY <1>2 DEF ApiSlot, HttpNext
<1>3. CASE EndApi \/ EndControl \/ Select \/ \E i \in DOMAIN inputs : ControlSlot(i)
  BY <1>3 DEF EndApi, EndControl, Select, ControlSlot
<1>4. CASE Environment
  BY <1>4 DEF Environment, HttpNext
<1>5. CASE UNCHANGED vars
  BY <1>5 DEF vars
<1>. QED BY <1>1, <1>2, <1>3, <1>4, <1>5 DEF Next, Round

\* And one of the control inputs or none.
LEMMA InputsControl == [Next]_vars => [ControlNext]_controlVars
<1>. SUFFICES ASSUME [Next]_vars PROVE [ControlNext]_controlVars
  OBVIOUS
<1>1. CASE Listen \/ EndApi \/ EndControl \/ Select \/ \E i \in DOMAIN clients : ApiSlot(i)
  BY <1>1 DEF Listen, EndApi, EndControl, Select, ApiSlot
<1>2. ASSUME NEW i \in DOMAIN inputs, ControlSlot(i) PROVE [ControlNext]_controlVars
  BY <1>2 DEF ControlSlot, ControlNext
<1>3. CASE Environment
  BY <1>3 DEF Environment, ControlNext
<1>4. CASE UNCHANGED vars
  BY <1>4 DEF vars
<1>. QED BY <1>1, <1>2, <1>3, <1>4 DEF Next, Round

\* The composition implements its parts (api_loop, control_loop).
THEOREM PartsImplemented == Spec => HttpSpec /\ ControlSpec
BY InputsInit, InputsHttp, InputsControl, PTL DEF Spec, HttpSpec, ControlSpec

\* In the rounds of the main loop both have the properties they have alone.
THEOREM InputsSafe ==
    Spec => [](HttpTypeOK /\ SlotUntilOutcome /\ HttpBufferBounded
               /\ ControlTypeOK /\ ControlBufferBounded /\ LinesAreWhole)
BY PartsImplemented, HttpTypeCorrect, SlotsUntilOutcome, HttpBuffersBounded,
   ControlTypeCorrect, ControlBuffersBounded, LinesObeyedWhole, PTL

-----------------------------------------------------------------------------
(* What the clients of the HTTP server are promised *)

\* The exchange that a connection stands for, as Inputs maps it.
Exchanged(e, taken) ==
    [request |-> e.request, sent |-> e.arrived = Len(Text(e.request)),
     gone |-> e.gone, taken |-> taken, spoiled |-> e.spoiled, result |-> e.result]

Exchanging == [c \in DOMAIN conns |-> Exchanged(conns[c], c <= accepted)]

LEMMA ExchangingIsMapped ==
    /\ Exchanges!exchangeVars = <<script, Exchanging, up, Blocked>>
    /\ Exchanges!exchangeVars' = <<script', Exchanging', up', Blocked'>>
BY DEF Exchanges!exchangeVars, Exchanging, Exchanged

\* Steps of Exchange, from what becomes of the exchanges.
LEMMA ExchangeAnswers ==
    ASSUME NEW c \in DOMAIN conns, NEW e, e = Exchanging[c], NEW v,
           up, ~Blocked, UNCHANGED <<script, Blocked>>, e.taken,
           e.result = "none" \/ e.spoiled, e.gone \/ e.spoiled \/ UNCHANGED up,
           v \in Exchanges!Outcomes,
           v \in Exchanges!Promised(e.request) \/ e.spoiled \/ (e.gone /\ v = "lost"),
           Exchanging' = [Exchanging EXCEPT ![c] = [e EXCEPT !.result = v]]
    PROVE  Exchanges!Answer(c)
<1>. DEFINE E == [d \in DOMAIN conns |->
                   [request |-> conns[d].request,
                    sent    |-> conns[d].arrived = Len(Text(conns[d].request)),
                    gone    |-> conns[d].gone,
                    taken   |-> d <= accepted,
                    spoiled |-> conns[d].spoiled,
                    result  |-> conns[d].result]]
<1>1. E = Exchanging /\ E' = Exchanging'
  BY DEF Exchanging, Exchanged
<1>. HIDE DEF E
<1>2. /\ v \in Exchanges!Outcomes
      /\ E' = [E EXCEPT ![c] = [E[c] EXCEPT !.result = v]]
      /\ up /\ ~Blocked /\ E[c].taken /\ (E[c].result = "none" \/ E[c].spoiled)
      /\ E[c].gone \/ E[c].spoiled \/ UNCHANGED up
      /\ UNCHANGED <<script, Blocked>>
  BY <1>1
<1>3. v \in Exchanges!Promised(E[c].request) \/ E[c].spoiled \/ (E[c].gone /\ v = "lost")
  BY <1>1 DEF Exchanges!Promised
<1>4. \E result \in Exchanges!Outcomes :
         /\ \/ result \in Exchanges!Promised(E[c].request)
            \/ E[c].spoiled \/ (E[c].gone /\ result = "lost")
         /\ E' = [E EXCEPT ![c] = [E[c] EXCEPT !.result = result]]
         /\ UNCHANGED <<script, Blocked>>
  BY <1>2, <1>3
<1>. QED BY <1>2, <1>4 DEF Exchanges!Answer, Exchanges!Change, E

LEMMA ExchangeTakes ==
    ASSUME NEW c \in DOMAIN conns, NEW e, e = Exchanging[c], NEW b, b \in {e.spoiled, TRUE},
           up, ~Blocked, UNCHANGED <<script, up, Blocked>>,
           \A d \in DOMAIN conns : Exchanging[d].taken <=> d < c,
           Exchanging' = [Exchanging EXCEPT ![c] = [e EXCEPT !.taken = TRUE, !.spoiled = b]]
    PROVE  Exchanges!Take(c)
<1>. DEFINE E == [d \in DOMAIN conns |->
                   [request |-> conns[d].request,
                    sent    |-> conns[d].arrived = Len(Text(conns[d].request)),
                    gone    |-> conns[d].gone,
                    taken   |-> d <= accepted,
                    spoiled |-> conns[d].spoiled,
                    result  |-> conns[d].result]]
<1>1. E = Exchanging /\ E' = Exchanging' /\ DOMAIN E = DOMAIN conns
  BY DEF Exchanging, Exchanged
<1>. HIDE DEF E
<1>2. /\ \A d \in DOMAIN E : E[d].taken <=> d < c
      /\ UNCHANGED up /\ UNCHANGED <<script, Blocked>>
      /\ b \in {E[c].spoiled, TRUE}
      /\ E' = [E EXCEPT ![c] = [E[c] EXCEPT !.taken = TRUE, !.spoiled = b]]
  BY <1>1
<1>3. \E spoiled \in {E[c].spoiled, TRUE} :
        /\ UNCHANGED up
        /\ E' = [E EXCEPT ![c] = [E[c] EXCEPT !.taken = TRUE, !.spoiled = spoiled]]
        /\ UNCHANGED <<script, Blocked>>
  BY <1>2
<1>. QED BY <1>2, <1>3 DEF Exchanges!Take, Exchanges!Change, E

LEMMA ExchangeGivesUp ==
    ASSUME NEW c \in DOMAIN conns, ~Exchanging[c].taken,
           up, ~Blocked, up' = FALSE, UNCHANGED <<script, Blocked, Exchanging>>
    PROVE  Exchanges!GiveUp
BY DEF Exchanges!GiveUp, Exchanging, Exchanged

LEMMA BlockedTyped == Blocked \in BOOLEAN /\ Blocked' \in BOOLEAN
BY DEF Blocked

LEMMA ConnectedType ==
    ASSUME HttpBounds, NEW c \in 1..Len(conns)
    PROVE  /\ conns[c] \in GoodConnection
           /\ Exchanging[c] = Exchanged(conns[c], c <= accepted)
           /\ DOMAIN Exchanging = 1..Len(conns)
BY AllBounds, ElementOfSeq DEF Exchanging

\* A connection is replaced: so is its exchange.
LEMMA OneExchange ==
    ASSUME HttpBounds, NEW c \in 1..Len(conns), NEW f, conns' = [conns EXCEPT ![c] = f],
           UNCHANGED accepted
    PROVE  Exchanging' = [Exchanging EXCEPT ![c] = Exchanged(f, c <= accepted)]
BY AllBounds DEF Exchanging

\* What a step of the HTTP server does to the exchanges.
ExchangeStep ==
    /\ Exchanges!Next \/ UNCHANGED Exchanges!exchangeVars
    /\ up' => up

LEMMA ExchangeStutters ==
    ASSUME UNCHANGED <<script, up, Exchanging>>
    PROVE  ExchangeStep
<1>1. Blocked' = Blocked \/ Blocked' = ~Blocked
  BY BlockedTyped
<1>2. CASE Blocked' = Blocked
  BY <1>2, ExchangingIsMapped DEF ExchangeStep
<1>3. CASE Blocked' = ~Blocked
  BY <1>3 DEF ExchangeStep, Exchanges!Next, Exchanges!Wait, Exchanging, Exchanged
<1>. QED BY <1>1, <1>2, <1>3

LEMMA ExchangeMoves ==
    ASSUME NEW c \in DOMAIN conns, NEW e, e = Exchanging[c], UNCHANGED <<script, up, Blocked>>,
           \/ Exchanging' = [Exchanging EXCEPT ![c] = [e EXCEPT !.sent = TRUE]]
           \/ Exchanging' = [Exchanging EXCEPT ![c] = [e EXCEPT !.gone = TRUE]]
           \/ /\ e.taken /\ e.result = "none"
              /\ Exchanging' = [Exchanging EXCEPT ![c] = [e EXCEPT !.spoiled = TRUE]]
    PROVE  ExchangeStep
<1>. DEFINE E == [d \in DOMAIN conns |->
                   [request |-> conns[d].request,
                    sent    |-> conns[d].arrived = Len(Text(conns[d].request)),
                    gone    |-> conns[d].gone,
                    taken   |-> d <= accepted,
                    spoiled |-> conns[d].spoiled,
                    result  |-> conns[d].result]]
<1>1. E = Exchanging /\ E' = Exchanging' /\ c \in DOMAIN E
  BY DEF Exchanging, Exchanged
<1>. HIDE DEF E
<1>2. \/ E' = [E EXCEPT ![c] = [E[c] EXCEPT !.sent = TRUE]]
      \/ E' = [E EXCEPT ![c] = [E[c] EXCEPT !.gone = TRUE]]
      \/ /\ E[c].taken /\ E[c].result = "none"
         /\ E' = [E EXCEPT ![c] = [E[c] EXCEPT !.spoiled = TRUE]]
  BY <1>1
<1>3. \/ UNCHANGED up /\ E' = [E EXCEPT ![c] = [E[c] EXCEPT !.sent = TRUE]]
         /\ UNCHANGED <<script, Blocked>>
      \/ UNCHANGED up /\ E' = [E EXCEPT ![c] = [E[c] EXCEPT !.gone = TRUE]]
         /\ UNCHANGED <<script, Blocked>>
      \/ E[c].taken /\ E[c].result = "none" /\ UNCHANGED up
         /\ E' = [E EXCEPT ![c] = [E[c] EXCEPT !.spoiled = TRUE]]
         /\ UNCHANGED <<script, Blocked>>
  BY <1>2
<1>4. Exchanges!Send(c) \/ Exchanges!HangUp(c) \/ Exchanges!Spoil(c)
  BY <1>3 DEF Exchanges!Send, Exchanges!HangUp, Exchanges!Spoil, Exchanges!Change, E
<1>5. Exchanges!Next
  BY <1>1, <1>4 DEF Exchanges!Next, E
<1>. QED BY <1>5 DEF ExchangeStep

LEMMA ExchangeEnds ==
    ASSUME HttpBounds, NEW c \in DOMAIN conns, Exchanges!Answer(c), up' \in BOOLEAN
    PROVE  ExchangeStep
<1>1. Exchanges!Next
  BY DEF Exchanges!Next
<1>2. up
  BY DEF Exchanges!Answer
<1>. QED BY <1>1, <1>2 DEF ExchangeStep

LEMMA ExchangeBegins ==
    ASSUME HttpBounds, Connect, UNCHANGED Blocked
    PROVE  ExchangeStep
<1>. DEFINE r == Head(script)
            f == Connection(r)
            x == [request |-> r, sent |-> FALSE, gone |-> FALSE, taken |-> FALSE,
                  spoiled |-> FALSE, result |-> "none"]
            n == Len(conns)
            S == {Exchanging[d] : d \in 1..n} \cup {x}
<1>1. r \in Request /\ n \in Nat /\ DOMAIN Exchanging = 1..n
  BY AllBounds, HeadTailProperties DEF Connect, HttpBounds, HttpTyped, Exchanging
<1>2. Exchanged(f, FALSE) = x
  <2>1. f = [request |-> r, arrived |-> 0, read |-> 0, gone |-> FALSE, spoiled |-> FALSE,
             result |-> "none"]
    BY DEF Connection
  <2>2. Len(Text(r)) \in Nat /\ 0 # Len(Text(r))
    <3>1. Len(Text(r)) = HeaderLength(r) + r.payload /\ r.payload \in Nat
      BY <1>1, TextShape DEF Request
    <3>. QED BY <3>1 DEF HeaderLength
  <2>. HIDE DEF r, f
  <2>. QED BY <2>1, <2>2 DEF Exchanged
<1>3. /\ Len(conns') = n + 1 /\ conns'[n + 1] = f /\ DOMAIN conns' = 1..(n + 1)
      /\ \A d \in 1..n : conns'[d] = conns[d]
  <2>1. f \in GoodConnection /\ conns' = Append(conns, f) /\ conns \in Seq(GoodConnection)
    BY <1>1, ConnectionNew, AllBounds DEF Connect
  <2>. HIDE DEF f, n
  <2>2. /\ Append(conns, f) \in Seq(GoodConnection) /\ Len(Append(conns, f)) = Len(conns) + 1
        /\ \A d \in 1..Len(conns) : Append(conns, f)[d] = conns[d]
        /\ Append(conns, f)[Len(conns) + 1] = f
    BY <2>1, AppendProperties
  <2>3. DOMAIN conns' = 1..Len(conns')
    BY <2>1, <2>2, LenProperties
  <2>. QED BY <2>1, <2>2, <2>3 DEF n
<1>4. Exchanging \in Seq(S) /\ Len(Exchanging) = n
  <2>1. Exchanging \in [1..n -> S]
    BY <1>1 DEF Exchanging
  <2>. HIDE DEF S, n
  <2>2. Exchanging \in Seq(S)
    BY <1>1, <2>1, SeqDef
  <2>. QED BY <1>1, <2>2, LenProperties
<1>5. Exchanging' = Append(Exchanging, x)
  <2>1. x \in S
    OBVIOUS
  <2>. HIDE DEF S, x, f, n
  <2>2. /\ Append(Exchanging, x) \in Seq(S) /\ Len(Append(Exchanging, x)) = n + 1
        /\ \A d \in 1..n : Append(Exchanging, x)[d] = Exchanging[d]
        /\ Append(Exchanging, x)[n + 1] = x
    BY <1>4, <2>1, AppendProperties
  <2>3. Exchanging' = [d \in 1..(n + 1) |-> Exchanged(conns'[d], d <= accepted)]
    BY <1>3 DEF Exchanging, Connect
  <2>4. \A d \in 1..(n + 1) : Exchanging'[d] = Append(Exchanging, x)[d]
    <3>1. \A d \in 1..n : Exchanging'[d] = Exchanging[d]
      <4>1. \A d \in 1..n : Exchanging[d] = Exchanged(conns[d], d <= accepted)
        BY <1>1 DEF Exchanging
      <4>. QED BY <1>1, <1>3, <2>3, <4>1
    <3>2. Exchanging'[n + 1] = x
      <4>1. (n + 1 <= accepted) = FALSE
        BY <1>1 DEF HttpBounds, HttpTyped, n
      <4>2. Exchanging'[n + 1] = Exchanged(f, n + 1 <= accepted)
        BY <1>1, <1>3, <2>3
      <4>. QED BY <1>2, <4>1, <4>2
    <3>. QED BY <1>1, <2>2, <3>1, <3>2
  <2>. DEFINE g == Append(Exchanging, x)
              E == Exchanging'
  <2>5. g \in [1..(n + 1) -> S]
    BY <1>1, <2>2, LenProperties
  <2>6. E \in [1..(n + 1) -> S]
    <3>1. DOMAIN E = 1..(n + 1) /\ E = [d \in 1..(n + 1) |-> E[d]]
      BY <2>3
    <3>2. \A d \in 1..(n + 1) : E[d] \in S
      BY <2>4, <2>5
    <3>. HIDE DEF E
    <3>. QED BY <3>1, <3>2
  <2>7. \A d \in 1..(n + 1) : E[d] = g[d]
    BY <2>4
  <2>8. E = g
    <3>. HIDE DEF E, g
    <3>1. PICK D : D = 1..(n + 1)
      OBVIOUS
    <3>2. PICK a, b : a = E /\ b = g
      OBVIOUS
    <3>3. a \in [D -> S] /\ b \in [D -> S] /\ \A d \in D : a[d] = b[d]
      BY <2>5, <2>6, <2>7, <3>1, <3>2
    <3>4. a = b
      BY <3>3
    <3>. QED BY <3>2, <3>4
  <2>. QED BY <2>8
<1>. HIDE DEF f, n, S
<1>6. script # <<>> /\ script' = Tail(script) /\ up' = up
  BY DEF Connect
<1>7. Exchanges!Begin
  <2>. DEFINE E == [d \in DOMAIN conns |->
                     [request |-> conns[d].request,
                      sent    |-> conns[d].arrived = Len(Text(conns[d].request)),
                      gone    |-> conns[d].gone,
                      taken   |-> d <= accepted,
                      spoiled |-> conns[d].spoiled,
                      result  |-> conns[d].result]]
  <2>1. E = Exchanging /\ E' = Exchanging'
    BY DEF Exchanging, Exchanged
  <2>. HIDE DEF E
  <2>2. E' = Append(E, [request |-> Head(script), sent |-> FALSE, gone |-> FALSE,
                        taken |-> FALSE, spoiled |-> FALSE, result |-> "none"])
    BY <1>5, <2>1
  <2>. QED BY <1>6, <2>2 DEF Exchanges!Begin, E
<1>. QED BY <1>6, <1>7 DEF ExchangeStep, Exchanges!Next

LEMMA ExchangedTyped ==
    ASSUME NEW e \in GoodConnection, NEW t
    PROVE  /\ Exchanged(e, t).request = e.request /\ Exchanged(e, t).gone = e.gone
           /\ Exchanged(e, t).spoiled = e.spoiled /\ Exchanged(e, t).result = e.result
           /\ Exchanged(e, t).taken = t
           /\ e.request \in Request /\ e.spoiled \in BOOLEAN
BY ConnectionTyped DEF Exchanged

\* A connection with another outcome is that exchange with another outcome.
LEMMA ExchangedDecided ==
    ASSUME NEW e, NEW f, NEW t, f.request = e.request, f.arrived = e.arrived, f.gone = e.gone,
           f.spoiled = e.spoiled
    PROVE  Exchanged(f, t) = [Exchanged(e, t) EXCEPT !.result = f.result]
<1>. DEFINE q == e.request
            a == e.arrived = Len(Text(q))
            g == e.gone
            p == e.spoiled
<1>1. /\ Exchanged(e, t) = [request |-> q, sent |-> a, gone |-> g, taken |-> t, spoiled |-> p,
                            result |-> e.result]
      /\ Exchanged(f, t) = [request |-> q, sent |-> a, gone |-> g, taken |-> t, spoiled |-> p,
                            result |-> f.result]
  BY DEF Exchanged
<1>. HIDE DEF q, a, g, p
<1>. QED BY <1>1

\* One that is spoiled is that exchange, spoiled.
LEMMA ExchangedSpoiled ==
    ASSUME NEW e, NEW f, NEW t, f.request = e.request, f.arrived = e.arrived, f.gone = e.gone,
           f.result = e.result
    PROVE  /\ Exchanged(f, t) = [Exchanged(e, t) EXCEPT !.spoiled = f.spoiled]
           /\ f.spoiled = e.spoiled => Exchanged(f, t) = Exchanged(e, t)
<1>. DEFINE q == e.request
            a == e.arrived = Len(Text(q))
            g == e.gone
            r == e.result
            X(p) == [request |-> q, sent |-> a, gone |-> g, taken |-> t, spoiled |-> p,
                     result |-> r]
<1>1. Exchanged(f, t) = X(f.spoiled) /\ Exchanged(e, t) = X(e.spoiled)
  BY DEF Exchanged
<1>. HIDE DEF q, a, g, r
<1>2. X(f.spoiled) = [X(e.spoiled) EXCEPT !.spoiled = f.spoiled]
  OBVIOUS
<1>. HIDE DEF X
<1>. QED BY <1>1, <1>2

\* One that has been taken is that exchange, taken.
LEMMA ExchangedTaken ==
    ASSUME NEW e, NEW t, NEW u
    PROVE  Exchanged(e, t) = [Exchanged(e, u) EXCEPT !.taken = t]
<1>. DEFINE q == e.request
            a == e.arrived = Len(Text(q))
            X(v) == [request |-> q, sent |-> a, gone |-> e.gone, taken |-> v,
                     spoiled |-> e.spoiled, result |-> e.result]
<1>1. Exchanged(e, t) = X(t) /\ Exchanged(e, u) = X(u)
  BY DEF Exchanged
<1>. HIDE DEF q, a
<1>2. X(t) = [X(u) EXCEPT !.taken = t]
  OBVIOUS
<1>. HIDE DEF X
<1>. QED BY <1>1, <1>2

\* An outcome is decided.
LEMMA OutcomeStep ==
    ASSUME HttpBounds, up, ~Blocked, UNCHANGED <<script, Blocked>>, up' \in BOOLEAN,
           NEW c \in 1..accepted, UNCHANGED accepted,
           conns[c].result = "none" \/ conns[c].spoiled,
           conns[c].gone \/ conns[c].spoiled \/ UNCHANGED up,
           NEW v \in Exchanges!Outcomes, conns' = [conns EXCEPT ![c].result = v],
           \/ v \in Exchanges!Promised(conns[c].request)
           \/ conns[c].spoiled
           \/ conns[c].gone /\ v = "lost"
    PROVE  ExchangeStep
<1>0. c \in 1..Len(conns) /\ (c <= accepted) = TRUE
  BY DEF HttpBounds, HttpTyped
<1>. PICK t : t = TRUE /\ t = (c <= accepted)
  BY <1>0
<1>1. conns[c] \in GoodConnection /\ Exchanging[c] = Exchanged(conns[c], t) /\ c \in DOMAIN conns
  BY <1>0, ConnectedType, AllBounds
<1>2. PICK g \in GoodConnection : g = conns[c]
  BY <1>1
<1>. DEFINE f == [g EXCEPT !.result = v]
<1>3. v \in Results
  BY DEF Exchanges!Outcomes, Results
<1>4. f \in GoodConnection /\ f.result = v
  BY <1>3, ConnectionResult
<1>5. f.request = g.request /\ f.arrived = g.arrived /\ f.gone = g.gone /\ f.spoiled = g.spoiled
  BY DEF GoodConnection, ConnectionType
<1>6. conns' = [conns EXCEPT ![c] = f]
  BY <1>2
<1>. HIDE DEF f
<1>7. Exchanging' = [Exchanging EXCEPT ![c] = Exchanged(f, t)]
  BY <1>0, <1>6, OneExchange
<1>8. PICK e : e = Exchanged(g, t)
  OBVIOUS
<1>9. /\ e.request = g.request /\ e.gone = g.gone /\ e.spoiled = g.spoiled /\ e.result = g.result
      /\ e.taken
  BY <1>8, ExchangedTyped
<1>10. Exchanged(f, t) = [e EXCEPT !.result = v]
  <2>1. Exchanged(f, t) = [Exchanged(g, t) EXCEPT !.result = f.result]
    BY <1>5, ExchangedDecided
  <2>. QED BY <1>4, <1>8, <2>1
<1>11. Exchanging' = [Exchanging EXCEPT ![c] = [e EXCEPT !.result = v]]
  BY <1>7, <1>10
<1>12. /\ e = Exchanging[c] /\ (e.result = "none" \/ e.spoiled)
       /\ e.gone \/ e.spoiled \/ UNCHANGED up
       /\ v \in Exchanges!Promised(e.request) \/ e.spoiled \/ (e.gone /\ v = "lost")
  BY <1>1, <1>2, <1>8, <1>9
<1>13. Exchanges!Answer(c)
  BY <1>1, <1>9, <1>11, <1>12, ExchangeAnswers
<1>. QED BY <1>1, <1>13, ExchangeEnds

\* What has been received, or who has it, changes nothing but whether the connection is spoiled.
LEMMA SpoilingStep ==
    ASSUME HttpBounds, UNCHANGED <<script, up, accepted, Blocked>>, NEW c \in 1..accepted,
           conns[c].result = "none", NEW f \in GoodConnection, conns' = [conns EXCEPT ![c] = f],
           f.request = conns[c].request, f.arrived = conns[c].arrived, f.gone = conns[c].gone,
           f.result = conns[c].result, f.spoiled \in {conns[c].spoiled, TRUE}
    PROVE  ExchangeStep
<1>0. c \in 1..Len(conns) /\ (c <= accepted) = TRUE
  BY DEF HttpBounds, HttpTyped
<1>. PICK t : t = TRUE /\ t = (c <= accepted)
  BY <1>0
<1>1. conns[c] \in GoodConnection /\ Exchanging[c] = Exchanged(conns[c], t) /\ c \in DOMAIN conns
  BY <1>0, ConnectedType, AllBounds
<1>2. PICK g \in GoodConnection : g = conns[c]
  BY <1>1
<1>3. Exchanging' = [Exchanging EXCEPT ![c] = Exchanged(f, t)]
  BY <1>0, OneExchange
<1>4. PICK e : e = Exchanged(g, t)
  OBVIOUS
<1>5. e.result = g.result /\ e.taken
  BY <1>4, ExchangedTyped
<1>6. /\ Exchanged(f, t) = [e EXCEPT !.spoiled = f.spoiled]
      /\ f.spoiled = g.spoiled => Exchanged(f, t) = e
  BY <1>2, <1>4, ExchangedSpoiled
<1>7. CASE f.spoiled = g.spoiled
  <2>1. Exchanged(f, t) = e
    BY <1>6, <1>7
  <2>2. Exchanging' = Exchanging
    BY <1>1, <1>2, <1>3, <1>4, <2>1 DEF Exchanging
  <2>. QED BY <2>2, ExchangeStutters
<1>8. CASE f.spoiled = TRUE
  <2>1. Exchanging' = [Exchanging EXCEPT ![c] = [e EXCEPT !.spoiled = TRUE]]
    BY <1>3, <1>6, <1>8
  <2>2. e = Exchanging[c] /\ e.taken /\ e.result = "none"
    BY <1>1, <1>2, <1>4, <1>5
  <2>. QED BY <1>1, <2>1, <2>2, ExchangeMoves
<1>. QED BY <1>2, <1>7, <1>8

LEMMA ExchangeMarked ==
    ASSUME NEW q, NEW a, NEW g, NEW s, NEW r, NEW k, NEW t
    PROVE  LET e == [request |-> q, sent |-> a, gone |-> g, taken |-> k, spoiled |-> s,
                     result |-> r] IN
           /\ [e EXCEPT !.sent = t] =
                [request |-> q, sent |-> t, gone |-> g, taken |-> k, spoiled |-> s, result |-> r]
           /\ [e EXCEPT !.gone = t] =
                [request |-> q, sent |-> a, gone |-> t, taken |-> k, spoiled |-> s, result |-> r]
OBVIOUS

LEMMA ArriveImplements ==
    ASSUME HttpBounds, NEW c \in DOMAIN conns, Arrive(c) \/ HangUp(c), UNCHANGED Blocked
    PROVE  ExchangeStep
<1>1. c \in 1..Len(conns) /\ UNCHANGED <<script, up, accepted>>
  BY AllBounds DEF Arrive, HangUp
<1>2. conns[c] \in GoodConnection /\ Exchanging[c] = Exchanged(conns[c], c <= accepted)
  BY <1>1, ConnectedType
<1>3. PICK g \in GoodConnection : g = conns[c]
  BY <1>2
<1>10. PICK k : k = (c <= accepted)
  OBVIOUS
<1>4. PICK e : e = Exchanged(g, k)
  OBVIOUS
<1>5. e = Exchanging[c]
  BY <1>2, <1>3, <1>4, <1>10
<1>9. PICK b \in BOOLEAN : b = (g.arrived = Len(Text(g.request)))
  OBVIOUS
<1>6. e = [request |-> g.request, sent |-> b, gone |-> g.gone, taken |-> k, spoiled |-> g.spoiled,
           result |-> g.result]
  BY <1>4, <1>9 DEF Exchanged
<1>7. CASE Arrive(c)
  <2>1. PICK n \in (g.arrived + 1)..Len(Text(g.request)) : conns' = [conns EXCEPT ![c].arrived = n]
    BY <1>3, <1>7 DEF Arrive
  <2>. DEFINE f == [g EXCEPT !.arrived = n]
  <2>2. conns' = [conns EXCEPT ![c] = f]
    BY <1>3, <2>1
  <2>3. f.request = g.request /\ f.arrived = n /\ f.gone = g.gone /\ f.spoiled = g.spoiled
        /\ f.result = g.result
    BY DEF GoodConnection, ConnectionType
  <2>. HIDE DEF f
  <2>4. Exchanging' = [Exchanging EXCEPT ![c] = Exchanged(f, k)]
    BY <1>1, <1>10, <2>2, OneExchange
  <2>5. g.request \in Request /\ g.arrived \in Nat /\ Len(Text(g.request)) \in Nat
    BY ConnectionTyped, TextTyped
  <2>6. CASE n = Len(Text(g.request))
    <3>1. Exchanged(f, k) = [request |-> g.request, sent |-> TRUE, gone |-> g.gone, taken |-> k,
                          spoiled |-> g.spoiled, result |-> g.result]
      BY <2>3, <2>6 DEF Exchanged
    <3>2. Exchanged(f, k) = [e EXCEPT !.sent = TRUE]
      <4>1. PICK q, v, s, r, t : /\ q = g.request /\ v = g.gone /\ s = g.spoiled
                                 /\ r = g.result /\ t = TRUE
        OBVIOUS
      <4>2. /\ e = [request |-> q, sent |-> b, gone |-> v, taken |-> k, spoiled |-> s, result |-> r]
            /\ Exchanged(f, k) = [request |-> q, sent |-> t, gone |-> v, taken |-> k, spoiled |-> s, result |-> r]
        BY <1>6, <3>1, <4>1
      <4>3. Exchanged(f, k) = [e EXCEPT !.sent = t]
        BY <4>2, ExchangeMarked
      <4>. QED BY <4>1, <4>3
    <3>3. Exchanging' = [Exchanging EXCEPT ![c] = [e EXCEPT !.sent = TRUE]]
      BY <2>4, <3>2
    <3>. QED BY <1>1, <1>5, <3>3, ExchangeMoves
  <2>7. CASE n # Len(Text(g.request))
    <3>1. g.arrived # Len(Text(g.request))
      BY <2>1, <2>5
    <3>2. Exchanged(f, k) = [request |-> g.request, sent |-> FALSE, gone |-> g.gone, taken |-> k,
                          spoiled |-> g.spoiled, result |-> g.result]
      BY <2>3, <2>7 DEF Exchanged
    <3>3. e = [request |-> g.request, sent |-> FALSE, gone |-> g.gone, taken |-> k,
               spoiled |-> g.spoiled, result |-> g.result]
      BY <1>6, <1>9, <3>1
    <3>4. Exchanging' = Exchanging
      BY <1>5, <2>4, <3>2, <3>3 DEF Exchanging
    <3>. QED BY <1>1, <3>4, ExchangeStutters
  <2>. QED BY <2>6, <2>7
<1>8. CASE HangUp(c)
  <2>. DEFINE f == [g EXCEPT !.gone = TRUE]
  <2>1. conns' = [conns EXCEPT ![c] = f]
    BY <1>3, <1>8 DEF HangUp
  <2>2. f.request = g.request /\ f.arrived = g.arrived /\ f.gone = TRUE /\ f.spoiled = g.spoiled
        /\ f.result = g.result
    BY DEF GoodConnection, ConnectionType
  <2>. HIDE DEF f
  <2>3. Exchanging' = [Exchanging EXCEPT ![c] = Exchanged(f, k)]
    BY <1>1, <1>10, <2>1, OneExchange
  <2>4. Exchanged(f, k) = [request |-> g.request, sent |-> b, gone |-> TRUE, taken |-> k,
                        spoiled |-> g.spoiled, result |-> g.result]
    BY <1>9, <2>2 DEF Exchanged
  <2>5. Exchanged(f, k) = [e EXCEPT !.gone = TRUE]
    <3>1. PICK q, v, s, r, t : /\ q = g.request /\ v = g.gone /\ s = g.spoiled
                               /\ r = g.result /\ t = TRUE
      OBVIOUS
    <3>2. /\ e = [request |-> q, sent |-> b, gone |-> v, taken |-> k, spoiled |-> s, result |-> r]
          /\ Exchanged(f, k) = [request |-> q, sent |-> b, gone |-> t, taken |-> k, spoiled |-> s, result |-> r]
      BY <1>6, <2>4, <3>1
    <3>3. Exchanged(f, k) = [e EXCEPT !.gone = t]
      BY <3>2, ExchangeMarked
    <3>. QED BY <3>1, <3>3
  <2>6. Exchanging' = [Exchanging EXCEPT ![c] = [e EXCEPT !.gone = TRUE]]
    BY <2>3, <2>5
  <2>. QED BY <1>1, <1>5, <2>6, ExchangeMoves
<1>. QED BY <1>7, <1>8

LEMMA AcceptImplements ==
    ASSUME HttpBounds, SlotInv, OutcomeInv, Accept, ~Blocked, UNCHANGED Blocked
    PROVE  ExchangeStep
<1>. DEFINE c == accepted + 1
<1>1. c \in 1..Len(conns) /\ c \in (accepted + 1)..Len(conns) /\ accepted \in Nat /\ up = TRUE
  BY AllBounds DEF Accept, HttpBounds, HttpTyped
<1>2. \A d \in 1..Len(conns) : d <= accepted <=> d < c
  BY <1>1
<1>3. (c <= accepted) = FALSE /\ (c <= c) = TRUE
  BY <1>1
<1>. PICK no : no = FALSE /\ no = (c <= accepted)
  BY <1>3
<1>4. conns[c] \in GoodConnection /\ Exchanging[c] = Exchanged(conns[c], no)
  BY <1>1, <1>3, ConnectedType
<1>5. conns[c].result = "none" /\ ~conns[c].spoiled
  BY <1>1 DEF SlotInv, WaitingHaveNone, OutcomeInv, UntouchedBefore
<1>6. PICK g \in GoodConnection : g = conns[c]
  BY <1>4
<1>7. PICK e : e = Exchanged(g, no)
  OBVIOUS
<1>8. e = Exchanging[c] /\ e.taken = FALSE /\ e.spoiled = FALSE
  BY <1>4, <1>5, <1>6, <1>7, ExchangedTyped
<1>9. CASE TakeClient
  <2>1. accepted' = c /\ UNCHANGED <<script, up>>
    BY <1>9 DEF TakeClient
  <2>2. PICK b \in BOOLEAN : conns' = [conns EXCEPT ![c].spoiled = b]
    BY <1>9 DEF TakeClient
  <2>. DEFINE h == [g EXCEPT !.spoiled = b]
  <2>3. h.request = g.request /\ h.arrived = g.arrived /\ h.gone = g.gone /\ h.result = g.result
        /\ h.spoiled = b
    BY DEF GoodConnection, ConnectionType
  <2>4. conns' = [conns EXCEPT ![c] = h]
    BY <1>6, <2>2
  <2>. HIDE DEF h
  <2>5. DOMAIN conns = 1..Len(conns) /\ DOMAIN conns' = 1..Len(conns) /\ conns'[c] = h
        /\ \A d \in 1..Len(conns) : d # c => conns'[d] = conns[d]
    BY <1>1, <2>4, AllBounds
  <2>6. Exchanging' = [d \in 1..Len(conns) |-> Exchanged(conns'[d], d <= c)]
    BY <2>1, <2>5 DEF Exchanging
  <2>7. Exchanged(h, TRUE) = [e EXCEPT !.taken = TRUE, !.spoiled = b]
    <3>1. PICK t : t = TRUE
      OBVIOUS
    <3>2. Exchanged(g, t) = [e EXCEPT !.taken = t]
      BY <1>7, ExchangedTaken
    <3>3. Exchanged(h, t) = [Exchanged(g, t) EXCEPT !.spoiled = h.spoiled]
      BY <2>3, ExchangedSpoiled
    <3>. QED BY <2>3, <3>1, <3>2, <3>3
  <2>8. \A d \in 1..Len(conns) : d # c => (d <= c) = (d <= accepted)
    BY <1>1
  <2>9. Exchanging' = [Exchanging EXCEPT ![c] = [e EXCEPT !.taken = TRUE, !.spoiled = b]]
    <3>. DEFINE y == [e EXCEPT !.taken = TRUE, !.spoiled = b]
    <3>1. Exchanging = [d \in 1..Len(conns) |-> Exchanged(conns[d], d <= accepted)]
      BY <2>5 DEF Exchanging
    <3>2. \A d \in 1..Len(conns) : d # c => Exchanged(conns'[d], d <= c) = Exchanging[d]
      BY <2>5, <2>8, <3>1
    <3>3. Exchanged(conns'[c], c <= c) = y
      BY <1>3, <2>5, <2>7
    <3>. HIDE DEF y, c
    <3>4. [Exchanging EXCEPT ![c] = y] =
            [d \in 1..Len(conns) |-> IF d = c THEN y ELSE Exchanging[d]]
      BY <3>1
    <3>5. \A d \in 1..Len(conns) :
            Exchanged(conns'[d], d <= c) = (IF d = c THEN y ELSE Exchanging[d])
      BY <3>2, <3>3
    <3>6. Exchanging' = [Exchanging EXCEPT ![c] = y]
      BY <2>6, <3>4, <3>5
    <3>. QED BY <3>6 DEF y
  <2>10. \A d \in DOMAIN conns : Exchanging[d].taken <=> d < c
    <3>1. ASSUME NEW d \in 1..Len(conns) PROVE Exchanging[d].taken <=> d < c
      <4>1. PICK t : t = (d <= accepted)
        OBVIOUS
      <4>2. PICK f \in GoodConnection : f = conns[d]
        BY ConnectedType
      <4>3. Exchanging[d] = Exchanged(f, t)
        BY <4>1, <4>2, ConnectedType
      <4>4. Exchanging[d].taken = t
        BY <4>3, ExchangedTyped
      <4>. QED BY <1>2, <4>1, <4>4
    <3>. QED BY <2>5, <3>1
  <2>11. b \in {e.spoiled, TRUE} /\ c \in DOMAIN conns
    BY <1>1, <1>8, <2>5
  <2>. HIDE DEF c
  <2>12. Exchanges!Take(c)
    BY <1>1, <1>8, <2>1, <2>9, <2>10, <2>11, ExchangeTakes
  <2>. QED BY <2>1, <2>11, <2>12 DEF ExchangeStep, Exchanges!Next
<1>10. CASE AcceptFails
  <2>1. up' = FALSE /\ UNCHANGED <<script, Exchanging>>
    BY <1>10 DEF AcceptFails, Exchanging
  <2>2. Exchanges!GiveUp
    BY <1>1, <1>8, <2>1, AllBounds, ExchangeGivesUp
  <2>. QED BY <2>1, <2>2 DEF ExchangeStep, Exchanges!Next
<1>. QED BY <1>9, <1>10 DEF Accept

\* A slot that is open between two calls of api_data.
LEMMA OpenSlot ==
    ASSUME HttpBounds, SlotInv, OutcomeInv, NEW i \in DOMAIN clients, batch = NoBatch,
           clients[i].fd # Closed
    PROVE  /\ clients[i].fd \in 1..accepted /\ clients[i].fd \in 1..Len(conns)
           /\ conns[clients[i].fd] \in GoodConnection
           /\ conns[clients[i].fd].result = "none" /\ clients[i] \in ClientType
           /\ conns[clients[i].fd].spoiled \/ Waits(clients[i], conns[clients[i].fd])
<1>1. BetweenCalls(i)
  BY AllBounds DEF OutcomeInv, NoBatch
<1>. QED BY <1>1, HeldConnection, SlotBounds
         DEF BetweenCalls, Keeps, SlotInv, SlotUntilOutcome

LEMMA ApiDataImplements ==
    ASSUME HttpBounds, SlotInv, OutcomeInv, NEW i \in DOMAIN clients, ApiData(i),
           ~Blocked, UNCHANGED Blocked, up' \in BOOLEAN
    PROVE  ExchangeStep
<1>. DEFINE k == clients[i]
            c == k.fd
            e == conns[c]
<1>1. up /\ batch = NoBatch /\ c # Closed /\ UNCHANGED <<script, up, accepted>>
  BY DEF ApiData, Drop, ReceiveEnd, Receive
<1>2. /\ c \in 1..accepted /\ c \in 1..Len(conns) /\ e \in GoodConnection /\ e.result = "none" /\ k \in ClientType
      /\ e.spoiled \/ Waits(k, e)
  BY <1>1, OpenSlot
<1>3. PICK d \in 1..accepted : d = c
  BY <1>2
<1>4. CASE Drop(i)
  <2>1. conns' = [conns EXCEPT ![d].result = "dropped"]
    BY <1>3, <1>4 DEF Drop
  <2>2. "dropped" \in Exchanges!Promised(conns[d].request) \/ conns[d].spoiled
    <3>1. ASSUME ~e.spoiled PROVE "dropped" \in Exchanges!Promised(e.request)
      <4>1. e.request.payload > SizeLimit /\ ~Refusable(e.request)
        <5>. HIDE DEF e, k
        <5>. QED BY <1>2, <1>4, <3>1, LimitFollows DEF Drop, k
      <4>. QED BY <4>1 DEF Exchanges!Promised, Refusable
    <3>. QED BY <1>3, <3>1
  <2>3. PICK v \in Exchanges!Outcomes : v = "dropped"
    BY DEF Exchanges!Outcomes
  <2>4. /\ conns[d].result = "none" /\ conns' = [conns EXCEPT ![d].result = v]
        /\ v \in Exchanges!Promised(conns[d].request) \/ conns[d].spoiled
    BY <1>2, <1>3, <2>1, <2>2, <2>3
  <2>. HIDE DEF c, e, k
  <2>. QED BY <1>1, <2>4, OutcomeStep
<1>5. CASE ReceiveEnd(i)
  <2>1. conns' = [conns EXCEPT ![d].result = "lost"] /\ conns[d].gone
    BY <1>3, <1>5 DEF ReceiveEnd
  <2>2. PICK v \in Exchanges!Outcomes : v = "lost"
    BY DEF Exchanges!Outcomes
  <2>3. /\ conns[d].result = "none" /\ conns' = [conns EXCEPT ![d].result = v]
        /\ conns[d].gone /\ v = "lost"
    BY <1>2, <1>3, <2>1, <2>2
  <2>. HIDE DEF c, e, k
  <2>. QED BY <1>1, <2>3, OutcomeStep
<1>6. CASE Receive(i)
  <2>. DEFINE n == e.read + Received(k)
              h == conns'[c]
              g == [e EXCEPT !.read = n]
  <2>1. /\ h \in GoodConnection /\ conns' = [conns EXCEPT ![c] = h]
        /\ h.spoiled = (e.spoiled \/ Torn(Text(e.request), n))
        /\ h = [g EXCEPT !.spoiled = h.spoiled]
    BY <1>6, ReceivedConnection
  <2>2. g.request = e.request /\ g.arrived = e.arrived /\ g.gone = e.gone /\ g.result = e.result
        /\ g \in ConnectionType
    <3>. HIDE DEF e
    <3>1. n \in Nat
      BY <1>6, ReceivedCount DEF e
    <3>. HIDE DEF n
    <3>. QED BY <1>2, <3>1 DEF GoodConnection, ConnectionType
  <2>. HIDE DEF g, h, e
  <2>3. h.request = e.request /\ h.arrived = e.arrived /\ h.gone = e.gone /\ h.result = e.result
    BY <2>1, <2>2 DEF ConnectionType
  <2>4. h.spoiled \in {e.spoiled, TRUE}
    <3>1. h.spoiled \in BOOLEAN /\ e.spoiled \in BOOLEAN
      BY <1>2, <2>1, ConnectionTyped
    <3>. QED BY <2>1, <3>1
  <2>5. PICK f \in GoodConnection : f = h
    BY <2>1
  <2>6. /\ conns[d].result = "none" /\ conns' = [conns EXCEPT ![d] = f]
        /\ f.request = conns[d].request /\ f.arrived = conns[d].arrived /\ f.gone = conns[d].gone
        /\ f.result = conns[d].result /\ f.spoiled \in {conns[d].spoiled, TRUE}
    BY <1>2, <1>3, <2>1, <2>3, <2>4, <2>5 DEF e
  <2>. HIDE DEF c, k, n
  <2>. QED BY <1>1, <2>6, SpoilingStep
<1>. QED BY <1>4, <1>5, <1>6 DEF ApiData

LEMMA HandleBatchImplements ==
    ASSUME HttpBounds, SlotInv, OutcomeInv, HandleBatch,
           ~Blocked, UNCHANGED Blocked, up' \in BOOLEAN
    PROVE  ExchangeStep
<1>1. up /\ batch # NoBatch /\ UNCHANGED <<script, accepted>>
  BY DEF HandleBatch, Line, Body, KeepRest
<1>2. batch.conn \in 1..accepted /\ Client \in ClientType
  BY <1>1, BatchTyped
<1>3. PICK d \in 1..accepted : d = batch.conn
  BY <1>2
<1>4. CASE Line
  <2>1. PICK p \in LineEnds :
          LET line == SubSeq(batch.text, 1, p - 1)
              k == HandleHeader(Client, line)
          IN  /\ \A q \in LineEnds : p <= q
              /\ p \in 1..(Len(batch.text) - 1) /\ p > batch.start
              /\ batch.text[p] = CR /\ line \in Seq(TokenSet)
              /\ Client.state # "data" /\ k \in ClientType
              /\ clients' = [clients EXCEPT ![batch.slot] = k]
              /\ conns' = IF Client.fd # Closed /\ k.fd = Closed
                          THEN [conns EXCEPT ![batch.conn].result = "refused"] ELSE conns
              /\ batch'.slot = batch.slot /\ batch'.conn = batch.conn
              /\ batch'.start = 0 /\ batch'.text = RestAfter(p, k)
    BY <1>4, LineTaken
  <2>. DEFINE k == HandleHeader(Client, SubSeq(batch.text, 1, p - 1))
  <2>2. up' = up
    BY <1>4 DEF Line
  <2>3. CASE conns' = conns
    BY <1>1, <2>2, <2>3, ExchangeStutters DEF Exchanging
  <2>4. CASE conns' # conns
    <3>1. Client.fd # Closed /\ k.fd = Closed /\ conns' = [conns EXCEPT ![d].result = "refused"]
      BY <1>3, <2>1, <2>4
    <3>2. conns[batch.conn].spoiled \/ Refusable(conns[batch.conn].request)
      BY <1>1, <2>1, <3>1, LineScans
    <3>3. conns[d].result = "none"
      BY <1>1, <1>3, <3>1, BatchOutcome
    <3>4. PICK v \in Exchanges!Outcomes : v = "refused"
      BY DEF Exchanges!Outcomes
    <3>5. v \in Exchanges!Promised(conns[d].request) \/ conns[d].spoiled
      BY <1>3, <3>2, <3>4 DEF Exchanges!Promised, Refusable
    <3>6. conns' = [conns EXCEPT ![d].result = v]
      BY <3>1, <3>4
    <3>. HIDE DEF k
    <3>. QED BY <1>1, <2>2, <3>3, <3>5, <3>6, OutcomeStep
  <2>. QED BY <2>3, <2>4
<1>5. CASE Body
  <2>. DEFINE w == Outcome(conns[batch.conn].request)
  <2>1. conns' = [conns EXCEPT ![d].result = w] /\ w \in Exchanges!Outcomes
    BY <1>3, <1>5 DEF Body, Outcome, Exchanges!Outcomes
  <2>2. up = TRUE
    BY <1>1 DEF HttpBounds, HttpTyped
  <2>3. ASSUME ~conns[batch.conn].spoiled
        PROVE  /\ conns[batch.conn].result = "none" /\ (conns[batch.conn].gone \/ UNCHANGED up)
               /\ w \in Exchanges!Promised(conns[batch.conn].request)
    <3>1. Client.fd = batch.conn /\ Client.fd # Closed /\ (conns[batch.conn].gone \/ up' = TRUE)
      BY <1>5, <2>3, BodyOpen
    <3>2. /\ conns[batch.conn] \in GoodConnection /\ conns[batch.conn].result = "none"
          /\ Scans(Client, conns[batch.conn], batch.text, batch.start)
      BY <1>1, <3>1, BatchOutcome
    <3>3. w = "executed" /\ ~Refusable(conns[batch.conn].request)
      <4>1. Goes(Client, conns[batch.conn], batch.text, batch.start)
        BY <2>3, <3>2 DEF Scans
      <4>2. batch.start \in Nat
        BY <1>1, BatchTyped DEF BatchType
      <4>3. PICK k \in ClientType, e \in GoodConnection, start \in Nat, text \in {batch.text} :
              k = Client /\ e = conns[batch.conn] /\ text = batch.text /\ start = batch.start
        BY <1>2, <3>2, <4>2, Zenon
      <4>4. /\ Goes(k, e, text, start) /\ k.state = "data"
            /\ k.payload > 0 => Len(text) = k.payload
        BY <1>5, <4>1, <4>3 DEF Body, PayloadComplete
      <4>5. /\ k.endpoint = <<e.request.target>>
            /\ SubSeq(text, 1, k.payload) = Payload(e.request)
            /\ ~Refusable(e.request)
        BY <4>4, BodyFollows
      <4>. QED BY <4>3, <4>5 DEF Outcome
    <3>. QED BY <2>2, <3>1, <3>2, <3>3 DEF Exchanges!Promised, Refusable
  <2>4. PICK v \in Exchanges!Outcomes : v = w
    BY <2>1
  <2>5. /\ conns[d].result = "none" \/ conns[d].spoiled
        /\ conns' = [conns EXCEPT ![d].result = v]
        /\ v \in Exchanges!Promised(conns[d].request) \/ conns[d].spoiled
        /\ conns[d].gone \/ conns[d].spoiled \/ UNCHANGED up
    BY <1>3, <2>1, <2>3, <2>4
  <2>. HIDE DEF w
  <2>. QED BY <1>1, <2>5, OutcomeStep
<1>6. CASE KeepRest
  BY <1>6, ExchangeStutters DEF KeepRest, Exchanging
<1>. QED BY <1>4, <1>5, <1>6 DEF HandleBatch

\* The daemon is held up neither before nor after a step of api_loop.
LEMMA NotHeldUp ==
    ASSUME Listen \/ \E i \in DOMAIN clients : ApiSlot(i)
    PROVE  ~Blocked /\ ~Blocked'
<1>1. CASE Listen
  <2>1. at[1] = "listen" /\ at' = <<"api", 1>>
    BY <1>1 DEF Listen
  <2>2. at'[1] = "api"
    BY <2>1
  <2>. QED BY <2>1, <2>2 DEF Blocked
<1>2. ASSUME NEW i \in DOMAIN clients, ApiSlot(i) PROVE ~Blocked /\ ~Blocked'
  <2>1. at = <<"api", i>> /\ (at' = <<"api", i + 1>> \/ at' = at)
    BY <1>2 DEF ApiSlot
  <2>2. at[1] = "api" /\ at'[1] = "api"
    BY <2>1
  <2>. QED BY <2>2 DEF Blocked
<1>. QED BY <1>1, <1>2

\* What a HTTP client does holds it up no longer, and does not free it.
LEMMA ClientsHoldNothing ==
    ASSUME HttpEnvironment, UNCHANGED controlVars, UNCHANGED loopVars
    PROVE  UNCHANGED Blocked
<1>1. UNCHANGED <<up, at, inputs, scan, streams, opened, ready, files>>
  BY DEF HttpEnvironment, Connect, Arrive, HangUp, controlVars, loopVars
<1>2. \A s : HasInput(<<"control", s>>) =
               (IF streams[s].type = "socket" THEN opened < Len(streams)
                ELSE streams[s].read < streams[s].written \/ streams[s].gone)
  BY DEF HasInput, Listener
<1>3. \A s : HasInput(<<"control", s>>)' = HasInput(<<"control", s>>)
  BY <1>1 DEF HasInput, Listener
<1>. QED BY <1>1, <1>3 DEF Blocked, Isset

LEMMA InputsImplement ==
    ASSUME HttpBounds, SlotInv, OutcomeInv, Next, up' \in BOOLEAN
    PROVE  ExchangeStep
<1>1. CASE Listen
  <2>1. ~Blocked /\ UNCHANGED Blocked
    BY <1>1, NotHeldUp, BlockedTyped
  <2>2. CASE Accept
    BY <2>1, <2>2, AcceptImplements
  <2>3. CASE UNCHANGED httpVars
    BY <2>3, ExchangeStutters DEF httpVars, Exchanging
  <2>. QED BY <1>1, <2>2, <2>3 DEF Listen
<1>2. ASSUME NEW i \in DOMAIN clients, ApiSlot(i) PROVE ExchangeStep
  <2>1. ~Blocked /\ UNCHANGED Blocked
    BY <1>2, NotHeldUp, BlockedTyped
  <2>2. CASE HandleBatch
    BY <2>1, <2>2, HandleBatchImplements
  <2>3. CASE ApiData(i)
    BY <2>1, <2>3, ApiDataImplements
  <2>4. CASE UNCHANGED httpVars
    BY <2>4, ExchangeStutters DEF httpVars, Exchanging
  <2>. QED BY <1>2, <2>2, <2>3, <2>4 DEF ApiSlot
<1>3. CASE EndApi \/ EndControl \/ Select \/ \E i \in DOMAIN inputs : ControlSlot(i)
  <2>1. UNCHANGED httpVars
    BY <1>3 DEF EndApi, EndControl, Select, ControlSlot
  <2>. QED BY <2>1, ExchangeStutters DEF httpVars, Exchanging
<1>4. CASE Environment
  <2>1. CASE UNCHANGED httpVars
    BY <2>1, ExchangeStutters DEF httpVars, Exchanging
  <2>2. CASE HttpEnvironment /\ UNCHANGED controlVars
    <3>1. UNCHANGED Blocked
      BY <1>4, <2>2, ClientsHoldNothing DEF Environment
    <3>2. CASE Connect
      BY <3>1, <3>2, ExchangeBegins
    <3>3. CASE \E c \in DOMAIN conns : Arrive(c) \/ HangUp(c)
      BY <3>1, <3>3, ArriveImplements
    <3>. QED BY <2>2, <3>2, <3>3 DEF HttpEnvironment
  <2>. QED BY <1>4, <2>1, <2>2 DEF Environment
<1>. QED BY <1>1, <1>2, <1>3, <1>4 DEF Next, Round

LEMMA ExchangesInit == Init => Exchanges!Init
<1>. SUFFICES ASSUME Init PROVE Exchanges!Init
  OBVIOUS
<1>1. script \in Conversations /\ conns = <<>> /\ up = TRUE /\ at = <<"listen", 0>>
  BY DEF Init, HttpInit
<1>2. at[1] # "control"
  BY <1>1
<1>3. Blocked = FALSE
  BY <1>2, BlockedTyped DEF Blocked
<1>. QED BY <1>1, <1>3 DEF Exchanges!Init

\* The HTTP server implements Exchange, but for its liveness: in whatever pieces requests arrive,
\* whatever slots their clients get and whatever the control inputs do meanwhile, a request has
\* one outcome, the one it asks for, unless its client hung up or its connection is spoiled, and
\* nothing ends the daemon but a client that hung up or cannot be accepted, or a spoiled
\* connection (api_accept, api_data, api_handle_header, api_handle_body).
THEOREM RequestsDecided == Spec => RequestsAreDecided
<1>1. HttpBounds /\ SlotInv /\ OutcomeInv /\ HttpBounds' /\ [Next]_vars =>
        [Exchanges!Next /\ (up' => up)]_Exchanges!exchangeVars
  <2>. SUFFICES ASSUME HttpBounds, SlotInv, OutcomeInv, HttpBounds', [Next]_vars
                PROVE  [Exchanges!Next /\ (up' => up)]_Exchanges!exchangeVars
    OBVIOUS
  <2>1. CASE Next
    <3>1. up' \in BOOLEAN
      BY DEF HttpBounds, HttpTyped
    <3>. QED BY <2>1, <3>1, InputsImplement DEF ExchangeStep
  <2>2. CASE UNCHANGED vars
    <3>1. ExchangeStep
      BY <2>2, ExchangeStutters DEF vars, httpVars, Exchanging
    <3>. QED BY <3>1 DEF ExchangeStep
  <2>. QED BY <2>1, <2>2
<1>2. HttpInit => HttpBounds /\ SlotInv /\ OutcomeInv
  BY BoundsInit, SlotInit, OutcomeInit
<1>3. Spec => [](HttpBounds /\ SlotInv /\ OutcomeInv)
  BY <1>2, BoundsNext, SlotNext, OutcomeNext, PartsImplemented, PTL DEF HttpSpec
<1>4. Init => Exchanges!Init
  BY ExchangesInit
<1>. QED BY <1>1, <1>3, <1>4, PTL DEF Spec, RequestsAreDecided, Exchanges!Spec

-----------------------------------------------------------------------------
(* Who has something to read when its turn comes *)

\* Each open descriptor has a number, and a number has an open descriptor or none.
Filed ==
    /\ \E k \in Nat : DOMAIN files = 1..k
    /\ \A n \in DOMAIN files : files[n] \in OpenFiles \cup {Nobody}
    /\ \A d \in OpenFiles : \E n \in DOMAIN files : files[n] = d

\* What is gone through belongs to the slot whose turn it is.
Serving ==
    /\ at = <<at[1], at[2]>> /\ at[1] \in {"listen", "api", "control", "select"} /\ at[2] \in Nat
    /\ batch # NoBatch => at = <<"api", batch.slot>>
    /\ scan # NoScan => at = <<"control", scan.slot>>
    /\ at[1] = "control" => up

\* Only what the socket has accepted and what it may accept are clients of it.
Kinds ==
    /\ \A i, j \in DOMAIN inputs : inputs[i].type = "socket" /\ inputs[j].type = "socket" => i = j
    /\ \A i \in DOMAIN inputs :
         inputs[i].fd # Unused => streams[inputs[i].fd].type = inputs[i].type
    /\ \A s \in DOMAIN streams : s > opened => streams[s].type = "client"

\* The turn of an open descriptor is still to come.
Ahead(d) ==
    \/ at[1] = "listen" /\ d # Listener
    \/ at[1] = "api" /\ d[1] = "control"
    \/ at[1] = "api" /\ \E i \in DOMAIN clients : i > at[2] /\ d = <<"http", clients[i].fd>>
    \/ at[1] = "control" /\ \E i \in DOMAIN inputs : i > at[2] /\ d = <<"control", inputs[i].fd>>

\* What is asked for has had its turn, and is open.
AskedOpen ==
    \A n \in asked : /\ n \in DOMAIN files /\ files[n] \in OpenFiles
                     /\ ~Ahead(files[n]) /\ files[n] # Turn

\* What select has reported has something to read until its turn.
Waiting(n) ==
    /\ files[n] = reported[n] /\ files[n] # Nobody
    /\ Ahead(files[n]) \/ (files[n] = Turn /\ batch = NoBatch /\ scan = NoScan) => HasInput(files[n])

\* It has been closed, by a client of the HTTP server, or by an input whose entry is free for the
\* socket if that comes later.
Freed(n) ==
    /\ files[n] = Nobody
    /\ \/ at[1] \in {"api", "control"} /\ reported[n][1] = "http"
       \/ /\ at[1] = "control"
          /\ \/ \E l \in DOMAIN inputs : l < at[2] /\ inputs[l].fd = Unused
             \/ \A i \in DOMAIN inputs : inputs[i].type = "socket" => i < at[2]

\* Its number was given to a client of the socket, whose turn does not come in this round unless
\* a client of the HTTP server had the number.
Given(n) ==
    /\ at[1] = "control"
    /\ \E j \in DOMAIN inputs : /\ files[n] = <<"control", inputs[j].fd>>
                                /\ inputs[j].fd # Unused /\ inputs[j].type = "client"
                                /\ reported[n][1] = "http" \/ j < at[2]

ReadyOpen ==
    /\ at[1] = "select" => ready = {}
    /\ \A n \in ready : /\ n \in DOMAIN files
                        /\ Waiting(n) \/ Freed(n) \/ Given(n)

RoundInv == Filed /\ Serving /\ Kinds /\ AskedOpen /\ ReadyOpen

\* Every set of numbers has a least one.
LEMMA LeastNumber ==
    ASSUME NEW T \in SUBSET Nat, T # {}
    PROVE  \E n \in T : \A m \in T : n <= m
<1> DEFINE Upto(n) == 0..n
           D == {Upto(n) : n \in T}
           R == StrictSubsetOrdering(Nat)
           S == FiniteSubsetsOf(Nat)
<1>1. IsWellFoundedOn(R, S)
  BY FS_StrictSubsetOrderingWellFounded
<1>2. \A n \in T : Upto(n) \in S
  BY FS_Interval DEF FiniteSubsetsOf
<1>3. D \subseteq S /\ D # {}
  BY <1>2
<1>4. PICK x \in D : \A y \in D : ~(<<y, x>> \in R)
  <2> HIDE DEF D, R, S
  <2>. QED BY <1>1, <1>3, WFMin
<1>5. PICK n \in T : x = Upto(n)
  BY <1>4
<1>6. ASSUME NEW m \in T, ~(n <= m) PROVE FALSE
  <2>1. Upto(m) \subseteq Upto(n) /\ n \in Upto(n) /\ n \notin Upto(m)
    BY <1>6
  <2>2. <<Upto(m), x>> \in R
    <3>1. Upto(m) \in SUBSET Nat /\ Upto(n) \in SUBSET Nat
      OBVIOUS
    <3>. QED BY <1>5, <2>1, <3>1 DEF StrictSubsetOrdering
  <2>3. Upto(m) \in D
    OBVIOUS
  <2>. QED BY <1>4, <2>2, <2>3
<1>. QED BY <1>5, <1>6

\* Nobody is not open.
LEMMA NobodyIsClosed == Nobody \notin OpenFiles
BY DEF Nobody, OpenFiles, Listener

\* What is still open keeps its number.
LEMMA NumbersKept ==
    ASSUME Filed, NEW open, Nobody \notin open, open \subseteq OpenFiles
    PROVE  /\ DOMAIN Numbered(open) = DOMAIN files
           /\ \A n \in DOMAIN files :
                Numbered(open)[n] = IF files[n] \in open THEN files[n] ELSE Nobody
<1>1. {d \in open : \A n \in DOMAIN files : files[n] # d} = {}
  BY DEF Filed
<1>. QED BY <1>1 DEF Numbered

\* What is opened gets a number that is free.
LEMMA NumberGiven ==
    ASSUME Filed, NEW d, d \notin OpenFiles, d # Nobody
    PROVE  \E m \in Nat :
             /\ m \in DOMAIN files => files[m] = Nobody
             /\ \E k \in Nat : DOMAIN files \cup {m} = 1..k
             /\ DOMAIN Numbered(OpenFiles \cup {d}) = DOMAIN files \cup {m}
             /\ Numbered(OpenFiles \cup {d})[m] = d
             /\ \A n \in DOMAIN files \ {m} : Numbered(OpenFiles \cup {d})[n] = files[n]
<1> DEFINE open == OpenFiles \cup {d}
           kept == [n \in DOMAIN files |-> IF files[n] \in open THEN files[n] ELSE Nobody]
           fresh == {e \in open : \A n \in DOMAIN files : files[n] # e}
<1>1. PICK k \in Nat : DOMAIN files = 1..k
  BY DEF Filed
<1>2. kept = [n \in 1..k |-> files[n]]
  <2>1. \A n \in 1..k : (IF files[n] \in open THEN files[n] ELSE Nobody) = files[n]
    BY <1>1 DEF Filed
  <2>. QED BY <1>1, <2>1
<1>3. fresh = {d}
  <2>1. \A n \in DOMAIN files : files[n] # d
    BY DEF Filed
  <2>. QED BY <2>1 DEF Filed
<1> DEFINE Free(n) == /\ n \in DOMAIN kept => kept[n] = Nobody
                      /\ \A l \in 1..(n - 1) : kept[l] # Nobody
           slot == CHOOSE n \in 1..(Len(kept) + 1) : Free(n)
<1>4. Len(kept) = k /\ DOMAIN kept = 1..k
  BY <1>2
<1> HIDE DEF kept, fresh
<1>5. \E n \in 1..(k + 1) : Free(n)
  <2> DEFINE T == {n \in 1..(k + 1) : n \in DOMAIN kept => kept[n] = Nobody}
  <2>1. T \in SUBSET Nat
    OBVIOUS
  <2>2. k + 1 \in T
    <3>1. k + 1 \notin DOMAIN kept
      BY <1>4
    <3>. QED BY <3>1
  <2> HIDE DEF T
  <2>3. PICK n \in T : \A m \in T : n <= m
    BY <2>1, <2>2, LeastNumber
  <2>4. n \in 1..(k + 1) /\ (n \in DOMAIN kept => kept[n] = Nobody)
    BY DEF T
  <2>5. ASSUME NEW l \in 1..(n - 1) PROVE kept[l] # Nobody
    <3>1. l \notin T
      BY <2>3, <2>4
    <3>2. l \in 1..(k + 1)
      BY <2>4
    <3>. QED BY <3>1, <3>2 DEF T
  <2>. QED BY <2>4, <2>5
<1>6. slot \in 1..(k + 1) /\ Free(slot)
  BY <1>4, <1>5
<1>7. Numbered(open) = [n \in DOMAIN kept \cup {slot} |->
                          IF n = slot THEN CHOOSE e \in fresh : TRUE ELSE kept[n]]
  <2>1. fresh # {}
    BY <1>3
  <2>. QED BY <2>1 DEF Numbered, kept, fresh
<1>8. (CHOOSE e \in fresh : TRUE) = d
  BY <1>3
<1> HIDE DEF slot
<1>9. slot \in DOMAIN files => files[slot] = Nobody
  BY <1>1, <1>2, <1>6
<1>10. \E l \in Nat : DOMAIN files \cup {slot} = 1..l
  <2>1. CASE slot \in 1..k
    <3>1. DOMAIN files \cup {slot} = 1..k
      BY <1>1, <2>1
    <3>. QED BY <3>1
  <2>2. CASE slot = k + 1
    <3>1. DOMAIN files \cup {slot} = 1..(k + 1)
      BY <1>1, <2>2
    <3>. QED BY <3>1
  <2>. QED BY <1>6, <2>1, <2>2
<1>11. slot \in Nat
  BY <1>6
<1>. QED BY <1>1, <1>2, <1>4, <1>7, <1>8, <1>9, <1>10, <1>11

\* After a handler that has opened nothing.
LEMMA StillFiled ==
    ASSUME Filed, OpenFiles' \subseteq OpenFiles, files' = Numbered(OpenFiles')
    PROVE  /\ Filed'
           /\ DOMAIN files' = DOMAIN files
           /\ \A n \in DOMAIN files :
                files'[n] = IF files[n] \in OpenFiles' THEN files[n] ELSE Nobody
<1>1. PICK open : open = OpenFiles'
  OBVIOUS
<1>2. Nobody \notin open /\ open \subseteq OpenFiles
  BY <1>1, NobodyIsClosed
<1>3. /\ DOMAIN files' = DOMAIN files
      /\ \A n \in DOMAIN files : files'[n] = IF files[n] \in open THEN files[n] ELSE Nobody
  BY <1>1, <1>2, NumbersKept
<1>4. \A d \in open : \E n \in DOMAIN files' : files'[n] = d
  BY <1>2, <1>3 DEF Filed
<1>. QED BY <1>1, <1>3, <1>4 DEF Filed

\* After one that has opened something.
LEMMA FiledAgain ==
    ASSUME Filed, NEW d, d \notin OpenFiles, d # Nobody, OpenFiles' = OpenFiles \cup {d},
           files' = Numbered(OpenFiles')
    PROVE  /\ Filed'
           /\ \E m \in Nat :
                /\ m \in DOMAIN files => files[m] = Nobody
                /\ DOMAIN files' = DOMAIN files \cup {m}
                /\ files'[m] = d
                /\ \A n \in DOMAIN files \ {m} : files'[n] = files[n]
<1>1. PICK m \in Nat :
             /\ m \in DOMAIN files => files[m] = Nobody
             /\ \E k \in Nat : DOMAIN files \cup {m} = 1..k
             /\ DOMAIN files' = DOMAIN files \cup {m}
             /\ files'[m] = d
             /\ \A n \in DOMAIN files \ {m} : files'[n] = files[n]
  BY NumberGiven
<1>2. \A n \in DOMAIN files' : files'[n] \in OpenFiles \cup {d} \cup {Nobody}
  BY <1>1 DEF Filed
<1>3. ASSUME NEW e \in OpenFiles PROVE \E n \in DOMAIN files' : files'[n] = e
  <2>1. PICK n \in DOMAIN files : files[n] = e
    BY DEF Filed
  <2>2. n # m
    BY <1>1, <2>1, NobodyIsClosed
  <2>. QED BY <1>1, <2>1, <2>2
<1>4. \A e \in OpenFiles \cup {d} : \E n \in DOMAIN files' : files'[n] = e
  BY <1>1, <1>3
<1>. QED BY <1>1, <1>2, <1>4 DEF Filed

\* What the slots have, as HttpConnection and ControlInput have it.
Slots ==
    /\ accepted \in Nat /\ opened \in Nat
    /\ DOMAIN clients = 1..Len(clients) /\ Len(clients) \in Nat
    /\ DOMAIN inputs = 1..Len(inputs) /\ Len(inputs) \in Nat
    /\ 1..accepted \subseteq DOMAIN conns /\ 1..opened \subseteq DOMAIN streams
    /\ \A i \in DOMAIN clients : clients[i].fd \in 0..accepted
    /\ \A i \in DOMAIN inputs : inputs[i].fd \in 0..opened
    /\ \A i, j \in DOMAIN clients :
         clients[i].fd # Closed /\ clients[i].fd = clients[j].fd => i = j
    /\ \A i, j \in DOMAIN inputs :
         inputs[i].fd # Unused /\ inputs[i].fd = inputs[j].fd => i = j

SafeParts == HttpTypeOK /\ SlotUntilOutcome /\ ControlTyped /\ LineInv

LEMMA SlotsAre == SafeParts => Slots
<1> SUFFICES ASSUME SafeParts PROVE Slots
  OBVIOUS
<1>1. accepted \in Nat /\ clients \in Seq(ClientType) /\ opened \in Nat /\ inputs \in Seq(InputType)
  BY DEF SafeParts, HttpTypeOK, ControlTyped
<1>2. \A i \in DOMAIN clients : clients[i].fd \in 0..accepted
  <2>1. \A i \in 1..Len(clients) : clients[i] \in ClientType
    BY <1>1, ElementOfSeq
  <2>2. \A k \in ClientType : k.fd \in 0..accepted
    BY DEF ClientType
  <2>. QED BY <1>1, <2>1, <2>2
<1>3. \A i \in DOMAIN inputs : inputs[i].fd \in 0..opened
  BY InputTyped DEF SafeParts
<1>4. 1..accepted \subseteq DOMAIN conns /\ 1..opened \subseteq DOMAIN streams
  BY DEF SafeParts, HttpTypeOK, ControlTyped
<1>. QED BY <1>1, <1>2, <1>3, <1>4 DEF SafeParts, SlotUntilOutcome, LineInv, Slots

LEMMA OpenIs ==
    ASSUME NEW d
    PROVE  d \in OpenFiles <=>
             \/ d = Listener
             \/ \E i \in DOMAIN clients : clients[i].fd # Closed /\ d = <<"http", clients[i].fd>>
             \/ \E i \in DOMAIN inputs : inputs[i].fd # Unused /\ d = <<"control", inputs[i].fd>>
BY DEF OpenFiles

LEMMA InputIs ==
    /\ HasInput(Listener) <=> accepted < Len(conns)
    /\ \A c : HasInput(<<"http", c>>) <=> Readable(c)
    /\ \A s : HasInput(<<"control", s>>) <=>
                IF streams[s].type = "socket" THEN opened < Len(streams)
                ELSE streams[s].read < streams[s].written \/ streams[s].gone
BY DEF HasInput, Listener, Readable

LEMMA TurnIs ==
    /\ at[1] = "listen" => Turn = Listener
    /\ at[1] = "api" => Turn = IF at[2] \in DOMAIN clients THEN <<"http", clients[at[2]].fd>>
                               ELSE Nobody
    /\ at[1] = "control" => Turn = IF at[2] \in DOMAIN inputs THEN <<"control", inputs[at[2]].fd>>
                                   ELSE Nobody
    /\ at[1] = "select" => Turn = Nobody
BY DEF Turn

LEMMA HttpOpen ==
    ASSUME Slots, NEW c, <<"http", c>> \in OpenFiles
    PROVE  c \in 1..accepted /\ c \in DOMAIN conns
<1>1. PICK i \in DOMAIN clients : clients[i].fd # Closed /\ c = clients[i].fd
  BY DEF OpenFiles, Listener
<1>2. c \in 1..accepted
  BY <1>1 DEF Slots, Closed
<1>. QED BY <1>2 DEF Slots

LEMMA ControlOpen ==
    ASSUME Slots, NEW s, <<"control", s>> \in OpenFiles
    PROVE  s # Unused /\ s \in 1..opened /\ s \in DOMAIN streams
<1>1. PICK i \in DOMAIN inputs : inputs[i].fd # Unused /\ s = inputs[i].fd
  BY DEF OpenFiles, Listener
<1>2. s \in 1..opened
  BY <1>1 DEF Slots, Unused
<1>. QED BY <1>1, <1>2 DEF Slots

\* The handler of a slot of clients[] changes nothing about other descriptors.
LEMMA ApiKeepsRounds ==
    ASSUME RoundInv, Slots, Slots', Serving', NEW i \in DOMAIN clients, at = <<"api", i>>,
           DOMAIN clients' = DOMAIN clients,
           \A j \in DOMAIN clients \ {i} : clients'[j].fd = clients[j].fd,
           clients'[i].fd \in {clients[i].fd, Closed},
           \A c \in 1..accepted : c # clients[i].fd => Readable(c)' = Readable(c),
           UNCHANGED <<inputs, streams, opened, scan, ready, reported>>,
           files' = Numbered(OpenFiles'),
           \/ UNCHANGED <<asked, at>> /\ batch' # NoBatch
           \/ /\ asked' = asked \cup Asked(<<"http", clients[i].fd>>)
              /\ at' = <<"api", i + 1>>
    PROVE  RoundInv'
<1> DEFINE t == <<"http", clients[i].fd>>
<1>1. /\ at[1] = "api" /\ at[2] = i /\ at'[1] = "api" /\ at'[2] \in {i, i + 1} /\ i \in Nat
      /\ DOMAIN inputs' = DOMAIN inputs
  BY DEF Slots
<1>2. Turn = t
  BY <1>1, TurnIs
<1>3. \A d \in OpenFiles : d # t => d \in OpenFiles'
  BY DEF OpenFiles
<1>4. OpenFiles' \subseteq OpenFiles
  BY DEF OpenFiles
<1>5. /\ Filed'
      /\ DOMAIN files' = DOMAIN files
      /\ \A n \in DOMAIN files :
           files'[n] = IF files[n] \in OpenFiles' THEN files[n] ELSE Nobody
  BY <1>4, StillFiled DEF RoundInv
<1>6. Kinds'
  BY DEF RoundInv, Kinds
\* No turn comes twice.
<1>7. ASSUME NEW d \in OpenFiles, Ahead(d)' PROVE Ahead(d) /\ d # t
  <2>1. CASE d[1] = "control"
    BY <1>1, <2>1 DEF Ahead
  <2>2. CASE d[1] # "control"
    <3>1. PICK j \in DOMAIN clients : j > at'[2] /\ d = <<"http", clients'[j].fd>>
      BY <1>1, <1>7, <2>2 DEF Ahead
    <3>2. j \in Nat /\ j > i
      BY <1>1, <3>1 DEF Slots
    <3>3. d = <<"http", clients[j].fd>>
      BY <1>1, <3>1, <3>2
    <3>4. clients[j].fd # Closed
      BY <3>3, OpenIs DEF Listener
    <3>5. clients[j].fd # clients[i].fd
      BY <1>1, <3>2, <3>4 DEF Slots
    <3>. QED BY <1>1, <3>2, <3>3, <3>5 DEF Ahead
  <2>. QED BY <2>1, <2>2
<1>8. ASSUME NEW d \in OpenFiles, d = Turn', at' # at PROVE Ahead(d) /\ d # t
  <2>1. at' = <<"api", i + 1>>
    BY <1>8
  <2>2. Turn' = IF i + 1 \in DOMAIN clients THEN <<"http", clients'[i + 1].fd>> ELSE Nobody
    BY <2>1 DEF Turn
  <2>3. i + 1 \in DOMAIN clients /\ d = <<"http", clients'[i + 1].fd>>
    BY <1>8, <2>2, NobodyIsClosed
  <2>4. d = <<"http", clients[i + 1].fd>> /\ i + 1 > i /\ i + 1 # i
    BY <1>1, <2>3
  <2>5. clients[i + 1].fd # Closed
    BY <2>4, OpenIs DEF Listener
  <2>6. clients[i + 1].fd # clients[i].fd
    BY <2>3, <2>4, <2>5 DEF Slots
  <2>. QED BY <1>1, <2>3, <2>4, <2>6 DEF Ahead
<1>9. ASSUME NEW d \in OpenFiles', d = Turn' PROVE Ahead(d) \/ d = t
  <2>1. CASE at' # at
    BY <1>4, <1>8, <1>9, <2>1
  <2>2. CASE at' = at
    <3>1. Turn' = <<"http", clients'[i].fd>>
      BY <2>2 DEF Turn
    <3>2. clients'[i].fd # Closed
      <4>1. <<"http", Closed>> \notin OpenFiles'
        BY DEF OpenFiles, Listener
      <4>. QED BY <1>9, <3>1, <4>1
    <3>. QED BY <1>9, <3>1, <3>2
  <2>. QED BY <2>1, <2>2
<1>10. AskedOpen'
  <2> SUFFICES ASSUME NEW n \in asked'
               PROVE  /\ n \in DOMAIN files' /\ files'[n] \in OpenFiles'
                      /\ ~Ahead(files[n])' /\ files'[n] # Turn'
    BY DEF AskedOpen
  <2>1. CASE n \in asked
    <3>1. PICK d : d = files[n]
      OBVIOUS
    <3>2. n \in DOMAIN files /\ d \in OpenFiles /\ ~Ahead(d) /\ d # t
      BY <1>2, <2>1, <3>1 DEF RoundInv, AskedOpen
    <3>3. d \in OpenFiles' /\ files'[n] = d
      BY <1>3, <1>5, <3>1, <3>2
    <3>4. ~Ahead(d)' /\ d # Turn'
      BY <1>7, <1>9, <3>2, <3>3
    <3>. QED BY <1>5, <3>2, <3>3, <3>4
  <2>2. CASE n \notin asked
    <3>1. n \in DOMAIN files' /\ files'[n] = t /\ at' = <<"api", i + 1>>
      BY <1>1, <2>2 DEF Asked
    <3>2. PICK d : d = t
      OBVIOUS
    <3>3. d \in OpenFiles'
      <4>1. d \in OpenFiles' \/ d = Nobody
        BY <1>5, <3>1, <3>2 DEF Filed
      <4>2. d[1] = "http"
        BY <3>2
      <4>. QED BY <4>1, <4>2 DEF Nobody
    <3>4. d \in OpenFiles /\ at' # at
      BY <1>1, <1>4, <3>1, <3>3
    <3>5. ~Ahead(d)' /\ d # Turn'
      BY <1>7, <1>8, <3>2, <3>4
    <3>. QED BY <3>1, <3>2, <3>3, <3>5
  <2>. QED BY <2>1, <2>2
<1>11. ReadyOpen'
  <2>1. at'[1] # "select"
    BY <1>1
  <2> SUFFICES ASSUME NEW n \in ready
               PROVE  n \in DOMAIN files' /\ (Waiting(n)' \/ Freed(n)')
    BY <2>1 DEF ReadyOpen
  <2>2. n \in DOMAIN files /\ (Waiting(n) \/ Freed(n))
    BY <1>1 DEF RoundInv, ReadyOpen, Given
  <2>3. CASE Freed(n)
    <3>1. files'[n] = Nobody
      BY <1>5, <2>2, <2>3 DEF Freed
    <3>2. reported[n][1] = "http"
      BY <1>1, <2>3 DEF Freed
    <3>. QED BY <1>1, <1>5, <2>2, <3>1, <3>2 DEF Freed
  <2>4. CASE Waiting(n) /\ files[n] \in OpenFiles'
    <3>1. PICK d : d = files[n]
      OBVIOUS
    <3>2. d = reported[n] /\ d # Nobody /\ files'[n] = d /\ d \in OpenFiles /\ d \in OpenFiles'
      BY <1>4, <1>5, <2>2, <2>4, <3>1 DEF Waiting
    <3>3. ASSUME Ahead(d)' \/ (d = Turn' /\ batch' = NoBatch /\ scan' = NoScan)
          PROVE  HasInput(d)'
      <4>1. Ahead(d) /\ d # t
        <5>1. CASE Ahead(d)'
          BY <1>7, <3>2, <5>1
        <5>2. CASE d = Turn' /\ batch' = NoBatch
          <6>1. at' # at
            BY <1>1, <5>2
          <6>. QED BY <1>8, <3>2, <5>2, <6>1
        <5>. QED BY <3>3, <5>1, <5>2
      <4>2. HasInput(d)
        BY <2>4, <3>1, <4>1 DEF Waiting
      <4>3. CASE d[1] = "control"
        BY <4>2, <4>3 DEF HasInput, Listener
      <4>4. ASSUME NEW c, d = <<"http", c>>
            PROVE  HasInput(d)'
        <5>1. Readable(c)' = Readable(c)
          BY <3>2, <4>1, <4>4, HttpOpen
        <5>2. HasInput(d) = Readable(c) /\ HasInput(d)' = Readable(c)'
          BY <4>4 DEF HasInput, Listener, Readable
        <5>. QED BY <4>2, <5>1, <5>2
      <4>. QED BY <1>1, <4>1, <4>3, <4>4 DEF Ahead
    <3>. QED BY <1>5, <2>2, <3>2, <3>3 DEF Waiting
  <2>5. CASE Waiting(n) /\ files[n] \notin OpenFiles'
    <3>1. files'[n] = Nobody
      BY <1>5, <2>2, <2>5
    <3>2. files[n] \in OpenFiles
      BY <2>2, <2>5 DEF Waiting, RoundInv, Filed
    <3>3. files[n] = t /\ reported'[n] = t
      BY <1>3, <2>5, <3>2 DEF Waiting
    <3>. QED BY <1>1, <1>5, <2>2, <3>1, <3>3 DEF Freed
  <2>. QED BY <2>2, <2>3, <2>4, <2>5
<1>. QED BY <1>5, <1>6, <1>10, <1>11 DEF RoundInv

\* The handler of a slot of fds[] that accepts nobody changes nothing about other descriptors.
LEMMA ControlKeepsRounds ==
    ASSUME RoundInv, Slots, Slots', Serving', NEW i \in DOMAIN inputs, at = <<"control", i>>,
           DOMAIN inputs' = DOMAIN inputs,
           \A j \in DOMAIN inputs \ {i} : inputs'[j] = inputs[j],
           inputs'[i].fd \in {inputs[i].fd, Unused}, inputs'[i].type = inputs[i].type,
           DOMAIN streams' = DOMAIN streams, Len(streams') = Len(streams),
           \A s \in DOMAIN streams : streams'[s].type = streams[s].type,
           \A s \in 1..opened : s # inputs[i].fd => streams'[s] = streams[s],
           UNCHANGED <<clients, opened, ready, reported>>,
           files' = Numbered(OpenFiles'),
           \/ UNCHANGED <<asked, at>> /\ scan' # NoScan /\ inputs'[i].fd = inputs[i].fd
           \/ /\ asked' = asked \cup Asked(<<"control", inputs[i].fd>>)
              /\ at' = <<"control", i + 1>>
    PROVE  RoundInv'
<1> DEFINE t == <<"control", inputs[i].fd>>
<1>1. /\ at[1] = "control" /\ at[2] = i /\ at'[1] = "control" /\ at'[2] \in {i, i + 1}
      /\ i \in Nat /\ DOMAIN inputs \subseteq Nat
  BY DEF Slots
<1>2. Turn = t
  BY <1>1, TurnIs
<1>3. \A d \in OpenFiles : d # t => d \in OpenFiles'
  BY DEF OpenFiles
<1>4. OpenFiles' \subseteq OpenFiles
  BY DEF OpenFiles
<1>5. /\ Filed'
      /\ DOMAIN files' = DOMAIN files
      /\ \A n \in DOMAIN files :
           files'[n] = IF files[n] \in OpenFiles' THEN files[n] ELSE Nobody
  BY <1>4, StillFiled DEF RoundInv
<1>6. \A j \in DOMAIN inputs : /\ inputs'[j].type = inputs[j].type
                               /\ inputs'[j].fd # Unused => inputs'[j].fd = inputs[j].fd
  OBVIOUS
<1>7. Kinds'
  <2>1. ASSUME NEW j \in DOMAIN inputs, inputs'[j].fd # Unused
        PROVE  streams'[inputs'[j].fd].type = inputs'[j].type
    <3>1. inputs'[j].fd = inputs[j].fd /\ inputs[j].fd # Unused
      BY <1>6, <2>1
    <3>2. streams[inputs[j].fd].type = inputs[j].type
      BY <3>1 DEF RoundInv, Kinds
    <3>3. streams'[inputs[j].fd].type = streams[inputs[j].fd].type
      <4>1. inputs[j].fd \in 1..opened
        BY <3>1 DEF Slots, Unused
      <4>. QED BY <4>1 DEF Slots
    <3>. QED BY <1>6, <3>1, <3>2, <3>3
  <2>. QED BY <1>6, <2>1 DEF RoundInv, Kinds
\* No turn comes twice.
<1>8. ASSUME NEW d \in OpenFiles, Ahead(d)' PROVE Ahead(d) /\ d # t
  <2>1. PICK j \in DOMAIN inputs : j > at'[2] /\ d = <<"control", inputs'[j].fd>>
    BY <1>1, <1>8 DEF Ahead
  <2>2. j \in Nat /\ j > i
    BY <1>1, <2>1
  <2>3. d = <<"control", inputs[j].fd>>
    BY <1>1, <2>1, <2>2
  <2>4. inputs[j].fd # Unused
    <3>1. PICK s : s = inputs[j].fd
      OBVIOUS
    <3>2. <<"control", s>> \in OpenFiles
      BY <1>8, <2>3, <3>1
    <3>. QED BY <3>1, <3>2, ControlOpen
  <2>5. inputs[j].fd # inputs[i].fd
    BY <1>1, <2>2, <2>4 DEF Slots
  <2>. QED BY <1>1, <2>2, <2>3, <2>5 DEF Ahead
<1>9. ASSUME NEW d \in OpenFiles, d = Turn', at' # at PROVE Ahead(d) /\ d # t
  <2>1. at' = <<"control", i + 1>>
    BY <1>9
  <2>2. Turn' = IF i + 1 \in DOMAIN inputs THEN <<"control", inputs'[i + 1].fd>> ELSE Nobody
    BY <2>1 DEF Turn
  <2>3. i + 1 \in DOMAIN inputs /\ d = <<"control", inputs'[i + 1].fd>>
    BY <1>9, <2>2, NobodyIsClosed
  <2>4. d = <<"control", inputs[i + 1].fd>> /\ i + 1 > i /\ i + 1 # i
    BY <1>1, <2>3
  <2>5. inputs[i + 1].fd # Unused
    <3>1. PICK s : s = inputs[i + 1].fd
      OBVIOUS
    <3>2. <<"control", s>> \in OpenFiles
      BY <1>9, <2>4, <3>1
    <3>. QED BY <3>1, <3>2, ControlOpen
  <2>6. inputs[i + 1].fd # inputs[i].fd
    BY <2>3, <2>4, <2>5 DEF Slots
  <2>. QED BY <1>1, <2>3, <2>4, <2>6 DEF Ahead
<1>10. ASSUME NEW d \in OpenFiles', d = Turn' PROVE Ahead(d) \/ d = t
  <2>1. CASE at' # at
    BY <1>4, <1>9, <1>10, <2>1
  <2>2. CASE at' = at
    <3>1. Turn' = <<"control", inputs'[i].fd>>
      BY <2>2 DEF Turn
    <3>2. inputs'[i].fd = inputs[i].fd
      BY <1>1, <2>2
    <3>. QED BY <1>10, <3>1, <3>2
  <2>. QED BY <2>1, <2>2
<1>11. AskedOpen'
  <2> SUFFICES ASSUME NEW n \in asked'
               PROVE  /\ n \in DOMAIN files' /\ files'[n] \in OpenFiles'
                      /\ ~Ahead(files[n])' /\ files'[n] # Turn'
    BY DEF AskedOpen
  <2>1. CASE n \in asked
    <3>1. PICK d : d = files[n]
      OBVIOUS
    <3>2. n \in DOMAIN files /\ d \in OpenFiles /\ ~Ahead(d) /\ d # t
      BY <1>2, <2>1, <3>1 DEF RoundInv, AskedOpen
    <3>3. d \in OpenFiles' /\ files'[n] = d
      BY <1>3, <1>5, <3>1, <3>2
    <3>4. ~Ahead(d)' /\ d # Turn'
      BY <1>8, <1>10, <3>2, <3>3
    <3>. QED BY <1>5, <3>2, <3>3, <3>4
  <2>2. CASE n \notin asked
    <3>1. n \in DOMAIN files' /\ files'[n] = t /\ at' = <<"control", i + 1>>
      BY <1>1, <2>2 DEF Asked
    <3>2. PICK d : d = t
      OBVIOUS
    <3>3. d \in OpenFiles'
      <4>1. d \in OpenFiles' \/ d = Nobody
        BY <1>5, <3>1, <3>2 DEF Filed
      <4>2. d[1] = "control"
        BY <3>2
      <4>. QED BY <4>1, <4>2 DEF Nobody
    <3>4. d \in OpenFiles /\ at' # at
      BY <1>1, <1>4, <3>1, <3>3
    <3>5. ~Ahead(d)' /\ d # Turn'
      BY <1>8, <1>9, <3>2, <3>4
    <3>. QED BY <3>1, <3>2, <3>3, <3>5
  <2>. QED BY <2>1, <2>2
<1>12. ReadyOpen'
  <2>1. at'[1] # "select"
    BY <1>1
  <2> SUFFICES ASSUME NEW n \in ready
               PROVE  n \in DOMAIN files' /\ (Waiting(n)' \/ Freed(n)' \/ Given(n)')
    BY <2>1 DEF ReadyOpen
  <2>2. n \in DOMAIN files /\ (Waiting(n) \/ Freed(n) \/ Given(n))
    BY DEF RoundInv, ReadyOpen
  <2>3. CASE Freed(n)
    <3>1. files'[n] = Nobody
      BY <1>5, <2>2, <2>3 DEF Freed
    <3>2. CASE reported[n][1] = "http"
      BY <1>1, <1>5, <2>2, <3>1, <3>2 DEF Freed
    <3>3. CASE \E l \in DOMAIN inputs : l < i /\ inputs[l].fd = Unused
      <4>1. PICK l \in DOMAIN inputs : l < i /\ inputs[l].fd = Unused
        BY <3>3
      <4>2. l < at'[2] /\ inputs'[l].fd = Unused
        BY <1>1, <4>1
      <4>. QED BY <1>1, <1>5, <2>2, <3>1, <4>2 DEF Freed
    <3>4. CASE \A j \in DOMAIN inputs : inputs[j].type = "socket" => j < i
      <4>1. \A j \in DOMAIN inputs' : inputs'[j].type = "socket" => j < at'[2]
        BY <1>1, <1>6, <3>4
      <4>. QED BY <1>1, <1>5, <2>2, <3>1, <4>1 DEF Freed
    <3>. QED BY <1>1, <2>3, <3>2, <3>3, <3>4 DEF Freed
  <2>4. ASSUME files[n] \in OpenFiles, files[n] \notin OpenFiles'
        PROVE  Freed(n)'
    <3>1. files'[n] = Nobody /\ files[n] = t
      BY <1>3, <1>5, <2>2, <2>4
    <3>2. inputs[i].fd # Unused /\ inputs'[i].fd # inputs[i].fd
      <4>1. inputs[i].fd # Unused
        BY <2>4, <3>1, OpenIs DEF Listener
      <4>2. inputs'[i].fd = inputs[i].fd => t \in OpenFiles'
        BY <4>1 DEF OpenFiles
      <4>. QED BY <2>4, <3>1, <4>1, <4>2
    <3>3. inputs'[i].fd = Unused /\ at'[2] = i + 1
      BY <1>1, <3>2
    <3>4. i < at'[2] /\ i \in DOMAIN inputs'
      BY <1>1, <3>3
    <3>. QED BY <1>1, <1>5, <2>2, <3>1, <3>3, <3>4 DEF Freed
  <2>5. CASE Waiting(n) /\ files[n] \in OpenFiles'
    <3>1. PICK d : d = files[n]
      OBVIOUS
    <3>2. d = reported[n] /\ d # Nobody /\ files'[n] = d /\ d \in OpenFiles /\ d \in OpenFiles'
      BY <1>4, <1>5, <2>2, <2>5, <3>1 DEF Waiting
    <3>3. ASSUME Ahead(d)' \/ (d = Turn' /\ batch' = NoBatch /\ scan' = NoScan)
          PROVE  HasInput(d)'
      <4>1. Ahead(d) /\ d # t
        <5>1. CASE Ahead(d)'
          BY <1>8, <3>2, <5>1
        <5>2. CASE d = Turn' /\ scan' = NoScan
          <6>1. at' # at
            BY <1>1, <5>2
          <6>. QED BY <1>9, <3>2, <5>2, <6>1
        <5>. QED BY <3>3, <5>1, <5>2
      <4>2. HasInput(d)
        BY <2>5, <3>1, <4>1 DEF Waiting
      <4>3. PICK s : d = <<"control", s>>
        BY <1>1, <4>1 DEF Ahead
      <4>4. streams'[s] = streams[s]
        BY <3>2, <4>1, <4>3, ControlOpen
      <4>. QED BY <4>2, <4>3, <4>4 DEF HasInput, Listener
    <3>. QED BY <1>5, <2>2, <3>2, <3>3 DEF Waiting
  <2>6. CASE Waiting(n) /\ files[n] \notin OpenFiles'
    <3>1. files[n] \in OpenFiles
      BY <2>2, <2>6 DEF Waiting, RoundInv, Filed
    <3>. QED BY <1>5, <2>2, <2>4, <2>6, <3>1
  <2>7. CASE Given(n)
    <3>1. PICK j \in DOMAIN inputs :
            /\ files[n] = <<"control", inputs[j].fd>>
            /\ inputs[j].fd # Unused /\ inputs[j].type = "client"
            /\ reported[n][1] = "http" \/ j < at[2]
      BY <2>7 DEF Given
    <3>2. files[n] \in OpenFiles
      BY <3>1, OpenIs
    <3>3. CASE files[n] \in OpenFiles'
      <4>1. files'[n] = files[n]
        BY <1>5, <2>2, <3>3
      <4>2. inputs'[j].fd = inputs[j].fd
        <5>1. PICK l \in DOMAIN inputs : inputs'[l].fd # Unused /\ inputs'[l].fd = inputs[j].fd
          BY <3>1, <3>3 DEF OpenFiles, Listener
        <5>2. inputs[l].fd = inputs[j].fd
          BY <1>6, <5>1
        <5>3. l = j
          BY <3>1, <5>2 DEF Slots
        <5>. QED BY <5>1, <5>3
      <4>3. reported'[n][1] = "http" \/ j < at'[2]
        BY <1>1, <3>1
      <4>. QED BY <1>1, <1>5, <1>6, <2>2, <3>1, <4>1, <4>2, <4>3 DEF Given
    <3>4. CASE files[n] \notin OpenFiles'
      BY <1>5, <2>2, <2>4, <3>2, <3>4
    <3>. QED BY <3>3, <3>4
  <2>. QED BY <2>2, <2>3, <2>5, <2>6, <2>7
<1>. QED BY <1>5, <1>7, <1>11, <1>12 DEF RoundInv

\* The socket accepts a client: its entry is free, and so is its number.
LEMMA AcceptKeepsRounds ==
    ASSUME RoundInv, ControlTyped, Slots, Serving', NEW i \in DOMAIN inputs, at = <<"control", i>>,
           ControlAccept(i),
           UNCHANGED <<clients, conns, accepted, ready, reported>>,
           files' = Numbered(OpenFiles'),
           asked' = asked \cup Asked(<<"control", inputs[i].fd>>),
           at' = <<"control", i + 1>>
    PROVE  RoundInv'
<1> DEFINE t == <<"control", inputs[i].fd>>
<1>1. /\ at[1] = "control" /\ at[2] = i /\ at'[1] = "control" /\ at'[2] = i + 1
      /\ i \in Nat /\ DOMAIN inputs \subseteq Nat /\ Turn = t
  BY TurnIs DEF Slots
<1>2. PICK s \in Nat : s = opened + 1
  BY DEF Slots
<1>3. /\ s \in DOMAIN streams /\ streams[s].type = "client" /\ s \notin 0..opened /\ s # Unused
      /\ opened' = s /\ streams' = streams
  <2>1. opened < Len(streams) /\ opened' = opened + 1 /\ streams' = streams
    BY DEF ControlAccept
  <2>2. s \in DOMAIN streams
    BY <1>2, <2>1 DEF ControlTyped
  <2>3. s > opened /\ s \notin 0..opened /\ s # Unused
    BY <1>2 DEF Slots, Unused
  <2>. QED BY <1>2, <2>1, <2>2, <2>3 DEF RoundInv, Kinds
<1>4. PICK j \in 1..(Len(inputs) + 1) :
        /\ FirstFree(j)
        /\ inputs' = [l \in DOMAIN inputs \cup {j} |-> IF l = j THEN Reused(j, s) ELSE inputs[l]]
  BY <1>2, <1>3 DEF ControlAccept
<1>5. j \in DOMAIN inputs => inputs[j].fd = Unused
  BY <1>4 DEF FirstFree, FreeInputs, Slots
<1>6. /\ DOMAIN inputs' = DOMAIN inputs \cup {j}
      /\ \A l \in DOMAIN inputs \ {j} : inputs'[l] = inputs[l]
      /\ inputs'[j].fd = s /\ inputs'[j].type = "client"
  <2>1. inputs'[j] = Reused(j, s)
    BY <1>4
  <2>2. CASE j \in DOMAIN inputs
    BY <1>4, <2>1, <2>2 DEF Reused, Input
  <2>3. CASE j \notin DOMAIN inputs
    BY <1>4, <2>1, <2>3 DEF Reused, Input
  <2>. QED BY <1>4, <2>2, <2>3
<1>7. /\ inputs[i].type = "socket" /\ inputs[i].fd # Unused /\ i # j
      /\ \A l \in DOMAIN inputs : inputs[l].type = "socket" => l = i
  BY <1>5 DEF ControlAccept, RoundInv, Kinds
<1>8. PICK d : d = <<"control", s>>
  OBVIOUS
<1>9. d \notin OpenFiles /\ d # Nobody
  BY <1>3, <1>8, ControlOpen DEF Nobody, Slots
<1>10. OpenFiles' = OpenFiles \cup {d}
  <2>1. ASSUME NEW e PROVE e \in OpenFiles' <=> e \in OpenFiles \/ e = d
    <3>1. e \in OpenFiles' <=>
             \/ e = Listener
             \/ \E l \in DOMAIN clients : clients[l].fd # Closed /\ e = <<"http", clients[l].fd>>
             \/ \E l \in DOMAIN inputs' : inputs'[l].fd # Unused /\ e = <<"control", inputs'[l].fd>>
      BY DEF OpenFiles
    <3>2. (\E l \in DOMAIN inputs' : inputs'[l].fd # Unused /\ e = <<"control", inputs'[l].fd>>)
          <=> e = d \/ \E l \in DOMAIN inputs : inputs[l].fd # Unused /\ e = <<"control", inputs[l].fd>>
      BY <1>3, <1>5, <1>6, <1>8
    <3>. QED BY <3>1, <3>2, OpenIs
  <2>. QED BY <2>1
<1>11. /\ Filed'
       /\ \E m \in Nat :
            /\ m \in DOMAIN files => files[m] = Nobody
            /\ DOMAIN files' = DOMAIN files \cup {m}
            /\ files'[m] = d
            /\ \A n \in DOMAIN files \ {m} : files'[n] = files[n]
  BY <1>9, <1>10, FiledAgain DEF RoundInv
<1>12. PICK m \in Nat :
          /\ m \in DOMAIN files => files[m] = Nobody
          /\ DOMAIN files' = DOMAIN files \cup {m}
          /\ files'[m] = d
          /\ \A n \in DOMAIN files \ {m} : files'[n] = files[n]
  BY <1>11
<1>13. Kinds'
  <2>1. \A l \in DOMAIN inputs' : inputs'[l].type = "socket" => l = i
    BY <1>6, <1>7
  <2>2. \A l \in DOMAIN inputs' :
           inputs'[l].fd # Unused => streams'[inputs'[l].fd].type = inputs'[l].type
    BY <1>3, <1>6 DEF RoundInv, Kinds
  <2>3. \A r \in DOMAIN streams : r > opened' => streams[r].type = "client"
    <3>1. DOMAIN streams \subseteq Nat
      BY DEF ControlTyped
    <3>. QED BY <1>2, <1>3, <3>1 DEF RoundInv, Kinds, Slots
  <2>. QED BY <1>3, <2>1, <2>2, <2>3 DEF Kinds
\* The new client is not looked at as something that was there before.
<1>14. ASSUME NEW e \in OpenFiles, NEW l \in DOMAIN inputs', l > i, e = <<"control", inputs'[l].fd>>
       PROVE  Ahead(e) /\ e # t /\ l \in DOMAIN inputs /\ e = <<"control", inputs[l].fd>>
  <2>1. l # j
    BY <1>6, <1>8, <1>9, <1>14
  <2>2. l \in DOMAIN inputs /\ e = <<"control", inputs[l].fd>>
    BY <1>6, <1>14, <2>1
  <2>3. PICK r : r = inputs[l].fd
    OBVIOUS
  <2>4. r # Unused
    BY <2>2, <2>3, ControlOpen
  <2>5. inputs[l].fd # inputs[i].fd
    <3>1. l # i
      BY <1>1, <1>14
    <3>. QED BY <2>2, <2>3, <2>4, <3>1 DEF Slots
  <2>. QED BY <1>1, <1>14, <2>2, <2>5 DEF Ahead
<1>15. ASSUME NEW e \in OpenFiles, Ahead(e)' \/ e = Turn'
       PROVE  /\ Ahead(e) /\ e # t
              /\ \E l \in DOMAIN inputs : l > i /\ e = <<"control", inputs[l].fd>>
  <2>1. CASE Ahead(e)'
    <3>1. PICK l \in DOMAIN inputs' : l > i + 1 /\ e = <<"control", inputs'[l].fd>>
      BY <1>1, <2>1 DEF Ahead
    <3>2. l > i
      <4>1. l \in Nat
        BY <1>1, <1>6, <3>1
      <4>. QED BY <1>1, <3>1, <4>1
    <3>. QED BY <1>14, <3>1, <3>2
  <2>2. CASE e = Turn'
    <3>1. Turn' = IF i + 1 \in DOMAIN inputs' THEN <<"control", inputs'[i + 1].fd>> ELSE Nobody
      BY DEF Turn
    <3>2. i + 1 \in DOMAIN inputs' /\ e = <<"control", inputs'[i + 1].fd>>
      BY <2>2, <3>1, NobodyIsClosed
    <3>3. PICK l \in DOMAIN inputs' : l = i + 1 /\ e = <<"control", inputs'[l].fd>>
      BY <3>2
    <3>4. l > i
      BY <1>1, <3>3
    <3>. QED BY <1>14, <3>3, <3>4
  <2>. QED BY <1>15, <2>1, <2>2
<1>16. \A n \in DOMAIN files : files[n] # Nobody => n \in DOMAIN files' /\ files'[n] = files[n]
  BY <1>12
<1>17. AskedOpen'
  <2> SUFFICES ASSUME NEW n \in asked'
               PROVE  /\ n \in DOMAIN files' /\ files'[n] \in OpenFiles'
                      /\ ~Ahead(files[n])' /\ files'[n] # Turn'
    BY DEF AskedOpen
  <2>1. CASE n \in asked
    <3>1. PICK e : e = files[n]
      OBVIOUS
    <3>2. n \in DOMAIN files /\ e \in OpenFiles /\ ~Ahead(e)
      BY <2>1, <3>1 DEF RoundInv, AskedOpen
    <3>3. e \in OpenFiles' /\ n \in DOMAIN files' /\ files'[n] = e
      BY <1>10, <1>16, <3>1, <3>2, NobodyIsClosed
    <3>4. ~Ahead(e)' /\ e # Turn'
      BY <1>15, <3>2
    <3>. QED BY <3>3, <3>4
  <2>2. CASE n \notin asked
    <3>1. n \in DOMAIN files' /\ files'[n] = t
      BY <1>1, <2>2 DEF Asked
    <3>2. PICK e : e = t
      OBVIOUS
    <3>3. e \in OpenFiles
      BY <1>7, <3>2, OpenIs
    <3>4. ~Ahead(e)' /\ e # Turn' /\ e \in OpenFiles'
      BY <1>10, <1>15, <3>2, <3>3
    <3>. QED BY <3>1, <3>2, <3>4
  <2>. QED BY <2>1, <2>2
<1>18. ReadyOpen'
  <2>1. at'[1] # "select"
    BY <1>1
  <2> SUFFICES ASSUME NEW n \in ready
               PROVE  n \in DOMAIN files' /\ (Waiting(n)' \/ Freed(n)' \/ Given(n)')
    BY <2>1 DEF ReadyOpen
  <2>2. n \in DOMAIN files /\ n \in DOMAIN files' /\ (Waiting(n) \/ Freed(n) \/ Given(n))
    BY <1>12 DEF RoundInv, ReadyOpen
  <2>3. CASE Waiting(n)
    <3>1. PICK e : e = files[n]
      OBVIOUS
    <3>2. e = reported[n] /\ e # Nobody /\ files'[n] = e /\ e \in OpenFiles
      BY <1>16, <2>2, <2>3, <3>1 DEF Waiting, RoundInv, Filed
    <3>3. ASSUME Ahead(e)' \/ e = Turn'
          PROVE  HasInput(e)'
      <4>1. PICK l \in DOMAIN inputs : l > i /\ e = <<"control", inputs[l].fd>>
        BY <1>15, <3>2, <3>3
      <4>2. Ahead(e)
        BY <1>15, <3>2, <3>3
      <4>3. HasInput(e)
        BY <2>3, <3>1, <4>2 DEF Waiting
      <4>4. PICK r : r = inputs[l].fd
        OBVIOUS
      <4>5. e = <<"control", r>> /\ r # Unused
        BY <3>2, <4>1, <4>4, ControlOpen
      <4>6. inputs[l].type # "socket"
        BY <1>1, <1>7, <4>1
      <4>7. streams[r].type # "socket"
        BY <4>4, <4>5, <4>6 DEF RoundInv, Kinds
      <4>. QED BY <1>3, <4>3, <4>5, <4>7 DEF HasInput, Listener
    <3>. QED BY <2>2, <3>2, <3>3 DEF Waiting
  <2>4. CASE Freed(n) /\ n # m
    <3>1. files'[n] = Nobody
      BY <1>12, <2>2, <2>4 DEF Freed
    <3>2. \A l \in DOMAIN inputs' : inputs'[l].type = "socket" => l < at'[2]
      BY <1>1, <1>6, <1>7
    <3>. QED BY <1>1, <2>2, <3>1, <3>2 DEF Freed
  <2>5. CASE Freed(n) /\ n = m
    <3>1. reported[n][1] = "http" \/ j < i + 1
      <4>1. CASE \E l \in DOMAIN inputs : l < i /\ inputs[l].fd = Unused
        <5>1. PICK l \in DOMAIN inputs : l < i /\ inputs[l].fd = Unused
          BY <4>1
        <5>2. j <= l
          BY <1>4, <5>1 DEF FirstFree, FreeInputs
        <5>3. j \in Nat /\ l \in Nat
          BY <1>1, <1>4
        <5>. QED BY <1>1, <5>1, <5>2, <5>3
      <4>2. ~(\A l \in DOMAIN inputs : inputs[l].type = "socket" => l < i)
        BY <1>1, <1>7
      <4>. QED BY <1>1, <2>5, <4>1, <4>2 DEF Freed
    <3>2. files'[n] = <<"control", inputs'[j].fd>> /\ inputs'[j].fd # Unused
      BY <1>3, <1>6, <1>8, <1>12, <2>5
    <3>. QED BY <1>1, <1>6, <2>2, <3>1, <3>2 DEF Given
  <2>6. CASE Given(n)
    <3>1. PICK l \in DOMAIN inputs :
            /\ files[n] = <<"control", inputs[l].fd>>
            /\ inputs[l].fd # Unused /\ inputs[l].type = "client"
            /\ reported[n][1] = "http" \/ l < i
      BY <1>1, <2>6 DEF Given
    <3>2. files[n] # Nobody
      BY <3>1 DEF Nobody
    <3>3. files'[n] = files[n]
      BY <1>16, <2>2, <3>2
    <3>4. l # j
      BY <1>5, <3>1
    <3>5. l \in DOMAIN inputs' /\ inputs'[l] = inputs[l]
      BY <1>6, <3>1, <3>4
    <3>6. reported'[n][1] = "http" \/ l < at'[2]
      BY <1>1, <3>1
    <3>. QED BY <1>1, <2>2, <3>1, <3>3, <3>5, <3>6 DEF Given
  <2>. QED BY <2>2, <2>3, <2>4, <2>5, <2>6
<1>. QED BY <1>11, <1>13, <1>17, <1>18 DEF RoundInv

\* What a handler does to the slots: one may be closed, and is the only one that is read from.
SlotServed(i) ==
    /\ DOMAIN clients' = DOMAIN clients
    /\ \A j \in DOMAIN clients \ {i} : clients'[j].fd = clients[j].fd
    /\ clients'[i].fd \in {clients[i].fd, Closed}
    /\ \A c \in 1..accepted : c # clients[i].fd => Readable(c)' = Readable(c)
    /\ batch' # NoBatch => batch'.slot = i

\* An outcome is not input.
LEMMA ResultUnread ==
    ASSUME HttpBounds, NEW c, NEW v, conns' = [conns EXCEPT ![c].result = v] \/ conns' = conns
    PROVE  \A d \in 1..accepted : Readable(d)' = Readable(d)
<1> SUFFICES ASSUME NEW d \in 1..accepted PROVE Readable(d)' = Readable(d)
  OBVIOUS
<1>1. d \in 1..Len(conns) /\ DOMAIN conns = 1..Len(conns) /\ conns[d] \in GoodConnection
  BY AllBounds, ElementOfSeq
<1>2. conns[d] \in ConnectionType
  BY <1>1 DEF GoodConnection
<1>3. conns'[d] = IF d = c /\ conns' # conns THEN [conns[d] EXCEPT !.result = v] ELSE conns[d]
  BY <1>1
<1>4. /\ conns'[d].read = conns[d].read /\ conns'[d].arrived = conns[d].arrived
      /\ conns'[d].gone = conns[d].gone
  BY <1>2, <1>3 DEF ConnectionType
<1>. QED BY <1>4 DEF Readable

LEMMA SlotReplaced ==
    ASSUME HttpBounds, NEW i \in DOMAIN clients, NEW k, clients' = [clients EXCEPT ![i] = k],
           k.fd \in {clients[i].fd, Closed}
    PROVE  /\ DOMAIN clients' = DOMAIN clients
           /\ \A j \in DOMAIN clients \ {i} : clients'[j].fd = clients[j].fd
           /\ clients'[i].fd \in {clients[i].fd, Closed}
OBVIOUS

LEMMA ApiDataServes ==
    ASSUME HttpBounds, NEW i \in DOMAIN clients, ApiData(i)
    PROVE  SlotServed(i)
<1>1. clients[i] \in ClientType /\ accepted \in Nat
  BY SlotBounds
<1>2. CASE Drop(i)
  <2>1. \A d \in 1..accepted : Readable(d)' = Readable(d)
    BY <1>2, ResultUnread DEF Drop
  <2>2. Disconnected(clients[i]).fd = Closed /\ clients' = [clients EXCEPT ![i] = Disconnected(clients[i])]
    BY <1>1, <1>2, DisconnectedTyped DEF Drop
  <2>3. batch' = NoBatch
    BY <1>2 DEF Drop
  <2> HIDE DEF SlotServed
  <2>4. PICK k : k = Disconnected(clients[i])
    OBVIOUS
  <2>5. k.fd \in {clients[i].fd, Closed} /\ clients' = [clients EXCEPT ![i] = k]
    BY <2>2, <2>4
  <2>. QED BY <2>1, <2>3, <2>5, SlotReplaced DEF SlotServed
<1>3. CASE ReceiveEnd(i)
  <2>1. \A d \in 1..accepted : Readable(d)' = Readable(d)
    BY <1>3, ResultUnread DEF ReceiveEnd
  <2>2. PICK k \in ClientType : clients' = [clients EXCEPT ![i] = k] /\ k.fd = Closed
    BY <1>3, EndedSlot
  <2>3. batch' = NoBatch
    BY <1>3 DEF ReceiveEnd
  <2>. QED BY <2>1, <2>2, <2>3, SlotReplaced DEF SlotServed
<1>4. CASE Receive(i)
  <2>1. PICK k : k = [clients[i] EXCEPT !.allocated = Allocated(clients[i])]
    OBVIOUS
  <2>2. clients' = [clients EXCEPT ![i] = k] /\ k.fd = clients[i].fd
    BY <1>1, <1>4, <2>1, ReceiveEffect DEF ClientType
  <2>3. batch'.slot = i
    BY <1>4, ReceiveEffect
  <2>4. ASSUME NEW d \in 1..accepted, d # clients[i].fd PROVE Readable(d)' = Readable(d)
    <3>1. d \in DOMAIN conns
      BY AllBounds
    <3>2. conns'[d] = conns[d]
      BY <1>4, <2>4, <3>1 DEF Receive
    <3>. QED BY <3>2 DEF Readable
  <2>. QED BY <2>2, <2>3, <2>4, SlotReplaced DEF SlotServed
<1>. QED BY <1>2, <1>3, <1>4 DEF ApiData

LEMMA HandleBatchServes ==
    ASSUME HttpBounds, HandleBatch
    PROVE  batch.slot \in DOMAIN clients /\ SlotServed(batch.slot)
<1>1. batch # NoBatch
  BY DEF HandleBatch, Line, Body, KeepRest
<1>2. PICK i \in DOMAIN clients : i = batch.slot
  BY <1>1, BatchTyped
<1>3. clients[i] \in ClientType /\ accepted \in Nat /\ Client = clients[i]
  BY <1>2, SlotBounds DEF Client
<1>4. CASE Line
  <2>1. PICK k \in ClientType :
              /\ clients' = [clients EXCEPT ![i] = k] /\ k.fd \in {Client.fd, Closed}
              /\ batch'.slot = i
    BY <1>2, <1>4, LineEffect
  <2>2. conns' = [conns EXCEPT ![batch.conn].result = "refused"] \/ conns' = conns
    BY <1>4 DEF Line
  <2>3. \A d \in 1..accepted : Readable(d)' = Readable(d)
    BY <2>2, ResultUnread
  <2>. QED BY <1>2, <1>3, <2>1, <2>3, SlotReplaced DEF SlotServed
<1>5. CASE Body
  <2>1. PICK k : k = Disconnected(Client)
    OBVIOUS
  <2>2. clients' = [clients EXCEPT ![i] = k] /\ k.fd = Closed
    BY <1>2, <1>3, <1>5, <2>1, BodyEffect, DisconnectedTyped
  <2>3. conns' = [conns EXCEPT ![batch.conn].result = Outcome(conns[batch.conn].request)]
    BY <1>5 DEF Body
  <2>4. \A d \in 1..accepted : Readable(d)' = Readable(d)
    <3>1. PICK v : v = Outcome(conns[batch.conn].request)
      OBVIOUS
    <3>2. conns' = [conns EXCEPT ![batch.conn].result = v]
      BY <2>3, <3>1
    <3>. QED BY <3>2, ResultUnread
  <2>5. batch' = NoBatch
    BY <1>5 DEF Body
  <2>. QED BY <1>2, <2>2, <2>4, <2>5, SlotReplaced DEF SlotServed
<1>6. CASE KeepRest
  <2>1. PICK k \in ClientType : clients' = [clients EXCEPT ![i] = k] /\ k.fd = Client.fd
    BY <1>2, <1>6, KeepRestEffect
  <2>2. batch' = NoBatch /\ conns' = conns
    BY <1>6 DEF KeepRest
  <2>3. \A d \in 1..accepted : Readable(d)' = Readable(d)
    BY <2>2, ResultUnread
  <2>. QED BY <1>2, <1>3, <2>1, <2>2, <2>3, SlotReplaced DEF SlotServed
<1>. QED BY <1>4, <1>5, <1>6 DEF HandleBatch

LEMMA ApiSlotServes ==
    ASSUME HttpBounds, Serving, NEW i \in DOMAIN clients, ApiSlot(i)
    PROVE  SlotServed(i) /\ Serving'
<1>1. at = <<"api", i>> /\ at[1] = "api" /\ at[2] = i
  BY DEF ApiSlot
<1>2. scan = NoScan /\ scan' = scan /\ (batch # NoBatch => batch.slot = i)
  BY <1>1 DEF Serving, ApiSlot, controlVars
<1>3. SlotServed(i)
  <2>1. CASE batch # NoBatch
    BY <1>2, <2>1, HandleBatchServes DEF ApiSlot
  <2>2. CASE batch = NoBatch /\ ApiData(i)
    BY <2>2, ApiDataServes
  <2>3. CASE batch = NoBatch /\ UNCHANGED httpVars
    <3>1. clients' = clients /\ conns' = conns /\ batch' = NoBatch
      BY <2>3 DEF httpVars
    <3>2. \A d \in 1..accepted : Readable(d)' = Readable(d)
      BY <3>1, ResultUnread
    <3>. QED BY <3>1, <3>2 DEF SlotServed
  <2>. QED BY <2>1, <2>2, <2>3 DEF ApiSlot
<1>4. at' = at \/ (batch' = NoBatch /\ at' = <<"api", i + 1>>)
  BY DEF ApiSlot
<1>5. i \in Nat
  BY <1>1 DEF Serving
<1>6. Serving'
  <2>1. CASE at' = at
    <3>1. batch' # NoBatch => at' = <<"api", batch'.slot>>
      BY <1>1, <1>3, <2>1 DEF SlotServed
    <3>2. scan' = NoScan
      BY <1>2
    <3>3. at' = <<"api", i>> /\ at'[1] = "api" /\ at'[2] = i
      BY <1>1, <2>1
    <3>. QED BY <1>5, <3>1, <3>2, <3>3 DEF Serving
  <2>2. CASE batch' = NoBatch /\ at' = <<"api", i + 1>>
    <3>1. at'[1] = "api" /\ at'[2] = i + 1 /\ i + 1 \in Nat
      BY <1>5, <2>2
    <3>. QED BY <1>2, <2>2, <3>1 DEF Serving
  <2>. QED BY <1>4, <2>1, <2>2
<1>. QED BY <1>3, <1>6

LEMMA ApiSlotKeepsRounds ==
    ASSUME HttpBounds, RoundInv, Slots, Slots', NEW i \in DOMAIN clients, ApiSlot(i)
    PROVE  RoundInv'
<1>1. SlotServed(i) /\ Serving'
  BY ApiSlotServes DEF RoundInv
<1>2. /\ at = <<"api", i>> /\ UNCHANGED <<inputs, streams, opened, scan, ready, reported>>
      /\ files' = Numbered(OpenFiles')
      /\ \/ UNCHANGED <<asked, at>> /\ batch' # NoBatch
         \/ asked' = asked \cup Asked(<<"http", clients[i].fd>>) /\ at' = <<"api", i + 1>>
  BY DEF ApiSlot, controlVars
<1>3. /\ DOMAIN clients' = DOMAIN clients
      /\ \A j \in DOMAIN clients \ {i} : clients'[j].fd = clients[j].fd
      /\ clients'[i].fd \in {clients[i].fd, Closed}
      /\ \A c \in 1..accepted : c # clients[i].fd => Readable(c)' = Readable(c)
  BY <1>1 DEF SlotServed
<1>. QED BY <1>1, <1>2, <1>3, ApiKeepsRounds

\* What a handler that accepts nobody does to the entries: one may be closed, and is the only one
\* that is read from.
InputServed(i) ==
    /\ DOMAIN inputs' = DOMAIN inputs
    /\ \A j \in DOMAIN inputs \ {i} : inputs'[j] = inputs[j]
    /\ inputs'[i].fd \in {inputs[i].fd, Unused} /\ inputs'[i].type = inputs[i].type
    /\ DOMAIN streams' = DOMAIN streams /\ Len(streams') = Len(streams)
    /\ \A s \in DOMAIN streams : streams'[s].type = streams[s].type
    /\ \A s \in 1..opened : s # inputs[i].fd => streams'[s] = streams[s]
    /\ opened' = opened
    /\ scan' # NoScan => scan'.slot = i /\ inputs'[i].fd = inputs[i].fd

LEMMA EntryReplaced ==
    ASSUME ControlTyped, NEW i \in DOMAIN inputs, NEW e, inputs' = [inputs EXCEPT ![i] = e],
           e.fd \in {inputs[i].fd, Unused}, e.type = inputs[i].type
    PROVE  /\ DOMAIN inputs' = DOMAIN inputs
           /\ \A j \in DOMAIN inputs \ {i} : inputs'[j] = inputs[j]
           /\ inputs'[i].fd \in {inputs[i].fd, Unused} /\ inputs'[i].type = inputs[i].type
           /\ inputs'[i] = e
OBVIOUS

LEMMA StreamReplaced ==
    ASSUME ControlTyped, NEW c, NEW f, streams' = [streams EXCEPT ![c] = f],
           c \in DOMAIN streams => f.type = streams[c].type
    PROVE  /\ DOMAIN streams' = DOMAIN streams /\ Len(streams') = Len(streams)
           /\ \A s \in DOMAIN streams : streams'[s].type = streams[s].type
           /\ \A s \in 1..opened : s # c => streams'[s] = streams[s]
<1>1. /\ DOMAIN streams = 1..Len(streams) /\ Len(streams) \in Nat
      /\ 1..opened \subseteq DOMAIN streams
  BY DEF ControlTyped
<1>2. /\ DOMAIN streams' = DOMAIN streams
      /\ \A s \in DOMAIN streams : streams'[s] = IF s = c THEN f ELSE streams[s]
  OBVIOUS
<1>3. Len(streams') = Len(streams)
  BY <1>1, <1>2
<1>. QED BY <1>1, <1>2, <1>3

LEMMA InputUnchanged ==
    ASSUME ControlTyped, NEW i \in DOMAIN inputs, inputs' = inputs, streams' = streams,
           opened' = opened, scan' # NoScan => scan'.slot = i
    PROVE  InputServed(i)
<1>1. 1..opened \subseteq DOMAIN streams
  BY DEF ControlTyped
<1>. QED BY <1>1 DEF InputServed

LEMMA ControlDataServes ==
    ASSUME ControlTyped, NEW i \in DOMAIN inputs, ControlData(i)
    PROVE  InputServed(i)
<1>1. inputs[i] \in InputType /\ opened \in Nat
  BY InputTyped DEF ControlTyped
<1>2. PICK k \in InputType : k = Enlarged(inputs[i]) /\ k.fd = inputs[i].fd /\ k.type = inputs[i].type
  BY <1>1, EnlargedTyped
<1>3. CASE ReadNothing(i)
  <2>1. PICK e : e = ControlClosed(k)
    OBVIOUS
  <2>2. inputs' = [inputs EXCEPT ![i] = e] /\ UNCHANGED <<streams, opened>> /\ scan' = NoScan
    BY <1>2, <1>3, <2>1 DEF ReadNothing
  <2>3. e.fd = Unused /\ e.type = inputs[i].type
    BY <1>2, <2>1 DEF ControlClosed, InputType
  <2>4. 1..opened \subseteq DOMAIN streams
    BY DEF ControlTyped
  <2>. QED BY <2>2, <2>3, <2>4, EntryReplaced DEF InputServed
<1>4. CASE Read(i)
  <2> DEFINE c == inputs[i].fd
  <2>1. c \in DOMAIN streams
    <3>1. c # Unused
      BY <1>2, <1>4 DEF Read
    <3>. QED BY <3>1, StreamRange
  <2>2. PICK n : n = streams[c].read + ReadCount(k)
    OBVIOUS
  <2>3. PICK f : f = [streams[c] EXCEPT !.read = n]
    OBVIOUS
  <2>4. streams' = [streams EXCEPT ![c] = f]
    BY <1>2, <1>4, <2>2, <2>3 DEF Read
  <2>5. f.type = streams[c].type
    <3>1. streams[c] \in StreamType
      BY <2>1, StreamRange, StreamTyped
    <3>. QED BY <2>3, <3>1 DEF StreamType
  <2>6. inputs' = [inputs EXCEPT ![i] = k] /\ opened' = opened /\ scan'.slot = i
    BY <1>2, <1>4 DEF Read
  <2>7. /\ DOMAIN inputs' = DOMAIN inputs
        /\ \A j \in DOMAIN inputs \ {i} : inputs'[j] = inputs[j]
        /\ inputs'[i].fd = inputs[i].fd /\ inputs'[i].type = inputs[i].type
    BY <1>2, <2>6
  <2>8. /\ DOMAIN streams' = DOMAIN streams /\ Len(streams') = Len(streams)
        /\ \A s \in DOMAIN streams : streams'[s].type = streams[s].type
        /\ \A s \in 1..opened : s # c => streams'[s] = streams[s]
    BY <2>4, <2>5, StreamReplaced
  <2>. QED BY <2>6, <2>7, <2>8 DEF InputServed
<1>. QED BY <1>3, <1>4 DEF ControlData

LEMMA HandleScanServes ==
    ASSUME ControlTyped, HandleScan
    PROVE  scan.slot \in DOMAIN inputs /\ InputServed(scan.slot)
<1>1. scan # NoScan
  BY DEF HandleScan, EndLine, StripByte, KeepByte, EndScan, AtByte
<1>2. PICK i \in DOMAIN inputs : i = scan.slot
  BY <1>1, ScanTyped
<1>3. scan \in ScanType /\ inputs[i] \in InputType /\ opened \in Nat
  BY <1>1, ScanTyped, InputTyped DEF ControlTyped
<1>4. CASE EndLine
  <2> DEFINE c == inputs[i].fd
  <2>1. PICK m : m = (streams[c].misread \/ (scan.offset > 0 /\ scan.head < scan.size))
    OBVIOUS
  <2>2. PICK f : f = [streams[c] EXCEPT !.obeyed = Append(@, LineSoFar), !.misread = m]
    OBVIOUS
  <2>3. streams' = [streams EXCEPT ![c] = f]
    BY <1>2, <1>4, <2>1, <2>2 DEF EndLine
  <2>4. ASSUME c \in DOMAIN streams PROVE f.type = streams[c].type
    <3>1. streams[c] \in StreamType
      BY <2>4, StreamRange, StreamTyped
    <3>. QED BY <2>2, <3>1 DEF StreamType
  <2>5. inputs' = inputs /\ opened' = opened /\ scan'.slot = i
    BY <1>2, <1>3, <1>4 DEF EndLine, ScanType
  <2>6. /\ DOMAIN streams' = DOMAIN streams /\ Len(streams') = Len(streams)
        /\ \A s \in DOMAIN streams : streams'[s].type = streams[s].type
        /\ \A s \in 1..opened : s # c => streams'[s] = streams[s]
    BY <2>3, <2>4, StreamReplaced
  <2>. QED BY <1>2, <2>5, <2>6 DEF InputServed
<1>5. CASE StripByte \/ KeepByte
  <2>1. inputs' = inputs /\ opened' = opened /\ streams' = streams
    BY <1>5 DEF StripByte, KeepByte
  <2>2. scan'.slot = i
    BY <1>2, <1>3, <1>5 DEF StripByte, KeepByte, ScanType
  <2>. QED BY <1>2, <2>1, <2>2, InputUnchanged
<1>6. CASE EndScan
  <2> DEFINE k == inputs[i]
             c == k.fd
  <2>1. opened' = opened /\ scan' = NoScan
    BY <1>6 DEF EndScan
  <2>2. PICK e : /\ inputs' = [inputs EXCEPT ![i] = e]
                 /\ e \in {[k EXCEPT !.buf = LineSoFar], ControlClosed(k), [k EXCEPT !.buf = <<>>]}
    <3>1. \/ inputs' = [inputs EXCEPT ![i] = [k EXCEPT !.buf = LineSoFar]]
          \/ inputs' = [inputs EXCEPT ![i] = ControlClosed(k)]
          \/ inputs' = [inputs EXCEPT ![i] = [k EXCEPT !.buf = <<>>]]
      BY <1>2, <1>6 DEF EndScan
    <3>. QED BY <3>1
  <2>3. e.fd \in {k.fd, Unused} /\ e.type = k.type
    BY <1>3, <2>2 DEF ControlClosed, InputType
  <2>4. PICK f : f = [streams[c] EXCEPT !.overlong = TRUE]
    OBVIOUS
  <2>5. streams' = streams \/ streams' = [streams EXCEPT ![c] = f]
    BY <1>2, <1>6, <2>4 DEF EndScan
  <2>6. ASSUME c \in DOMAIN streams PROVE f.type = streams[c].type
    <3>1. streams[c] \in StreamType
      BY <2>6, StreamRange, StreamTyped
    <3>. QED BY <2>4, <3>1 DEF StreamType
  <2>7. /\ DOMAIN streams' = DOMAIN streams /\ Len(streams') = Len(streams)
        /\ \A s \in DOMAIN streams : streams'[s].type = streams[s].type
        /\ \A s \in 1..opened : s # c => streams'[s] = streams[s]
    BY <2>5, <2>6, StreamReplaced
  <2>8. /\ DOMAIN inputs' = DOMAIN inputs
        /\ \A j \in DOMAIN inputs \ {i} : inputs'[j] = inputs[j]
        /\ inputs'[i].fd \in {inputs[i].fd, Unused} /\ inputs'[i].type = inputs[i].type
    BY <2>2, <2>3, EntryReplaced
  <2>. QED BY <1>2, <2>1, <2>7, <2>8 DEF InputServed
<1>. QED BY <1>4, <1>5, <1>6 DEF HandleScan

LEMMA ControlSlotKeepsRounds ==
    ASSUME ControlTyped, RoundInv, Slots, Slots', NEW i \in DOMAIN inputs, ControlSlot(i)
    PROVE  RoundInv'
<1>1. /\ at = <<"control", i>> /\ at[1] = "control" /\ at[2] = i /\ up /\ i \in Nat
      /\ batch = NoBatch /\ (scan # NoScan => scan.slot = i)
  BY DEF ControlSlot, RoundInv, Serving
<1>2. /\ UNCHANGED <<clients, conns, accepted, batch, up, ready, reported>>
      /\ files' = Numbered(OpenFiles')
      /\ \/ UNCHANGED <<asked, at>> /\ scan' # NoScan
         \/ /\ scan' = NoScan
            /\ asked' = asked \cup Asked(<<"control", inputs[i].fd>>) /\ at' = <<"control", i + 1>>
  BY DEF ControlSlot, httpVars
<1>3. CASE scan = NoScan /\ ControlAccept(i)
  <2>1. scan' = NoScan
    BY <1>3 DEF ControlAccept
  <2>2. Serving'
    <3>1. at'[1] = "control" /\ at'[2] = i + 1 /\ i + 1 \in Nat /\ at' = <<"control", i + 1>>
      BY <1>1, <1>2, <2>1
    <3>. QED BY <1>1, <1>2, <2>1, <3>1 DEF Serving
  <2>. QED BY <1>1, <1>2, <1>3, <2>1, <2>2, AcceptKeepsRounds
<1>4. CASE ~(scan = NoScan /\ ControlAccept(i))
  <2>1. InputServed(i)
    <3>1. CASE scan # NoScan
      <4>1. HandleScan
        BY <3>1 DEF ControlSlot
      <4>. QED BY <1>1, <3>1, <4>1, HandleScanServes
    <3>2. CASE scan = NoScan /\ ControlData(i)
      BY <3>2, ControlDataServes
    <3>3. CASE scan = NoScan /\ UNCHANGED controlVars
      BY <3>3, InputUnchanged DEF controlVars
    <3>. QED BY <1>4, <3>1, <3>2, <3>3 DEF ControlSlot
  <2>2. Serving'
    <3>1. CASE UNCHANGED <<asked, at>> /\ scan' # NoScan
      BY <1>1, <1>2, <2>1, <3>1 DEF Serving, InputServed
    <3>2. CASE scan' = NoScan /\ at' = <<"control", i + 1>>
      <4>1. at'[1] = "control" /\ at'[2] = i + 1 /\ i + 1 \in Nat
        BY <1>1, <3>2
      <4>. QED BY <1>1, <1>2, <3>2, <4>1 DEF Serving
    <3>. QED BY <1>2, <3>1, <3>2
  <2>3. /\ DOMAIN inputs' = DOMAIN inputs
        /\ \A j \in DOMAIN inputs \ {i} : inputs'[j] = inputs[j]
        /\ inputs'[i].fd \in {inputs[i].fd, Unused} /\ inputs'[i].type = inputs[i].type
        /\ DOMAIN streams' = DOMAIN streams /\ Len(streams') = Len(streams)
        /\ \A s \in DOMAIN streams : streams'[s].type = streams[s].type
        /\ \A s \in 1..opened : s # inputs[i].fd => streams'[s] = streams[s]
        /\ opened' = opened
        /\ scan' # NoScan => inputs'[i].fd = inputs[i].fd
    BY <2>1 DEF InputServed
  <2>4. UNCHANGED <<clients, opened, ready, reported>>
    BY <1>2, <2>3
  <2>5. \/ UNCHANGED <<asked, at>> /\ scan' # NoScan /\ inputs'[i].fd = inputs[i].fd
        \/ /\ asked' = asked \cup Asked(<<"control", inputs[i].fd>>)
           /\ at' = <<"control", i + 1>>
    BY <1>2, <2>3
  <2>. QED BY <1>1, <1>2, <2>2, <2>3, <2>4, <2>5, ControlKeepsRounds
<1>. QED BY <1>3, <1>4

\* api_loop accepts a client: a descriptor is opened, and nothing is read.
LEMMA AcceptOpens ==
    ASSUME HttpBounds, Slots, Accept, TakeClient, inputs' = inputs
    PROVE  /\ OpenFiles' = OpenFiles \cup {<<"http", accepted + 1>>}
           /\ <<"http", accepted + 1>> \notin OpenFiles
           /\ \A c \in 1..accepted : Readable(c)' = Readable(c)
<1>1. PICK i \in 1..(Len(clients) + 1), k \in ClientType' :
             /\ clients' = [j \in DOMAIN clients \cup {i} |-> IF j = i THEN k ELSE clients[j]]
             /\ k.fd = accepted + 1
             /\ i \in DOMAIN clients => clients[i].fd = Closed
  BY AcceptedSlot
<1>2. /\ DOMAIN clients' = DOMAIN clients \cup {i} /\ clients'[i] = k
      /\ \A j \in DOMAIN clients : j # i => clients'[j] = clients[j]
  BY <1>1, AcceptedClients
<1>3. PICK s \in Nat : s = accepted + 1
  BY DEF Slots
<1>4. s # Closed /\ s \notin 1..accepted
  BY <1>3 DEF Slots, Closed
<1>5. PICK d : d = <<"http", s>>
  OBVIOUS
<1>6. d \notin OpenFiles
  BY <1>4, <1>5, HttpOpen
<1>7. ASSUME NEW e PROVE e \in OpenFiles' <=> e \in OpenFiles \/ e = d
  <2>1. e \in OpenFiles' <=>
          \/ e = Listener
          \/ \E l \in DOMAIN clients' : clients'[l].fd # Closed /\ e = <<"http", clients'[l].fd>>
          \/ \E l \in DOMAIN inputs : inputs[l].fd # Unused /\ e = <<"control", inputs[l].fd>>
    BY DEF OpenFiles
  <2>2. clients'[i].fd = s
    BY <1>1, <1>2, <1>3
  <2>3. (\E l \in DOMAIN clients' : clients'[l].fd # Closed /\ e = <<"http", clients'[l].fd>>)
        <=> e = d \/ \E l \in DOMAIN clients : clients[l].fd # Closed /\ e = <<"http", clients[l].fd>>
    BY <1>1, <1>2, <1>4, <1>5, <2>2
  <2>. QED BY <2>1, <2>3, OpenIs
<1>8. ASSUME NEW c \in 1..accepted PROVE Readable(c)' = Readable(c)
  <2>1. c \in DOMAIN conns /\ c # accepted + 1
    BY <1>3, <1>4 DEF Slots
  <2>2. \E slot : conns' = [conns EXCEPT ![accepted'].spoiled = slot # Disconnected(slot)]
    BY DEF TakeClient
  <2>3. accepted' = accepted + 1
    BY DEF TakeClient
  <2>4. conns'[c] = conns[c]
    BY <2>1, <2>2, <2>3
  <2>. QED BY <2>4 DEF Readable
<1>. QED BY <1>3, <1>5, <1>6, <1>7, <1>8

LEMMA ListenKeepsRounds ==
    ASSUME HttpBounds, RoundInv, Slots, Listen
    PROVE  RoundInv'
<1>1. /\ at[1] = "listen" /\ Turn = Listener /\ batch = NoBatch /\ scan = NoScan
      /\ at'[1] = "api" /\ at'[2] = 1 /\ at' = <<"api", 1>>
  BY TurnIs DEF Listen, RoundInv, Serving
<1>2. /\ UNCHANGED <<inputs, streams, opened, scan, ready, reported>>
      /\ files' = Numbered(OpenFiles') /\ asked' = asked \cup NumbersOf(Listener)
      /\ batch' = NoBatch
  BY <1>1 DEF Listen, controlVars, Accept, TakeClient, AcceptFails, httpVars
<1>3. asked = {}
  <2>1. ASSUME NEW n \in asked PROVE FALSE
    <3>1. ~Ahead(files[n]) /\ files[n] # Turn
      BY DEF RoundInv, AskedOpen
    <3>2. \A d : d # Listener => Ahead(d)
      BY <1>1 DEF Ahead
    <3>. QED BY <1>1, <3>1, <3>2
  <2>. QED BY <2>1
<1>4. ASSUME NEW n \in ready
      PROVE  /\ n \in DOMAIN files /\ files[n] = reported[n] /\ files[n] # Nobody
             /\ HasInput(files[n])
  <2>1. n \in DOMAIN files /\ Waiting(n)
    BY <1>1 DEF RoundInv, ReadyOpen, Freed, Given
  <2>2. files[n] # Listener => Ahead(files[n])
    BY <1>1 DEF Ahead
  <2>. QED BY <1>1, <2>1, <2>2 DEF Waiting
\* Numbers are kept, and descriptors that are open have the input they had.
<1>5. /\ Filed'
      /\ \A n \in DOMAIN files : files[n] # Nobody =>
            n \in DOMAIN files' /\ files'[n] = files[n] /\ files[n] \in OpenFiles'
      /\ \A c \in 1..accepted : Readable(c)' = Readable(c)
  <2>1. CASE Accept /\ TakeClient
    <3>1. PICK d : d = <<"http", accepted + 1>>
      OBVIOUS
    <3>2. /\ OpenFiles' = OpenFiles \cup {d} /\ d \notin OpenFiles /\ d # Nobody
          /\ \A c \in 1..accepted : Readable(c)' = Readable(c)
      BY <1>2, <2>1, <3>1, AcceptOpens DEF Nobody
    <3>3. /\ Filed'
          /\ \E m \in Nat :
               /\ m \in DOMAIN files => files[m] = Nobody
               /\ DOMAIN files' = DOMAIN files \cup {m}
               /\ files'[m] = d
               /\ \A n \in DOMAIN files \ {m} : files'[n] = files[n]
      BY <1>2, <3>2, FiledAgain DEF RoundInv
    <3>. QED BY <3>2, <3>3 DEF RoundInv, Filed
  <2>2. CASE AcceptFails \/ UNCHANGED httpVars
    <3>1. OpenFiles' = OpenFiles
      BY <1>2, <2>2 DEF OpenFiles, AcceptFails, httpVars
    <3>2. /\ Filed' /\ DOMAIN files' = DOMAIN files
          /\ \A n \in DOMAIN files : files'[n] = IF files[n] \in OpenFiles' THEN files[n] ELSE Nobody
      BY <1>2, <3>1, StillFiled DEF RoundInv
    <3>3. \A c : Readable(c)' = Readable(c)
      BY <2>2 DEF Readable, AcceptFails, httpVars
    <3>. QED BY <3>1, <3>2, <3>3 DEF RoundInv, Filed
  <2>. QED BY <2>1, <2>2 DEF Listen, Accept
<1>6. Kinds'
  BY <1>2 DEF RoundInv, Kinds
<1>7. Serving'
  BY <1>1, <1>2 DEF Serving
<1>8. ASSUME NEW d, Ahead(d)' \/ d = Turn' PROVE d # Listener
  <2>1. CASE Ahead(d)'
    BY <1>1, <2>1 DEF Ahead, Listener
  <2>2. CASE d = Turn'
    <3>1. (\E c : d = <<"http", c>>) \/ d = Nobody
      BY <1>1, <2>2 DEF Turn
    <3>. QED BY <3>1 DEF Nobody, Listener
  <2>. QED BY <1>8, <2>1, <2>2
<1>9. AskedOpen'
  <2> SUFFICES ASSUME NEW n \in asked'
               PROVE  /\ n \in DOMAIN files' /\ files'[n] \in OpenFiles'
                      /\ ~Ahead(files[n])' /\ files'[n] # Turn'
    BY DEF AskedOpen
  <2>1. PICK d : d = Listener
    OBVIOUS
  <2>2. n \in DOMAIN files /\ files[n] = d /\ files[n] # Nobody
    BY <1>2, <1>3, <2>1 DEF NumbersOf, Listener, Nobody
  <2>3. n \in DOMAIN files' /\ files'[n] = d /\ d \in OpenFiles'
    BY <1>5, <2>2
  <2>4. ~Ahead(d)' /\ d # Turn'
    BY <1>8, <2>1
  <2>. QED BY <2>3, <2>4
<1>10. ReadyOpen'
  <2>1. ASSUME NEW n \in ready' PROVE n \in DOMAIN files' /\ Waiting(n)'
    <3>1. /\ n \in DOMAIN files' /\ files'[n] = files[n] /\ files[n] \in OpenFiles
          /\ files'[n] = reported'[n] /\ files'[n] # Nobody /\ HasInput(files[n])
      BY <1>2, <1>4, <1>5 DEF RoundInv, Filed
    <3>2. PICK d : d = files[n]
      OBVIOUS
    <3>3. ASSUME d # Listener PROVE HasInput(d)'
      <4>1. CASE \E c : d = <<"http", c>>
        <5>1. PICK c : d = <<"http", c>>
          BY <4>1
        <5>2. Readable(c)
          BY <3>1, <3>2, <5>1, InputIs
        <5>3. Readable(c)'
          BY <1>5, <3>1, <3>2, <5>1, <5>2, HttpOpen
        <5>. QED BY <5>1, <5>3 DEF HasInput, Listener
      <4>2. CASE \E s : d = <<"control", s>>
        BY <1>2, <3>1, <3>2, <4>2 DEF HasInput, Listener
      <4>. QED BY <3>1, <3>2, <3>3, <4>1, <4>2, OpenIs
    <3>4. Ahead(d)' \/ d = Turn' => HasInput(d)'
      BY <1>8, <3>3
    <3>5. files'[n] = d
      BY <3>1, <3>2
    <3>. QED BY <3>1, <3>4, <3>5 DEF Waiting
  <2>2. at'[1] # "select"
    BY <1>1
  <2>. QED BY <2>1, <2>2 DEF ReadyOpen
<1>. QED BY <1>5, <1>6, <1>7, <1>9, <1>10 DEF RoundInv

\* The turn goes from the server to the inputs, and from the inputs to select.
LEMMA EndApiKeepsRounds ==
    ASSUME HttpBounds, RoundInv, EndApi
    PROVE  RoundInv'
<1>1. /\ at[1] = "api" /\ at'[1] = "control" /\ at'[2] = 1 /\ at' = <<"control", 1>> /\ up
      /\ UNCHANGED <<httpVars, controlVars, files, ready, asked, reported>>
  BY DEF EndApi
<1>2. batch = NoBatch /\ scan = NoScan
  BY <1>1, BatchTyped DEF RoundInv, Serving, EndApi
<1>3. UNCHANGED <<clients, accepted, conns, batch, up, inputs, streams, opened, scan>>
  BY <1>1 DEF httpVars, controlVars
<1>4. OpenFiles' = OpenFiles
  BY <1>3 DEF OpenFiles
<1>5. ASSUME NEW d \in OpenFiles, Ahead(d)' \/ d = Turn' PROVE Ahead(d)
  <2>1. d # Nobody
    BY NobodyIsClosed
  <2>2. d[1] = "control"
    <3>1. CASE Ahead(d)'
      <4>1. PICK l \in DOMAIN inputs' : d = <<"control", inputs'[l].fd>>
        BY <1>1, <3>1 DEF Ahead
      <4>2. PICK s : s = inputs'[l].fd
        OBVIOUS
      <4>. QED BY <4>1, <4>2
    <3>2. CASE d = Turn'
      <4>1. d = <<"control", inputs'[at'[2]].fd>>
        BY <1>1, <2>1, <3>2 DEF Turn
      <4>2. PICK s : s = inputs'[at'[2]].fd
        OBVIOUS
      <4>. QED BY <4>1, <4>2
    <3>. QED BY <1>5, <3>1, <3>2
  <2>. QED BY <1>1, <2>2 DEF Ahead
<1>6. Serving'
  BY <1>1, <1>2, <1>3 DEF Serving
<1>7. Kinds' /\ Filed'
  BY <1>1, <1>3, <1>4 DEF RoundInv, Kinds, Filed
<1>8. AskedOpen'
  <2> SUFFICES ASSUME NEW n \in asked
               PROVE  /\ n \in DOMAIN files' /\ files'[n] \in OpenFiles'
                      /\ ~Ahead(files[n])' /\ files'[n] # Turn'
    BY <1>1 DEF AskedOpen
  <2>1. PICK d : d = files[n]
    OBVIOUS
  <2>2. n \in DOMAIN files /\ d \in OpenFiles /\ ~Ahead(d)
    BY <2>1 DEF RoundInv, AskedOpen
  <2>3. ~Ahead(d)' /\ d # Turn'
    BY <1>5, <2>2
  <2>. QED BY <1>1, <1>4, <2>1, <2>2, <2>3
<1>9. \A d : HasInput(d)' = HasInput(d)
  BY <1>3 DEF HasInput, Readable
<1>10. ASSUME NEW n \in ready PROVE n \in DOMAIN files /\ (Waiting(n)' \/ Freed(n)' \/ Given(n)')
  <2>1. n \in DOMAIN files /\ (Waiting(n) \/ Freed(n))
    BY <1>1 DEF RoundInv, ReadyOpen, Given
  <2>2. CASE Waiting(n)
    <3>1. PICK d : d = files[n]
      OBVIOUS
    <3>2. d \in OpenFiles /\ d = reported[n] /\ d # Nobody /\ (Ahead(d) => HasInput(d))
      BY <2>1, <2>2, <3>1 DEF Waiting, RoundInv, Filed
    <3>3. Ahead(d)' \/ d = Turn' => HasInput(d)'
      BY <1>5, <1>9, <3>2
    <3>4. files'[n] = d /\ reported'[n] = d
      BY <1>1, <3>1, <3>2
    <3>. QED BY <2>1, <3>2, <3>3, <3>4 DEF Waiting
  <2>3. CASE Freed(n)
    <3>1. Freed(n)'
      BY <1>1, <2>3 DEF Freed
    <3>. QED BY <2>1, <3>1
  <2>. QED BY <2>1, <2>2, <2>3
<1>11. ReadyOpen'
  BY <1>1, <1>10 DEF ReadyOpen
<1>. QED BY <1>6, <1>7, <1>8, <1>11 DEF RoundInv

LEMMA EndControlKeepsRounds ==
    ASSUME ControlTyped, RoundInv, EndControl
    PROVE  RoundInv'
<1>1. /\ at[1] = "control" /\ at'[1] = "select" /\ at'[2] = 0 /\ at' = <<"select", 0>>
      /\ UNCHANGED <<httpVars, controlVars, files, asked>> /\ ready' = {}
  BY DEF EndControl
<1>2. batch = NoBatch /\ scan = NoScan
  BY <1>1, ScanTyped DEF RoundInv, Serving, EndControl
<1>3. UNCHANGED <<clients, accepted, conns, batch, up, inputs, streams, opened, scan>>
  BY <1>1 DEF httpVars, controlVars
<1>4. OpenFiles' = OpenFiles
  BY <1>3 DEF OpenFiles
<1>5. Serving'
  BY <1>1, <1>2, <1>3 DEF Serving
<1>6. Kinds' /\ Filed'
  BY <1>1, <1>3, <1>4 DEF RoundInv, Kinds, Filed
<1>7. Turn' = Nobody
  BY <1>1 DEF Turn
<1>8. ASSUME NEW d PROVE ~Ahead(d)'
  BY <1>1 DEF Ahead
<1>9. AskedOpen'
  <2> SUFFICES ASSUME NEW n \in asked
               PROVE  /\ n \in DOMAIN files' /\ files'[n] \in OpenFiles'
                      /\ ~Ahead(files[n])' /\ files'[n] # Turn'
    BY <1>1 DEF AskedOpen
  <2>1. PICK d : d = files[n]
    OBVIOUS
  <2>2. n \in DOMAIN files /\ d \in OpenFiles
    BY <2>1 DEF RoundInv, AskedOpen
  <2>. QED BY <1>1, <1>4, <1>7, <1>8, <2>1, <2>2, NobodyIsClosed
<1>10. ReadyOpen'
  BY <1>1 DEF ReadyOpen
<1>. QED BY <1>5, <1>6, <1>9, <1>10 DEF RoundInv

LEMMA SelectKeepsRounds ==
    ASSUME RoundInv, Select
    PROVE  RoundInv'
<1>1. /\ at[1] = "select" /\ at'[1] = "listen" /\ at'[2] = 0 /\ at' = <<"listen", 0>>
      /\ UNCHANGED <<httpVars, controlVars, files>> /\ asked' = {}
      /\ ready' = {n \in asked : HasInput(files[n])} /\ reported' = files
  BY DEF Select, Reported
<1>2. batch = NoBatch /\ scan = NoScan
  BY <1>1 DEF RoundInv, Serving
<1>3. UNCHANGED <<clients, accepted, conns, batch, up, inputs, streams, opened, scan>>
  BY <1>1 DEF httpVars, controlVars
<1>4. OpenFiles' = OpenFiles
  BY <1>3 DEF OpenFiles
<1>5. Serving'
  BY <1>1, <1>2, <1>3 DEF Serving
<1>6. Kinds' /\ Filed'
  BY <1>1, <1>3, <1>4 DEF RoundInv, Kinds, Filed
<1>7. AskedOpen'
  BY <1>1 DEF AskedOpen
<1>8. ASSUME NEW n \in ready' PROVE n \in DOMAIN files' /\ Waiting(n)'
  <2>1. n \in DOMAIN files /\ files[n] \in OpenFiles /\ HasInput(files[n])
    BY <1>1 DEF RoundInv, AskedOpen
  <2>2. PICK d : d = files[n]
    OBVIOUS
  <2>3. HasInput(d)' /\ files'[n] = d
    BY <1>1, <1>3, <2>1, <2>2 DEF HasInput, Readable
  <2>. QED BY <1>1, <2>1, <2>2, <2>3, NobodyIsClosed DEF Waiting
<1>9. ReadyOpen'
  BY <1>1, <1>8 DEF ReadyOpen
<1>. QED BY <1>5, <1>6, <1>7, <1>9 DEF RoundInv

\* Between the rounds, and while the daemon waits for a client, more input may come.
LEMMA MoreInputKeepsRounds ==
    ASSUME RoundInv, Kinds', UNCHANGED <<clients, inputs, opened, batch, scan, up>>,
           UNCHANGED loopVars, \A d \in OpenFiles : HasInput(d) => HasInput(d)'
    PROVE  RoundInv'
<1>1. UNCHANGED <<files, at, ready, asked, reported>>
  BY DEF loopVars
<1>2. OpenFiles' = OpenFiles /\ Turn' = Turn
  BY <1>1 DEF OpenFiles, Turn
<1>3. \A d : Ahead(d)' <=> Ahead(d)
  BY <1>1 DEF Ahead
<1>4. Filed' /\ Serving'
  BY <1>1, <1>2 DEF RoundInv, Filed, Serving
<1>5. AskedOpen'
  <2> SUFFICES ASSUME NEW n \in asked
               PROVE  /\ n \in DOMAIN files' /\ files'[n] \in OpenFiles'
                      /\ ~Ahead(files[n])' /\ files'[n] # Turn'
    BY <1>1 DEF AskedOpen
  <2>1. PICK d : d = files[n]
    OBVIOUS
  <2>2. n \in DOMAIN files /\ d \in OpenFiles /\ ~Ahead(d) /\ d # Turn
    BY <2>1 DEF RoundInv, AskedOpen
  <2>. QED BY <1>1, <1>2, <1>3, <2>1, <2>2
<1>6. ASSUME NEW n \in ready PROVE n \in DOMAIN files /\ (Waiting(n)' \/ Freed(n)' \/ Given(n)')
  <2>1. n \in DOMAIN files /\ (Waiting(n) \/ Freed(n) \/ Given(n))
    BY DEF RoundInv, ReadyOpen
  <2>2. CASE Waiting(n)
    <3>1. PICK d : d = files[n]
      OBVIOUS
    <3>2. d \in OpenFiles /\ d = reported[n] /\ d # Nobody
      BY <2>1, <2>2, <3>1 DEF Waiting, RoundInv, Filed
    <3>3. Ahead(d) \/ (d = Turn /\ batch = NoBatch /\ scan = NoScan) => HasInput(d)
      BY <2>2, <3>1 DEF Waiting
    <3>4. Ahead(d)' \/ (d = Turn' /\ batch' = NoBatch /\ scan' = NoScan) => HasInput(d)'
      BY <1>2, <1>3, <3>2, <3>3
    <3>5. files'[n] = d /\ reported'[n] = d
      BY <1>1, <3>1, <3>2
    <3>. QED BY <2>1, <3>2, <3>4, <3>5 DEF Waiting
  <2>3. CASE Freed(n)
    <3>1. Freed(n)'
      BY <1>1, <2>3 DEF Freed
    <3>. QED BY <2>1, <3>1
  <2>4. CASE Given(n)
    <3>1. Given(n)'
      BY <1>1, <2>4 DEF Given
    <3>. QED BY <2>1, <3>1
  <2>. QED BY <2>1, <2>2, <2>3, <2>4
<1>7. ReadyOpen'
  BY <1>1, <1>6 DEF RoundInv, ReadyOpen
<1>. QED BY <1>4, <1>5, <1>7 DEF RoundInv

LEMMA HttpClientsKeepRounds ==
    ASSUME HttpBounds, RoundInv, Slots, HttpEnvironment, UNCHANGED controlVars, UNCHANGED loopVars
    PROVE  RoundInv'
<1>1. /\ UNCHANGED <<clients, accepted, batch, up>>
      /\ UNCHANGED <<inputs, streams, opened, scan>>
  BY DEF HttpEnvironment, Connect, Arrive, HangUp, controlVars
<1>2. /\ DOMAIN conns = 1..Len(conns) /\ Len(conns) \in Nat
      /\ \A c \in DOMAIN conns : conns[c] \in GoodConnection
  BY AllBounds, ElementOfSeq
<1>3. /\ Len(conns') \in Nat /\ Len(conns) <= Len(conns')
      /\ \A c \in DOMAIN conns : Readable(c) => Readable(c)'
  <2>1. CASE Connect
    <3>1. PICK e : conns' = Append(conns, e)
      BY <2>1 DEF Connect
    <3>2. Len(conns') = Len(conns) + 1 /\ \A c \in DOMAIN conns : conns'[c] = conns[c]
      BY <1>2, <3>1
    <3>. QED BY <1>2, <3>2 DEF Readable
  <2>2. ASSUME NEW c \in DOMAIN conns, Arrive(c)
        PROVE  /\ Len(conns') \in Nat /\ Len(conns) <= Len(conns')
               /\ \A d \in DOMAIN conns : Readable(d) => Readable(d)'
    <3>1. PICK n \in (conns[c].arrived + 1)..Len(Text(conns[c].request)) :
            conns' = [conns EXCEPT ![c].arrived = n]
      BY <2>2 DEF Arrive
    <3>2. DOMAIN conns' = DOMAIN conns /\ Len(conns') = Len(conns)
      BY <1>2, <3>1
    <3>3. ASSUME NEW d \in DOMAIN conns, Readable(d) PROVE Readable(d)'
      <4>1. CASE d # c
        BY <3>1, <3>3, <4>1 DEF Readable
      <4>2. CASE d = c
        <5>1. conns[c].arrived \in Nat /\ conns[c].read \in Nat /\ conns[c] \in ConnectionType
          BY <1>2 DEF GoodConnection, ConnectionType
        <5>2. n > conns[c].arrived /\ n \in Int
          BY <3>1, <5>1
        <5>3. conns'[c] = [conns[c] EXCEPT !.arrived = n]
          BY <3>1
        <5>4. /\ conns'[c].arrived = n /\ conns'[c].read = conns[c].read
              /\ conns'[c].gone = conns[c].gone
          BY <5>1, <5>3 DEF ConnectionType
        <5>. QED BY <3>3, <4>2, <5>1, <5>2, <5>4 DEF Readable
      <4>. QED BY <4>1, <4>2
    <3>. QED BY <1>2, <3>2, <3>3
  <2>3. ASSUME NEW c \in DOMAIN conns, HangUp(c)
        PROVE  /\ Len(conns') \in Nat /\ Len(conns) <= Len(conns')
               /\ \A d \in DOMAIN conns : Readable(d) => Readable(d)'
    <3>1. conns' = [conns EXCEPT ![c].gone = TRUE]
      BY <2>3 DEF HangUp
    <3>2. DOMAIN conns' = DOMAIN conns /\ Len(conns') = Len(conns)
      BY <1>2, <3>1
    <3>3. ASSUME NEW d \in DOMAIN conns, Readable(d) PROVE Readable(d)'
      <4>1. CASE d # c
        BY <3>1, <3>3, <4>1 DEF Readable
      <4>2. CASE d = c
        <5>1. conns[c] \in ConnectionType
          BY <1>2 DEF GoodConnection
        <5>2. conns'[c].gone
          BY <3>1, <5>1 DEF ConnectionType
        <5>. QED BY <4>2, <5>2 DEF Readable
      <4>. QED BY <4>1, <4>2
    <3>. QED BY <1>2, <3>2, <3>3
  <2>. QED BY <2>1, <2>2, <2>3 DEF HttpEnvironment
<1>4. Kinds'
  BY <1>1 DEF RoundInv, Kinds
<1>5. ASSUME NEW d \in OpenFiles, HasInput(d) PROVE HasInput(d)'
  <2>1. CASE d = Listener
    <3>1. accepted < Len(conns')
      BY <1>2, <1>3, <1>5, <2>1, InputIs DEF Slots
    <3>. QED BY <1>1, <2>1, <3>1 DEF HasInput, Listener
  <2>2. CASE \E c : d = <<"http", c>>
    <3>1. PICK c : d = <<"http", c>>
      BY <2>2
    <3>2. Readable(c)
      BY <1>5, <3>1, InputIs
    <3>3. Readable(c)'
      BY <1>3, <3>1, <3>2, HttpOpen
    <3>. QED BY <3>1, <3>3 DEF HasInput, Listener
  <2>3. CASE \E s : d = <<"control", s>>
    BY <1>1, <1>5, <2>3 DEF HasInput, Listener
  <2>. QED BY <2>1, <2>2, <2>3, OpenIs
<1>. QED BY <1>1, <1>4, <1>5, MoreInputKeepsRounds

LEMMA WritersKeepRounds ==
    ASSUME ControlTyped, RoundInv, Slots, ControlEnvironment, UNCHANGED httpVars, UNCHANGED loopVars
    PROVE  RoundInv'
<1>1. UNCHANGED <<inputs, opened, scan>> /\ UNCHANGED <<clients, accepted, conns, batch, up>>
  BY DEF ControlEnvironment, Call, Write, Close, httpVars
<1>2. /\ DOMAIN streams = 1..Len(streams) /\ Len(streams) \in Nat /\ opened \in 0..Len(streams)
      /\ \A s \in DOMAIN streams : streams[s] \in StreamType
  BY StreamRange, StreamTyped DEF ControlTyped
\* What is written can be read: a stream keeps its kind.
<1> DEFINE Grown(s) == /\ streams'[s].type = streams[s].type
                       /\ streams[s].read < streams[s].written \/ streams[s].gone =>
                            streams'[s].read < streams'[s].written \/ streams'[s].gone
<1>3. /\ Len(streams') \in Nat /\ Len(streams) <= Len(streams')
      /\ \A s \in DOMAIN streams : Grown(s)
      /\ \A s \in DOMAIN streams' \ DOMAIN streams : streams'[s].type = "client"
  <2>1. CASE Call
    <3>1. PICK e : e = Stream([type |-> "client", text |-> Head(callers)])
      OBVIOUS
    <3>2. streams' = Append(streams, e)
      BY <2>1, <3>1 DEF Call
    <3>3. e.type = "client"
      BY <3>1 DEF Stream
    <3>4. /\ Len(streams') = Len(streams) + 1 /\ streams'[Len(streams) + 1] = e
          /\ \A s \in DOMAIN streams : streams'[s] = streams[s]
          /\ DOMAIN streams' = 1..(Len(streams) + 1)
      BY <1>2, <3>2
    <3>5. \A s \in DOMAIN streams' \ DOMAIN streams : streams'[s].type = "client"
      BY <1>2, <3>3, <3>4
    <3>. QED BY <1>2, <3>4, <3>5
  <2>2. ASSUME NEW c \in DOMAIN streams, Write(c) \/ Close(c)
        PROVE  /\ DOMAIN streams' = DOMAIN streams /\ Len(streams') = Len(streams)
               /\ \A s \in DOMAIN streams : Grown(s)
    <3>1. /\ streams[c] \in StreamType
          /\ streams[c].written \in Nat /\ streams[c].read \in Nat
      BY <1>2 DEF StreamType
    <3>2. CASE Write(c)
      <4>1. PICK n \in (streams[c].written + 1)..Len(streams[c].text) :
               streams' = [streams EXCEPT ![c].written = n]
        BY <3>2 DEF Write
      <4>2. DOMAIN streams' = DOMAIN streams /\ Len(streams') = Len(streams)
        BY <1>2, <4>1
      <4>3. Grown(c)
        <5>1. streams'[c] = [streams[c] EXCEPT !.written = n]
          BY <4>1
        <5>2. /\ streams'[c].type = streams[c].type /\ streams'[c].read = streams[c].read
              /\ streams'[c].written = n /\ streams'[c].gone = streams[c].gone
          BY <3>1, <5>1 DEF StreamType
        <5>3. n > streams[c].written /\ n \in Int
          BY <3>1, <4>1
        <5>. QED BY <3>1, <5>2, <5>3
      <4>4. \A s \in DOMAIN streams : s # c => streams'[s] = streams[s]
        BY <4>1
      <4>. QED BY <4>2, <4>3, <4>4
    <3>3. CASE Close(c)
      <4>1. streams' = [streams EXCEPT ![c].gone = TRUE]
        BY <3>3 DEF Close
      <4>2. DOMAIN streams' = DOMAIN streams /\ Len(streams') = Len(streams)
        BY <1>2, <4>1
      <4>3. Grown(c)
        BY <3>1, <4>1 DEF StreamType
      <4>4. \A s \in DOMAIN streams : s # c => streams'[s] = streams[s]
        BY <4>1
      <4>. QED BY <4>2, <4>3, <4>4
    <3>. QED BY <2>2, <3>2, <3>3
  <2>3. CASE \E c \in DOMAIN streams : Write(c) \/ Close(c)
    BY <1>2, <2>2, <2>3
  <2>. QED BY <2>1, <2>3 DEF ControlEnvironment
<1> HIDE DEF Grown
<1>4. Kinds'
  <2>1. \A i, j \in DOMAIN inputs' :
           inputs'[i].type = "socket" /\ inputs'[j].type = "socket" => i = j
    BY <1>1 DEF RoundInv, Kinds
  <2>2. \A i \in DOMAIN inputs' :
           inputs'[i].fd # Unused => streams'[inputs'[i].fd].type = inputs'[i].type
    BY <1>1, <1>3, StreamRange DEF RoundInv, Kinds, Grown
  <2>3. \A s \in DOMAIN streams' : s > opened' => streams'[s].type = "client"
    BY <1>1, <1>3 DEF RoundInv, Kinds, Grown
  <2>. QED BY <2>1, <2>2, <2>3 DEF Kinds
<1>5. ASSUME NEW d \in OpenFiles, HasInput(d) PROVE HasInput(d)'
  <2>1. CASE d = Listener
    BY <1>1, <1>5, <2>1 DEF HasInput, Listener
  <2>2. CASE \E c : d = <<"http", c>>
    BY <1>1, <1>5, <2>2 DEF HasInput, Listener, Readable
  <2>3. CASE \E s : d = <<"control", s>>
    <3>1. PICK s : d = <<"control", s>>
      BY <2>3
    <3>2. s \in DOMAIN streams
      BY <3>1, ControlOpen
    <3>3. IF streams[s].type = "socket" THEN opened < Len(streams)
          ELSE streams[s].read < streams[s].written \/ streams[s].gone
      BY <1>5, <3>1, InputIs
    <3>4. Grown(s)
      BY <1>3, <3>2
    <3>5. IF streams'[s].type = "socket" THEN opened' < Len(streams')
          ELSE streams'[s].read < streams'[s].written \/ streams'[s].gone
      <4>1. streams'[s].type = streams[s].type
        BY <3>4 DEF Grown
      <4>2. CASE streams[s].type = "socket"
        BY <1>1, <1>2, <1>3, <3>3, <4>1, <4>2
      <4>3. CASE streams[s].type # "socket"
        BY <3>3, <3>4, <4>1, <4>3 DEF Grown
      <4>. QED BY <4>2, <4>3
    <3>. QED BY <3>1, <3>5 DEF HasInput, Listener
  <2>. QED BY <2>1, <2>2, <2>3, OpenIs
<1>. QED BY <1>1, <1>4, <1>5, MoreInputKeepsRounds

\* At the start the server waits for clients, and the inputs are open that are configured.
LEMMA RoundsInit == Init => RoundInv
<1> SUFFICES ASSUME Init PROVE RoundInv
  OBVIOUS
<1>1. PICK w \in Workloads : ControlStart(w.plan)
  BY DEF Init
<1>2. w.plan \in Plans
  BY WorkloadAssumption
<1>3. PICK c \in Seq(Source) : c = w.plan.configured
  BY <1>2, PlanAssumption
<1>4. DOMAIN c = 1..Len(c) /\ Len(c) \in Nat
  OBVIOUS
<1>5. /\ inputs = [i \in 1..Len(c) |-> Input(c[i].type, i)]
      /\ streams = [i \in 1..Len(c) |-> Stream(c[i])]
      /\ opened = Len(c) /\ scan = NoScan
  BY <1>1, <1>3, <1>4 DEF ControlStart
<1>6. /\ \A i \in 1..Len(c) : /\ inputs[i].fd = i /\ inputs[i].type = c[i].type
                              /\ streams[i].type = c[i].type
      /\ DOMAIN inputs = 1..Len(c) /\ DOMAIN streams = 1..Len(c) /\ Len(inputs) = Len(c)
  BY <1>4, <1>5 DEF Input, Stream
<1>7. /\ at = <<"listen", 0>> /\ at[1] = "listen" /\ at[2] = 0
      /\ ready = {} /\ asked = {} /\ clients = <<>> /\ batch = NoBatch
      /\ files = [n \in 1..(Len(c) + 1) |-> IF n = 1 THEN Listener ELSE <<"control", n - 1>>]
  BY <1>6 DEF Init, HttpInit
<1>8. Filed
  <2>1. \A n \in DOMAIN files : files[n] \in OpenFiles
    <3>1. ASSUME NEW n \in 2..(Len(c) + 1) PROVE <<"control", n - 1>> \in OpenFiles
      <4>1. PICK i \in 1..Len(c) : i = n - 1
        BY <1>4
      <4>2. inputs[i].fd # Unused /\ <<"control", n - 1>> = <<"control", inputs[i].fd>>
        BY <1>6, <4>1 DEF Unused
      <4>. QED BY <1>6, <4>2, OpenIs
    <3>2. Listener \in OpenFiles
      BY OpenIs
    <3>3. ASSUME NEW n \in DOMAIN files PROVE files[n] \in OpenFiles
      <4>1. n \in 1..(Len(c) + 1)
        BY <1>7
      <4>2. CASE n = 1
        BY <1>7, <3>2, <4>1, <4>2
      <4>3. CASE n # 1
        <5>1. n \in 2..(Len(c) + 1)
          BY <1>4, <4>1, <4>3
        <5>2. files[n] = <<"control", n - 1>>
          BY <1>7, <4>1, <4>3
        <5>. QED BY <3>1, <5>1, <5>2
      <4>. QED BY <4>2, <4>3
    <3>. QED BY <3>3
  <2>2. ASSUME NEW d \in OpenFiles PROVE \E n \in DOMAIN files : files[n] = d
    <3>1. CASE d = Listener
      BY <1>4, <1>7, <3>1
    <3>2. CASE \E i \in DOMAIN inputs : d = <<"control", inputs[i].fd>>
      <4>1. PICK i \in 1..Len(c) : d = <<"control", i>>
        BY <1>6, <3>2
      <4>2. i + 1 \in DOMAIN files /\ files[i + 1] = d
        BY <1>4, <1>7, <4>1
      <4>. QED BY <4>2
    <3>. QED BY <1>7, <3>1, <3>2, OpenIs
  <2>3. DOMAIN files = 1..(Len(c) + 1) /\ Len(c) + 1 \in Nat
    BY <1>4, <1>7
  <2>. QED BY <2>1, <2>2, <2>3 DEF Filed
<1>9. Serving
  BY <1>5, <1>7 DEF Serving
<1>10. Kinds
  <2>1. \A i, j \in 1..Len(c) : c[i].type = "socket" /\ c[j].type = "socket" => i = j
    BY <1>2, <1>3, <1>4, SocketAssumption
  <2>2. \A i, j \in DOMAIN inputs :
           inputs[i].type = "socket" /\ inputs[j].type = "socket" => i = j
    BY <1>6, <2>1
  <2>3. \A i \in DOMAIN inputs : streams[inputs[i].fd].type = inputs[i].type
    BY <1>6
  <2>4. \A s \in DOMAIN streams : ~(s > opened)
    BY <1>4, <1>5, <1>6
  <2>. QED BY <2>2, <2>3, <2>4 DEF Kinds
<1>11. AskedOpen /\ ReadyOpen
  BY <1>7 DEF AskedOpen, ReadyOpen
<1>. QED BY <1>8, <1>9, <1>10, <1>11 DEF RoundInv

\* What the rounds rest on in the server and in the inputs.
PartsInv == HttpBounds /\ SlotInv /\ ControlInv /\ LineInv

LEMMA PartsAre == PartsInv => ControlTyped /\ Slots
BY SlotsAre, HttpTypedParts DEF PartsInv, HttpBounds, SlotInv, ControlInv, SafeParts

LEMMA PartsInit == Init => PartsInv
BY InputsInit, BoundsInit, SlotInit, ControlInvInit, LineInvInit DEF PartsInv

LEMMA PartsNext == PartsInv /\ [Next]_vars => PartsInv'
<1> SUFFICES ASSUME PartsInv, [Next]_vars PROVE PartsInv'
  OBVIOUS
<1>1. [HttpNext]_httpVars /\ [ControlNext]_controlVars
  BY InputsHttp, InputsControl
<1>2. HttpBounds' /\ SlotInv'
  BY <1>1, BoundsNext, SlotNext DEF PartsInv
<1>3. ControlInv'
  BY <1>1, ControlInvNext DEF PartsInv
<1>4. LineInv'
  BY <1>1, <1>3, LineInvNext DEF PartsInv, ControlInv
<1>. QED BY <1>2, <1>3, <1>4 DEF PartsInv

LEMMA RoundsNext == PartsInv /\ PartsInv' /\ RoundInv /\ [Next]_vars => RoundInv'
<1> SUFFICES ASSUME PartsInv, PartsInv', RoundInv, [Next]_vars PROVE RoundInv'
  OBVIOUS
<1>1. HttpBounds /\ ControlTyped /\ Slots
  BY PartsAre DEF PartsInv
<1>2. Slots'
  BY PartsAre, PTL
<1>3. CASE Listen
  BY <1>1, <1>3, ListenKeepsRounds
<1>4. CASE \E i \in DOMAIN clients : ApiSlot(i)
  BY <1>1, <1>2, <1>4, ApiSlotKeepsRounds
<1>5. CASE EndApi
  BY <1>1, <1>5, EndApiKeepsRounds
<1>6. CASE \E i \in DOMAIN inputs : ControlSlot(i)
  BY <1>1, <1>2, <1>6, ControlSlotKeepsRounds
<1>7. CASE EndControl
  BY <1>1, <1>7, EndControlKeepsRounds
<1>8. CASE Select
  BY <1>8, SelectKeepsRounds
<1>9. CASE Environment
  BY <1>1, <1>9, HttpClientsKeepRounds, WritersKeepRounds DEF Environment
<1>10. CASE UNCHANGED vars
  <2>1. /\ UNCHANGED <<clients, accepted, conns, batch, up, inputs, streams, opened, scan>>
        /\ UNCHANGED loopVars
    BY <1>10 DEF vars, httpVars, controlVars
  <2>2. Kinds' /\ \A d \in OpenFiles : HasInput(d) => HasInput(d)'
    BY <2>1 DEF RoundInv, Kinds, HasInput, Readable, Listener
  <2>. QED BY <2>1, <2>2, MoreInputKeepsRounds
<1>. QED BY <1>3, <1>4, <1>5, <1>6, <1>7, <1>8, <1>9, <1>10 DEF Next, Round

LEMMA RoundsHaveInput == RoundInv /\ Slots => HandlersHaveInput
<1> SUFFICES ASSUME RoundInv, Slots, Turn # Nobody, Isset(Turn), batch = NoBatch, scan = NoScan
             PROVE  \/ HasInput(Turn)
                    \/ Blocked /\ \E n \in NumbersOf(Turn) : reported[n][1] = "http"
  BY DEF HandlersHaveInput
<1>1. PICK n \in ready \cap DOMAIN files : files[n] = Turn
  BY DEF Isset
<1>2. Waiting(n) \/ Freed(n) \/ Given(n)
  BY DEF RoundInv, ReadyOpen
<1>3. CASE Waiting(n)
  BY <1>1, <1>3 DEF Waiting
<1>4. ~Freed(n)
  BY <1>1 DEF Freed
<1>5. CASE Given(n) /\ ~HasInput(Turn)
  <2>1. at[1] = "control" /\ up
    BY <1>5 DEF Given, RoundInv, Serving
  <2>2. PICK j \in DOMAIN inputs : /\ files[n] = <<"control", inputs[j].fd>>
                                   /\ inputs[j].fd # Unused /\ inputs[j].type = "client"
                                   /\ reported[n][1] = "http" \/ j < at[2]
    BY <1>5 DEF Given
  <2>3. at[2] \in DOMAIN inputs /\ Turn = <<"control", inputs[at[2]].fd>>
    BY <2>1, TurnIs
  <2>4. PICK s : s = inputs[j].fd
    OBVIOUS
  <2>5. inputs[at[2]].fd = s
    <3>1. PICK r : r = inputs[at[2]].fd
      OBVIOUS
    <3>2. <<"control", s>> = <<"control", r>>
      BY <1>1, <2>2, <2>3, <2>4, <3>1
    <3>. QED BY <3>1, <3>2
  <2>6. j = at[2]
    BY <2>2, <2>3, <2>4, <2>5 DEF Slots
  <2>7. reported[n][1] = "http"
    BY <2>2, <2>3, <2>6 DEF Slots
  <2>8. streams[s].type = "client"
    BY <2>2, <2>4 DEF RoundInv, Kinds
  <2>9. Turn = <<"control", s>>
    BY <2>3, <2>5
  <2>10. Blocked
    BY <1>5, <2>1, <2>2, <2>3, <2>4, <2>5, <2>8, <2>9 DEF Blocked
  <2>. QED BY <1>1, <2>7, <2>10 DEF NumbersOf
<1>. QED BY <1>2, <1>3, <1>4, <1>5

\* A handler that is called finds something to read or to accept, with the one exception that
\* HandlersHaveInput names: however many clients and inputs there are, and in whatever order they
\* come, close their descriptors and get the numbers of others (api_loop, control_loop, main).
THEOREM HandlersAlwaysHaveInput == Spec => []HandlersHaveInput
<1>1. Init => PartsInv /\ RoundInv
  BY PartsInit, RoundsInit
<1>2. PartsInv /\ RoundInv /\ [Next]_vars => (PartsInv /\ RoundInv)'
  BY PartsNext, RoundsNext
<1>3. PartsInv /\ RoundInv => HandlersHaveInput
  BY PartsAre, RoundsHaveInput
<1>. QED BY <1>1, <1>2, <1>3, PTL DEF Spec
=============================================================================
