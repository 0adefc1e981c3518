------------------------------ MODULE Exchange ------------------------------
(***************************************************************************)
(* What the HTTP server promises its clients, whatever pieces a request    *)
(* arrives in, however many clients there are and whatever slots they      *)
(* get: each request has one outcome, the one it asks for, unless the      *)
(* client hangs up or the connection is spoiled; a request that has been   *)
(* sent gets it, unless the daemon is held up; and nothing makes the       *)
(* server give up but a client that hung up or cannot be taken on, or a    *)
(* connection that is spoiled.                                             *)
(***************************************************************************)
EXTENDS Naturals, Sequences

CONSTANTS
    Conversations,  \* the requests, in the order of their connections
    SizeLimit,      \* the longest payload that is certain to be taken
    MaxExchanges    \* no conversation is longer

VARIABLES
    script,     \* the requests still to come
    exchanges,  \* those that have come
    up,         \* the server has not given up
    heldUp      \* it waits for something else

exchangeVars == <<script, exchanges, up, heldUp>>

Outcomes == {"executed", "refused", "dropped", "lost", "garbled"}

\* What a request leads to.
Promised(r) ==
    IF r.method = "options" \/ (r.method = "post" /\ r.payload = 0) THEN {"refused"}
    ELSE IF r.payload > SizeLimit THEN {"executed", "dropped"}
    ELSE {"executed"}

Init ==
    /\ script \in Conversations
    /\ exchanges = <<>>
    /\ up = TRUE /\ heldUp = FALSE

Begin ==
    /\ script # <<>>
    /\ exchanges' = Append(exchanges, [request |-> Head(script), sent |-> FALSE, gone |-> FALSE,
                            taken |-> FALSE, spoiled |-> FALSE, result |-> "none"])
    /\ script' = Tail(script)
    /\ UNCHANGED <<up, heldUp>>

Change(c, x) ==
    /\ exchanges' = [exchanges EXCEPT ![c] = x]
    /\ UNCHANGED <<script, heldUp>>

Send(c)   == UNCHANGED up /\ Change(c, [exchanges[c] EXCEPT !.sent = TRUE])
HangUp(c) == UNCHANGED up /\ Change(c, [exchanges[c] EXCEPT !.gone = TRUE])

\* Clients are taken on in their order; the place one gets may spoil its connection.
Take(c) ==
    /\ up /\ ~heldUp
    /\ \A b \in DOMAIN exchanges : exchanges[b].taken <=> b < c
    /\ \E spoiled \in {exchanges[c].spoiled, TRUE} :
         UNCHANGED up /\ Change(c, [exchanges[c] EXCEPT !.taken = TRUE, !.spoiled = spoiled])

\* Only a client that waits can fail to be taken on.
GiveUp ==
    /\ up /\ ~heldUp /\ up' = FALSE
    /\ \E c \in DOMAIN exchanges : ~exchanges[c].taken
    /\ UNCHANGED <<script, exchanges, heldUp>>

Spoil(c) ==
    /\ exchanges[c].taken /\ exchanges[c].result = "none"
    /\ UNCHANGED up /\ Change(c, [exchanges[c] EXCEPT !.spoiled = TRUE])

\* The outcome.  A spoiled connection may have another one after its client was refused.
Answer(c) ==
    LET x == exchanges[c] IN
    /\ up /\ ~heldUp /\ x.taken
    /\ x.result = "none" \/ x.spoiled
    /\ x.gone \/ x.spoiled \/ UNCHANGED up
    /\ \E result \in Outcomes :
         /\ result \in Promised(x.request) \/ x.spoiled \/ (x.gone /\ result = "lost")
         /\ Change(c, [x EXCEPT !.result = result])

Wait == heldUp' = ~heldUp /\ UNCHANGED <<script, exchanges, up>>

Next ==
    \/ Begin
    \/ \E c \in DOMAIN exchanges : Send(c) \/ HangUp(c) \/ Take(c) \/ Spoil(c) \/ Answer(c)
    \/ GiveUp
    \/ Wait

\* The client has done its part, and the server owes it an outcome.
Owed(c) ==
    /\ c \in DOMAIN exchanges
    /\ exchanges[c].sent /\ ~exchanges[c].gone /\ ~exchanges[c].spoiled
    /\ exchanges[c].result = "none"
    /\ up /\ ~heldUp

\* A server that has given up does not come back.
Spec == Init /\ [][Next /\ (up' => up)]_exchangeVars

\* What is owed does not stay owed.
Answered == \A c \in 1..MaxExchanges : Owed(c) ~> ~Owed(c)
=============================================================================
