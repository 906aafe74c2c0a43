------------------------------ MODULE Exchange ------------------------------
(***************************************************************************)
(* What a tunnel promises of one proxied request, whatever sockets it uses *)
(* and reuses: an inbound stream is shown its own response, from the first *)
(* item on and in order, and a stream that is completed was shown all of   *)
(* it. A stream may also be cut at any point.                              *)
(***************************************************************************)
EXTENDS Naturals, Sequences

CONSTANTS Streams,   \* inbound streams
          MaxItems   \* bound: items of a response (its head, pieces of body)

VARIABLES
    response,   \* what the origin has written in answer to a stream's request
    delivered,  \* what has been written to the stream
    outcome     \* "open", "complete" or "ended"

exchangeVars == <<response, delivered, outcome>>

ExchangeInit ==
    /\ response = [t \in Streams |-> <<>>]
    /\ delivered = [t \in Streams |-> <<>>]
    /\ outcome = [t \in Streams |-> "open"]

\* The items of a response are told apart by whose they are and by place.
Own(t, n) == [k \in 1 .. n |-> <<t, k - 1>>]

Respond(t) ==
    /\ outcome[t] = "open" /\ response[t] = <<>>
    /\ \E n \in 1 .. MaxItems : response' = [response EXCEPT ![t] = Own(t, n)]
    /\ UNCHANGED <<delivered, outcome>>

Show(t) ==
    /\ outcome[t] = "open"
    /\ \E n \in Len(delivered[t]) + 1 .. Len(response[t]) :
          delivered' = [delivered EXCEPT ![t] = SubSeq(response[t], 1, n)]
    /\ UNCHANGED <<response, outcome>>

\* A stream that is over is forgotten.
Close(t, o) ==
    /\ outcome[t] = "open"
    /\ outcome' = [outcome EXCEPT ![t] = o]
    /\ response' = [response EXCEPT ![t] = <<>>]
    /\ delivered' = [delivered EXCEPT ![t] = <<>>]

Complete(t) ==
    /\ response[t] # <<>> /\ delivered[t] = response[t]
    /\ Close(t, "complete")

Cut(t) == Close(t, "ended")

ExchangeNext ==
    \E t \in Streams : Respond(t) \/ Show(t) \/ Complete(t) \/ Cut(t)

ExchangeSpec == ExchangeInit /\ [][ExchangeNext]_exchangeVars

=============================================================================
