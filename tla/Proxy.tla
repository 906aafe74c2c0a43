------------------------------- MODULE Proxy -------------------------------
(***************************************************************************)
(* The HTTP proxy of one inbound stream per task (src/proxy.rs), on top of *)
(* the pool it shares with the others: request shape, socket, request head *)
(* and body, response head, and then either a body bounded by its          *)
(* Content-Length and the socket's return to the pool, or a drain until    *)
(* the origin closes.                                                      *)
(*                                                                         *)
(* A response is a head and pieces of body, each piece known by the        *)
(* request it answers and by its place; a read may take the head and any   *)
(* pieces that have arrived with it. The origin conforms to HTTP/1.1: it   *)
(* answers every request on a socket once, in order, and a body has the    *)
(* length its head declares unless the response may have none (HEAD, 304). *)
(* The pumps of a request that may not use the pool are module Duplex.     *)
(***************************************************************************)
EXTENDS Pool

CONSTANTS None,      \* no Content-Length, no request, a body without bound
          Bad,       \* not the head of a response
          MaxUpload, \* bound: pieces of a request body
          MaxBody    \* bound: pieces of a response body

ASSUME BodyAssumption == MaxUpload \in Nat /\ MaxBody \in Nat
ASSUME NoneAssumption == {None, Bad} \cap Nat = {} /\ None # Bad

VARIABLES
    phase,    \* where the task of each stream is
    request,  \* what analyse_request kept of the ConnectRequest
    want,     \* the counter n of the pump_n loop the task is in
    unread,   \* what the origin has written to a socket and nobody has read
    owed,     \* requests that have reached the origin and are unanswered
    sent,     \* how much the origin has written in answer to a stream
    got       \* what has been written to a stream

proxyVars == <<phase, request, want, unread, owed, sent, got>>
vars == <<poolVars, proxyVars>>

Phase == {"opened", "acquiring", "connected", "uploading", "head", "body",
          "drain", "bidi", "complete", "ended"}
Over(t) == phase[t] \in {"complete", "ended"}

Init ==
    /\ PoolInit
    /\ phase = [t \in Tasks |-> "opened"]
    /\ request = [t \in Tasks |-> None]
    /\ want = [t \in Tasks |-> 0]
    /\ unread = [s \in Sockets |-> <<>>]
    /\ owed = [s \in Sockets |-> <<>>]
    /\ sent = [t \in Tasks |-> 0]
    /\ got = [t \in Tasks |-> <<>>]

-----------------------------------------------------------------------------
(* Shapes. A header is a token: its name and what its value contains.      *)

Unpoolable == {"transfer-encoding: chunked", "upgrade", "connection: upgrade",
               "connection: close"}

\* RequestShape::poolable, and the number of body bytes to forward: none
\* without a Content-Length.
AnalyseRequest(headers, length) ==
    [ poolable |-> headers \cap Unpoolable = {},
      upload   |-> IF length = None THEN 0 ELSE length ]

\* Seeded fault: Transfer-Encoding is overlooked, a missing Content-Length
\* is an empty body.
AnalyseResponseIgnoresChunked(switching, headers, length) ==
    IF ~switching /\ headers \cap (Unpoolable \ {"transfer-encoding: chunked"}) = {}
      THEN IF length = None THEN 0 ELSE length
      ELSE None

\* ResponseShape, as resp_shape.content_length.filter(poolable) sees it: the
\* length of a body to be read to its end, or None. switching is status 101.
AnalyseResponse(switching, headers, length) ==
    IF ~switching /\ headers \cap Unpoolable = {} THEN length ELSE None

\* The requests the edge sends: with and without a length, and one of each
\* kind that may not use the pool.
Requests ==
    {AnalyseRequest({}, n) : n \in {None} \cup 0 .. MaxUpload} \cup
    {AnalyseRequest({h}, None) : h \in Unpoolable}

\* What a head promises: a bounded body, None for a drain, or Bad when
\* httparse rejects it or it exceeds MAX_HEADER_BYTES.
Promise == {None, Bad} \cup 0 .. MaxBody

\* The answers an origin gives to a request without an Upgrade: a head, the
\* body behind it, and whether it closes the socket afterwards. A declared
\* body may be absent (HEAD, 304); some servers offer an Upgrade in any
\* response; an interim (1xx) response is a head without a length and more
\* to read. An HTTP/1.0 server closes unannounced.
Replies ==
    (UNION { [promise : {AnalyseResponse(FALSE, h, n) : h \in {{}} \cup {{u} : u \in Unpoolable}},
              body : {0, n}, closes : BOOLEAN] : n \in 0 .. MaxBody }) \cup
    [promise : {AnalyseResponse(FALSE, h, None) : h \in {{}, {"transfer-encoding: chunked"}}},
     body : 0 .. MaxBody, closes : BOOLEAN] \cup
    [promise : {Bad}, body : {0}, closes : BOOLEAN]

Item == [of : Tasks, pos : 0 .. MaxBody, promise : Promise]

TypeOK ==
    /\ PoolTypeOK
    /\ phase \in [Tasks -> Phase]
    /\ request \in [Tasks -> Requests \cup {None}]
    /\ want \in [Tasks -> (0 .. MaxBody) \cup (0 .. MaxUpload)]
    /\ unread \in [Sockets -> Seq(Item)]
    /\ owed \in [Sockets -> Seq(Tasks)]
    /\ sent \in [Tasks -> 0 .. MaxBody + 1]
    /\ got \in [Tasks -> Seq(Tasks \X (0 .. MaxBody))]

-----------------------------------------------------------------------------
(* The task of a stream.                                                   *)

\* The stream is over: nothing of it is kept.
End(t, p) ==
    /\ phase' = [phase EXCEPT ![t] = p]
    /\ request' = [request EXCEPT ![t] = None]
    /\ want' = [want EXCEPT ![t] = 0]
    /\ sent' = [sent EXCEPT ![t] = 0]
    /\ got' = [got EXCEPT ![t] = <<>>]

\* The socket is dropped, and with it what it carried.
DropSocket(t) ==
    /\ Discard(t)
    /\ unread' = [unread EXCEPT ![sock[t]] = <<>>]
    /\ owed' = [owed EXCEPT ![sock[t]] = <<>>]

Goto(t, p) == phase' = [phase EXCEPT ![t] = p]

\* read_connect_request, then dispatch on the type and analyse_request.
ReadRequest(t) ==
    /\ phase[t] = "opened"
    /\ Goto(t, "acquiring")
    /\ \E q \in Requests : request' = [request EXCEPT ![t] = q]
    /\ UNCHANGED <<poolVars, want, unread, owed, sent, got>>

\* A preamble or message that cannot be read ends the stream unanswered.
ReadRequestFails(t) ==
    /\ phase[t] = "opened"
    /\ End(t, "ended")
    /\ UNCHANGED <<poolVars, unread, owed>>

\* pool.acquire() hits, or misses and starts to connect, or has connected.
GetSocket(t) ==
    /\ phase[t] = "acquiring"
    /\ \/ AcquireHit(t) /\ Goto(t, "connected")
       \/ AcquireMiss(t) /\ UNCHANGED phase
       \/ ConnectOk(t) /\ Goto(t, "connected")
    /\ UNCHANGED <<request, want, unread, owed, sent, got>>

\* 502 when refused, 504 after LOCAL_CONNECT_TIMEOUT.
NoUpstream(t) ==
    /\ phase[t] = "acquiring"
    /\ ConnectErr(t)
    /\ End(t, "ended")
    /\ UNCHANGED <<unread, owed>>

\* The head is written; to a socket the origin has closed it goes nowhere.
\* want is the length of the body to forward, zero without Content-Length.
WriteHead(t) ==
    /\ phase[t] = "connected"
    /\ IF request[t].poolable
         THEN /\ Goto(t, "uploading")
              /\ want' = [want EXCEPT ![t] = request[t].upload]
              /\ owed' = IF sock[t] \in closed THEN owed
                         ELSE [owed EXCEPT ![sock[t]] = Append(@, t)]
         ELSE /\ Goto(t, "bidi")
              /\ UNCHANGED <<want, owed>>
    /\ UNCHANGED <<poolVars, request, unread, sent, got>>

\* pump_n_futures_to_tokio: one round, then on to the response.
Upload(t) ==
    /\ phase[t] = "uploading"
    /\ IF want[t] > 0
         THEN want' = [want EXCEPT ![t] = @ - 1] /\ UNCHANGED phase
         ELSE Goto(t, "head") /\ UNCHANGED want
    /\ UNCHANGED <<poolVars, request, unread, owed, sent, got>>

\* Pieces as the stream sees them.
Pieces(items) == [k \in 1 .. Len(items) |-> <<items[k].of, items[k].pos>>]

\* total.saturating_sub(leftover.len())
Remaining(total, k) == IF total > k THEN total - k ELSE 0

\* read_http_response_head takes the head and k pieces behind it; then the
\* ConnectResponse and the over-read pieces are written to the stream.
ReadHead(t) ==
    LET in == unread[sock[t]] IN
    /\ phase[t] = "head" /\ in # <<>> /\ Head(in).promise # Bad
    /\ \E k \in 0 .. Len(in) - 1 :
          /\ got' = [got EXCEPT ![t] = Pieces(SubSeq(in, 1, k + 1))]
          /\ unread' = [unread EXCEPT ![sock[t]] = SubSeq(in, k + 2, Len(in))]
          /\ IF Head(in).promise # None
               THEN /\ Goto(t, "body")
                    /\ want' = [want EXCEPT ![t] = Remaining(Head(in).promise, k)]
               ELSE Goto(t, "drain") /\ UNCHANGED want
    /\ UNCHANGED <<poolVars, request, owed, sent>>

\* One round of pump_n_tokio_to_futures, or of the drain.
Pump(t) ==
    LET in == unread[sock[t]] IN
    /\ \/ phase[t] = "body" /\ want[t] > 0
             /\ want' = [want EXCEPT ![t] = @ - 1]
       \/ phase[t] = "drain" /\ UNCHANGED want
    /\ in # <<>>
    /\ got' = [got EXCEPT ![t] = @ \o Pieces(<<Head(in)>>)]
    /\ unread' = [unread EXCEPT ![sock[t]] = Tail(in)]
    /\ UNCHANGED <<poolVars, phase, request, owed, sent>>

\* Seeded fault: the body is left to whoever uses the socket next.
FinishWithoutBody(t) ==
    /\ phase[t] = "body"
    /\ End(t, "complete")
    /\ Release(t)
    /\ UNCHANGED <<unread, owed>>

\* 5a: the body is through. Close the stream, return the socket (which a
\* full pool drops).
Finish(t) ==
    /\ phase[t] = "body" /\ want[t] = 0
    /\ End(t, "complete")
    /\ Release(t)
    /\ IF Len(idle) < MaxIdle THEN UNCHANGED <<unread, owed>>
       ELSE /\ unread' = [unread EXCEPT ![sock[t]] = <<>>]
            /\ owed' = [owed EXCEPT ![sock[t]] = <<>>]

\* Seeded fault: the drain does not break when a read returns nothing.
ReadEofSpins(t) ==
    /\ \/ phase[t] = "head"
       \/ phase[t] = "body" /\ want[t] > 0
    /\ unread[sock[t]] = <<>> /\ sock[t] \in closed
    /\ End(t, "ended")
    /\ DropSocket(t)

\* A read sees that the origin has closed: no head, a short body, or the end
\* of a drain (5b). Whether the body was whole is not known.
ReadEof(t) ==
    /\ \/ phase[t] \in {"head", "drain"}
       \/ phase[t] = "body" /\ want[t] > 0
    /\ unread[sock[t]] = <<>> /\ sock[t] \in closed
    /\ End(t, "ended")
    /\ DropSocket(t)

\* What is read is not a response head.
BadHead(t) ==
    /\ phase[t] = "head" /\ unread[sock[t]] # <<>>
    /\ Head(unread[sock[t]]).promise = Bad
    /\ End(t, "ended")
    /\ DropSocket(t)

\* A read or write of either side fails, or the edge ends the request body
\* early: every ? of proxy_http and run_pooled drops stream and socket.
IoFails(t) ==
    /\ phase[t] \in {"connected", "uploading", "head", "body", "drain"}
    /\ End(t, "ended")
    /\ DropSocket(t)

\* run_bidi returns (module Duplex says when) and drops the socket.
BidiEnds(t) ==
    /\ phase[t] = "bidi"
    /\ End(t, "ended")
    /\ DropSocket(t)

-----------------------------------------------------------------------------
(* The origin.                                                             *)

\* The origin answers the oldest request of a socket, possibly before it
\* has the whole body; or it fails after n pieces, and closes.
Answer(t, s, r, n) ==
    /\ OriginResponds(t, r.closes \/ n < r.body + 1)
    /\ unread' = [unread EXCEPT ![s] = @ \o
          [k \in 1 .. n |-> [of |-> t, pos |-> k - 1,
                             promise |-> IF k = 1 THEN r.promise ELSE Bad]]]
    /\ owed' = [owed EXCEPT ![s] = Tail(@)]
    /\ sent' = [sent EXCEPT ![t] = n]
    /\ UNCHANGED <<phase, request, want, got>>

OriginAnswers(s) ==
    /\ owed[s] # <<>> /\ s \notin closed
    /\ sock[Head(owed[s])] = s
    /\ \E r \in Replies : \E n \in 0 .. r.body + 1 :
          Answer(Head(owed[s]), s, r, n)

\* Time and the origin's idle timeout.
Passing(A) == A /\ UNCHANGED proxyVars

-----------------------------------------------------------------------------

StreamStep(t) ==
    \/ ReadRequest(t) \/ ReadRequestFails(t) \/ GetSocket(t) \/ NoUpstream(t)
    \/ WriteHead(t) \/ Upload(t) \/ ReadHead(t) \/ Pump(t) \/ Finish(t)
    \/ ReadEof(t) \/ BadHead(t)

Next ==
    \/ \E t \in Tasks : StreamStep(t) \/ IoFails(t) \/ BidiEnds(t)
    \/ \E s \in Sockets : OriginAnswers(s) \/ Passing(OriginTimesOut(s))
    \/ Passing(Tick)

Spec == Init /\ [][Next]_vars

\* The task of a stream runs, the edge delivers the request it announced,
\* and the origin answers.
ServingSpec ==
    /\ Spec
    /\ \A t \in Tasks : WF_vars(StreamStep(t))
    /\ \A s \in Sockets : WF_vars(OriginAnswers(s))

\* Beyond that, the origin closes sockets that stay idle.
FairSpec ==
    /\ ServingSpec
    /\ WF_vars(Passing(Tick))
    /\ \A s \in Sockets : WF_vars(Passing(OriginTimesOut(s)))

-----------------------------------------------------------------------------
(* Properties                                                              *)

\* What release demands of its callers ("known to be in a healthy ready for
\* next request state"): nothing is left to be read from a pooled socket and
\* nothing is still to come, so no response can be taken for another one's.
PooledSocketsQuiet ==
    \A s \in Pooled : unread[s] = <<>> /\ owed[s] = <<>>

\* The proxy implements Exchange: a stream is shown its own response in
\* order, whichever socket served it, and 5a completes only whole ones.
X == INSTANCE Exchange WITH
         Streams <- Tasks,
         MaxItems <- MaxBody + 1,
         response <- [t \in Tasks |-> [k \in 1 .. sent[t] |-> <<t, k - 1>>]],
         delivered <- got,
         outcome <- [t \in Tasks |-> IF Over(t) THEN phase[t] ELSE "open"]

ExchangeRefined == X!ExchangeSpec

\* A stream that has read a request for the pooled path comes to its end,
\* if the origin closes idle sockets.
PooledStreamEnds ==
    \A t \in Tasks :
        phase[t] # "opened" /\ ~Over(t) /\ request[t].poolable ~> Over(t)

\* "Drive one inbound request stream to completion": a stream whose response
\* the origin has written in full comes to its end.
StreamCompletes ==
    \A t \in Tasks : phase[t] \in {"body", "drain"} ~> Over(t)

=============================================================================
