------------------------------- MODULE Duplex -------------------------------
(***************************************************************************)
(* One stream that does not use the pool, from its first byte: the frame   *)
(* of its ConnectRequest (src/stream.rs), the local connection, and the    *)
(* two byte pumps (src/proxy.rs) of run_bidi, for requests that may not be *)
(* pooled, and proxy_tcp. "up" is the half from the edge to the local      *)
(* service, "down" the half back. Each half reads until its source ends or *)
(* either side fails; the task joins both.                                 *)
(*                                                                         *)
(* Bytes are counted in pieces: three for the frame (signature, version,   *)
(* message), then the body, which a pump copies in order. What the far     *)
(* ends do is open: when they write, end or break off, and whether they    *)
(* end their half at once or only after they have seen the end of the      *)
(* other one.                                                              *)
(***************************************************************************)
EXTENDS Integers

CONSTANT MaxBytes   \* bound: pieces of body written by each far end

ASSUME MaxBytesAssumption == MaxBytes \in Nat \ {0}

Halves == {"up", "down"}
Other(d) == IF d = "up" THEN "down" ELSE "up"

HeadLen == 3              \* signature, version, message
Most(d) == IF d = "up" THEN HeadLen + MaxBytes ELSE MaxBytes

VARIABLES
    mode,      \* "bidi" or "tcp", from the type in the ConnectRequest
    opening,   \* the frame: "ok", a "wrong_signature" or a "bad_message"
    patient,   \* far ends that wait for the other half to end
    pc,        \* the task: "reading", "connecting", "joining", "over"
    head,      \* pieces read as the frame
    half,      \* each half: "head" (down, bidi), "pumping", "done", "failed"
    told,      \* the ConnectResponse has been written
    written,   \* pieces the source of a half has written
    moved,     \* pieces its pump has passed on
    source,    \* the writing end: "open", "fin", "reset"
    sink,      \* what the reading end has seen: "open", "fin", "reset"
    deaf       \* halves whose reading end accepts nothing more

farVars == <<mode, opening, patient, written, source, deaf>>
vars == <<mode, opening, patient, pc, head, half, told, written, moved, source, sink, deaf>>

\* Pieces written to a half and not yet read from it.
Unread(d) == written[d] - moved[d] - (IF d = "up" THEN head ELSE 0)

TypeOK ==
    /\ mode \in {"bidi", "tcp"}
    /\ opening \in {"ok", "wrong_signature", "bad_message"}
    /\ patient \in SUBSET Halves
    /\ pc \in {"reading", "connecting", "joining", "over"}
    /\ head \in 0 .. Most("up")
    /\ half \in [Halves -> {"head", "pumping", "done", "failed"}]
    /\ told \in BOOLEAN
    /\ \A d \in Halves : written[d] \in 0 .. Most(d) /\ Unread(d) \in Nat
    /\ moved \in [Halves -> 0 .. MaxBytes]
    /\ source \in [Halves -> {"open", "fin", "reset"}]
    /\ sink \in [Halves -> {"open", "fin", "reset"}]
    /\ deaf \in SUBSET Halves

Init ==
    /\ mode \in {"bidi", "tcp"}
    /\ opening \in {"ok", "wrong_signature", "bad_message"}
    /\ patient \in SUBSET Halves
    /\ pc = "reading"
    /\ head = 0
    /\ half = [d \in Halves |-> IF mode = "bidi" /\ d = "down" THEN "head"
                                ELSE "pumping"]
    /\ told = FALSE
    /\ written = [d \in Halves |-> 0]
    /\ moved = [d \in Halves |-> 0]
    /\ source = [d \in Halves |-> "open"]
    /\ sink = [d \in Halves |-> "open"]
    /\ deaf = {}

-----------------------------------------------------------------------------
(* The task: read_connect_request, then the local connection.              *)

\* The task returns: to the edge the dropped stream has ended.
Drop ==
    /\ pc' = "over"
    /\ sink' = [sink EXCEPT !["down"] = "fin"]

\* read_exact of the signature and of the version, whose value is ignored.
ReadPreamble ==
    /\ pc = "reading" /\ head < HeadLen - 1 /\ Unread("up") > 0
    /\ source["up"] # "reset"
    /\ head' = head + 1
    /\ IF head = 0 /\ opening = "wrong_signature" THEN Drop ELSE UNCHANGED <<pc, sink>>
    /\ UNCHANGED <<farVars, half, told, moved>>

\* Seeded fault: a buffered reader is dropped with what it read ahead.
ReadMessageAhead ==
    /\ pc = "reading" /\ head = HeadLen - 1 /\ Unread("up") > 0
    /\ source["up"] # "reset" /\ opening # "bad_message"
    /\ head' = written["up"]
    /\ pc' = "connecting"
    /\ UNCHANGED <<farVars, half, told, moved, sink>>

\* read_message and the decoding of the ConnectRequest: exactly the message
\* is taken off the stream.
ReadMessage ==
    /\ pc = "reading" /\ head = HeadLen - 1 /\ Unread("up") > 0
    /\ source["up"] # "reset"
    /\ head' = HeadLen
    /\ IF opening = "bad_message" THEN Drop ELSE pc' = "connecting" /\ UNCHANGED sink
    /\ UNCHANGED <<farVars, half, told, moved>>

\* Seeded fault: the end of the stream is taken for bytes yet to come.
ReadCutSpins ==
    /\ pc = "reading" /\ source["up"] = "reset"
    /\ Drop
    /\ UNCHANGED <<farVars, head, half, told, moved>>

\* The stream ends inside the frame, or is reset.
ReadCut ==
    /\ pc = "reading"
    /\ source["up"] = "reset" \/ (source["up"] = "fin" /\ Unread("up") = 0)
    /\ Drop
    /\ UNCHANGED <<farVars, head, half, told, moved>>

\* The local service accepts. proxy_http writes the request head to it,
\* proxy_tcp a ConnectResponse to the edge.
ConnectOk ==
    /\ pc = "connecting"
    /\ mode = "tcp" => "down" \notin deaf
    /\ pc' = "joining" /\ told' = (mode = "tcp")
    /\ UNCHANGED <<farVars, head, half, moved, sink>>

\* The connect fails or times out: proxy_http answers with 502 or 504,
\* proxy_tcp with nothing.
ConnectErr ==
    /\ pc = "connecting"
    /\ Drop
    /\ told' = (mode = "bidi" /\ "down" \notin deaf)
    /\ UNCHANGED <<farVars, head, half, moved>>

\* The request head, or the ConnectResponse, cannot be written.
ConnectUnusable ==
    /\ pc = "connecting"
    /\ mode = "tcp" => "down" \in deaf
    /\ Drop
    /\ UNCHANGED <<farVars, head, half, told, moved>>

\* The down half of run_bidi: a response head and k pieces read with it.
ReadHead ==
    /\ pc = "joining" /\ half["down"] = "head" /\ "down" \notin deaf
    /\ \E k \in 1 .. written["down"] : moved' = [moved EXCEPT !["down"] = k]
    /\ half' = [half EXCEPT !["down"] = "pumping"]
    /\ told' = TRUE
    /\ UNCHANGED <<farVars, pc, head, sink>>

\* No head before the end, one that does not parse, or the edge refuses the
\* ConnectResponse. The other half is not told.
ReadHeadErr ==
    /\ pc = "joining" /\ half["down"] = "head"
    /\ written["down"] > 0 \/ source["down"] # "open"
    /\ half' = [half EXCEPT !["down"] = "failed"]
    /\ UNCHANGED <<farVars, pc, head, told, moved, sink>>

\* Seeded fault: the whole buffer is written, not the n bytes read.
PumpWholeBuffer(d) ==
    /\ pc = "joining" /\ half[d] = "pumping"
    /\ Unread(d) > 0 /\ d \notin deaf
    /\ moved' = [moved EXCEPT ![d] = MaxBytes]
    /\ UNCHANGED <<farVars, pc, head, half, told, sink>>

\* One round of a pump: read, write_all, count.
Pump(d) ==
    /\ pc = "joining" /\ half[d] = "pumping"
    /\ Unread(d) > 0 /\ d \notin deaf
    /\ moved' = [moved EXCEPT ![d] = @ + 1]
    /\ UNCHANGED <<farVars, pc, head, half, told, sink>>

\* After its pump the up half of run_bidi shuts the socket's write side
\* down, whatever the pump returned. proxy_tcp does not.
HalfEnds(d, h) ==
    /\ half' = [half EXCEPT ![d] = h]
    /\ sink' = IF mode = "bidi" /\ d = "up" THEN [sink EXCEPT ![d] = "fin"] ELSE sink
    /\ UNCHANGED <<farVars, pc, head, told, moved>>

\* Seeded fault: no shutdown after the pump.
PumpEofKeepsOpen(d) ==
    /\ pc = "joining" /\ half[d] = "pumping"
    /\ source[d] = "fin" /\ Unread(d) = 0
    /\ half' = [half EXCEPT ![d] = "done"]
    /\ UNCHANGED <<farVars, pc, head, told, moved, sink>>

\* A read returns zero bytes.
PumpEof(d) ==
    /\ pc = "joining" /\ half[d] = "pumping"
    /\ source[d] = "fin" /\ Unread(d) = 0
    /\ HalfEnds(d, "done")

\* Seeded fault: the up half returns its error before the shutdown.
PumpErrReturns(d) ==
    /\ pc = "joining" /\ half[d] = "pumping"
    /\ source[d] = "reset" \/ (d \in deaf /\ Unread(d) > 0)
    /\ half' = [half EXCEPT ![d] = "failed"]
    /\ UNCHANGED <<farVars, pc, head, told, moved, sink>>

\* A read or a write fails.
PumpErr(d) ==
    /\ pc = "joining" /\ half[d] = "pumping"
    /\ source[d] = "reset" \/ (d \in deaf /\ Unread(d) > 0)
    /\ HalfEnds(d, "failed")

\* join!: both halves are over. to_edge is closed, or dropped, and a dropped
\* send stream is finished too; a socket dropped with unread input is reset.
Join ==
    /\ pc = "joining"
    /\ \A d \in Halves : half[d] \in {"done", "failed"}
    /\ pc' = "over"
    /\ sink' = [sink EXCEPT
          !["up"] = IF moved["down"] < written["down"] THEN "reset" ELSE "fin",
          !["down"] = "fin"]
    /\ UNCHANGED <<farVars, head, half, told, moved>>

-----------------------------------------------------------------------------
(* The far ends: the source of a half writes, ends or breaks off, its sink *)
(* may stop accepting. The local service is there once it is connected.    *)

Present(d) == pc # "over" /\ (d = "down" => pc = "joining")

Write(d) ==
    /\ Present(d) /\ source[d] = "open" /\ written[d] < Most(d)
    /\ written' = [written EXCEPT ![d] = @ + 1]
    /\ UNCHANGED <<mode, opening, patient, pc, head, half, told, moved, source,
                   sink, deaf>>

Fin(d) ==
    /\ Present(d) /\ source[d] = "open"
    /\ d \in patient => sink[Other(d)] # "open"
    /\ source' = [source EXCEPT ![d] = "fin"]
    /\ UNCHANGED <<mode, opening, patient, pc, head, half, told, written, moved,
                   sink, deaf>>

Reset(d) ==
    /\ Present(d) /\ source[d] = "open"
    /\ source' = [source EXCEPT ![d] = "reset"]
    /\ UNCHANGED <<mode, opening, patient, pc, head, half, told, written, moved,
                   sink, deaf>>

Refuse(d) ==
    /\ Present(Other(d)) /\ d \notin deaf
    /\ deaf' = deaf \cup {d}
    /\ UNCHANGED <<mode, opening, patient, pc, head, half, told, written, moved,
                   source, sink>>

-----------------------------------------------------------------------------

HalfStep(d) == Pump(d) \/ PumpEof(d) \/ PumpErr(d)
TaskStep ==
    \/ ReadPreamble \/ ReadMessage \/ ReadCut
    \/ ConnectOk \/ ConnectErr \/ ConnectUnusable
    \/ ReadHead \/ ReadHeadErr \/ Join

Next ==
    \/ TaskStep
    \/ \E d \in Halves :
          HalfStep(d) \/ Write(d) \/ Fin(d) \/ Reset(d) \/ Refuse(d)

\* The task polls both halves. A far end that may end its half does so in
\* the end: without that a stream stays up for good, as a WebSocket should.
Fairness ==
    /\ WF_vars(TaskStep)
    /\ \A d \in Halves : WF_vars(HalfStep(d)) /\ WF_vars(Fin(d))

Spec == Init /\ [][Next]_vars /\ Fairness

-----------------------------------------------------------------------------
(* Properties                                                              *)

\* A far end that sees a clean end of a half whose source ended cleanly has
\* been given everything the source wrote, if it took it. (An end made of a
\* reset looks clean as well: HalfEnds and Join do not tell them apart.)
CleanEndIsWhole ==
    \A d \in Halves :
        ( /\ sink[d] = "fin" /\ source[d] = "fin" /\ d \notin deaf
          /\ d = "down" => told )
        => moved[d] = written[d] - (IF d = "up" THEN HeadLen ELSE 0)

\* The local service learns that the edge is done sending, or has broken
\* off, while its own answer is still open: run_bidi's tcp_write.shutdown.
EndReachesLocal ==
    mode = "bidi" /\ pc = "joining" /\ source["up"] # "open" ~> sink["up"] # "open"

\* Nothing is held for ever for far ends that are gone, although neither the
\* frame nor the pumps have a timeout: the task ends, and with it the socket
\* and the stream, when the edge ends or breaks off inside the frame, and
\* when both far ends are through.
GoneEndsFree ==
    \/ source["up"] # "open" /\ written["up"] < HeadLen
    \/ \A d \in Halves : source[d] # "open"
    ~> pc = "over"

\* An HTTP exchange over run_bidi ends although the origin waits for the end
\* of the request before it ends its response, and although the edge reads
\* the end of the response last: the edge only has to end its request by
\* itself.
ImpatientEdgeSuffices ==
    mode = "bidi" /\ "up" \notin patient ~> pc = "over"

=============================================================================
