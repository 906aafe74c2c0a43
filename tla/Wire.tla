-------------------------------- MODULE Wire --------------------------------
(***************************************************************************)
(* The messages between the client and the edge: any struct of the schemas *)
(* filled in through its generated Builder in any order and read through   *)
(* its generated Reader, the calls a generated Client sends to a server's  *)
(* dispatch, and the conversions written by hand on top of them: the       *)
(* register request and its answer (src/rpc.rs) and the heads of a proxied *)
(* stream (src/stream.rs).                                                 *)
(*                                                                         *)
(* The edge has its own code for the same schemas: it is represented by    *)
(* the generated accessors of the other direction, and may be newer, with  *)
(* enumerants and union members this schema does not have.                 *)
(***************************************************************************)
EXTENDS TunnelRpc, QuicMetadata

CONSTANT MaxSets   \* bound: setter calls on one message

ASSUME MaxSetsAssumption == MaxSets \in Nat

Structs ==
    [s \in DOMAIN TunnelRpcStructs \cup DOMAIN QuicMetadataStructs |->
        IF s \in DOMAIN QuicMetadataStructs THEN QuicMetadataStructs[s]
        ELSE TunnelRpcStructs[s]]

VARIABLES
    st,      \* the struct of the message
    msg,     \* its memory
    sets,    \* setter calls so far
    last,    \* the value last given to each field
    given,   \* the argument of the conversion that built msg, if one did
    served   \* the call made with msg as params and the method it reached

vars == <<st, msg, sets, last, given, served>>

Bad == 9                 \* text that is not UTF-8, a list that does not decode
Foreign == 3             \* a tag or enumerant of a newer schema
NoArgument == [by |-> "setters"]
NoCall == [to |-> <<>>, reached |-> Unimplemented]

Values(f) ==
    CASE f.w = 0 -> 1 .. 2
      [] f.w = 1 -> 0 .. 1
      [] OTHER -> 0 .. 2

TypeOK ==
    /\ st \in DOMAIN Structs
    /\ InBounds(msg, Structs[st].builder)
    /\ sets \in 0 .. MaxSets
    /\ DOMAIN last \subseteq DOMAIN Structs[st].builder.set
    /\ given.by \in {"setters", "register", "request", "response"}

Init ==
    /\ st \in DOMAIN Structs
    /\ msg = Blank
    /\ sets = 0
    /\ last = <<>>
    /\ given = NoArgument
    /\ served = NoCall

-----------------------------------------------------------------------------
(* Builders and calls.                                                     *)

Building == given = NoArgument /\ served = NoCall /\ sets < MaxSets

\* set_f or init_f. A member of the union replaces the other one.
Set(f, v) ==
    /\ Building
    /\ LET b == Structs[st].builder
       IN /\ msg' = Put(msg, b.set[f], v)
          /\ last' = Assign(IF b.set[f].d >= 0 THEN <<>> ELSE last, {f}, v)
    /\ sets' = sets + 1
    /\ UNCHANGED <<st, given, served>>

\* init_result on a response that may already have a member.
ResetResult ==
    /\ Building /\ st = "connection_response"
    /\ msg' = InitResult(msg)
    /\ last' = <<>>
    /\ sets' = sets + 1
    /\ UNCHANGED <<st, given, served>>

\* A newer edge writes a tag or an enumerant this schema does not know.
SetForeign ==
    /\ Building /\ st \in {"connection_response", "connect_request"}
    /\ msg' = PutData(msg, U16(0), Foreign)
    /\ last' = IF st = "connect_request" THEN Assign(last, {"type"}, NotInSchema)
               ELSE <<>>
    /\ sets' = sets + 1
    /\ UNCHANGED <<st, given, served>>

\* A client of interface i calls method k with msg as the params; whatever
\* object the capability leads to dispatches it.
Call(s, i, k) ==
    /\ given = NoArgument /\ served = NoCall
    /\ Clients[i][k].params = st
    /\ served' = [to |-> <<s, i, k>>,
                  reached |-> Dispatch(Servers[s], TypeId[i], Clients[i][k].number)]
    /\ UNCHANGED <<st, msg, sets, last, given>>

-----------------------------------------------------------------------------
(* The register request and its answer.                                    *)

\* build_register_request: nested builders, each setting its fields in the
\* order of the code.
BuildAuth(o) ==
    LET Then(m, f, v) == SetField(m, TunnelAuthBuilder, f, v)
    IN  Then(Then(Blank, "account_tag", o.account_tag),
             "tunnel_secret", o.tunnel_secret)

BuildClient(o) ==
    LET Then(m, f, v) == SetField(m, ClientInfoBuilder, f, v)
    IN  Then(Then(Then(Then(Blank,
             "client_id", o.client_id),
             "version", o.version),
             "arch", o.arch),
             "features", o.features)

BuildOptions(o) ==
    LET Then(m, f, v) == SetField(m, ConnectionOptionsBuilder, f, v)
    IN  Then(Then(Then(Then(Then(Blank,
             "client", BuildClient(o)),
             "origin_local_ip", o.origin_local_ip),
             "replace_existing", o.replace_existing),
             "compression_quality", o.compression_quality),
             "num_previous_attempts", o.num_previous_attempts)

BuildRegisterRequest(o) ==
    LET Then(m, f, v) == SetField(m, RegisterConnectionParamsBuilder, f, v)
    IN  Then(Then(Then(Then(Blank,
             "auth", BuildAuth(o)),
             "tunnel_id", o.tunnel_id),
             "conn_index", o.conn_index),
             "options", BuildOptions(o))

\* What the edge makes of the request with the accessors of the schema.
EdgeReadsRequest(m) ==
    LET auth == Child(m, RegisterConnectionParamsReader.auth)
        options == Child(m, RegisterConnectionParamsReader.options)
        client == Child(options, ConnectionOptionsReader.client)
        own == {"tunnel_id", "conn_index"}
        opts == DOMAIN ConnectionOptionsReader \ {"client"}
    IN [f \in DOMAIN TunnelAuthReader \cup own \cup DOMAIN ClientInfoReader \cup opts |->
          CASE f \in DOMAIN TunnelAuthReader -> Get(auth, TunnelAuthReader[f])
            [] f \in own -> Get(m, RegisterConnectionParamsReader[f])
            [] f \in DOMAIN ClientInfoReader -> Get(client, ClientInfoReader[f])
            [] f \in opts -> Get(options, ConnectionOptionsReader[f])]

\* Two values each where a mix-up could hide; text and data are opaque.
RegisterArguments ==
    [account_tag : {1}, tunnel_secret : {2}, tunnel_id : {3},
     conn_index : 0 .. 2, client_id : {4}, features : {5}, version : {6, 7},
     arch : {7}, origin_local_ip : {8}, replace_existing : 0 .. 1,
     compression_quality : 0 .. 2, num_previous_attempts : 0 .. 2]

Register(o) ==
    /\ st = "register_connection_params" /\ sets = 0 /\ Building
    /\ msg' = BuildRegisterRequest(o)
    /\ given' = [by |-> "register", o |-> o]
    /\ UNCHANGED <<st, sets, last, served>>

\* Seeded fault: the length of the uuid is not checked.
DecodeConnectionResponseUnchecked(m) ==
    IF GetData(ConnectionResponseResult(m), U16(0)) = ResultReader.connection_details.d
      THEN "ok" ELSE "err"

\* decode_connection_response. Details with value 1 carry a uuid of 16
\* bytes; a null error or details pointer reads as an empty struct, whose
\* cause is empty and whose uuid has length 0.
DecodeConnectionResponse(m) ==
    LET r == ConnectionResponseResult(m)
    IN  IF /\ GetData(r, U16(0)) = ResultReader.connection_details.d
           /\ Get(r, ResultReader.connection_details) = 1
          THEN "ok" ELSE "err"

-----------------------------------------------------------------------------
(* The heads of a proxied stream.                                          *)

Entries == [key : {1, 2, Bad}, val : {1, Bad}]
Lists == [ok : BOOLEAN, entries : {<<>>} \cup (Entries \X Entries)]
TextLists ==      \* what Rust strings can hold
    {l \in Lists :
        /\ l.ok
        /\ \A n \in DOMAIN l.entries : Bad \notin {l.entries[n].key, l.entries[n].val}}

BuildEntry(e) ==
    LET Then(m, f, v) == SetField(m, MetadataBuilder, f, v)
    IN  Then(Then(Blank, "key", e.key), "val", e.val)

\* init_metadata and the entries' setters; a peer's list may be no list.
BuildEntries(list) ==
    [ok |-> list.ok,
     entries |-> [n \in DOMAIN list.entries |->
        BuildEntry(list.entries[n])]]

Readable(v) == IF v = Bad THEN Null ELSE v

\* Seeded fault: an entry whose key is unreadable is left out.
ReadEntriesSkips(list) ==
    LET kept == SelectSeq(list.entries,
                          LAMBDA e : Get(e, MetadataReader.key) # Bad)
    IN  IF ~list.ok THEN <<>>
        ELSE [n \in DOMAIN kept |->
                [key |-> Get(kept[n], MetadataReader.key),
                 val |-> Readable(Get(kept[n], MetadataReader.val))]]

\* The metadata loop: get_key and get_val with their unwrap_or_default, and
\* nothing at all from a list that does not decode.
ReadEntries(list) ==
    IF ~list.ok THEN <<>>
    ELSE [n \in DOMAIN list.entries |->
            [key |-> Readable(Get(list.entries[n], MetadataReader.key)),
             val |-> Readable(Get(list.entries[n], MetadataReader.val))]]

\* The edge fills in a ConnectRequest.
EdgeBuildsRequest(r) ==
    LET Then(m, f, v) == SetField(m, ConnectRequestBuilder, f, v)
    IN  Then(Then(Then(Blank,
             "dest", r.dest),
             "type", r.type),
             "metadata", BuildEntries(r.metadata))

Refused == [refused |-> TRUE]

\* read_connect_request after the frame has been read: a destination that is
\* no text or an unknown type is an error, an unreadable key or value is an
\* empty one.
ReadConnectRequest(m) ==
    LET dest == Get(m, ConnectRequestReader.dest)
        type == Get(m, ConnectRequestReader.type)
    IN  IF dest = Bad \/ type = NotInSchema THEN Refused
        ELSE [dest |-> dest, type |-> type,
              metadata |-> ReadEntries(Get(m, ConnectRequestReader.metadata))]

\* write_connect_response: the message of the frame.
WriteConnectResponse(error, metadata) ==
    LET Then(m, f, v) == SetField(m, ConnectResponseBuilder, f, v)
    IN  Then(Then(Blank, "error", error), "metadata", BuildEntries(metadata))

EdgeReadsResponse(m) ==
    [error |-> Get(m, ConnectResponseReader.error),
     metadata |-> ReadEntries(Get(m, ConnectResponseReader.metadata))]

OpenStream(r) ==
    /\ st = "connect_request" /\ sets = 0 /\ Building
    /\ msg' = EdgeBuildsRequest(r)
    /\ given' = [by |-> "request", r |-> r]
    /\ UNCHANGED <<st, sets, last, served>>

Respond(r) ==
    /\ st = "connect_response" /\ sets = 0 /\ Building
    /\ msg' = WriteConnectResponse(r.error, r.metadata)
    /\ given' = [by |-> "response", r |-> r]
    /\ UNCHANGED <<st, sets, last, served>>

-----------------------------------------------------------------------------

Next ==
    \/ \E f \in DOMAIN Structs[st].builder.set :
          \E v \in Values(Structs[st].builder.set[f]) : Set(f, v)
    \/ ResetResult
    \/ SetForeign
    \/ \E s \in DOMAIN Servers, i \in DOMAIN Clients :
          \E k \in DOMAIN Clients[i] : Call(s, i, k)
    \/ \E o \in RegisterArguments : Register(o)
    \/ \E r \in [dest : {1, Bad}, type : {0, 1, 2, Foreign}, metadata : Lists] :
          OpenStream(r)
    \/ \E r \in [error : {1, 2}, metadata : TextLists] : Respond(r)

Spec == Init /\ [][Next]_vars

-----------------------------------------------------------------------------
(* Properties                                                              *)

\* Whatever setters of a struct were called, in whatever order and however
\* often, every getter returns what its own setter was last given, and the
\* default where it was not called: no two places overlap, no member of the
\* union survives the other one, no unknown tag is taken for a known one.
ReadsLastWritten ==
    given = NoArgument =>
        \A f \in DOMAIN Structs[st].get :
            Get(msg, Structs[st].get[f]) =
                IF f \in DOMAIN last THEN last[f] ELSE Null

\* A call reaches the method it was meant for, on the interface's own server
\* and on every server that extends it, and is read there as the struct it
\* was written as; a server of another interface refuses it.
CallsReachNamesake ==
    \A s \in DOMAIN Servers, i \in DOMAIN Clients :
        \A k \in DOMAIN Clients[i] :
            served.to = <<s, i, k>> =>
                served.reached =
                    IF s = i \/ <<s, i>> \in {<<"tunnel_server", "registration_server">>,
                                             <<"cloudflared_server", "session_manager">>,
                                             <<"cloudflared_server", "configuration_manager">>}
                      THEN [name |-> k, params |-> st] ELSE Unimplemented

\* register_connection takes a response for an accepted registration exactly
\* when details with a proper uuid were the last member set: not for an
\* empty response, a replaced member or a member of a newer schema.
AcceptedMeansDetails ==
    given = NoArgument /\ st = "connection_response" =>
        (DecodeConnectionResponse(msg) = "ok"
            <=> "connection_details" \in DOMAIN last /\ last["connection_details"] = 1)

\* What one side converts into a message by hand the other side reads back.
\* The edge reads the identity, the connection index and the options that
\* the caller of register_connection passed; a request for a stream is
\* refused only for its destination or type, and one unreadable header costs
\* neither the others nor their order; a response arrives as it was written.
ConversionsFaithful ==
    LET shown(list) ==
          IF ~list.ok THEN <<>>
          ELSE [n \in DOMAIN list.entries |->
                  [key |-> Readable(list.entries[n].key),
                   val |-> Readable(list.entries[n].val)]]
    IN CASE given.by = "register" -> EdgeReadsRequest(msg) = given.o
         [] given.by = "request" ->
              ReadConnectRequest(msg) =
                  IF given.r.dest = Bad \/ given.r.type = Foreign THEN Refused
                  ELSE [given.r EXCEPT !.metadata = shown(@)]
         [] given.by = "response" ->
              EdgeReadsResponse(msg) = [given.r EXCEPT !.metadata = shown(@)]
         [] OTHER -> TRUE

=============================================================================
