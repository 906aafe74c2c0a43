---------------------------- MODULE QuicMetadata ----------------------------
(***************************************************************************)
(* The accessors generated from schemas/quic_metadata_protocol.capnp       *)
(* (src/proto_gen/quic_metadata_protocol_capnp.rs): the head of a proxied  *)
(* stream in either direction.                                             *)
(***************************************************************************)
EXTENDS Layout

ConnectRequestReader ==
    [dest |-> Ptr(0), type |-> Enum(0), metadata |-> Ptr(1)]
ConnectRequestBuilder ==
    Struct(1, 2,
        [dest |-> Ptr(0), type |-> Enum(0), metadata |-> Ptr(1)])

MetadataReader == [key |-> Ptr(0), val |-> Ptr(1)]
MetadataBuilder == Struct(0, 2, [key |-> Ptr(0), val |-> Ptr(1)])

ConnectResponseReader == [error |-> Ptr(0), metadata |-> Ptr(1)]
ConnectResponseBuilder ==
    Struct(0, 2,
        [error |-> Ptr(0), metadata |-> Ptr(1)])

QuicMetadataStructs ==
  [ connect_request |-> Accessors(ConnectRequestReader, ConnectRequestBuilder),
    connect_response |->
        Accessors(ConnectResponseReader, ConnectResponseBuilder),
    metadata |-> Accessors(MetadataReader, MetadataBuilder)]

=============================================================================
