----------------------------- MODULE TunnelRpc ------------------------------
(***************************************************************************)
(* The accessors generated from schemas/tunnelrpc.capnp                    *)
(* (src/proto_gen/tunnelrpc_capnp.rs): for every struct where its Reader   *)
(* looks for a field and where its Builder puts it, for every interface    *)
(* what its Client sends and what its ServerDispatch makes of it. A getter *)
(* of a Builder and has_ use the place of the getter or setter.            *)
(***************************************************************************)
EXTENDS Layout

AuthenticationReader ==
    [key |-> Ptr(0), email |-> Ptr(1), origin_c_a_key |-> Ptr(2)]
AuthenticationBuilder ==
    Struct(0, 3,
        [key |-> Ptr(0), email |-> Ptr(1), origin_c_a_key |-> Ptr(2)])

TunnelRegistrationReader ==
    [err |-> Ptr(0), url |-> Ptr(1), log_lines |-> Ptr(2),
     permanent_failure |-> Bool(0), tunnel_i_d |-> Ptr(3),
     retry_after_seconds |-> U16(1), event_digest |-> Ptr(4),
     conn_digest |-> Ptr(5)]
TunnelRegistrationBuilder ==
    Struct(1, 6,
        [err |-> Ptr(0), url |-> Ptr(1), log_lines |-> Ptr(2),
         permanent_failure |-> Bool(0), tunnel_i_d |-> Ptr(3),
         retry_after_seconds |-> U16(1), event_digest |-> Ptr(4),
         conn_digest |-> Ptr(5)])

RegistrationOptionsReader ==
    [client_id |-> Ptr(0), version |-> Ptr(1), os |-> Ptr(2),
     existing_tunnel_policy |-> Enum(0), pool_name |-> Ptr(3),
     tags |-> Ptr(4), connection_id |-> U8(2), origin_local_ip |-> Ptr(5),
     is_autoupdated |-> Bool(24), run_from_terminal |-> Bool(25),
     compression_quality |-> U64(1), uuid |-> Ptr(6),
     num_previous_attempts |-> U8(4), features |-> Ptr(7)]
RegistrationOptionsBuilder ==
    Struct(2, 8,
        [client_id |-> Ptr(0), version |-> Ptr(1), os |-> Ptr(2),
         existing_tunnel_policy |-> Enum(0), pool_name |-> Ptr(3),
         tags |-> Ptr(4), connection_id |-> U8(2),
         origin_local_ip |-> Ptr(5), is_autoupdated |-> Bool(24),
         run_from_terminal |-> Bool(25), compression_quality |-> U64(1),
         uuid |-> Ptr(6), num_previous_attempts |-> U8(4),
         features |-> Ptr(7)])

ServerInfoReader == [location_name |-> Ptr(0)]
ServerInfoBuilder == Struct(0, 1, [location_name |-> Ptr(0)])

AuthenticateResponseReader ==
    [permanent_err |-> Ptr(0), retryable_err |-> Ptr(1), jwt |-> Ptr(2),
     hours_until_refresh |-> U8(0)]
AuthenticateResponseBuilder ==
    Struct(1, 3,
        [permanent_err |-> Ptr(0), retryable_err |-> Ptr(1), jwt |-> Ptr(2),
         hours_until_refresh |-> U8(0)])

RegisterTunnelParamsReader ==
    [origin_cert |-> Ptr(0), hostname |-> Ptr(1), options |-> Ptr(2)]
RegisterTunnelParamsBuilder ==
    Struct(0, 3,
        [origin_cert |-> Ptr(0), hostname |-> Ptr(1), options |-> Ptr(2)])

RegisterTunnelResultsReader == [result |-> Ptr(0)]
RegisterTunnelResultsBuilder == Struct(0, 1, [result |-> Ptr(0)])

GetServerInfoResultsReader == [result |-> Ptr(0)]
GetServerInfoResultsBuilder == Struct(0, 1, [result |-> Ptr(0)])

UnregisterTunnelParamsReader == [grace_period_nano_sec |-> I64(0)]
UnregisterTunnelParamsBuilder ==
    Struct(1, 0,
        [grace_period_nano_sec |-> I64(0)])

AuthenticateParamsReader ==
    [origin_cert |-> Ptr(0), hostname |-> Ptr(1), options |-> Ptr(2)]
AuthenticateParamsBuilder ==
    Struct(0, 3,
        [origin_cert |-> Ptr(0), hostname |-> Ptr(1), options |-> Ptr(2)])

AuthenticateResultsReader == [result |-> Ptr(0)]
AuthenticateResultsBuilder == Struct(0, 1, [result |-> Ptr(0)])

ReconnectTunnelParamsReader ==
    [jwt |-> Ptr(0), event_digest |-> Ptr(1), conn_digest |-> Ptr(2),
     hostname |-> Ptr(3), options |-> Ptr(4)]
ReconnectTunnelParamsBuilder ==
    Struct(0, 5,
        [jwt |-> Ptr(0), event_digest |-> Ptr(1), conn_digest |-> Ptr(2),
         hostname |-> Ptr(3), options |-> Ptr(4)])

ReconnectTunnelResultsReader == [result |-> Ptr(0)]
ReconnectTunnelResultsBuilder == Struct(0, 1, [result |-> Ptr(0)])

TagReader == [name |-> Ptr(0), value |-> Ptr(1)]
TagBuilder == Struct(0, 2, [name |-> Ptr(0), value |-> Ptr(1)])

ClientInfoReader ==
    [client_id |-> Ptr(0), features |-> Ptr(1), version |-> Ptr(2),
     arch |-> Ptr(3)]
ClientInfoBuilder ==
    Struct(0, 4,
        [client_id |-> Ptr(0), features |-> Ptr(1), version |-> Ptr(2),
         arch |-> Ptr(3)])

ConnectionOptionsReader ==
    [client |-> Ptr(0), origin_local_ip |-> Ptr(1),
     replace_existing |-> Bool(0), compression_quality |-> U8(1),
     num_previous_attempts |-> U8(2)]
\* Seeded fault: compression_quality shares the byte of replace_existing.
ConnectionOptionsBuilderAliased ==
    Struct(1, 2,
        [client |-> Ptr(0), origin_local_ip |-> Ptr(1),
         replace_existing |-> Bool(0), compression_quality |-> U8(0),
         num_previous_attempts |-> U8(2)])
ConnectionOptionsBuilder ==
    Struct(1, 2,
        [client |-> Ptr(0), origin_local_ip |-> Ptr(1),
         replace_existing |-> Bool(0), compression_quality |-> U8(1),
         num_previous_attempts |-> U8(2)])

\* get_result: the group lies in the struct of the response itself.
ConnectionResponseResult(m) == m

\* The union: which() tells the members apart by the tag, they share slot 0.
ResultReader ==
    [error |-> Member(0, 0), connection_details |-> Member(0, 1)]
ResultBuilder ==
    Struct(1, 1, [error |-> Member(0, 0), connection_details |-> Member(0, 1)])

\* init_result: the tag is zeroed and the slot cleared.
InitResult(m) == [PutData(m, U16(0), 0) EXCEPT !.ptr = <<>>]

ConnectionErrorReader ==
    [cause |-> Ptr(0), retry_after |-> I64(0), should_retry |-> Bool(64)]
ConnectionErrorBuilder ==
    Struct(2, 1,
        [cause |-> Ptr(0), retry_after |-> I64(0), should_retry |-> Bool(64)])

ConnectionDetailsReader ==
    [uuid |-> Ptr(0), location_name |-> Ptr(1),
     tunnel_is_remotely_managed |-> Bool(0)]
ConnectionDetailsBuilder ==
    Struct(1, 2,
        [uuid |-> Ptr(0), location_name |-> Ptr(1),
         tunnel_is_remotely_managed |-> Bool(0)])

TunnelAuthReader == [account_tag |-> Ptr(0), tunnel_secret |-> Ptr(1)]
TunnelAuthBuilder ==
    Struct(0, 2,
        [account_tag |-> Ptr(0), tunnel_secret |-> Ptr(1)])

RegisterConnectionParamsReader ==
    [auth |-> Ptr(0), tunnel_id |-> Ptr(1), conn_index |-> U8(0),
     options |-> Ptr(2)]
RegisterConnectionParamsBuilder ==
    Struct(1, 3,
        [auth |-> Ptr(0), tunnel_id |-> Ptr(1), conn_index |-> U8(0),
         options |-> Ptr(2)])

RegisterConnectionResultsReader == [result |-> Ptr(0)]
RegisterConnectionResultsBuilder == Struct(0, 1, [result |-> Ptr(0)])

UpdateLocalConfigurationParamsReader == [config |-> Ptr(0)]
UpdateLocalConfigurationParamsBuilder == Struct(0, 1, [config |-> Ptr(0)])

RegisterUdpSessionResponseReader == [err |-> Ptr(0), spans |-> Ptr(1)]
RegisterUdpSessionResponseBuilder ==
    Struct(0, 2,
        [err |-> Ptr(0), spans |-> Ptr(1)])

RegisterUdpSessionParamsReader ==
    [session_id |-> Ptr(0), dst_ip |-> Ptr(1), dst_port |-> U16(0),
     close_after_idle_hint |-> I64(1), trace_context |-> Ptr(2)]
\* Seeded fault: a struct size one data word short.
RegisterUdpSessionParamsBuilderShort ==
    Struct(1, 3,
        [session_id |-> Ptr(0), dst_ip |-> Ptr(1), dst_port |-> U16(0),
         close_after_idle_hint |-> I64(1), trace_context |-> Ptr(2)])
RegisterUdpSessionParamsBuilder ==
    Struct(2, 3,
        [session_id |-> Ptr(0), dst_ip |-> Ptr(1), dst_port |-> U16(0),
         close_after_idle_hint |-> I64(1), trace_context |-> Ptr(2)])

RegisterUdpSessionResultsReader == [result |-> Ptr(0)]
RegisterUdpSessionResultsBuilder == Struct(0, 1, [result |-> Ptr(0)])

UnregisterUdpSessionParamsReader ==
    [session_id |-> Ptr(0), message |-> Ptr(1)]
UnregisterUdpSessionParamsBuilder ==
    Struct(0, 2,
        [session_id |-> Ptr(0), message |-> Ptr(1)])

UpdateConfigurationResponseReader ==
    [latest_applied_version |-> I32(0), err |-> Ptr(0)]
UpdateConfigurationResponseBuilder ==
    Struct(1, 1,
        [latest_applied_version |-> I32(0), err |-> Ptr(0)])

UpdateConfigurationParamsReader == [version |-> I32(0), config |-> Ptr(0)]
UpdateConfigurationParamsBuilder ==
    Struct(1, 1,
        [version |-> I32(0), config |-> Ptr(0)])

UpdateConfigurationResultsReader == [result |-> Ptr(0)]
UpdateConfigurationResultsBuilder == Struct(0, 1, [result |-> Ptr(0)])

-----------------------------------------------------------------------------

\* Structs without a field.
NoFields == Accessors(<<>>, Struct(0, 0, <<>>))

TunnelRpcStructs ==
  [ authentication |-> Accessors(AuthenticationReader, AuthenticationBuilder),
    tunnel_registration |->
        Accessors(TunnelRegistrationReader, TunnelRegistrationBuilder),
    registration_options |->
        Accessors(RegistrationOptionsReader, RegistrationOptionsBuilder),
    server_info |-> Accessors(ServerInfoReader, ServerInfoBuilder),
    authenticate_response |->
        Accessors(AuthenticateResponseReader, AuthenticateResponseBuilder),
    register_tunnel_params |->
        Accessors(RegisterTunnelParamsReader, RegisterTunnelParamsBuilder),
    register_tunnel_results |->
        Accessors(RegisterTunnelResultsReader, RegisterTunnelResultsBuilder),
    get_server_info_params |-> NoFields,
    get_server_info_results |->
        Accessors(GetServerInfoResultsReader, GetServerInfoResultsBuilder),
    unregister_tunnel_params |->
        Accessors(UnregisterTunnelParamsReader,
                  UnregisterTunnelParamsBuilder),
    unregister_tunnel_results |-> NoFields,
    obsolete_declarative_tunnel_connect_params |-> NoFields,
    obsolete_declarative_tunnel_connect_results |-> NoFields,
    authenticate_params |->
        Accessors(AuthenticateParamsReader, AuthenticateParamsBuilder),
    authenticate_results |->
        Accessors(AuthenticateResultsReader, AuthenticateResultsBuilder),
    reconnect_tunnel_params |->
        Accessors(ReconnectTunnelParamsReader, ReconnectTunnelParamsBuilder),
    reconnect_tunnel_results |->
        Accessors(ReconnectTunnelResultsReader,
                  ReconnectTunnelResultsBuilder),
    tag |-> Accessors(TagReader, TagBuilder),
    client_info |-> Accessors(ClientInfoReader, ClientInfoBuilder),
    connection_options |->
        Accessors(ConnectionOptionsReader, ConnectionOptionsBuilder),
    connection_response |-> Accessors(ResultReader, ResultBuilder),
    connection_error |->
        Accessors(ConnectionErrorReader, ConnectionErrorBuilder),
    connection_details |->
        Accessors(ConnectionDetailsReader, ConnectionDetailsBuilder),
    tunnel_auth |-> Accessors(TunnelAuthReader, TunnelAuthBuilder),
    register_connection_params |->
        Accessors(RegisterConnectionParamsReader,
                  RegisterConnectionParamsBuilder),
    register_connection_results |->
        Accessors(RegisterConnectionResultsReader,
                  RegisterConnectionResultsBuilder),
    unregister_connection_params |-> NoFields,
    unregister_connection_results |-> NoFields,
    update_local_configuration_params |->
        Accessors(UpdateLocalConfigurationParamsReader,
                  UpdateLocalConfigurationParamsBuilder),
    update_local_configuration_results |-> NoFields,
    register_udp_session_response |->
        Accessors(RegisterUdpSessionResponseReader,
                  RegisterUdpSessionResponseBuilder),
    register_udp_session_params |->
        Accessors(RegisterUdpSessionParamsReader,
                  RegisterUdpSessionParamsBuilder),
    register_udp_session_results |->
        Accessors(RegisterUdpSessionResultsReader,
                  RegisterUdpSessionResultsBuilder),
    unregister_udp_session_params |->
        Accessors(UnregisterUdpSessionParamsReader,
                  UnregisterUdpSessionParamsBuilder),
    unregister_udp_session_results |-> NoFields,
    update_configuration_response |->
        Accessors(UpdateConfigurationResponseReader,
                  UpdateConfigurationResponseBuilder),
    update_configuration_params |->
        Accessors(UpdateConfigurationParamsReader,
                  UpdateConfigurationParamsBuilder),
    update_configuration_results |->
        Accessors(UpdateConfigurationResultsReader,
                  UpdateConfigurationResultsBuilder)]

-----------------------------------------------------------------------------
(* The interfaces. A client names a method by TYPE_ID and number and fills *)
(* the params struct of its request type; a server finds at the number a   *)
(* method of its trait, which reads the params as its own type.            *)

Request(number, params) == [number |-> number, params |-> params]
Method(name, params) == [name |-> name, params |-> params]

TypeId ==
  [ tunnel_server |-> "ea58385c65416035",
    registration_server |-> "f71695ec7fe85497",
    session_manager |-> "839445a59fb01686",
    configuration_manager |-> "b48edfbdaa25db04",
    cloudflared_server |-> "f548cef9dea2a4a1"]

RegistrationServerClient ==
  [ register_connection |-> Request(0, "register_connection_params"),
    unregister_connection |-> Request(1, "unregister_connection_params"),
    update_local_configuration |->
        Request(2, "update_local_configuration_params")]

\* Seeded fault: the last two arms of the match are swapped.
RegistrationServerMethodsSwapped ==
  << Method("register_connection", "register_connection_params"),
    Method("update_local_configuration", "update_local_configuration_params"),
    Method("unregister_connection", "unregister_connection_params")>>

\* dispatch_call_internal: the methods by number, from 0.
RegistrationServerMethods ==
  << Method("register_connection", "register_connection_params"),
    Method("unregister_connection", "unregister_connection_params"),
    Method("update_local_configuration", "update_local_configuration_params")>>

TunnelServerClient ==
  [ register_tunnel |-> Request(0, "register_tunnel_params"),
    get_server_info |-> Request(1, "get_server_info_params"),
    unregister_tunnel |-> Request(2, "unregister_tunnel_params"),
    obsolete_declarative_tunnel_connect |->
        Request(3, "obsolete_declarative_tunnel_connect_params"),
    authenticate |-> Request(4, "authenticate_params"),
    reconnect_tunnel |-> Request(5, "reconnect_tunnel_params")]

TunnelServerMethods ==
  << Method("register_tunnel", "register_tunnel_params"),
    Method("get_server_info", "get_server_info_params"),
    Method("unregister_tunnel", "unregister_tunnel_params"),
    Method("obsolete_declarative_tunnel_connect",
           "obsolete_declarative_tunnel_connect_params"),
    Method("authenticate", "authenticate_params"),
    Method("reconnect_tunnel", "reconnect_tunnel_params")>>

SessionManagerClient ==
  [ register_udp_session |-> Request(0, "register_udp_session_params"),
    unregister_udp_session |-> Request(1, "unregister_udp_session_params")]

SessionManagerMethods ==
  << Method("register_udp_session", "register_udp_session_params"),
    Method("unregister_udp_session", "unregister_udp_session_params")>>

ConfigurationManagerClient ==
  [ update_configuration |-> Request(0, "update_configuration_params")]

ConfigurationManagerMethods ==
  << Method("update_configuration", "update_configuration_params")>>

Clients ==
  [ tunnel_server |-> TunnelServerClient,
    registration_server |-> RegistrationServerClient,
    session_manager |-> SessionManagerClient,
    configuration_manager |-> ConfigurationManagerClient]

\* dispatch_call: the TYPE_IDs a server answers to, its own and those of the
\* interfaces it extends (as literals), and the methods behind each.
TunnelServerDispatch ==
    [id \in {TypeId.tunnel_server, "f71695ec7fe85497"} |->
        IF id = TypeId.tunnel_server THEN TunnelServerMethods
        ELSE RegistrationServerMethods]
RegistrationServerDispatch ==
    [id \in {TypeId.registration_server} |-> RegistrationServerMethods]
SessionManagerDispatch ==
    [id \in {TypeId.session_manager} |-> SessionManagerMethods]
ConfigurationManagerDispatch ==
    [id \in {TypeId.configuration_manager} |-> ConfigurationManagerMethods]
CloudflaredServerDispatch ==
    [id \in {TypeId.cloudflared_server, "839445a59fb01686", "b48edfbdaa25db04"} |->
        CASE id = TypeId.cloudflared_server -> <<>>
          [] id = "839445a59fb01686"        -> SessionManagerMethods
          [] id = "b48edfbdaa25db04"        -> ConfigurationManagerMethods]

Servers ==
  [ tunnel_server |-> TunnelServerDispatch,
    registration_server |-> RegistrationServerDispatch,
    session_manager |-> SessionManagerDispatch,
    configuration_manager |-> ConfigurationManagerDispatch,
    cloudflared_server |-> CloudflaredServerDispatch]

Unimplemented == Method("unimplemented", "none")

\* The method a call with this interface id and number reaches on a server.
Dispatch(server, id, number) ==
    IF id \in DOMAIN server /\ number + 1 \in DOMAIN server[id]
      THEN server[id][number + 1] ELSE Unimplemented

=============================================================================
