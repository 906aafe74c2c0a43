----------------------------- MODULE WireProofs -----------------------------
(***************************************************************************)
(* Safety of the messages, for any number of setter calls. A struct is     *)
(* sound when its two generated halves agree and nothing overlaps; that is *)
(* checked struct by struct against the tables of TunnelRpc and            *)
(* QuicMetadata. What a sound struct then does, whatever is set in         *)
(* whatever order, is argued once; the conversions written by hand are     *)
(* chains of setters and follow from it, as does the invariant.            *)
(***************************************************************************)
EXTENDS Wire, TLAPS

-----------------------------------------------------------------------------
(* A sound struct: the Reader looks for every field where the Builder puts *)
(* it, within the sections, and no two fields share a bit or a slot.       *)

IsPlace(p) == p.w \in {0, 1, 8, 16, 32, 64} /\ p.i \in Nat /\ p.d = -1

From(p) == p.i * p.w
Apart(p, q) ==
    /\ p.w = 0 /\ q.w = 0 => p.i # q.i
    /\ p.w # 0 /\ q.w # 0 => From(p) + p.w <= From(q) \/ From(q) + q.w <= From(p)
Fits(p, b) == IF p.w = 0 THEN p.i < b.pointers ELSE From(p) + p.w <= 64 * b.data

Sound(get, b) ==
    /\ get = b.set
    /\ b.data \in Nat /\ b.pointers \in Nat
    /\ \A f \in DOMAIN get : IsPlace(get[f]) /\ Fits(get[f], b)
    /\ \A f, g \in DOMAIN get : f # g => Apart(get[f], get[g])

(* A message that holds the values of l: every field its own, the default  *)
(* where l has none.                                                       *)

Bit(m, n) == IF n \in DOMAIN m.data THEN m.data[n] ELSE 0
Shown(l, f) == IF f \in DOMAIN l THEN l[f] ELSE Null

\* An enumerant of a newer schema is what a getter shows as NotInSchema.
Raw(v) == IF v = NotInSchema THEN Foreign ELSE v
Fillable(p) == Enumerants \cup (IF p.e THEN {NotInSchema} ELSE {})

Slot(m, p, l, f) ==
    /\ p.i \in DOMAIN m.ptr <=> f \in DOMAIN l
    /\ f \in DOMAIN l => m.ptr[p.i] = l[f]
Word(m, p, l, f) ==
    /\ Shown(l, f) \in Fillable(p)
    /\ \A n \in Bits(p) : Bit(m, n) = Raw(Shown(l, f))

Holds(m, get, b, l) ==
    /\ m = [data |-> m.data, ptr |-> m.ptr]
    /\ InBounds(m, b)
    /\ \A f \in DOMAIN get :
          IF get[f].w = 0 THEN Slot(m, get[f], l, f) ELSE Word(m, get[f], l, f)

\* What the setter of place p is given to make its getter show v.
Input(p, v) == IF p.w = 0 THEN v ELSE Raw(v)

-----------------------------------------------------------------------------

\* The bits of a word are an interval of its width.
LEMMA BitsFacts ==
    ASSUME NEW p, IsPlace(p), p.w # 0
    PROVE  /\ From(p) \in Nat /\ p.w \in Nat /\ p.w >= 1
           /\ Bits(p) = From(p) .. From(p) + p.w - 1
           /\ From(p) \in Bits(p)
<1>1. p.i \in Nat /\ p.w \in {1, 8, 16, 32, 64}
  BY DEF IsPlace
<1>2. From(p) \in Nat
  BY <1>1 DEF From
<1>. QED
  BY <1>1, <1>2 DEF Bits, From

\* The bits of a place that all say the same are read as one value.
LEMMA GetDataFacts ==
    ASSUME NEW p, IsPlace(p), p.w # 0, NEW m, NEW v, \A n \in Bits(p) : Bit(m, n) = v
    PROVE  GetData(m, p) = v
<1> DEFINE bits == {IF n \in DOMAIN m.data THEN m.data[n] ELSE 0 : n \in Bits(p)}
<1>1. bits = {v}
  BY BitsFacts DEF Bit
<1>2. \E x \in bits : bits = {x}
  BY <1>1
<1>3. (CHOOSE x \in bits : TRUE) = v
  BY <1>1
<1>. QED
  BY <1>2, <1>3 DEF GetData

\* A getter shows what the message holds for its field.
LEMMA GetShows ==
    ASSUME NEW get, NEW b, Sound(get, b), NEW m, NEW l, Holds(m, get, b, l),
           NEW f \in DOMAIN get
    PROVE  Get(m, get[f]) = Shown(l, f)
<1> DEFINE p == get[f]
<1>1. IsPlace(p)
  BY DEF Sound
<1>2. p.d = -1
  BY <1>1 DEF IsPlace
<1>3. CASE p.w = 0
  <2>1. Slot(m, p, l, f)
    BY <1>3 DEF Holds
  <2>2. Has(m, p) <=> f \in DOMAIN l
    BY <1>2, <2>1 DEF Has, Slot
  <2>3. Get(m, p) = IF Has(m, p) THEN m.ptr[p.i] ELSE Null
    BY <1>3 DEF Get
  <2>. QED
    BY <2>1, <2>2, <2>3 DEF Slot, Shown
<1>4. CASE p.w # 0
  <2>1. Word(m, p, l, f)
    BY <1>4 DEF Holds
  <2>2. GetData(m, p) = Raw(Shown(l, f))
    BY <1>1, <1>4, <2>1, GetDataFacts DEF Word
  <2>3. Shown(l, f) \in 0 .. 2 \/ (p.e /\ Shown(l, f) = NotInSchema)
    BY <1>2, <2>1 DEF Word, Fillable, Enumerants
  <2>4. CASE Shown(l, f) \in 0 .. 2
    BY <1>4, <2>2, <2>4 DEF Get, Raw, NotInSchema, Enumerants
  <2>5. CASE p.e /\ Shown(l, f) = NotInSchema
    BY <1>4, <2>2, <2>5 DEF Get, Raw, NotInSchema, Enumerants, Foreign
  <2>. QED
    BY <2>3, <2>4, <2>5
<1>. QED
  BY <1>3, <1>4

\* An empty message holds the defaults.
LEMMA BlankHolds ==
    ASSUME NEW get, NEW b, Sound(get, b)
    PROVE  Holds(Blank, get, b, <<>>)
<1>1. DOMAIN <<>> = {}
  OBVIOUS
<1>2. /\ Blank = [data |-> Blank.data, ptr |-> Blank.ptr]
      /\ DOMAIN Blank.data = {} /\ DOMAIN Blank.ptr = {}
  BY <1>1 DEF Blank
<1>3. InBounds(Blank, b)
  BY <1>2 DEF InBounds
<1>4. ASSUME NEW f, NEW p PROVE Slot(Blank, p, <<>>, f) /\ Word(Blank, p, <<>>, f)
  BY <1>1, <1>2 DEF Slot, Word, Shown, Bit, Raw, NotInSchema, Null, Fillable, Enumerants
<1>. QED
  BY <1>2, <1>3, <1>4 DEF Holds

\* Put on a place outside a union.
LEMMA PutPointer ==
    ASSUME NEW p, IsPlace(p), p.w = 0, NEW v, NEW m, m = [data |-> m.data, ptr |-> m.ptr]
    PROVE  Put(m, p, v) = [data |-> m.data, ptr |-> Assign(m.ptr, {p.i}, v)]
<1>1. ~(p.d >= 0)
  BY DEF IsPlace
<1>. QED
  BY <1>1 DEF Put

\* The same for a word.
LEMMA PutWord ==
    ASSUME NEW p, IsPlace(p), p.w # 0, NEW v, NEW m, m = [data |-> m.data, ptr |-> m.ptr]
    PROVE  Put(m, p, v) = [data |-> Assign(m.data, Bits(p), v), ptr |-> m.ptr]
<1>1. ~(p.d >= 0)
  BY DEF IsPlace
<1>. QED
  BY <1>1 DEF Put, PutData

\* A setter makes the message hold its value, and leaves all others.
LEMMA SetterHolds ==
    ASSUME NEW get, NEW b, Sound(get, b), NEW m, NEW l, Holds(m, get, b, l),
           NEW f \in DOMAIN get, NEW v, get[f].w # 0 => v \in Fillable(get[f])
    PROVE  Holds(SetField(m, b, f, Input(get[f], v)), get, b, Assign(l, {f}, v))
<1> DEFINE p == get[f]
           n == SetField(m, b, f, Input(p, v))
           k == Assign(l, {f}, v)
<1>1. /\ IsPlace(p) /\ p = b.set[f] /\ Fits(p, b)
      /\ b.data \in Nat /\ b.pointers \in Nat
      /\ m = [data |-> m.data, ptr |-> m.ptr] /\ InBounds(m, b)
  BY DEF Sound, Holds
<1>2. /\ DOMAIN k = DOMAIN l \cup {f} /\ k[f] = v
      /\ \A g \in DOMAIN l : g # f => k[g] = l[g]
  BY DEF Assign
<1>3. \A g \in DOMAIN get : g # f => IsPlace(get[g]) /\ Apart(p, get[g])
  BY DEF Sound
<1>4. p.i \in Nat
  BY <1>1 DEF IsPlace
<1>0. /\ p = get[f] /\ n = SetField(m, b, f, Input(p, v))
      /\ p.w # 0 => v \in Fillable(p)
  OBVIOUS
<1> HIDE DEF k, n, p
<1>5. CASE p.w = 0
  <2>1. n = [data |-> m.data, ptr |-> Assign(m.ptr, {p.i}, v)]
    BY <1>0, <1>1, <1>5, PutPointer DEF SetField, Input
  <2>2. /\ n.data = m.data /\ DOMAIN n.ptr = DOMAIN m.ptr \cup {p.i} /\ n.ptr[p.i] = v
        /\ \A i \in DOMAIN m.ptr : i # p.i => n.ptr[i] = m.ptr[i]
        /\ n = [data |-> n.data, ptr |-> n.ptr]
    BY <2>1 DEF Assign
  <2>3. InBounds(n, b)
    BY <1>1, <1>4, <1>5, <2>2 DEF InBounds, Fits
  <2>4. Slot(n, p, k, f)
    BY <1>2, <2>2 DEF Slot
  <2>5. ASSUME NEW g \in DOMAIN get, g # f, get[g].w = 0 PROVE Slot(n, get[g], k, g)
    <3>1. get[g].i # p.i
      BY <1>3, <1>5, <2>5 DEF Apart
    <3>2. Slot(m, get[g], l, g)
      BY <2>5 DEF Holds
    <3>. QED
      BY <1>2, <2>2, <2>5, <3>1, <3>2 DEF Slot
  <2>6. ASSUME NEW g \in DOMAIN get, get[g].w # 0 PROVE Word(n, get[g], k, g)
    <3>1. g # f
      BY <1>0, <1>5, <2>6
    <3>2. Word(m, get[g], l, g)
      BY <2>6 DEF Holds
    <3>3. Shown(k, g) = Shown(l, g)
      BY <1>2, <3>1 DEF Shown
    <3>. QED
      BY <2>2, <3>2, <3>3 DEF Word, Bit
  <2>. QED
    BY <1>0, <1>5, <2>2, <2>3, <2>4, <2>5, <2>6 DEF Holds, n, k, p
<1>6. CASE p.w # 0
  <2>1. n = [data |-> Assign(m.data, Bits(p), Raw(v)), ptr |-> m.ptr]
    <3>1. n = Put(m, p, Raw(v))
      BY <1>0, <1>1, <1>6 DEF SetField, Input
    <3>. QED
      BY <1>1, <1>6, <3>1, PutWord
  <2>2. /\ n.ptr = m.ptr /\ DOMAIN n.data = DOMAIN m.data \cup Bits(p)
        /\ \A x \in Bits(p) : Bit(n, x) = Raw(v)
        /\ \A x : x \notin Bits(p) => Bit(n, x) = Bit(m, x)
        /\ n = [data |-> n.data, ptr |-> n.ptr]
    BY <2>1 DEF Bit, Assign
  <2>3. InBounds(n, b)
    <3>1. Bits(p) \subseteq 0 .. 64 * b.data - 1
      <4>1. From(p) + p.w <= 64 * b.data
        BY <1>1, <1>6 DEF Fits
      <4>2. /\ From(p) \in Nat /\ p.w \in Nat
            /\ Bits(p) = From(p) .. From(p) + p.w - 1
        BY <1>1, <1>6, BitsFacts
      <4>. QED
        BY <1>1, <4>1, <4>2
    <3>. QED
      BY <1>1, <2>2, <3>1 DEF InBounds
  <2>4. Word(n, p, k, f)
    BY <1>0, <1>2, <1>6, <2>2 DEF Word, Shown
  <2>5. ASSUME NEW g \in DOMAIN get, g # f, get[g].w # 0 PROVE Word(n, get[g], k, g)
    <3>1. Bits(get[g]) \cap Bits(p) = {}
      <4> DEFINE q == get[g]
      <4>1. IsPlace(q) /\ q.w # 0 /\ (From(p) + p.w <= From(q) \/ From(q) + q.w <= From(p))
        BY <1>3, <1>6, <2>5 DEF Apart
      <4> HIDE DEF q
      <4>2. Bits(q) \cap Bits(p) = {}
        <5>1. /\ From(p) \in Nat /\ p.w \in Nat
              /\ Bits(p) = From(p) .. From(p) + p.w - 1
          BY <1>1, <1>6, BitsFacts
        <5>2. /\ From(q) \in Nat /\ q.w \in Nat
              /\ Bits(q) = From(q) .. From(q) + q.w - 1
          BY <4>1, BitsFacts
        <5>. QED
          BY <4>1, <5>1, <5>2
      <4>. QED
        BY <4>2 DEF q
    <3>2. Word(m, get[g], l, g)
      BY <2>5 DEF Holds
    <3>3. Shown(k, g) = Shown(l, g)
      BY <1>2, <2>5 DEF Shown
    <3>. QED
      BY <2>2, <3>1, <3>2, <3>3 DEF Word
  <2>6. ASSUME NEW g \in DOMAIN get, get[g].w = 0 PROVE Slot(n, get[g], k, g)
    <3>1. g # f
      BY <1>0, <1>6, <2>6
    <3>2. Slot(m, get[g], l, g)
      BY <2>6 DEF Holds
    <3>. QED
      BY <1>2, <2>2, <3>1, <3>2 DEF Slot
  <2>. QED
    BY <1>0, <1>6, <2>2, <2>3, <2>4, <2>5, <2>6 DEF Holds, n, k, p
<1>. QED
  BY <1>5, <1>6
-----------------------------------------------------------------------------
(* The generated structs, one by one.                                      *)

\* Each Reader looks where its Builder writes, and no two fields overlap.
LEMMA LayoutsSound ==
    /\ Sound(<<>>, Struct(0, 0, <<>>))
    /\ Sound(AuthenticationReader, AuthenticationBuilder)
    /\ Sound(TunnelRegistrationReader, TunnelRegistrationBuilder)
    /\ Sound(RegistrationOptionsReader, RegistrationOptionsBuilder)
    /\ Sound(ServerInfoReader, ServerInfoBuilder)
    /\ Sound(AuthenticateResponseReader, AuthenticateResponseBuilder)
    /\ Sound(RegisterTunnelParamsReader, RegisterTunnelParamsBuilder)
    /\ Sound(RegisterTunnelResultsReader, RegisterTunnelResultsBuilder)
    /\ Sound(GetServerInfoResultsReader, GetServerInfoResultsBuilder)
    /\ Sound(UnregisterTunnelParamsReader, UnregisterTunnelParamsBuilder)
    /\ Sound(AuthenticateParamsReader, AuthenticateParamsBuilder)
    /\ Sound(AuthenticateResultsReader, AuthenticateResultsBuilder)
    /\ Sound(ReconnectTunnelParamsReader, ReconnectTunnelParamsBuilder)
    /\ Sound(ReconnectTunnelResultsReader, ReconnectTunnelResultsBuilder)
    /\ Sound(TagReader, TagBuilder)
    /\ Sound(ClientInfoReader, ClientInfoBuilder)
    /\ Sound(ConnectionOptionsReader, ConnectionOptionsBuilder)
    /\ Sound(ConnectionErrorReader, ConnectionErrorBuilder)
    /\ Sound(ConnectionDetailsReader, ConnectionDetailsBuilder)
    /\ Sound(TunnelAuthReader, TunnelAuthBuilder)
    /\ Sound(RegisterConnectionParamsReader, RegisterConnectionParamsBuilder)
    /\ Sound(RegisterConnectionResultsReader, RegisterConnectionResultsBuilder)
    /\ Sound(UpdateLocalConfigurationParamsReader, UpdateLocalConfigurationParamsBuilder)
    /\ Sound(RegisterUdpSessionResponseReader, RegisterUdpSessionResponseBuilder)
    /\ Sound(RegisterUdpSessionParamsReader, RegisterUdpSessionParamsBuilder)
    /\ Sound(RegisterUdpSessionResultsReader, RegisterUdpSessionResultsBuilder)
    /\ Sound(UnregisterUdpSessionParamsReader, UnregisterUdpSessionParamsBuilder)
    /\ Sound(UpdateConfigurationResponseReader, UpdateConfigurationResponseBuilder)
    /\ Sound(UpdateConfigurationParamsReader, UpdateConfigurationParamsBuilder)
    /\ Sound(UpdateConfigurationResultsReader, UpdateConfigurationResultsBuilder)
    /\ Sound(ConnectRequestReader, ConnectRequestBuilder)
    /\ Sound(MetadataReader, MetadataBuilder)
    /\ Sound(ConnectResponseReader, ConnectResponseBuilder)
<1> USE DEF Sound, IsPlace, Struct, Place, Ptr, Bool, U8, U16, I32, U64, I64, Enum,
            From, Fits, Apart
<1>0. Sound(<<>>, Struct(0, 0, <<>>))
  OBVIOUS
<1>1. Sound(AuthenticationReader, AuthenticationBuilder)
  BY DEF AuthenticationReader, AuthenticationBuilder
<1>2. Sound(TunnelRegistrationReader, TunnelRegistrationBuilder)
  BY DEF TunnelRegistrationReader, TunnelRegistrationBuilder
<1>3. Sound(RegistrationOptionsReader, RegistrationOptionsBuilder)
  BY DEF RegistrationOptionsReader, RegistrationOptionsBuilder
<1>4. Sound(ServerInfoReader, ServerInfoBuilder)
  BY DEF ServerInfoReader, ServerInfoBuilder
<1>5. Sound(AuthenticateResponseReader, AuthenticateResponseBuilder)
  BY DEF AuthenticateResponseReader, AuthenticateResponseBuilder
<1>6. Sound(RegisterTunnelParamsReader, RegisterTunnelParamsBuilder)
  BY DEF RegisterTunnelParamsReader, RegisterTunnelParamsBuilder
<1>7. Sound(RegisterTunnelResultsReader, RegisterTunnelResultsBuilder)
  BY DEF RegisterTunnelResultsReader, RegisterTunnelResultsBuilder
<1>8. Sound(GetServerInfoResultsReader, GetServerInfoResultsBuilder)
  BY DEF GetServerInfoResultsReader, GetServerInfoResultsBuilder
<1>9. Sound(UnregisterTunnelParamsReader, UnregisterTunnelParamsBuilder)
  BY DEF UnregisterTunnelParamsReader, UnregisterTunnelParamsBuilder
<1>10. Sound(AuthenticateParamsReader, AuthenticateParamsBuilder)
  BY DEF AuthenticateParamsReader, AuthenticateParamsBuilder
<1>11. Sound(AuthenticateResultsReader, AuthenticateResultsBuilder)
  BY DEF AuthenticateResultsReader, AuthenticateResultsBuilder
<1>12. Sound(ReconnectTunnelParamsReader, ReconnectTunnelParamsBuilder)
  BY DEF ReconnectTunnelParamsReader, ReconnectTunnelParamsBuilder
<1>13. Sound(ReconnectTunnelResultsReader, ReconnectTunnelResultsBuilder)
  BY DEF ReconnectTunnelResultsReader, ReconnectTunnelResultsBuilder
<1>14. Sound(TagReader, TagBuilder)
  BY DEF TagReader, TagBuilder
<1>15. Sound(ClientInfoReader, ClientInfoBuilder)
  BY DEF ClientInfoReader, ClientInfoBuilder
<1>16. Sound(ConnectionOptionsReader, ConnectionOptionsBuilder)
  BY DEF ConnectionOptionsReader, ConnectionOptionsBuilder
<1>17. Sound(ConnectionErrorReader, ConnectionErrorBuilder)
  BY DEF ConnectionErrorReader, ConnectionErrorBuilder
<1>18. Sound(ConnectionDetailsReader, ConnectionDetailsBuilder)
  BY DEF ConnectionDetailsReader, ConnectionDetailsBuilder
<1>19. Sound(TunnelAuthReader, TunnelAuthBuilder)
  BY DEF TunnelAuthReader, TunnelAuthBuilder
<1>20. Sound(RegisterConnectionParamsReader, RegisterConnectionParamsBuilder)
  BY DEF RegisterConnectionParamsReader, RegisterConnectionParamsBuilder
<1>21. Sound(RegisterConnectionResultsReader, RegisterConnectionResultsBuilder)
  BY DEF RegisterConnectionResultsReader, RegisterConnectionResultsBuilder
<1>22. Sound(UpdateLocalConfigurationParamsReader, UpdateLocalConfigurationParamsBuilder)
  BY DEF UpdateLocalConfigurationParamsReader, UpdateLocalConfigurationParamsBuilder
<1>23. Sound(RegisterUdpSessionResponseReader, RegisterUdpSessionResponseBuilder)
  BY DEF RegisterUdpSessionResponseReader, RegisterUdpSessionResponseBuilder
<1>24. Sound(RegisterUdpSessionParamsReader, RegisterUdpSessionParamsBuilder)
  BY DEF RegisterUdpSessionParamsReader, RegisterUdpSessionParamsBuilder
<1>25. Sound(RegisterUdpSessionResultsReader, RegisterUdpSessionResultsBuilder)
  BY DEF RegisterUdpSessionResultsReader, RegisterUdpSessionResultsBuilder
<1>26. Sound(UnregisterUdpSessionParamsReader, UnregisterUdpSessionParamsBuilder)
  BY DEF UnregisterUdpSessionParamsReader, UnregisterUdpSessionParamsBuilder
<1>27. Sound(UpdateConfigurationResponseReader, UpdateConfigurationResponseBuilder)
  BY DEF UpdateConfigurationResponseReader, UpdateConfigurationResponseBuilder
<1>28. Sound(UpdateConfigurationParamsReader, UpdateConfigurationParamsBuilder)
  BY DEF UpdateConfigurationParamsReader, UpdateConfigurationParamsBuilder
<1>29. Sound(UpdateConfigurationResultsReader, UpdateConfigurationResultsBuilder)
  BY DEF UpdateConfigurationResultsReader, UpdateConfigurationResultsBuilder
<1>30. Sound(ConnectRequestReader, ConnectRequestBuilder)
  BY DEF ConnectRequestReader, ConnectRequestBuilder
<1>31. Sound(MetadataReader, MetadataBuilder)
  BY DEF MetadataReader, MetadataBuilder
<1>32. Sound(ConnectResponseReader, ConnectResponseBuilder)
  BY DEF ConnectResponseReader, ConnectResponseBuilder
<1>. QED
  BY <1>0, <1>1, <1>2, <1>3, <1>4, <1>5, <1>6, <1>7, <1>8, <1>9, <1>10, <1>11, <1>12, <1>13, <1>14, <1>15, <1>16, <1>17, <1>18, <1>19, <1>20, <1>21, <1>22, <1>23, <1>24, <1>25, <1>26, <1>27, <1>28, <1>29, <1>30, <1>31, <1>32

\* Every struct of the two schemas but the union is sound.
LEMMA StructsSound ==
    \A s \in DOMAIN Structs \ {"connection_response"} :
        Sound(Structs[s].get, Structs[s].builder)
<1>1. ASSUME NEW s \in DOMAIN QuicMetadataStructs
      PROVE  Sound(QuicMetadataStructs[s].get, QuicMetadataStructs[s].builder)
  BY LayoutsSound DEF QuicMetadataStructs, Accessors
<1>2. ASSUME NEW s \in DOMAIN TunnelRpcStructs, s # "connection_response"
      PROVE  Sound(TunnelRpcStructs[s].get, TunnelRpcStructs[s].builder)
  BY LayoutsSound, <1>2 DEF TunnelRpcStructs, Accessors, NoFields
<1>. QED
  BY <1>1, <1>2 DEF Structs

\* What ConnectResponse is in the table.
LEMMA UnionStruct ==
    /\ "connection_response" \in DOMAIN Structs
    /\ Structs["connection_response"].get = ResultReader
    /\ Structs["connection_response"].builder = ResultBuilder
<1>1. "connection_response" \notin DOMAIN QuicMetadataStructs
  BY DEF QuicMetadataStructs
<1>2. /\ "connection_response" \in DOMAIN TunnelRpcStructs
      /\ TunnelRpcStructs["connection_response"] = Accessors(ResultReader, ResultBuilder)
  BY DEF TunnelRpcStructs
<1>3. Structs["connection_response"] = Accessors(ResultReader, ResultBuilder)
  BY <1>1, <1>2 DEF Structs
<1>. QED
  BY <1>2, <1>3 DEF Structs, Accessors

-----------------------------------------------------------------------------
(* The tables of the interfaces.                                           *)

MethodsOf ==
  [ tunnel_server |-> TunnelServerMethods,
    registration_server |-> RegistrationServerMethods,
    session_manager |-> SessionManagerMethods,
    configuration_manager |-> ConfigurationManagerMethods]

\* The server answers for the interface: its own, or one it extends.
Answers(s, i) ==
    s = i \/ <<s, i>> \in {<<"tunnel_server", "registration_server">>,
                           <<"cloudflared_server", "session_manager">>,
                           <<"cloudflared_server", "configuration_manager">>}

\* What a client sends under a number the methods hold at that number.
LEMMA NumbersAgree ==
    \A i \in DOMAIN Clients : \A k \in DOMAIN Clients[i] :
        /\ Clients[i][k].number + 1 \in DOMAIN MethodsOf[i]
        /\ MethodsOf[i][Clients[i][k].number + 1]
              = [name |-> k, params |-> Clients[i][k].params]
<1> USE DEF Request, Method
<1>1. ASSUME NEW k \in DOMAIN TunnelServerClient
      PROVE  /\ TunnelServerClient[k].number + 1 \in DOMAIN TunnelServerMethods
             /\ TunnelServerMethods[TunnelServerClient[k].number + 1]
                   = [name |-> k, params |-> TunnelServerClient[k].params]
  BY DEF TunnelServerClient, TunnelServerMethods
<1>2. ASSUME NEW k \in DOMAIN RegistrationServerClient
      PROVE  /\ RegistrationServerClient[k].number + 1 \in DOMAIN RegistrationServerMethods
             /\ RegistrationServerMethods[RegistrationServerClient[k].number + 1]
                   = [name |-> k, params |-> RegistrationServerClient[k].params]
  BY DEF RegistrationServerClient, RegistrationServerMethods
<1>3. ASSUME NEW k \in DOMAIN SessionManagerClient
      PROVE  /\ SessionManagerClient[k].number + 1 \in DOMAIN SessionManagerMethods
             /\ SessionManagerMethods[SessionManagerClient[k].number + 1]
                   = [name |-> k, params |-> SessionManagerClient[k].params]
  BY DEF SessionManagerClient, SessionManagerMethods
<1>4. ASSUME NEW k \in DOMAIN ConfigurationManagerClient
      PROVE  /\ ConfigurationManagerClient[k].number + 1 \in DOMAIN ConfigurationManagerMethods
             /\ ConfigurationManagerMethods[ConfigurationManagerClient[k].number + 1]
                   = [name |-> k, params |-> ConfigurationManagerClient[k].params]
  BY DEF ConfigurationManagerClient, ConfigurationManagerMethods
<1>. QED
  BY <1>1, <1>2, <1>3, <1>4 DEF Clients, MethodsOf

\* A server knows the ids of the interfaces it answers for, and no other.
LEMMA IdsAgree ==
    \A s \in DOMAIN Servers, i \in DOMAIN Clients :
        IF Answers(s, i)
          THEN TypeId[i] \in DOMAIN Servers[s] /\ Servers[s][TypeId[i]] = MethodsOf[i]
          ELSE TypeId[i] \notin DOMAIN Servers[s]
BY DEF Servers, Clients, MethodsOf, Answers, TypeId, TunnelServerDispatch,
   RegistrationServerDispatch, SessionManagerDispatch, ConfigurationManagerDispatch,
   CloudflaredServerDispatch

\* Where a call of client i's method k ends up on server s.
LEMMA DispatchFacts ==
    ASSUME NEW s \in DOMAIN Servers, NEW i \in DOMAIN Clients,
           NEW k \in DOMAIN Clients[i]
    PROVE  Dispatch(Servers[s], TypeId[i], Clients[i][k].number) =
              IF Answers(s, i) THEN [name |-> k, params |-> Clients[i][k].params]
              ELSE Unimplemented
BY NumbersAgree, IdsAgree DEF Dispatch

-----------------------------------------------------------------------------
(* The conversions: a message whose builder was given every field of h     *)
(* shows h.                                                                *)

\* A pointer is read back as the struct it leads to.
LEMMA ChildShows ==
    ASSUME NEW get, NEW b, Sound(get, b), NEW m, NEW l, Holds(m, get, b, l),
           NEW f \in DOMAIN get, get[f].w = 0, f \in DOMAIN l
    PROVE  Child(m, get[f]) = l[f]
<1>1. get[f].d = -1
  BY DEF Sound, IsPlace
<1>2. Slot(m, get[f], l, f)
  BY DEF Holds
<1>. QED
  BY <1>1, <1>2 DEF Child, Has, Slot

\* The fields of D, as h has them.
Part(h, D) == [x \in D |-> h[x]]

\* One more setter of a conversion, which may be given a foreign enumerant.
LEMMA FillOne ==
    ASSUME NEW get, NEW b, Sound(get, b), NEW h, NEW D, NEW m,
           Holds(m, get, b, Part(h, D)), NEW f \in DOMAIN get,
           get[f].w # 0 => h[f] \in Fillable(get[f])
    PROVE  Holds(SetField(m, b, f, Input(get[f], h[f])), get, b, Part(h, D \cup {f}))
<1>1. Assign(Part(h, D), {f}, h[f]) = Part(h, D \cup {f})
  BY DEF Assign, Part
<1>. QED
  BY <1>1, SetterHolds

\* A conversion starts from an empty message.
LEMMA FillNone ==
    ASSUME NEW get, NEW b, Sound(get, b), NEW h
    PROVE  Holds(Blank, get, b, Part(h, {}))
<1>1. DOMAIN Part(h, {}) = {}
  BY DEF Part
<1>2. Part(h, {}) = <<>>
  BY <1>1 DEF Part
<1>. QED
  BY <1>2, BlankHolds

\* One more setter of a pointer or of a number the schema knows.
LEMMA FillPlain ==
    ASSUME NEW get, NEW b, Sound(get, b), NEW h, NEW D, NEW m,
           Holds(m, get, b, Part(h, D)), NEW f \in DOMAIN get,
           get[f].w = 0 \/ h[f] \in Enumerants
    PROVE  Holds(SetField(m, b, f, h[f]), get, b, Part(h, D \cup {f}))
<1>1. get[f].w # 0 => h[f] \in Fillable(get[f])
  BY DEF Fillable
<1>2. Input(get[f], h[f]) = h[f]
  BY DEF Input, Raw, Enumerants, NotInSchema
<1>. QED
  BY <1>1, <1>2, FillOne

\* TunnelAuth as build_register_request fills it.
LEMMA AuthHolds ==
    ASSUME NEW o, NEW h,
           h = [account_tag |-> o.account_tag, tunnel_secret |-> o.tunnel_secret]
    PROVE  Holds(BuildAuth(o), TunnelAuthReader, TunnelAuthBuilder,
                 Part(h, DOMAIN TunnelAuthReader))
<1> DEFINE R == TunnelAuthReader
           B == TunnelAuthBuilder
           m1 == SetField(Blank, B, "account_tag", h["account_tag"])
           m2 == SetField(m1, B, "tunnel_secret", h["tunnel_secret"])
           d1 == {} \cup {"account_tag"}
           d2 == d1 \cup {"tunnel_secret"}
<1>1. /\ DOMAIN R = d2
      /\ R["account_tag"].w = 0
      /\ R["tunnel_secret"].w = 0
  BY DEF TunnelAuthReader, Ptr, Place
<1>2. Sound(R, B)
  BY LayoutsSound
<1>3. BuildAuth(o) = m2
  BY DEF BuildAuth
<1> HIDE DEF R, B, m1, m2
<1>4. Holds(Blank, R, B, Part(h, {}))
  BY <1>2, FillNone
<1>5. Holds(m1, R, B, Part(h, d1))
  BY <1>1, <1>2, <1>4, FillPlain DEF m1
<1>6. Holds(m2, R, B, Part(h, d2))
  BY <1>1, <1>2, <1>5, FillPlain DEF m2
<1>. QED
  BY <1>1, <1>3, <1>6 DEF R, B

\* Its ClientInfo.
LEMMA ClientHolds ==
    ASSUME NEW o, NEW h,
           h = [client_id |-> o.client_id, version |-> o.version, arch |-> o.arch,
                features |-> o.features]
    PROVE  Holds(BuildClient(o), ClientInfoReader, ClientInfoBuilder,
                 Part(h, DOMAIN ClientInfoReader))
<1> DEFINE R == ClientInfoReader
           B == ClientInfoBuilder
           m1 == SetField(Blank, B, "client_id", h["client_id"])
           m2 == SetField(m1, B, "version", h["version"])
           m3 == SetField(m2, B, "arch", h["arch"])
           m4 == SetField(m3, B, "features", h["features"])
           d1 == {} \cup {"client_id"}
           d2 == d1 \cup {"version"}
           d3 == d2 \cup {"arch"}
           d4 == d3 \cup {"features"}
<1>1. /\ DOMAIN R = d4
      /\ R["client_id"].w = 0
      /\ R["version"].w = 0
      /\ R["arch"].w = 0
      /\ R["features"].w = 0
  BY DEF ClientInfoReader, Ptr, Place
<1>2. Sound(R, B)
  BY LayoutsSound
<1>3. BuildClient(o) = m4
  BY DEF BuildClient
<1> HIDE DEF R, B, m1, m2, m3, m4
<1>4. Holds(Blank, R, B, Part(h, {}))
  BY <1>2, FillNone
<1>5. Holds(m1, R, B, Part(h, d1))
  BY <1>1, <1>2, <1>4, FillPlain DEF m1
<1>6. Holds(m2, R, B, Part(h, d2))
  BY <1>1, <1>2, <1>5, FillPlain DEF m2
<1>7. Holds(m3, R, B, Part(h, d3))
  BY <1>1, <1>2, <1>6, FillPlain DEF m3
<1>8. Holds(m4, R, B, Part(h, d4))
  BY <1>1, <1>2, <1>7, FillPlain DEF m4
<1>. QED
  BY <1>1, <1>3, <1>8 DEF R, B

\* Its ConnectionOptions.
LEMMA OptionsHold ==
    ASSUME NEW o, NEW h,
           h = [client |-> BuildClient(o), origin_local_ip |-> o.origin_local_ip,
                replace_existing |-> o.replace_existing,
                compression_quality |-> o.compression_quality,
                num_previous_attempts |-> o.num_previous_attempts],
           o.replace_existing \in Enumerants,
           o.compression_quality \in Enumerants,
           o.num_previous_attempts \in Enumerants
    PROVE  Holds(BuildOptions(o), ConnectionOptionsReader, ConnectionOptionsBuilder,
                 Part(h, DOMAIN ConnectionOptionsReader))
<1> DEFINE R == ConnectionOptionsReader
           B == ConnectionOptionsBuilder
           m1 == SetField(Blank, B, "client", h["client"])
           m2 == SetField(m1, B, "origin_local_ip", h["origin_local_ip"])
           m3 == SetField(m2, B, "replace_existing", h["replace_existing"])
           m4 == SetField(m3, B, "compression_quality", h["compression_quality"])
           m5 == SetField(m4, B, "num_previous_attempts", h["num_previous_attempts"])
           d1 == {} \cup {"client"}
           d2 == d1 \cup {"origin_local_ip"}
           d3 == d2 \cup {"replace_existing"}
           d4 == d3 \cup {"compression_quality"}
           d5 == d4 \cup {"num_previous_attempts"}
<1>1. /\ DOMAIN R = d5
      /\ R["client"].w = 0
      /\ R["origin_local_ip"].w = 0
      /\ h["replace_existing"] \in Enumerants
      /\ h["compression_quality"] \in Enumerants
      /\ h["num_previous_attempts"] \in Enumerants
  BY DEF ConnectionOptionsReader, Ptr, Place
<1>2. Sound(R, B)
  BY LayoutsSound
<1>3. BuildOptions(o) = m5
  BY DEF BuildOptions
<1> HIDE DEF R, B, m1, m2, m3, m4, m5
<1>4. Holds(Blank, R, B, Part(h, {}))
  BY <1>2, FillNone
<1>5. Holds(m1, R, B, Part(h, d1))
  BY <1>1, <1>2, <1>4, FillPlain DEF m1
<1>6. Holds(m2, R, B, Part(h, d2))
  BY <1>1, <1>2, <1>5, FillPlain DEF m2
<1>7. Holds(m3, R, B, Part(h, d3))
  BY <1>1, <1>2, <1>6, FillPlain DEF m3
<1>8. Holds(m4, R, B, Part(h, d4))
  BY <1>1, <1>2, <1>7, FillPlain DEF m4
<1>9. Holds(m5, R, B, Part(h, d5))
  BY <1>1, <1>2, <1>8, FillPlain DEF m5
<1>. QED
  BY <1>1, <1>3, <1>9 DEF R, B

\* The params around them.
LEMMA RequestHolds ==
    ASSUME NEW o, NEW h,
           h = [auth |-> BuildAuth(o), tunnel_id |-> o.tunnel_id,
                conn_index |-> o.conn_index, options |-> BuildOptions(o)],
           o.conn_index \in Enumerants
    PROVE  Holds(BuildRegisterRequest(o), RegisterConnectionParamsReader, RegisterConnectionParamsBuilder,
                 Part(h, DOMAIN RegisterConnectionParamsReader))
<1> DEFINE R == RegisterConnectionParamsReader
           B == RegisterConnectionParamsBuilder
           m1 == SetField(Blank, B, "auth", h["auth"])
           m2 == SetField(m1, B, "tunnel_id", h["tunnel_id"])
           m3 == SetField(m2, B, "conn_index", h["conn_index"])
           m4 == SetField(m3, B, "options", h["options"])
           d1 == {} \cup {"auth"}
           d2 == d1 \cup {"tunnel_id"}
           d3 == d2 \cup {"conn_index"}
           d4 == d3 \cup {"options"}
<1>1. /\ DOMAIN R = d4
      /\ R["auth"].w = 0
      /\ R["tunnel_id"].w = 0
      /\ h["conn_index"] \in Enumerants
      /\ R["options"].w = 0
  BY DEF RegisterConnectionParamsReader, Ptr, Place
<1>2. Sound(R, B)
  BY LayoutsSound
<1>3. BuildRegisterRequest(o) = m4
  BY DEF BuildRegisterRequest
<1> HIDE DEF R, B, m1, m2, m3, m4
<1>4. Holds(Blank, R, B, Part(h, {}))
  BY <1>2, FillNone
<1>5. Holds(m1, R, B, Part(h, d1))
  BY <1>1, <1>2, <1>4, FillPlain DEF m1
<1>6. Holds(m2, R, B, Part(h, d2))
  BY <1>1, <1>2, <1>5, FillPlain DEF m2
<1>7. Holds(m3, R, B, Part(h, d3))
  BY <1>1, <1>2, <1>6, FillPlain DEF m3
<1>8. Holds(m4, R, B, Part(h, d4))
  BY <1>1, <1>2, <1>7, FillPlain DEF m4
<1>. QED
  BY <1>1, <1>3, <1>8 DEF R, B

\* One header of a stream's metadata.
LEMMA EntryHolds ==
    ASSUME NEW e, NEW h,
           h = [key |-> e.key, val |-> e.val]
    PROVE  Holds(BuildEntry(e), MetadataReader, MetadataBuilder,
                 Part(h, DOMAIN MetadataReader))
<1> DEFINE R == MetadataReader
           B == MetadataBuilder
           m1 == SetField(Blank, B, "key", h["key"])
           m2 == SetField(m1, B, "val", h["val"])
           d1 == {} \cup {"key"}
           d2 == d1 \cup {"val"}
<1>1. /\ DOMAIN R = d2
      /\ R["key"].w = 0
      /\ R["val"].w = 0
  BY DEF MetadataReader, Ptr, Place
<1>2. Sound(R, B)
  BY LayoutsSound
<1>3. BuildEntry(e) = m2
  BY DEF BuildEntry
<1> HIDE DEF R, B, m1, m2
<1>4. Holds(Blank, R, B, Part(h, {}))
  BY <1>2, FillNone
<1>5. Holds(m1, R, B, Part(h, d1))
  BY <1>1, <1>2, <1>4, FillPlain DEF m1
<1>6. Holds(m2, R, B, Part(h, d2))
  BY <1>1, <1>2, <1>5, FillPlain DEF m2
<1>. QED
  BY <1>1, <1>3, <1>6 DEF R, B

\* The ConnectResponse.
LEMMA ResponseHolds ==
    ASSUME NEW e, NEW l, NEW h,
           h = [error |-> e, metadata |-> BuildEntries(l)]
    PROVE  Holds(WriteConnectResponse(e, l), ConnectResponseReader, ConnectResponseBuilder,
                 Part(h, DOMAIN ConnectResponseReader))
<1> DEFINE R == ConnectResponseReader
           B == ConnectResponseBuilder
           m1 == SetField(Blank, B, "error", h["error"])
           m2 == SetField(m1, B, "metadata", h["metadata"])
           d1 == {} \cup {"error"}
           d2 == d1 \cup {"metadata"}
<1>1. /\ DOMAIN R = d2
      /\ R["error"].w = 0
      /\ R["metadata"].w = 0
  BY DEF ConnectResponseReader, Ptr, Place
<1>2. Sound(R, B)
  BY LayoutsSound
<1>3. WriteConnectResponse(e, l) = m2
  BY DEF WriteConnectResponse
<1> HIDE DEF R, B, m1, m2
<1>4. Holds(Blank, R, B, Part(h, {}))
  BY <1>2, FillNone
<1>5. Holds(m1, R, B, Part(h, d1))
  BY <1>1, <1>2, <1>4, FillPlain DEF m1
<1>6. Holds(m2, R, B, Part(h, d2))
  BY <1>1, <1>2, <1>5, FillPlain DEF m2
<1>. QED
  BY <1>1, <1>3, <1>6 DEF R, B

\* A ConnectRequest of the edge; a type of a newer schema will show as none
\* of this one.
LEMMA StreamHolds ==
    ASSUME NEW r, r.type \in Enumerants \cup {Foreign}, NEW h,
           h = [dest |-> r.dest,
                type |-> IF r.type = Foreign THEN NotInSchema ELSE r.type,
                metadata |-> BuildEntries(r.metadata)]
    PROVE  Holds(EdgeBuildsRequest(r), ConnectRequestReader, ConnectRequestBuilder,
                 Part(h, DOMAIN ConnectRequestReader))
<1> DEFINE R == ConnectRequestReader
           B == ConnectRequestBuilder
           m1 == SetField(Blank, B, "dest", h["dest"])
           m2 == SetField(m1, B, "type", r.type)
           m3 == SetField(m2, B, "metadata", h["metadata"])
           d1 == {} \cup {"dest"}
           d2 == d1 \cup {"type"}
           d3 == d2 \cup {"metadata"}
<1>1. /\ DOMAIN R = d3
      /\ R["dest"].w = 0
      /\ R["metadata"].w = 0
  BY DEF ConnectRequestReader, Ptr, Place
<1>2. /\ r.type = Input(R["type"], h["type"])
      /\ h["type"] \in Fillable(R["type"])
  <2>1. R["type"].w = 16 /\ R["type"].e
    BY DEF ConnectRequestReader, Enum, Place
  <2>. QED
    BY <2>1 DEF Input, Raw, Fillable, Enumerants, Foreign, NotInSchema
<1>3. Sound(R, B)
  BY LayoutsSound
<1>4. EdgeBuildsRequest(r) = m3
  BY DEF EdgeBuildsRequest
<1> HIDE DEF R, B, m1, m2, m3
<1>5. Holds(Blank, R, B, Part(h, {}))
  BY <1>3, FillNone
<1>6. Holds(m1, R, B, Part(h, d1))
  BY <1>1, <1>3, <1>5, FillPlain DEF m1
<1>7. Holds(m2, R, B, Part(h, d2))
  BY <1>1, <1>2, <1>3, <1>6, FillOne DEF m2
<1>8. Holds(m3, R, B, Part(h, d3))
  BY <1>1, <1>3, <1>7, FillPlain DEF m3
<1>. QED
  BY <1>1, <1>4, <1>8 DEF R, B

\* Every getter of a message whose fields were all set.
LEMMA FilledShows ==
    ASSUME NEW get, NEW b, Sound(get, b), NEW h, NEW m,
           Holds(m, get, b, Part(h, DOMAIN get)), NEW f \in DOMAIN get
    PROVE  /\ Get(m, get[f]) = h[f]
           /\ get[f].w = 0 => Child(m, get[f]) = h[f]
<1>1. f \in DOMAIN Part(h, DOMAIN get) /\ Part(h, DOMAIN get)[f] = h[f]
  BY DEF Part
<1>. QED
  BY <1>1, GetShows, ChildShows DEF Shown

\* The edge reads the arguments of register_connection from the params.
LEMMA RegisterFaithful ==
    ASSUME NEW o \in RegisterArguments
    PROVE  EdgeReadsRequest(BuildRegisterRequest(o)) = o
<1>1. /\ o.conn_index \in Enumerants /\ o.replace_existing \in Enumerants
      /\ o.compression_quality \in Enumerants /\ o.num_previous_attempts \in Enumerants
  BY DEF RegisterArguments, Enumerants
<1> DEFINE m == BuildRegisterRequest(o)
           a == [account_tag |-> o.account_tag, tunnel_secret |-> o.tunnel_secret]
           c == [client_id |-> o.client_id, version |-> o.version, arch |-> o.arch,
                 features |-> o.features]
           p == [client |-> BuildClient(o), origin_local_ip |-> o.origin_local_ip,
                 replace_existing |-> o.replace_existing,
                 compression_quality |-> o.compression_quality,
                 num_previous_attempts |-> o.num_previous_attempts]
           q == [auth |-> BuildAuth(o), tunnel_id |-> o.tunnel_id,
                 conn_index |-> o.conn_index, options |-> BuildOptions(o)]
<1>2. \A f \in {"account_tag", "tunnel_secret"} :
          Get(BuildAuth(o), TunnelAuthReader[f]) = a[f]
  <2>1. DOMAIN TunnelAuthReader = {"account_tag", "tunnel_secret"}
    BY DEF TunnelAuthReader
  <2>2. Holds(BuildAuth(o), TunnelAuthReader, TunnelAuthBuilder, Part(a, DOMAIN TunnelAuthReader))
    BY AuthHolds
  <2>3. Sound(TunnelAuthReader, TunnelAuthBuilder)
    BY LayoutsSound
  <2> HIDE DEF a
  <2>4. \A f \in DOMAIN TunnelAuthReader :
            /\ Get(BuildAuth(o), TunnelAuthReader[f]) = a[f]
            /\ TunnelAuthReader[f].w = 0 => Child(BuildAuth(o), TunnelAuthReader[f]) = a[f]
    BY <2>2, <2>3, FilledShows
  <2>. QED
    BY <2>1, <2>4 DEF a
<1>3. \A f \in {"client_id", "version", "arch", "features"} :
          Get(BuildClient(o), ClientInfoReader[f]) = c[f]
  <2>1. DOMAIN ClientInfoReader = {"client_id", "version", "arch", "features"}
    BY DEF ClientInfoReader
  <2>2. Holds(BuildClient(o), ClientInfoReader, ClientInfoBuilder, Part(c, DOMAIN ClientInfoReader))
    BY ClientHolds
  <2>3. Sound(ClientInfoReader, ClientInfoBuilder)
    BY LayoutsSound
  <2> HIDE DEF c
  <2>4. \A f \in DOMAIN ClientInfoReader :
            /\ Get(BuildClient(o), ClientInfoReader[f]) = c[f]
            /\ ClientInfoReader[f].w = 0 => Child(BuildClient(o), ClientInfoReader[f]) = c[f]
    BY <2>2, <2>3, FilledShows
  <2>. QED
    BY <2>1, <2>4 DEF c
<1>4. /\ \A f \in {"origin_local_ip", "replace_existing", "compression_quality",
                   "num_previous_attempts"} :
             Get(BuildOptions(o), ConnectionOptionsReader[f]) = p[f]
      /\ Child(BuildOptions(o), ConnectionOptionsReader.client) = BuildClient(o)
  <2>1. /\ DOMAIN ConnectionOptionsReader =
             {"client", "origin_local_ip", "replace_existing", "compression_quality",
              "num_previous_attempts"}
        /\ ConnectionOptionsReader["client"].w = 0
    BY DEF ConnectionOptionsReader, Ptr, Place
  <2>2. Holds(BuildOptions(o), ConnectionOptionsReader, ConnectionOptionsBuilder, Part(p, DOMAIN ConnectionOptionsReader))
    BY <1>1, OptionsHold
  <2>3. Sound(ConnectionOptionsReader, ConnectionOptionsBuilder)
    BY LayoutsSound
  <2> HIDE DEF p
  <2>4. \A f \in DOMAIN ConnectionOptionsReader :
            /\ Get(BuildOptions(o), ConnectionOptionsReader[f]) = p[f]
            /\ ConnectionOptionsReader[f].w = 0 => Child(BuildOptions(o), ConnectionOptionsReader[f]) = p[f]
    BY <2>2, <2>3, FilledShows
  <2>. QED
    BY <2>1, <2>4 DEF p
<1>5. /\ \A f \in {"tunnel_id", "conn_index"} :
             Get(m, RegisterConnectionParamsReader[f]) = q[f]
      /\ Child(m, RegisterConnectionParamsReader.auth) = BuildAuth(o)
      /\ Child(m, RegisterConnectionParamsReader.options) = BuildOptions(o)
  <2>1. /\ DOMAIN RegisterConnectionParamsReader =
             {"auth", "tunnel_id", "conn_index", "options"}
        /\ RegisterConnectionParamsReader["auth"].w = 0
        /\ RegisterConnectionParamsReader["options"].w = 0
    BY DEF RegisterConnectionParamsReader, Ptr, Place
  <2>2. Holds(m, RegisterConnectionParamsReader, RegisterConnectionParamsBuilder, Part(q, DOMAIN RegisterConnectionParamsReader))
    BY <1>1, RequestHolds
  <2>3. Sound(RegisterConnectionParamsReader, RegisterConnectionParamsBuilder)
    BY LayoutsSound
  <2> HIDE DEF q
  <2>4. \A f \in DOMAIN RegisterConnectionParamsReader :
            /\ Get(m, RegisterConnectionParamsReader[f]) = q[f]
            /\ RegisterConnectionParamsReader[f].w = 0 => Child(m, RegisterConnectionParamsReader[f]) = q[f]
    BY <2>2, <2>3, FilledShows
  <2>. QED
    BY <2>1, <2>4 DEF q
<1> DEFINE x == EdgeReadsRequest(m)
           fields == {"account_tag", "tunnel_secret", "tunnel_id", "conn_index", "client_id",
                      "features", "version", "arch", "origin_local_ip", "replace_existing",
                      "compression_quality", "num_previous_attempts"}
<1>6. /\ DOMAIN TunnelAuthReader = {"account_tag", "tunnel_secret"}
      /\ DOMAIN ClientInfoReader = {"client_id", "version", "arch", "features"}
      /\ DOMAIN ConnectionOptionsReader \ {"client"} =
             {"origin_local_ip", "replace_existing", "compression_quality",
              "num_previous_attempts"}
  BY DEF TunnelAuthReader, ClientInfoReader, ConnectionOptionsReader
<1> HIDE DEF m
<1>7. x = [f \in fields |-> x[f]]
  BY <1>6 DEF EdgeReadsRequest
<1>8. \A f \in fields : x[f] = o[f]
  BY <1>2, <1>3, <1>4, <1>5, <1>6 DEF EdgeReadsRequest
<1>9. o = [f \in fields |-> o[f]]
  BY DEF RegisterArguments
<1> HIDE DEF x, fields
<1>. QED
  BY <1>7, <1>8, <1>9 DEF x, m

\* The reading of a list of headers.
Plain(list) ==
    IF ~list.ok THEN <<>>
    ELSE [n \in DOMAIN list.entries |->
            [key |-> Readable(list.entries[n].key), val |-> Readable(list.entries[n].val)]]

\* Every header is read on its own, in its place.
LEMMA EntriesFaithful ==
    ASSUME NEW list
    PROVE  ReadEntries(BuildEntries(list)) = Plain(list)
<1>1. ASSUME NEW e
      PROVE  /\ Get(BuildEntry(e), MetadataReader.key) = e.key
             /\ Get(BuildEntry(e), MetadataReader.val) = e.val
  <2> DEFINE h == [key |-> e.key, val |-> e.val]
  <2>1. DOMAIN MetadataReader = {"key", "val"}
    BY DEF MetadataReader
  <2>2. Holds(BuildEntry(e), MetadataReader, MetadataBuilder, Part(h, DOMAIN MetadataReader))
    BY EntryHolds
  <2>3. Sound(MetadataReader, MetadataBuilder)
    BY LayoutsSound
  <2> HIDE DEF h
  <2>4. \A f \in DOMAIN MetadataReader :
            /\ Get(BuildEntry(e), MetadataReader[f]) = h[f]
            /\ MetadataReader[f].w = 0 => Child(BuildEntry(e), MetadataReader[f]) = h[f]
    BY <2>2, <2>3, FilledShows
  <2>. QED
    BY <2>1, <2>4 DEF h
<1>2. /\ BuildEntries(list).ok = list.ok
      /\ BuildEntries(list).entries
           = [n \in DOMAIN list.entries |-> BuildEntry(list.entries[n])]
  BY DEF BuildEntries
<1> DEFINE B == BuildEntries(list)
<1>3. \A n \in DOMAIN list.entries :
          /\ Get(B.entries[n], MetadataReader.key) = list.entries[n].key
          /\ Get(B.entries[n], MetadataReader.val) = list.entries[n].val
  BY <1>1, <1>2
<1>4. DOMAIN B.entries = DOMAIN list.entries /\ B.ok = list.ok
  BY <1>2
<1> HIDE DEF B
<1>5. ReadEntries(B) =
          IF ~list.ok THEN <<>>
          ELSE [n \in DOMAIN list.entries |->
                  [key |-> Readable(Get(B.entries[n], MetadataReader.key)),
                   val |-> Readable(Get(B.entries[n], MetadataReader.val))]]
  BY <1>4 DEF ReadEntries
<1>. QED
  BY <1>3, <1>5 DEF Plain, B

Streams == [dest : {1, Bad}, type : {0, 1, 2, Foreign}, metadata : Lists]

\* A request is refused for its destination or type, and else read as it was
\* written but for the headers that are no text.
LEMMA StreamFaithful ==
    ASSUME NEW r \in Streams
    PROVE  ReadConnectRequest(EdgeBuildsRequest(r)) =
              IF r.dest = Bad \/ r.type = Foreign THEN Refused
              ELSE [r EXCEPT !.metadata = Plain(@)]
<1> DEFINE m == EdgeBuildsRequest(r)
           h == [dest |-> r.dest,
                 type |-> IF r.type = Foreign THEN NotInSchema ELSE r.type,
                 metadata |-> BuildEntries(r.metadata)]
<1>1. /\ r.type \in Enumerants \cup {Foreign} /\ NotInSchema \notin Enumerants
      /\ r = [dest |-> r.dest, type |-> r.type, metadata |-> r.metadata]
  BY DEF Streams, Enumerants, NotInSchema
<1>2. /\ Get(m, ConnectRequestReader.dest) = h["dest"]
      /\ Get(m, ConnectRequestReader.type) = h["type"]
      /\ Get(m, ConnectRequestReader.metadata) = h["metadata"]
  <2>1. DOMAIN ConnectRequestReader = {"dest", "type", "metadata"}
    BY DEF ConnectRequestReader
  <2>2. Holds(m, ConnectRequestReader, ConnectRequestBuilder, Part(h, DOMAIN ConnectRequestReader))
    BY <1>1, StreamHolds
  <2>3. Sound(ConnectRequestReader, ConnectRequestBuilder)
    BY LayoutsSound
  <2> HIDE DEF h
  <2>4. \A f \in DOMAIN ConnectRequestReader :
            /\ Get(m, ConnectRequestReader[f]) = h[f]
            /\ ConnectRequestReader[f].w = 0 => Child(m, ConnectRequestReader[f]) = h[f]
    BY <2>2, <2>3, FilledShows
  <2>. QED
    BY <2>1, <2>4 DEF h
<1> HIDE DEF m
<1>3. ReadConnectRequest(m) =
          IF r.dest = Bad \/ r.type = Foreign THEN Refused
          ELSE [dest |-> r.dest, type |-> r.type, metadata |-> Plain(r.metadata)]
  BY <1>1, <1>2, EntriesFaithful DEF ReadConnectRequest, NotInSchema, Foreign, Enumerants
<1>. QED
  BY <1>1, <1>3 DEF m

\* A response arrives as it was written.
LEMMA ResponseFaithful ==
    ASSUME NEW e, NEW l
    PROVE  EdgeReadsResponse(WriteConnectResponse(e, l)) =
              [error |-> e, metadata |-> Plain(l)]
<1> DEFINE m == WriteConnectResponse(e, l)
           h == [error |-> e, metadata |-> BuildEntries(l)]
<1>1. /\ Get(m, ConnectResponseReader.error) = e
      /\ Get(m, ConnectResponseReader.metadata) = BuildEntries(l)
  <2>1. DOMAIN ConnectResponseReader = {"error", "metadata"}
    BY DEF ConnectResponseReader
  <2>2. Holds(m, ConnectResponseReader, ConnectResponseBuilder, Part(h, DOMAIN ConnectResponseReader))
    BY ResponseHolds
  <2>3. Sound(ConnectResponseReader, ConnectResponseBuilder)
    BY LayoutsSound
  <2> HIDE DEF h
  <2>4. \A f \in DOMAIN ConnectResponseReader :
            /\ Get(m, ConnectResponseReader[f]) = h[f]
            /\ ConnectResponseReader[f].w = 0 => Child(m, ConnectResponseReader[f]) = h[f]
    BY <2>2, <2>3, FilledShows
  <2>. QED
    BY <2>1, <2>4 DEF h
<1>. QED
  BY <1>1, EntriesFaithful DEF EdgeReadsResponse

-----------------------------------------------------------------------------
(* The union and the inductive invariant.                                  *)

\* A ConnectResponse: one tag over its sixteen bits, one slot, and the
\* member they make, if the tag is one of this schema and the slot is set.
HoldsMember(m, l) ==
    /\ m = [data |-> m.data, ptr |-> m.ptr]
    /\ InBounds(m, ResultBuilder)
    /\ \E t \in {0, 1, Foreign} :
          /\ \A n \in 0 .. 15 : Bit(m, n) = t
          /\ DOMAIN l = {f \in {"error", "connection_details"} :
                            ResultReader[f].d = t /\ 0 \in DOMAIN m.ptr}
          /\ \A f \in DOMAIN l : l[f] = m.ptr[0]

Memory ==
    IF st = "connection_response" THEN HoldsMember(msg, last)
    ELSE Holds(msg, Structs[st].get, Structs[st].builder, last)

\* A message made by a conversion is that of its argument.
Converted ==
    \/ /\ st = "register_connection_params"
       /\ \E o \in RegisterArguments :
             given = [by |-> "register", o |-> o] /\ msg = BuildRegisterRequest(o)
    \/ /\ st = "connect_request"
       /\ \E r \in Streams :
             given = [by |-> "request", r |-> r] /\ msg = EdgeBuildsRequest(r)
    \/ /\ st = "connect_response"
       /\ \E r \in [error : {1, 2}, metadata : TextLists] :
             /\ given = [by |-> "response", r |-> r]
             /\ msg = WriteConnectResponse(r.error, r.metadata)

\* A call was dispatched as the tables say, with the params of its method.
Dispatched ==
    served = NoCall \/
        \E s \in DOMAIN Servers, i \in DOMAIN Clients : \E k \in DOMAIN Clients[i] :
            /\ Clients[i][k].params = st
            /\ served = [to |-> <<s, i, k>>,
                         reached |-> Dispatch(Servers[s], TypeId[i], Clients[i][k].number)]

WireInv ==
    /\ st \in DOMAIN Structs
    /\ sets \in 0 .. MaxSets
    /\ DOMAIN last \subseteq DOMAIN Structs[st].builder.set
    /\ (given = NoArgument /\ Memory) \/ Converted
    /\ Dispatched

-----------------------------------------------------------------------------

\* The places of the union.
LEMMA ResultFacts ==
    /\ DOMAIN ResultReader = {"error", "connection_details"}
    /\ ResultBuilder.set = ResultReader
    /\ ResultBuilder.data = 1 /\ ResultBuilder.pointers = 1
    /\ ResultReader["error"] = Member(0, 0)
    /\ ResultReader["connection_details"] = Member(0, 1)
    /\ ResultReader["error"].d = 0 /\ ResultReader["connection_details"].d = 1
    /\ \A f \in DOMAIN ResultReader :
          ResultReader[f].w = 0 /\ ResultReader[f].i = 0 /\ ~ResultReader[f].e
BY DEF ResultReader, ResultBuilder, Struct, Member, Place

\* The place of its tag.
LEMMA TagFacts ==
    /\ IsPlace(U16(0)) /\ U16(0).w # 0 /\ Bits(U16(0)) = 0 .. 15
    /\ U16(0).i = 0 /\ U16(0).w = 16
BY DEF U16, Place, Bits, IsPlace

\* What PutData does to the tag.
LEMMA PutTag ==
    ASSUME NEW m, m = [data |-> m.data, ptr |-> m.ptr], InBounds(m, ResultBuilder), NEW t,
           NEW n, n = PutData(m, U16(0), t)
    PROVE  /\ n = [data |-> n.data, ptr |-> m.ptr] /\ n.ptr = m.ptr
           /\ InBounds(n, ResultBuilder)
           /\ \A x \in 0 .. 15 : Bit(n, x) = t
<1>1. n = [data |-> Assign(m.data, 0 .. 15, t), ptr |-> m.ptr]
  BY TagFacts DEF PutData
<1>2. /\ n = [data |-> n.data, ptr |-> m.ptr] /\ n.ptr = m.ptr
      /\ n.data = Assign(m.data, 0 .. 15, t)
  BY <1>1
<1>3. 0 .. 15 \subseteq 0 .. 64 * ResultBuilder.data - 1
  BY ResultFacts
<1>. QED
  BY <1>2, <1>3 DEF InBounds, Assign, Bit

\* An empty message shows its defaults.
LEMMA WireInitInv == Init => WireInv
<1> SUFFICES ASSUME Init PROVE WireInv
  OBVIOUS
<1>1. DOMAIN <<>> = {}
  OBVIOUS
<1>2. Memory
  <2>1. CASE st = "connection_response"
    <3>1. /\ Blank = [data |-> Blank.data, ptr |-> Blank.ptr]
          /\ DOMAIN Blank.data = {} /\ DOMAIN Blank.ptr = {}
      BY <1>1 DEF Blank
    <3>2. HoldsMember(Blank, <<>>)
      BY <1>1, <3>1 DEF HoldsMember, InBounds, Bit
    <3>. QED
      BY <2>1, <3>2 DEF Init, Memory
  <2>2. CASE st # "connection_response"
    BY <2>2, StructsSound, BlankHolds DEF Init, Memory
  <2>. QED
    BY <2>1, <2>2
<1>. QED
  BY <1>1, <1>2, MaxSetsAssumption DEF Init, WireInv, Dispatched

\* A setter leaves the value it was given, in the union as elsewhere.
LEMMA SetKeepsMemory ==
    ASSUME WireInv, NEW f \in DOMAIN Structs[st].builder.set,
           NEW v \in Values(Structs[st].builder.set[f]), Set(f, v)
    PROVE  Memory' /\ DOMAIN last' \subseteq DOMAIN Structs[st].builder.set
<1> DEFINE get == Structs[st].get
           b == Structs[st].builder
<1>0. Memory /\ st' = st /\ msg' = Put(msg, b.set[f], v)
      /\ last' = Assign(IF b.set[f].d >= 0 THEN <<>> ELSE last, {f}, v)
      /\ st \in DOMAIN Structs /\ DOMAIN last \subseteq DOMAIN b.set
  BY DEF Set, Building, WireInv, Converted, NoArgument
<1>1. v \in Enumerants
  BY DEF Values, Enumerants
<1>2. CASE st = "connection_response"
  <2>1. get = ResultReader /\ b = ResultBuilder
    BY <1>2, UnionStruct
  <2>2. /\ f \in {"error", "connection_details"} /\ b.set[f].d \in {0, 1}
        /\ b.set[f].w = 0 /\ b.set[f].i = 0
    BY <2>1, ResultFacts
  <2>3. HoldsMember(msg, last)
    BY <1>0, <1>2 DEF Memory
  <2> DEFINE t == b.set[f].d
             n == PutData(msg, U16(0), t)
  <2>4. /\ n = [data |-> n.data, ptr |-> msg.ptr] /\ n.ptr = msg.ptr
        /\ InBounds(n, ResultBuilder)
        /\ \A x \in 0 .. 15 : Bit(n, x) = t
    BY <2>3, PutTag DEF HoldsMember
  <2>5. msg' = [n EXCEPT !.ptr = Assign(@, {0}, v)]
    BY <1>0, <2>2 DEF Put
  <2> HIDE DEF n
  <2>6. /\ msg' = [data |-> msg'.data, ptr |-> msg'.ptr] /\ msg'.data = n.data
        /\ DOMAIN msg'.ptr = DOMAIN msg.ptr \cup {0} /\ msg'.ptr[0] = v
    BY <2>4, <2>5 DEF Assign
  <2>7. /\ InBounds(msg', ResultBuilder)
        /\ \A x \in 0 .. 15 : Bit(msg', x) = t
    BY <2>4, <2>6, ResultFacts DEF InBounds, Bit
  <2>8. DOMAIN last' = {f} /\ last'[f] = v
    BY <1>0, <2>2 DEF Assign
  <2>9. DOMAIN last' = {g \in {"error", "connection_details"} :
                            ResultReader[g].d = t /\ 0 \in DOMAIN msg'.ptr}
    BY <2>1, <2>2, <2>6, <2>8, ResultFacts
  <2>10. HoldsMember(msg', last')
    BY <2>2, <2>6, <2>7, <2>8, <2>9 DEF HoldsMember
  <2>. QED
    BY <1>0, <1>2, <2>8, <2>10 DEF Memory
<1>3. CASE st # "connection_response"
  <2>1. Sound(get, b) /\ Holds(msg, get, b, last)
    BY <1>0, <1>3, StructsSound DEF Memory
  <2>2. f \in DOMAIN get /\ get[f] = b.set[f] /\ ~(b.set[f].d >= 0)
    BY <2>1 DEF Sound, IsPlace
  <2>3. v \in Fillable(get[f]) /\ Input(get[f], v) = v
    BY <1>1 DEF Fillable, Input, Raw, Enumerants, NotInSchema
  <2>4. msg' = SetField(msg, b, f, Input(get[f], v)) /\ last' = Assign(last, {f}, v)
    BY <1>0, <2>2, <2>3 DEF SetField
  <2>5. Holds(msg', get, b, last')
    BY <2>1, <2>2, <2>3, <2>4, SetterHolds
  <2>6. DOMAIN last' = DOMAIN last \cup {f}
    BY <2>4 DEF Assign
  <2>. QED
    BY <1>0, <1>3, <2>5, <2>6 DEF Memory
<1>. QED
  BY <1>2, <1>3

\* init_result clears the tag and the slot.
LEMMA ResetKeepsMemory ==
    ASSUME WireInv, ResetResult
    PROVE  Memory' /\ DOMAIN last' \subseteq DOMAIN Structs[st].builder.set
<1> DEFINE n == PutData(msg, U16(0), 0)
<1>1. /\ st = "connection_response" /\ st' = st /\ HoldsMember(msg, last)
      /\ msg' = [n EXCEPT !.ptr = <<>>] /\ last' = <<>>
  BY DEF ResetResult, Building, InitResult, WireInv, Memory, Converted, NoArgument
<1>2. /\ n = [data |-> n.data, ptr |-> msg.ptr]
      /\ InBounds(n, ResultBuilder)
      /\ \A x \in 0 .. 15 : Bit(n, x) = 0
  BY <1>1, PutTag DEF HoldsMember
<1> HIDE DEF n
<1>3. DOMAIN <<>> = {}
  OBVIOUS
<1>4. /\ msg' = [data |-> msg'.data, ptr |-> msg'.ptr] /\ msg'.data = n.data
      /\ DOMAIN msg'.ptr = {}
  BY <1>1, <1>2, <1>3
<1>5. InBounds(msg', ResultBuilder) /\ \A x \in 0 .. 15 : Bit(msg', x) = 0
  BY <1>2, <1>4 DEF InBounds, Bit
<1>6. HoldsMember(msg', last')
  BY <1>1, <1>3, <1>4, <1>5 DEF HoldsMember
<1>. QED
  BY <1>1, <1>3, <1>6 DEF Memory

\* A tag or enumerant of a newer schema is none of this one.
LEMMA ForeignKeepsMemory ==
    ASSUME WireInv, SetForeign
    PROVE  Memory' /\ DOMAIN last' \subseteq DOMAIN Structs[st].builder.set
<1> DEFINE n == PutData(msg, U16(0), Foreign)
<1>1. /\ st' = st /\ msg' = n /\ Memory /\ DOMAIN last \subseteq DOMAIN Structs[st].builder.set
      /\ st \in {"connection_response", "connect_request"} /\ st \in DOMAIN Structs
      /\ last' = IF st = "connect_request" THEN Assign(last, {"type"}, NotInSchema)
                 ELSE <<>>
  BY DEF SetForeign, Building, WireInv, Converted, NoArgument
<1>2. CASE st = "connection_response"
  <2>1. HoldsMember(msg, last) /\ last' = <<>> /\ DOMAIN <<>> = {}
    BY <1>1, <1>2 DEF Memory
  <2>2. /\ n = [data |-> n.data, ptr |-> n.ptr]
        /\ InBounds(n, ResultBuilder)
        /\ \A x \in 0 .. 15 : Bit(n, x) = Foreign
    BY <2>1, PutTag DEF HoldsMember
  <2>3. \A f \in {"error", "connection_details"} : ResultReader[f].d # Foreign
    BY ResultFacts DEF Foreign
  <2>4. HoldsMember(msg', last')
    BY <1>1, <2>1, <2>2, <2>3 DEF HoldsMember
  <2>. QED
    BY <1>1, <1>2, <2>1, <2>4 DEF Memory
<1>3. CASE st = "connect_request"
  <2> DEFINE R == ConnectRequestReader
             B == ConnectRequestBuilder
  <2>1. Structs[st].get = R /\ Structs[st].builder = B
    BY <1>3 DEF Structs, QuicMetadataStructs, Accessors
  <2>2. Sound(R, B) /\ Holds(msg, R, B, last) /\ last' = Assign(last, {"type"}, NotInSchema)
    BY <1>1, <1>3, <2>1, LayoutsSound DEF Memory
  <2>3. /\ "type" \in DOMAIN R /\ R["type"].w = 16 /\ R["type"].i = 0 /\ R["type"].e
        /\ IsPlace(R["type"])
    BY DEF ConnectRequestReader, Enum, Place, IsPlace
  <2>4. Bits(R["type"]) = Bits(U16(0))
    BY <2>3, TagFacts DEF Bits
  <2>5. msg = [data |-> msg.data, ptr |-> msg.ptr] /\ R = B.set
    BY <2>2 DEF Holds, Sound
  <2>6. SetField(msg, B, "type", Foreign) = n
    <3>1. Put(msg, R["type"], Foreign)
            = [data |-> Assign(msg.data, Bits(R["type"]), Foreign), ptr |-> msg.ptr]
      BY <2>3, <2>5, PutWord
    <3>2. n = [data |-> Assign(msg.data, Bits(U16(0)), Foreign), ptr |-> msg.ptr]
      BY <2>5 DEF PutData
    <3>. QED
      BY <2>4, <2>5, <3>1, <3>2 DEF SetField
  <2>7. /\ Input(R["type"], NotInSchema) = Foreign
        /\ NotInSchema \in Fillable(R["type"])
    BY <2>3 DEF Input, Raw, Fillable
  <2>8. DOMAIN last' \subseteq DOMAIN B.set
    BY <1>1, <2>1, <2>2, <2>3, <2>5 DEF Assign
  <2> HIDE DEF R, B, n
  <2>9. Holds(n, R, B, last')
    BY <2>2, <2>3, <2>6, <2>7, SetterHolds
  <2>. QED
    BY <1>1, <1>3, <2>1, <2>8, <2>9 DEF Memory
<1>. QED
  BY <1>1, <1>2, <1>3

\* No step makes a message that is not its setters' or its argument's.
LEMMA WireInvStep == WireInv /\ [Next]_vars => WireInv'
<1> SUFFICES ASSUME WireInv, [Next]_vars PROVE WireInv'
  OBVIOUS
<1>1. ASSUME Building, sets' = sets + 1, UNCHANGED <<st, given, served>>,
             Memory', DOMAIN last' \subseteq DOMAIN Structs[st].builder.set
      PROVE  WireInv'
  BY <1>1, MaxSetsAssumption DEF WireInv, Building, Dispatched
<1>2. ASSUME NEW f \in DOMAIN Structs[st].builder.set,
             NEW v \in Values(Structs[st].builder.set[f]), Set(f, v)
      PROVE  WireInv'
  BY <1>1, <1>2, SetKeepsMemory DEF Set
<1>3. CASE ResetResult
  BY <1>1, <1>3, ResetKeepsMemory DEF ResetResult
<1>4. CASE SetForeign
  BY <1>1, <1>4, ForeignKeepsMemory DEF SetForeign
<1>5. ASSUME NEW s \in DOMAIN Servers, NEW i \in DOMAIN Clients,
             NEW k \in DOMAIN Clients[i], Call(s, i, k)
      PROVE  WireInv'
  <2>1. Dispatched'
    BY <1>5 DEF Call, Dispatched
  <2>. QED
    BY <1>5, <2>1 DEF Call, WireInv, Memory, Converted
<1>6. ASSUME NEW o \in RegisterArguments, Register(o) PROVE WireInv'
  <2>1. Converted' /\ UNCHANGED <<st, sets, last, served>>
    BY <1>6 DEF Register, Converted
  <2>. QED
    BY <2>1 DEF WireInv, Dispatched
<1>7. ASSUME NEW r \in Streams, OpenStream(r) PROVE WireInv'
  <2>1. Converted' /\ UNCHANGED <<st, sets, last, served>>
    BY <1>7 DEF OpenStream, Converted
  <2>. QED
    BY <2>1 DEF WireInv, Dispatched
<1>8. ASSUME NEW r \in [error : {1, 2}, metadata : TextLists], Respond(r) PROVE WireInv'
  <2>1. Converted' /\ UNCHANGED <<st, sets, last, served>>
    BY <1>8 DEF Respond, Converted
  <2>. QED
    BY <2>1 DEF WireInv, Dispatched
<1>9. CASE UNCHANGED vars
  BY <1>9 DEF vars, WireInv, Memory, Converted, Dispatched
<1>. QED
  BY <1>2, <1>3, <1>4, <1>5, <1>6, <1>7, <1>8, <1>9 DEF Next, Streams

\* The inductive invariant holds in every reachable state.
THEOREM WireInvariance == Spec => []WireInv
BY WireInitInv, WireInvStep, PTL DEF Spec

-----------------------------------------------------------------------------

\* What a message of setters shows: the last value of each field.
LEMMA MemoryShows ==
    ASSUME WireInv, given = NoArgument, NEW f \in DOMAIN Structs[st].get
    PROVE  Get(msg, Structs[st].get[f]) = IF f \in DOMAIN last THEN last[f] ELSE Null
<1>1. Memory /\ st \in DOMAIN Structs
  BY DEF WireInv, Converted, NoArgument
<1>2. CASE st = "connection_response"
  <2>1. Structs[st].get = ResultReader /\ HoldsMember(msg, last)
    BY <1>1, <1>2, UnionStruct DEF Memory
  <2>2. PICK t \in {0, 1, Foreign} :
          /\ \A n \in 0 .. 15 : Bit(msg, n) = t
          /\ DOMAIN last = {g \in {"error", "connection_details"} :
                               ResultReader[g].d = t /\ 0 \in DOMAIN msg.ptr}
          /\ \A g \in DOMAIN last : last[g] = msg.ptr[0]
    BY <2>1 DEF HoldsMember
  <2>3. GetData(msg, U16(0)) = t
    BY <2>2, TagFacts, GetDataFacts
  <2>4. /\ f \in {"error", "connection_details"} /\ ResultReader[f].d \in {0, 1}
        /\ ResultReader[f].w = 0 /\ ResultReader[f].i = 0
    BY <2>1, ResultFacts
  <2>5. Get(msg, ResultReader[f])
           = IF t = ResultReader[f].d /\ 0 \in DOMAIN msg.ptr THEN msg.ptr[0] ELSE Null
    BY <2>3, <2>4 DEF Get, Has
  <2>. QED
    BY <2>1, <2>2, <2>4, <2>5
<1>3. CASE st # "connection_response"
  BY <1>1, <1>3, StructsSound, GetShows DEF Memory, Shown
<1>. QED
  BY <1>2, <1>3

\* A getter returns what its own setter was last given, in every struct of
\* the schemas, after any number of setter calls.
THEOREM SettersAreRead == Spec => []ReadsLastWritten
<1>1. WireInv => ReadsLastWritten
  BY MemoryShows DEF ReadsLastWritten
<1>. QED
  BY <1>1, WireInvariance, PTL

\* decode_connection_response accepts the details with a proper uuid, when
\* they were the last member set, and nothing else.
THEOREM AcceptedIsDetails == Spec => []AcceptedMeansDetails
<1>1. WireInv => AcceptedMeansDetails
  <2> SUFFICES ASSUME WireInv, given = NoArgument, st = "connection_response"
               PROVE  DecodeConnectionResponse(msg) = "ok" <=>
                         ("connection_details" \in DOMAIN last
                            /\ last["connection_details"] = 1)
    BY DEF AcceptedMeansDetails
  <2>1. Structs[st].get = ResultReader
    BY UnionStruct
  <2>2. Get(msg, ResultReader["connection_details"]) =
            IF "connection_details" \in DOMAIN last THEN last["connection_details"] ELSE Null
    BY <2>1, MemoryShows, ResultFacts
  <2>3. HoldsMember(msg, last)
    BY DEF WireInv, Converted, NoArgument, Memory
  <2>4. PICK t \in {0, 1, Foreign} :
          /\ \A n \in 0 .. 15 : Bit(msg, n) = t
          /\ DOMAIN last = {g \in {"error", "connection_details"} :
                               ResultReader[g].d = t /\ 0 \in DOMAIN msg.ptr}
    BY <2>3 DEF HoldsMember
  <2>5. GetData(msg, U16(0)) = t
    BY <2>4, TagFacts, GetDataFacts
  <2>6. DecodeConnectionResponse(msg) =
            IF t = 1 /\ Get(msg, ResultReader["connection_details"]) = 1 THEN "ok" ELSE "err"
    BY <2>5, ResultFacts DEF DecodeConnectionResponse, ConnectionResponseResult
  <2>7. "connection_details" \in DOMAIN last => t = 1
    BY <2>4, ResultFacts
  <2>. QED
    BY <2>2, <2>6, <2>7 DEF Null
<1>. QED
  BY <1>1, WireInvariance, PTL

\* A call ends in the method it names, on every server that answers for the
\* interface, and as the params struct it was written as; any other server
\* refuses it.
THEOREM CallsReachTheirMethod == Spec => []CallsReachNamesake
<1>1. WireInv => CallsReachNamesake
  <2> SUFFICES ASSUME WireInv, NEW s \in DOMAIN Servers, NEW i \in DOMAIN Clients,
                      NEW k \in DOMAIN Clients[i], served.to = <<s, i, k>>
               PROVE  served.reached = IF Answers(s, i) THEN [name |-> k, params |-> st]
                                       ELSE Unimplemented
    BY DEF CallsReachNamesake, Answers
  <2>1. served # NoCall
    BY DEF NoCall
  <2>2. PICK s1 \in DOMAIN Servers, i1 \in DOMAIN Clients : \E k1 \in DOMAIN Clients[i1] :
            /\ Clients[i1][k1].params = st
            /\ served = [to |-> <<s1, i1, k1>>,
                         reached |-> Dispatch(Servers[s1], TypeId[i1], Clients[i1][k1].number)]
    BY <2>1 DEF WireInv, Dispatched
  <2>3. PICK k1 \in DOMAIN Clients[i1] :
            /\ Clients[i1][k1].params = st
            /\ served = [to |-> <<s1, i1, k1>>,
                         reached |-> Dispatch(Servers[s1], TypeId[i1], Clients[i1][k1].number)]
    BY <2>2
  <2>4. s1 = s /\ i1 = i /\ k1 = k
    BY <2>3
  <2>. QED
    BY <2>3, <2>4, DispatchFacts
<1>. QED
  BY <1>1, WireInvariance, PTL

\* What one side converts into a message the other side reads back.
THEOREM ConversionsAreFaithful == Spec => []ConversionsFaithful
<1>1. WireInv => ConversionsFaithful
  <2> SUFFICES ASSUME WireInv PROVE ConversionsFaithful
    OBVIOUS
  <2>1. CASE given = NoArgument
    BY <2>1 DEF ConversionsFaithful, NoArgument
  <2>2. ASSUME NEW o \in RegisterArguments,
               given = [by |-> "register", o |-> o], msg = BuildRegisterRequest(o)
        PROVE  ConversionsFaithful
    BY <2>2, RegisterFaithful DEF ConversionsFaithful
  <2>3. ASSUME NEW r \in Streams,
               given = [by |-> "request", r |-> r], msg = EdgeBuildsRequest(r)
        PROVE  ConversionsFaithful
    BY <2>3, StreamFaithful DEF ConversionsFaithful, Plain
  <2>4. ASSUME NEW r \in [error : {1, 2}, metadata : TextLists],
               given = [by |-> "response", r |-> r],
               msg = WriteConnectResponse(r.error, r.metadata)
        PROVE  ConversionsFaithful
    <3>1. r = [error |-> r.error, metadata |-> r.metadata]
      OBVIOUS
    <3>2. EdgeReadsResponse(msg) = [r EXCEPT !.metadata = Plain(@)]
      BY <2>4, <3>1, ResponseFaithful
    <3>. QED
      BY <2>4, <3>2 DEF ConversionsFaithful, Plain
  <2>. QED
    BY <2>1, <2>2, <2>3, <2>4 DEF WireInv, Converted
<1>. QED
  BY <1>1, WireInvariance, PTL

\* Every variable has its type; above all, nothing is written outside the
\* sections that STRUCT_SIZE allocates.
THEOREM WireTypeCorrect == Spec => []TypeOK
<1>1. WireInv => TypeOK
  <2> SUFFICES ASSUME WireInv PROVE TypeOK
    OBVIOUS
  <2>1. given.by \in {"setters", "register", "request", "response"}
    BY DEF WireInv, Converted, NoArgument
  <2>2. InBounds(msg, Structs[st].builder)
    <3>1. CASE given = NoArgument
      <4>1. Memory
        BY <3>1 DEF WireInv, Converted, NoArgument
      <4>. QED
        BY <4>1, UnionStruct DEF Memory, HoldsMember, Holds
    <3>2. ASSUME NEW o \in RegisterArguments, st = "register_connection_params",
                 msg = BuildRegisterRequest(o)
          PROVE  InBounds(msg, Structs[st].builder)
      <4>1. o.conn_index \in Enumerants
        BY DEF RegisterArguments, Enumerants
      <4>2. Structs[st].builder = RegisterConnectionParamsBuilder
        BY <3>2 DEF Structs, TunnelRpcStructs, QuicMetadataStructs, Accessors
      <4>. QED
        BY <3>2, <4>1, <4>2, RequestHolds DEF Holds
    <3>3. ASSUME NEW r \in Streams, st = "connect_request", msg = EdgeBuildsRequest(r)
          PROVE  InBounds(msg, Structs[st].builder)
      <4>1. r.type \in Enumerants \cup {Foreign}
        BY DEF Streams, Enumerants
      <4>2. Structs[st].builder = ConnectRequestBuilder
        BY <3>3 DEF Structs, QuicMetadataStructs, Accessors
      <4>. QED
        BY <3>3, <4>1, <4>2, StreamHolds DEF Holds
    <3>4. ASSUME NEW r, st = "connect_response",
                 msg = WriteConnectResponse(r.error, r.metadata)
          PROVE  InBounds(msg, Structs[st].builder)
      <4>1. Structs[st].builder = ConnectResponseBuilder
        BY <3>4 DEF Structs, QuicMetadataStructs, Accessors
      <4>. QED
        BY <3>4, <4>1, ResponseHolds DEF Holds
    <3>. QED
      BY <3>1, <3>2, <3>3, <3>4 DEF WireInv, Converted
  <2>. QED
    BY <2>1, <2>2 DEF WireInv, TypeOK
<1>. QED
  BY <1>1, WireInvariance, PTL

=============================================================================
