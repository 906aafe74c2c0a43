# Verification of cloudflare-quick-tunnel

TLA+ modules, TLC runs and TLAPS proofs kept beside the crate
`cloudflare-quick-tunnel`, a client that opens a Cloudflare quick tunnel: it
asks for a hostname, registers one or more QUIC connections with Cloudflare's
edge, and proxies the requests that come back to a local port. `PROJECT.json`
maps every definition to the lines it models and lists runs, seeded faults,
hazards, findings and theorems. Source paths below are relative to the crate.

## The system

| part | state it keeps | operations | talks to |
|---|---|---|---|
| `src/api.rs` | none (a retry counter per call) | `request_tunnel` | HTTPS service; called by `start` |
| `src/edge.rs` | `EdgeRegistry`: one cached answer with expiry (unused by the manager) | `discover`, `get_or_refresh` | DNS; called by `connect_cycle` |
| `src/quic_dial.rs` | none | `dial`, `dial_any`, `build_endpoint` | quinn; called by `connect_cycle` |
| `src/rpc.rs` | per connection: a driver thread with the capnp-RPC system, three oneshot channels, the `ControlSession` | `register_connection`, `shutdown_graceful`, drop | the edge's registration server; owned by a reactor |
| `src/supervisor.rs` | metrics; the accept loop of one connection | `run` | spawns one proxy task per inbound stream |
| `src/manager.rs` | per HA leg a reactor task; one `Notify`; the handle with the join handles; `reconnects` | `start`, `connect_cycle`, `reactor_loop`, `reactor_loop_after_failure`, `shutdown_with`, drop | everything above |
| `src/pool.rs` | a mutex around a vector of idle sockets with release times | `acquire`, `release` | the local origin; shared by all proxy tasks |
| `src/stream.rs` | none | `read_connect_request`, `write_connect_response` | the edge, per stream; called by the proxy |
| `src/proxy.rs` | per stream: request and response shape, counters of its pumps | `handle_inbound_stream` and its paths | pool, origin, edge |
| `src/proto_gen/*` | the memory of one message | generated Readers, Builders, Clients and ServerDispatch | `rpc.rs`, `stream.rs`, the edge |

What is hard in this code is not in any single function. A session has three
concurrent parties (the reactor that awaits or owns it, the driver thread, the
edge), and each may let go first: the reply can race the RPC timeout, the
timeout of `start`, a reset of the control stream or the loss of the
connection. A leg listens for the shutdown signal in only two places of its
loop. The edge's table outlives the client's connections, so the reconnect
protocol (`replace_existing`) depends on history. Pooled sockets age on two
clocks, the pool's and the origin's, and carry whatever one stream left on them
to the next. A stream that is not pooled has four parties that may each wait
for another one to end. Two refreshes of a cache race between its two locks.

What makes each part correct:

* session: a thread never outlives its owner's interest, a session always means
  an accepted registration, the edge ends up forgetting what was let go;
* manager: one session per leg, nothing left by failed starts and reconnects,
  the attempt budget, the replace flag, a heard signal is final, shutdown
  returns and returns only when everything is done;
* pool: exclusive sockets, bounded, ordered by release, nothing fresh wasted;
* proxy: a stream is shown its own response and no other, in order; a pooled
  socket has nothing left on it; every stream ends for which the far ends do
  their part; what ends cleanly is whole;
* API client, edge cache and dial: the retries go to server and network errors
  only, and an outage gets all of them, a cached answer fits its filter and expires, a reachable edge
  is reached;
* messages: what one side sets the other side gets, a call arrives at the
  method it was meant for, and nothing unknown passes for a registration.

## Modules

**`ControlSession`** models `rpc.rs`. A connection is a pair of its
`conn_index` and the number of the dial that made it. `caller` is the code that
awaits, owns or has let go of the session; `driver` is the thread; `cmd` and
`result` are the oneshot channels `shutdown_tx` and `done_tx` (`cmd = "closed"`
and `result = "dropped"` are senders dropped without a message, which their
receivers notice at once); `regCall` and `unregCall` follow the
two RPCs from the client's queue over the wire; `link` is the connection and
its control stream; `registered` is the edge's table. The owner's actions
(`RegisterBegin` to `ShutdownReturn`) are the exits of `register_connection`
and the two ends of a `ControlSession`. The driver's actions are the arms of its biased
select: a command hides the end of the RPC system (`cmd[c] = "empty"` in
`DriverRpcEnded`), while a reply can only be read by polling that same system.
A loop that is left before the call has completed drops `done_tx`
(`DropsSender`), and so does a thread that cannot build its runtime
(`DriverFailsToStart`). `DriverFlush` is the part of that poll that writes queued messages, which is why it is
possible in the loop only. A reply is reduced to `ok`, `malformed` or `refused`, the
three outcomes of `decode_connection_response`. The edge is external: it keeps
one connection per `conn_index`, refuses a duplicate unless asked to replace,
may refuse for any other reason, may answer late or never, and drops a
connection whose control stream has ended. The module leaves the owner open.

**`Tunnel`** extends it with `manager.rs` and `supervisor.rs`. `pc` says where
the task of a leg is, `phase` which of the four callers of `connect_cycle` it
is in (`start`, the first cycle of an HA task, `reactor_loop_after_failure`,
`reactor_loop`), which decides the replace flag, what an error leads to and whether a
success counts as a reconnect. The two reconnect loops have the same shape and
share the actions `NextAttempt`, `BackoffElapses` and `BackoffShutdown`. `notified[i]` is
whether the current `Notified` future of a leg has been completed;
`NotifyWaiters` reaches only the legs that hold one. `handle` runs from the
POST in `start` to the end of the handle. `StartTimeout` also stands for a
caller that drops the future of `start`, `DropHandle` for one that drops the future of
`shutdown_with`. `fails` is a history variable. The supervisor's own shutdown
arm has no action: the reactor's `select!` drops the supervisor, and the
receiver of its channel, before the handler sends on that channel. A connection is
closed implicitly once the reactor, the driver and the proxied streams have let
go of it.

**`Pool`** models `pool.rs`: entries carry their age instead of a time stamp,
since the code reads it only through `elapsed()`, and ages past the TTL are not
told apart, so time is unbounded in a finite model. Each operation is one step
(the mutex is held over a section without an await); the connect of a miss
happens outside. Beside it run the origin's keep-alive timers. `MCPool` adds
the symmetry over tasks and sockets.

**`Exchange`** is the abstract specification of the pooled proxy: per stream a
response that the origin may extend, what has been shown of it, and an outcome.
What is shown is always a prefix of the stream's own response; only the end
called complete implies that all of it has been shown. It knows no sockets.

**`Proxy`** extends `Pool` with `run_pooled` and what leads to it
(`handle_inbound_stream`, `proxy_http`). `phase` is the place of a stream's
task, `request` what `analyse_request` kept, `want` the counter of the `pump_n`
loop it is in; `unread`, `owed` and `sent` are the origin's side of each socket
and `got` what the edge has been given. A read takes the head with any pieces
that have arrived behind it, so that the leftover and `saturating_sub` are
there; all of the leftover is written, as in the code. The origin conforms to
HTTP/1.1 but is free in everything the proxy may meet: bodies that are absent
although announced (HEAD), unframed or chunked bodies, answers before the end
of the upload, failures in the middle, closing with or without notice. It never
sends more than it declares; the proxy would pass such bytes on. `Proxy`
implements `Exchange` (instance `X`: an empty shown sequence and an outcome
once the task has ended). It calls the pool's operations and never touches its
variables otherwise, so the pool's invariants hold under it.
`AnalyseRequest` and `AnalyseResponse` take headers as tokens, the name and
what the value contains.

**`Duplex`** is a stream beside the pool: the frame (`read_connect_request`),
the local connection, then `run_bidi` or `proxy_tcp`. Bytes are counted in
pieces; three make the frame. `half` holds the two futures of the join, `sink` what each
far end has been told of the end of its half. `patient` far ends end
their half only after they have seen the end of the other one: whether the
system can stop then depends on who passes an end on, which only `run_bidi`
does, and only towards the local service.

**`Connect`** is the way to a connection: `request_tunnel` (`api`, with the
sleeps it has taken and the next one), then for each caller a connect cycle or a registry call. `TryOnce` gives the error
variant of a reply, `IsTransient` decides on a retry. `discover` is `Resolve`,
`SystemFails`, `DotFails`; `get_or_refresh` is a look under the read lock
(`CacheHit`, `CacheMiss`) and a write under the write lock (`Store`), with the
lookup between them. `Resolved` cuts the answer in any order the resolver may
give it; `Dials` knows that the endpoint is bound to IPv4. `lag` and the
entry's `age` measure how old an answer is.

**`Layout`**, **`TunnelRpc`**, **`QuicMetadata`**, **`Wire`** model the
messages. A place (`Layout`) is a width, an index, and possibly a union tag; a
value fills every bit of its place, so overlapping fields disturb each other.
`TunnelRpc` and `QuicMetadata` list, for every struct with fields, where its
Reader looks and where its Builder writes, separately, from the getters and the
setters of the generated code, and the size that the struct is allocated with;
for every interface what its Client sends and what its dispatch makes of it.
The lines of a `...Builder` run from `STRUCT_SIZE` over the trait
implementations that allocate with it to the last setter. `Wire` fills in a
message by any setters, makes any call, or runs one of the hand-written
conversions (`build_register_request`, `decode_connection_response`,
`read_connect_request`, `write_connect_response`) against the accessors of the
other side, which may be newer than the schema.

**`ControlSessionProofs`**, **`TunnelProofs`**, **`TunnelHistoryProofs`**,
**`PoolProofs`**, **`ProxyProofs`**, **`DuplexProofs`**, **`ConnectProofs`** and
**`WireProofs`** hold the theorems.

The definitions marked as seeded faults are plausible slips in the definition
that follows them; each property is shown to fail when one of them takes that
definition's place.

## Runs

| run | configuration | shows |
|---|---|---|
| `tunnel_leg` | 1 leg, 3 connections, 2 attempts, 1 stream | ownership, no orphan thread, replace flag, budget, metric, serving means registered |
| `tunnel_liveness` | 1 leg, 2 connections, 2 attempts, 1 stream, fair | a heard signal is final and stops the leg; a lost leg settles; a gone leg leaves nothing, and the edge forgets what was let go |
| `tunnel_ha` | 2 legs, 1 connection, 1 attempt, fair | shutdown returns only when all is done, and does if it was heard; flag, budget and metric of a leg whose first registration failed (`reactor_loop_after_failure`) |
| `pool` | 3 tasks, 5 sockets, pool of 2, TTL 1, keep-alive 3 | bounded, nothing fresh wasted |
| `proxy` | 2 streams, 2 sockets, pool of 1, TTL 1, keep-alive 1, body of 2, fair | refinement of `Exchange`; pooled sockets are quiet; streams end if the origin closes idle sockets |
| `duplex` | both modes, 2 pieces each way, fair | a clean end is whole; ends are passed on; nothing is held for far ends that are gone; only the edge has to end by itself |
| `connect` | 2 callers, 3 edges (1 up, 1 IPv6), 2 dialled, 3 retries, TTL 2, lag 1, fair | retry policy, cache under racing refreshes, the walk over the edges, every call returns |
| `wire` | all structs, 3 setters, all calls, all small arguments | accessors agree, calls arrive, unknown tags are refused, conversions are faithful |

Four further runs each state what a comment or document of the repository says
and find a behaviour of the code that does otherwise:

| run | the statement | what happens |
|---|---|---|
| `signal_missed` | the signal goes "to every HA reactor at once", "then await them all", or "wind down on their own" | a leg that is between its selects misses `notify_waiters`; `shutdown()` waits for it for ever, and after a drop of the handle it serves for as long as the process lives |
| `unregister_sent` | "Send `unregisterConnection` and wait up to `grace`" | nobody polls the RPC system during the wait: the call stays queued, the wait lasts the whole grace period |
| `control_loss` | "Reactor reconnect ... handles edge-side drops" | the end of the control stream alone goes unnoticed; the leg stays up and unregistered |
| `stream_completes` | "Drive one inbound request stream to completion" | a complete response that the proxy cannot bound (chunked, no length, HEAD) is drained until an end that a kept-alive origin does not send |

Smaller disagreements met while modelling, each plain from the lines named and
without a run of its own:

* `manager.rs:37` says ten attempts span "roughly 90s"; the sleeps of `backoff`
  alone add up to 1+2+4+8+16+5*30 = 181 s.
* `pool.rs:5` and `pool.rs:55` say that entries past the TTL are reaped on
  acquire; a hit on the newest entry leaves older ones in the vector.
  `pool.rs:6` says that no connection the origin has closed is handed back; the
  TTL starts at the release, which a slow edge delays beyond the origin's last
  write, and the socket is not looked at.
* `api.rs:59` says 5xx and network errors are retried. A 5xx with a JSON body is
  not, nor is an error while the body is read (`api.rs:110`); the last arm of
  `is_transient` asks for the status of an error, which none has because
  `error_for_status` is never called.
* `manager.rs:323`, `supervisor.rs:9` and `docs/status.md:41` say that the
  shutdown closes the QUIC connection. The supervisor is dropped before it can
  be told, so `conn.close` is never called, and requests still relayed keep the
  connection up after `shutdown()` has returned.
* `edge.rs:8` describes a cached, shuffled list; `connect_cycle`
  (`manager.rs:287`) calls `discover` and walks the resolver's order.
* `stream.rs:160` says `error` is set when the local upstream refused;
  `proxy_tcp` and a failed response head answer nothing.
* `proxy.rs:14` lets a stream run until either half closes; both are joined.
* An end of a half that was reset looks clean to the other far end.
* Proxy tasks are detached (`supervisor.rs:93`): `shutdown()` does not wait for
  the requests in flight although `manager.rs:92` says "drain".
* IPv6 edges count among the five that are dialled (`manager.rs:288`), over an
  endpoint bound to `0.0.0.0` that cannot reach them (`quic_dial.rs:106`).

**Bounds.** `MaxDials` bounds successful dials of a leg. Two connections let the edge meet
a stale registration of the same leg; three add a reconnect that was abandoned
and one that succeeds after it, the case where the late one can displace the
newer. Two attempts tell "one more" from "gave up" and from the first. The legs
share only the handle, the signal and the metrics, so one leg is run deep and two wide.
`MaxStreams = 1` is enough to keep a connection alive past its reactor. A pool
of two with three tasks overflows, and holds a fresh entry over a stale one.
Two streams are enough to hand a socket on with something left on it, and two
pieces of body to have one read with the head and one after it; a pool of one
also overflows. Two pieces each way fill a pump more than once. Three edges,
two dialled, put a dead one, a live one and an IPv6 one in every order, cut or
not; two callers are a race. Three setters reach every pair of fields and a
third that disturbs or restores them.
A leg whose `MaxDials` are used up can only fail to dial, as it could anyway.

**Deadlock.** The runs of `Duplex`, `Connect` and `Wire` say `CHECK_DEADLOCK
FALSE` because a stream ends (or waits for a far end that waits itself), a
failed POST ends everything, and a message is read once. The tunnel runs say `CHECK_DEADLOCK FALSE` because the system really ends:
when `start` has failed, or the legs are done and their threads and streams are gone. The
pool and the proxy never stop (time goes on) and are checked for deadlock.

**Fairness.** Weak fairness is assumed of each leg's task (tokio runs a woken
task, timers fire, and every await inside `connect_cycle` but `open_bi` has a
timeout), of the join in `shutdown_with`, of each driver thread (the OS runs
it) and of the edge noticing the end of a control stream. Nothing is assumed of the
edge's answers, of losses, of proxied streams ending, or of the user calling
`shutdown`. In `Tunnel`, `open_bi` finishes with the dial; see the hazards.
`Proxy` assumes that a stream's task runs, that the edge delivers the request
it announced and that the origin answers; `PooledStreamEnds` also that the
origin closes idle sockets, `StreamCompletes` does not. `Duplex` assumes that
the task polls its futures and that a far end which may end its half does.
`Connect` assumes that requests, lookups and handshakes are answered or time
out (15 s, the resolver's limits, 10 s) and that the control stream opens.
`Wire` has no fairness: its properties are about what a message holds.

`ServingLegIsRegistered` has one exception, which names the edge's answer: a
re-registration that asked to replace, that the leg had given up on, and that
the edge accepted all the same. TLC finds it (the edge then replaces the leg's
newer connection), and nothing in the code orders the two requests at the edge.
A re-registration that was refused, lost or never sent excuses nothing.

`RetriesWellSpent` measures the retries by what the server did, not by
`is_transient`: only errors and 5xx may be retried, and an outage (the server
was not reached in time, or a 5xx came without JSON, which `api.rs:112` says
must be retried) is returned only after the last retry. It is silent on the rest
of what `api.rs:59` promises, because that does not hold.

## Proofs

All theorems hold for every number of legs, dials, attempts, streams, tasks,
sockets, pieces, callers and setter calls, from the named assumptions on the
constants (naturals; at least one leg; `NoSocket` is not a socket; finitely many
edges). The layouts, the dispatch tables, the arguments of the conversions and
`MAX_RETRIES` are what the code has, not parameters.

* `ControlSessionProofs`: the invariant adds, to the types and the two
  properties, what links them: a result `ok` means an accepted and decoded
  call, a caller that still waits has sent no command, and a driver past its
  call has answered a caller that waits or has dropped its sender.
* `TunnelProofs`: `TunnelInv` joins type correctness with the shape of each
  leg (which phase goes with which place, how the attempt counter and the count
  of failures run together), of `start` (only leg 0 runs before the handle is live),
  of the join (the reactors before `joinAt` are finished), of the streams, and
  with `LegOwnsItsSession`. Ownership alone is not inductive: that a
  dial meets a connection nobody used needs the dial counter, the failure count needs the
  attempt counter, and `ClosedMeansFinished` needs the join's prefix. One lemma per
  action. The lemma `TunnelImplementsSession` (each step is one of the
  sessions' or leaves them alone) carries the session's theorems over, and `NoOrphans` follows from ownership and
  `UnsignalledDriverIsOwned`.
* `TunnelHistoryProofs`: `HistoryInv` says what a leg's past decides, given
  `TunnelInv` and the session's invariant. `PhaseRemembers`: a leg between two
  connections is in phase "reconnect" exactly if one of its older sessions was
  dropped; commands and flags of older connections never change, so the flag of
  the next request is right (`ReplacesAfterLoss`), and so is the set that the
  counter counts (`MetricIsExact`). `Ending`: a session dropped or drained was
  accepted, so a connection that can displace a newer one of its leg was given
  up on, and what the edge has accepted stays accepted; that makes `Routed`
  inductive and gives `ServingIsRouted`.
  `HeardIsFinal` needs only `TunnelInv`.
* `PoolProofs`: `PoolInv` adds to the properties that a task that holds has a
  socket, and that no socket is in two places (moves of a `TcpStream` see to
  that in the code; the proofs about `Proxy` need it as a fact). The order of the vector is what makes `acquire`'s look at the end right.
* `ProxyProofs`: `Stage` ties the phase of a task to its socket: what was shown
  and what is still unread are together the origin's writes, in order, and in
  phase "body" no more is unread than the task still wants. `UnheldQuiet` is
  `PooledSocketsQuiet` for every socket nobody holds, which is what has to be
  preserved while a socket changes hands. The lemma `ProxyImplementsPool` lets the pool's
  theorems carry over; `ProxyImplementsExchange` maps each step to a step of
  `Exchange` or a stutter.
* `DuplexProofs`: the frame is read before either pump starts, each half is
  over for a reason (all was moved, or something on that half went wrong), and
  a far end sees a clean end only after its half. The three together give
  `CleanEndsAreWhole`.
* `ConnectProofs`: what a caller is about to store or return is servable under
  its own filter, and so is the cached entry under the filter stored with it;
  the entry's age and the time it has left never exceed `Ttl + MaxLag` together,
  which bounds an old answer that overwrites a newer one. `ApiInv` is the loop
  of `request_tunnel`: one sleep per retry so far, each twice as long as the one
  before, and while it retries, the failure it retries is a transient one. With
  `TransientIsBetween` (`is_transient` holds of every outage, and of errors and
  5xx only) this is `RetriesAreWellSpent`.
* `WireProofs`: `WireInv` holds each field of the message to what its setter was
  last given. A struct is sound when each getter looks where its setter writes,
  with the same kind, no two setters share a bit or a pointer, and everything
  lies within the size the struct is allocated with. Soundness is arithmetic on
  bit positions, done for every struct of the schemas from its own tables;
  that one more setter call keeps `WireInv` in a sound struct is proved once, for
  every sound struct. The union of `ConnectionResponse` is not sound in
  this sense (its members share a pointer by design) and is done through its
  tag. The conversions are chains of setters, so each field they read is
  looked for along the chain; the dispatch tables are compared number by number.

Only model-checked: the liveness properties, `ReleasedConnectionForgotten` and
`GoneLegLeavesNothing` among them, since fairness and `ENABLED` are outside the
prover. Every invariant and every action property of the passing runs is a theorem.
That the exception in `ServingLegIsRegistered` is needed, and the four
disagreements that are runs, are counterexamples, which only TLC finds.

## Not modelled

TLS, DNS and QUIC transport configuration (data for other libraries), the
introspection tables, pipelines, `Owned` types and encoded schema nodes of the
generated code, `error.rs` and `lib.rs` (declarations), the spike, the example
and the live test (users of the crate). Wording of errors, logs and HTTP heads,
byte counters, the fields of the API's JSON, and the rotation of a cached list
are left out; the bytes of Cap'n Proto pointers belong to the `capnp` crate. The
start-up `expect` of the driver thread is modelled (`DriverFailsToStart`); the code
has no other panic of its own in a driver thread or a reactor.

## Plan

1. (done) `ControlSession`, `Tunnel`, `Pool`, their runs and proofs.
2. (done) `Exchange` and `Proxy` over `Pool`; `Duplex`; `Connect`; the messages
   (`Layout`, `TunnelRpc`, `QuicMetadata`, `Wire`).
3. (done) Proofs of the remaining safety properties of `Tunnel`, of the refinements
   of `Proxy`, and of `Duplex` and `Connect`.
4. (done) Proofs over `Wire` and `request_tunnel`.
5. An abstract pair of half-open streams and a proof that `Duplex` implements it,
   as `Proxy` implements `Exchange`.
