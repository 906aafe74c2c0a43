------------------------------ MODULE Connect ------------------------------
(***************************************************************************)
(* What happens before a connection can be registered: the POST that asks  *)
(* for a tunnel, with its retries (src/api.rs); the discovery of edges     *)
(* over DNS, with its fallback and its cache (src/edge.rs); the walk over  *)
(* the edges found (src/quic_dial.rs) and the opening of the control       *)
(* stream (src/rpc.rs). A caller makes a connect cycle of the manager, or  *)
(* asks an EdgeRegistry, over and over; nothing is kept between two calls  *)
(* but the registry's cache.                                               *)
(***************************************************************************)
EXTENDS Integers, Sequences, SequencesExt

CONSTANTS Callers,
          Edges,        \* the edges DNS may name
          V6,           \* those with an IPv6 address
          Up,           \* those that complete a QUIC handshake
          None,         \* no cache entry, no reply
          MaxRetries,   \* MAX_RETRIES
          DialCap,      \* connect_cycle dials at most this many edges
          Ttl,          \* DEFAULT_CACHE_TTL
          MaxLag        \* bound: time between an answer and its caching

ASSUME EdgesAssumption == IsFiniteSet(Edges) /\ V6 \subseteq Edges /\ Up \subseteq Edges
ASSUME RetryAssumption == MaxRetries \in Nat
ASSUME CapAssumption == DialCap \in Nat \ {0}
ASSUME TimeAssumption == Ttl \in Nat \ {0} /\ MaxLag \in Nat

VARIABLES
    api,      \* request_tunnel: its state, attempt, backoff, sleeps and last reply
    pc,       \* what each caller is doing
    filter,   \* the IpVersionFilter of its call
    found,    \* the edges a registry call has resolved or is handed
    queue,    \* the edges dial_any has yet to try
    lag,      \* how long ago a caller's answer was resolved
    cache     \* EdgeRegistry.inner

callerVars == <<pc, filter, found, queue, lag>>
vars == <<api, callerVars, cache>>

Filters == {"Auto", "V4Only", "V6Only"}
Matches(e, f) ==
    \/ f = "Auto"
    \/ f = "V4Only" /\ e \notin V6
    \/ f = "V6Only" /\ e \in V6

-----------------------------------------------------------------------------
(* request_tunnel. A reply is a status class and what the body turns out   *)
(* to be, or the way the exchange failed.                                  *)

Statuses == {"2xx", "4xx", "5xx"}
Bodies == {"not JSON", "malformed", "success=false", "no result", "tunnel"}
SendErrors == {"timeout", "connect", "request", "body"}
Replies == [status : Statuses, body : Bodies] \cup [error : SendErrors]

\* try_once: the variant of TunnelError, or Ok.
TryOnce(r) ==
    IF "error" \in DOMAIN r THEN "Api"
    ELSE CASE r.body = "not JSON"      -> "ApiNonJson"
           [] r.body = "success=false" -> "ApiBusiness"
           [] r.body = "tunnel"        -> "Ok"
           [] OTHER                    -> "Internal"

\* TunnelError::is_transient: an error while the body is read is not.
IsTransient(r) ==
    \/ TryOnce(r) = "Api" /\ r.error \in {"timeout", "connect", "request"}
    \/ TryOnce(r) = "ApiNonJson" /\ r.status = "5xx"

Fresh(p) == [pc |-> p, attempt |-> 0, backoff |-> 1, slept |-> <<>>, reply |-> None]

\* Seeded fault: the last attempt is not made.
PostOneShort ==
    /\ api.pc = "posting"
    /\ \E r \in Replies :
          api' = IF TryOnce(r) = "Ok" THEN Fresh("ok")
                 ELSE [api EXCEPT !.reply = r, !.pc =
                         IF ~IsTransient(r) \/ api.attempt + 1 = MaxRetries
                         THEN "err" ELSE "backoff"]
    /\ UNCHANGED <<callerVars, cache>>

\* Seeded fault: the attempts are not counted down.
PostUnlimited ==
    /\ api.pc = "posting"
    /\ \E r \in Replies :
          api' = IF TryOnce(r) = "Ok" THEN Fresh("ok")
                 ELSE [api EXCEPT !.reply = r, !.pc =
                         IF IsTransient(r) THEN "backoff" ELSE "err"]
    /\ UNCHANGED <<callerVars, cache>>

\* One round of the loop up to its return or its sleep.
Post ==
    /\ api.pc = "posting"
    /\ \E r \in Replies :
          api' = IF TryOnce(r) = "Ok" THEN Fresh("ok")
                 ELSE [api EXCEPT !.reply = r, !.pc =
                         IF ~IsTransient(r) \/ api.attempt = MaxRetries
                         THEN "err" ELSE "backoff"]
    /\ UNCHANGED <<callerVars, cache>>

\* Sleep for the backoff, double it and try again.
Retry ==
    /\ api.pc = "backoff"
    /\ api' = [api EXCEPT !.pc = "posting", !.attempt = @ + 1,
                          !.slept = Append(@, api.backoff),
                          !.backoff = 2 * @]
    /\ UNCHANGED <<callerVars, cache>>

-----------------------------------------------------------------------------
(* Discovery.                                                              *)

\* What resolve_srv may return: the addresses of those SRV targets that
\* could be resolved, filtered.
Answers(f) == SUBSET {e \in Edges : Matches(e, f)}

Goto(c, p) == pc' = [pc EXCEPT ![c] = p]

Finish(c) ==
    /\ Goto(c, "idle")
    /\ filter' = [filter EXCEPT ![c] = "Auto"]
    /\ found' = [found EXCEPT ![c] = {}]
    /\ queue' = [queue EXCEPT ![c] = <<>>]
    /\ lag' = [lag EXCEPT ![c] = 0]
    /\ UNCHANGED api

\* connect_cycle goes to the resolver, not to a registry.
BeginCycle(c) ==
    /\ api.pc = "ok" /\ pc[c] = "idle"
    /\ Goto(c, "system")
    /\ UNCHANGED <<api, filter, found, queue, lag, cache>>

\* get_or_refresh, under the read lock. The order of what is handed out
\* (shuffled) is not kept.
Usable(f) == cache # None /\ cache.filter = f /\ cache.left > 0

\* Seeded fault: a hit renews the entry.
CacheHitRenews(c, f) ==
    /\ Usable(f)
    /\ found' = [found EXCEPT ![c] = cache.edges]
    /\ Goto(c, "served")
    /\ filter' = [filter EXCEPT ![c] = f]
    /\ cache' = [cache EXCEPT !.left = Ttl]
    /\ UNCHANGED <<api, queue, lag>>

CacheHit(c, f) ==
    /\ Usable(f)
    /\ found' = [found EXCEPT ![c] = cache.edges]
    /\ Goto(c, "served")
    /\ filter' = [filter EXCEPT ![c] = f]
    /\ UNCHANGED <<api, queue, lag, cache>>

CacheMiss(c, f) ==
    /\ ~Usable(f)
    /\ Goto(c, "refresh system")
    /\ filter' = [filter EXCEPT ![c] = f]
    /\ UNCHANGED <<api, found, queue, lag, cache>>

GetOrRefresh(c) ==
    /\ api.pc = "ok" /\ pc[c] = "idle"
    /\ \E f \in Filters : CacheHit(c, f) \/ CacheMiss(c, f)

\* discover is called by connect_cycle ("system", "dot") or by a refresh.
System == {"system", "refresh system"}
Dot == {"dot", "refresh dot"}

\* connect_cycle takes the answer in the resolver's order and cuts it.
Resolved(c, answer) ==
    /\ answer # {}
    /\ IF pc[c] \in {"system", "dot"}
         THEN /\ Goto(c, "dialing")
              /\ \E s \in SetToSeqs(answer) :
                    queue' = [queue EXCEPT ![c] =
                        SubSeq(s, 1, IF Len(s) < DialCap THEN Len(s) ELSE DialCap)]
              /\ UNCHANGED found
         ELSE /\ Goto(c, "storing")
              /\ found' = [found EXCEPT ![c] = answer]
              /\ UNCHANGED queue
    /\ UNCHANGED <<api, filter, lag, cache>>

Resolve(c) ==
    /\ pc[c] \in System \cup Dot
    /\ \E answer \in Answers(filter[c]) : Resolved(c, answer)

\* The system resolver fails, or names no edge that matches: fall back to
\* DNS over TLS.
SystemFails(c) ==
    /\ pc[c] \in System
    /\ Goto(c, IF pc[c] = "system" THEN "dot" ELSE "refresh dot")
    /\ UNCHANGED <<api, filter, found, queue, lag, cache>>

\* So does that one: the call returns its error.
DotFails(c) ==
    /\ pc[c] \in Dot
    /\ Finish(c)
    /\ UNCHANGED cache

\* Seeded fault: what another caller has stored in the meantime will do.
StoreRechecks(c) ==
    /\ pc[c] = "storing"
    /\ cache' = IF cache # None THEN cache
                ELSE [edges |-> found[c], filter |-> filter[c], left |-> Ttl,
                      age |-> lag[c]]
    /\ found' = [found EXCEPT ![c] = cache'.edges]
    /\ Goto(c, "served")
    /\ lag' = [lag EXCEPT ![c] = 0]
    /\ UNCHANGED <<api, filter, queue>>

\* get_or_refresh, under the write lock: the entry is replaced, whoever
\* wrote it and whenever it was resolved; the caller gets its own answer.
Store(c) ==
    /\ pc[c] = "storing"
    /\ cache' = [edges |-> found[c], filter |-> filter[c], left |-> Ttl,
                 age |-> lag[c]]
    /\ Goto(c, "served")
    /\ lag' = [lag EXCEPT ![c] = 0]
    /\ UNCHANGED <<api, filter, found, queue>>

Served(c) ==
    /\ pc[c] = "served"
    /\ Finish(c)
    /\ UNCHANGED cache

-----------------------------------------------------------------------------
(* dial_any and the control stream.                                        *)

\* The endpoint is bound to an IPv4 address: an IPv6 edge is refused before
\* a packet is sent.
Dials(e) == e \in Up \ V6

DialOk(c) ==
    /\ pc[c] = "dialing" /\ queue[c] # <<>>
    /\ Dials(Head(queue[c]))
    /\ Goto(c, "opening")
    /\ queue' = [queue EXCEPT ![c] = <<>>]
    /\ UNCHANGED <<api, filter, found, lag, cache>>

\* Seeded fault: the first error ends the walk.
DialErrStops(c) ==
    /\ pc[c] = "dialing" /\ queue[c] # <<>>
    /\ ~Dials(Head(queue[c]))
    /\ queue' = [queue EXCEPT ![c] = <<>>]
    /\ UNCHANGED <<api, pc, filter, found, lag, cache>>

\* Seeded fault: the same edge is dialled again.
DialErrRetries(c) ==
    /\ pc[c] = "dialing" /\ queue[c] # <<>>
    /\ ~Dials(Head(queue[c]))
    /\ UNCHANGED vars

\* Refused, failed or timed out: on to the next edge.
DialErr(c) ==
    /\ pc[c] = "dialing" /\ queue[c] # <<>>
    /\ ~Dials(Head(queue[c]))
    /\ queue' = [queue EXCEPT ![c] = Tail(@)]
    /\ UNCHANGED <<api, pc, filter, found, lag, cache>>

DialAnyFails(c) ==
    /\ pc[c] = "dialing" /\ queue[c] = <<>>
    /\ Finish(c)
    /\ UNCHANGED cache

\* open_bi returns: the edge has granted a stream, or the connection is lost.
OpenControl(c) ==
    /\ pc[c] = "opening"
    /\ Finish(c)
    /\ UNCHANGED cache

-----------------------------------------------------------------------------

AgeCap == Ttl + MaxLag + 1

Tick ==
    /\ \A c \in Callers : pc[c] = "storing" => lag[c] < MaxLag
    /\ lag' = [c \in Callers |-> IF pc[c] = "storing" THEN lag[c] + 1 ELSE lag[c]]
    /\ cache' = IF cache = None THEN None
                ELSE [cache EXCEPT !.left = IF @ > 0 THEN @ - 1 ELSE 0,
                                   !.age = IF @ < AgeCap THEN @ + 1 ELSE @]
    /\ UNCHANGED <<api, pc, filter, found, queue>>

Init ==
    /\ api = Fresh("posting")
    /\ pc = [c \in Callers |-> "idle"]
    /\ filter = [c \in Callers |-> "Auto"]
    /\ found = [c \in Callers |-> {}]
    /\ queue = [c \in Callers |-> <<>>]
    /\ lag = [c \in Callers |-> 0]
    /\ cache = None

ApiStep == Post \/ Retry

CallStep(c) ==
    \/ Resolve(c) \/ SystemFails(c) \/ DotFails(c)
    \/ Store(c) \/ Served(c)
    \/ DialOk(c) \/ DialErr(c) \/ DialAnyFails(c) \/ OpenControl(c)

Next ==
    \/ ApiStep
    \/ \E c \in Callers : BeginCycle(c) \/ GetOrRefresh(c) \/ CallStep(c)
    \/ Tick

\* Every request, lookup and handshake is answered or times out. That the
\* edge grants a control stream, or the connection breaks, is assumed:
\* nothing in the code bounds the wait in open_bi.
Spec ==
    /\ Init /\ [][Next]_vars
    /\ WF_vars(ApiStep)
    /\ \A c \in Callers : WF_vars(CallStep(c))

-----------------------------------------------------------------------------
(* Properties                                                              *)

TypeOK ==
    /\ api \in [pc : {"posting", "backoff", "ok", "err"},
                attempt : 0 .. MaxRetries,
                backoff : Nat,
                slept : Seq(Nat),
                reply : Replies \cup {None}]
    /\ pc \in [Callers -> {"idle", "storing", "served", "dialing", "opening"}
                          \cup System \cup Dot]
    /\ filter \in [Callers -> Filters]
    /\ found \in [Callers -> SUBSET Edges]
    /\ queue \in [Callers -> Seq(Edges)]
    /\ lag \in [Callers -> 0 .. MaxLag]
    /\ cache \in {None} \cup [edges : SUBSET Edges, filter : Filters,
                              left : 0 .. Ttl, age : 0 .. AgeCap]

\* "5xx + network errors", by what the server did.
Retryable(r) == "error" \in DOMAIN r \/ r.status = "5xx"

\* Those that "must surface as a transient error": the server was not reached,
\* or an error page came from something in front of it.
Outage(r) ==
    \/ "error" \in DOMAIN r /\ r.error \in {"timeout", "connect"}
    \/ "status" \in DOMAIN r /\ r.status = "5xx" /\ r.body = "not JSON"

\* 1, 2, 4, ...
Doubles(s) == \A k \in 1 .. Len(s) : s[k] = IF k = 1 THEN 1 ELSE 2 * s[k - 1]

\* A request is never repeated after a 4xx or an answer without a server
\* error, the n-th repetition comes after n sleeps of 1s, 2s, 4s, ..., none
\* is slept after the last attempt, and an outage is returned only when the
\* retries are spent. It does not say that all "5xx + network errors" are
\* retried: an error while the body is read, and a 5xx with a JSON body, are
\* returned at once.
RetriesWellSpent ==
    /\ api.pc = "backoff" \/ (api.pc = "posting" /\ api.attempt > 0) =>
          Retryable(api.reply)
    /\ Len(api.slept) = api.attempt /\ Doubles(api.slept)
    /\ api.pc = "err" /\ Outage(api.reply) => api.attempt = MaxRetries

\* Whatever else is refreshed at the same time, a caller is handed edges,
\* and none that its filter excludes.
ServedMatchesFilter ==
    \A c \in Callers :
        pc[c] = "served" =>
            found[c] # {} /\ \A e \in found[c] : Matches(e, filter[c])

\* Two refreshes can race, and the older answer may replace the newer one;
\* still no answer is served longer than the TTL and the time it took to be
\* stored.
StaleIsBounded ==
    cache # None /\ cache.left > 0 => cache.age <= Ttl + MaxLag

Reaches(q) == \E k \in 1 .. Len(q) : Dials(q[k])

\* dial_any gives up only when no edge it was given answers: a cycle with an
\* edge it can reach among those kept after the cut gets a connection.
ReachableEdgeIsReached ==
    [][\A c \in Callers :
          pc[c] = "dialing" /\ Reaches(queue[c]) =>
              pc'[c] = "opening" \/ (pc'[c] = "dialing" /\ Reaches(queue'[c]))]_vars

\* The request for a tunnel is answered or given up, and every call of
\* connect_cycle or get_or_refresh returns.
CallReturns ==
    /\ api.pc = "posting" ~> api.pc \in {"ok", "err"}
    /\ \A c \in Callers : pc[c] # "idle" ~> pc[c] = "idle"

=============================================================================
