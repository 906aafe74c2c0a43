---------------------------- MODULE ConnectProofs ----------------------------
(***************************************************************************)
(* Safety of discovery, its shared cache and the walk over the edges, for  *)
(* any number of callers and edges and any TTL, and of the retries of the  *)
(* request for a tunnel, for any number of them.                           *)
(***************************************************************************)
EXTENDS Connect, FiniteSetTheorems, SequenceTheorems, TLAPS

CacheEntry == [edges : SUBSET Edges, filter : Filters, left : 0 .. Ttl, age : 0 .. AgeCap]

\* The variables have their types, those of request_tunnel left aside.
CallTypeOK ==
    /\ pc \in [Callers -> {"idle", "storing", "served", "dialing", "opening"}
                          \cup System \cup Dot]
    /\ filter \in [Callers -> Filters]
    /\ found \in [Callers -> SUBSET Edges]
    /\ queue \in [Callers -> Seq(Edges)]
    /\ lag \in [Callers -> 0 .. MaxLag]
    /\ cache \in {None} \cup CacheEntry

\* An answer that may be served under a filter.
Servable(edges, f) == edges # {} /\ \A e \in edges : Matches(e, f)

\* What a caller is about to store or return can be served to it.
HeldServable ==
    \A c \in Callers : pc[c] \in {"storing", "served"} => Servable(found[c], filter[c])

\* So can the cached answer, to callers with its filter; and as long as it
\* is in use, its age and the time it has left stay within one bound.
EntryServable == cache # None => Servable(cache.edges, cache.filter)
EntryDated == cache # None /\ cache.left > 0 => cache.age + cache.left <= Ttl + MaxLag

ConnectInv == CallTypeOK /\ HeldServable /\ EntryServable /\ EntryDated

-----------------------------------------------------------------------------

\* Whatever order the resolver gives, connect_cycle keeps a sequence of edges.
LEMMA CutFacts ==
    ASSUME NEW A \in SUBSET Edges, NEW s \in SetToSeqs(A)
    PROVE  SubSeq(s, 1, IF Len(s) < DialCap THEN Len(s) ELSE DialCap) \in Seq(Edges)
<1>1. Cardinality(A) \in Nat
  BY EdgesAssumption, FS_Subset, FS_CardinalityType
<1>2. s \in [1 .. Cardinality(A) -> A]
  BY DEF SetToSeqs
<1>3. s \in Seq(Edges)
  BY <1>1, <1>2
<1>. QED
  BY <1>3, CapAssumption

\* A call that ends keeps nothing.
LEMMA FinishFacts ==
    ASSUME CallTypeOK, HeldServable, NEW c \in Callers, Finish(c)
    PROVE  /\ pc' \in [Callers -> {"idle", "storing", "served", "dialing", "opening"}
                          \cup System \cup Dot]
           /\ filter' \in [Callers -> Filters]
           /\ found' \in [Callers -> SUBSET Edges]
           /\ queue' \in [Callers -> Seq(Edges)]
           /\ lag' \in [Callers -> 0 .. MaxLag]
           /\ HeldServable'
<1>1. <<>> \in Seq(Edges) /\ 0 \in 0 .. MaxLag /\ "Auto" \in Filters
  BY TimeAssumption DEF Filters
<1>. QED
  BY <1>1 DEF CallTypeOK, HeldServable, Finish, Goto

\* Before the first call there is nothing to serve.
LEMMA ConnectInitInv == Init => ConnectInv
<1>1. <<>> \in Seq(Edges) /\ 0 \in 0 .. MaxLag /\ "Auto" \in Filters
  BY TimeAssumption DEF Filters
<1>. QED
  BY <1>1 DEF Init, ConnectInv, CallTypeOK, HeldServable, EntryServable, EntryDated

\* Each step of a caller, of the cache and of time keeps the invariant.
LEMMA ConnectInvStep == ConnectInv /\ [Next]_vars => ConnectInv'
<1> SUFFICES ASSUME ConnectInv, [Next]_vars PROVE ConnectInv'
  OBVIOUS
<1> USE DEF ConnectInv
<1>1. CASE UNCHANGED <<callerVars, cache>>
  BY <1>1 DEF callerVars, CallTypeOK, HeldServable, EntryServable, EntryDated
<1>2. ASSUME NEW c \in Callers, BeginCycle(c) PROVE ConnectInv'
  BY <1>2 DEF BeginCycle, Goto, System, Dot, CallTypeOK, HeldServable, EntryServable, EntryDated
<1>3. ASSUME NEW c \in Callers, NEW f \in Filters, CacheHit(c, f) PROVE ConnectInv'
  <2>1. cache \in CacheEntry /\ cache.filter = f /\ Servable(cache.edges, f)
    BY <1>3 DEF CacheHit, Usable, CallTypeOK, EntryServable
  <2>2. cache.edges \in SUBSET Edges
    BY <2>1 DEF CacheEntry
  <2>3. CallTypeOK'
    BY <1>3, <2>2 DEF CacheHit, Goto, CallTypeOK
  <2>4. HeldServable'
    BY <1>3, <2>1 DEF CacheHit, Goto, CallTypeOK, HeldServable
  <2>. QED
    BY <1>3, <2>3, <2>4 DEF CacheHit, EntryServable, EntryDated
<1>4. ASSUME NEW c \in Callers, NEW f \in Filters, CacheMiss(c, f) PROVE ConnectInv'
  BY <1>4 DEF CacheMiss, Goto, System, Dot, CallTypeOK, HeldServable, EntryServable, EntryDated
<1>5. ASSUME NEW c \in Callers, Resolve(c) PROVE ConnectInv'
  <2>1. PICK A \in Answers(filter[c]) : Resolved(c, A)
    BY <1>5 DEF Resolve
  <2>2. A \in SUBSET Edges /\ Servable(A, filter[c])
    BY <2>1 DEF Answers, Resolved, Servable
  <2>3. /\ pc' \in [Callers -> {"idle", "storing", "served", "dialing", "opening"}
                          \cup System \cup Dot]
        /\ UNCHANGED <<filter, lag, cache>>
    BY <2>1 DEF Resolved, Goto, CallTypeOK
  <2>4. CASE pc[c] \in {"system", "dot"}
    <3>1. PICK s \in SetToSeqs(A) : queue' = [queue EXCEPT ![c] =
                        SubSeq(s, 1, IF Len(s) < DialCap THEN Len(s) ELSE DialCap)]
      BY <2>1, <2>4 DEF Resolved
    <3>2. queue' \in [Callers -> Seq(Edges)]
      BY <2>2, <3>1, CutFacts DEF CallTypeOK
    <3>3. UNCHANGED found /\ pc' = [pc EXCEPT ![c] = "dialing"]
      BY <2>1, <2>4 DEF Resolved, Goto
    <3>. QED
      BY <2>3, <3>2, <3>3 DEF CallTypeOK, HeldServable, EntryServable, EntryDated
  <2>5. CASE pc[c] \notin {"system", "dot"}
    <3>1. /\ found' = [found EXCEPT ![c] = A] /\ UNCHANGED queue
          /\ pc' = [pc EXCEPT ![c] = "storing"]
      BY <2>1, <2>5 DEF Resolved, Goto
    <3>. QED
      BY <2>2, <2>3, <3>1 DEF CallTypeOK, HeldServable, EntryServable, EntryDated
  <2>. QED
    BY <2>4, <2>5
<1>6. ASSUME NEW c \in Callers, SystemFails(c) PROVE ConnectInv'
  BY <1>6 DEF SystemFails, Goto, System, Dot, CallTypeOK, HeldServable, EntryServable, EntryDated
<1>7. ASSUME NEW c \in Callers,
             DotFails(c) \/ Served(c) \/ DialAnyFails(c) \/ OpenControl(c)
      PROVE  ConnectInv'
  <2>1. Finish(c) /\ UNCHANGED cache
    BY <1>7 DEF DotFails, Served, DialAnyFails, OpenControl
  <2>. QED
    BY <2>1, FinishFacts DEF CallTypeOK, EntryServable, EntryDated
<1>8. ASSUME NEW c \in Callers, Store(c) PROVE ConnectInv'
  <2> DEFINE e == [edges |-> found[c], filter |-> filter[c], left |-> Ttl,
                   age |-> lag[c]]
  <2>1. lag[c] \in 0 .. MaxLag /\ found[c] \in SUBSET Edges /\ filter[c] \in Filters
    BY DEF CallTypeOK
  <2>2. e \in CacheEntry
    BY <2>1, TimeAssumption DEF CacheEntry, AgeCap
  <2>3. cache' = e /\ Servable(e.edges, e.filter) /\ e.age + e.left <= Ttl + MaxLag
    BY <1>8, <2>1, TimeAssumption DEF Store, HeldServable
  <2>4. CallTypeOK'
    BY <1>8, <2>2, <2>3, TimeAssumption DEF Store, Goto, CallTypeOK
  <2>5. HeldServable'
    BY <1>8 DEF Store, Goto, CallTypeOK, HeldServable
  <2>. QED
    BY <2>3, <2>4, <2>5 DEF EntryServable, EntryDated
<1>9. ASSUME NEW c \in Callers, DialOk(c) PROVE ConnectInv'
  <2>1. <<>> \in Seq(Edges)
    OBVIOUS
  <2>. QED
    BY <1>9, <2>1 DEF DialOk, Goto, CallTypeOK, HeldServable, EntryServable, EntryDated
<1>10. ASSUME NEW c \in Callers, DialErr(c) PROVE ConnectInv'
  <2>1. queue[c] \in Seq(Edges) /\ queue[c] # <<>>
    BY <1>10 DEF DialErr, CallTypeOK
  <2>2. Tail(queue[c]) \in Seq(Edges)
    BY <2>1
  <2>. QED
    BY <1>10, <2>2 DEF DialErr, CallTypeOK, HeldServable, EntryServable, EntryDated
<1>11. CASE Tick
  <2>1. lag' \in [Callers -> 0 .. MaxLag]
    BY <1>11, TimeAssumption DEF Tick, CallTypeOK
  <2>2. CASE cache = None
    BY <1>11, <2>1, <2>2 DEF Tick, CallTypeOK, HeldServable, EntryServable, EntryDated
  <2>3. CASE cache # None
    <3>1. cache \in CacheEntry
      BY <2>3 DEF CallTypeOK
    <3>2. cache.left \in 0 .. Ttl /\ cache.age \in 0 .. AgeCap
      BY <3>1 DEF CacheEntry
    <3>3. cache' = [cache EXCEPT !.left = IF @ > 0 THEN @ - 1 ELSE 0,
                                 !.age = IF @ < AgeCap THEN @ + 1 ELSE @]
      BY <1>11, <2>3 DEF Tick
    <3> DEFINE left == IF cache.left > 0 THEN cache.left - 1 ELSE 0
               age == IF cache.age < AgeCap THEN cache.age + 1 ELSE cache.age
               aged == [cache EXCEPT !.left = left]
    <3>4. left \in 0 .. Ttl /\ age \in 0 .. AgeCap
      BY <3>2, TimeAssumption DEF AgeCap
    <3> HIDE DEF left, age
    <3>5. /\ aged \in CacheEntry /\ aged.left = left
          /\ aged.edges = cache.edges /\ aged.filter = cache.filter
      BY <3>1, <3>4 DEF CacheEntry
    <3>6. cache' = [aged EXCEPT !.age = age]
      BY <3>3 DEF left, age
    <3> HIDE DEF aged
    <3>7. /\ cache' \in CacheEntry /\ cache'.left = left /\ cache'.age = age
           /\ cache'.edges = cache.edges /\ cache'.filter = cache.filter
      BY <3>4, <3>5, <3>6 DEF CacheEntry
    <3>8. /\ cache' \in CacheEntry
          /\ cache'.edges = cache.edges /\ cache'.filter = cache.filter
          /\ cache'.left = IF cache.left > 0 THEN cache.left - 1 ELSE 0
          /\ cache'.age = IF cache.age < AgeCap THEN cache.age + 1 ELSE cache.age
      BY <3>7 DEF left, age
    <3>9. EntryDated'
      BY <2>3, <3>2, <3>8, TimeAssumption DEF EntryDated, AgeCap
    <3>10. CallTypeOK' /\ HeldServable'
      BY <1>11, <2>1, <3>8 DEF Tick, CallTypeOK, HeldServable
    <3>. QED
      BY <2>3, <3>8, <3>9, <3>10 DEF EntryServable
  <2>. QED
    BY <2>2, <2>3
<1>. QED
  BY <1>1, <1>2, <1>3, <1>4, <1>5, <1>6, <1>7, <1>8, <1>9, <1>10, <1>11
     DEF Next, CallStep, GetOrRefresh, ApiStep, Post, Retry, vars, callerVars

\* The inductive invariant holds in every reachable state.
THEOREM ConnectInvariance == Spec => []ConnectInv
BY ConnectInitInv, ConnectInvStep, PTL DEF Spec

\* However refreshes race on the cache, no caller is handed an empty list or
\* an edge its filter excludes.
THEOREM ServedIsFiltered == Spec => []ServedMatchesFilter
<1>1. ConnectInv => ServedMatchesFilter
  BY DEF ConnectInv, HeldServable, Servable, ServedMatchesFilter
<1>. QED
  BY <1>1, ConnectInvariance, PTL

\* An answer that is still served is at most the TTL and the lag of its
\* storing old, whichever of two refreshes stored last.
THEOREM ServedIsRecent == Spec => []StaleIsBounded
<1>1. ConnectInv => StaleIsBounded
  <2> SUFFICES ASSUME ConnectInv, cache # None, cache.left > 0
               PROVE  cache.age <= Ttl + MaxLag
    BY DEF StaleIsBounded
  <2>1. cache \in CacheEntry /\ cache.age + cache.left <= Ttl + MaxLag
    BY DEF ConnectInv, CallTypeOK, EntryDated
  <2>2. cache.left \in 0 .. Ttl /\ cache.age \in 0 .. AgeCap
    BY <2>1 DEF CacheEntry
  <2>. QED
    BY <2>1, <2>2, TimeAssumption DEF AgeCap
<1>. QED
  BY <1>1, ConnectInvariance, PTL

-----------------------------------------------------------------------------

\* The body of ReachableEdgeIsReached for one caller.
StillReaches(c) ==
    pc[c] = "dialing" /\ Reaches(queue[c]) =>
        pc'[c] = "opening" \/ (pc'[c] = "dialing" /\ Reaches(queue'[c]))

\* dial_any moves past an edge only when that edge does not answer.
THEOREM WalkIsExhaustive == Spec => ReachableEdgeIsReached
<1>1. ASSUME ConnectInv, [Next]_vars, NEW c \in Callers PROVE StillReaches(c)
  <2> SUFFICES ASSUME pc[c] = "dialing", Reaches(queue[c])
               PROVE  pc'[c] = "opening" \/ (pc'[c] = "dialing" /\ Reaches(queue'[c]))
    BY DEF StillReaches
  <2>1. /\ queue[c] \in Seq(Edges) /\ queue[c] # <<>>
        /\ pc = [d \in Callers |-> pc[d]] /\ queue = [d \in Callers |-> queue[d]]
    BY <1>1 DEF ConnectInv, CallTypeOK, Reaches
  <2>2. CASE DialOk(c)
    BY <2>1, <2>2 DEF DialOk, Goto
  <2>3. CASE DialErr(c)
    <3>1. PICK k \in 1 .. Len(queue[c]) : Dials(queue[c][k])
      BY DEF Reaches
    <3>2. k # 1 /\ queue' = [queue EXCEPT ![c] = Tail(@)] /\ pc' = pc
      BY <2>1, <2>3, <3>1 DEF DialErr
    <3>3. queue'[c] = Tail(queue[c])
      BY <2>1, <3>2
    <3>4. k - 1 \in 1 .. Len(Tail(queue[c])) /\ Tail(queue[c])[k - 1] = queue[c][k]
      BY <2>1, <3>1, <3>2
    <3>5. Reaches(queue'[c])
      BY <3>1, <3>3, <3>4 DEF Reaches
    <3>. QED
      BY <3>2, <3>5
  <2>4. CASE ~DialOk(c) /\ ~DialErr(c)
    <3>1. pc'[c] = pc[c] /\ queue'[c] = queue[c]
      <4>1. CASE UNCHANGED callerVars
        BY <4>1 DEF callerVars
      <4>2. ASSUME NEW d \in Callers, d # c,
                   BeginCycle(d) \/ GetOrRefresh(d) \/ CallStep(d)
            PROVE  pc'[c] = pc[c] /\ queue'[c] = queue[c]
        BY <2>1, <4>2 DEF BeginCycle, GetOrRefresh, CacheHit, CacheMiss, CallStep, Resolve,
           Resolved, SystemFails, DotFails, Store, Served, DialOk, DialErr, DialAnyFails,
           OpenControl, Finish, Goto
      <4>3. ~(BeginCycle(c) \/ GetOrRefresh(c) \/ CallStep(c))
        BY <2>1, <2>4 DEF BeginCycle, GetOrRefresh, CallStep, Resolve, SystemFails,
           DotFails, Store, Served, DialAnyFails, OpenControl, System, Dot
      <4>. QED
        BY <1>1, <4>1, <4>2, <4>3 DEF Next, ApiStep, Post, Retry, Tick, vars, callerVars
    <3>. QED
      BY <3>1
  <2>. QED
    BY <2>2, <2>3, <2>4
<1>2. ConnectInv /\ [Next]_vars => [\A c \in Callers : StillReaches(c)]_vars
  BY <1>1
<1>3. [\A c \in Callers : StillReaches(c)]_vars =>
          [\A c \in Callers :
             pc[c] = "dialing" /\ Reaches(queue[c]) =>
                 pc'[c] = "opening" \/ (pc'[c] = "dialing" /\ Reaches(queue'[c]))]_vars
  BY DEF StillReaches
<1>. QED
  BY <1>2, <1>3, ConnectInvariance, PTL DEF Spec, ReachableEdgeIsReached

-----------------------------------------------------------------------------
(* request_tunnel                                                          *)

ApiType == [pc : {"posting", "backoff", "ok", "err"}, attempt : 0 .. MaxRetries,
            backoff : Nat, slept : Seq(Nat), reply : Replies \cup {None}]

\* One sleep per retry, each twice as long as the last, and the next one
\* twice as long again.
SleepsDouble(a) ==
    /\ Len(a.slept) = a.attempt
    /\ Doubles(Append(a.slept, a.backoff))

\* The failure that made request_tunnel sleep, post again, or give up.
FailureKept(a) ==
    /\ a.pc = "backoff" =>
          a.attempt < MaxRetries /\ a.reply \in Replies /\ IsTransient(a.reply)
    /\ a.pc = "posting" /\ a.attempt > 0 =>
          a.reply \in Replies /\ IsTransient(a.reply)
    /\ a.pc = "err" =>
          /\ a.reply \in Replies /\ TryOnce(a.reply) # "Ok"
          /\ ~IsTransient(a.reply) \/ a.attempt = MaxRetries

Counted(a) == a \in ApiType /\ SleepsDouble(a) /\ FailureKept(a)

ApiInv == Counted(api)

\* Where the walk over the retries starts, and where a success leaves it.
LEMMA FreshFacts ==
    ASSUME NEW p \in {"posting", "ok"}
    PROVE  Counted(Fresh(p))
<1>1. 0 \in 0 .. MaxRetries /\ <<>> \in Seq(Nat)
  BY RetryAssumption
<1>2. /\ Fresh(p) \in ApiType
      /\ Fresh(p).pc = p /\ Fresh(p).attempt = 0 /\ Fresh(p).backoff = 1
      /\ Fresh(p).slept = <<>>
  BY <1>1 DEF Fresh, ApiType
<1>3. Doubles(Append(<<>>, 1))
  BY DEF Doubles
<1>. QED
  BY <1>2, <1>3 DEF Counted, SleepsDouble, FailureKept

\* One more sleep, and the next one twice as long.
LEMMA OneMoreSleep ==
    ASSUME NEW s \in Seq(Nat), NEW b \in Nat, Doubles(Append(s, b))
    PROVE  Doubles(Append(Append(s, b), 2 * b))
<1> DEFINE t == Append(s, b)
           u == Append(t, 2 * b)
<1>1. /\ t \in Seq(Nat) /\ Len(t) = Len(s) + 1 /\ t[Len(t)] = b
      /\ u \in Seq(Nat) /\ Len(u) = Len(t) + 1 /\ u[Len(u)] = 2 * b
      /\ \A k \in 1 .. Len(t) : u[k] = t[k]
  OBVIOUS
<1>2. \A k \in 1 .. Len(t) : t[k] = IF k = 1 THEN 1 ELSE 2 * t[k - 1]
  BY DEF Doubles
<1>3. Len(t) \in Nat /\ Len(t) # 0
  BY <1>1
<1> HIDE DEF t, u
<1>4. ASSUME NEW k \in 1 .. Len(u) PROVE u[k] = IF k = 1 THEN 1 ELSE 2 * u[k - 1]
  <2>1. CASE k = Len(u)
    <3>1. k # 1 /\ k - 1 = Len(t) /\ k - 1 \in 1 .. Len(t)
      BY <1>1, <1>3, <2>1
    <3>2. u[k - 1] = t[k - 1]
      BY <1>1, <3>1
    <3>. QED
      BY <1>1, <2>1, <3>1, <3>2
  <2>2. CASE k # Len(u)
    <3>1. k \in 1 .. Len(t) /\ (k # 1 => k - 1 \in 1 .. Len(t))
      BY <1>1, <1>3, <2>2
    <3>2. u[k] = t[k] /\ (k # 1 => u[k - 1] = t[k - 1])
      BY <1>1, <3>1
    <3>. QED
      BY <1>2, <3>1, <3>2
  <2>. QED
    BY <2>1, <2>2
<1>. QED
  BY <1>4 DEF Doubles, u, t

\* No sleep before the first attempt, and no failure to have kept.
LEMMA ApiInitInv == Init => ApiInv
BY FreshFacts DEF Init, ApiInv

\* The loop keeps its count of the sleeps, their length, and the failure it
\* is retrying or has given up on.
LEMMA ApiInvStep == ApiInv /\ [Next]_vars => ApiInv'
<1> SUFFICES ASSUME ApiInv, [Next]_vars PROVE ApiInv'
  OBVIOUS
<1>1. /\ api \in ApiType /\ api.attempt \in 0 .. MaxRetries /\ api.backoff \in Nat
      /\ api.slept \in Seq(Nat) /\ api.reply \in Replies \cup {None}
      /\ api = [pc |-> api.pc, attempt |-> api.attempt, backoff |-> api.backoff,
                slept |-> api.slept, reply |-> api.reply]
  BY DEF ApiInv, Counted, ApiType
<1>2. CASE UNCHANGED api
  BY <1>2 DEF ApiInv, Counted, ApiType, SleepsDouble, FailureKept
<1>3. CASE Post
  <2>1. PICK r \in Replies :
            api' = IF TryOnce(r) = "Ok" THEN Fresh("ok")
                   ELSE [api EXCEPT !.reply = r, !.pc =
                           IF ~IsTransient(r) \/ api.attempt = MaxRetries
                           THEN "err" ELSE "backoff"]
    BY <1>3 DEF Post
  <2>2. CASE TryOnce(r) = "Ok"
    BY <2>1, <2>2, FreshFacts DEF ApiInv
  <2>3. CASE TryOnce(r) # "Ok"
    <3> DEFINE p == IF ~IsTransient(r) \/ api.attempt = MaxRetries THEN "err" ELSE "backoff"
    <3>1. api' = [pc |-> p, attempt |-> api.attempt, backoff |-> api.backoff,
                  slept |-> api.slept, reply |-> r]
      BY <1>1, <2>1, <2>3
    <3>2. \/ p = "err" /\ (~IsTransient(r) \/ api.attempt = MaxRetries)
          \/ p = "backoff" /\ IsTransient(r) /\ api.attempt # MaxRetries
      OBVIOUS
    <3> HIDE DEF p
    <3>3. /\ api' \in ApiType /\ api'.pc = p /\ api'.reply = r
          /\ api'.attempt = api.attempt /\ api'.backoff = api.backoff
          /\ api'.slept = api.slept
      BY <1>1, <3>1, <3>2 DEF ApiType
    <3>4. SleepsDouble(api')
      BY <3>3 DEF ApiInv, Counted, SleepsDouble
    <3>5. FailureKept(api')
      BY <1>1, <2>3, <3>2, <3>3, RetryAssumption DEF FailureKept
    <3>. QED
      BY <3>3, <3>4, <3>5 DEF ApiInv, Counted
  <2>. QED
    BY <2>2, <2>3
<1>4. CASE Retry
  <2>1. api.attempt < MaxRetries
    BY <1>4 DEF Retry, ApiInv, Counted, FailureKept
  <2>2. api' = [pc |-> "posting", attempt |-> api.attempt + 1,
                backoff |-> 2 * api.backoff, slept |-> Append(api.slept, api.backoff),
                reply |-> api.reply]
    BY <1>1, <1>4 DEF Retry
  <2>3. /\ api.attempt + 1 \in 0 .. MaxRetries /\ 2 * api.backoff \in Nat
        /\ Append(api.slept, api.backoff) \in Seq(Nat)
        /\ Len(Append(api.slept, api.backoff)) = Len(api.slept) + 1
    BY <1>1, <2>1, RetryAssumption
  <2>4. /\ api' \in ApiType /\ api'.pc = "posting" /\ api'.attempt = api.attempt + 1
        /\ api'.backoff = 2 * api.backoff /\ api'.slept = Append(api.slept, api.backoff)
        /\ api'.reply = api.reply
    BY <1>1, <2>2, <2>3 DEF ApiType
  <2>5. SleepsDouble(api')
    BY <1>1, <2>3, <2>4, OneMoreSleep DEF ApiInv, Counted, SleepsDouble
  <2>. QED
    BY <1>4, <2>4, <2>5 DEF Retry, ApiInv, Counted, FailureKept
<1>. QED
  BY <1>2, <1>3, <1>4 DEF Next, ApiStep, CallStep, vars, callerVars, BeginCycle,
     GetOrRefresh, CacheHit, CacheMiss, Resolve, Resolved, SystemFails, DotFails, Store,
     Served, DialOk, DialErr, DialAnyFails, OpenControl, Finish, Tick

\* The loop's invariant holds in every reachable state.
THEOREM ApiInvariance == Spec => []ApiInv
BY ApiInitInv, ApiInvStep, PTL DEF Spec

\* Every variable has its type: no attempt beyond MAX_RETRIES, and a cache
\* entry whose ages stay in range.
THEOREM ConnectTypeCorrect == Spec => []TypeOK
<1>1. ConnectInv /\ ApiInv => TypeOK
  BY DEF ConnectInv, CallTypeOK, CacheEntry, ApiInv, Counted, ApiType, TypeOK
<1>. QED
  BY <1>1, ConnectInvariance, ApiInvariance, PTL

\* is_transient holds of every outage, and of nothing but network errors and
\* server errors.
LEMMA TransientIsBetween ==
    ASSUME NEW r \in Replies
    PROVE  /\ IsTransient(r) => Retryable(r)
           /\ Outage(r) => IsTransient(r)
<1>1. CASE r \in [error : SendErrors]
  BY <1>1 DEF TryOnce, IsTransient, Retryable, Outage, SendErrors
<1>2. CASE r \in [status : Statuses, body : Bodies]
  BY <1>2 DEF TryOnce, IsTransient, Retryable, Outage, Bodies
<1>. QED
  BY <1>1, <1>2 DEF Replies

\* However many retries there are, the next one comes after the doubled
\* sleep and only after a server or a network error, and an outage is returned
\* only after MAX_RETRIES repetitions.
THEOREM RetriesAreWellSpent == Spec => []RetriesWellSpent
<1>1. ApiInv => RetriesWellSpent
  <2> SUFFICES ASSUME ApiInv PROVE RetriesWellSpent
    OBVIOUS
  <2>1. /\ api.attempt \in 0 .. MaxRetries /\ api.backoff \in Nat
        /\ api.slept \in Seq(Nat) /\ Len(api.slept) = api.attempt
        /\ Doubles(Append(api.slept, api.backoff))
    BY DEF ApiInv, Counted, ApiType, SleepsDouble
  <2>2. Doubles(api.slept)
    <3> DEFINE t == Append(api.slept, api.backoff)
    <3>1. /\ Len(t) = Len(api.slept) + 1 /\ Len(api.slept) \in Nat
          /\ \A k \in 1 .. Len(api.slept) : t[k] = api.slept[k]
      BY <2>1
    <3>2. \A k \in 1 .. Len(t) : t[k] = IF k = 1 THEN 1 ELSE 2 * t[k - 1]
      BY <2>1 DEF Doubles
    <3> HIDE DEF t
    <3>3. ASSUME NEW k \in 1 .. Len(api.slept)
          PROVE  api.slept[k] = IF k = 1 THEN 1 ELSE 2 * api.slept[k - 1]
      BY <3>1, <3>2
    <3>. QED
      BY <3>3 DEF Doubles
  <2>3. api.pc = "backoff" \/ (api.pc = "posting" /\ api.attempt > 0) =>
            Retryable(api.reply)
    BY TransientIsBetween DEF ApiInv, Counted, FailureKept
  <2>4. api.pc = "err" /\ Outage(api.reply) => api.attempt = MaxRetries
    BY TransientIsBetween DEF ApiInv, Counted, FailureKept
  <2>. QED
    BY <2>1, <2>2, <2>3, <2>4 DEF RetriesWellSpent
<1>. QED
  BY <1>1, ApiInvariance, PTL

=============================================================================
