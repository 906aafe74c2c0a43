----------------------------- MODULE PoolProofs -----------------------------
(***************************************************************************)
(* Safety of the socket pool for any number of tasks and sockets, any TTL  *)
(* and any limit on the idle sockets.                                      *)
(***************************************************************************)
EXTENDS Pool, SequenceTheorems, TLAPS

\* A task in the middle of a request holds a real socket.
HoldersHold == \A t \in Tasks : Holds(t) => sock[t] \in Sockets

\* A socket is in one place: held by one task, or one entry of the pool. Two
\* requests are never interleaved on one connection.
NoSocketShared ==
    /\ \A t, u \in Tasks : Holds(t) /\ Holds(u) /\ sock[t] = sock[u] => t = u
    /\ \A k, m \in 1 .. Len(idle) : idle[k].stream = idle[m].stream => k = m
    /\ Held \cap Pooled = {}

PoolInv == PoolTypeOK /\ HoldersHold /\ NoSocketShared /\ OldestFirst

\* An entry of the vector is a socket with an age.
LEMMA EntryFacts ==
    ASSUME PoolTypeOK, NEW k \in 1 .. Len(idle)
    PROVE  idle[k] \in Entry /\ idle[k].stream \in Sockets /\ idle[k].age \in 0 .. AgeCap
<1>1. idle[k] \in Entry
  BY DEF PoolTypeOK
<1>. QED
  BY <1>1 DEF Entry

\* An acquire leaves a prefix of the vector as it was.
LEMMA PrefixFacts ==
    ASSUME NEW s \in Seq(Entry), NEW k \in 1 .. Len(s)
    PROVE  /\ SubSeq(s, 1, k - 1) \in Seq(Entry)
           /\ Len(SubSeq(s, 1, k - 1)) = k - 1
           /\ \A m \in 1 .. k - 1 : SubSeq(s, 1, k - 1)[m] = s[m]
OBVIOUS

\* A release adds one entry at the end and moves no other.
LEMMA AppendFacts ==
    ASSUME NEW s \in Seq(Entry), NEW e \in Entry
    PROVE  /\ Append(s, e) \in Seq(Entry)
           /\ Len(Append(s, e)) = Len(s) + 1
           /\ \A m \in 1 .. Len(s) : Append(s, e)[m] = s[m]
           /\ Append(s, e)[Len(s) + 1] = e
OBVIOUS

\* Time makes every entry older, and no entry overtakes another.
LEMMA TickFacts ==
    ASSUME PoolTypeOK, Tick
    PROVE  /\ idle' \in Seq(Entry) /\ Len(idle') = Len(idle)
           /\ \A k \in 1 .. Len(idle) :
                 /\ idle'[k].stream = idle[k].stream
                 /\ idle'[k].age = IF idle[k].age < AgeCap THEN idle[k].age + 1
                                                          ELSE idle[k].age
<1> DEFINE f == [k \in 1 .. Len(idle) |->
                  [idle[k] EXCEPT !.age = IF @ < AgeCap THEN @ + 1 ELSE @]]
<1>1. idle' = f /\ idle \in Seq(Entry) /\ Len(idle) \in Nat
  BY DEF Tick, PoolTypeOK
<1>2. ASSUME NEW k \in 1 .. Len(idle)
      PROVE  /\ f[k] \in Entry /\ f[k].stream = idle[k].stream
             /\ f[k].age = IF idle[k].age < AgeCap THEN idle[k].age + 1
                                                  ELSE idle[k].age
  <2>1. idle[k] \in Entry
    BY <1>1
  <2>. QED
    BY <2>1, TtlAssumption DEF Entry, AgeCap
<1>3. f \in Seq(Entry) /\ Len(f) = Len(idle)
  <2>1. f \in [1 .. Len(idle) -> Entry]
    BY <1>2
  <2>. QED
    BY <1>1, <2>1, IsASeq, LenProperties
<1>. QED
  BY <1>1, <1>2, <1>3

-----------------------------------------------------------------------------

\* The empty pool satisfies the invariant.
LEMMA PoolInitInv == PoolInit => PoolInv
<1> SUFFICES ASSUME PoolInit PROVE PoolInv
  OBVIOUS
<1>1. PoolTypeOK
  BY TtlAssumption, MaxIdleAssumption, KeepAliveAssumption
     DEF PoolInit, PoolTypeOK, TaskState
<1>2. HoldersHold /\ NoSocketShared /\ OldestFirst
  BY DEF PoolInit, HoldersHold, NoSocketShared, OldestFirst, Held, Pooled, Holds
<1>. QED
  BY <1>1, <1>2 DEF PoolInv

\* The vector never grows past max_idle, ages and tasks keep their types.
LEMMA PoolTypeStep == PoolInv /\ [PoolNext]_poolVars => PoolTypeOK' /\ HoldersHold'
<1> SUFFICES ASSUME PoolInv, [PoolNext]_poolVars
             PROVE  PoolTypeOK' /\ HoldersHold'
  OBVIOUS
<1>1. PoolTypeOK /\ HoldersHold
  BY DEF PoolInv
<1>2. /\ IdleTtl \in Nat /\ MaxIdle \in Nat /\ OriginKeepAlive \in Nat
      /\ NoSocket \notin Sockets
  BY TtlAssumption, MaxIdleAssumption, KeepAliveAssumption, NoSocketAssumption
<1> USE <1>1, <1>2 DEF PoolTypeOK, HoldersHold, Holds, TaskState
<1>3. CASE UNCHANGED poolVars
  BY <1>3 DEF poolVars
<1>4. ASSUME NEW t \in Tasks, AcquireHit(t)
      PROVE  PoolTypeOK' /\ HoldersHold'
  <2>1. PICK k \in 1 .. Len(idle) :
          /\ idle' = SubSeq(idle, 1, k - 1)
          /\ sock' = [sock EXCEPT ![t] = idle[k].stream]
          /\ originAge' = [originAge EXCEPT ![idle[k].stream] = 0]
    BY <1>4 DEF AcquireHit
  <2>2. idle[k].stream \in Sockets
    BY EntryFacts
  <2>3. idle' \in Seq(Entry) /\ Len(idle') <= MaxIdle
    BY <2>1, PrefixFacts
  <2>. QED
    BY <1>4, <2>1, <2>2, <2>3 DEF AcquireHit
<1>5. ASSUME NEW t \in Tasks, AcquireMiss(t)
      PROVE  PoolTypeOK' /\ HoldersHold'
  BY <1>5 DEF AcquireMiss
<1>6. ASSUME NEW t \in Tasks, ConnectOk(t)
      PROVE  PoolTypeOK' /\ HoldersHold'
  BY <1>6 DEF ConnectOk
<1>7. ASSUME NEW t \in Tasks, ConnectErr(t)
      PROVE  PoolTypeOK' /\ HoldersHold'
  BY <1>7 DEF ConnectErr
<1>8. ASSUME NEW t \in Tasks, Release(t)
      PROVE  PoolTypeOK' /\ HoldersHold'
  <2> DEFINE e == [stream |-> sock[t], age |-> 0]
  <2>1. e \in Entry
    BY <1>8 DEF Release, Entry, AgeCap
  <2>2. idle' \in Seq(Entry) /\ Len(idle') <= MaxIdle
    BY <1>8, <2>1, AppendFacts DEF Release
  <2>. QED
    BY <1>8, <2>2 DEF Release, LetGo
<1>9. ASSUME NEW t \in Tasks, Discard(t)
      PROVE  PoolTypeOK' /\ HoldersHold'
  BY <1>9 DEF Discard, LetGo
<1>10. ASSUME NEW t \in Tasks, NEW b \in BOOLEAN, OriginResponds(t, b)
       PROVE  PoolTypeOK' /\ HoldersHold'
  BY <1>10 DEF OriginResponds
<1>11. ASSUME NEW s \in Sockets, OriginTimesOut(s)
       PROVE  PoolTypeOK' /\ HoldersHold'
  BY <1>11 DEF OriginTimesOut
<1>12. CASE Tick
  <2>1. idle' \in Seq(Entry) /\ Len(idle') <= MaxIdle
    BY <1>12, TickFacts
  <2>2. originAge' \in [Sockets -> 0 .. OriginKeepAlive]
    BY <1>12 DEF Tick
  <2>. QED
    BY <1>12, <2>1, <2>2 DEF Tick
<1>. QED
  BY <1>3, <1>4, <1>5, <1>6, <1>7, <1>8, <1>9, <1>10, <1>11, <1>12
     DEF PoolNext, TaskStep

\* Releases append at age zero, time keeps the order, acquires cut a prefix.
LEMMA OldestFirstStep == PoolInv /\ [PoolNext]_poolVars => OldestFirst'
<1> SUFFICES ASSUME PoolInv, [PoolNext]_poolVars
             PROVE  OldestFirst'
  OBVIOUS
<1>1. PoolTypeOK /\ OldestFirst /\ HoldersHold
  BY DEF PoolInv
<1>2. \A k \in 1 .. Len(idle) : idle[k].age \in 0 .. AgeCap
  BY <1>1, EntryFacts
<1>3. Len(idle) \in Nat /\ idle \in Seq(Entry) /\ AgeCap \in Nat
  BY <1>1, TtlAssumption DEF PoolTypeOK, AgeCap
<1>4. CASE UNCHANGED idle
  BY <1>1, <1>4 DEF OldestFirst
<1>5. ASSUME NEW t \in Tasks, AcquireHit(t) \/ AcquireMiss(t)
      PROVE  OldestFirst'
  <2>1. CASE AcquireHit(t)
    <3>1. PICK k \in 1 .. Len(idle) : idle' = SubSeq(idle, 1, k - 1)
      BY <2>1 DEF AcquireHit
    <3>. QED
      BY <1>1, <1>3, <3>1, PrefixFacts DEF OldestFirst
  <2>2. CASE AcquireMiss(t)
    BY <2>2 DEF AcquireMiss, OldestFirst
  <2>. QED
    BY <1>5, <2>1, <2>2
<1>6. ASSUME NEW t \in Tasks, Release(t), idle' # idle
      PROVE  OldestFirst'
  <2> DEFINE e == [stream |-> sock[t], age |-> 0]
  <2>1. e \in Entry /\ e.age = 0
    BY <1>1, <1>3, <1>6 DEF Release, HoldersHold, Holds, Entry
  <2>2. idle' = Append(idle, e)
    BY <1>6 DEF Release
  <2> HIDE DEF e
  <2>3. /\ Len(idle') = Len(idle) + 1 /\ idle'[Len(idle) + 1] = e
        /\ \A k \in 1 .. Len(idle) : idle'[k] = idle[k]
    BY <1>3, <2>1, <2>2, AppendFacts
  <2>4. ASSUME NEW k \in 1 .. Len(idle'), NEW m \in 1 .. Len(idle'), k < m
        PROVE  idle'[k].age >= idle'[m].age
    <3>1. k \in 1 .. Len(idle)
      BY <1>3, <2>3, <2>4
    <3>2. CASE m = Len(idle) + 1
      BY <1>2, <1>3, <2>1, <2>3, <3>1, <3>2
    <3>3. CASE m \in 1 .. Len(idle)
      BY <1>1, <2>3, <2>4, <3>1, <3>3 DEF OldestFirst
    <3>. QED
      BY <1>3, <2>3, <3>2, <3>3
  <2>. QED
    BY <2>4 DEF OldestFirst
<1>7. CASE Tick
  <2>1. ASSUME NEW k \in 1 .. Len(idle), NEW m \in 1 .. Len(idle), k < m
        PROVE  idle'[k].age >= idle'[m].age
    <3>1. idle[k].age >= idle[m].age
      BY <1>1, <2>1 DEF OldestFirst
    <3>. QED
      BY <1>1, <1>2, <1>3, <1>7, <3>1, TickFacts
  <2>. QED
    BY <1>1, <1>7, <2>1, TickFacts DEF OldestFirst
<1>. QED
  BY <1>4, <1>5, <1>6, <1>7 DEF PoolNext, TaskStep, poolVars, ConnectOk, ConnectErr,
     Discard, OriginResponds, OriginTimesOut

-----------------------------------------------------------------------------
(* Exclusive use of the sockets.                                           *)

\* NoSocketShared without its sets.
Exclusive ==
    /\ \A t, u \in Tasks : Holds(t) /\ Holds(u) /\ sock[t] = sock[u] => t = u
    /\ \A k, m \in 1 .. Len(idle) : idle[k].stream = idle[m].stream => k = m
    /\ \A t \in Tasks : \A k \in 1 .. Len(idle) : Holds(t) => sock[t] # idle[k].stream

\* The two ways of saying it agree where tasks hold real sockets.
LEMMA ExclusiveIsNotShared ==
    ASSUME HoldersHold PROVE NoSocketShared <=> Exclusive
BY DEF HoldersHold, NoSocketShared, Exclusive, Held, Pooled

\* Popping, connecting, releasing and dropping move a socket, never copy it.
LEMMA ExclusiveStep == PoolInv /\ [PoolNext]_poolVars => Exclusive'
<1> SUFFICES ASSUME PoolInv, [PoolNext]_poolVars
             PROVE  Exclusive'
  OBVIOUS
<1>1. PoolTypeOK /\ HoldersHold /\ Exclusive
  BY ExclusiveIsNotShared DEF PoolInv
<1>2. Len(idle) \in Nat /\ idle \in Seq(Entry)
  BY <1>1 DEF PoolTypeOK
<1>3. state \in [Tasks -> TaskState] /\ sock \in [Tasks -> Sockets \cup {NoSocket}]
  BY <1>1 DEF PoolTypeOK
<1>4. CASE UNCHANGED poolVars
  BY <1>1, <1>4 DEF poolVars, Exclusive, Holds
<1>5. ASSUME NEW t \in Tasks, AcquireHit(t)
      PROVE  Exclusive'
  <2>1. PICK k \in 1 .. Len(idle) :
          /\ idle' = SubSeq(idle, 1, k - 1)
          /\ sock' = [sock EXCEPT ![t] = idle[k].stream]
    BY <1>5 DEF AcquireHit
  <2>2. /\ Len(idle') = k - 1
        /\ \A m \in 1 .. k - 1 : idle'[m] = idle[m] /\ m \in 1 .. Len(idle) /\ m # k
    BY <1>2, <2>1, PrefixFacts
  <2>3. /\ \A u \in Tasks : Holds(u)' => u = t \/ Holds(u)
        /\ \A u \in Tasks : u # t => sock'[u] = sock[u]
        /\ sock'[t] = idle[k].stream /\ ~Holds(t)
    BY <1>3, <1>5, <2>1 DEF AcquireHit, Holds
  <2>4. \A u \in Tasks : Holds(u) => sock[u] # idle[k].stream
    BY <1>1 DEF Exclusive
  <2>. QED
    BY <1>1, <2>2, <2>3, <2>4 DEF Exclusive
<1>6. ASSUME NEW t \in Tasks, AcquireMiss(t) \/ ConnectErr(t)
      PROVE  Exclusive'
  <2>1. /\ \A u \in Tasks : Holds(u)' => Holds(u)
        /\ sock' = sock /\ (idle' = idle \/ idle' = <<>>)
    BY <1>3, <1>6 DEF AcquireMiss, ConnectErr, Holds
  <2>. QED
    BY <1>1, <2>1 DEF Exclusive
<1>7. ASSUME NEW t \in Tasks, ConnectOk(t)
      PROVE  Exclusive'
  <2>1. PICK s \in Sockets \ (Held \cup Pooled) : sock' = [sock EXCEPT ![t] = s]
    BY <1>7 DEF ConnectOk
  <2>2. /\ \A u \in Tasks : Holds(u) => sock[u] # s
        /\ \A k \in 1 .. Len(idle) : idle[k].stream # s
    BY <2>1 DEF Held, Pooled
  <2>3. /\ \A u \in Tasks : Holds(u)' => u = t \/ Holds(u)
        /\ \A u \in Tasks : u # t => sock'[u] = sock[u]
        /\ sock'[t] = s /\ idle' = idle
    BY <1>3, <1>7, <2>1 DEF ConnectOk, Holds
  <2>. QED
    BY <1>1, <2>2, <2>3 DEF Exclusive
<1>8. ASSUME NEW t \in Tasks, Release(t)
      PROVE  Exclusive'
  <2> DEFINE e == [stream |-> sock[t], age |-> 0]
  <2>1. /\ \A u \in Tasks : Holds(u)' => u # t /\ Holds(u) /\ sock'[u] = sock[u]
        /\ Holds(t)
    BY <1>3, <1>8 DEF Release, LetGo, Holds
  <2>2. CASE idle' = idle
    BY <1>1, <2>1, <2>2 DEF Exclusive
  <2>3. CASE idle' = Append(idle, e)
    <3>1. e \in Entry /\ e.stream = sock[t]
      BY <1>1, <2>1, TtlAssumption DEF HoldersHold, Entry, AgeCap
    <3> HIDE DEF e
    <3>2. /\ Len(idle') = Len(idle) + 1 /\ idle'[Len(idle) + 1] = e
          /\ \A k \in 1 .. Len(idle) : idle'[k] = idle[k]
      BY <1>2, <2>3, <3>1, AppendFacts
    <3>3. \A k \in 1 .. Len(idle') : k \in 1 .. Len(idle) \/ k = Len(idle) + 1
      BY <1>2, <3>2
    <3>. QED
      BY <1>1, <2>1, <3>1, <3>2, <3>3 DEF Exclusive
  <2>. QED
    BY <1>8, <2>2, <2>3 DEF Release
<1>9. ASSUME NEW t \in Tasks, NEW b \in BOOLEAN, Discard(t) \/ OriginResponds(t, b)
      PROVE  Exclusive'
  <2>1. /\ \A u \in Tasks : Holds(u)' => Holds(u) /\ sock'[u] = sock[u]
        /\ idle' = idle
    BY <1>3, <1>9 DEF Discard, LetGo, OriginResponds, Holds
  <2>. QED
    BY <1>1, <2>1 DEF Exclusive
<1>10. ASSUME NEW s \in Sockets, OriginTimesOut(s)
       PROVE  Exclusive'
  BY <1>1, <1>10 DEF OriginTimesOut, Exclusive, Holds
<1>11. CASE Tick
  <2>1. UNCHANGED <<state, sock>>
    BY <1>11 DEF Tick
  <2>2. Len(idle') = Len(idle) /\ \A k \in 1 .. Len(idle) : idle'[k].stream = idle[k].stream
    BY <1>1, <1>11, TickFacts
  <2>. QED
    BY <1>1, <2>1, <2>2 DEF Exclusive, Holds
<1>. QED
  BY <1>4, <1>5, <1>6, <1>7, <1>8, <1>9, <1>10, <1>11 DEF PoolNext, TaskStep

-----------------------------------------------------------------------------

\* Every step of a task, of the origin and of the clock keeps the invariant.
LEMMA PoolInvStep == PoolInv /\ [PoolNext]_poolVars => PoolInv'
<1> SUFFICES ASSUME PoolInv, [PoolNext]_poolVars PROVE PoolInv'
  OBVIOUS
<1>1. PoolTypeOK' /\ HoldersHold' /\ OldestFirst' /\ Exclusive'
  BY PoolTypeStep, OldestFirstStep, ExclusiveStep
<1>2. NoSocketShared'
  BY <1>1 DEF HoldersHold, NoSocketShared, Exclusive, Held, Pooled
<1>. QED
  BY <1>1, <1>2 DEF PoolInv

\* The inductive invariant holds in every reachable state of the pool.
THEOREM PoolInvariance == PoolSpec => []PoolInv
BY PoolInitInv, PoolInvStep, PTL DEF PoolSpec

\* Type correctness, the cap of max_idle on the idle sockets included.
THEOREM PoolTypeCorrect == PoolSpec => []PoolTypeOK
<1>1. PoolInv => PoolTypeOK
  BY DEF PoolInv
<1>. QED
  BY <1>1, PoolInvariance, PTL

\* The vector stays ordered by release time.
THEOREM PoolIsOldestFirst == PoolSpec => []OldestFirst
<1>1. PoolInv => OldestFirst
  BY DEF PoolInv
<1>. QED
  BY <1>1, PoolInvariance, PTL

\* The body of FreshNeverWasted for one task.
WastesNothing(t) ==
    state[t] = "new" /\ state'[t] # "new" =>
        \A k \in 1 .. Len(idle) :
            Fresh(k) => /\ state'[t] = "using"
                        /\ \/ sock'[t] = idle[k].stream
                           \/ k \in 1 .. Len(idle') /\ idle'[k] = idle[k]

\* acquire connects only when nothing fresh is pooled and discards nothing
\* fresh.
THEOREM AcquireWastesNothing == PoolSpec => FreshNeverWasted
<1>1. ASSUME PoolInv, [PoolNext]_poolVars, NEW t \in Tasks PROVE WastesNothing(t)
  <2>1. /\ idle \in Seq(Entry) /\ Len(idle) \in Nat
        /\ state \in [Tasks -> TaskState] /\ sock \in [Tasks -> Sockets \cup {NoSocket}]
    BY <1>1 DEF PoolInv, PoolTypeOK
  <2>2. CASE AcquireHit(t)
    <3>1. PICK k \in 1 .. Len(idle) :
            /\ \A m \in k + 1 .. Len(idle) : ~Fresh(m)
            /\ idle' = SubSeq(idle, 1, k - 1)
            /\ sock' = [sock EXCEPT ![t] = idle[k].stream]
      BY <2>2 DEF AcquireHit
    <3>2. state'[t] = "using" /\ sock'[t] = idle[k].stream
      BY <2>1, <2>2, <3>1 DEF AcquireHit
    <3>3. Len(idle') = k - 1 /\ \A m \in 1 .. k - 1 : idle'[m] = idle[m]
      BY <2>1, <3>1, PrefixFacts
    <3>4. ASSUME NEW m \in 1 .. Len(idle), Fresh(m)
          PROVE  m = k \/ m \in 1 .. k - 1
      BY <2>1, <3>1, <3>4
    <3>. QED
      BY <3>2, <3>3, <3>4 DEF WastesNothing
  <2>3. CASE AcquireMiss(t)
    BY <2>3 DEF AcquireMiss, WastesNothing
  <2>4. CASE ~AcquireHit(t) /\ ~AcquireMiss(t)
    <3>1. state[t] = "new" => state'[t] = "new"
      BY <1>1, <2>1, <2>4 DEF PoolNext, TaskStep, poolVars, AcquireHit, AcquireMiss,
         ConnectOk, ConnectErr, Release, Discard, LetGo, Holds,
         OriginResponds, OriginTimesOut, Tick
    <3>. QED
      BY <3>1 DEF WastesNothing
  <2>. QED
    BY <2>2, <2>3, <2>4
<1>2. PoolInv /\ [PoolNext]_poolVars => [\A t \in Tasks : WastesNothing(t)]_poolVars
  BY <1>1
<1>3. [\A t \in Tasks : WastesNothing(t)]_poolVars =>
          [\A t \in Tasks :
             state[t] = "new" /\ state'[t] # "new" =>
                 \A k \in 1 .. Len(idle) :
                     Fresh(k) => /\ state'[t] = "using"
                                 /\ \/ sock'[t] = idle[k].stream
                                    \/ k \in 1 .. Len(idle') /\ idle'[k] = idle[k]]_poolVars
  BY DEF WastesNothing
<1>. QED
  BY <1>2, <1>3, PoolInvariance, PTL DEF PoolSpec, FreshNeverWasted

=============================================================================
