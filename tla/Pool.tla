-------------------------------- MODULE Pool --------------------------------
(***************************************************************************)
(* The pool of idle keep-alive sockets to the local origin (src/pool.rs),  *)
(* shared by the proxy tasks of every leg, and as much of the origin as    *)
(* decides whether a pooled socket still works.                            *)
(*                                                                         *)
(* Both operations hold the mutex over a section without an await, so each *)
(* is one step; only the connect of a miss happens outside. The code reads *)
(* released_at only through elapsed(): an entry carries its age. Ages past *)
(* AgeCap are not told apart, so time itself is unbounded.                 *)
(***************************************************************************)
EXTENDS Integers, Sequences, FiniteSets

CONSTANTS Tasks,            \* proxy tasks, one per inbound stream
          Sockets,          \* names for TCP connections to the origin
          NoSocket,         \* what a task holds that has none
          IdleTtl,          \* DEFAULT_IDLE_TTL
          MaxIdle,          \* DEFAULT_MAX_IDLE
          OriginKeepAlive   \* the origin closes a socket idle for this long

ASSUME NoSocketAssumption == NoSocket \notin Sockets
ASSUME TtlAssumption == IdleTtl \in Nat
ASSUME MaxIdleAssumption == MaxIdle \in Nat
ASSUME KeepAliveAssumption == OriginKeepAlive \in Nat

AgeCap == IdleTtl + 1

VARIABLES
    idle,       \* Mutex<Vec<Idle>>: the last entry was released last
    state,      \* what each task is doing
    sock,       \* the socket a task holds
    originAge,  \* how long the origin has been done with a socket
    closed      \* sockets the origin has closed

poolVars == <<idle, state, sock, originAge, closed>>

Entry == [stream : Sockets, age : 0 .. AgeCap]
\* "using": the origin works on the request; "relaying": it is done with the
\* request, and the task is still passing its response on.
TaskState == {"new", "connecting", "using", "relaying"}

Holds(t) == state[t] \in {"using", "relaying"}
Held == {s \in Sockets : \E t \in Tasks : Holds(t) /\ sock[t] = s}
Pooled == {idle[k].stream : k \in 1 .. Len(idle)}
Fresh(k) == idle[k].age <= IdleTtl

PoolTypeOK ==
    /\ idle \in Seq(Entry)
    /\ Len(idle) <= MaxIdle
    /\ state \in [Tasks -> TaskState]
    /\ sock \in [Tasks -> Sockets \cup {NoSocket}]
    /\ originAge \in [Sockets -> 0 .. OriginKeepAlive]
    /\ closed \in SUBSET Sockets

PoolInit ==
    /\ idle = <<>>
    /\ state = [t \in Tasks |-> "new"]
    /\ sock = [t \in Tasks |-> NoSocket]
    /\ originAge = [s \in Sockets |-> 0]
    /\ closed = {}

\* acquire: pop stale entries off the end until one is fresh; take that one.
AcquireHit(t) ==
    /\ state[t] = "new"
    /\ \E k \in 1 .. Len(idle) :
          /\ Fresh(k) /\ \A m \in k + 1 .. Len(idle) : ~Fresh(m)
          /\ idle' = SubSeq(idle, 1, k - 1)
          /\ sock' = [sock EXCEPT ![t] = idle[k].stream]
          /\ originAge' = [originAge EXCEPT ![idle[k].stream] = 0]
    /\ state' = [state EXCEPT ![t] = "using"]
    /\ UNCHANGED closed

\* Seeded fault: first() for last(), a stale oldest entry empties the pool.
AcquireMissOnStaleOldest(t) ==
    /\ state[t] = "new"
    /\ idle # <<>> => ~Fresh(1)
    /\ idle' = <<>>
    /\ state' = [state EXCEPT ![t] = "connecting"]
    /\ UNCHANGED <<sock, originAge, closed>>

\* acquire: every entry was stale; the lock is released, then connect.
AcquireMiss(t) ==
    /\ state[t] = "new"
    /\ \A k \in 1 .. Len(idle) : ~Fresh(k)
    /\ idle' = <<>>
    /\ state' = [state EXCEPT ![t] = "connecting"]
    /\ UNCHANGED <<sock, originAge, closed>>

\* TcpStream::connect: a connection nobody holds and the pool does not have.
ConnectOk(t) ==
    /\ state[t] = "connecting"
    /\ \E s \in Sockets \ (Held \cup Pooled) :
          /\ sock' = [sock EXCEPT ![t] = s]
          /\ originAge' = [originAge EXCEPT ![s] = 0]
          /\ closed' = closed \ {s}
    /\ state' = [state EXCEPT ![t] = "using"]
    /\ UNCHANGED idle

\* acquire returns the io::Error, the stream gets its 502.
ConnectErr(t) ==
    /\ state[t] = "connecting"
    /\ state' = [state EXCEPT ![t] = "new"]
    /\ UNCHANGED <<idle, sock, originAge, closed>>

LetGo(t) ==
    /\ state' = [state EXCEPT ![t] = "new"]
    /\ sock' = [sock EXCEPT ![t] = NoSocket]

\* Seeded fault: > for >=.
ReleaseOffByOne(t) ==
    /\ Holds(t)
    /\ idle' = IF Len(idle) > MaxIdle THEN idle
               ELSE Append(idle, [stream |-> sock[t], age |-> 0])
    /\ LetGo(t)
    /\ UNCHANGED <<originAge, closed>>

\* release: drop the socket on overflow.
Release(t) ==
    /\ Holds(t)
    /\ idle' = IF Len(idle) >= MaxIdle THEN idle
               ELSE Append(idle, [stream |-> sock[t], age |-> 0])
    /\ LetGo(t)
    /\ UNCHANGED <<originAge, closed>>

\* The proxy drops a socket it may not reuse, or fails on.
Discard(t) ==
    /\ Holds(t)
    /\ LetGo(t)
    /\ UNCHANGED <<idle, originAge, closed>>

-----------------------------------------------------------------------------
(* The origin and time.                                                    *)

\* The last byte of the response is written: the keep-alive timer starts, or
\* the origin closes the socket right away.
OriginResponds(t, closes) ==
    /\ state[t] = "using"
    /\ state' = [state EXCEPT ![t] = "relaying"]
    /\ closed' = IF closes THEN closed \cup {sock[t]} ELSE closed
    /\ UNCHANGED <<idle, sock, originAge>>

\* Sockets whose keep-alive timer is running.
OriginDone == Pooled \cup {s \in Sockets :
                  \E t \in Tasks : state[t] = "relaying" /\ sock[t] = s}

OriginTimesOut(s) ==
    /\ s \in OriginDone /\ originAge[s] = OriginKeepAlive
    /\ closed' = closed \cup {s}
    /\ UNCHANGED <<idle, state, sock, originAge>>

\* The timer of a closed socket has stopped, and the name of a socket that
\* was dropped means nothing any more.
Tick ==
    /\ idle' = [k \in 1 .. Len(idle) |->
                  [idle[k] EXCEPT !.age = IF @ < AgeCap THEN @ + 1 ELSE @]]
    /\ originAge' = [s \in Sockets |->
                       IF s \notin OriginDone THEN 0
                       ELSE IF s \notin closed /\ originAge[s] < OriginKeepAlive
                              THEN originAge[s] + 1 ELSE originAge[s]]
    /\ closed' = closed \cap (Pooled \cup Held)
    /\ UNCHANGED <<state, sock>>

TaskStep(t) ==
    \/ AcquireHit(t) \/ AcquireMiss(t) \/ ConnectOk(t) \/ ConnectErr(t)
    \/ Release(t) \/ Discard(t)
    \/ \E closes \in BOOLEAN : OriginResponds(t, closes)

PoolNext ==
    \/ \E t \in Tasks : TaskStep(t)
    \/ \E s \in Sockets : OriginTimesOut(s)
    \/ Tick

PoolSpec == PoolInit /\ [][PoolNext]_poolVars

-----------------------------------------------------------------------------
(* Properties                                                              *)

\* The vector is ordered by release time, oldest first: what makes it sound
\* for acquire to look at the end only.
OldestFirst ==
    \A k, m \in 1 .. Len(idle) : k < m => idle[k].age >= idle[m].age

\* An acquire opens a new connection only if no pooled one was fresh, and it
\* throws no fresh one away: what it takes out it hands out, or was stale.
FreshNeverWasted ==
    [][\A t \in Tasks :
          state[t] = "new" /\ state'[t] # "new" =>
              \A k \in 1 .. Len(idle) :
                  Fresh(k) => /\ state'[t] = "using"
                              /\ \/ sock'[t] = idle[k].stream
                                 \/ k \in 1 .. Len(idle') /\ idle'[k] = idle[k]]_poolVars

=============================================================================
