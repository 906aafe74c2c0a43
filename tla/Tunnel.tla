------------------------------- MODULE Tunnel -------------------------------
(***************************************************************************)
(* The tunnel manager (src/manager.rs) and the accept loop it runs         *)
(* (src/supervisor.rs): start(), one reactor task per HA leg with its      *)
(* reconnect loop, the shared Notify that carries the shutdown signal, and *)
(* the QuickTunnelHandle. The legs are the owners of the sessions of       *)
(* module ControlSession, whose driver threads and edge run beside them.   *)
(*                                                                         *)
(* A Notified future hears a notify_waiters call only if it was created    *)
(* before the call. A leg holds one in exactly two places, its accept loop *)
(* and its backoff; notified[i] says that it has been completed.           *)
(***************************************************************************)
EXTENDS ControlSession

CONSTANTS MaxReconnectAttempts,  \* MAX_RECONNECT_ATTEMPTS
          MaxStreams             \* bound: inbound streams in one behaviour

ASSUME AttemptsAssumption == MaxReconnectAttempts \in Nat
ASSUME MaxStreamsAssumption == MaxStreams \in Nat

VARIABLES
    handle,      \* start() and the QuickTunnelHandle it returns
    joinAt,      \* shutdown_with: the reactor whose JoinHandle it awaits
    pc,          \* where each leg's task is
    phase,       \* which call of connect_cycle the leg makes next or now
    attempt,     \* the loop counter of the reconnect and retry loops
    dials,       \* how many connections the leg has dialled
    notified,    \* the leg's current Notified future has completed
    reconnects,  \* the AtomicU64 behind TunnelMetrics.reconnects
    inflight,    \* proxied streams of a connection whose task still runs
    streams,     \* SupervisorMetrics.streams_total
    fails        \* history: failed connect cycles since the last success

legVars == <<pc, phase, attempt, dials, notified, reconnects, fails>>
handleVars == <<handle, joinAt>>
streamVars == <<inflight, streams>>
vars == <<sessionVars, legVars, handleVars, streamVars>>

HandleState == {"posting", "starting", "failed", "live", "joining", "closed",
                "dropped"}
LegState == {"unspawned", "dialing", "registering", "ready", "supervising",
             "lost", "backoff", "draining", "stopped", "gaveup"}
\* "start": inside start(); "first": an HA task's own first cycle; "retry":
\* reactor_loop_after_failure; "reconnect": reactor_loop.
Phase == {"start", "first", "retry", "reconnect"}

TypeOK ==
    /\ SessionTypeOK
    /\ handle \in HandleState
    /\ joinAt \in 0 .. HA
    /\ pc \in [Legs -> LegState]
    /\ phase \in [Legs -> Phase]
    /\ attempt \in [Legs -> 0 .. MaxReconnectAttempts + 1]
    /\ dials \in [Legs -> 0 .. MaxDials]
    /\ notified \in [Legs -> BOOLEAN]
    /\ reconnects \in Nat
    /\ inflight \in [Conns -> 0 .. MaxStreams]
    /\ streams \in 0 .. MaxStreams
    /\ fails \in [Legs -> 0 .. MaxReconnectAttempts + 1]

Init ==
    /\ SessionInit
    /\ handle = "posting" /\ joinAt = 0
    /\ pc = [i \in Legs |-> "unspawned"]
    /\ phase = [i \in Legs |-> IF i = 0 THEN "start" ELSE "first"]
    /\ attempt = [i \in Legs |-> 0]
    /\ dials = [i \in Legs |-> 0]
    /\ notified = [i \in Legs |-> FALSE]
    /\ reconnects = 0
    /\ inflight = [c \in Conns |-> 0]
    /\ streams = 0
    /\ fails = [i \in Legs |-> 0]

\* The connection the leg dialled last; meaningful once dials[i] > 0.
Cur(i) == <<i, dials[i]>>
\* The leg holds a Notified future that has been registered.
Waiting(i) == pc[i] \in {"supervising", "backoff"}
Finished(i) == pc[i] \in {"stopped", "gaveup"}

Goto(i, l) == pc' = [pc EXCEPT ![i] = l]

-----------------------------------------------------------------------------
(* start(): POST /tunnel, then the first connect cycle of leg 0.           *)

PostOk ==
    /\ handle = "posting"
    /\ handle' = "starting"
    /\ Goto(0, "dialing")
    /\ UNCHANGED <<sessionVars, joinAt, phase, attempt, dials, notified,
                   reconnects, fails, streamVars>>

PostFails ==
    /\ handle = "posting"
    /\ handle' = "failed"
    /\ UNCHANGED <<sessionVars, joinAt, legVars, streamVars>>

\* Seeded fault: a register call in progress is left running.
StartTimeoutDetaches ==
    /\ handle \in {"posting", "starting"}
    /\ handle' = "failed"
    /\ pc' = [pc EXCEPT ![0] = "unspawned"]
    /\ UNCHANGED <<sessionVars, joinAt, phase, attempt, dials, notified,
                   reconnects, fails, streamVars>>

\* discovery_timeout, or the caller drops the future of start(): whatever
\* start_inner was awaiting is cancelled with it.
StartTimeout ==
    /\ handle \in {"posting", "starting"}
    /\ handle' = "failed"
    /\ pc' = [pc EXCEPT ![0] = "unspawned"]
    /\ IF pc[0] = "registering" THEN RegisterCancel(Cur(0))
                                ELSE UNCHANGED sessionVars
    /\ UNCHANGED <<joinAt, phase, attempt, dials, notified, reconnects, fails,
                   streamVars>>

-----------------------------------------------------------------------------
(* connect_cycle, called in one of four places.                            *)

\* What the caller does with an Err: start() returns it, the others loop.
ConnectErr(i) ==
    /\ fails' = [fails EXCEPT ![i] = @ + 1]
    /\ IF phase[i] = "start"
         THEN Goto(i, "unspawned") /\ handle' = "failed"
         ELSE Goto(i, "lost") /\ UNCHANGED handle
    /\ phase' = [phase EXCEPT ![i] = IF @ = "first" THEN "retry" ELSE @]
    /\ UNCHANGED <<joinAt, attempt, dials, notified, reconnects, streamVars>>

\* discover or dial_any fails, or open_bi does.
DialFails(i) ==
    /\ pc[i] = "dialing"
    /\ ConnectErr(i)
    /\ UNCHANGED sessionVars

\* Seeded fault: replace_existing is never set.
DialOkNeverReplaces(i) ==
    /\ pc[i] = "dialing" /\ dials[i] < MaxDials
    /\ dials' = [dials EXCEPT ![i] = @ + 1]
    /\ RegisterBegin(<<i, dials[i] + 1>>, FALSE)
    /\ Goto(i, "registering")
    /\ UNCHANGED <<handleVars, phase, attempt, notified, reconnects, fails,
                   streamVars>>

\* Seeded fault: every call of connect_cycle but the first one replaces.
DialOkReplacesRetries(i) ==
    /\ pc[i] = "dialing" /\ dials[i] < MaxDials
    /\ dials' = [dials EXCEPT ![i] = @ + 1]
    /\ RegisterBegin(<<i, dials[i] + 1>>, phase[i] \in {"retry", "reconnect"})
    /\ Goto(i, "registering")
    /\ UNCHANGED <<handleVars, phase, attempt, notified, reconnects, fails,
                   streamVars>>

\* A connection with its control stream; register_connection now awaits.
DialOk(i) ==
    /\ pc[i] = "dialing" /\ dials[i] < MaxDials
    /\ dials' = [dials EXCEPT ![i] = @ + 1]
    /\ RegisterBegin(<<i, dials[i] + 1>>, phase[i] = "reconnect")
    /\ Goto(i, "registering")
    /\ UNCHANGED <<handleVars, phase, attempt, notified, reconnects, fails,
                   streamVars>>

RegisterFails(i) ==
    /\ pc[i] = "registering"
    /\ RegisterErr(Cur(i)) \/ RegisterTimeout(Cur(i))
    /\ ConnectErr(i)

\* Seeded fault: the first registration counts as a reconnect.
RegisterSucceedsAlwaysCounts(i) ==
    /\ pc[i] = "registering"
    /\ RegisterOk(Cur(i))
    /\ phase' = [phase EXCEPT ![i] = "reconnect"]
    /\ reconnects' = reconnects + 1
    /\ fails' = [fails EXCEPT ![i] = 0]
    /\ IF phase[i] = "start"
         THEN /\ handle' = "live"
              /\ pc' = [j \in Legs |-> IF j = 0 THEN "ready" ELSE "dialing"]
         ELSE /\ UNCHANGED handle
              /\ Goto(i, "ready")
    /\ UNCHANGED <<joinAt, attempt, dials, notified, streamVars>>

\* Seeded fault: a first registration that comes late counts as well.
RegisterSucceedsCountsLate(i) ==
    /\ pc[i] = "registering"
    /\ RegisterOk(Cur(i))
    /\ phase' = [phase EXCEPT ![i] = "reconnect"]
    /\ reconnects' = IF phase[i] \in {"retry", "reconnect"} THEN reconnects + 1
                     ELSE reconnects
    /\ fails' = [fails EXCEPT ![i] = 0]
    /\ IF phase[i] = "start"
         THEN /\ handle' = "live"
              /\ pc' = [j \in Legs |-> IF j = 0 THEN "ready" ELSE "dialing"]
         ELSE /\ UNCHANGED handle
              /\ Goto(i, "ready")
    /\ UNCHANGED <<joinAt, attempt, dials, notified, streamVars>>

\* The leg enters (or re-enters) reactor_loop. For leg 0 this is also the
\* end of start(): the other legs are spawned and the handle is returned.
RegisterSucceeds(i) ==
    /\ pc[i] = "registering"
    /\ RegisterOk(Cur(i))
    /\ phase' = [phase EXCEPT ![i] = "reconnect"]
    /\ reconnects' = IF phase[i] = "reconnect" THEN reconnects + 1 ELSE reconnects
    /\ fails' = [fails EXCEPT ![i] = 0]
    /\ IF phase[i] = "start"
         THEN /\ handle' = "live"
              /\ pc' = [j \in Legs |-> IF j = 0 THEN "ready" ELSE "dialing"]
         ELSE /\ UNCHANGED handle
              /\ Goto(i, "ready")
    /\ UNCHANGED <<joinAt, attempt, dials, notified, streamVars>>

-----------------------------------------------------------------------------
(* reactor_loop and supervisor::run.                                       *)

\* Top of the loop: shutdown.notified(), then the biased select.
Supervise(i) ==
    /\ pc[i] = "ready"
    /\ Goto(i, "supervising")
    /\ notified' = [notified EXCEPT ![i] = FALSE]
    /\ UNCHANGED <<sessionVars, handleVars, phase, attempt, dials, reconnects,
                   fails, streamVars>>

\* accept_bi yields a stream: count it and spawn its proxy task.
AcceptStream(i) ==
    /\ pc[i] = "supervising" /\ ~notified[i]
    /\ link[Cur(i)] # "down"
    /\ streams < MaxStreams
    /\ streams' = streams + 1
    /\ inflight' = [inflight EXCEPT ![Cur(i)] = @ + 1]
    /\ UNCHANGED <<sessionVars, handleVars, legVars>>

\* A proxy task ends; it is detached, nobody awaits it.
StreamEnds(c) ==
    /\ inflight[c] > 0
    /\ inflight' = [inflight EXCEPT ![c] = @ - 1]
    /\ UNCHANGED <<sessionVars, handleVars, legVars, streams>>

\* Seeded fault: the lost connection's session is kept during the reconnect.
ConnectionLostKeepsControl(i) ==
    /\ pc[i] = "supervising" /\ ~notified[i]
    /\ link[Cur(i)] = "down"
    /\ Goto(i, "lost")
    /\ attempt' = [attempt EXCEPT ![i] = 0]
    /\ UNCHANGED <<sessionVars, handleVars, phase, dials, notified, reconnects,
                   fails, streamVars>>

\* accept_bi fails, for any ConnectionError: drop(control), attempt = 0.
ConnectionLost(i) ==
    /\ pc[i] = "supervising" /\ ~notified[i]
    /\ link[Cur(i)] = "down"
    /\ DropSession(Cur(i))
    /\ Goto(i, "lost")
    /\ attempt' = [attempt EXCEPT ![i] = 0]
    /\ UNCHANGED <<handleVars, phase, dials, notified, reconnects, fails,
                   streamVars>>

\* Seeded fault: the arm goes round the loop instead of returning.
ShutdownArmContinues(i) ==
    /\ pc[i] = "supervising" /\ notified[i]
    /\ Goto(i, "ready")
    /\ UNCHANGED <<sessionVars, handleVars, phase, attempt, dials, notified,
                   reconnects, fails, streamVars>>

\* The shutdown arm. The select has dropped the supervisor's future, and
\* with it sup_rx, before the arm sends on sup_tx: conn.close never runs.
ShutdownArm(i) ==
    /\ pc[i] = "supervising" /\ notified[i]
    /\ ShutdownGraceful(Cur(i))
    /\ Goto(i, "draining")
    /\ UNCHANGED <<handleVars, phase, attempt, dials, notified, reconnects,
                   fails, streamVars>>

DrainReturns(i) ==
    /\ pc[i] = "draining"
    /\ ShutdownReturn(Cur(i))
    /\ Goto(i, "stopped")
    /\ UNCHANGED <<handleVars, phase, attempt, dials, notified, reconnects,
                   fails, streamVars>>

-----------------------------------------------------------------------------
(* The reconnect loop, and its twin in reactor_loop_after_failure.         *)

\* Seeded fault: no limit on the attempts.
NextAttemptUnlimited(i) ==
    /\ pc[i] = "lost"
    /\ attempt' = [attempt EXCEPT ![i] = @ + 1]
    /\ Goto(i, "backoff")
    /\ notified' = [notified EXCEPT ![i] = FALSE]
    /\ UNCHANGED <<sessionVars, handleVars, phase, dials, reconnects, fails,
                   streamVars>>

\* Seeded fault: >= where the code has >.
NextAttemptOffByOne(i) ==
    /\ pc[i] = "lost"
    /\ attempt' = [attempt EXCEPT ![i] = @ + 1]
    /\ IF attempt[i] + 1 >= MaxReconnectAttempts
         THEN Goto(i, "gaveup") /\ UNCHANGED notified
         ELSE Goto(i, "backoff") /\ notified' = [notified EXCEPT ![i] = FALSE]
    /\ UNCHANGED <<sessionVars, handleVars, phase, dials, reconnects, fails,
                   streamVars>>

\* Seeded fault: >= in reactor_loop_after_failure only.
NextAttemptTwinOffByOne(i) ==
    LET limit == IF phase[i] = "retry" THEN MaxReconnectAttempts - 1
                 ELSE MaxReconnectAttempts
    IN
    /\ pc[i] = "lost"
    /\ attempt' = [attempt EXCEPT ![i] = @ + 1]
    /\ IF attempt[i] + 1 > limit
         THEN Goto(i, "gaveup") /\ UNCHANGED notified
         ELSE Goto(i, "backoff") /\ notified' = [notified EXCEPT ![i] = FALSE]
    /\ UNCHANGED <<sessionVars, handleVars, phase, dials, reconnects, fails,
                   streamVars>>

\* Seeded fault: the counter is declared inside the loop (and the history
\* of failures starts anew with it).
NextAttemptForgetsCount(i) ==
    /\ pc[i] = "lost"
    /\ Goto(i, "backoff")
    /\ notified' = [notified EXCEPT ![i] = FALSE]
    /\ fails' = [fails EXCEPT ![i] = 0]
    /\ UNCHANGED <<sessionVars, handleVars, phase, attempt, dials, reconnects,
                   streamVars>>

NextAttempt(i) ==
    /\ pc[i] = "lost"
    /\ attempt' = [attempt EXCEPT ![i] = @ + 1]
    /\ IF attempt[i] + 1 > MaxReconnectAttempts
         THEN Goto(i, "gaveup") /\ UNCHANGED notified
         ELSE Goto(i, "backoff") /\ notified' = [notified EXCEPT ![i] = FALSE]
    /\ UNCHANGED <<sessionVars, handleVars, phase, dials, reconnects, fails,
                   streamVars>>

\* Seeded fault: an unbiased select may prefer the timer to the signal.
BackoffElapsesUnbiased(i) ==
    /\ pc[i] = "backoff"
    /\ Goto(i, "dialing")
    /\ UNCHANGED <<sessionVars, handleVars, phase, attempt, dials, notified,
                   reconnects, fails, streamVars>>

BackoffElapses(i) ==
    /\ pc[i] = "backoff" /\ ~notified[i]
    /\ Goto(i, "dialing")
    /\ UNCHANGED <<sessionVars, handleVars, phase, attempt, dials, notified,
                   reconnects, fails, streamVars>>

\* Seeded fault: the signal only cuts the backoff short.
BackoffShutdownContinues(i) ==
    /\ pc[i] = "backoff" /\ notified[i]
    /\ Goto(i, "dialing")
    /\ UNCHANGED <<sessionVars, handleVars, phase, attempt, dials, notified,
                   reconnects, fails, streamVars>>

BackoffShutdown(i) ==
    /\ pc[i] = "backoff" /\ notified[i]
    /\ Goto(i, "stopped")
    /\ UNCHANGED <<sessionVars, handleVars, phase, attempt, dials, notified,
                   reconnects, fails, streamVars>>

-----------------------------------------------------------------------------
(* QuickTunnelHandle.                                                      *)

NotifyWaiters == notified' = [i \in Legs |-> notified[i] \/ Waiting(i)]

Shutdown ==
    /\ handle = "live"
    /\ handle' = "joining"
    /\ NotifyWaiters
    /\ UNCHANGED <<sessionVars, joinAt, pc, phase, attempt, dials, reconnects,
                   fails, streamVars>>

\* Seeded fault: only the first reactor is awaited.
JoinFirstOnly ==
    /\ handle = "joining" /\ Finished(joinAt)
    /\ joinAt' = HA
    /\ handle' = "closed" /\ NotifyWaiters
    /\ UNCHANGED <<sessionVars, pc, phase, attempt, dials, reconnects, fails,
                   streamVars>>

\* One JoinHandle after the other; the handle is dropped after the last.
JoinNext ==
    /\ handle = "joining" /\ Finished(joinAt)
    /\ joinAt' = joinAt + 1
    /\ IF joinAt + 1 = HA
         THEN handle' = "closed" /\ NotifyWaiters
         ELSE UNCHANGED <<handle, notified>>
    /\ UNCHANGED <<sessionVars, pc, phase, attempt, dials, reconnects, fails,
                   streamVars>>

\* Drop for QuickTunnelHandle, of a live handle or with the future of
\* shutdown_with.
DropHandle ==
    /\ handle \in {"live", "joining"}
    /\ handle' = "dropped"
    /\ NotifyWaiters
    /\ UNCHANGED <<sessionVars, joinAt, pc, phase, attempt, dials, reconnects,
                   fails, streamVars>>

-----------------------------------------------------------------------------

ConnectStep(i) ==
    DialFails(i) \/ DialOk(i) \/ RegisterFails(i) \/ RegisterSucceeds(i)

ReactorStep(i) ==
    \/ Supervise(i) \/ ConnectionLost(i) \/ ShutdownArm(i) \/ DrainReturns(i)
    \/ NextAttempt(i) \/ BackoffElapses(i) \/ BackoffShutdown(i)

\* The driver threads and the edge know nothing of the manager.
SessionStep(c) ==
    /\ \/ DriverStep(c)
       \/ EdgeStep(c)
       \/ inflight[c] = 0 /\ ImplicitClose(c)
    /\ UNCHANGED <<legVars, handleVars, streamVars>>

Next ==
    \/ PostOk \/ PostFails \/ StartTimeout
    \/ Shutdown \/ JoinNext \/ DropHandle
    \/ \E i \in Legs : ConnectStep(i) \/ ReactorStep(i) \/ AcceptStream(i)
    \/ \E c \in Conns : StreamEnds(c) \/ SessionStep(c)

Spec == Init /\ [][Next]_vars

\* Every task that can run is run, timers fire, and the joins are awaited.
\* Nothing is promised of the edge's answers, of the network, of the local
\* service behind a stream, or of the caller of shutdown.
Fairness ==
    /\ \A i \in Legs : WF_vars(ConnectStep(i) \/ ReactorStep(i))
    /\ WF_vars(JoinNext)
    /\ \A c \in Conns :
          /\ WF_vars(DriverStep(c) /\ UNCHANGED <<legVars, handleVars, streamVars>>)
          /\ WF_vars(EdgeForget(c) /\ UNCHANGED <<legVars, handleVars, streamVars>>)

FairSpec == Spec /\ Fairness

-----------------------------------------------------------------------------
(* Properties                                                              *)

\* A leg awaits or owns the session of its newest connection and no other,
\* in exactly the states where reactor_loop or connect_cycle holds one.
LegOwnsItsSession ==
    \A c \in Conns :
        LET i == Leg(c) IN
        /\ caller[c] = "none" <=> c[2] > dials[i]
        /\ caller[c] = "awaiting" <=> c = Cur(i) /\ pc[i] = "registering"
        /\ caller[c] = "holding" <=> c = Cur(i) /\ pc[i] \in {"ready", "supervising"}
        /\ caller[c] = "draining" <=> c = Cur(i) /\ pc[i] = "draining"

\* Every RPC thread that has not been told to stop serves the current
\* connection of a leg that is still at work: start() failing or timing out,
\* reconnects and shutdown never leave a thread keeping an old registration.
NoOrphanDriver ==
    \A c \in Conns :
        Running(c) /\ cmd[c] = "empty" =>
            /\ c = Cur(Leg(c))
            /\ pc[Leg(c)] \in {"registering", "ready", "supervising"}

\* replace_existing is set exactly when this leg has had a session before
\* and lost it ("`false` on the very first registration of each HA leg"),
\* however many attempts of either kind failed in between.
ReplaceAfterSession ==
    \A c \in Conns :
        caller[c] # "none" =>
            (replace[c] <=> \E d \in Conns :
                               Leg(d) = Leg(c) /\ d[2] < c[2] /\ cmd[d] = "immediate")

\* A leg gives up only after MAX_RECONNECT_ATTEMPTS consecutive failed
\* attempts since it lost its connection, or since its first try failed.
GiveUpAfterBudget ==
    \A i \in Legs :
        pc[i] = "gaveup" =>
            fails[i] = MaxReconnectAttempts + (IF phase[i] = "retry" THEN 1 ELSE 0)

\* The reconnects metric counts the re-registrations that succeeded: not the
\* first registration of a leg, however late, and not the failed attempts.
ReconnectsCountsSuccesses ==
    reconnects = Cardinality({c \in Conns :
                     /\ replace[c]
                     /\ \/ caller[c] \in {"holding", "draining"}
                        \/ caller[c] = "released" /\ cmd[c] # "closed"})

\* A leg in its accept loop, with a healthy connection and control stream,
\* serves what the edge routes to it, over any number of reconnects and of
\* re-registrations that failed, were refused or got no answer. The one way
\* out of the edge's table is another connection of the leg that the edge
\* accepted, asked to replace, and that the leg had given up on.
ServingLegIsRegistered ==
    \A i \in Legs :
        /\ pc[i] \in {"ready", "supervising"}
        /\ link[Cur(i)] = "up" /\ driver[Cur(i)] = "serving"
        /\ Cur(i) \notin registered
        => \E d \in Conns :
              /\ Leg(d) = i /\ replace[d] /\ cmd[d] = "closed"
              /\ regCall[d] \in {"ok", "malformed"}

\* shutdown() returns only when every reactor is done and no leg owns or
\* awaits a session.
ClosedMeansFinished ==
    handle = "closed" =>
        /\ \A i \in Legs : Finished(i)
        /\ \A c \in Conns : caller[c] \in {"none", "released"}

\* A leg that has heard the signal only shuts down: the biased selects never
\* let it take another stream, reconnect or dial instead.
HeardSignalIsFinal ==
    [][\A i \in Legs :
          Waiting(i) /\ notified[i] =>
              /\ pc'[i] \in {pc[i], "draining", "stopped"}
              /\ \A c \in Conns : Leg(c) = i => inflight'[c] <= inflight[c]]_vars

\* A leg that has heard the signal stops.
HeardSignalStops ==
    \A i \in Legs : Waiting(i) /\ notified[i] ~> pc[i] = "stopped"

\* shutdown() returns if the signal found every leg either waiting for it or
\* done already.
ShutdownReturnsIfHeard ==
    ( /\ handle = "joining"
      /\ \A i \in Legs : \/ Finished(i) \/ pc[i] = "draining"
                         \/ Waiting(i) /\ notified[i] )
    ~> handle \in {"closed", "dropped"}

\* A leg that lost its connection, or failed to register, does not hang: it
\* serves again, stops on the signal or gives up.
LostLegSettles ==
    \A i \in Legs : pc[i] = "lost" ~> pc[i] \in {"supervising", "stopped", "gaveup"}

\* A leg that is done, or whose start() failed, in the end leaves no thread
\* and no registration behind, even if the edge accepts one late.
GoneLegLeavesNothing ==
    \A i \in Legs :
        Finished(i) \/ handle = "failed" ~>
            [](\A c \in Conns : Leg(c) = i => c \notin registered /\ ~Running(c))

\* "Fires the shutdown signal to every HA reactor at once": shutdown() goes on
\* to "await them all", and after a drop of the handle "the detached tasks wind
\* down on their own". Either way every reactor ends.
SignalStopsEveryReactor ==
    handle \in {"joining", "dropped"} ~> \A i \in Legs : Finished(i)

\* "Reactor reconnect with exponential backoff handles edge-side drops": a
\* leg whose control session has ended does not stay in its accept loop.
ControlLossNoticed ==
    \A i \in Legs :
        pc[i] = "supervising" /\ driver[Cur(i)] = "exited" ~> pc[i] # "supervising"

=============================================================================
