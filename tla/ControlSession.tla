--------------------------- MODULE ControlSession ---------------------------
(***************************************************************************)
(* The control plane of one QUIC connection (src/rpc.rs): the call of      *)
(* register_connection, the driver thread that owns the capnp-RPC system,  *)
(* the ControlSession handle whose drop or shutdown_graceful ends the      *)
(* thread, and the edge's table of registered connections.                 *)
(*                                                                         *)
(* A connection is identified by its conn_index (the HA leg) and by the    *)
(* number of the dial that produced it: a leg never reuses a connection.   *)
(*                                                                         *)
(* The owner of a session is left open here: any order of the operations   *)
(* rpc.rs offers is allowed. Module Tunnel supplies the real owner.        *)
(***************************************************************************)
EXTENDS Integers, FiniteSets

CONSTANTS HA,        \* how many connections are kept (ha_connections)
          MaxDials   \* bound: successful dials per leg in one behaviour

ASSUME HAAssumption == HA \in Nat \ {0}
ASSUME MaxDialsAssumption == MaxDials \in Nat

Legs == 0 .. HA - 1
Conns == Legs \X (1 .. MaxDials)
Leg(c) == c[1]

VARIABLES
    link,       \* the QUIC connection and its control stream
    caller,     \* the code that awaits, holds or has let go of the session
    driver,     \* the thread "cfqt-rpc-driver" of the session
    cmd,        \* the oneshot channel shutdown_tx -> shutdown_rx
    result,     \* the oneshot channel done_tx -> done_rx
    regCall,    \* the registerConnection call and its reply
    unregCall,  \* the unregisterConnection call
    replace,    \* options.replace_existing of the register request
    registered  \* the edge's table: the connections it routes requests to

sessionVars == <<link, caller, driver, cmd, result, regCall, unregCall,
                 replace, registered>>

LinkState == {"none", "up", "control_reset", "down"}
CallerState == {"none", "awaiting", "holding", "draining", "released"}
DriverState == {"none", "calling", "serving", "unregistering", "exited"}
Command == {"empty", "immediate", "graceful", "closed"}
Result == {"none", "ok", "err", "dropped"}   \* "dropped": the sender, unused
RegisterCall == {"none", "queued", "sent", "ok", "malformed", "refused"}
UnregisterCall == {"none", "queued", "sent"}

SessionTypeOK ==
    /\ link \in [Conns -> LinkState]
    /\ caller \in [Conns -> CallerState]
    /\ driver \in [Conns -> DriverState]
    /\ cmd \in [Conns -> Command]
    /\ result \in [Conns -> Result]
    /\ regCall \in [Conns -> RegisterCall]
    /\ unregCall \in [Conns -> UnregisterCall]
    /\ replace \in [Conns -> BOOLEAN]
    /\ registered \in SUBSET Conns

SessionInit ==
    /\ link = [c \in Conns |-> "none"]
    /\ caller = [c \in Conns |-> "none"]
    /\ driver = [c \in Conns |-> "none"]
    /\ cmd = [c \in Conns |-> "empty"]
    /\ result = [c \in Conns |-> "none"]
    /\ regCall = [c \in Conns |-> "none"]
    /\ unregCall = [c \in Conns |-> "none"]
    /\ replace = [c \in Conns |-> FALSE]
    /\ registered = {}

\* The driver is in its select loop, the only place that polls rpc_system.
Polling(c) == driver[c] \in {"calling", "serving"}
Running(c) == driver[c] \in {"calling", "serving", "unregistering"}

-----------------------------------------------------------------------------
(* The caller of register_connection and owner of the ControlSession.      *)

\* build_register_request and its send: nothing is written before the RPC
\* system is polled.
QueueRegister(c, r) ==
    /\ regCall' = [regCall EXCEPT ![c] = "queued"]
    /\ replace' = [replace EXCEPT ![c] = r]

\* A fresh connection: open_bi succeeds, the driver thread is spawned and
\* queues the register request built with replace_existing = r.
RegisterBegin(c, r) ==
    /\ caller[c] = "none"
    /\ link' = [link EXCEPT ![c] = "up"]
    /\ caller' = [caller EXCEPT ![c] = "awaiting"]
    /\ driver' = [driver EXCEPT ![c] = "calling"]
    /\ QueueRegister(c, r)
    /\ UNCHANGED <<cmd, result, unregCall, registered>>

\* The result arrived in time: the caller now holds a ControlSession.
RegisterOk(c) ==
    /\ caller[c] = "awaiting" /\ result[c] = "ok"
    /\ caller' = [caller EXCEPT ![c] = "holding"]
    /\ UNCHANGED <<link, driver, cmd, result, regCall, unregCall, replace,
                   registered>>

\* register_connection ends without a session: shutdown_tx and the
\* connection are dropped with its frame.
Abandon(c) ==
    /\ caller[c] = "awaiting"
    /\ caller' = [caller EXCEPT ![c] = "released"]
    /\ cmd' = [cmd EXCEPT ![c] = "closed"]
    /\ UNCHANGED <<link, driver, result, regCall, unregCall, replace,
                   registered>>

\* The driver answered with an error, or is gone without an answer; either
\* way the await ends at once.
RegisterErr(c) == result[c] \in {"err", "dropped"} /\ Abandon(c)

\* DEFAULT_RPC_TIMEOUT: the timeout polls the result first.
RegisterTimeout(c) == result[c] = "none" /\ Abandon(c)

\* The future itself is dropped by an outer timeout.
RegisterCancel(c) == Abandon(c)

\* impl Drop for ControlSession: the connection handle goes with it.
DropSession(c) ==
    /\ caller[c] = "holding"
    /\ caller' = [caller EXCEPT ![c] = "released"]
    /\ cmd' = [cmd EXCEPT ![c] = "immediate"]
    /\ UNCHANGED <<link, driver, result, regCall, unregCall, replace,
                   registered>>

\* shutdown_graceful up to its await of driver_done_rx.
ShutdownGraceful(c) ==
    /\ caller[c] = "holding"
    /\ caller' = [caller EXCEPT ![c] = "draining"]
    /\ cmd' = [cmd EXCEPT ![c] = "graceful"]
    /\ UNCHANGED <<link, driver, result, regCall, unregCall, replace,
                   registered>>

\* The await ends: the driver is done, or grace + 2s have passed. The
\* sender was taken, so the drop of the session sends nothing more.
ShutdownReturn(c) ==
    /\ caller[c] = "draining"
    /\ caller' = [caller EXCEPT ![c] = "released"]
    /\ UNCHANGED <<link, driver, cmd, result, regCall, unregCall, replace,
                   registered>>

-----------------------------------------------------------------------------
(* The driver thread. Its select is biased: reply, command, rpc_system.    *)

\* The thread cannot build its runtime: done_tx is dropped with the closure
\* and the call is never made.
DriverFailsToStart(c) ==
    /\ driver[c] = "calling" /\ regCall[c] = "queued"
    /\ driver' = [driver EXCEPT ![c] = "exited"]
    /\ result' = [result EXCEPT ![c] = "dropped"]
    /\ regCall' = [regCall EXCEPT ![c] = "none"]
    /\ UNCHANGED <<link, caller, cmd, unregCall, replace, registered>>

\* Polling rpc_system writes the queued calls to the control stream.
DriverFlush(c) ==
    /\ Polling(c) /\ link[c] = "up"
    /\ "queued" \in {regCall[c], unregCall[c]}
    /\ regCall' = [regCall EXCEPT ![c] = IF @ = "queued" THEN "sent" ELSE @]
    /\ unregCall' = [unregCall EXCEPT ![c] = IF @ = "queued" THEN "sent" ELSE @]
    /\ UNCHANGED <<link, caller, driver, cmd, result, replace, registered>>

\* Seeded fault: any reply counts as success (the union is not inspected).
DriverReplyUnchecked(c) ==
    /\ driver[c] = "calling"
    /\ regCall[c] \in {"ok", "malformed", "refused"}
    /\ driver' = [driver EXCEPT ![c] = "serving"]
    /\ result' = [result EXCEPT ![c] = IF caller[c] = "awaiting" THEN "ok" ELSE @]
    /\ UNCHANGED <<link, caller, cmd, regCall, unregCall, replace, registered>>

\* Arm 1: the call completes; its decoded result goes to whoever listens.
DriverReply(c) ==
    /\ driver[c] = "calling"
    /\ regCall[c] \in {"ok", "malformed", "refused"}
    /\ driver' = [driver EXCEPT ![c] = "serving"]
    /\ result' = [result EXCEPT ![c] =
                    IF caller[c] # "awaiting" THEN @
                    ELSE IF regCall[c] = "ok" THEN "ok" ELSE "err"]
    /\ UNCHANGED <<link, caller, cmd, regCall, unregCall, replace, registered>>

\* A loop that is left before the call has completed drops done_tx unused.
DropsSender(c) ==
    result' = [result EXCEPT ![c] = IF driver[c] = "calling" THEN "dropped" ELSE @]

\* Seeded fault: the arm matches Ok(cmd) only, a dropped sender is ignored.
DriverCommandNeedsMessage(c) ==
    /\ Polling(c) /\ cmd[c] \in {"immediate", "graceful"}
    /\ driver' = [driver EXCEPT ![c] = "exited"]
    /\ DropsSender(c)
    /\ UNCHANGED <<link, caller, cmd, regCall, unregCall, replace, registered>>

\* Arm 2: a command, or the sender was dropped. Only Graceful after a
\* completed call queues unregisterConnection and waits for it.
DriverCommand(c) ==
    /\ Polling(c) /\ cmd[c] # "empty"
    /\ IF cmd[c] = "graceful" /\ driver[c] = "serving"
         THEN /\ driver' = [driver EXCEPT ![c] = "unregistering"]
              /\ unregCall' = [unregCall EXCEPT ![c] = "queued"]
         ELSE /\ driver' = [driver EXCEPT ![c] = "exited"]
              /\ UNCHANGED unregCall
    /\ DropsSender(c)
    /\ UNCHANGED <<link, caller, cmd, regCall, replace, registered>>

\* Arm 3: the RPC system ended because the control stream is gone.
DriverRpcEnded(c) ==
    /\ Polling(c) /\ cmd[c] = "empty" /\ link[c] # "up"
    /\ driver' = [driver EXCEPT ![c] = "exited"]
    /\ result' = [result EXCEPT ![c] =
                    IF driver[c] = "calling" THEN "err" ELSE @]
    /\ UNCHANGED <<link, caller, cmd, regCall, unregCall, replace, registered>>

\* The wait for the unregister reply ends (reply or grace period), the
\* thread drops its streams and returns.
DriverUnregistered(c) ==
    /\ driver[c] = "unregistering"
    /\ driver' = [driver EXCEPT ![c] = "exited"]
    /\ UNCHANGED <<link, caller, cmd, result, regCall, unregCall, replace,
                   registered>>

-----------------------------------------------------------------------------
(* The edge and the network.                                               *)

\* RegistrationServer.registerConnection: one connection per conn_index; a
\* second one is a duplicate unless it asked to replace the first. The
\* client may be unable to decode the details of an accepted connection.
EdgeAccept(c) ==
    /\ regCall[c] = "sent" /\ link[c] # "down"
    /\ replace[c] \/ \A d \in registered : Leg(d) # Leg(c)
    /\ registered' = {d \in registered : Leg(d) # Leg(c)} \cup {c}
    /\ \E r \in {"ok", "malformed"} : regCall' = [regCall EXCEPT ![c] = r]
    /\ UNCHANGED <<link, caller, driver, cmd, result, unregCall, replace>>

\* The edge answers with a ConnectionError (duplicate, quota, ...).
EdgeRefuse(c) ==
    /\ regCall[c] = "sent" /\ link[c] # "down"
    /\ regCall' = [regCall EXCEPT ![c] = "refused"]
    /\ UNCHANGED <<link, caller, driver, cmd, result, unregCall, replace,
                   registered>>

\* The edge closes the control stream and keeps the connection.
EdgeResetControl(c) ==
    /\ link[c] = "up"
    /\ link' = [link EXCEPT ![c] = "control_reset"]
    /\ UNCHANGED <<caller, driver, cmd, result, regCall, unregCall, replace,
                   registered>>

\* The edge closes the connection, or the path to it is lost.
LinkLost(c) ==
    /\ link[c] \in {"up", "control_reset"}
    /\ link' = [link EXCEPT ![c] = "down"]
    /\ UNCHANGED <<caller, driver, cmd, result, regCall, unregCall, replace,
                   registered>>

\* The edge drops a connection whose control stream has ended.
EdgeForget(c) ==
    /\ c \in registered
    /\ link[c] # "up" \/ driver[c] = "exited"
    /\ registered' = registered \ {c}
    /\ UNCHANGED <<link, caller, driver, cmd, result, regCall, unregCall,
                   replace>>

\* quinn closes a connection when its last handle is gone: the owner's and
\* the driver's streams (module Tunnel adds the proxied streams).
ImplicitClose(c) ==
    /\ link[c] \in {"up", "control_reset"}
    /\ caller[c] \in {"draining", "released"} /\ driver[c] = "exited"
    /\ link' = [link EXCEPT ![c] = "down"]
    /\ UNCHANGED <<caller, driver, cmd, result, regCall, unregCall, replace,
                   registered>>

-----------------------------------------------------------------------------

OwnerStep(c) ==
    \/ \E r \in BOOLEAN : RegisterBegin(c, r)
    \/ RegisterOk(c) \/ RegisterErr(c) \/ RegisterTimeout(c)
    \/ RegisterCancel(c) \/ DropSession(c)
    \/ ShutdownGraceful(c) \/ ShutdownReturn(c)

DriverStep(c) ==
    \/ DriverFailsToStart(c)
    \/ DriverFlush(c) \/ DriverReply(c) \/ DriverCommand(c)
    \/ DriverRpcEnded(c) \/ DriverUnregistered(c)

EdgeStep(c) ==
    \/ EdgeAccept(c) \/ EdgeRefuse(c) \/ EdgeResetControl(c)
    \/ LinkLost(c) \/ EdgeForget(c)

SessionNext ==
    \E c \in Conns :
        OwnerStep(c) \/ DriverStep(c) \/ EdgeStep(c) \/ ImplicitClose(c)

SessionSpec == SessionInit /\ [][SessionNext]_sessionVars

-----------------------------------------------------------------------------
(* Properties                                                              *)

\* A driver thread that nobody has told to stop has an owner who still can:
\* no path of register_connection, timeout and cancellation included, leaks
\* a thread (and with it a registered connection).
UnsignalledDriverIsOwned ==
    \A c \in Conns :
        Running(c) /\ cmd[c] = "empty" => caller[c] \in {"awaiting", "holding"}

\* A ControlSession exists only for a registration the edge has accepted
\* and whose details were decoded: register_connection never returns Ok for
\* an error, a duplicate or a malformed reply.
SessionMeansAccepted ==
    \A c \in Conns : caller[c] \in {"holding", "draining"} => regCall[c] = "ok"

\* Once the owner has let go, the edge in the end stops routing to the
\* connection for good, even when it accepts the registration late.
ReleasedConnectionForgotten ==
    \A c \in Conns : caller[c] = "released" ~> [](c \notin registered)

\* What shutdown_graceful promises ("Send `unregisterConnection` and wait up
\* to `grace` for the edge to ack"): while the stream is up, the wait does
\* not end with the call still unsent in the client's own queue.
UnregisterIsSent ==
    [][\A c \in Conns :
          DriverUnregistered(c) /\ link[c] = "up" => unregCall[c] = "sent"]_sessionVars

=============================================================================
