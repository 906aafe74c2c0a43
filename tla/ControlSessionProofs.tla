------------------------ MODULE ControlSessionProofs ------------------------
(***************************************************************************)
(* Safety of the control session for any number of legs and connections,   *)
(* whatever order its owner calls the operations of rpc.rs in.             *)
(***************************************************************************)
EXTENDS ControlSession, TLAPS

\* What ties the owner, the two channels and the driver of one connection
\* together; the parts of the inductive invariant beside the types.
Channels(c) ==
    /\ caller[c] = "none" => driver[c] = "none" /\ result[c] = "none"
    /\ cmd[c] = "empty" <=> caller[c] \in {"none", "awaiting", "holding"}

Answers(c) ==
    /\ result[c] = "ok" => regCall[c] = "ok"
    /\ driver[c] = "calling" => result[c] = "none"
    /\ caller[c] \in {"holding", "draining"} => result[c] = "ok"
    /\ caller[c] = "awaiting" /\ driver[c] # "calling" => result[c] # "none"

SessionInv == SessionTypeOK /\ \A c \in Conns : Channels(c) /\ Answers(c)

\* The initial state, in which no connection exists, satisfies the invariant.
LEMMA SessionInitInv == SessionInit => SessionInv
BY DEF SessionInit, SessionInv, SessionTypeOK, Channels, Answers, LinkState,
       CallerState, DriverState, Command, Result, RegisterCall, UnregisterCall

\* No step of the owner, the driver, the edge or the network leaves the types.
LEMMA SessionTypeStep ==
    SessionTypeOK /\ [SessionNext]_sessionVars => SessionTypeOK'
<1> SUFFICES ASSUME SessionTypeOK, [SessionNext]_sessionVars
             PROVE  SessionTypeOK'
  OBVIOUS
<1> USE DEF SessionTypeOK, LinkState, CallerState, DriverState, Command,
            Result, RegisterCall, UnregisterCall
<1>1. CASE UNCHANGED sessionVars
  BY <1>1 DEF sessionVars
<1>2. ASSUME NEW c \in Conns, OwnerStep(c)
      PROVE  SessionTypeOK'
  <2>1. CASE \E r \in BOOLEAN : RegisterBegin(c, r)
    BY <2>1 DEF RegisterBegin, QueueRegister
  <2>2. CASE RegisterOk(c)
    BY <2>2 DEF RegisterOk
  <2>3. CASE RegisterErr(c) \/ RegisterTimeout(c) \/ RegisterCancel(c)
    BY <2>3 DEF RegisterErr, RegisterTimeout, RegisterCancel, Abandon
  <2>4. CASE DropSession(c)
    BY <2>4 DEF DropSession
  <2>5. CASE ShutdownGraceful(c)
    BY <2>5 DEF ShutdownGraceful
  <2>6. CASE ShutdownReturn(c)
    BY <2>6 DEF ShutdownReturn
  <2>. QED
    BY <1>2, <2>1, <2>2, <2>3, <2>4, <2>5, <2>6 DEF OwnerStep
<1>3. ASSUME NEW c \in Conns, DriverStep(c)
      PROVE  SessionTypeOK'
  <2>1. CASE DriverFlush(c)
    BY <2>1 DEF DriverFlush
  <2>2. CASE DriverReply(c)
    BY <2>2 DEF DriverReply
  <2>3. CASE DriverCommand(c)
    BY <2>3 DEF DriverCommand, DropsSender
  <2>4. CASE DriverRpcEnded(c)
    BY <2>4 DEF DriverRpcEnded
  <2>5. CASE DriverUnregistered(c)
    BY <2>5 DEF DriverUnregistered
  <2>6. CASE DriverFailsToStart(c)
    BY <2>6 DEF DriverFailsToStart
  <2>. QED
    BY <1>3, <2>1, <2>2, <2>3, <2>4, <2>5, <2>6 DEF DriverStep
<1>4. ASSUME NEW c \in Conns, EdgeStep(c) \/ ImplicitClose(c)
      PROVE  SessionTypeOK'
  <2>1. CASE EdgeAccept(c)
    BY <2>1 DEF EdgeAccept
  <2>2. CASE EdgeRefuse(c)
    BY <2>2 DEF EdgeRefuse
  <2>3. CASE EdgeResetControl(c) \/ LinkLost(c) \/ ImplicitClose(c)
    BY <2>3 DEF EdgeResetControl, LinkLost, ImplicitClose
  <2>4. CASE EdgeForget(c)
    BY <2>4 DEF EdgeForget
  <2>. QED
    BY <1>4, <2>1, <2>2, <2>3, <2>4 DEF EdgeStep
<1>. QED
  BY <1>1, <1>2, <1>3, <1>4 DEF SessionNext

\* Every step keeps the channels and answers of every connection consistent.
LEMMA SessionInvStep == SessionInv /\ [SessionNext]_sessionVars => SessionInv'
<1> SUFFICES ASSUME SessionInv, [SessionNext]_sessionVars
             PROVE  SessionInv'
  OBVIOUS
<1>1. SessionTypeOK /\ SessionTypeOK'
  BY SessionTypeStep DEF SessionInv
<1> SUFFICES ASSUME NEW d \in Conns PROVE Channels(d)' /\ Answers(d)'
  BY <1>1 DEF SessionInv
<1>2. Channels(d) /\ Answers(d)
  BY DEF SessionInv
<1> USE <1>2 DEF Channels, Answers
<1>3. CASE UNCHANGED sessionVars
  BY <1>3 DEF sessionVars
<1>4. ASSUME NEW c \in Conns, OwnerStep(c)
      PROVE  Channels(d)' /\ Answers(d)'
  <2> USE <1>1 DEF SessionTypeOK
  <2>1. CASE \E r \in BOOLEAN : RegisterBegin(c, r)
    BY <2>1 DEF RegisterBegin, QueueRegister
  <2>2. CASE RegisterOk(c)
    BY <2>2 DEF RegisterOk
  <2>3. CASE RegisterErr(c) \/ RegisterTimeout(c) \/ RegisterCancel(c)
    BY <2>3 DEF RegisterErr, RegisterTimeout, RegisterCancel, Abandon
  <2>4. CASE DropSession(c)
    BY <2>4 DEF DropSession
  <2>5. CASE ShutdownGraceful(c)
    BY <2>5 DEF ShutdownGraceful
  <2>6. CASE ShutdownReturn(c)
    BY <2>6 DEF ShutdownReturn
  <2>. QED
    BY <1>4, <2>1, <2>2, <2>3, <2>4, <2>5, <2>6 DEF OwnerStep
<1>5. ASSUME NEW c \in Conns, DriverStep(c)
      PROVE  Channels(d)' /\ Answers(d)'
  <2> USE <1>1 DEF SessionTypeOK
  <2>1. CASE DriverFlush(c)
    BY <2>1 DEF DriverFlush
  <2>2. CASE DriverReply(c)
    BY <2>2 DEF DriverReply
  <2>3. CASE DriverCommand(c)
    BY <2>3 DEF DriverCommand, DropsSender, Polling
  <2>4. CASE DriverRpcEnded(c)
    BY <2>4 DEF DriverRpcEnded, Polling
  <2>5. CASE DriverUnregistered(c)
    BY <2>5 DEF DriverUnregistered
  <2>6. CASE DriverFailsToStart(c)
    BY <2>6 DEF DriverFailsToStart
  <2>. QED
    BY <1>5, <2>1, <2>2, <2>3, <2>4, <2>5, <2>6 DEF DriverStep
<1>6. ASSUME NEW c \in Conns, EdgeStep(c) \/ ImplicitClose(c)
      PROVE  Channels(d)' /\ Answers(d)'
  <2> USE <1>1 DEF SessionTypeOK
  <2>1. CASE EdgeAccept(c)
    BY <2>1 DEF EdgeAccept
  <2>2. CASE EdgeRefuse(c)
    BY <2>2 DEF EdgeRefuse
  <2>3. CASE EdgeResetControl(c) \/ LinkLost(c) \/ ImplicitClose(c) \/ EdgeForget(c)
    BY <2>3 DEF EdgeResetControl, LinkLost, ImplicitClose, EdgeForget
  <2>. QED
    BY <1>6, <2>1, <2>2, <2>3 DEF EdgeStep
<1>. QED
  BY <1>3, <1>4, <1>5, <1>6 DEF SessionNext

\* The inductive invariant holds in every reachable state.
THEOREM SessionInvariance == SessionSpec => []SessionInv
<1>1. SessionInit => SessionInv
  BY SessionInitInv
<1>2. SessionInv /\ [SessionNext]_sessionVars => SessionInv'
  BY SessionInvStep
<1>. QED
  BY <1>1, <1>2, PTL DEF SessionSpec

\* Type correctness of the control session for all HA and MaxDials.
THEOREM SessionTypeCorrect == SessionSpec => []SessionTypeOK
<1>1. SessionInv => SessionTypeOK
  BY DEF SessionInv
<1>. QED
  BY <1>1, SessionInvariance, PTL

\* No path of register_connection, shutdown_graceful or Drop leaks a thread.
THEOREM NoLeakedDriver == SessionSpec => []UnsignalledDriverIsOwned
<1>1. SessionInv => UnsignalledDriverIsOwned
  BY DEF SessionInv, Channels, UnsignalledDriverIsOwned, Running
<1>. QED
  BY <1>1, SessionInvariance, PTL

\* A ControlSession is only ever handed out for an accepted registration.
THEOREM SessionsAreAccepted == SessionSpec => []SessionMeansAccepted
<1>1. SessionInv => SessionMeansAccepted
  BY DEF SessionInv, Answers, SessionMeansAccepted
<1>. QED
  BY <1>1, SessionInvariance, PTL

=============================================================================
