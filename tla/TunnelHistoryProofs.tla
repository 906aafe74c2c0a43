------------------------- MODULE TunnelHistoryProofs -------------------------
(***************************************************************************)
(* What a leg's past decides: replace_existing, the reconnects metric, and *)
(* whether the edge still routes to the connection a leg serves; and that  *)
(* a signal which was heard is final. For any number of legs, connections, *)
(* attempts and streams.                                                   *)
(***************************************************************************)
EXTENDS TunnelProofs, FiniteSetTheorems

\* The leg has had a session and lost it.
HasLost(i) == \E d \in Conns : Leg(d) = i /\ cmd[d] = "immediate"

\* A leg of this phase and place asks the edge to replace its old connection.
Between(i) == pc[i] \in {"lost", "backoff", "dialing", "registering"}

\* The phase remembers whether a session was lost.
PhaseRemembers(i) ==
    /\ phase[i] # "reconnect" => ~HasLost(i)
    /\ phase[i] = "reconnect" /\ Between(i) => HasLost(i)

\* A leg has lost a session before it dialled connection c.
LostBefore(c) ==
    \E d \in Conns : Leg(d) = Leg(c) /\ d[2] < c[2] /\ cmd[d] = "immediate"

ReplaceRight(c) == caller[c] # "none" => (replace[c] <=> LostBefore(c))

\* How a session ended tells what the edge had answered.
Ending(c) ==
    /\ caller[c] = "none" => regCall[c] = "none"
    /\ caller[c] = "draining" => cmd[c] = "graceful"
    /\ cmd[c] \in {"immediate", "graceful"} => regCall[c] = "ok"

\* The edge has accepted a re-registration the leg had given up on, or did
\* not understand the acceptance of.
GaveUpOnReplace(i) ==
    \E d \in Conns : /\ Leg(d) = i /\ replace[d] /\ cmd[d] = "closed"
                     /\ regCall[d] \in {"ok", "malformed"}

\* An accepted connection whose stream and driver are well stays registered.
Routed(c) ==
    /\ caller[c] \in {"awaiting", "holding"}
    /\ link[c] = "up" /\ driver[c] \in {"calling", "serving"}
    /\ regCall[c] \in {"ok", "malformed"}
    => c \in registered \/ GaveUpOnReplace(Leg(c))

\* The connections that count as a successful reconnect.
Reconnected(c) ==
    /\ replace[c]
    /\ \/ caller[c] \in {"holding", "draining"}
       \/ caller[c] = "released" /\ cmd[c] # "closed"

HistoryInv ==
    /\ \A i \in Legs : PhaseRemembers(i)
    /\ \A c \in Conns : ReplaceRight(c) /\ Ending(c) /\ Routed(c)
    /\ ReconnectsCountsSuccesses

\* What is known of a leg and its sessions from the proofs it rests on.
Known == TunnelInv /\ SessionInv

-----------------------------------------------------------------------------
(* What one step can do to the past.                                       *)

\* A session that was let go of keeps the way it was let go of, and a
\* connection keeps its replace flag.
LEMMA PastIsFinal ==
    ASSUME SessionInv, [SessionNext]_sessionVars, NEW c \in Conns
    PROVE  /\ cmd[c] # "empty" => cmd'[c] = cmd[c]
           /\ caller[c] # "none" => caller'[c] # "none" /\ replace'[c] = replace[c]
           /\ cmd'[c] = "immediate" /\ cmd[c] # "immediate" => caller[c] = "holding"
<1>1. SessionTypeOK /\ Channels(c)
  BY DEF SessionInv
<1> USE <1>1 DEF SessionTypeOK, Channels
<1>2. CASE UNCHANGED sessionVars
  BY <1>2 DEF sessionVars
<1>3. ASSUME NEW d \in Conns, OwnerStep(d)
      PROVE  /\ cmd[c] # "empty" => cmd'[c] = cmd[c]
             /\ caller[c] # "none" => caller'[c] # "none" /\ replace'[c] = replace[c]
             /\ cmd'[c] = "immediate" /\ cmd[c] # "immediate" => caller[c] = "holding"
  BY <1>3 DEF OwnerStep, RegisterBegin, QueueRegister, RegisterOk, RegisterErr,
     RegisterTimeout, RegisterCancel, Abandon, DropSession, ShutdownGraceful,
     ShutdownReturn
<1>4. ASSUME NEW d \in Conns, DriverStep(d) \/ EdgeStep(d) \/ ImplicitClose(d)
      PROVE  UNCHANGED <<caller, cmd, replace>>
  BY <1>4 DEF DriverStep, DriverFlush, DriverReply, DriverCommand,
     DriverRpcEnded, DriverUnregistered, DriverFailsToStart, DropsSender,
     EdgeStep, EdgeAccept, EdgeRefuse, EdgeResetControl, LinkLost, EdgeForget, ImplicitClose
<1>. QED
  BY <1>2, <1>3, <1>4 DEF SessionNext

\* Only a dial changes the number of dials.
LEMMA DialsStep ==
    ASSUME [Next]_vars
    PROVE  UNCHANGED dials \/ \E i \in Legs : DialOk(i)
<1>1. ASSUME NEW c \in Conns, SessionStep(c)
      PROVE  UNCHANGED dials
  BY <1>1 DEF SessionStep, legVars
<1>2. ASSUME NEW i \in Legs, ReactorStep(i) \/ AcceptStream(i)
      PROVE  UNCHANGED dials
  BY <1>2 DEF ReactorStep, Supervise, ConnectionLost, ShutdownArm,
     DrainReturns, NextAttempt, BackoffElapses, BackoffShutdown, AcceptStream,
     legVars
<1>3. ASSUME NEW i \in Legs, ConnectStep(i), ~DialOk(i)
      PROVE  UNCHANGED dials
  BY <1>3 DEF ConnectStep, DialFails, RegisterFails, RegisterSucceeds,
     ConnectErr
<1>. QED
  BY <1>1, <1>2, <1>3 DEF Next, PostOk, PostFails, StartTimeout, Shutdown,
     JoinNext, DropHandle, StreamEnds, vars, legVars

\* A connection comes into being by a dial of its own leg.
LEMMA NewConnection ==
    ASSUME TunnelInv, TunnelInv', [Next]_vars, NEW c \in Conns,
           caller[c] = "none", caller'[c] # "none"
    PROVE  DialOk(Leg(c)) /\ c = <<Leg(c), dials[Leg(c)] + 1>>
<1>1. Leg(c) \in Legs /\ c[2] \in 1 .. MaxDials /\ c = <<Leg(c), c[2]>>
  BY ConnsFacts
<1>2. c[2] > dials[Leg(c)] /\ ~(c[2] > dials'[Leg(c)])
  BY DEF TunnelInv, LegOwnsItsSession
<1>3. PICK i \in Legs : DialOk(i)
  BY <1>2, DialsStep
<1>4. dials' = [dials EXCEPT ![i] = dials[i] + 1]
  BY <1>3 DEF DialOk
<1>5. dials \in [Legs -> 0 .. MaxDials]
  BY DEF TunnelInv, TypeOK
<1>6. i = Leg(c)
  BY <1>1, <1>2, <1>4, <1>5
<1>7. dials[i] \in Nat /\ dials'[i] = dials[i] + 1 /\ c[2] \in Nat
  BY <1>1, <1>4, <1>5, MaxDialsAssumption
<1>8. c[2] = dials[i] + 1
  BY <1>2, <1>6, <1>7
<1>. QED
  BY <1>1, <1>3, <1>6, <1>8

\* All connections of a leg but the newest have been let go of, and those
\* that were not dialled yet have no history.
LEMMA OthersReleased ==
    ASSUME Known, NEW c \in Conns, NEW d \in Conns, Leg(d) = Leg(c)
    PROVE  /\ caller[c] # "none" /\ d[2] < c[2] => cmd[d] # "empty"
           /\ cmd[d] # "empty" => d[2] <= dials[Leg(c)]
           /\ caller[c] \in {"awaiting", "holding"} /\ d # c /\ caller[d] # "none"
                 => caller[d] = "released" /\ cmd[d] # "empty"
<1>1. /\ caller[d] = "none" <=> d[2] > dials[Leg(c)]
      /\ caller[d] = "awaiting" => d[2] = dials[Leg(c)]
      /\ caller[d] = "holding" => d[2] = dials[Leg(c)]
      /\ caller[d] \in {"awaiting", "holding", "draining"} => d = Cur(Leg(c))
      /\ caller[c] = "none" <=> c[2] > dials[Leg(c)]
      /\ caller[c] \in {"awaiting", "holding"} => c = Cur(Leg(c))
  BY DEF Known, TunnelInv, LegOwnsItsSession, Cur
<1>2. Channels(d) /\ caller[d] \in CallerState
  BY DEF Known, SessionInv, SessionTypeOK
<1>3. c[2] \in Nat /\ d[2] \in Nat /\ dials[Leg(c)] \in Nat
  BY ConnsFacts, MaxDialsAssumption DEF Known, TunnelInv, TypeOK
<1>. QED
  BY <1>1, <1>2, <1>3 DEF Channels, CallerState

-----------------------------------------------------------------------------
(* The replace flag.                                                       *)

\* A leg that dials after a lost session was there before, or has just lost it.
LEMMA BetweenStep ==
    ASSUME Known, Next, NEW i \in Legs, phase'[i] = "reconnect", Between(i)'
    PROVE  (phase[i] = "reconnect" /\ Between(i)) \/ ConnectionLost(i)
<1>1. TypeOK /\ StartShape /\ \A j \in Legs : LegShape(j)
  BY DEF Known, TunnelInv
<1>2. 0 \in Legs
  BY ConnsFacts
<1> USE <1>1 DEF TypeOK, Between, LegShape
<1>3. CASE PostOk
  BY <1>2, <1>3, ConnsFacts DEF PostOk, Goto, StartShape
<1>4. CASE PostFails \/ Shutdown \/ JoinNext \/ DropHandle
  BY <1>4 DEF PostFails, Shutdown, JoinNext, DropHandle, legVars
<1>5. CASE StartTimeout
  BY <1>2, <1>5 DEF StartTimeout
<1>6. ASSUME NEW j \in Legs, DialFails(j) \/ RegisterFails(j)
      PROVE  phase[i] = "reconnect" /\ Between(i)
  BY <1>6 DEF DialFails, RegisterFails, ConnectErr, Goto
<1>7. ASSUME NEW j \in Legs, DialOk(j)
      PROVE  phase[i] = "reconnect" /\ Between(i)
  BY <1>7 DEF DialOk, Goto
<1>8. ASSUME NEW j \in Legs, RegisterSucceeds(j)
      PROVE  phase[i] = "reconnect" /\ Between(i)
  <2>1. CASE phase[j] = "start"
    <3>1. j = 0 /\ handle = "starting"
      BY <1>8, <2>1 DEF StartShape, RegisterSucceeds
    <3>2. i # 0 => phase[i] = "first"
      BY <3>1 DEF StartShape
    <3>. QED
      BY <1>8, <2>1, <3>1, <3>2 DEF RegisterSucceeds
  <2>2. CASE phase[j] # "start"
    BY <1>8, <2>2 DEF RegisterSucceeds, Goto
  <2>. QED
    BY <2>1, <2>2
<1>9. ASSUME NEW j \in Legs, ConnectionLost(j)
      PROVE  (phase[i] = "reconnect" /\ Between(i)) \/ ConnectionLost(i)
  BY <1>9 DEF ConnectionLost, Goto
<1>10. ASSUME NEW j \in Legs, Supervise(j) \/ ShutdownArm(j) \/ DrainReturns(j)
       PROVE  phase[i] = "reconnect" /\ Between(i)
  BY <1>10 DEF Supervise, ShutdownArm, DrainReturns, Goto
<1>11. ASSUME NEW j \in Legs, NextAttempt(j)
       PROVE  phase[i] = "reconnect" /\ Between(i)
  BY <1>11 DEF NextAttempt, Goto
<1>12. ASSUME NEW j \in Legs, BackoffElapses(j) \/ BackoffShutdown(j)
       PROVE  phase[i] = "reconnect" /\ Between(i)
  BY <1>12 DEF BackoffElapses, BackoffShutdown, Goto
<1>13. ASSUME NEW j \in Legs, AcceptStream(j)
       PROVE  phase[i] = "reconnect" /\ Between(i)
  BY <1>13 DEF AcceptStream, legVars
<1>14. ASSUME NEW c \in Conns, StreamEnds(c) \/ SessionStep(c)
       PROVE  phase[i] = "reconnect" /\ Between(i)
  BY <1>14 DEF StreamEnds, SessionStep, legVars
<1>. QED
  BY <1>3, <1>4, <1>5, <1>6, <1>7, <1>8, <1>9, <1>10, <1>11, <1>12, <1>13,
     <1>14 DEF Next, ConnectStep, ReactorStep

\* Once a leg reconnects it never again registers for the first time.
LEMMA ReconnectIsFinal ==
    ASSUME Known, Next, NEW i \in Legs, phase[i] = "reconnect"
    PROVE  phase'[i] = "reconnect"
<1>1. TypeOK
  BY DEF Known, TunnelInv
<1> USE <1>1 DEF TypeOK
<1>2. ASSUME NEW j \in Legs, ConnectStep(j)
      PROVE  phase'[i] = "reconnect"
  BY <1>2 DEF ConnectStep, DialFails, DialOk, RegisterFails, RegisterSucceeds,
     ConnectErr
<1>3. ASSUME NEW j \in Legs, ReactorStep(j) \/ AcceptStream(j)
      PROVE  phase'[i] = "reconnect"
  BY <1>3 DEF ReactorStep, Supervise, ConnectionLost, ShutdownArm,
     DrainReturns, NextAttempt, BackoffElapses, BackoffShutdown, AcceptStream,
     legVars
<1>4. ASSUME NEW c \in Conns, StreamEnds(c) \/ SessionStep(c)
      PROVE  phase'[i] = "reconnect"
  BY <1>4 DEF StreamEnds, SessionStep, legVars
<1>. QED
  BY <1>2, <1>3, <1>4 DEF Next, PostOk, PostFails, StartTimeout, Shutdown,
     JoinNext, DropHandle, legVars

\* The phase goes on remembering: a session is lost only in reactor_loop.
LEMMA PhaseRemembersStep ==
    ASSUME Known, Next, NEW i \in Legs, PhaseRemembers(i)
    PROVE  PhaseRemembers(i)'
<1>1. SessionInv /\ [SessionNext]_sessionVars
  BY NextRefinesSession DEF Known
<1>2. ASSUME phase'[i] # "reconnect", NEW d \in Conns, Leg(d) = i,
             cmd'[d] = "immediate"
      PROVE  FALSE
  <2>1. phase[i] # "reconnect" /\ cmd[d] # "immediate"
    BY <1>2, ReconnectIsFinal DEF PhaseRemembers, HasLost
  <2>2. caller[d] = "holding"
    BY <1>1, <1>2, <2>1, PastIsFinal
  <2>. QED
    BY <1>2, <2>1, <2>2 DEF Known, TunnelInv, LegOwnsItsSession, LegShape
<1>3. ASSUME phase'[i] = "reconnect", Between(i)'
      PROVE  HasLost(i)'
  <2>1. CASE phase[i] = "reconnect" /\ Between(i)
    <3>1. PICK d \in Conns : Leg(d) = i /\ cmd[d] = "immediate"
      BY <2>1 DEF PhaseRemembers, HasLost
    <3>2. cmd'[d] = "immediate"
      BY <1>1, <3>1, PastIsFinal
    <3>. QED
      BY <3>1, <3>2 DEF HasLost
  <2>2. CASE ConnectionLost(i)
    <3>1. Cur(i) \in Conns /\ Leg(Cur(i)) = i
      BY <2>2, CurIsConn DEF ConnectionLost, Known, TunnelInv, LegShape
    <3>2. cmd'[Cur(i)] = "immediate"
      BY <2>2, <3>1 DEF ConnectionLost, DropSession, Known, TunnelInv, TypeOK,
         SessionTypeOK
    <3>. QED
      BY <3>1, <3>2 DEF HasLost
  <2>. QED
    BY <1>3, <2>1, <2>2, BetweenStep
<1>. QED
  BY <1>2, <1>3 DEF PhaseRemembers, HasLost

\* A register request is built with the flag the leg's past calls for.
LEMMA ReplaceStep ==
    ASSUME HistoryInv, Known, Known', Next, NEW c \in Conns
    PROVE  ReplaceRight(c)'
<1>1. SessionInv /\ [SessionNext]_sessionVars
  BY NextRefinesSession DEF Known
<1>2. c[2] \in Nat /\ \A d \in Conns : d[2] \in Nat
  BY ConnsFacts
<1>3. ASSUME NEW d \in Conns, cmd[d] # "empty"
      PROVE  cmd'[d] = cmd[d]
  BY <1>1, <1>3, PastIsFinal
<1>4. CASE caller[c] # "none"
  <2>1. replace'[c] = replace[c] /\ (replace[c] <=> LostBefore(c))
    BY <1>1, <1>4, PastIsFinal DEF HistoryInv, ReplaceRight
  <2>2. \A d \in Conns : Leg(d) = Leg(c) /\ d[2] < c[2] => cmd'[d] = cmd[d]
    BY <1>3, <1>4, OthersReleased
  <2>. QED
    BY <2>1, <2>2 DEF ReplaceRight, LostBefore
<1>5. CASE caller[c] = "none" /\ caller'[c] # "none"
  <2> DEFINE i == Leg(c)
  <2>1. i \in Legs /\ DialOk(i) /\ c = <<i, dials[i] + 1>>
    BY <1>5, NewConnection, ConnsFacts DEF Known
  <2>2. c[2] = dials[i] + 1 /\ dials[i] \in Nat
    BY <2>1, MaxDialsAssumption DEF Known, TunnelInv, TypeOK
  <2>3. replace'[c] = (phase[i] = "reconnect") /\ cmd' = cmd
    BY <2>1 DEF DialOk, RegisterBegin, QueueRegister, Known, TunnelInv, TypeOK,
       SessionTypeOK
  <2>4. phase[i] = "reconnect" <=> HasLost(i)
    BY <2>1 DEF DialOk, HistoryInv, PhaseRemembers, Between
  <2>5. ASSUME NEW d \in Conns, Leg(d) = i, cmd[d] = "immediate"
        PROVE  d[2] < c[2]
    <3>1. d[2] <= dials[i]
      BY <2>5, OthersReleased
    <3>. QED
      BY <1>2, <2>2, <3>1
  <2>6. HasLost(i) <=> LostBefore(c)'
    BY <2>3, <2>5 DEF HasLost, LostBefore
  <2>. QED
    BY <2>3, <2>4, <2>6 DEF ReplaceRight
<1>. QED
  BY <1>4, <1>5 DEF ReplaceRight

-----------------------------------------------------------------------------
(* The edge's table.                                                       *)

\* Only an accepted registration ends by a command.
LEMMA EndingStep ==
    ASSUME SessionInv, [SessionNext]_sessionVars, NEW c \in Conns, Ending(c)
    PROVE  Ending(c)'
<1>1. SessionTypeOK /\ Channels(c) /\ Answers(c)
  BY DEF SessionInv
<1> USE <1>1 DEF SessionTypeOK, Channels, Answers, Ending
<1>2. CASE UNCHANGED sessionVars
  BY <1>2 DEF sessionVars
<1>3. ASSUME NEW d \in Conns, OwnerStep(d)
      PROVE  Ending(c)'
  BY <1>3 DEF OwnerStep, RegisterBegin, QueueRegister, RegisterOk, RegisterErr,
     RegisterTimeout, RegisterCancel, Abandon, DropSession, ShutdownGraceful,
     ShutdownReturn
<1>4. ASSUME NEW d \in Conns, DriverStep(d)
      PROVE  Ending(c)'
  BY <1>4 DEF DriverStep, DriverFlush, DriverReply, DriverCommand,
     DriverRpcEnded, DriverUnregistered, DriverFailsToStart, DropsSender
<1>5. ASSUME NEW d \in Conns, EdgeStep(d) \/ ImplicitClose(d)
      PROVE  Ending(c)'
  BY <1>5 DEF EdgeStep, EdgeAccept, EdgeRefuse, EdgeResetControl, LinkLost,
     EdgeForget, ImplicitClose
<1>. QED
  BY <1>2, <1>3, <1>4, <1>5 DEF SessionNext

\* What the edge has accepted it does not answer again.
LEMMA AcceptedIsFinal ==
    ASSUME SessionInv, [SessionNext]_sessionVars, NEW c \in Conns, Ending(c),
           regCall[c] \in {"ok", "malformed"}
    PROVE  regCall'[c] = regCall[c]
<1>1. SessionTypeOK
  BY DEF SessionInv
<1> USE <1>1 DEF SessionTypeOK, Ending
<1>2. ASSUME NEW d \in Conns, OwnerStep(d)
      PROVE  regCall'[c] = regCall[c]
  BY <1>2 DEF OwnerStep, RegisterBegin, QueueRegister, RegisterOk, RegisterErr,
     RegisterTimeout, RegisterCancel, Abandon, DropSession, ShutdownGraceful,
     ShutdownReturn
<1>3. ASSUME NEW d \in Conns, DriverStep(d)
      PROVE  regCall'[c] = regCall[c]
  BY <1>3 DEF DriverStep, DriverFlush, DriverReply, DriverCommand,
     DriverRpcEnded, DriverUnregistered, DriverFailsToStart
<1>4. ASSUME NEW d \in Conns, EdgeStep(d) \/ ImplicitClose(d)
      PROVE  regCall'[c] = regCall[c]
  BY <1>4 DEF EdgeStep, EdgeAccept, EdgeRefuse, EdgeResetControl, LinkLost,
     EdgeForget, ImplicitClose
<1>. QED
  BY <1>2, <1>3, <1>4 DEF SessionNext, sessionVars

\* A connection leaves the edge's table only with its stream or its driver,
\* or when the edge accepts another one of the leg in its place.
LEMMA TableStep ==
    ASSUME SessionInv, [SessionNext]_sessionVars, NEW c \in Conns,
           c \in registered, c \notin registered'
    PROVE  \/ link[c] # "up" \/ driver[c] = "exited"
           \/ \E d \in Conns : EdgeAccept(d) /\ d # c /\ Leg(d) = Leg(c)
<1>1. ASSUME NEW d \in Conns, OwnerStep(d) \/ DriverStep(d) \/ ImplicitClose(d)
      PROVE  UNCHANGED registered
  BY <1>1 DEF OwnerStep, RegisterBegin, QueueRegister, RegisterOk, RegisterErr,
     RegisterTimeout, RegisterCancel, Abandon, DropSession, ShutdownGraceful,
     ShutdownReturn, DriverStep, DriverFlush, DriverReply, DriverCommand,
     DriverRpcEnded, DriverUnregistered, DriverFailsToStart, DropsSender,
     ImplicitClose
<1>2. ASSUME NEW d \in Conns, EdgeAccept(d)
      PROVE  d # c /\ Leg(d) = Leg(c)
  BY <1>2 DEF EdgeAccept
<1>3. ASSUME NEW d \in Conns, EdgeForget(d)
      PROVE  link[c] # "up" \/ driver[c] = "exited"
  BY <1>3 DEF EdgeForget
<1>4. ASSUME NEW d \in Conns, EdgeRefuse(d) \/ EdgeResetControl(d) \/ LinkLost(d)
      PROVE  UNCHANGED registered
  BY <1>4 DEF EdgeRefuse, EdgeResetControl, LinkLost
<1>. QED
  BY <1>1, <1>2, <1>3, <1>4 DEF SessionNext, EdgeStep, sessionVars

\* A connection that is well after a step and accepted was well before it,
\* and accepted too unless it is being accepted.
LEMMA WellBefore ==
    ASSUME SessionInv, [SessionNext]_sessionVars, NEW c \in Conns,
           caller'[c] \in {"awaiting", "holding"},
           link'[c] = "up", driver'[c] \in {"calling", "serving"},
           regCall'[c] \in {"ok", "malformed"}
    PROVE  \/ c \in registered'
           \/ /\ caller[c] \in {"awaiting", "holding"}
              /\ link[c] = "up" /\ driver[c] \in {"calling", "serving"}
              /\ regCall[c] \in {"ok", "malformed"}
<1>1. SessionTypeOK
  BY DEF SessionInv
<1> USE <1>1 DEF SessionTypeOK
<1> DEFINE WellThen(x) == /\ caller[x] \in {"awaiting", "holding"}
                        /\ link[x] = "up" /\ driver[x] \in {"calling", "serving"}
                        /\ regCall[x] \in {"ok", "malformed"}
<1>2. ASSUME NEW d \in Conns, OwnerStep(d)
      PROVE  WellThen(c)
  BY <1>2 DEF OwnerStep, RegisterBegin, QueueRegister, RegisterOk, RegisterErr,
     RegisterTimeout, RegisterCancel, Abandon, DropSession, ShutdownGraceful,
     ShutdownReturn
<1>3. ASSUME NEW d \in Conns, DriverStep(d)
      PROVE  WellThen(c)
  BY <1>3 DEF DriverStep, DriverFlush, DriverReply, DriverCommand,
     DriverRpcEnded, DriverUnregistered, DriverFailsToStart, DropsSender, Polling
<1>4. ASSUME NEW d \in Conns, EdgeStep(d) \/ ImplicitClose(d)
      PROVE  c \in registered' \/ WellThen(c)
  BY <1>4 DEF EdgeStep, EdgeAccept, EdgeRefuse, EdgeResetControl, LinkLost,
     EdgeForget, ImplicitClose
<1>. QED
  BY <1>2, <1>3, <1>4 DEF SessionNext, sessionVars

\* The edge takes a well connection out of its table only by accepting one
\* that the leg has given up on.
LEMMA RoutedStep ==
    ASSUME HistoryInv, Known, Next, NEW c \in Conns
    PROVE  Routed(c)'
<1>1. SessionInv /\ [SessionNext]_sessionVars
  BY NextRefinesSession DEF Known
<1>2. ASSUME NEW i \in Legs, GaveUpOnReplace(i)
      PROVE  GaveUpOnReplace(i)'
  <2>1. PICK d \in Conns : /\ Leg(d) = i /\ replace[d] /\ cmd[d] = "closed"
                          /\ regCall[d] \in {"ok", "malformed"}
    BY <1>2 DEF GaveUpOnReplace
  <2>2. caller[d] # "none"
    BY <2>1 DEF Known, SessionInv, Channels
  <2>3. cmd'[d] = "closed" /\ replace'[d] = replace[d]
    BY <1>1, <2>1, <2>2, PastIsFinal
  <2>4. regCall'[d] = regCall[d]
    BY <1>1, <2>1, AcceptedIsFinal DEF HistoryInv
  <2>. QED
    BY <2>1, <2>3, <2>4 DEF GaveUpOnReplace
<1>3. SUFFICES ASSUME /\ caller'[c] \in {"awaiting", "holding"}
                      /\ link'[c] = "up" /\ driver'[c] \in {"calling", "serving"}
                      /\ regCall'[c] \in {"ok", "malformed"},
                      c \notin registered'
               PROVE  GaveUpOnReplace(Leg(c))'
  BY DEF Routed
<1>4. /\ caller[c] \in {"awaiting", "holding"}
      /\ link[c] = "up" /\ driver[c] \in {"calling", "serving"}
      /\ regCall[c] \in {"ok", "malformed"}
  BY <1>1, <1>3, WellBefore
<1>5. c \in registered \/ GaveUpOnReplace(Leg(c))
  BY <1>4 DEF HistoryInv, Routed
<1>6. CASE GaveUpOnReplace(Leg(c))
  BY <1>2, <1>6, ConnsFacts
<1>7. CASE c \in registered
  <2>1. PICK d \in Conns : EdgeAccept(d) /\ d # c /\ Leg(d) = Leg(c)
    BY <1>1, <1>3, <1>4, <1>7, TableStep
  <2>2. replace[d] /\ regCall[d] = "sent"
    BY <1>7, <2>1 DEF EdgeAccept
  <2>3. Ending(d)
    BY DEF HistoryInv
  <2>4. caller[d] = "released" /\ cmd[d] # "empty"
    BY <1>4, <2>1, <2>2, <2>3, OthersReleased DEF Ending
  <2>5. cmd[d] = "closed"
    BY <2>2, <2>3, <2>4 DEF Ending, Known, SessionInv, SessionTypeOK, Command
  <2>6. regCall'[d] \in {"ok", "malformed"} /\ cmd' = cmd /\ replace' = replace
    BY <2>1 DEF EdgeAccept, Known, SessionInv, SessionTypeOK
  <2>. QED
    BY <2>1, <2>2, <2>5, <2>6 DEF GaveUpOnReplace
<1>. QED
  BY <1>5, <1>6, <1>7

-----------------------------------------------------------------------------
(* The metric.                                                             *)

\* There are finitely many connections.
LEMMA ConnsFinite == IsFiniteSet(Conns)
<1>1. IsFiniteSet(Legs) /\ IsFiniteSet(1 .. MaxDials)
  BY HAAssumption, MaxDialsAssumption, FS_Interval DEF Legs
<1>. QED
  BY <1>1, FS_Product DEF Conns

\* Only a registration that succeeds makes a connection count, and none
\* stops counting.
LEMMA CountingStep ==
    ASSUME SessionInv, \A c \in Conns : Ending(c), [SessionNext]_sessionVars,
           NEW c \in Conns
    PROVE  (Reconnected(c) <=> Reconnected(c)') \/ RegisterOk(c)
<1>1. SessionTypeOK /\ Channels(c) /\ Ending(c)
  BY DEF SessionInv
<1> USE <1>1 DEF SessionTypeOK, Channels, Ending, Reconnected
<1>2. CASE UNCHANGED sessionVars
  BY <1>2 DEF sessionVars
<1>3. ASSUME NEW d \in Conns, OwnerStep(d)
      PROVE  (Reconnected(c) <=> Reconnected(c)') \/ RegisterOk(c)
  <2>1. CASE RegisterOk(d)
    BY <2>1 DEF RegisterOk
  <2>2. CASE \E r \in BOOLEAN : RegisterBegin(d, r)
    BY <2>2 DEF RegisterBegin, QueueRegister
  <2>3. CASE RegisterErr(d) \/ RegisterTimeout(d) \/ RegisterCancel(d)
    BY <2>3 DEF RegisterErr, RegisterTimeout, RegisterCancel, Abandon
  <2>4. CASE DropSession(d) \/ ShutdownGraceful(d)
    BY <2>4 DEF DropSession, ShutdownGraceful
  <2>5. CASE ShutdownReturn(d)
    BY <2>5 DEF ShutdownReturn
  <2>. QED
    BY <1>3, <2>1, <2>2, <2>3, <2>4, <2>5 DEF OwnerStep
<1>4. ASSUME NEW d \in Conns, DriverStep(d) \/ EdgeStep(d) \/ ImplicitClose(d)
      PROVE  UNCHANGED <<caller, cmd, replace>>
  BY <1>4 DEF DriverStep, DriverFlush, DriverReply, DriverCommand,
     DriverRpcEnded, DriverUnregistered, DriverFailsToStart, DropsSender,
     EdgeStep, EdgeAccept, EdgeRefuse, EdgeResetControl, LinkLost, EdgeForget, ImplicitClose
<1>. QED
  BY <1>2, <1>3, <1>4 DEF SessionNext

\* The counter is touched by a leg that registers, and by no other step; a
\* leg becomes ready in no other way.
LEMMA MetricStep ==
    ASSUME Known, Next, \A i \in Legs : ~RegisterSucceeds(i)
    PROVE  /\ reconnects' = reconnects
           /\ \A i \in Legs : pc'[i] \in {"ready", "supervising"} =>
                               pc[i] \in {"ready", "supervising"}
<1>1. TypeOK /\ 0 \in Legs
  BY ConnsFacts DEF Known, TunnelInv
<1> USE <1>1 DEF TypeOK
<1> DEFINE Kept == /\ reconnects' = reconnects
                   /\ \A i \in Legs : pc'[i] \in {"ready", "supervising"} =>
                                pc[i] \in {"ready", "supervising"}
<1>2. CASE PostOk \/ PostFails \/ StartTimeout \/ Shutdown \/ JoinNext \/ DropHandle
  BY <1>2 DEF PostOk, PostFails, StartTimeout, Shutdown, JoinNext, DropHandle,
     Goto, legVars
<1>3. ASSUME NEW j \in Legs, ConnectStep(j), ~RegisterSucceeds(j)
      PROVE  Kept
  BY <1>3 DEF ConnectStep, DialFails, DialOk, RegisterFails, ConnectErr, Goto
<1>4. ASSUME NEW j \in Legs, ReactorStep(j) \/ AcceptStream(j)
      PROVE  Kept
  BY <1>4 DEF ReactorStep, Supervise, ConnectionLost, ShutdownArm,
     DrainReturns, NextAttempt, BackoffElapses, BackoffShutdown, AcceptStream,
     Goto, legVars
<1>5. ASSUME NEW c \in Conns, StreamEnds(c) \/ SessionStep(c)
      PROVE  Kept
  BY <1>5 DEF StreamEnds, SessionStep, legVars
<1>. QED
  BY <1>2, <1>3, <1>4, <1>5 DEF Next

\* The counter and the connections that count grow together.
LEMMA CountStep ==
    ASSUME HistoryInv, Known, Known', Next
    PROVE  ReconnectsCountsSuccesses'
<1> DEFINE S == {c \in Conns : Reconnected(c)}
<1>1. SessionInv /\ [SessionNext]_sessionVars /\ TypeOK
  BY NextRefinesSession DEF Known, TunnelInv
<1>2. reconnects = Cardinality(S)
  BY DEF HistoryInv, ReconnectsCountsSuccesses, Reconnected
<1>3. SUFFICES reconnects' = Cardinality(S')
  BY DEF ReconnectsCountsSuccesses, Reconnected
<1>4. IsFiniteSet(S)
  <2>1. S \in SUBSET Conns
    OBVIOUS
  <2>. QED
    BY <2>1, ConnsFinite, FS_Subset
<1>5. \A c \in Conns : (Reconnected(c) <=> Reconnected(c)') \/ RegisterOk(c)
  BY <1>1, CountingStep DEF HistoryInv
<1>6. CASE \A i \in Legs : ~RegisterSucceeds(i)
  <2>1. reconnects' = reconnects
    BY <1>6, MetricStep
  <2>2. ASSUME NEW c \in Conns, RegisterOk(c)
        PROVE  FALSE
    <3>1. caller[c] = "awaiting" /\ caller'[c] = "holding" /\ driver' = driver
      BY <1>1, <2>2 DEF RegisterOk, TypeOK, SessionTypeOK
    <3>2. c = Cur(Leg(c)) /\ pc[Leg(c)] = "registering"
      BY <3>1 DEF Known, TunnelInv, LegOwnsItsSession
    <3>3. pc'[Leg(c)] \in {"ready", "supervising"}
      BY <3>1 DEF Known, TunnelInv, LegOwnsItsSession
    <3>. QED
      BY <1>6, <3>2, <3>3, ConnsFacts, MetricStep
  <2>3. S' = S
    BY <1>5, <2>2
  <2>. QED
    BY <1>2, <2>1, <2>3
<1>7. ASSUME NEW i \in Legs, RegisterSucceeds(i)
      PROVE  reconnects' = Cardinality(S')
  <2> DEFINE c == Cur(i)
  <2>1. /\ c \in Conns /\ Leg(c) = i /\ c[2] = dials[i]
        /\ pc[i] = "registering" /\ RegisterOk(c)
    BY <1>1, <1>7, CurIsConn DEF RegisterSucceeds, LegShape, Known, TunnelInv
  <2> HIDE DEF c
  <2>2. /\ caller[c] = "awaiting" /\ caller' = [caller EXCEPT ![c] = "holding"]
        /\ UNCHANGED <<cmd, replace>>
    BY <2>1 DEF RegisterOk
  <2>3. \A d \in Conns : d # c => (Reconnected(d) <=> Reconnected(d)')
    BY <1>1, <2>2 DEF Reconnected, TypeOK, SessionTypeOK
  <2>4. c \notin S /\ (c \in S' <=> replace[c])
    BY <1>1, <2>1, <2>2 DEF Reconnected, TypeOK, SessionTypeOK
  <2>5. replace[c] <=> phase[i] = "reconnect"
    <3>1. replace[c] <=> LostBefore(c)
      BY <2>1, <2>2 DEF HistoryInv, ReplaceRight
    <3>2. phase[i] = "reconnect" <=> HasLost(i)
      BY <2>1 DEF HistoryInv, PhaseRemembers, Between
    <3>3. ASSUME NEW d \in Conns, Leg(d) = i, cmd[d] = "immediate"
          PROVE  d[2] < c[2]
      <4>1. d[2] <= dials[i]
        BY <2>1, <3>3, OthersReleased
      <4>2. cmd[c] = "empty"
        BY <2>1, <2>2 DEF Known, SessionInv, Channels
      <4>3. d[2] # c[2]
        BY <2>1, <3>3, <4>2, ConnsFacts
      <4>4. d[2] \in Nat /\ c[2] \in Nat
        BY <2>1, ConnsFacts
      <4>. QED
        BY <2>1, <4>1, <4>3, <4>4
    <3>. QED
      BY <2>1, <3>1, <3>2, <3>3 DEF HasLost, LostBefore
  <2>6. CASE phase[i] = "reconnect"
    <3>1. S' = S \cup {c}
      BY <2>1, <2>3, <2>4, <2>5, <2>6
    <3>2. reconnects' = reconnects + 1
      BY <1>7, <2>6 DEF RegisterSucceeds
    <3> HIDE DEF S
    <3>. QED
      BY <1>2, <1>4, <2>4, <3>1, <3>2, FS_AddElement
  <2>7. CASE phase[i] # "reconnect"
    <3>1. S' = S
      BY <2>1, <2>3, <2>4, <2>5, <2>7
    <3>2. reconnects' = reconnects
      BY <1>7, <2>7 DEF RegisterSucceeds
    <3>. QED
      BY <1>2, <3>1, <3>2
  <2>. QED
    BY <2>6, <2>7
<1>. QED
  BY <1>6, <1>7

-----------------------------------------------------------------------------

\* A leg without connections has no past.
LEMMA HistoryInitInv == Init => HistoryInv
<1> SUFFICES ASSUME Init PROVE HistoryInv
  OBVIOUS
<1>1. /\ \A i \in Legs : PhaseRemembers(i)
      /\ \A c \in Conns : ReplaceRight(c) /\ Ending(c) /\ Routed(c)
  BY ConnsFacts DEF Init, SessionInit, PhaseRemembers, HasLost, ReplaceRight,
     Ending, Routed
<1>2. {c \in Conns : Reconnected(c)} = {}
  BY DEF Init, SessionInit, Reconnected
<1>3. ReconnectsCountsSuccesses
  BY <1>2, FS_EmptySet DEF Init, ReconnectsCountsSuccesses, Reconnected
<1>. QED
  BY <1>1, <1>3 DEF HistoryInv

\* Every step preserves what is known of the past.
LEMMA HistoryInvStep ==
    HistoryInv /\ Known /\ Known' /\ [Next]_vars => HistoryInv'
<1> SUFFICES ASSUME HistoryInv, Known, Known', [Next]_vars
             PROVE  HistoryInv'
  OBVIOUS
<1>1. CASE UNCHANGED vars
  BY <1>1 DEF vars, sessionVars, legVars, HistoryInv, PhaseRemembers, HasLost,
     Between, ReplaceRight, LostBefore, Ending, Routed, GaveUpOnReplace,
     ReconnectsCountsSuccesses
<1>2. CASE Next
  <2>1. SessionInv /\ [SessionNext]_sessionVars
    BY NextRefinesSession DEF Known
  <2>2. \A c \in Conns : Ending(c)'
    BY <2>1, EndingStep DEF HistoryInv
  <2>3. \A i \in Legs : PhaseRemembers(i)'
    BY <1>2, PhaseRemembersStep DEF HistoryInv
  <2>4. \A c \in Conns : ReplaceRight(c)' /\ Routed(c)'
    BY <1>2, ReplaceStep, RoutedStep
  <2>5. ReconnectsCountsSuccesses'
    BY <1>2, CountStep
  <2>. QED
    BY <2>2, <2>3, <2>4, <2>5 DEF HistoryInv
<1>. QED
  BY <1>1, <1>2

\* The invariants of the tunnel and of its sessions hold together.
LEMMA KnownInvariance == Spec => []Known
BY TunnelInvariance, TunnelImplementsSession, SessionInvariance, PTL DEF Known

\* The inductive invariant about the past holds in every reachable state.
THEOREM HistoryInvariance == Spec => []HistoryInv
BY HistoryInitInv, HistoryInvStep, KnownInvariance, PTL DEF Spec

\* replace_existing is set exactly when the leg has lost a session before,
\* however many attempts of either loop failed in between.
THEOREM ReplacesAfterLoss == Spec => []ReplaceAfterSession
<1>1. HistoryInv => ReplaceAfterSession
  BY DEF HistoryInv, ReplaceRight, LostBefore, ReplaceAfterSession
<1>. QED
  BY <1>1, HistoryInvariance, PTL

\* The metric is the number of re-registrations that succeeded.
THEOREM MetricIsExact == Spec => []ReconnectsCountsSuccesses
<1>1. HistoryInv => ReconnectsCountsSuccesses
  BY DEF HistoryInv
<1>. QED
  BY <1>1, HistoryInvariance, PTL

\* A leg that serves over a healthy stream is the one the edge routes to,
\* however many re-registrations have failed, unless the edge has accepted
\* one of them that the leg had given up on.
THEOREM ServingIsRouted == Spec => []ServingLegIsRegistered
<1>1. HistoryInv /\ Known => ServingLegIsRegistered
  <2> SUFFICES ASSUME HistoryInv, Known, NEW i \in Legs,
                      pc[i] \in {"ready", "supervising"},
                      link[Cur(i)] = "up", driver[Cur(i)] = "serving",
                      Cur(i) \notin registered
               PROVE  GaveUpOnReplace(i)
    BY DEF ServingLegIsRegistered, GaveUpOnReplace
  <2>1. Cur(i) \in Conns /\ Leg(Cur(i)) = i
    BY CurIsConn DEF Known, TunnelInv, LegShape
  <2>2. caller[Cur(i)] = "holding"
    BY <2>1 DEF Known, TunnelInv, LegOwnsItsSession
  <2>3. regCall[Cur(i)] = "ok"
    BY <2>1, <2>2 DEF Known, SessionInv, Answers
  <2>4. Routed(Cur(i))
    BY <2>1 DEF HistoryInv
  <2>. QED
    BY <2>1, <2>2, <2>3, <2>4 DEF Routed
<1>. QED
  BY <1>1, HistoryInvariance, KnownInvariance, PTL

\* A leg that has heard the signal takes no stream, does not reconnect and
\* does not dial: it drains or stops.
THEOREM HeardIsFinal == Spec => HeardSignalIsFinal
<1> DEFINE Final(i) == Waiting(i) /\ notified[i] =>
                          /\ pc'[i] \in {pc[i], "draining", "stopped"}
                          /\ \A c \in Conns : Leg(c) = i => inflight'[c] <= inflight[c]
<1>1. TunnelInv /\ [Next]_vars => \A i \in Legs : Final(i)
  <2> SUFFICES ASSUME TunnelInv, Next, NEW i \in Legs, Waiting(i), notified[i]
               PROVE  /\ pc'[i] \in {pc[i], "draining", "stopped"}
                      /\ \A c \in Conns : Leg(c) = i => inflight'[c] <= inflight[c]
    <3>1. ASSUME TunnelInv, UNCHANGED vars, NEW i \in Legs
          PROVE  Final(i)
      BY <3>1, MaxStreamsAssumption DEF vars, legVars, streamVars, TunnelInv, TypeOK
    <3>. QED
      BY <3>1
  <2>1. TypeOK /\ StartShape /\ 0 \in Legs
    BY ConnsFacts DEF TunnelInv
  <2>2. \A c \in Conns : inflight[c] \in Nat
    BY <2>1, MaxStreamsAssumption DEF TypeOK
  <2> USE <2>1, <2>2 DEF TypeOK, Waiting
  <2>3. CASE PostOk \/ PostFails \/ StartTimeout
    BY <2>3 DEF PostOk, PostFails, StartTimeout, StartShape, Goto, legVars, streamVars
  <2>4. CASE Shutdown \/ JoinNext \/ DropHandle
    BY <2>4 DEF Shutdown, JoinNext, DropHandle, streamVars
  <2>5. ASSUME NEW j \in Legs, DialFails(j) \/ DialOk(j) \/ RegisterFails(j)
        PROVE  pc'[i] = pc[i] /\ inflight' = inflight
    BY <2>5 DEF DialFails, DialOk, RegisterFails, ConnectErr, Goto, streamVars
  <2>6. ASSUME NEW j \in Legs, RegisterSucceeds(j)
        PROVE  pc'[i] = pc[i] /\ inflight' = inflight
    <3>1. CASE phase[j] = "start"
      <4>1. j = 0 /\ handle = "starting"
        BY <2>6, <3>1 DEF RegisterSucceeds, StartShape, LegShape, TunnelInv
      <4>2. i # 0 => pc[i] = "unspawned"
        BY <4>1 DEF StartShape
      <4>. QED
        BY <2>6, <3>1, <4>1, <4>2 DEF RegisterSucceeds, streamVars
    <3>2. CASE phase[j] # "start"
      BY <2>6, <3>2 DEF RegisterSucceeds, Goto, streamVars
    <3>. QED
      BY <3>1, <3>2
  <2>7. ASSUME NEW j \in Legs, ReactorStep(j)
        PROVE  pc'[i] \in {pc[i], "draining", "stopped"} /\ inflight' = inflight
    BY <2>7 DEF ReactorStep, Supervise, ConnectionLost, ShutdownArm,
       DrainReturns, NextAttempt, BackoffElapses, BackoffShutdown, Goto, streamVars
  <2>8. ASSUME NEW j \in Legs, AcceptStream(j)
        PROVE  /\ pc' = pc
               /\ \A c \in Conns : Leg(c) = i => inflight'[c] = inflight[c]
    <3>1. j # i
      BY <2>8 DEF AcceptStream
    <3>2. \A c \in Conns : Leg(c) = i => c # Cur(j)
      BY <3>1 DEF Leg, Cur
    <3>. QED
      BY <2>8, <3>2 DEF AcceptStream, legVars
  <2>9. ASSUME NEW d \in Conns, StreamEnds(d)
        PROVE  pc' = pc /\ \A c \in Conns : inflight'[c] <= inflight[c]
    BY <2>9 DEF StreamEnds, legVars
  <2>10. ASSUME NEW d \in Conns, SessionStep(d)
         PROVE  pc' = pc /\ inflight' = inflight
    BY <2>10 DEF SessionStep, legVars, streamVars
  <2>. QED
    BY <2>3, <2>4, <2>5, <2>6, <2>7, <2>8, <2>9, <2>10 DEF Next, ConnectStep
<1>. QED
  BY <1>1, TunnelInvariance, PTL DEF Spec, HeardSignalIsFinal

=============================================================================
