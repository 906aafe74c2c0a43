---------------------------- MODULE TunnelProofs ----------------------------
(***************************************************************************)
(* The legs own their control sessions the way reactor_loop says, spend    *)
(* their budget of attempts and no more, and are done when shutdown() has  *)
(* returned, for any number of legs, connections, attempts and streams.    *)
(***************************************************************************)
EXTENDS Tunnel, ControlSessionProofs

\* A leg with a session has dialled; which phases go with which places.
LegShape(i) ==
    /\ pc[i] \in {"registering", "ready", "supervising", "draining"} => dials[i] >= 1
    /\ pc[i] \in {"ready", "supervising", "draining"} => phase[i] = "reconnect"
    /\ pc[i] \in {"lost", "backoff", "gaveup"} => phase[i] \in {"retry", "reconnect"}
    /\ phase[i] = "start" => i = 0

\* A retry loop starts with one failure already behind it.
Before(i) == IF phase[i] = "retry" THEN 1 ELSE 0

\* How the loop counter and the history of failures go together.
Budget(i) ==
    /\ pc[i] # "gaveup" => attempt[i] <= MaxReconnectAttempts
    /\ pc[i] \in {"dialing", "registering"} /\ phase[i] \in {"start", "first"} =>
          fails[i] = 0
    /\ pc[i] \in {"dialing", "registering"} /\ phase[i] \in {"retry", "reconnect"} =>
          fails[i] = attempt[i] - 1 + Before(i)
    /\ pc[i] = "backoff" => fails[i] = attempt[i] - 1 + Before(i)
    /\ pc[i] = "lost" => fails[i] = attempt[i] + Before(i)
    /\ pc[i] = "gaveup" => fails[i] = MaxReconnectAttempts + Before(i)
    /\ pc[i] \in {"ready", "supervising", "draining"} => fails[i] = 0
    /\ pc[i] = "unspawned" /\ handle # "failed" => fails[i] = 0
    /\ phase[i] = "first" => attempt[i] = 0

\* Before start() has returned, leg 0 is the only one at work.
StartShape ==
    /\ handle \in {"posting", "failed"} => \A i \in Legs : pc[i] = "unspawned"
    /\ handle = "starting" => pc[0] \in {"dialing", "registering"} /\ phase[0] = "start"
    /\ handle \in {"posting", "starting"} =>
          \A i \in Legs \ {0} : pc[i] = "unspawned" /\ phase[i] = "first"
    /\ handle = "posting" => phase[0] = "start"
    /\ phase[0] = "start" => handle \in {"posting", "starting", "failed"}

JoinShape ==
    /\ handle \notin {"joining", "closed", "dropped"} => joinAt = 0
    /\ handle = "joining" => joinAt < HA
    /\ handle = "closed" => joinAt = HA
    /\ \A i \in Legs : i < joinAt => Finished(i)

StreamShape == \A c \in Conns : inflight[c] <= streams

TunnelInv ==
    /\ TypeOK
    /\ \A i \in Legs : LegShape(i) /\ Budget(i)
    /\ StartShape
    /\ JoinShape
    /\ StreamShape
    /\ LegOwnsItsSession

-----------------------------------------------------------------------------
(* Facts about connections, and the steps that leave the legs alone.       *)

\* A connection is the pair of its leg and its number.
LEMMA ConnsFacts ==
    /\ 0 \in Legs
    /\ \A c \in Conns : /\ Leg(c) \in Legs /\ c[2] \in 1 .. MaxDials
                        /\ c = <<Leg(c), c[2]>>
    /\ \A i \in Legs : \A n \in 1 .. MaxDials :
          /\ <<i, n>> \in Conns /\ Leg(<<i, n>>) = i /\ <<i, n>>[2] = n
BY HAAssumption, MaxDialsAssumption DEF Legs, Conns, Leg

\* A leg that has dialled has a current connection.
LEMMA CurIsConn ==
    ASSUME TypeOK, NEW i \in Legs, dials[i] >= 1
    PROVE  Cur(i) \in Conns /\ Leg(Cur(i)) = i /\ Cur(i)[2] = dials[i]
<1>1. dials[i] \in 1 .. MaxDials
  BY MaxDialsAssumption DEF TypeOK
<1>. QED
  BY <1>1, ConnsFacts DEF Cur

\* Driver threads, the edge and quinn do not change who owns a session.
LEMMA SessionStepFrame ==
    ASSUME NEW c \in Conns, SessionStep(c)
    PROVE  UNCHANGED <<caller, legVars, handleVars, streamVars>>
<1>1. CASE DriverStep(c)
  BY <1>1, SessionStep(c) DEF SessionStep, DriverStep, DriverFlush,
     DriverReply, DriverCommand, DropsSender, DriverRpcEnded,
     DriverUnregistered, DriverFailsToStart
<1>2. CASE EdgeStep(c)
  BY <1>2, SessionStep(c) DEF SessionStep, EdgeStep, EdgeAccept, EdgeRefuse,
     EdgeResetControl, LinkLost, EdgeForget
<1>3. CASE ImplicitClose(c)
  BY <1>3, SessionStep(c) DEF SessionStep, ImplicitClose
<1>. QED
  BY <1>1, <1>2, <1>3, SessionStep(c) DEF SessionStep

\* The state in which nothing has started satisfies the invariant.
LEMMA TunnelInitInv == Init => TunnelInv
<1> SUFFICES ASSUME Init PROVE TunnelInv
  OBVIOUS
<1>1. SessionTypeOK
  BY SessionInitInv DEF Init, SessionInv
<1>2. TypeOK
  BY <1>1, HAAssumption, MaxDialsAssumption, AttemptsAssumption,
     MaxStreamsAssumption
     DEF Init, TypeOK, HandleState, LegState, Phase
<1>3. \A i \in Legs : LegShape(i) /\ Budget(i)
  BY AttemptsAssumption DEF Init, LegShape, Budget, Before
<1>4. StartShape /\ JoinShape
  BY ConnsFacts, HAAssumption DEF Init, StartShape, JoinShape, Legs
<1>5. StreamShape
  BY DEF Init, StreamShape
<1>6. LegOwnsItsSession
  BY ConnsFacts DEF Init, SessionInit, LegOwnsItsSession
<1>. QED
  BY <1>2, <1>3, <1>4, <1>5, <1>6 DEF TunnelInv

-----------------------------------------------------------------------------
(* Every step of the tunnel is a step of the control session, or none.     *)

\* A leg calls an operation of rpc.rs only on a connection it has dialled.
LEMMA NextRefinesSession ==
    TunnelInv /\ [Next]_vars => [SessionNext]_sessionVars
<1> SUFFICES ASSUME TunnelInv, Next
             PROVE  SessionNext \/ UNCHANGED sessionVars
  BY DEF vars, sessionVars
<1>1. TypeOK /\ \A i \in Legs : LegShape(i)
  BY DEF TunnelInv
<1>2. 0 \in Legs
  BY ConnsFacts
<1>3. CASE PostOk \/ PostFails \/ Shutdown \/ JoinNext \/ DropHandle
  BY <1>3 DEF PostOk, PostFails, Shutdown, JoinNext, DropHandle
<1>4. CASE StartTimeout
  <2>1. CASE pc[0] = "registering"
    <3>1. Cur(0) \in Conns
      BY <1>1, <1>2, <2>1, CurIsConn DEF LegShape
    <3>2. RegisterCancel(Cur(0))
      BY <1>4, <2>1 DEF StartTimeout
    <3>. QED
      BY <3>1, <3>2 DEF SessionNext, OwnerStep
  <2>. QED
    BY <1>4, <2>1 DEF StartTimeout
<1>5. ASSUME NEW i \in Legs, ConnectStep(i)
      PROVE  SessionNext \/ UNCHANGED sessionVars
  <2>1. CASE DialFails(i)
    BY <2>1 DEF DialFails
  <2>2. CASE DialOk(i)
    <3> DEFINE c == <<i, dials[i] + 1>>
    <3>1. dials[i] + 1 \in 1 .. MaxDials
      BY <1>1, <2>2, MaxDialsAssumption DEF DialOk, TypeOK
    <3>2. c \in Conns
      BY <3>1, ConnsFacts
    <3>3. \E r \in BOOLEAN : RegisterBegin(c, r)
      <4> DEFINE rr == phase[i] = "reconnect"
      <4>1. rr \in BOOLEAN
        OBVIOUS
      <4>2. RegisterBegin(c, rr)
        BY <2>2 DEF DialOk
      <4> HIDE DEF rr
      <4>. QED
        BY <4>1, <4>2
    <3>. QED
      BY <3>2, <3>3 DEF SessionNext, OwnerStep
  <2>3. CASE RegisterFails(i)
    <3>1. Cur(i) \in Conns
      BY <1>1, <2>3, CurIsConn DEF LegShape, RegisterFails
    <3>. QED
      BY <3>1, <2>3 DEF RegisterFails, SessionNext, OwnerStep
  <2>4. CASE RegisterSucceeds(i)
    <3>1. Cur(i) \in Conns
      BY <1>1, <2>4, CurIsConn DEF LegShape, RegisterSucceeds
    <3>. QED
      BY <3>1, <2>4 DEF RegisterSucceeds, SessionNext, OwnerStep
  <2>. QED
    BY <1>5, <2>1, <2>2, <2>3, <2>4 DEF ConnectStep
<1>6. ASSUME NEW i \in Legs, ReactorStep(i)
      PROVE  SessionNext \/ UNCHANGED sessionVars
  <2>1. CASE Supervise(i) \/ NextAttempt(i) \/ BackoffElapses(i) \/ BackoffShutdown(i)
    BY <2>1 DEF Supervise, NextAttempt, BackoffElapses, BackoffShutdown
  <2>2. CASE ConnectionLost(i) \/ ShutdownArm(i) \/ DrainReturns(i)
    <3>1. Cur(i) \in Conns
      BY <1>1, <2>2, CurIsConn DEF LegShape, ConnectionLost, ShutdownArm,
         DrainReturns
    <3>2. OwnerStep(Cur(i))
      BY <2>2 DEF ConnectionLost, ShutdownArm, DrainReturns, OwnerStep
    <3>. QED
      BY <3>1, <3>2 DEF SessionNext
  <2>. QED
    BY <1>6, <2>1, <2>2 DEF ReactorStep
<1>7. ASSUME NEW i \in Legs, AcceptStream(i)
      PROVE  UNCHANGED sessionVars
  BY <1>7 DEF AcceptStream
<1>8. ASSUME NEW c \in Conns, StreamEnds(c)
      PROVE  UNCHANGED sessionVars
  BY <1>8 DEF StreamEnds
<1>9. ASSUME NEW c \in Conns, SessionStep(c)
      PROVE  SessionNext
  BY <1>9 DEF SessionStep, SessionNext
<1>. QED
  BY <1>3, <1>4, <1>5, <1>6, <1>7, <1>8, <1>9 DEF Next

-----------------------------------------------------------------------------
(* The parts of the invariant, one lemma each, one step per action.        *)

\* Counters stay within their bounds, MAX_RECONNECT_ATTEMPTS included.
LEMMA TunnelTypeStep ==
    TunnelInv /\ [Next]_vars => TypeOK'
<1> SUFFICES ASSUME TunnelInv, [Next]_vars
             PROVE  TypeOK'
  OBVIOUS
<1>1. SessionTypeOK'
  BY NextRefinesSession, SessionTypeStep DEF TunnelInv, TypeOK
<1>2. /\ TypeOK /\ StreamShape /\ JoinShape
      /\ \A j \in Legs : LegShape(j) /\ Budget(j)
  BY DEF TunnelInv
<1>3. /\ 0 \in Legs /\ HA \in Nat /\ MaxDials \in Nat
      /\ MaxReconnectAttempts \in Nat /\ MaxStreams \in Nat
  BY ConnsFacts, HAAssumption, MaxDialsAssumption, AttemptsAssumption,
     MaxStreamsAssumption
<1> USE <1>1, <1>2, <1>3 DEF TypeOK, HandleState, LegState, Phase
<1>10. CASE UNCHANGED vars
  BY <1>10 DEF vars, sessionVars, legVars, handleVars, streamVars
<1>11. CASE PostOk
  BY <1>11 DEF PostOk, Goto, legVars, handleVars, streamVars
<1>12. CASE PostFails
  BY <1>12 DEF PostFails, legVars, handleVars, streamVars
<1>13. CASE StartTimeout
  BY <1>13 DEF StartTimeout, legVars, handleVars, streamVars
<1>14. CASE Shutdown
  BY <1>14 DEF Shutdown, NotifyWaiters, legVars, handleVars, streamVars
<1>15. CASE JoinNext
  <2>1. joinAt' \in 0 .. HA
    BY <1>15 DEF JoinNext, JoinShape
  <2>2. notified' \in [Legs -> BOOLEAN] /\ handle' \in HandleState
    BY <1>15 DEF JoinNext, NotifyWaiters
  <2>. QED
    BY <1>15, <2>1, <2>2 DEF JoinNext, streamVars
<1>16. CASE DropHandle
  BY <1>16 DEF DropHandle, NotifyWaiters, legVars, handleVars, streamVars
<1>17. ASSUME NEW i \in Legs, DialFails(i)
       PROVE  TypeOK'
  BY <1>17 DEF DialFails, ConnectErr, Goto, legVars, handleVars, streamVars,
     LegShape, Budget, Before
<1>18. ASSUME NEW i \in Legs, DialOk(i)
       PROVE  TypeOK'
  BY <1>18 DEF DialOk, Goto, legVars, handleVars, streamVars
<1>19. ASSUME NEW i \in Legs, RegisterFails(i)
       PROVE  TypeOK'
  BY <1>19 DEF RegisterFails, ConnectErr, Goto, legVars, handleVars,
     streamVars, LegShape, Budget, Before
<1>20. ASSUME NEW i \in Legs, RegisterSucceeds(i)
       PROVE  TypeOK'
  BY <1>20 DEF RegisterSucceeds, Goto, legVars, handleVars, streamVars
<1>21. ASSUME NEW i \in Legs, Supervise(i)
       PROVE  TypeOK'
  BY <1>21 DEF Supervise, Goto, legVars, handleVars, streamVars
<1>22. ASSUME NEW i \in Legs, ConnectionLost(i)
       PROVE  TypeOK'
  BY <1>22 DEF ConnectionLost, Goto, legVars, handleVars, streamVars
<1>23. ASSUME NEW i \in Legs, ShutdownArm(i)
       PROVE  TypeOK'
  BY <1>23 DEF ShutdownArm, Goto, legVars, handleVars, streamVars
<1>24. ASSUME NEW i \in Legs, DrainReturns(i)
       PROVE  TypeOK'
  BY <1>24 DEF DrainReturns, Goto, legVars, handleVars, streamVars
<1>25. ASSUME NEW i \in Legs, NextAttempt(i)
       PROVE  TypeOK'
  <2>1. attempt[i] + 1 \in 0 .. MaxReconnectAttempts + 1
    BY <1>25 DEF NextAttempt, Budget
  <2>2. attempt' \in [Legs -> 0 .. MaxReconnectAttempts + 1]
    BY <1>25, <2>1 DEF NextAttempt
  <2>3. pc' \in [Legs -> LegState] /\ notified' \in [Legs -> BOOLEAN]
    BY <1>25 DEF NextAttempt, Goto
  <2>. QED
    BY <1>25, <2>2, <2>3 DEF NextAttempt, handleVars, streamVars
<1>26. ASSUME NEW i \in Legs, BackoffElapses(i)
       PROVE  TypeOK'
  BY <1>26 DEF BackoffElapses, Goto, legVars, handleVars, streamVars
<1>27. ASSUME NEW i \in Legs, BackoffShutdown(i)
       PROVE  TypeOK'
  BY <1>27 DEF BackoffShutdown, Goto, legVars, handleVars, streamVars
<1>28. ASSUME NEW i \in Legs, AcceptStream(i)
       PROVE  TypeOK'
  BY <1>28, CurIsConn DEF AcceptStream, legVars, handleVars, streamVars,
     StreamShape, LegShape
<1>29. ASSUME NEW c \in Conns, StreamEnds(c)
       PROVE  TypeOK'
  BY <1>29 DEF StreamEnds, legVars, handleVars, streamVars, StreamShape
<1>30. ASSUME NEW c \in Conns, SessionStep(c)
       PROVE  TypeOK'
  BY <1>30, SessionStepFrame DEF legVars, handleVars, streamVars
<1>. QED
  BY <1>10, <1>11, <1>12, <1>13, <1>14, <1>15, <1>16, <1>17, <1>18, <1>19,
     <1>20, <1>21, <1>22, <1>23, <1>24, <1>25, <1>26, <1>27, <1>28, <1>29,
     <1>30
     DEF Next, ConnectStep, ReactorStep

\* Places, phases and dial counts of the legs stay consistent.
LEMMA LegShapeStep ==
    TunnelInv /\ [Next]_vars => \A j \in Legs : LegShape(j)'
<1> SUFFICES ASSUME TunnelInv, [Next]_vars
             PROVE  \A j \in Legs : LegShape(j)'
  OBVIOUS
<1>1. TypeOK /\ TypeOK'
  BY TunnelTypeStep DEF TunnelInv
<1>2. StartShape /\ \A j \in Legs : LegShape(j) /\ Budget(j)
  BY DEF TunnelInv
<1>3. 0 \in Legs /\ MaxDials \in Nat /\ MaxReconnectAttempts \in Nat
  BY ConnsFacts, MaxDialsAssumption, AttemptsAssumption
<1> USE <1>1, <1>2, <1>3 DEF TypeOK, Phase, LegState, HandleState
<1> USE DEF LegShape, StartShape
<1>10. CASE UNCHANGED vars
  BY <1>10 DEF vars, sessionVars, legVars, handleVars, streamVars
<1>11. CASE PostOk
  BY <1>11 DEF PostOk, Goto, legVars, handleVars, streamVars
<1>12. CASE PostFails
  BY <1>12 DEF PostFails, legVars, handleVars, streamVars
<1>13. CASE StartTimeout
  BY <1>13 DEF StartTimeout, legVars, handleVars, streamVars
<1>14. CASE Shutdown
  BY <1>14 DEF Shutdown, NotifyWaiters, legVars, handleVars, streamVars
<1>15. CASE JoinNext
  BY <1>15 DEF JoinNext, NotifyWaiters, legVars, handleVars, streamVars
<1>16. CASE DropHandle
  BY <1>16 DEF DropHandle, NotifyWaiters, legVars, handleVars, streamVars
<1>17. ASSUME NEW i \in Legs, DialFails(i)
       PROVE  \A j \in Legs : LegShape(j)'
  BY <1>17 DEF DialFails, ConnectErr, Goto, legVars, handleVars, streamVars
<1>18. ASSUME NEW i \in Legs, DialOk(i)
       PROVE  \A j \in Legs : LegShape(j)'
  BY <1>18 DEF DialOk, Goto, legVars, handleVars, streamVars
<1>19. ASSUME NEW i \in Legs, RegisterFails(i)
       PROVE  \A j \in Legs : LegShape(j)'
  BY <1>19 DEF RegisterFails, ConnectErr, Goto, legVars, handleVars, streamVars
<1>20. ASSUME NEW i \in Legs, RegisterSucceeds(i)
       PROVE  \A j \in Legs : LegShape(j)'
  BY <1>20 DEF RegisterSucceeds, Goto, legVars, handleVars, streamVars
<1>21. ASSUME NEW i \in Legs, Supervise(i)
       PROVE  \A j \in Legs : LegShape(j)'
  BY <1>21 DEF Supervise, Goto, legVars, handleVars, streamVars
<1>22. ASSUME NEW i \in Legs, ConnectionLost(i)
       PROVE  \A j \in Legs : LegShape(j)'
  BY <1>22 DEF ConnectionLost, Goto, legVars, handleVars, streamVars
<1>23. ASSUME NEW i \in Legs, ShutdownArm(i)
       PROVE  \A j \in Legs : LegShape(j)'
  BY <1>23 DEF ShutdownArm, Goto, legVars, handleVars, streamVars
<1>24. ASSUME NEW i \in Legs, DrainReturns(i)
       PROVE  \A j \in Legs : LegShape(j)'
  BY <1>24 DEF DrainReturns, Goto, legVars, handleVars, streamVars
<1>25. ASSUME NEW i \in Legs, NextAttempt(i)
       PROVE  \A j \in Legs : LegShape(j)'
  BY <1>25 DEF NextAttempt, Goto, legVars, handleVars, streamVars
<1>26. ASSUME NEW i \in Legs, BackoffElapses(i)
       PROVE  \A j \in Legs : LegShape(j)'
  BY <1>26 DEF BackoffElapses, Goto, legVars, handleVars, streamVars
<1>27. ASSUME NEW i \in Legs, BackoffShutdown(i)
       PROVE  \A j \in Legs : LegShape(j)'
  BY <1>27 DEF BackoffShutdown, Goto, legVars, handleVars, streamVars
<1>28. ASSUME NEW i \in Legs, AcceptStream(i)
       PROVE  \A j \in Legs : LegShape(j)'
  BY <1>28 DEF AcceptStream, legVars, handleVars, streamVars
<1>29. ASSUME NEW c \in Conns, StreamEnds(c)
       PROVE  \A j \in Legs : LegShape(j)'
  BY <1>29 DEF StreamEnds, legVars, handleVars, streamVars
<1>30. ASSUME NEW c \in Conns, SessionStep(c)
       PROVE  \A j \in Legs : LegShape(j)'
  BY <1>30, SessionStepFrame DEF legVars, handleVars, streamVars
<1>. QED
  BY <1>10, <1>11, <1>12, <1>13, <1>14, <1>15, <1>16, <1>17, <1>18, <1>19,
     <1>20, <1>21, <1>22, <1>23, <1>24, <1>25, <1>26, <1>27, <1>28, <1>29,
     <1>30
     DEF Next, ConnectStep, ReactorStep

\* The attempts counter keeps counting the failures since the last success.
LEMMA BudgetStep ==
    TunnelInv /\ [Next]_vars => \A j \in Legs : Budget(j)'
<1> SUFFICES ASSUME TunnelInv, [Next]_vars
             PROVE  \A j \in Legs : Budget(j)'
  OBVIOUS
<1>1. TypeOK /\ TypeOK'
  BY TunnelTypeStep DEF TunnelInv
<1>2. StartShape /\ \A j \in Legs : LegShape(j) /\ Budget(j)
  BY DEF TunnelInv
<1>3. 0 \in Legs /\ MaxDials \in Nat /\ MaxReconnectAttempts \in Nat
  BY ConnsFacts, MaxDialsAssumption, AttemptsAssumption
<1> USE <1>1, <1>2, <1>3 DEF TypeOK, Phase, LegState, HandleState
<1> USE DEF LegShape, StartShape, Budget, Before
<1>10. CASE UNCHANGED vars
  BY <1>10 DEF vars, sessionVars, legVars, handleVars, streamVars
<1>11. CASE PostOk
  BY <1>11 DEF PostOk, Goto, legVars, handleVars, streamVars
<1>12. CASE PostFails
  BY <1>12 DEF PostFails, legVars, handleVars, streamVars
<1>13. CASE StartTimeout
  BY <1>13 DEF StartTimeout, legVars, handleVars, streamVars
<1>14. CASE Shutdown
  BY <1>14 DEF Shutdown, NotifyWaiters, legVars, handleVars, streamVars
<1>15. CASE JoinNext
  BY <1>15 DEF JoinNext, NotifyWaiters, legVars, handleVars, streamVars
<1>16. CASE DropHandle
  BY <1>16 DEF DropHandle, NotifyWaiters, legVars, handleVars, streamVars
<1>17. ASSUME NEW i \in Legs, DialFails(i)
       PROVE  \A j \in Legs : Budget(j)'
  BY <1>17 DEF DialFails, ConnectErr, Goto, legVars, handleVars, streamVars
<1>18. ASSUME NEW i \in Legs, DialOk(i)
       PROVE  \A j \in Legs : Budget(j)'
  BY <1>18 DEF DialOk, Goto, legVars, handleVars, streamVars
<1>19. ASSUME NEW i \in Legs, RegisterFails(i)
       PROVE  \A j \in Legs : Budget(j)'
  BY <1>19 DEF RegisterFails, ConnectErr, Goto, legVars, handleVars, streamVars
<1>20. ASSUME NEW i \in Legs, RegisterSucceeds(i)
       PROVE  \A j \in Legs : Budget(j)'
  BY <1>20 DEF RegisterSucceeds, Goto, legVars, handleVars, streamVars
<1>21. ASSUME NEW i \in Legs, Supervise(i)
       PROVE  \A j \in Legs : Budget(j)'
  BY <1>21 DEF Supervise, Goto, legVars, handleVars, streamVars
<1>22. ASSUME NEW i \in Legs, ConnectionLost(i)
       PROVE  \A j \in Legs : Budget(j)'
  BY <1>22 DEF ConnectionLost, Goto, legVars, handleVars, streamVars
<1>23. ASSUME NEW i \in Legs, ShutdownArm(i)
       PROVE  \A j \in Legs : Budget(j)'
  BY <1>23 DEF ShutdownArm, Goto, legVars, handleVars, streamVars
<1>24. ASSUME NEW i \in Legs, DrainReturns(i)
       PROVE  \A j \in Legs : Budget(j)'
  BY <1>24 DEF DrainReturns, Goto, legVars, handleVars, streamVars
<1>25. ASSUME NEW i \in Legs, NextAttempt(i)
       PROVE  \A j \in Legs : Budget(j)'
  BY <1>25 DEF NextAttempt, Goto, legVars, handleVars, streamVars
<1>26. ASSUME NEW i \in Legs, BackoffElapses(i)
       PROVE  \A j \in Legs : Budget(j)'
  BY <1>26 DEF BackoffElapses, Goto, legVars, handleVars, streamVars
<1>27. ASSUME NEW i \in Legs, BackoffShutdown(i)
       PROVE  \A j \in Legs : Budget(j)'
  BY <1>27 DEF BackoffShutdown, Goto, legVars, handleVars, streamVars
<1>28. ASSUME NEW i \in Legs, AcceptStream(i)
       PROVE  \A j \in Legs : Budget(j)'
  BY <1>28 DEF AcceptStream, legVars, handleVars, streamVars
<1>29. ASSUME NEW c \in Conns, StreamEnds(c)
       PROVE  \A j \in Legs : Budget(j)'
  BY <1>29 DEF StreamEnds, legVars, handleVars, streamVars
<1>30. ASSUME NEW c \in Conns, SessionStep(c)
       PROVE  \A j \in Legs : Budget(j)'
  BY <1>30, SessionStepFrame DEF legVars, handleVars, streamVars
<1>. QED
  BY <1>10, <1>11, <1>12, <1>13, <1>14, <1>15, <1>16, <1>17, <1>18, <1>19,
     <1>20, <1>21, <1>22, <1>23, <1>24, <1>25, <1>26, <1>27, <1>28, <1>29,
     <1>30
     DEF Next, ConnectStep, ReactorStep

\* Until start() returns, only leg 0 runs; afterwards it is in reactor_loop.
LEMMA StartShapeStep ==
    TunnelInv /\ [Next]_vars => StartShape'
<1> SUFFICES ASSUME TunnelInv, [Next]_vars
             PROVE  StartShape'
  OBVIOUS
<1>1. TypeOK /\ TypeOK'
  BY TunnelTypeStep DEF TunnelInv
<1>2. StartShape /\ \A j \in Legs : LegShape(j) /\ Budget(j)
  BY DEF TunnelInv
<1>3. 0 \in Legs /\ MaxDials \in Nat /\ MaxReconnectAttempts \in Nat
  BY ConnsFacts, MaxDialsAssumption, AttemptsAssumption
<1> USE <1>1, <1>2, <1>3 DEF TypeOK, Phase, LegState, HandleState
<1> USE DEF LegShape, StartShape
<1>10. CASE UNCHANGED vars
  BY <1>10 DEF vars, sessionVars, legVars, handleVars, streamVars
<1>11. CASE PostOk
  BY <1>11 DEF PostOk, Goto, legVars, handleVars, streamVars
<1>12. CASE PostFails
  BY <1>12 DEF PostFails, legVars, handleVars, streamVars
<1>13. CASE StartTimeout
  BY <1>13 DEF StartTimeout, legVars, handleVars, streamVars
<1>14. CASE Shutdown
  BY <1>14 DEF Shutdown, NotifyWaiters, legVars, handleVars, streamVars
<1>15. CASE JoinNext
  BY <1>15 DEF JoinNext, NotifyWaiters, legVars, handleVars, streamVars
<1>16. CASE DropHandle
  BY <1>16 DEF DropHandle, NotifyWaiters, legVars, handleVars, streamVars
<1>17. ASSUME NEW i \in Legs, DialFails(i)
       PROVE  StartShape'
  BY <1>17 DEF DialFails, ConnectErr, Goto, legVars, handleVars, streamVars
<1>18. ASSUME NEW i \in Legs, DialOk(i)
       PROVE  StartShape'
  BY <1>18 DEF DialOk, Goto, legVars, handleVars, streamVars
<1>19. ASSUME NEW i \in Legs, RegisterFails(i)
       PROVE  StartShape'
  BY <1>19 DEF RegisterFails, ConnectErr, Goto, legVars, handleVars, streamVars
<1>20. ASSUME NEW i \in Legs, RegisterSucceeds(i)
       PROVE  StartShape'
  BY <1>20 DEF RegisterSucceeds, Goto, legVars, handleVars, streamVars
<1>21. ASSUME NEW i \in Legs, Supervise(i)
       PROVE  StartShape'
  BY <1>21 DEF Supervise, Goto, legVars, handleVars, streamVars
<1>22. ASSUME NEW i \in Legs, ConnectionLost(i)
       PROVE  StartShape'
  BY <1>22 DEF ConnectionLost, Goto, legVars, handleVars, streamVars
<1>23. ASSUME NEW i \in Legs, ShutdownArm(i)
       PROVE  StartShape'
  BY <1>23 DEF ShutdownArm, Goto, legVars, handleVars, streamVars
<1>24. ASSUME NEW i \in Legs, DrainReturns(i)
       PROVE  StartShape'
  BY <1>24 DEF DrainReturns, Goto, legVars, handleVars, streamVars
<1>25. ASSUME NEW i \in Legs, NextAttempt(i)
       PROVE  StartShape'
  BY <1>25 DEF NextAttempt, Goto, legVars, handleVars, streamVars
<1>26. ASSUME NEW i \in Legs, BackoffElapses(i)
       PROVE  StartShape'
  BY <1>26 DEF BackoffElapses, Goto, legVars, handleVars, streamVars
<1>27. ASSUME NEW i \in Legs, BackoffShutdown(i)
       PROVE  StartShape'
  BY <1>27 DEF BackoffShutdown, Goto, legVars, handleVars, streamVars
<1>28. ASSUME NEW i \in Legs, AcceptStream(i)
       PROVE  StartShape'
  BY <1>28 DEF AcceptStream, legVars, handleVars, streamVars
<1>29. ASSUME NEW c \in Conns, StreamEnds(c)
       PROVE  StartShape'
  BY <1>29 DEF StreamEnds, legVars, handleVars, streamVars
<1>30. ASSUME NEW c \in Conns, SessionStep(c)
       PROVE  StartShape'
  BY <1>30, SessionStepFrame DEF legVars, handleVars, streamVars
<1>. QED
  BY <1>10, <1>11, <1>12, <1>13, <1>14, <1>15, <1>16, <1>17, <1>18, <1>19,
     <1>20, <1>21, <1>22, <1>23, <1>24, <1>25, <1>26, <1>27, <1>28, <1>29,
     <1>30
     DEF Next, ConnectStep, ReactorStep

\* Reactors that were joined are done and stay done.
LEMMA JoinShapeStep ==
    TunnelInv /\ [Next]_vars => JoinShape'
<1> SUFFICES ASSUME TunnelInv, [Next]_vars
             PROVE  JoinShape'
  OBVIOUS
<1>1. /\ TypeOK /\ TypeOK' /\ StartShape /\ JoinShape
      /\ \A j \in Legs : LegShape(j)
  BY TunnelTypeStep DEF TunnelInv
<1>2. 0 \in Legs /\ HA \in Nat \ {0}
  BY ConnsFacts, HAAssumption
<1> USE <1>1, <1>2 DEF TypeOK, LegState, HandleState, JoinShape, Finished, Legs
<1>10. CASE UNCHANGED vars
  BY <1>10 DEF vars, sessionVars, legVars, handleVars, streamVars
<1>11. CASE PostOk
  BY <1>11 DEF PostOk, Goto, legVars, handleVars, streamVars
<1>12. CASE PostFails
  BY <1>12 DEF PostFails, legVars, handleVars, streamVars
<1>13. CASE StartTimeout
  BY <1>13 DEF StartTimeout, legVars, handleVars, streamVars
<1>14. CASE Shutdown
  BY <1>14 DEF Shutdown, NotifyWaiters, legVars, handleVars, streamVars
<1>15. CASE JoinNext
  BY <1>15 DEF JoinNext, NotifyWaiters, legVars, handleVars, streamVars
<1>16. CASE DropHandle
  BY <1>16 DEF DropHandle, NotifyWaiters, legVars, handleVars, streamVars
<1>17. ASSUME NEW i \in Legs, DialFails(i)
       PROVE  JoinShape'
  <2>1. CASE phase[i] = "start"
    BY <1>17, <2>1 DEF DialFails, ConnectErr, Goto, LegShape, StartShape
  <2>2. CASE phase[i] # "start"
    BY <1>17, <2>2 DEF DialFails, ConnectErr, Goto
  <2>. QED
    BY <2>1, <2>2
<1>18. ASSUME NEW i \in Legs, DialOk(i)
       PROVE  JoinShape'
  BY <1>18 DEF DialOk, Goto, legVars, handleVars, streamVars
<1>19. ASSUME NEW i \in Legs, RegisterFails(i)
       PROVE  JoinShape'
  <2>1. CASE phase[i] = "start"
    BY <1>19, <2>1 DEF RegisterFails, ConnectErr, Goto, LegShape, StartShape
  <2>2. CASE phase[i] # "start"
    BY <1>19, <2>2 DEF RegisterFails, ConnectErr, Goto
  <2>. QED
    BY <2>1, <2>2
<1>20. ASSUME NEW i \in Legs, RegisterSucceeds(i)
       PROVE  JoinShape'
  <2>1. CASE phase[i] = "start"
    BY <1>20, <2>1 DEF RegisterSucceeds, LegShape, StartShape
  <2>2. CASE phase[i] # "start"
    BY <1>20, <2>2 DEF RegisterSucceeds, Goto
  <2>. QED
    BY <2>1, <2>2
<1>21. ASSUME NEW i \in Legs, Supervise(i)
       PROVE  JoinShape'
  BY <1>21 DEF Supervise, Goto, legVars, handleVars, streamVars
<1>22. ASSUME NEW i \in Legs, ConnectionLost(i)
       PROVE  JoinShape'
  BY <1>22 DEF ConnectionLost, Goto, legVars, handleVars, streamVars
<1>23. ASSUME NEW i \in Legs, ShutdownArm(i)
       PROVE  JoinShape'
  BY <1>23 DEF ShutdownArm, Goto, legVars, handleVars, streamVars
<1>24. ASSUME NEW i \in Legs, DrainReturns(i)
       PROVE  JoinShape'
  BY <1>24 DEF DrainReturns, Goto, legVars, handleVars, streamVars
<1>25. ASSUME NEW i \in Legs, NextAttempt(i)
       PROVE  JoinShape'
  BY <1>25 DEF NextAttempt, Goto, legVars, handleVars, streamVars
<1>26. ASSUME NEW i \in Legs, BackoffElapses(i)
       PROVE  JoinShape'
  BY <1>26 DEF BackoffElapses, Goto, legVars, handleVars, streamVars
<1>27. ASSUME NEW i \in Legs, BackoffShutdown(i)
       PROVE  JoinShape'
  BY <1>27 DEF BackoffShutdown, Goto, legVars, handleVars, streamVars
<1>28. ASSUME NEW i \in Legs, AcceptStream(i)
       PROVE  JoinShape'
  BY <1>28 DEF AcceptStream, legVars, handleVars, streamVars
<1>29. ASSUME NEW c \in Conns, StreamEnds(c)
       PROVE  JoinShape'
  BY <1>29 DEF StreamEnds, legVars, handleVars, streamVars
<1>30. ASSUME NEW c \in Conns, SessionStep(c)
       PROVE  JoinShape'
  BY <1>30, SessionStepFrame DEF legVars, handleVars, streamVars
<1>. QED
  BY <1>10, <1>11, <1>12, <1>13, <1>14, <1>15, <1>16, <1>17, <1>18, <1>19,
     <1>20, <1>21, <1>22, <1>23, <1>24, <1>25, <1>26, <1>27, <1>28, <1>29,
     <1>30
     DEF Next, ConnectStep, ReactorStep

\* No connection has more running streams than were ever accepted.
LEMMA StreamShapeStep ==
    TunnelInv /\ [Next]_vars => StreamShape'
<1> SUFFICES ASSUME TunnelInv, [Next]_vars
             PROVE  StreamShape'
  OBVIOUS
<1>1. TypeOK /\ StreamShape /\ \A j \in Legs : LegShape(j)
  BY DEF TunnelInv
<1> USE <1>1, MaxStreamsAssumption DEF TypeOK, StreamShape
<1>10. CASE UNCHANGED vars
  BY <1>10 DEF vars, sessionVars, legVars, handleVars, streamVars
<1>11. CASE PostOk
  BY <1>11 DEF PostOk, Goto, legVars, handleVars, streamVars
<1>12. CASE PostFails
  BY <1>12 DEF PostFails, legVars, handleVars, streamVars
<1>13. CASE StartTimeout
  BY <1>13 DEF StartTimeout, legVars, handleVars, streamVars
<1>14. CASE Shutdown
  BY <1>14 DEF Shutdown, NotifyWaiters, legVars, handleVars, streamVars
<1>15. CASE JoinNext
  BY <1>15 DEF JoinNext, NotifyWaiters, legVars, handleVars, streamVars
<1>16. CASE DropHandle
  BY <1>16 DEF DropHandle, NotifyWaiters, legVars, handleVars, streamVars
<1>17. ASSUME NEW i \in Legs, DialFails(i)
       PROVE  StreamShape'
  BY <1>17 DEF DialFails, ConnectErr, Goto, legVars, handleVars, streamVars
<1>18. ASSUME NEW i \in Legs, DialOk(i)
       PROVE  StreamShape'
  BY <1>18 DEF DialOk, Goto, legVars, handleVars, streamVars
<1>19. ASSUME NEW i \in Legs, RegisterFails(i)
       PROVE  StreamShape'
  BY <1>19 DEF RegisterFails, ConnectErr, Goto, legVars, handleVars, streamVars
<1>20. ASSUME NEW i \in Legs, RegisterSucceeds(i)
       PROVE  StreamShape'
  BY <1>20 DEF RegisterSucceeds, Goto, legVars, handleVars, streamVars
<1>21. ASSUME NEW i \in Legs, Supervise(i)
       PROVE  StreamShape'
  BY <1>21 DEF Supervise, Goto, legVars, handleVars, streamVars
<1>22. ASSUME NEW i \in Legs, ConnectionLost(i)
       PROVE  StreamShape'
  BY <1>22 DEF ConnectionLost, Goto, legVars, handleVars, streamVars
<1>23. ASSUME NEW i \in Legs, ShutdownArm(i)
       PROVE  StreamShape'
  BY <1>23 DEF ShutdownArm, Goto, legVars, handleVars, streamVars
<1>24. ASSUME NEW i \in Legs, DrainReturns(i)
       PROVE  StreamShape'
  BY <1>24 DEF DrainReturns, Goto, legVars, handleVars, streamVars
<1>25. ASSUME NEW i \in Legs, NextAttempt(i)
       PROVE  StreamShape'
  BY <1>25 DEF NextAttempt, Goto, legVars, handleVars, streamVars
<1>26. ASSUME NEW i \in Legs, BackoffElapses(i)
       PROVE  StreamShape'
  BY <1>26 DEF BackoffElapses, Goto, legVars, handleVars, streamVars
<1>27. ASSUME NEW i \in Legs, BackoffShutdown(i)
       PROVE  StreamShape'
  BY <1>27 DEF BackoffShutdown, Goto, legVars, handleVars, streamVars
<1>28. ASSUME NEW i \in Legs, AcceptStream(i)
       PROVE  StreamShape'
  BY <1>28 DEF AcceptStream, legVars, handleVars, streamVars
<1>29. ASSUME NEW c \in Conns, StreamEnds(c)
       PROVE  StreamShape'
  BY <1>29 DEF StreamEnds, legVars, handleVars, streamVars
<1>30. ASSUME NEW c \in Conns, SessionStep(c)
       PROVE  StreamShape'
  BY <1>30, SessionStepFrame DEF legVars, handleVars, streamVars
<1>. QED
  BY <1>10, <1>11, <1>12, <1>13, <1>14, <1>15, <1>16, <1>17, <1>18, <1>19,
     <1>20, <1>21, <1>22, <1>23, <1>24, <1>25, <1>26, <1>27, <1>28, <1>29,
     <1>30
     DEF Next, ConnectStep, ReactorStep

-----------------------------------------------------------------------------
(* Ownership of the sessions.                                              *)

\* LegOwnsItsSession for one connection, in terms of its number.
OwnsByNumber(c) ==
    /\ caller[c] = "none" <=> c[2] > dials[Leg(c)]
    /\ caller[c] = "awaiting" <=> c[2] = dials[Leg(c)] /\ pc[Leg(c)] = "registering"
    /\ caller[c] = "holding" <=>
          c[2] = dials[Leg(c)] /\ pc[Leg(c)] \in {"ready", "supervising"}
    /\ caller[c] = "draining" <=> c[2] = dials[Leg(c)] /\ pc[Leg(c)] = "draining"

\* Between n and n + 1 there is no other number.
LEMMA NextNumber ==
    \A m, n \in Int : m # n + 1 => (m > n <=> m > n + 1)
OBVIOUS

\* The newest connection of a leg is the one with the number of its dials.
LEMMA OwnershipByNumber ==
    LegOwnsItsSession <=> \A c \in Conns : OwnsByNumber(c)
<1>1. \A c \in Conns : c = Cur(Leg(c)) <=> c[2] = dials[Leg(c)]
  BY ConnsFacts DEF Cur
<1>. QED
  BY <1>1 DEF LegOwnsItsSession, OwnsByNumber

\* Each operation of a leg moves the session and the leg together.
LEMMA OwnershipStep ==
    TunnelInv /\ [Next]_vars => LegOwnsItsSession'
<1> SUFFICES ASSUME TunnelInv, [Next]_vars
             PROVE  LegOwnsItsSession'
  OBVIOUS
<1>1. /\ TypeOK /\ TypeOK' /\ StartShape
      /\ \A j \in Legs : LegShape(j)
  BY TunnelTypeStep DEF TunnelInv
<1>2. \A c \in Conns : OwnsByNumber(c)
  BY OwnershipByNumber DEF TunnelInv
<1> SUFFICES ASSUME NEW d \in Conns PROVE OwnsByNumber(d)'
  <2>1. \A c \in Conns : c = Cur(Leg(c))' <=> c[2] = dials'[Leg(c)]
    BY ConnsFacts DEF Cur
  <2>. QED
    BY <2>1 DEF LegOwnsItsSession, OwnsByNumber
<1>3. 0 \in Legs /\ Leg(d) \in Legs /\ d[2] \in 1 .. MaxDials /\ MaxDials \in Nat
  BY ConnsFacts, MaxDialsAssumption
<1>4. ASSUME NEW i \in Legs, dials[i] >= 1
      PROVE  /\ Cur(i) \in Conns /\ Leg(Cur(i)) = i /\ Cur(i)[2] = dials[i]
             /\ Leg(d) = i /\ d[2] = dials[i] => d = Cur(i)
  BY <1>1, <1>4, CurIsConn, ConnsFacts DEF Cur
<1> USE <1>1, <1>2, <1>3 DEF TypeOK, SessionTypeOK, OwnsByNumber
<1>10. CASE UNCHANGED vars
  BY <1>10 DEF vars, sessionVars, legVars, handleVars, streamVars
<1>11. CASE PostOk
  BY <1>11 DEF PostOk, Goto, legVars, sessionVars, StartShape
<1>12. CASE PostFails
  BY <1>12 DEF PostFails, legVars, sessionVars
<1>13. CASE StartTimeout
  <2>1. CASE pc[0] = "registering"
    BY <1>13, <1>4, <2>1 DEF StartTimeout, RegisterCancel, Abandon, LegShape
  <2>2. CASE pc[0] # "registering"
    BY <1>13, <2>2 DEF StartTimeout, StartShape, sessionVars
  <2>. QED
    BY <2>1, <2>2
<1>14. CASE Shutdown
  BY <1>14 DEF Shutdown, NotifyWaiters, legVars, sessionVars
<1>15. CASE JoinNext
  BY <1>15 DEF JoinNext, NotifyWaiters, legVars, sessionVars
<1>16. CASE DropHandle
  BY <1>16 DEF DropHandle, NotifyWaiters, legVars, sessionVars
<1>17. ASSUME NEW i \in Legs, DialFails(i)
       PROVE  OwnsByNumber(d)'
  BY <1>17 DEF DialFails, ConnectErr, Goto, legVars, sessionVars
<1>18. ASSUME NEW i \in Legs, DialOk(i)
       PROVE  OwnsByNumber(d)'
  <2> DEFINE e == <<i, dials[i] + 1>>
  <2>1. dials[i] + 1 \in 1 .. MaxDials
    BY <1>18 DEF DialOk
  <2>2. /\ e \in Conns /\ Leg(e) = i /\ e[2] = dials[i] + 1
        /\ Leg(d) = i /\ d[2] = dials[i] + 1 => d = e
    BY <2>1, ConnsFacts
  <2>3. caller' = [caller EXCEPT ![e] = "awaiting"]
    BY <1>18 DEF DialOk, RegisterBegin, QueueRegister
  <2>4. /\ caller[e] = "none" /\ pc[i] = "dialing"
        /\ dials' = [dials EXCEPT ![i] = dials[i] + 1]
        /\ pc' = [pc EXCEPT ![i] = "registering"]
    BY <1>18 DEF DialOk, RegisterBegin, QueueRegister, Goto
  <2> HIDE DEF e
  <2>5. CASE Leg(d) = i
    <3>1. dials'[i] = dials[i] + 1 /\ pc'[i] = "registering" /\ dials[i] \in Nat
      BY <2>4
    <3>2. CASE d = e
      BY <2>2, <2>3, <2>5, <3>1, <3>2
    <3>3. CASE d # e
      <4>1. caller'[d] = caller[d] /\ d[2] # dials[i] + 1
        BY <2>2, <2>3, <2>5, <3>3
      <4>2. /\ caller[d] = "none" <=> d[2] > dials[i]
            /\ caller[d] \notin {"awaiting", "holding", "draining"}
        BY <2>4, <2>5
      <4>3. d[2] > dials[i] <=> d[2] > dials[i] + 1
        <5>1. d[2] \in Int /\ dials[i] \in Int
          BY <1>3, <3>1
        <5> HIDE <1>1, <1>2
        <5>. QED
          BY <4>1, <5>1, NextNumber
      <4>. QED
        BY <2>5, <3>1, <4>1, <4>2, <4>3
    <3>. QED
      BY <3>2, <3>3
  <2>6. CASE Leg(d) # i
    BY <2>2, <2>3, <2>4, <2>6
  <2>. QED
    BY <2>5, <2>6
<1>19. ASSUME NEW i \in Legs, RegisterFails(i)
       PROVE  OwnsByNumber(d)'
  <2>1. dials[i] >= 1
    BY <1>19 DEF RegisterFails, LegShape
  <2>2. Abandon(Cur(i))
    BY <1>19 DEF RegisterFails, RegisterErr, RegisterTimeout
  <2>. QED
    BY <1>19, <1>4, <2>1, <2>2 DEF RegisterFails, Abandon, ConnectErr, Goto
<1>20. ASSUME NEW i \in Legs, RegisterSucceeds(i)
       PROVE  OwnsByNumber(d)'
  <2>1. dials[i] >= 1
    BY <1>20 DEF RegisterSucceeds, LegShape
  <2>2. CASE phase[i] = "start"
    BY <1>20, <1>4, <2>1, <2>2 DEF RegisterSucceeds, RegisterOk, LegShape,
       StartShape
  <2>3. CASE phase[i] # "start"
    BY <1>20, <1>4, <2>1, <2>3 DEF RegisterSucceeds, RegisterOk, Goto
  <2>. QED
    BY <2>2, <2>3
<1>21. ASSUME NEW i \in Legs, Supervise(i)
       PROVE  OwnsByNumber(d)'
  BY <1>21 DEF Supervise, Goto, legVars, sessionVars
<1>22. ASSUME NEW i \in Legs, ConnectionLost(i)
       PROVE  OwnsByNumber(d)'
  BY <1>22, <1>4 DEF ConnectionLost, DropSession, Goto, LegShape
<1>23. ASSUME NEW i \in Legs, ShutdownArm(i)
       PROVE  OwnsByNumber(d)'
  BY <1>23, <1>4 DEF ShutdownArm, ShutdownGraceful, Goto, LegShape
<1>24. ASSUME NEW i \in Legs, DrainReturns(i)
       PROVE  OwnsByNumber(d)'
  BY <1>24, <1>4 DEF DrainReturns, ShutdownReturn, Goto, LegShape
<1>25. ASSUME NEW i \in Legs, NextAttempt(i)
       PROVE  OwnsByNumber(d)'
  BY <1>25 DEF NextAttempt, Goto, legVars, sessionVars
<1>26. ASSUME NEW i \in Legs, BackoffElapses(i)
       PROVE  OwnsByNumber(d)'
  BY <1>26 DEF BackoffElapses, Goto, legVars, sessionVars
<1>27. ASSUME NEW i \in Legs, BackoffShutdown(i)
       PROVE  OwnsByNumber(d)'
  BY <1>27 DEF BackoffShutdown, Goto, legVars, sessionVars
<1>28. ASSUME NEW i \in Legs, AcceptStream(i)
       PROVE  OwnsByNumber(d)'
  BY <1>28 DEF AcceptStream, legVars, sessionVars
<1>29. ASSUME NEW c \in Conns, StreamEnds(c)
       PROVE  OwnsByNumber(d)'
  BY <1>29 DEF StreamEnds, legVars, sessionVars
<1>30. ASSUME NEW c \in Conns, SessionStep(c)
       PROVE  OwnsByNumber(d)'
  BY <1>30, SessionStepFrame DEF legVars, handleVars, streamVars
<1>. QED
  BY <1>10, <1>11, <1>12, <1>13, <1>14, <1>15, <1>16, <1>17, <1>18, <1>19,
     <1>20, <1>21, <1>22, <1>23, <1>24, <1>25, <1>26, <1>27, <1>28, <1>29,
     <1>30
     DEF Next, ConnectStep, ReactorStep

-----------------------------------------------------------------------------

\* Every step of the tunnel preserves the invariant.
LEMMA TunnelInvStep == TunnelInv /\ [Next]_vars => TunnelInv'
BY TunnelTypeStep, LegShapeStep, BudgetStep, StartShapeStep, JoinShapeStep,
   StreamShapeStep, OwnershipStep DEF TunnelInv

\* The inductive invariant holds in every reachable state of the tunnel.
THEOREM TunnelInvariance == Spec => []TunnelInv
BY TunnelInitInv, TunnelInvStep, PTL DEF Spec

\* Type correctness of the tunnel: the attempt counter, the dial and stream
\* counters and the join index never leave their ranges.
THEOREM TypeCorrect == Spec => []TypeOK
<1>1. TunnelInv => TypeOK
  BY DEF TunnelInv
<1>. QED
  BY <1>1, TunnelInvariance, PTL

\* What is proved of the control sessions holds of those in the tunnel: each
\* of its steps is one of theirs, or leaves them alone.
LEMMA TunnelImplementsSession == Spec => SessionSpec
<1>1. Init => SessionInit
  BY DEF Init
<1>. QED
  BY <1>1, TunnelInvariance, NextRefinesSession, PTL DEF Spec, SessionSpec

\* A leg owns the session of its newest connection and no other.
THEOREM SessionOwnership == Spec => []LegOwnsItsSession
<1>1. TunnelInv => LegOwnsItsSession
  BY DEF TunnelInv
<1>. QED
  BY <1>1, TunnelInvariance, PTL

\* No RPC thread is left running unsignalled by a leg that has moved on:
\* from the session's own guarantee and the ownership of the legs.
THEOREM NoOrphans == Spec => []NoOrphanDriver
<1>1. UnsignalledDriverIsOwned /\ LegOwnsItsSession => NoOrphanDriver
  BY DEF UnsignalledDriverIsOwned, LegOwnsItsSession, NoOrphanDriver
<1>. QED
  BY <1>1, TunnelImplementsSession, NoLeakedDriver, SessionOwnership, PTL

\* A leg gives up exactly when its budget of failed attempts is used up.
THEOREM GivesUpInBudget == Spec => []GiveUpAfterBudget
<1>1. TunnelInv => GiveUpAfterBudget
  BY DEF TunnelInv, Budget, Before, GiveUpAfterBudget
<1>. QED
  BY <1>1, TunnelInvariance, PTL

\* When shutdown() has returned, every reactor is done and no session is
\* owned or awaited any more.
THEOREM ClosedIsFinished == Spec => []ClosedMeansFinished
<1>1. TunnelInv => ClosedMeansFinished
  <2> SUFFICES ASSUME TunnelInv, handle = "closed"
               PROVE  /\ \A i \in Legs : Finished(i)
                      /\ \A c \in Conns : caller[c] \in {"none", "released"}
    BY DEF ClosedMeansFinished
  <2>1. \A i \in Legs : Finished(i)
    BY HAAssumption DEF TunnelInv, JoinShape, Legs
  <2>2. ASSUME NEW c \in Conns PROVE caller[c] \in {"none", "released"}
    <3>1. pc[Leg(c)] \in {"stopped", "gaveup"}
      BY <2>1, ConnsFacts DEF Finished
    <3>2. caller[c] \notin {"awaiting", "holding", "draining"}
      BY <3>1 DEF TunnelInv, LegOwnsItsSession
    <3>3. caller[c] \in CallerState
      BY DEF TunnelInv, TypeOK, SessionTypeOK
    <3>. QED
      BY <3>2, <3>3 DEF CallerState
  <2>. QED
    BY <2>1, <2>2
<1>. QED
  BY <1>1, TunnelInvariance, PTL

=============================================================================
