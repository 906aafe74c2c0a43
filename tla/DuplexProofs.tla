---------------------------- MODULE DuplexProofs -----------------------------
(***************************************************************************)
(* Safety of an unpooled stream, for any number of pieces: what the pumps  *)
(* may drop and still end a half cleanly.                                  *)
(***************************************************************************)
EXTENDS Duplex, TLAPS

Ended(d) == half[d] \in {"done", "failed"}

\* The frame is read before anything else happens on the stream.
FrameFirst ==
    /\ head <= HeadLen
    /\ pc \in {"connecting", "joining"} => head = HeadLen
    /\ pc \in {"reading", "connecting"} =>
           source["down"] = "open" /\ \A d \in Halves : ~Ended(d)

\* Only the down half of run_bidi waits for a response head, and the edge
\* has been told nothing until it is there.
HeadIsUntold ==
    /\ half["up"] # "head"
    /\ half["down"] = "head" => mode = "bidi"
    /\ pc = "joining" /\ half["down"] = "head" => ~told

\* Why a half is over: its pump has moved all of what its source wrote, or
\* something has gone wrong on that half.
EndsForAReason ==
    \A d \in Halves :
        /\ half[d] = "done" =>
               /\ source[d] = "fin"
               /\ moved[d] = written[d] - (IF d = "up" THEN HeadLen ELSE 0)
        /\ half[d] = "failed" =>
               source[d] = "reset" \/ d \in deaf \/ (d = "down" /\ ~told)

\* When a reading end sees a clean end: after the pump of its half, or when
\* a stream is dropped that never got as far as the pumps.
FinsHaveEnds ==
    /\ sink["up"] = "fin" => Ended("up")
    /\ sink["down"] = "fin" => pc = "over" /\ (Ended("down") \/ source["down"] = "open")

DuplexInv ==
    /\ TypeOK /\ written \in [Halves -> Nat]
    /\ FrameFirst /\ HeadIsUntold /\ EndsForAReason /\ FinsHaveEnds

-----------------------------------------------------------------------------

\* A stream that has just been opened.
LEMMA DuplexInitInv == Init => DuplexInv
<1> SUFFICES ASSUME Init PROVE DuplexInv
  OBVIOUS
<1>1. /\ half["up"] = "pumping" /\ half["down"] \in {"head", "pumping"}
      /\ half["down"] = "head" => mode = "bidi"
      /\ half \in [Halves -> {"head", "pumping", "done", "failed"}]
  BY DEF Init, Halves
<1>2. TypeOK /\ written \in [Halves -> Nat]
  <2>1. MaxBytes \in Nat /\ HeadLen = 3 /\ \A d \in Halves : Most(d) \in Nat
    BY MaxBytesAssumption DEF Most, HeadLen
  <2>2. \A d \in Halves : written[d] = 0 /\ moved[d] = 0 /\ Unread(d) = 0
    BY DEF Init, Unread
  <2>3. Most("up") \in Nat
    BY <2>1 DEF Halves
  <2>4. /\ written \in [Halves -> Nat] /\ moved \in [Halves -> 0 .. MaxBytes]
        /\ source \in [Halves -> {"open", "fin", "reset"}]
        /\ sink \in [Halves -> {"open", "fin", "reset"}]
    BY <2>1 DEF Init
  <2>5. \A d \in Halves : written[d] \in 0 .. Most(d) /\ Unread(d) \in Nat
    BY <2>1, <2>2
  <2>6. /\ mode \in {"bidi", "tcp"} /\ opening \in {"ok", "wrong_signature", "bad_message"}
        /\ pc \in {"reading", "connecting", "joining", "over"} /\ head \in 0 .. Most("up")
        /\ patient \in SUBSET Halves /\ deaf \in SUBSET Halves
    BY <2>3 DEF Init
  <2>7. told \in BOOLEAN
    BY DEF Init
  <2>. QED
    BY <1>1, <2>4, <2>5, <2>6, <2>7 DEF TypeOK
<1>3. FrameFirst /\ HeadIsUntold /\ EndsForAReason /\ FinsHaveEnds
  BY <1>1 DEF Init, FrameFirst, HeadIsUntold, EndsForAReason, FinsHaveEnds, Ended,
     Halves, HeadLen
<1>. QED
  BY <1>2, <1>3 DEF DuplexInv

\* The task reads the frame, connects, or gives up before the pumps run.
LEMMA OpeningStep ==
    ASSUME DuplexInv,
           ReadPreamble \/ ReadMessage \/ ReadCut \/ ConnectOk \/ ConnectErr \/ ConnectUnusable
    PROVE  DuplexInv'
<1> USE MaxBytesAssumption
    DEF DuplexInv, TypeOK, FrameFirst, HeadIsUntold, EndsForAReason, FinsHaveEnds, Ended,
        Halves, HeadLen, Most, Unread, farVars, Drop
<1>1. CASE ReadPreamble
  BY <1>1 DEF ReadPreamble
<1>2. CASE ReadMessage
  BY <1>2 DEF ReadMessage
<1>3. CASE ReadCut
  BY <1>3 DEF ReadCut
<1>4. CASE ConnectOk
  BY <1>4 DEF ConnectOk
<1>5. CASE ConnectErr
  BY <1>5 DEF ConnectErr
<1>6. CASE ConnectUnusable
  BY <1>6 DEF ConnectUnusable
<1>. QED
  BY <1>1, <1>2, <1>3, <1>4, <1>5, <1>6

\* The two halves run, and are joined.
LEMMA PumpingStep ==
    ASSUME DuplexInv,
           ReadHead \/ ReadHeadErr \/ Join \/ \E d \in Halves : HalfStep(d)
    PROVE  DuplexInv'
<1> USE MaxBytesAssumption
    DEF DuplexInv, TypeOK, FrameFirst, HeadIsUntold, EndsForAReason, FinsHaveEnds, Ended,
        Halves, HeadLen, Most, Unread, farVars
<1>1. CASE ReadHead
  BY <1>1 DEF ReadHead
<1>2. CASE ReadHeadErr
  BY <1>2 DEF ReadHeadErr
<1>3. CASE Join
  BY <1>3 DEF Join
<1>4. ASSUME NEW d \in Halves, Pump(d) PROVE DuplexInv'
  BY <1>4 DEF Pump
<1>5. ASSUME NEW d \in Halves, PumpEof(d) PROVE DuplexInv'
  BY <1>5 DEF PumpEof, HalfEnds
<1>6. ASSUME NEW d \in Halves, PumpErr(d) PROVE DuplexInv'
  BY <1>6 DEF PumpErr, HalfEnds
<1>. QED
  BY <1>1, <1>2, <1>3, <1>4, <1>5, <1>6 DEF HalfStep

\* The far ends write, end, break off or stop accepting.
LEMMA FarStep ==
    ASSUME DuplexInv, NEW d \in Halves, Write(d) \/ Fin(d) \/ Reset(d) \/ Refuse(d)
    PROVE  DuplexInv'
<1> USE MaxBytesAssumption
    DEF DuplexInv, TypeOK, FrameFirst, HeadIsUntold, EndsForAReason, FinsHaveEnds, Ended,
        Halves, HeadLen, Most, Unread, Present
<1>1. CASE Write(d)
  BY <1>1 DEF Write
<1>2. CASE Fin(d)
  BY <1>2 DEF Fin, Other
<1>3. CASE Reset(d)
  BY <1>3 DEF Reset
<1>4. CASE Refuse(d)
  BY <1>4 DEF Refuse
<1>. QED
  BY <1>1, <1>2, <1>3, <1>4

\* Every step of the task and of the far ends keeps the invariant.
LEMMA DuplexInvStep == DuplexInv /\ [Next]_vars => DuplexInv'
<1> SUFFICES ASSUME DuplexInv, [Next]_vars PROVE DuplexInv'
  OBVIOUS
<1>1. CASE UNCHANGED vars
  BY <1>1 DEF vars, DuplexInv, TypeOK, FrameFirst, HeadIsUntold, EndsForAReason,
     FinsHaveEnds, Ended, Unread
<1>2. CASE Next
  BY <1>2, OpeningStep, PumpingStep, FarStep DEF Next, TaskStep
<1>. QED
  BY <1>1, <1>2

\* The inductive invariant holds in every reachable state.
THEOREM DuplexInvariance == Spec => []DuplexInv
BY DuplexInitInv, DuplexInvStep, PTL DEF Spec

\* Type correctness: a pump never moves more than its source has written
\* behind the frame.
THEOREM DuplexTypeCorrect == Spec => []TypeOK
<1>1. DuplexInv => TypeOK
  BY DEF DuplexInv
<1>. QED
  BY <1>1, DuplexInvariance, PTL

\* A half that both ends see ending cleanly has lost nothing, frame bytes
\* excluded, however the two halves, their errors and the join interleave.
THEOREM CleanEndsAreWhole == Spec => []CleanEndIsWhole
<1>1. DuplexInv => CleanEndIsWhole
  BY DEF DuplexInv, TypeOK, EndsForAReason, FinsHaveEnds, CleanEndIsWhole, Ended, Halves
<1>. QED
  BY <1>1, DuplexInvariance, PTL

=============================================================================
