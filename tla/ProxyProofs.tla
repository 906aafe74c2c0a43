----------------------------- MODULE ProxyProofs -----------------------------
(***************************************************************************)
(* Safety of the proxy and its pool for any number of streams and sockets  *)
(* and bodies of any length: a pooled socket is quiet, and a stream is     *)
(* shown its own response, as module Exchange promises.                    *)
(***************************************************************************)
EXTENDS Proxy, PoolProofs

ProxyTypeOK ==
    /\ phase \in [Tasks -> Phase]
    /\ request \in [Tasks -> Requests \cup {None}]
    /\ want \in [Tasks -> (0 .. MaxBody) \cup (0 .. MaxUpload)]
    /\ unread \in [Sockets -> Seq(Item)]
    /\ owed \in [Sockets -> Seq(Tasks)]
    /\ sent \in [Tasks -> 0 .. MaxBody + 1]
    /\ got \in [Tasks -> Seq(Tasks \X (0 .. MaxBody))]

Holding == {"connected", "uploading", "head", "body", "drain", "bidi"}

\* Nothing is under way on a socket.
Quiet(s) == unread[s] = <<>> /\ owed[s] = <<>>

\* What a task has shown and what is still to be read from its socket are
\* together what the origin has written for it, in order.
Follows(t) ==
    LET in == unread[sock[t]] IN
    /\ Len(got[t]) + Len(in) = sent[t]
    /\ \A k \in 1 .. Len(got[t]) : got[t][k] = <<t, k - 1>>
    /\ \A k \in 1 .. Len(in) : in[k].of = t /\ in[k].pos = Len(got[t]) + k - 1

\* No more follows a head than its Content-Length announces.
Announced(s) ==
    unread[s] # <<>> =>
        \/ unread[s][1].promise \in {None, Bad}
        \/ Len(unread[s]) <= unread[s][1].promise + 1

\* How far a task is, as seen on its socket.
Stage(t) ==
    /\ Holds(t) <=> phase[t] \in Holding
    /\ state[t] = "connecting" => phase[t] = "acquiring"
    /\ phase[t] \in {"acquiring", "connected"} => request[t] \in Requests
    /\ phase[t] \notin {"body", "drain"} => got[t] = <<>>
    /\ phase[t] \notin Holding => sent[t] = 0
    /\ phase[t] \in {"connected", "bidi"} => Quiet(sock[t]) /\ sent[t] = 0
    /\ phase[t] \in {"uploading", "head"} =>
           \/ owed[sock[t]] = <<t>> /\ unread[sock[t]] = <<>> /\ sent[t] = 0
           \/ owed[sock[t]] = <<>> /\ Follows(t) /\ Announced(sock[t])
    /\ phase[t] \in {"body", "drain"} =>
           owed[sock[t]] = <<>> /\ Follows(t) /\ got[t] # <<>>
    /\ phase[t] = "body" => Len(unread[sock[t]]) <= want[t]

\* A socket nobody holds carries nothing, whether it is pooled or not.
UnheldQuiet ==
    \A s \in Sockets : (\A t \in Tasks : Holds(t) => sock[t] # s) => Quiet(s)

ProxyInv ==
    /\ PoolInv /\ ProxyTypeOK /\ UnheldQuiet
    /\ \A t \in Tasks : Stage(t)

-----------------------------------------------------------------------------
(* Sequences and shapes.                                                   *)

\* One piece is taken off the front.
LEMMA TailFacts ==
    ASSUME NEW S, NEW s \in Seq(S), s # <<>>
    PROVE  /\ Len(s) \in Nat \ {0} /\ Head(s) = s[1] /\ s[1] \in S
           /\ Tail(s) \in Seq(S) /\ Len(Tail(s)) = Len(s) - 1
           /\ \A k \in 1 .. Len(s) - 1 : Tail(s)[k] = s[k + 1]
OBVIOUS

\* A read takes n pieces and leaves the others.
LEMMA SplitFacts ==
    ASSUME NEW S, NEW s \in Seq(S), NEW n \in 0 .. Len(s)
    PROVE  /\ SubSeq(s, 1, n) \in Seq(S) /\ Len(SubSeq(s, 1, n)) = n
           /\ \A k \in 1 .. n : SubSeq(s, 1, n)[k] = s[k]
           /\ SubSeq(s, n + 1, Len(s)) \in Seq(S)
           /\ Len(SubSeq(s, n + 1, Len(s))) = Len(s) - n
           /\ \A k \in 1 .. Len(s) - n : SubSeq(s, n + 1, Len(s))[k] = s[n + k]
OBVIOUS

\* Pieces are written behind those already there.
LEMMA ConcatFacts ==
    ASSUME NEW S, NEW s \in Seq(S), NEW r \in Seq(S)
    PROVE  /\ s \o r \in Seq(S) /\ Len(s \o r) = Len(s) + Len(r)
           /\ \A k \in 1 .. Len(s) : (s \o r)[k] = s[k]
           /\ \A k \in 1 .. Len(r) : (s \o r)[Len(s) + k] = r[k]
OBVIOUS

\* What a stream sees of what was read.
LEMMA PiecesFacts ==
    ASSUME NEW in \in Seq(Item)
    PROVE  /\ Pieces(in) \in Seq(Tasks \X (0 .. MaxBody))
           /\ Len(Pieces(in)) = Len(in)
           /\ \A k \in 1 .. Len(in) : Pieces(in)[k] = <<in[k].of, in[k].pos>>
<1>1. Len(in) \in Nat /\ \A k \in 1 .. Len(in) : in[k] \in Item
  OBVIOUS
<1>2. \A k \in 1 .. Len(in) : in[k].of \in Tasks /\ in[k].pos \in 0 .. MaxBody
  BY <1>1 DEF Item
<1>3. Pieces(in) \in [1 .. Len(in) -> Tasks \X (0 .. MaxBody)]
  BY <1>2 DEF Pieces
<1>. QED
  BY <1>1, <1>3, IsASeq, LenProperties DEF Pieces

\* The upload of a request is bounded by its Content-Length.
LEMMA RequestFacts ==
    ASSUME NEW q \in Requests
    PROVE  q.upload \in 0 .. MaxUpload
<1>1. CASE \E n \in {None} \cup 0 .. MaxUpload : q = AnalyseRequest({}, n)
  BY <1>1, BodyAssumption DEF AnalyseRequest
<1>2. CASE \E h \in Unpoolable : q = AnalyseRequest({h}, None)
  BY <1>2, BodyAssumption DEF AnalyseRequest
<1>. QED
  BY <1>1, <1>2 DEF Requests

\* An answer never has more body than its head announces.
LEMMA ReplyFacts ==
    ASSUME NEW r \in Replies
    PROVE  /\ r.promise \in Promise /\ r.body \in 0 .. MaxBody
           /\ r.promise \in {None, Bad} \/ r.body <= r.promise
<1>1. CASE \E n \in 0 .. MaxBody :
              r \in [promise : {AnalyseResponse(FALSE, h, n) : h \in {{}} \cup {{u} : u \in Unpoolable}},
                     body : {0, n}, closes : BOOLEAN]
  <2>1. PICK n \in 0 .. MaxBody :
              r \in [promise : {AnalyseResponse(FALSE, h, n) : h \in {{}} \cup {{u} : u \in Unpoolable}},
                     body : {0, n}, closes : BOOLEAN]
    BY <1>1
  <2>2. r.body \in {0, n} /\ r.promise \in {None, n}
    <3>1. \A h : AnalyseResponse(FALSE, h, n) \in {None, n}
      BY DEF AnalyseResponse
    <3>. QED
      BY <2>1, <3>1
  <2>. QED
    BY <2>2, BodyAssumption DEF Promise
<1>2. CASE r \in [promise : {AnalyseResponse(FALSE, h, None) : h \in {{}, {"transfer-encoding: chunked"}}},
                  body : 0 .. MaxBody, closes : BOOLEAN]
  BY <1>2 DEF AnalyseResponse, Promise
<1>3. CASE r \in [promise : {Bad}, body : {0}, closes : BOOLEAN]
  BY <1>3, BodyAssumption DEF Promise
<1>. QED
  BY <1>1, <1>2, <1>3 DEF Replies

-----------------------------------------------------------------------------
(* The proxy uses the pool as the pool is meant to be used.                *)

\* Every step of a stream or of the origin is at most one step of the pool.
LEMMA PoolStep == ProxyTypeOK /\ [Next]_vars => [PoolNext]_poolVars
<1> SUFFICES ASSUME ProxyTypeOK, [Next]_vars PROVE [PoolNext]_poolVars
  OBVIOUS
<1>1. CASE UNCHANGED vars
  BY <1>1 DEF vars
<1>2. ASSUME NEW t \in Tasks, StreamStep(t) \/ IoFails(t) \/ BidiEnds(t)
      PROVE  [PoolNext]_poolVars
  <2>1. UNCHANGED poolVars \/ TaskStep(t)
    BY <1>2 DEF StreamStep, IoFails, BidiEnds, ReadRequest, ReadRequestFails, GetSocket,
       NoUpstream, WriteHead, Upload, ReadHead, Pump, Finish, ReadEof, BadHead,
       DropSocket, TaskStep
  <2>. QED
    BY <2>1 DEF PoolNext
<1>3. ASSUME NEW s \in Sockets, OriginAnswers(s)
      PROVE  [PoolNext]_poolVars
  <2>1. PICK r \in Replies : \E n \in 0 .. r.body + 1 : Answer(Head(owed[s]), s, r, n)
    BY <1>3 DEF OriginAnswers
  <2>5. PICK n \in 0 .. r.body + 1 : Answer(Head(owed[s]), s, r, n)
    BY <2>1
  <2>2. Head(owed[s]) \in Tasks
    BY <1>3, TailFacts DEF ProxyTypeOK, OriginAnswers
  <2>3. OriginResponds(Head(owed[s]), r.closes \/ n < r.body + 1)
    BY <2>5 DEF Answer
  <2>4. (r.closes \/ n < r.body + 1) \in BOOLEAN
    OBVIOUS
  <2>. QED
    BY <2>2, <2>3, <2>4 DEF PoolNext, TaskStep
<1>4. ASSUME NEW s \in Sockets, Passing(OriginTimesOut(s)) PROVE [PoolNext]_poolVars
  BY <1>4 DEF Passing, PoolNext
<1>5. CASE Passing(Tick)
  BY <1>5 DEF Passing, PoolNext
<1>. QED
  BY <1>1, <1>2, <1>3, <1>4, <1>5 DEF Next

-----------------------------------------------------------------------------
(* Types.                                                                  *)

\* What the pool's own variables and the origin's clock say does not matter
\* to the variables of the proxy.
LEMMA EndTypes ==
    ASSUME ProxyTypeOK, NEW t \in Tasks, NEW p \in Phase, End(t, p)
    PROVE  /\ phase' \in [Tasks -> Phase]
           /\ request' \in [Tasks -> Requests \cup {None}]
           /\ want' \in [Tasks -> (0 .. MaxBody) \cup (0 .. MaxUpload)]
           /\ sent' \in [Tasks -> 0 .. MaxBody + 1]
           /\ got' \in [Tasks -> Seq(Tasks \X (0 .. MaxBody))]
<1>1. 0 \in 0 .. MaxBody /\ 0 \in 0 .. MaxBody + 1 /\ <<>> \in Seq(Tasks \X (0 .. MaxBody))
  BY BodyAssumption
<1>. QED
  BY <1>1 DEF End, ProxyTypeOK

\* A dropped socket carries nothing.
LEMMA DropTypes ==
    ASSUME ProxyTypeOK, NEW t \in Tasks, DropSocket(t)
    PROVE  /\ unread' \in [Sockets -> Seq(Item)]
           /\ owed' \in [Sockets -> Seq(Tasks)]
<1>1. <<>> \in Seq(Item) /\ <<>> \in Seq(Tasks)
  OBVIOUS
<1>. QED
  BY <1>1 DEF DropSocket, ProxyTypeOK

\* The pieces of an answer, as the origin writes them.
Written(t, r, n) ==
    [k \in 1 .. n |-> [of |-> t, pos |-> k - 1,
                       promise |-> IF k = 1 THEN r.promise ELSE Bad]]

\* An answer is its head and its body, piece by piece.
LEMMA WrittenFacts ==
    ASSUME NEW t \in Tasks, NEW r \in Replies, NEW n \in 0 .. r.body + 1
    PROVE  /\ Written(t, r, n) \in Seq(Item) /\ Len(Written(t, r, n)) = n
           /\ n \in 0 .. MaxBody + 1
           /\ \A k \in 1 .. n : /\ Written(t, r, n)[k].of = t
                                /\ Written(t, r, n)[k].pos = k - 1
           /\ n # 0 => Written(t, r, n)[1].promise = r.promise
<1>1. r.promise \in Promise /\ r.body \in 0 .. MaxBody /\ Bad \in Promise
  BY ReplyFacts DEF Promise
<1>2. n \in Nat /\ n <= MaxBody + 1
  BY <1>1, BodyAssumption
<1>3. Written(t, r, n) \in [1 .. n -> Item]
  BY <1>1, <1>2, BodyAssumption DEF Written, Item
<1>. QED
  BY <1>2, <1>3, IsASeq, LenProperties, BodyAssumption DEF Written

\* No step leaves the types.
LEMMA ProxyTypeStep ==
    ASSUME ProxyTypeOK, PoolTypeOK, HoldersHold, \A t \in Tasks : Stage(t), [Next]_vars
    PROVE  ProxyTypeOK'
<1>1. CASE UNCHANGED proxyVars
  BY <1>1 DEF proxyVars, ProxyTypeOK
<1> DEFINE Want == (0 .. MaxBody) \cup (0 .. MaxUpload)
<1>2. ASSUME NEW t \in Tasks, ReadRequest(t) PROVE ProxyTypeOK'
  BY <1>2 DEF ReadRequest, Goto, ProxyTypeOK, Phase
<1>3. ASSUME NEW t \in Tasks, ReadRequestFails(t) \/ NoUpstream(t) PROVE ProxyTypeOK'
  BY <1>3, EndTypes DEF ReadRequestFails, NoUpstream, Phase, ProxyTypeOK
<1>4. ASSUME NEW t \in Tasks, GetSocket(t) PROVE ProxyTypeOK'
  BY <1>4 DEF GetSocket, Goto, ProxyTypeOK, Phase
<1>5. ASSUME NEW t \in Tasks, WriteHead(t) PROVE ProxyTypeOK'
  <2>1. request[t] \in Requests
    BY <1>5 DEF WriteHead, Stage
  <2>2. request[t].upload \in Want
    BY <2>1, RequestFacts
  <2>3. \A s \in Sockets : Append(owed[s], t) \in Seq(Tasks)
    BY DEF ProxyTypeOK
  <2>4. want' \in [Tasks -> Want]
    BY <1>5, <2>2 DEF WriteHead, ProxyTypeOK
  <2>5. owed' \in [Sockets -> Seq(Tasks)]
    <3>1. owed' = owed \/ owed' = [owed EXCEPT ![sock[t]] = Append(owed[sock[t]], t)]
      BY <1>5 DEF WriteHead
    <3>2. sock[t] \in Sockets
      BY <1>5 DEF WriteHead, Stage, Holding, HoldersHold
    <3>3. Append(owed[sock[t]], t) \in Seq(Tasks)
      BY <2>3, <3>2
    <3>. QED
      BY <3>1, <3>3 DEF ProxyTypeOK
  <2>. QED
    BY <1>5, <2>4, <2>5 DEF WriteHead, Goto, ProxyTypeOK, Phase
<1>6. ASSUME NEW t \in Tasks, Upload(t) PROVE ProxyTypeOK'
  <2>1. want[t] \in Want
    BY DEF ProxyTypeOK
  <2>2. want[t] > 0 => want[t] - 1 \in Want
    BY <2>1, BodyAssumption
  <2>. QED
    BY <1>6, <2>2 DEF Upload, Goto, ProxyTypeOK, Phase
<1>7. ASSUME NEW t \in Tasks, ReadHead(t) PROVE ProxyTypeOK'
  <2> DEFINE in == unread[sock[t]]
  <2>1. sock[t] \in Sockets
    BY <1>7 DEF ReadHead, Stage, Holding, HoldersHold
  <2>2. in \in Seq(Item) /\ in # <<>> /\ Head(in) = in[1] /\ in[1] \in Item
        /\ Len(in) \in Nat \ {0}
    BY <1>7, <2>1, TailFacts DEF ReadHead, ProxyTypeOK
  <2>3. PICK k \in 0 .. Len(in) - 1 :
          /\ got' = [got EXCEPT ![t] = Pieces(SubSeq(in, 1, k + 1))]
          /\ unread' = [unread EXCEPT ![sock[t]] = SubSeq(in, k + 2, Len(in))]
          /\ IF Head(in).promise # None
               THEN /\ Goto(t, "body")
                    /\ want' = [want EXCEPT ![t] = Remaining(Head(in).promise, k)]
               ELSE Goto(t, "drain") /\ UNCHANGED want
    BY <1>7 DEF ReadHead
  <2>4. k + 1 \in 0 .. Len(in) /\ k + 2 = (k + 1) + 1
    BY <2>2
  <2>5. SubSeq(in, 1, k + 1) \in Seq(Item) /\ SubSeq(in, k + 2, Len(in)) \in Seq(Item)
    BY <2>2, <2>4, SplitFacts
  <2>6. Pieces(SubSeq(in, 1, k + 1)) \in Seq(Tasks \X (0 .. MaxBody))
    BY <2>5, PiecesFacts
  <2>7. Head(in).promise # None => Head(in).promise \in 0 .. MaxBody
    BY <1>7, <2>2 DEF ReadHead, Item, Promise
  <2>8. Head(in).promise # None => Remaining(Head(in).promise, k) \in Want
    BY <2>2, <2>7, BodyAssumption DEF Remaining
  <2>9. want' \in [Tasks -> Want] /\ phase' \in [Tasks -> Phase]
    BY <2>3, <2>8 DEF Goto, ProxyTypeOK, Phase
  <2>10. got' \in [Tasks -> Seq(Tasks \X (0 .. MaxBody))] /\ unread' \in [Sockets -> Seq(Item)]
    BY <2>3, <2>5, <2>6 DEF ProxyTypeOK
  <2>. QED
    BY <1>7, <2>9, <2>10 DEF ReadHead, ProxyTypeOK
<1>8. ASSUME NEW t \in Tasks, Pump(t) PROVE ProxyTypeOK'
  <2> DEFINE in == unread[sock[t]]
  <2>1. sock[t] \in Sockets
    BY <1>8 DEF Pump, Stage, Holding, HoldersHold
  <2>2. in \in Seq(Item) /\ in # <<>> /\ Head(in) \in Item /\ Tail(in) \in Seq(Item)
    BY <1>8, <2>1, TailFacts DEF Pump, ProxyTypeOK
  <2>3. <<Head(in)>> \in Seq(Item) /\ got[t] \in Seq(Tasks \X (0 .. MaxBody))
    BY <2>2 DEF ProxyTypeOK
  <2>4. got[t] \o Pieces(<<Head(in)>>) \in Seq(Tasks \X (0 .. MaxBody))
    BY <2>3, PiecesFacts, ConcatFacts
  <2>5. want[t] \in Want
    BY DEF ProxyTypeOK
  <2>6. want[t] > 0 => want[t] - 1 \in Want
    BY <2>5, BodyAssumption
  <2>7. want' \in [Tasks -> Want]
    BY <1>8, <2>6 DEF Pump, ProxyTypeOK
  <2>8. got' \in [Tasks -> Seq(Tasks \X (0 .. MaxBody))] /\ unread' \in [Sockets -> Seq(Item)]
    BY <1>8, <2>2, <2>4 DEF Pump, ProxyTypeOK
  <2>. QED
    BY <1>8, <2>7, <2>8 DEF Pump, ProxyTypeOK
<1>9. ASSUME NEW t \in Tasks, Finish(t) PROVE ProxyTypeOK'
  <2>1. <<>> \in Seq(Item) /\ <<>> \in Seq(Tasks)
    OBVIOUS
  <2>2. unread' \in [Sockets -> Seq(Item)] /\ owed' \in [Sockets -> Seq(Tasks)]
    BY <1>9, <2>1 DEF Finish, ProxyTypeOK
  <2>. QED
    BY <1>9, <2>2, EndTypes DEF Finish, Phase, ProxyTypeOK
<1>10. ASSUME NEW t \in Tasks, ReadEof(t) \/ BadHead(t) \/ IoFails(t) \/ BidiEnds(t)
       PROVE  ProxyTypeOK'
  <2>1. End(t, "ended") /\ DropSocket(t)
    BY <1>10 DEF ReadEof, BadHead, IoFails, BidiEnds
  <2>. QED
    BY <2>1, EndTypes, DropTypes DEF Phase, ProxyTypeOK
<1>11. ASSUME NEW s \in Sockets, OriginAnswers(s) PROVE ProxyTypeOK'
  <2> DEFINE t == Head(owed[s])
  <2>1. t \in Tasks /\ Tail(owed[s]) \in Seq(Tasks)
    BY <1>11, TailFacts DEF ProxyTypeOK, OriginAnswers
  <2>2. PICK r \in Replies : \E n \in 0 .. r.body + 1 : Answer(t, s, r, n)
    BY <1>11 DEF OriginAnswers
  <2>3. PICK n \in 0 .. r.body + 1 : Answer(t, s, r, n)
    BY <2>2
  <2>4. Written(t, r, n) \in Seq(Item) /\ n \in 0 .. MaxBody + 1 /\ unread[s] \in Seq(Item)
    BY <2>1, WrittenFacts DEF ProxyTypeOK
  <2>5. unread[s] \o Written(t, r, n) \in Seq(Item)
    BY <2>4, ConcatFacts
  <2>6. unread' = [unread EXCEPT ![s] = unread[s] \o Written(t, r, n)]
    BY <2>3 DEF Answer, Written
  <2>7. unread' \in [Sockets -> Seq(Item)]
    BY <2>5, <2>6 DEF ProxyTypeOK
  <2> HIDE DEF t
  <2>. QED
    BY <2>1, <2>3, <2>4, <2>7 DEF Answer, ProxyTypeOK
<1>. QED
  BY <1>1, <1>2, <1>3, <1>4, <1>5, <1>6, <1>7, <1>8, <1>9, <1>10, <1>11
     DEF Next, StreamStep, Passing, vars

-----------------------------------------------------------------------------
(* Stages.                                                                 *)

\* A step of one task does not reach into another one or its socket.
Untouched(t) ==
    /\ \A u \in Tasks \ {t} :
          /\ state'[u] = state[u] /\ sock'[u] = sock[u] /\ phase'[u] = phase[u]
          /\ request'[u] = request[u] /\ want'[u] = want[u]
          /\ sent'[u] = sent[u] /\ got'[u] = got[u]
    /\ \A s \in Sockets :
          \/ Holds(t) /\ sock[t] = s
          \/ unread'[s] = unread[s] /\ owed'[s] = owed[s]

\* It keeps its socket or leaves it quiet.
LeavesQuiet(t) ==
    Holds(t) =>
        \/ Holds(t)' /\ sock'[t] = sock[t]
        \/ unread'[sock[t]] = <<>> /\ owed'[sock[t]] = <<>>

Moves(t) == Untouched(t) /\ LeavesQuiet(t) /\ Stage(t)'

\* A task that is not concerned keeps its stage.
LEMMA OthersStay ==
    ASSUME ProxyInv, NEW t \in Tasks, Untouched(t), NEW u \in Tasks \ {t}
    PROVE  Stage(u)'
<1>1. Stage(u) /\ u # t
  BY DEF ProxyInv
<1>2. /\ state'[u] = state[u] /\ sock'[u] = sock[u] /\ phase'[u] = phase[u]
      /\ request'[u] = request[u] /\ want'[u] = want[u]
      /\ sent'[u] = sent[u] /\ got'[u] = got[u]
  BY DEF Untouched
<1>3. Holds(u)' <=> Holds(u)
  BY <1>2 DEF Holds
<1>4. CASE Holds(u)
  <2>1. sock[u] \in Sockets /\ ~(Holds(t) /\ sock[t] = sock[u])
    BY <1>1, <1>4 DEF ProxyInv, PoolInv, HoldersHold, NoSocketShared
  <2>2. unread'[sock[u]] = unread[sock[u]] /\ owed'[sock[u]] = owed[sock[u]]
    BY <2>1 DEF Untouched
  <2>3. (Quiet(sock[u])' <=> Quiet(sock[u])) /\ (Announced(sock[u])' <=> Announced(sock[u]))
    BY <1>2, <2>2 DEF Quiet, Announced
  <2>4. Follows(u)' <=> Follows(u)
    BY <1>2, <2>2 DEF Follows
  <2>. QED
    BY <1>1, <1>2, <1>3, <2>2, <2>3, <2>4 DEF Stage
<1>5. CASE ~Holds(u)
  <2>1. phase[u] \notin Holding
    BY <1>1, <1>5 DEF Stage
  <2>. QED
    BY <1>1, <1>2, <1>3, <2>1 DEF Stage, Holding
<1>. QED
  BY <1>4, <1>5

\* A step of one task keeps all the sockets that nobody holds quiet.
LEMMA UnheldStayQuiet ==
    ASSUME ProxyInv, NEW t \in Tasks, Untouched(t), LeavesQuiet(t)
    PROVE  UnheldQuiet'
<1> SUFFICES ASSUME NEW s \in Sockets, \A u \in Tasks : Holds(u)' => sock'[u] # s
             PROVE  Quiet(s)'
  BY DEF UnheldQuiet, Quiet
<1>1. CASE Holds(t) /\ sock[t] = s
  BY <1>1 DEF LeavesQuiet, Quiet
<1>2. CASE ~(Holds(t) /\ sock[t] = s)
  <2>1. unread'[s] = unread[s] /\ owed'[s] = owed[s]
    BY <1>2 DEF Untouched
  <2>2. \A u \in Tasks \ {t} : (Holds(u)' <=> Holds(u)) /\ sock'[u] = sock[u]
    BY DEF Untouched, Holds
  <2>3. \A u \in Tasks : Holds(u) => sock[u] # s
    BY <1>2, <2>2
  <2>. QED
    BY <2>1, <2>3 DEF ProxyInv, UnheldQuiet, Quiet
<1>. QED
  BY <1>1, <1>2

\* What the types say of the functions, once for all steps.
LEMMA Domains ==
    ASSUME ProxyInv
    PROVE  /\ state = [t \in Tasks |-> state[t]] /\ sock = [t \in Tasks |-> sock[t]]
           /\ phase = [t \in Tasks |-> phase[t]] /\ request = [t \in Tasks |-> request[t]]
           /\ want = [t \in Tasks |-> want[t]] /\ sent = [t \in Tasks |-> sent[t]]
           /\ got = [t \in Tasks |-> got[t]]
           /\ unread = [s \in Sockets |-> unread[s]] /\ owed = [s \in Sockets |-> owed[s]]
           /\ \A t \in Tasks : Stage(t)
           /\ \A t \in Tasks : Holds(t) => sock[t] \in Sockets
BY DEF ProxyInv, PoolInv, PoolTypeOK, ProxyTypeOK, HoldersHold

\* A stream that is over keeps nothing, and neither does its socket.
LEMMA EndMoves ==
    ASSUME ProxyInv, NEW t \in Tasks, NEW p \in {"complete", "ended"}, End(t, p), LetGo(t),
           \A s \in Sockets : \/ Holds(t) /\ sock[t] = s
                              \/ unread'[s] = unread[s] /\ owed'[s] = owed[s],
           Holds(t) => unread'[sock[t]] = <<>> /\ owed'[sock[t]] = <<>>
    PROVE  Moves(t)
<1>1. Untouched(t)
  BY Domains DEF End, LetGo, Untouched
<1>2. LeavesQuiet(t)
  BY DEF LeavesQuiet
<1>3. /\ state'[t] = "new" /\ phase'[t] = p /\ sent'[t] = 0 /\ got'[t] = <<>>
  BY Domains DEF End, LetGo
<1>4. Stage(t)'
  BY <1>3 DEF Stage, Holding, Holds
<1>. QED
  BY <1>1, <1>2, <1>4 DEF Moves

\* A task that ends and drops its socket concerns nobody else.
LEMMA DropMoves ==
    ASSUME ProxyInv, NEW t \in Tasks, End(t, "ended"), DropSocket(t)
    PROVE  Moves(t)
<1>1. Holds(t) /\ sock[t] \in Sockets /\ LetGo(t)
  BY Domains DEF DropSocket, Discard
<1>2. /\ unread' = [unread EXCEPT ![sock[t]] = <<>>] /\ owed' = [owed EXCEPT ![sock[t]] = <<>>]
  BY DEF DropSocket
<1>3. unread'[sock[t]] = <<>> /\ owed'[sock[t]] = <<>>
  BY <1>1, <1>2, Domains
<1>4. \A s \in Sockets : s = sock[t] \/ (unread'[s] = unread[s] /\ owed'[s] = owed[s])
  BY <1>1, <1>2, Domains
<1>. QED
  BY <1>1, <1>3, <1>4, EndMoves

\* Up to the response head: the stream's request, its socket, and what is
\* written to it.
LEMMA OpeningMoves ==
    ASSUME ProxyInv, NEW t \in Tasks,
           \/ ReadRequest(t) \/ ReadRequestFails(t) \/ GetSocket(t) \/ NoUpstream(t)
           \/ WriteHead(t) \/ Upload(t)
    PROVE  Moves(t)
<1>. Stage(t)
  BY Domains
<1>1. CASE ReadRequest(t)
  <2>1. /\ Untouched(t) /\ LeavesQuiet(t)
        /\ state'[t] = state[t] /\ sock'[t] = sock[t] /\ phase'[t] = "acquiring"
        /\ sent'[t] = sent[t] /\ got'[t] = got[t] /\ request'[t] \in Requests
    BY <1>1, Domains DEF ReadRequest, Goto, poolVars, Untouched, LeavesQuiet, Holds
  <2>2. Stage(t)'
    BY <1>1, <2>1 DEF ReadRequest, Stage, Holding, Holds
  <2>. QED
    BY <2>1, <2>2 DEF Moves
<1>2. CASE ReadRequestFails(t)
  <2>1. /\ Untouched(t) /\ LeavesQuiet(t)
        /\ state'[t] = state[t] /\ phase'[t] = "ended" /\ sent'[t] = 0 /\ got'[t] = <<>>
    BY <1>2, Domains DEF ReadRequestFails, End, poolVars, Untouched, LeavesQuiet, Holds
  <2>2. Stage(t)'
    BY <1>2, <2>1 DEF ReadRequestFails, Stage, Holding, Holds
  <2>. QED
    BY <2>1, <2>2 DEF Moves
<1>3. CASE GetSocket(t)
  <2>1. phase[t] = "acquiring" /\ ~Holds(t) /\ got[t] = <<>> /\ sent[t] = 0
        /\ request[t] \in Requests
    BY <1>3 DEF GetSocket, Stage, Holding
  <2>2. CASE AcquireMiss(t) /\ UNCHANGED phase
    <3>1. Untouched(t) /\ LeavesQuiet(t) /\ state'[t] = "connecting"
      BY <1>3, <2>1, <2>2, Domains DEF GetSocket, AcquireMiss, Untouched, LeavesQuiet
    <3>2. Stage(t)'
      BY <1>3, <2>1, <2>2, <3>1 DEF GetSocket, Stage, Holding, Holds
    <3>. QED
      BY <3>1, <3>2 DEF Moves
  <2>3. ASSUME Goto(t, "connected"), NEW s \in Sockets \ Held,
               sock' = [sock EXCEPT ![t] = s], state' = [state EXCEPT ![t] = "using"]
        PROVE  Moves(t)
    <3>1. \A u \in Tasks : Holds(u) => sock[u] # s
      BY <2>3 DEF Held
    <3>2. Quiet(s)
      BY <3>1 DEF ProxyInv, UnheldQuiet
    <3>3. UNCHANGED <<request, want, unread, owed, sent, got>>
      BY <1>3 DEF GetSocket
    <3>4. /\ Untouched(t) /\ LeavesQuiet(t)
          /\ state'[t] = "using" /\ sock'[t] = s /\ phase'[t] = "connected"
      BY <2>1, <2>3, <3>3, Domains DEF Goto, Untouched, LeavesQuiet
    <3>5. Stage(t)'
      BY <2>1, <3>2, <3>3, <3>4 DEF Stage, Holding, Holds, Quiet
    <3>. QED
      BY <3>4, <3>5 DEF Moves
  <2>4. CASE AcquireHit(t) /\ Goto(t, "connected")
    <3>1. PICK k \in 1 .. Len(idle) : sock' = [sock EXCEPT ![t] = idle[k].stream]
      BY <2>4 DEF AcquireHit
    <3>2. idle[k].stream \in Sockets
      BY EntryFacts DEF ProxyInv, PoolInv
    <3>3. idle[k].stream \notin Held
      BY DEF ProxyInv, PoolInv, NoSocketShared, Pooled
    <3>4. state' = [state EXCEPT ![t] = "using"]
      BY <2>4 DEF AcquireHit
    <3>. QED
      BY <2>3, <2>4, <3>1, <3>2, <3>3, <3>4
  <2>5. CASE ConnectOk(t) /\ Goto(t, "connected")
    BY <2>3, <2>5 DEF ConnectOk
  <2>. QED
    BY <1>3, <2>2, <2>4, <2>5 DEF GetSocket
<1>4. CASE NoUpstream(t)
  <2>1. ~Holds(t)
    BY <1>4 DEF NoUpstream, Stage, Holding
  <2>2. /\ Untouched(t) /\ LeavesQuiet(t)
        /\ state'[t] = "new" /\ phase'[t] = "ended" /\ sent'[t] = 0 /\ got'[t] = <<>>
    BY <1>4, <2>1, Domains DEF NoUpstream, ConnectErr, End, Untouched, LeavesQuiet
  <2>3. Stage(t)'
    BY <2>2 DEF Stage, Holding, Holds
  <2>. QED
    BY <2>2, <2>3 DEF Moves
<1>5. CASE WriteHead(t)
  <2>1. /\ Holds(t) /\ sock[t] \in Sockets /\ Quiet(sock[t]) /\ sent[t] = 0 /\ got[t] = <<>>
    BY <1>5, Domains DEF WriteHead, Stage, Holding
  <2>2. /\ state'[t] = state[t] /\ sock'[t] = sock[t] /\ sent'[t] = sent[t] /\ got'[t] = got[t]
        /\ unread' = unread /\ Holds(t)'
    BY <1>5, <2>1 DEF WriteHead, poolVars, Holds
  <2>3. owed' = owed \/ owed' = [owed EXCEPT ![sock[t]] = Append(owed[sock[t]], t)]
    BY <1>5 DEF WriteHead
  <2>4. Untouched(t) /\ LeavesQuiet(t)
    <3>1. \A s \in Sockets : s = sock[t] \/ owed'[s] = owed[s]
      BY <2>3, Domains
    <3>. QED
      BY <1>5, <2>1, <2>2, <3>1, Domains
         DEF WriteHead, Goto, poolVars, Untouched, LeavesQuiet
  <2>5. owed'[sock[t]] = <<>> \/ owed'[sock[t]] = <<t>>
    <3>1. owed[sock[t]] = <<>> /\ Append(<<>>, t) = <<t>>
      BY <2>1 DEF Quiet
    <3>. QED
      BY <2>1, <2>3, <3>1, Domains
  <2>6. phase'[t] = "uploading" \/ (phase'[t] = "bidi" /\ owed' = owed)
    BY <1>5, Domains DEF WriteHead, Goto
  <2>7. Follows(t)' /\ Announced(sock[t])'
    BY <2>1, <2>2 DEF Follows, Announced, Quiet
  <2>8. Stage(t)'
    BY <2>1, <2>2, <2>5, <2>6, <2>7 DEF Stage, Holding, Quiet
  <2>. QED
    BY <2>4, <2>8 DEF Moves
<1>6. CASE Upload(t)
  <2>1. /\ Untouched(t) /\ LeavesQuiet(t)
        /\ phase'[t] \in {"uploading", "head"} /\ state'[t] = state[t] /\ sock'[t] = sock[t]
        /\ unread' = unread /\ owed' = owed /\ sent'[t] = sent[t] /\ got'[t] = got[t]
    BY <1>6, Domains DEF Upload, Goto, poolVars, Untouched, LeavesQuiet, Holds
  <2>2. (Follows(t)' <=> Follows(t)) /\ (Announced(sock[t])' <=> Announced(sock[t]))
    BY <2>1 DEF Follows, Announced
  <2>3. Stage(t)'
    BY <1>6, <2>1, <2>2 DEF Upload, Stage, Holding, Holds
  <2>. QED
    BY <2>1, <2>3 DEF Moves
<1>. QED
  BY <1>1, <1>2, <1>3, <1>4, <1>5, <1>6

\* The response head and the pieces read with it.
LEMMA ReadHeadMoves ==
    ASSUME ProxyInv, NEW t \in Tasks, ReadHead(t)
    PROVE  Moves(t)
<1> DEFINE in == unread[sock[t]]
<1>1. Stage(t) /\ Holds(t) /\ sock[t] \in Sockets
  BY Domains DEF ReadHead, Stage, Holding
<1>2. /\ in \in Seq(Item) /\ in # <<>> /\ Len(in) \in Nat \ {0} /\ Head(in) = in[1]
      /\ in[1] \in Item
  BY <1>1, TailFacts DEF ReadHead, ProxyInv, ProxyTypeOK
<1>3. owed[sock[t]] = <<>> /\ Follows(t) /\ Announced(sock[t]) /\ got[t] = <<>>
  BY <1>1, <1>2 DEF ReadHead, Stage
<1>4. PICK k \in 0 .. Len(in) - 1 :
        /\ got' = [got EXCEPT ![t] = Pieces(SubSeq(in, 1, k + 1))]
        /\ unread' = [unread EXCEPT ![sock[t]] = SubSeq(in, k + 2, Len(in))]
        /\ IF Head(in).promise # None
             THEN /\ Goto(t, "body")
                  /\ want' = [want EXCEPT ![t] = Remaining(Head(in).promise, k)]
             ELSE Goto(t, "drain") /\ UNCHANGED want
  BY DEF ReadHead
<1> DEFINE shown == SubSeq(in, 1, k + 1)
           rest == SubSeq(in, k + 2, Len(in))
<1>5. k + 1 \in 0 .. Len(in) /\ k + 2 = (k + 1) + 1 /\ k \in Nat
  BY <1>2
<1>6. /\ shown \in Seq(Item) /\ Len(shown) = k + 1
      /\ \A m \in 1 .. k + 1 : shown[m] = in[m]
      /\ Len(rest) = Len(in) - (k + 1)
      /\ \A m \in 1 .. Len(in) - (k + 1) : rest[m] = in[(k + 1) + m]
  <2> DEFINE n == k + 1
  <2>1. in \in Seq(Item) /\ n \in 0 .. Len(in)
    BY <1>2, <1>5
  <2>2. shown = SubSeq(in, 1, n) /\ rest = SubSeq(in, n + 1, Len(in))
    BY <1>5
  <2> HIDE DEF n, in, shown, rest
  <2>3. /\ shown \in Seq(Item) /\ Len(shown) = n
        /\ \A m \in 1 .. n : shown[m] = in[m]
        /\ Len(rest) = Len(in) - n
        /\ \A m \in 1 .. Len(in) - n : rest[m] = in[n + m]
    BY <2>1, <2>2, SplitFacts
  <2>. QED
    BY <2>3 DEF n
<1> HIDE DEF shown, rest
<1>7. /\ Len(Pieces(shown)) = k + 1
      /\ \A m \in 1 .. k + 1 : Pieces(shown)[m] = <<in[m].of, in[m].pos>>
  <2>1. /\ Len(Pieces(shown)) = Len(shown)
        /\ \A m \in 1 .. Len(shown) : Pieces(shown)[m] = <<shown[m].of, shown[m].pos>>
    BY <1>6, PiecesFacts
  <2>. QED
    BY <1>6, <2>1
<1>8. /\ got'[t] = Pieces(shown) /\ unread'[sock[t]] = rest
      /\ UNCHANGED <<poolVars, request, owed, sent>>
      /\ phase' = [phase EXCEPT ![t] = "body"] \/ phase' = [phase EXCEPT ![t] = "drain"]
      /\ \A u \in Tasks \ {t} : want'[u] = want[u] /\ got'[u] = got[u]
      /\ \A s \in Sockets \ {sock[t]} : unread'[s] = unread[s]
  BY <1>1, <1>4, Domains DEF ReadHead, Goto, shown, rest
<1>9. sock' = sock /\ (Holds(t)' <=> Holds(t))
  BY <1>8 DEF poolVars, Holds
<1>10. Untouched(t) /\ LeavesQuiet(t)
  BY <1>1, <1>8, <1>9, Domains DEF Untouched, LeavesQuiet, poolVars
<1>11. /\ Len(in) = sent[t]
       /\ \A m \in 1 .. Len(in) : in[m].of = t /\ in[m].pos = m - 1
  BY <1>2, <1>3 DEF Follows
<1> HIDE DEF in
<1>12. Follows(t)' /\ got'[t] # <<>>
  <2>1. Len(got'[t]) = k + 1 /\ Len(got'[t]) + Len(unread'[sock[t]]) = sent[t]
    <3>1. Len(got'[t]) = k + 1 /\ Len(unread'[sock[t]]) = Len(in) - (k + 1)
      BY <1>6, <1>7, <1>8
    <3>2. Len(in) = sent[t] /\ Len(in) \in Nat /\ k \in Nat
      BY <1>2, <1>5, <1>11
    <3>3. \A a, l \in Nat : (a + 1) + (l - (a + 1)) = l
      OBVIOUS
    <3>. QED
      BY <3>1, <3>2, <3>3
  <2>2. ASSUME NEW m \in 1 .. k + 1 PROVE got'[t][m] = <<t, m - 1>>
    <3>1. m \in 1 .. Len(in)
      BY <1>2, <1>5
    <3>2. in[m].of = t /\ in[m].pos = m - 1
      BY <1>11, <3>1
    <3>. QED
      BY <1>7, <1>8, <3>2
  <2>3. ASSUME NEW m \in 1 .. Len(in) - (k + 1)
        PROVE  /\ unread'[sock[t]][m].of = t
               /\ unread'[sock[t]][m].pos = (k + 1) + m - 1
    <3>1. (k + 1) + m \in 1 .. Len(in)
      BY <1>2, <1>5
    <3>2. in[(k + 1) + m].of = t /\ in[(k + 1) + m].pos = (k + 1) + m - 1
      BY <1>11, <3>1
    <3>. QED
      BY <1>6, <1>8, <3>2
  <2>4. sock'[t] = sock[t] /\ sent'[t] = sent[t] /\ got'[t] # <<>>
    BY <1>5, <1>8, <1>9, <2>1
  <2>5. Len(unread'[sock[t]]) = Len(in) - (k + 1)
    BY <1>6, <1>8
  <2>. QED
    BY <2>1, <2>2, <2>3, <2>4, <2>5 DEF Follows
<1>13. phase'[t] = "body" => Len(unread'[sock[t]]) <= want'[t]
  <2> SUFFICES ASSUME phase'[t] = "body" PROVE Len(unread'[sock[t]]) <= want'[t]
    OBVIOUS
  <2>1. in[1].promise # None /\ in[1].promise # Bad
    BY <1>2, <1>4, Domains DEF Goto, ReadHead, in
  <2>2. in[1].promise \in 0 .. MaxBody
    BY <1>2, <2>1 DEF Item, Promise
  <2>3. Len(in) <= in[1].promise + 1
    BY <1>2, <1>3, <2>1 DEF Announced, in
  <2>4. want'[t] = Remaining(in[1].promise, k)
    BY <1>2, <1>4, <2>1, Domains
  <2>. QED
    BY <1>2, <1>5, <1>6, <1>8, <2>2, <2>3, <2>4, BodyAssumption DEF Remaining
<1>14. phase'[t] \in {"body", "drain"}
  BY <1>8, Domains
<1>15. Stage(t)'
  <2>1. state' = state /\ owed'[sock'[t]] = <<>> /\ Holds(t)'
    BY <1>1, <1>3, <1>8, <1>9 DEF poolVars
  <2>2. state'[t] # "connecting"
    BY <1>1, <2>1 DEF Holds
  <2>. QED
    BY <1>9, <1>12, <1>13, <1>14, <2>1, <2>2 DEF Stage, Holding
<1>. QED
  BY <1>10, <1>15 DEF Moves

\* One more piece of the body, or of the drain.
LEMMA PumpMoves ==
    ASSUME ProxyInv, NEW t \in Tasks, Pump(t)
    PROVE  Moves(t)
<1> DEFINE in == unread[sock[t]]
<1>1. /\ Stage(t) /\ Holds(t) /\ sock[t] \in Sockets /\ state[t] # "connecting"
      /\ phase[t] \in {"body", "drain"}
  BY Domains DEF Pump, Stage, Holding, Holds
<1>2. /\ in \in Seq(Item) /\ in # <<>> /\ Len(in) \in Nat \ {0} /\ Head(in) = in[1]
      /\ in[1] \in Item /\ Len(Tail(in)) = Len(in) - 1
      /\ \A k \in 1 .. Len(in) - 1 : Tail(in)[k] = in[k + 1]
  BY <1>1, TailFacts DEF Pump, ProxyInv, ProxyTypeOK
<1>3. /\ Follows(t) /\ owed[sock[t]] = <<>> /\ got[t] # <<>>
      /\ phase[t] = "body" => Len(in) <= want[t]
  BY <1>1 DEF Stage
<1>4. got[t] \in Seq(Tasks \X (0 .. MaxBody)) /\ Len(got[t]) \in Nat
  BY DEF ProxyInv, ProxyTypeOK
<1>5. /\ <<Head(in)>> \in Seq(Item) /\ Len(<<Head(in)>>) = 1
      /\ <<Head(in)>>[1] = in[1]
  BY <1>2
<1>6. /\ Pieces(<<Head(in)>>) \in Seq(Tasks \X (0 .. MaxBody))
      /\ Len(Pieces(<<Head(in)>>)) = 1
      /\ Pieces(<<Head(in)>>)[1] = <<in[1].of, in[1].pos>>
  BY <1>5, PiecesFacts
<1>7. /\ Len(got[t] \o Pieces(<<Head(in)>>)) = Len(got[t]) + 1
      /\ \A k \in 1 .. Len(got[t]) : (got[t] \o Pieces(<<Head(in)>>))[k] = got[t][k]
      /\ (got[t] \o Pieces(<<Head(in)>>))[Len(got[t]) + 1] = <<in[1].of, in[1].pos>>
  <2> DEFINE p == Pieces(<<Head(in)>>)
  <2>1. p \in Seq(Tasks \X (0 .. MaxBody)) /\ Len(p) = 1 /\ p[1] = <<in[1].of, in[1].pos>>
    BY <1>6
  <2> HIDE DEF p
  <2>2. /\ Len(got[t] \o p) = Len(got[t]) + Len(p)
        /\ \A k \in 1 .. Len(got[t]) : (got[t] \o p)[k] = got[t][k]
        /\ \A k \in 1 .. Len(p) : (got[t] \o p)[Len(got[t]) + k] = p[k]
    BY <1>4, <2>1, ConcatFacts
  <2>3. (got[t] \o p)[Len(got[t]) + 1] = p[1]
    BY <2>1, <2>2
  <2>. QED
    BY <2>1, <2>2, <2>3 DEF p
<1>8. /\ got' = [got EXCEPT ![t] = got[t] \o Pieces(<<Head(in)>>)]
      /\ unread' = [unread EXCEPT ![sock[t]] = Tail(in)]
      /\ UNCHANGED <<poolVars, phase, request, owed, sent>>
      /\ \/ phase[t] = "body" /\ want' = [want EXCEPT ![t] = want[t] - 1]
         \/ phase[t] = "drain" /\ UNCHANGED want
  BY DEF Pump
<1>9. sock' = sock /\ state' = state /\ Holds(t)'
  BY <1>1, <1>8 DEF poolVars, Holds
<1>10. Untouched(t) /\ LeavesQuiet(t)
  BY <1>1, <1>8, <1>9, Domains DEF Untouched, LeavesQuiet
<1>11. /\ got'[t] = got[t] \o Pieces(<<Head(in)>>) /\ unread'[sock[t]] = Tail(in)
       /\ phase[t] = "body" => want'[t] = want[t] - 1
  BY <1>1, <1>8, Domains
<1>12. /\ Len(got[t]) + Len(in) = sent[t]
       /\ \A k \in 1 .. Len(got[t]) : got[t][k] = <<t, k - 1>>
       /\ \A k \in 1 .. Len(in) : in[k].of = t /\ in[k].pos = Len(got[t]) + k - 1
  BY <1>3 DEF Follows
<1> HIDE DEF in
<1>13. Follows(t)' /\ got'[t] # <<>>
  <2>1. Len(got'[t]) = Len(got[t]) + 1 /\ Len(got'[t]) + Len(unread'[sock[t]]) = sent[t]
    <3>1. Len(unread'[sock[t]]) = Len(in) - 1 /\ Len(got'[t]) = Len(got[t]) + 1
      BY <1>2, <1>7, <1>11
    <3>2. Len(in) \in Nat /\ Len(got[t]) \in Nat /\ Len(got[t]) + Len(in) = sent[t]
      BY <1>2, <1>4, <1>12
    <3>3. \A g, l \in Nat : (g + 1) + (l - 1) = g + l
      OBVIOUS
    <3>. QED
      BY <3>1, <3>2, <3>3
  <2>2. \A k \in 1 .. Len(got[t]) + 1 : got'[t][k] = <<t, k - 1>>
    <3>1. in[1].of = t /\ in[1].pos = Len(got[t])
      BY <1>2, <1>4, <1>12
    <3>2. \A k \in 1 .. Len(got[t]) + 1 : k \in 1 .. Len(got[t]) \/ k = Len(got[t]) + 1
      BY <1>4
    <3>3. (Len(got[t]) + 1) - 1 = Len(got[t])
      BY <1>4
    <3>. QED
      BY <1>7, <1>11, <1>12, <3>1, <3>2, <3>3
  <2>3. \A k \in 1 .. Len(in) - 1 :
            /\ unread'[sock[t]][k].of = t
            /\ unread'[sock[t]][k].pos = (Len(got[t]) + 1) + k - 1
    BY <1>2, <1>4, <1>11, <1>12
  <2>4. sock'[t] = sock[t] /\ sent'[t] = sent[t] /\ got'[t] # <<>>
    BY <1>4, <1>8, <1>9, <2>1
  <2>5. Len(unread'[sock[t]]) = Len(in) - 1
    BY <1>2, <1>11
  <2>. QED
    BY <2>1, <2>2, <2>3, <2>4, <2>5 DEF Follows
<1>14. phase[t] = "body" => Len(unread'[sock[t]]) <= want'[t]
  <2>1. want[t] \in Int
    BY BodyAssumption DEF ProxyInv, ProxyTypeOK
  <2>. QED
    BY <1>2, <1>3, <1>11, <2>1 DEF in
<1>15. Stage(t)'
  BY <1>1, <1>3, <1>8, <1>9, <1>13, <1>14 DEF Stage, Holding
<1>. QED
  BY <1>10, <1>15 DEF Moves

\* Every way a stream comes to its end.
LEMMA EndingMoves ==
    ASSUME ProxyInv, NEW t \in Tasks,
           Finish(t) \/ ReadEof(t) \/ BadHead(t) \/ IoFails(t) \/ BidiEnds(t)
    PROVE  Moves(t)
<1>1. CASE Finish(t)
  <2>1. /\ Stage(t) /\ Holds(t) /\ sock[t] \in Sockets
        /\ phase[t] = "body" /\ want[t] = 0 /\ End(t, "complete") /\ LetGo(t)
    BY <1>1, Domains DEF Finish, Stage, Holding, Release
  <2>2. unread[sock[t]] \in Seq(Item) /\ Len(unread[sock[t]]) <= 0 /\ owed[sock[t]] = <<>>
    BY <2>1 DEF Stage, ProxyInv, ProxyTypeOK
  <2>3. unread[sock[t]] = <<>>
    BY <2>2
  <2>4. \/ UNCHANGED <<unread, owed>>
        \/ /\ unread' = [unread EXCEPT ![sock[t]] = <<>>]
           /\ owed' = [owed EXCEPT ![sock[t]] = <<>>]
    BY <1>1 DEF Finish
  <2>5. \A s \in Sockets : \/ Holds(t) /\ sock[t] = s
                           \/ unread'[s] = unread[s] /\ owed'[s] = owed[s]
    BY <2>1, <2>4, Domains
  <2>6. unread'[sock[t]] = <<>> /\ owed'[sock[t]] = <<>>
    BY <2>1, <2>2, <2>3, <2>4, Domains
  <2>. QED
    BY <2>1, <2>5, <2>6, EndMoves
<1>2. CASE ReadEof(t) \/ BadHead(t) \/ IoFails(t) \/ BidiEnds(t)
  BY <1>2, DropMoves DEF ReadEof, BadHead, IoFails, BidiEnds
<1>. QED
  BY <1>1, <1>2

\* The origin answers the one request that is open on a socket.
LEMMA AnswerMoves ==
    ASSUME ProxyInv, NEW s \in Sockets, OriginAnswers(s)
    PROVE  \E t \in Tasks : Moves(t)
<1>16. PICK t \in Tasks : t = Head(owed[s])
  BY TailFacts DEF OriginAnswers, ProxyInv, ProxyTypeOK
<1>1. owed[s] # <<>> /\ owed[s] \in Seq(Tasks) /\ sock[t] = s
  BY <1>16 DEF OriginAnswers, ProxyInv, ProxyTypeOK
<1>2. PICK r \in Replies : \E n \in 0 .. r.body + 1 : Answer(t, s, r, n)
  BY <1>16 DEF OriginAnswers
<1>3. PICK n \in 0 .. r.body + 1 : Answer(t, s, r, n)
  BY <1>2
<1>4. Stage(t) /\ state[t] = "using" /\ Holds(t)
  BY <1>1, <1>3, Domains DEF Answer, OriginResponds, Holds
<1>5. phase[t] \in {"uploading", "head"}
  BY <1>1, <1>4 DEF Stage, Holding, Quiet
<1>6. owed[s] = <<t>> /\ unread[s] = <<>> /\ sent[t] = 0 /\ got[t] = <<>>
  BY <1>1, <1>4, <1>5 DEF Stage
<1>7. /\ Written(t, r, n) \in Seq(Item) /\ Len(Written(t, r, n)) = n /\ n \in 0 .. MaxBody + 1
      /\ \A k \in 1 .. n : Written(t, r, n)[k].of = t /\ Written(t, r, n)[k].pos = k - 1
      /\ n # 0 => Written(t, r, n)[1].promise = r.promise
  BY <1>1, WrittenFacts
<1>8. /\ unread' = [unread EXCEPT ![s] = unread[s] \o Written(t, r, n)]
      /\ owed' = [owed EXCEPT ![s] = Tail(owed[s])]
      /\ sent' = [sent EXCEPT ![t] = n]
      /\ state' = [state EXCEPT ![t] = "relaying"]
      /\ UNCHANGED <<sock, phase, request, want, got>>
  BY <1>3 DEF Answer, Written, OriginResponds
<1>9. <<>> \o Written(t, r, n) = Written(t, r, n) /\ Tail(<<t>>) = <<>>
  BY <1>7
<1>10. unread'[s] = Written(t, r, n) /\ owed'[s] = <<>>
  BY <1>6, <1>8, <1>9, Domains
<1>11. Untouched(t) /\ LeavesQuiet(t)
  BY <1>1, <1>4, <1>8, Domains DEF Untouched, LeavesQuiet, Holds
<1>12. Follows(t)'
  <2>1. got'[t] = <<>> /\ Len(<<>>) = 0 /\ sent'[t] = n /\ sock'[t] = s
    BY <1>1, <1>6, <1>8, Domains
  <2>. QED
    BY <1>7, <1>10, <2>1 DEF Follows
<1>13. Announced(s)'
  <2> SUFFICES ASSUME unread'[s] # <<>>
               PROVE  \/ unread'[s][1].promise \in {None, Bad}
                      \/ Len(unread'[s]) <= unread'[s][1].promise + 1
    BY DEF Announced
  <2>1. n # 0
    BY <1>7, <1>10
  <2>2. r.promise \in {None, Bad} \/ (r.body <= r.promise /\ r.promise \in 0 .. MaxBody)
    BY ReplyFacts DEF Promise
  <2>3. r.body \in 0 .. MaxBody
    BY ReplyFacts
  <2>4. unread'[s][1].promise = r.promise /\ Len(unread'[s]) = n
    BY <1>7, <1>10, <2>1
  <2>. QED
    BY <2>2, <2>3, <2>4, BodyAssumption
<1>14. /\ sock'[t] = s /\ phase'[t] = phase[t] /\ got'[t] = <<>> /\ state'[t] = "relaying"
  BY <1>1, <1>6, <1>8, Domains
<1>15. Stage(t)'
  BY <1>5, <1>10, <1>12, <1>13, <1>14 DEF Stage, Holding, Holds
<1>. QED
  BY <1>1, <1>11, <1>15 DEF Moves

-----------------------------------------------------------------------------
(* The invariant.                                                          *)

\* No stream has been opened and no socket used.
LEMMA ProxyInitInv == Init => ProxyInv
<1> SUFFICES ASSUME Init PROVE ProxyInv
  OBVIOUS
<1>1. PoolInv
  BY PoolInitInv DEF Init
<1>2. ProxyTypeOK
  <2>1. /\ 0 \in 0 .. MaxBody /\ 0 \in 0 .. MaxBody + 1
        /\ <<>> \in Seq(Item) /\ <<>> \in Seq(Tasks) /\ <<>> \in Seq(Tasks \X (0 .. MaxBody))
    BY BodyAssumption
  <2>. QED
    BY <2>1 DEF Init, ProxyTypeOK, Phase
<1>3. UnheldQuiet
  BY DEF Init, UnheldQuiet, Quiet
<1>4. ASSUME NEW t \in Tasks PROVE Stage(t)
  BY DEF Init, PoolInit, Stage, Holds, Holding
<1>. QED
  BY <1>1, <1>2, <1>3, <1>4 DEF ProxyInv

\* Every step keeps the invariant: it moves one task, or none.
LEMMA ProxyInvStep == ProxyInv /\ [Next]_vars => ProxyInv'
<1> SUFFICES ASSUME ProxyInv, [Next]_vars PROVE ProxyInv'
  OBVIOUS
<1>1. PoolInv'
  BY PoolStep, PoolInvStep DEF ProxyInv
<1>2. ProxyTypeOK'
  BY ProxyTypeStep DEF ProxyInv, PoolInv
<1>3. ASSUME NEW t \in Tasks, Moves(t) PROVE ProxyInv'
  <2>1. UnheldQuiet'
    BY <1>3, UnheldStayQuiet DEF Moves
  <2>2. ASSUME NEW u \in Tasks PROVE Stage(u)'
    BY <1>3, OthersStay DEF Moves
  <2>. QED
    BY <1>1, <1>2, <2>1, <2>2 DEF ProxyInv
<1>4. CASE UNCHANGED <<state, sock, proxyVars>>
  <2>1. UnheldQuiet'
    BY <1>4 DEF ProxyInv, UnheldQuiet, Quiet, Holds, proxyVars
  <2>2. ASSUME NEW u \in Tasks PROVE Stage(u)'
    <3>1. Stage(u)
      BY DEF ProxyInv
    <3>2. (Follows(u)' <=> Follows(u)) /\ (Announced(sock[u])' <=> Announced(sock[u]))
      BY <1>4 DEF Follows, Announced, proxyVars
    <3>. QED
      BY <1>4, <3>1, <3>2 DEF Stage, Quiet, Holds, proxyVars
  <2>. QED
    BY <1>1, <1>2, <2>1, <2>2 DEF ProxyInv
<1>5. ASSUME NEW t \in Tasks, StreamStep(t) \/ IoFails(t) \/ BidiEnds(t)
      PROVE  Moves(t)
  BY <1>5, OpeningMoves, ReadHeadMoves, PumpMoves, EndingMoves DEF StreamStep
<1>6. ASSUME NEW s \in Sockets, Passing(OriginTimesOut(s))
      PROVE  UNCHANGED <<state, sock, proxyVars>>
  BY <1>6 DEF Passing, OriginTimesOut
<1>7. Passing(Tick) => UNCHANGED <<state, sock, proxyVars>>
  BY DEF Passing, Tick
<1>8. UNCHANGED vars => UNCHANGED <<state, sock, proxyVars>>
  BY DEF vars, poolVars
<1>. QED
  BY <1>3, <1>4, <1>5, <1>6, <1>7, <1>8, AnswerMoves DEF Next

\* The inductive invariant holds in every reachable state.
THEOREM ProxyInvariance == Spec => []ProxyInv
BY ProxyInitInv, ProxyInvStep, PTL DEF Spec

\* Type correctness of the proxy and its pool.
THEOREM ProxyTypeCorrect == Spec => []TypeOK
<1>1. ProxyInv => TypeOK
  BY DEF ProxyInv, PoolInv, ProxyTypeOK, TypeOK
<1>. QED
  BY <1>1, ProxyInvariance, PTL

\* The tasks use the pool through its operations only, so all that is proved
\* of the pool holds of it under the proxy.
LEMMA ProxyImplementsPool == Spec => PoolSpec
<1>1. Init => PoolInit
  BY DEF Init
<1>2. ProxyInv /\ [Next]_vars => [PoolNext]_poolVars
  BY PoolStep DEF ProxyInv
<1>. QED
  BY <1>1, <1>2, ProxyInvariance, PTL DEF Spec, PoolSpec

\* Nothing is left on a socket that is in the pool, nor is an answer to come
\* on it, whatever the responses and their heads were and wherever it failed.
THEOREM PooledAreQuiet == Spec => []PooledSocketsQuiet
<1>1. ProxyInv => PooledSocketsQuiet
  <2> SUFFICES ASSUME ProxyInv, NEW k \in 1 .. Len(idle)
               PROVE  Quiet(idle[k].stream)
    BY DEF PooledSocketsQuiet, Pooled, Quiet
  <2>1. idle[k].stream \in Sockets
    BY EntryFacts DEF ProxyInv, PoolInv
  <2>2. idle[k].stream \notin Held
    BY DEF ProxyInv, PoolInv, NoSocketShared, Pooled
  <2>. QED
    BY <2>1, <2>2 DEF Held, ProxyInv, UnheldQuiet
<1>. QED
  BY <1>1, ProxyInvariance, PTL

-----------------------------------------------------------------------------
(* The proxy implements Exchange.                                          *)

\* The refinement mapping.
Response == [t \in Tasks |-> [k \in 1 .. sent[t] |-> <<t, k - 1>>]]
Outcome == [t \in Tasks |-> IF Over(t) THEN phase[t] ELSE "open"]

\* A sequence of a stream's items from the first on is a beginning of its
\* response.
LEMMA OwnPrefix ==
    ASSUME NEW t \in Tasks, NEW g \in Seq(Tasks \X (0 .. MaxBody)),
           NEW m \in 0 .. MaxBody + 1, Len(g) <= m,
           \A k \in 1 .. Len(g) : g[k] = <<t, k - 1>>
    PROVE  g = SubSeq([k \in 1 .. m |-> <<t, k - 1>>], 1, Len(g))
<1> DEFINE own == [k \in 1 .. m |-> <<t, k - 1>>]
           Items == Tasks \X (0 .. MaxBody)
<1>1. m \in Nat /\ Len(g) \in 0 .. m /\ m <= MaxBody + 1
  BY BodyAssumption
<1>2. own \in [1 .. m -> Items]
  BY <1>1, BodyAssumption
<1>3. own \in Seq(Items) /\ Len(own) = m /\ \A k \in 1 .. m : own[k] = <<t, k - 1>>
  BY <1>1, <1>2, IsASeq, LenProperties
<1> HIDE DEF own, Items
<1>4. /\ SubSeq(own, 1, Len(g)) \in Seq(Items) /\ Len(SubSeq(own, 1, Len(g))) = Len(g)
      /\ \A k \in 1 .. Len(g) : SubSeq(own, 1, Len(g))[k] = own[k]
  BY <1>1, <1>3, SplitFacts
<1>5. ASSUME NEW k \in 1 .. Len(g) PROVE g[k] = SubSeq(own, 1, Len(g))[k]
  <2>1. k \in 1 .. m
    BY <1>1
  <2>2. own[k] = <<t, k - 1>>
    BY <1>3, <2>1
  <2>. QED
    BY <1>4, <2>2
<1>6. g \in Seq(Items)
  BY DEF Items
<1>7. g = SubSeq(own, 1, Len(g))
  BY <1>4, <1>5, <1>6, SeqEqual
<1>. QED
  BY <1>7 DEF own

\* A response is as long as the origin has made it.
LEMMA ResponseFacts ==
    ASSUME ProxyInv, NEW t \in Tasks
    PROVE  /\ Response[t] = [k \in 1 .. sent[t] |-> <<t, k - 1>>]
           /\ Len(Response[t]) = sent[t]
           /\ sent[t] \in 0 .. MaxBody + 1
<1>1. sent[t] \in 0 .. MaxBody + 1 /\ sent[t] \in Nat
  BY BodyAssumption DEF ProxyInv, ProxyTypeOK
<1>2. Response[t] = [k \in 1 .. sent[t] |-> <<t, k - 1>>]
  BY DEF Response
<1>3. Len([k \in 1 .. sent[t] |-> <<t, k - 1>>]) = sent[t]
  BY <1>1, LenProperties
<1>. QED
  BY <1>1, <1>2, <1>3

\* Before the origin answers there is no response.
LEMMA EmptyResponse ==
    ASSUME NEW t
    PROVE  [k \in 1 .. 0 |-> <<t, k - 1>>] = <<>>
<1> DEFINE own == [k \in 1 .. 0 |-> <<t, k - 1>>]
<1>1. own \in [1 .. 0 -> {t} \X Int]
  OBVIOUS
<1>2. own \in Seq({t} \X Int) /\ Len(own) = 0
  BY <1>1, IsASeq, LenProperties
<1>. QED
  BY <1>2, EmptySeq

\* Steps that show nothing are not seen.
LEMMA Hidden ==
    ASSUME UNCHANGED <<sent, got>>, \A u \in Tasks : Outcome'[u] = Outcome[u]
    PROVE  UNCHANGED X!exchangeVars
<1>1. Outcome' = Outcome
  BY DEF Outcome
<1>. QED
  BY <1>1 DEF X!exchangeVars, Outcome

\* A stream that goes from one of its stages to another stays open.
LEMMA StaysOpen ==
    ASSUME ProxyInv, NEW t \in Tasks, ~Over(t),
           NEW p \in Phase \ {"complete", "ended"}, Goto(t, p)
    PROVE  \A u \in Tasks : Outcome'[u] = Outcome[u]
<1>1. \A u \in Tasks : phase'[u] = IF u = t THEN p ELSE phase[u]
  BY Domains DEF Goto
<1>. QED
  BY <1>1 DEF Outcome, Over

\* The end of a stream as Exchange sees it.
LEMMA EndIsClose ==
    ASSUME ProxyInv, NEW t \in Tasks, ~Over(t), NEW p \in {"complete", "ended"}, End(t, p)
    PROVE  X!Close(t, p)
<1>1. \A u \in Tasks : /\ phase'[u] = IF u = t THEN p ELSE phase[u]
                       /\ sent'[u] = IF u = t THEN 0 ELSE sent[u]
                       /\ got'[u] = IF u = t THEN <<>> ELSE got[u]
  BY Domains DEF End
<1>2. Outcome[t] = "open" /\ Outcome' = [Outcome EXCEPT ![t] = p]
  BY <1>1 DEF Outcome, Over
<1>3. Response' = [Response EXCEPT ![t] = <<>>]
  <2>1. ASSUME NEW u \in Tasks PROVE Response'[u] = IF u = t THEN <<>> ELSE Response[u]
    <3>1. Response'[u] = [k \in 1 .. sent'[u] |-> <<u, k - 1>>]
      BY DEF Response
    <3>2. CASE u = t
      <4>1. [k \in 1 .. 0 |-> <<u, k - 1>>] = <<>>
        BY EmptyResponse
      <4>. QED
        BY <1>1, <3>1, <3>2, <4>1
    <3>3. CASE u # t
      BY <1>1, <3>1, <3>3 DEF Response
    <3>. QED
      BY <3>2, <3>3
  <2>. QED
    BY <2>1 DEF Response
<1>4. got' = [got EXCEPT ![t] = <<>>]
  BY DEF End
<1>. QED
  BY <1>2, <1>3, <1>4 DEF X!Close, Response, Outcome

\* What a stream has been shown after a step is a longer beginning of its
\* response.
LEMMA ReadIsShow ==
    ASSUME ProxyInv, ProxyInv', NEW t \in Tasks,
           phase[t] \notin {"complete", "ended"}, phase'[t] \in {"body", "drain"},
           \A u \in Tasks : Outcome'[u] = Outcome[u], UNCHANGED sent,
           NEW g, got' = [got EXCEPT ![t] = g], Len(got'[t]) > Len(got[t])
    PROVE  X!Show(t)
<1>1. got'[t] = g
  BY Domains
<1>2. g \in Seq(Tasks \X (0 .. MaxBody)) /\ Len(g) \in Nat
  BY <1>1 DEF ProxyInv, ProxyTypeOK
<1>3. Follows(t)' /\ Holds(t)' /\ sock'[t] \in Sockets
  BY DEF ProxyInv, Stage, Holding, PoolInv, HoldersHold
<1>4. unread'[sock'[t]] \in Seq(Item) /\ Len(unread'[sock'[t]]) \in Nat
  BY <1>3 DEF ProxyInv, ProxyTypeOK
<1>12. /\ Len(got'[t]) + Len(unread'[sock'[t]]) = sent'[t]
       /\ \A k \in 1 .. Len(got'[t]) : got'[t][k] = <<t, k - 1>>
  BY <1>3 DEF Follows
<1>13. Response[t] = [k \in 1 .. sent[t] |-> <<t, k - 1>>] /\ Len(Response[t]) = sent[t]
       /\ sent[t] \in 0 .. MaxBody + 1
  BY ResponseFacts
<1>5. Len(g) <= sent[t] /\ \A k \in 1 .. Len(g) : g[k] = <<t, k - 1>>
  <2>1. Len(g) + Len(unread'[sock'[t]]) = sent[t]
    BY <1>1, <1>12
  <2>2. \A a, b \in Nat : a <= a + b
    OBVIOUS
  <2>3. Len(g) <= sent[t]
    BY <1>2, <1>4, <2>1, <2>2
  <2>. QED
    BY <1>1, <1>12, <2>3
<1>6. g = SubSeq(Response[t], 1, Len(g))
  BY <1>2, <1>5, <1>13, OwnPrefix
<1>7. Len(g) \in Len(got[t]) + 1 .. Len(Response[t])
  <2>1. Len(got[t]) \in Nat
    BY DEF ProxyInv, ProxyTypeOK
  <2>. QED
    BY <1>1, <1>2, <1>5, <1>13, <2>1
<1>8. got' = [got EXCEPT ![t] = SubSeq(Response[t], 1, Len(g))]
  BY <1>6
<1>9. Outcome' = Outcome /\ Outcome[t] = "open"
  BY DEF Outcome, Over
<1>10. Response' = Response
  BY DEF Response
<1>11. \E n \in Len(got[t]) + 1 .. Len(Response[t]) :
          got' = [got EXCEPT ![t] = SubSeq(Response[t], 1, n)]
  BY <1>7, <1>8
<1>. QED
  BY <1>9, <1>10, <1>11 DEF X!Show, Response, Outcome

\* The head and what was read with it are shown.
LEMMA ReadHeadIsShow ==
    ASSUME ProxyInv, ProxyInv', NEW t \in Tasks, ReadHead(t)
    PROVE  X!Show(t)
<1>1. PICK k \in 0 .. Len(unread[sock[t]]) - 1 :
        got' = [got EXCEPT ![t] = Pieces(SubSeq(unread[sock[t]], 1, k + 1))]
  BY DEF ReadHead
<1>2. phase[t] = "head" /\ ~Over(t) /\ (Goto(t, "body") \/ Goto(t, "drain")) /\ UNCHANGED sent
  BY DEF ReadHead, Over
<1>3. phase'[t] \in {"body", "drain"} /\ \A u \in Tasks : Outcome'[u] = Outcome[u]
  <2>1. "body" \in Phase \ {"complete", "ended"} /\ "drain" \in Phase \ {"complete", "ended"}
    BY DEF Phase
  <2>. QED
    BY <1>2, <2>1, StaysOpen, Domains DEF Goto
<1>4. Len(got'[t]) > Len(got[t])
  <2>1. got[t] = <<>> /\ Stage(t)'
    BY <1>2 DEF ProxyInv, Stage
  <2>2. got'[t] # <<>> /\ got'[t] \in Seq(Tasks \X (0 .. MaxBody))
    BY <1>3, <2>1 DEF Stage, ProxyInv, ProxyTypeOK
  <2>. QED
    BY <2>1, <2>2, EmptySeq
<1>. QED
  BY <1>1, <1>2, <1>3, <1>4, ReadIsShow

\* So is every piece that is pumped.
LEMMA PumpIsShow ==
    ASSUME ProxyInv, ProxyInv', NEW t \in Tasks, Pump(t)
    PROVE  X!Show(t)
<1> DEFINE p == Pieces(<<Head(unread[sock[t]])>>)
<1>1. /\ phase[t] \in {"body", "drain"} /\ UNCHANGED <<sent, phase>>
      /\ got' = [got EXCEPT ![t] = got[t] \o p]
  BY DEF Pump
<1>2. \A u \in Tasks : Outcome'[u] = Outcome[u]
  BY <1>1 DEF Outcome, Over
<1>3. Len(got'[t]) > Len(got[t])
  <2>1. Holds(t) /\ sock[t] \in Sockets
    BY <1>1, Domains DEF Stage, Holding
  <2>2. unread[sock[t]] \in Seq(Item) /\ unread[sock[t]] # <<>>
    BY <2>1 DEF Pump, ProxyInv, ProxyTypeOK
  <2>3. <<Head(unread[sock[t]])>> \in Seq(Item) /\ Len(<<Head(unread[sock[t]])>>) = 1
    BY <2>2, TailFacts
  <2>4. p \in Seq(Tasks \X (0 .. MaxBody)) /\ Len(p) = 1
    BY <2>3, PiecesFacts
  <2> HIDE DEF p
  <2>5. got[t] \in Seq(Tasks \X (0 .. MaxBody)) /\ Len(got[t]) \in Nat
    BY DEF ProxyInv, ProxyTypeOK
  <2>6. Len(got[t] \o p) = Len(got[t]) + 1
    <3>1. Len(got[t] \o p) = Len(got[t]) + Len(p)
      BY <2>4, <2>5, ConcatProperties
    <3>. QED
      BY <2>4, <3>1
  <2>7. got'[t] = got[t] \o p
    BY <1>1, Domains
  <2>. QED
    BY <2>5, <2>6, <2>7
<1> HIDE DEF p
<1>. QED
  BY <1>1, <1>2, <1>3, ReadIsShow

\* A stream is completed only when all of its response has been shown.
LEMMA FinishIsComplete ==
    ASSUME ProxyInv, NEW t \in Tasks, Finish(t)
    PROVE  X!Complete(t)
<1>1. phase[t] = "body" /\ want[t] = 0 /\ End(t, "complete") /\ ~Over(t)
  BY DEF Finish, Over
<1>2. X!Close(t, "complete")
  BY <1>1, EndIsClose
<1>3. Stage(t) /\ Follows(t) /\ got[t] # <<>> /\ Len(unread[sock[t]]) <= 0 /\ sock[t] \in Sockets
  BY <1>1, Domains DEF Stage, Holding
<1>4. Len(unread[sock[t]]) \in Nat /\ got[t] \in Seq(Tasks \X (0 .. MaxBody))
      /\ Len(got[t]) \in Nat \ {0}
  BY <1>3, EmptySeq DEF ProxyInv, ProxyTypeOK
<1>5. Len(unread[sock[t]]) = 0
  BY <1>3, <1>4
<1>6. Len(got[t]) + 0 = sent[t] /\ \A k \in 1 .. Len(got[t]) : got[t][k] = <<t, k - 1>>
  BY <1>3, <1>5 DEF Follows
<1>7. Len(got[t]) = sent[t]
  BY <1>4, <1>6
<1>8. Response[t] = [k \in 1 .. sent[t] |-> <<t, k - 1>>] /\ sent[t] \in 0 .. MaxBody + 1
      /\ sent[t] \in Nat
  BY BodyAssumption, ResponseFacts
<1>9. got[t] = SubSeq(Response[t], 1, sent[t])
  <2>1. Len(got[t]) <= sent[t]
    BY <1>7, <1>8
  <2>. QED
    BY <1>4, <1>6, <1>7, <1>8, <2>1, OwnPrefix
<1>10. got[t] = Response[t]
  <2>1. Response[t] \in [1 .. sent[t] -> Tasks \X (0 .. MaxBody)]
    BY <1>8, BodyAssumption
  <2>2. Response[t] \in Seq(Tasks \X (0 .. MaxBody)) /\ Len(Response[t]) = sent[t]
    <3>1. Response[t] \in Seq(Tasks \X (0 .. MaxBody))
      <4> DEFINE own == Response[t]
                 Items == Tasks \X (0 .. MaxBody)
                 n == sent[t]
      <4>1. n \in Nat /\ own \in [1 .. n -> Items]
        BY <1>8, <2>1
      <4> HIDE DEF own, Items, n
      <4>2. own \in Seq(Items)
        BY <4>1, IsASeq
      <4>. QED
        BY <4>2 DEF own, Items
    <3>. QED
      BY <3>1, ResponseFacts
  <2>3. SubSeq(Response[t], 1, sent[t]) = Response[t]
    BY <1>8, <2>2
  <2>. QED
    BY <1>9, <2>3
<1>11. Response[t] # <<>>
  BY <1>3, <1>10
<1>. QED
  BY <1>2, <1>10, <1>11 DEF X!Complete, Response

\* The origin's answer is the response, unless nothing was written at all.
LEMMA AnswerIsRespond ==
    ASSUME ProxyInv, NEW s \in Sockets, OriginAnswers(s)
    PROVE  \/ UNCHANGED X!exchangeVars
           \/ \E t \in Tasks : X!Respond(t)
<1>1. PICK t \in Tasks : t = Head(owed[s])
  BY TailFacts DEF OriginAnswers, ProxyInv, ProxyTypeOK
<1>2. owed[s] # <<>> /\ owed[s] \in Seq(Tasks) /\ sock[t] = s
  BY <1>1 DEF OriginAnswers, ProxyInv, ProxyTypeOK
<1>3. PICK r \in Replies : \E n \in 0 .. r.body + 1 : Answer(t, s, r, n)
  BY <1>1 DEF OriginAnswers
<1>4. PICK n \in 0 .. r.body + 1 : Answer(t, s, r, n)
  BY <1>3
<1>5. n \in 0 .. MaxBody + 1
  BY WrittenFacts
<1>6. sent' = [sent EXCEPT ![t] = n] /\ UNCHANGED <<phase, got>> /\ state[t] = "using"
  BY <1>4 DEF Answer, OriginResponds
<1>7. phase[t] \in {"uploading", "head"} /\ sent[t] = 0
  <2>1. Stage(t) /\ Holds(t)
    BY <1>6, Domains DEF Holds
  <2>. QED
    BY <1>2, <1>6, <2>1 DEF Stage, Holding, Quiet, Holds
<1>8. Outcome' = Outcome /\ Outcome[t] = "open"
  BY <1>6, <1>7 DEF Outcome, Over
<1>9. CASE n = 0
  <2>1. sent' = sent
    BY <1>6, <1>7, <1>9, Domains
  <2>. QED
    BY <1>6, <1>8, <2>1, Hidden
<1>10. CASE n # 0
  <2>1. n \in 1 .. MaxBody + 1
    BY <1>5, <1>10, BodyAssumption
  <2>2. Response[t] = <<>>
    BY <1>7, EmptyResponse DEF Response
  <2>3. Response' = [Response EXCEPT ![t] = [k \in 1 .. n |-> <<t, k - 1>>]]
    <3>1. \A u \in Tasks : sent'[u] = IF u = t THEN n ELSE sent[u]
      BY <1>6, Domains
    <3>2. ASSUME NEW u \in Tasks
          PROVE  Response'[u] = IF u = t THEN [k \in 1 .. n |-> <<t, k - 1>>] ELSE Response[u]
      <4>1. Response'[u] = [k \in 1 .. sent'[u] |-> <<u, k - 1>>]
        BY DEF Response
      <4>. QED
        BY <3>1, <4>1 DEF Response
    <3>. QED
      BY <3>2 DEF Response
  <2>4. X!Own(t, n) = [k \in 1 .. n |-> <<t, k - 1>>]
    BY DEF X!Own
  <2>5. \E m \in 1 .. MaxBody + 1 : Response' = [Response EXCEPT ![t] = X!Own(t, m)]
    BY <2>1, <2>3, <2>4
  <2>. QED
    BY <1>6, <1>8, <2>2, <2>5 DEF X!Respond, Response, Outcome
<1>. QED
  BY <1>9, <1>10

\* Every step of the proxy is a step of Exchange, or is not seen by it.
LEMMA ExchangeStep ==
    ProxyInv /\ ProxyInv' /\ [Next]_vars => [X!ExchangeNext]_(X!exchangeVars)
<1> SUFFICES ASSUME ProxyInv, ProxyInv', [Next]_vars
             PROVE  [X!ExchangeNext]_(X!exchangeVars)
  OBVIOUS
<1>1. CASE UNCHANGED proxyVars
  BY <1>1, Hidden DEF proxyVars, Outcome, Over
<1>2. ASSUME NEW t \in Tasks,
             ReadRequest(t) \/ GetSocket(t) \/ WriteHead(t) \/ Upload(t)
      PROVE  UNCHANGED X!exchangeVars
  <2>1. ~Over(t) /\ UNCHANGED <<sent, got>>
    BY <1>2 DEF ReadRequest, GetSocket, WriteHead, Upload, Over
  <2>2. \/ UNCHANGED phase
        \/ \E p \in {"acquiring", "connected", "uploading", "bidi", "head"} : Goto(t, p)
    BY <1>2 DEF ReadRequest, GetSocket, WriteHead, Upload
  <2>3. \A u \in Tasks : Outcome'[u] = Outcome[u]
    <3>1. CASE UNCHANGED phase
      BY <3>1 DEF Outcome, Over
    <3>2. ASSUME NEW p \in {"acquiring", "connected", "uploading", "bidi", "head"}, Goto(t, p)
          PROVE  \A u \in Tasks : Outcome'[u] = Outcome[u]
      BY <2>1, <3>2, StaysOpen DEF Phase
    <3>. QED
      BY <2>2, <3>1, <3>2
  <2>. QED
    BY <2>1, <2>3, Hidden
<1>3. ASSUME NEW t \in Tasks,
             \/ ReadRequestFails(t) \/ NoUpstream(t) \/ ReadEof(t) \/ BadHead(t)
             \/ IoFails(t) \/ BidiEnds(t)
      PROVE  X!Cut(t)
  <2>1. ~Over(t) /\ End(t, "ended")
    BY <1>3 DEF ReadRequestFails, NoUpstream, ReadEof, BadHead, IoFails, BidiEnds, Over
  <2>. QED
    BY <2>1, EndIsClose DEF X!Cut
<1>4. ASSUME NEW t \in Tasks, StreamStep(t) \/ IoFails(t) \/ BidiEnds(t)
      PROVE  [X!ExchangeNext]_(X!exchangeVars)
  <2>1. UNCHANGED X!exchangeVars \/ X!Show(t) \/ X!Complete(t) \/ X!Cut(t)
    BY <1>2, <1>3, <1>4, ReadHeadIsShow, PumpIsShow, FinishIsComplete DEF StreamStep
  <2>. QED
    BY <2>1 DEF X!ExchangeNext
<1>5. ASSUME NEW s \in Sockets, OriginAnswers(s)
      PROVE  [X!ExchangeNext]_(X!exchangeVars)
  BY <1>5, AnswerIsRespond DEF X!ExchangeNext
<1>. QED
  BY <1>1, <1>4, <1>5 DEF Next, Passing, vars

\* The proxy implements Exchange: whichever sockets it uses and reuses, a
\* stream is shown its own response in order, and one that is completed was
\* shown all of it.
THEOREM ProxyImplementsExchange == Spec => ExchangeRefined
<1>1. Init => X!ExchangeInit
  <2> SUFFICES ASSUME Init PROVE X!ExchangeInit
    OBVIOUS
  <2>1. \A t \in Tasks : Response[t] = <<>> /\ Outcome[t] = "open"
    BY EmptyResponse DEF Init, Response, Outcome, Over
  <2>2. Response = [t \in Tasks |-> <<>>] /\ Outcome = [t \in Tasks |-> "open"]
    BY <2>1 DEF Response, Outcome
  <2>. QED
    BY <2>2 DEF Init, X!ExchangeInit, Response, Outcome
<1>. QED
  BY <1>1, ExchangeStep, ProxyInvariance, PTL DEF Spec, ExchangeRefined, X!ExchangeSpec

=============================================================================
