--------------------------- MODULE ChatUserProofs ---------------------------
(***************************************************************************)
(* What the users of the chat service may count on, for any number of      *)
(* sessions, accounts and restarts: each request that asks for an answer   *)
(* gets one, and, for users who wait for it and log in once in a session,  *)
(* lookup has the right connection for an account although descriptors     *)
(* are used again, so that a message reaches nobody but its receiver.      *)
(***************************************************************************)
EXTENDS ChatProofs, FunctionTheorems, FiniteSetTheorems

-----------------------------------------------------------------------------
(* Frames that are counted                                                  *)

\* The places of s that hold a member of T.
Hits(s, T) == {i \in DOMAIN s : s[i] \in T}

LEMMA HitsFinite ==
  ASSUME NEW S, NEW s \in Seq(S), NEW T
  PROVE  IsFiniteSet(Hits(s, T)) /\ Cardinality(Hits(s, T)) \in Nat
<1>1. Len(s) \in Nat /\ DOMAIN s = 1 .. Len(s)
  BY LenProperties
<1>2. IsFiniteSet(1 .. Len(s))
  BY <1>1, FS_Interval
<1>3. Hits(s, T) \in SUBSET (1 .. Len(s))
  BY <1>1 DEF Hits
<1>4. IsFiniteSet(Hits(s, T))
  BY <1>2, <1>3, FS_Subset
<1> QED BY <1>4, FS_CardinalityType

LEMMA HitsEmpty ==
  ASSUME NEW T
  PROVE  Cardinality(Hits(<<>>, T)) = 0
<1>1. Hits(<<>>, T) = {}
  BY DEF Hits
<1> QED BY <1>1, FS_EmptySet

LEMMA HitsAppend ==
  ASSUME NEW S, NEW s \in Seq(S), NEW x \in S, NEW T
  PROVE  Cardinality(Hits(Append(s, x), T))
           = Cardinality(Hits(s, T)) + (IF x \in T THEN 1 ELSE 0)
<1> DEFINE n == Len(s)
<1>1. /\ n \in Nat /\ DOMAIN s = 1 .. n /\ DOMAIN Append(s, x) = 1 .. n + 1
      /\ \A i \in 1 .. n : Append(s, x)[i] = s[i]
      /\ Append(s, x)[n + 1] = x
  BY AppendPlaces
<1> HIDE DEF n
<1>2. 1 .. n + 1 = (1 .. n) \union {n + 1}
  BY <1>1
<1>3. n + 1 \notin Hits(s, T)
  BY <1>1 DEF Hits
<1>4. IsFiniteSet(Hits(s, T)) /\ Cardinality(Hits(s, T)) \in Nat
  BY HitsFinite
<1>5. CASE x \in T
  <2>1. Hits(Append(s, x), T) = Hits(s, T) \union {n + 1}
    BY <1>1, <1>2, <1>5 DEF Hits
  <2> QED BY <1>3, <1>4, <1>5, <2>1, FS_AddElement
<1>6. CASE x \notin T
  <2>1. Hits(Append(s, x), T) = Hits(s, T)
    BY <1>1, <1>2, <1>6 DEF Hits
  <2> QED BY <1>4, <1>6, <2>1
<1> QED BY <1>5, <1>6

LEMMA HitsTail ==
  ASSUME NEW S, NEW s \in Seq(S), s # <<>>, NEW T
  PROVE  Cardinality(Hits(Tail(s), T))
           = Cardinality(Hits(s, T)) - (IF Head(s) \in T THEN 1 ELSE 0)
<1> DEFINE n == Len(s)
<1>1. /\ n \in Nat \ {0} /\ DOMAIN s = 1 .. n /\ DOMAIN Tail(s) = 1 .. n - 1
      /\ \A i \in 1 .. n - 1 : Tail(s)[i] = s[i + 1]
      /\ Head(s) = s[1] /\ Tail(s) \in Seq(S)
  BY HeadTailProperties, LenProperties, EmptySeq
<1> HIDE DEF n
<1> DEFINE H == Hits(Tail(s), T)
           R == Hits(s, T) \ {1}
           f == [i \in H |-> i + 1]
<1>2. IsFiniteSet(H) /\ IsFiniteSet(Hits(s, T)) /\ Cardinality(Hits(s, T)) \in Nat
  BY <1>1, HitsFinite
<1>3. f \in Bijection(H, R)
  <2>1. \A i \in H : i \in 1 .. n - 1 /\ i + 1 \in R
    BY <1>1 DEF Hits
  <2>2. f \in [H -> R]
    BY <2>1
  <2>3. \A i, j \in H : f[i] = f[j] => i = j
    BY <2>1
  <2>4. ASSUME NEW r \in R
        PROVE  \E i \in H : f[i] = r
    <3>1. r \in 1 .. n /\ r # 1 /\ s[r] \in T
      BY <1>1 DEF Hits
    <3>2. r - 1 \in 1 .. n - 1 /\ (r - 1) + 1 = r
      BY <1>1, <3>1
    <3>3. r - 1 \in H
      BY <1>1, <3>1, <3>2 DEF Hits
    <3> QED BY <3>2, <3>3
  <2> HIDE DEF f, H, R
  <2> QED BY <2>2, <2>3, <2>4, Fun_IsBij
<1>4. Cardinality(R) = Cardinality(H)
  BY <1>2, <1>3, FS_Bijection DEF ExistsBijection
<1>5. 1 \in Hits(s, T) <=> Head(s) \in T
  BY <1>1 DEF Hits
<1>6. Cardinality(R) = IF 1 \in Hits(s, T) THEN Cardinality(Hits(s, T)) - 1
                                          ELSE Cardinality(Hits(s, T))
  BY <1>2, FS_RemoveElement
<1> HIDE DEF R
<1> QED BY <1>2, <1>4, <1>5, <1>6

-----------------------------------------------------------------------------
(* The sessions                                                             *)

\* A session connects once: it has a descriptor or is in the backlog, in one
\* place, and has neither before its client runs.  Nothing is left to read for
\* a client that has left.
SessionOK(k) ==
  /\ ending[k] = "open" <=> running[k] # "left"
  /\ running[k] = "left" => toClient[k] = <<>>
  /\ running[k] = "off" =>
       /\ ~Connected(k)
       /\ toServer[k] = <<>> /\ toClient[k] = <<>> /\ asked[k] = 0

BacklogOK ==
  /\ \A i \in DOMAIN backlog : fd[backlog[i]] = 0
  /\ \A i, j \in DOMAIN backlog : backlog[i] = backlog[j] => i = j

SessionsOK == BacklogOK /\ \A k \in Sessions : SessionOK(k)

\* A handler that goes on writes to a connection, and a login to the one that
\* lookup has for the account.
HandlerOK ==
  /\ pc \in {"reply", "login", "offline", "active"} => conn # 0
  /\ pc \in {"login", "offline"} => lookup[who] = conn
  /\ pc = "reply" => reply.type = "OpStatus"

\* The requests of a session that wait in the stream, its answers on the way,
\* and the one the server is about to write.
AskFrames == {q \in Requests : q.type \in Asks}
AnswerFrames == {r \in Replies : IsAnswer(r)}

Waiting(k) == Cardinality(Hits(toServer[k], AskFrames))
Coming(k) == Cardinality(Hits(toClient[k], AnswerFrames))
Due(k) ==
  IF conn = fd[k] /\ (pc = "login" \/ (pc = "reply" /\ IsAnswer(reply))) THEN 1 ELSE 0

Balanced(k) == asked[k] = Waiting(k) + Coming(k) + Due(k)

Counted == \A k \in Sessions : Connected(k) /\ running[k] = "on" => Balanced(k)

CountInv == SessionsOK /\ HandlerOK /\ Counted

LEMMA CountTypes ==
  ASSUME StreamsInv, NEW k \in Sessions
  PROVE  Waiting(k) \in Nat /\ Coming(k) \in Nat /\ Due(k) \in {0, 1}
<1>1. toServer[k] \in Seq(Requests) /\ toClient[k] \in Seq(Replies)
  BY DEF StreamsInv, StreamsTypeOK
<1> QED BY <1>1, HitsFinite DEF Waiting, Coming, Due

LEMMA CountedMeans ==
  ASSUME StreamsInv, Counted
  PROVE  AnsweredOnce
<1> SUFFICES ASSUME NEW k \in Sessions, fd[k] # 0, running[k] = "on"
             PROVE  asked[k] =
                      Cardinality({i \in DOMAIN toServer[k] : toServer[k][i].type \in Asks})
                      + Cardinality({i \in DOMAIN toClient[k] : IsAnswer(toClient[k][i])})
                      + Due(k)
  BY DEF AnsweredOnce, Due
<1>1. toServer[k] \in Seq(Requests) /\ toClient[k] \in Seq(Replies)
  BY DEF StreamsInv, StreamsTypeOK
<1>2. /\ \A i \in DOMAIN toServer[k] : toServer[k][i] \in Requests
      /\ \A i \in DOMAIN toClient[k] : toClient[k][i] \in Replies
  BY <1>1
<1>3. {i \in DOMAIN toServer[k] : toServer[k][i].type \in Asks} = Hits(toServer[k], AskFrames)
  BY <1>2 DEF Hits, AskFrames
<1>4. {i \in DOMAIN toClient[k] : IsAnswer(toClient[k][i])} = Hits(toClient[k], AnswerFrames)
  BY <1>2 DEF Hits, AnswerFrames
<1> QED BY <1>3, <1>4 DEF Counted, Connected, Balanced, Waiting, Coming

\* What a write does to each session: a client that runs gets the frame, and
\* nobody else does.
LEMMA SendEffect ==
  ASSUME StreamsInv, UserTypeOK, NEW j \in Sessions, SessionOK(j), NEW f, f # 0,
         NEW frame \in Replies, Send(f, frame)
  PROVE  /\ ending'[j] = "open" <=> running[j] # "left"
         /\ toClient'[j] = IF fd[j] = f /\ running[j] = "on"
                           THEN Append(toClient[j], frame) ELSE toClient[j]
<1>1. fd[j] = f /\ ending[j] = "open" <=> fd[j] = f /\ running[j] = "on"
  BY DEF SessionOK, Connected, UserTypeOK
<1>2. CASE Written(f, frame)
  <2>1. PICK k \in Sessions :
          /\ fd[k] = f /\ ending[k] = "open" /\ ending' = ending
          /\ toClient' = [toClient EXCEPT ![k] = Append(@, frame)]
    BY <1>2 DEF Written
  <2>2. fd[j] = f <=> j = k
    BY <2>1 DEF StreamsInv, OneEach
  <2>3. toClient'[j] = IF j = k THEN Append(toClient[j], frame) ELSE toClient[j]
    BY <2>1 DEF StreamsInv, StreamsTypeOK
  <2> QED BY <1>1, <2>1, <2>2, <2>3 DEF SessionOK
<1>3. CASE WrittenToNobody(f)
  <2>1. PICK k \in Sessions :
          /\ fd[k] = f /\ ending[k] = "closed" /\ toClient' = toClient
          /\ ending' = [ending EXCEPT ![k] = "broken"]
    BY <1>3 DEF WrittenToNobody
  <2>2. fd[j] = f <=> j = k
    BY <2>1 DEF StreamsInv, OneEach
  <2>3. ending'[j] = IF j = k THEN "broken" ELSE ending[j]
    BY <2>1 DEF StreamsInv, StreamsTypeOK
  <2> QED BY <1>1, <2>1, <2>2, <2>3 DEF SessionOK
<1> QED BY <1>2, <1>3 DEF Send

\* The same for a step that writes nothing.
LEMMA NoSend ==
  ASSUME NEW j \in Sessions, SessionOK(j), UNCHANGED <<toClient, ending>>
  PROVE  (ending'[j] = "open" <=> running[j] # "left") /\ toClient'[j] = toClient[j]
BY DEF SessionOK

\* A server that opens and closes no connection keeps the sessions as they are.
LEMMA SessionsKept ==
  ASSUME StreamsInv, UserTypeOK, SessionsOK,
         UNCHANGED <<fd, backlog, running, asked>>,
         \A k \in Sessions : toServer[k] = <<>> => toServer'[k] = <<>>,
         \/ UNCHANGED <<toClient, ending>>
         \/ \E f \in 1 .. MaxFd, frame \in Replies : Send(f, frame)
  PROVE  SessionsOK'
<1>1. BacklogOK'
  BY DEF SessionsOK, BacklogOK
<1>2. ASSUME NEW k \in Sessions
      PROVE  SessionOK(k)'
  <2>1. SessionOK(k)
    BY DEF SessionsOK
  <2>2. /\ ending'[k] = "open" <=> running[k] # "left"
        /\ fd[k] = 0 \/ running[k] # "on" => toClient'[k] = toClient[k]
    <3>1. CASE UNCHANGED <<toClient, ending>>
      BY <2>1, <3>1, NoSend
    <3>2. ASSUME NEW f \in 1 .. MaxFd, NEW frame \in Replies, Send(f, frame)
          PROVE  /\ ending'[k] = "open" <=> running[k] # "left"
                 /\ fd[k] = 0 \/ running[k] # "on" => toClient'[k] = toClient[k]
      <4>1. f # 0
        BY ChatAssumption
      <4> QED BY <2>1, <3>2, <4>1, SendEffect
    <3> QED BY <3>1, <3>2
  <2>3. UNCHANGED Connected(k)
    BY DEF Connected
  <2> QED BY <2>1, <2>2, <2>3 DEF SessionOK
<1> QED BY <1>1, <1>2 DEF SessionsOK

\* Answers on the way are more by the one that is written.
LEMMA SendCounts ==
  ASSUME StreamsInv, UserTypeOK, NEW j \in Sessions, SessionOK(j), running[j] = "on",
         NEW f, f # 0, NEW frame \in Replies, Send(f, frame)
  PROVE  Coming(j)' = Coming(j) + (IF fd[j] = f /\ IsAnswer(frame) THEN 1 ELSE 0)
<1>1. toClient[j] \in Seq(Replies) /\ Coming(j) \in Nat
  BY CountTypes DEF StreamsInv, StreamsTypeOK
<1>2. toClient'[j] = IF fd[j] = f THEN Append(toClient[j], frame) ELSE toClient[j]
  BY SendEffect
<1>3. frame \in AnswerFrames <=> IsAnswer(frame)
  BY DEF AnswerFrames
<1>4. Cardinality(Hits(Append(toClient[j], frame), AnswerFrames))
        = Coming(j) + (IF frame \in AnswerFrames THEN 1 ELSE 0)
  BY <1>1, HitsAppend DEF Coming
<1>5. AnswerFrames' = AnswerFrames
  BY DEF AnswerFrames, IsAnswer, Replies
<1> QED BY <1>1, <1>2, <1>3, <1>4, <1>5 DEF Coming

\* Requests that wait are fewer by the one that is read.
LEMMA TakeCounts ==
  ASSUME StreamsInv, NEW k \in Sessions, toServer[k] # <<>>, TakeFrame(k),
         NEW j \in Sessions
  PROVE  Waiting(j)' = Waiting(j) - (IF j = k /\ Request(k).type \in Asks THEN 1 ELSE 0)
<1>1. toServer[j] \in Seq(Requests) /\ toServer[k] \in Seq(Requests) /\ Waiting(j) \in Nat
  BY CountTypes DEF StreamsInv, StreamsTypeOK
<1>2. toServer'[j] = IF j = k THEN Tail(toServer[k]) ELSE toServer[j]
  BY DEF TakeFrame, StreamsInv, StreamsTypeOK
<1>3. Request(k) \in AskFrames <=> Request(k).type \in Asks
  BY <1>1, HeadTailProperties DEF AskFrames, Request
<1>4. Cardinality(Hits(Tail(toServer[k]), AskFrames))
        = Waiting(k) - (IF Request(k) \in AskFrames THEN 1 ELSE 0)
  BY <1>1, HitsTail DEF Waiting, Request
<1> QED BY <1>1, <1>2, <1>3, <1>4 DEF Waiting

-----------------------------------------------------------------------------
(* Every request is answered once: the server                               *)

\* What a handler has to show when it opens and closes no connection.
LEMMA CountStep ==
  ASSUME IInv, CountInv, UNCHANGED userVars, UNCHANGED <<fd, backlog>>,
         \A k \in Sessions : toServer[k] = <<>> => toServer'[k] = <<>>,
         \/ UNCHANGED <<toClient, ending>>
         \/ \E f \in 1 .. MaxFd, frame \in Replies : Send(f, frame),
         HandlerOK',
         \A k \in Sessions : running[k] = "on" =>
           Waiting(k)' + Coming(k)' + Due(k)' = Waiting(k) + Coming(k) + Due(k)
  PROVE  CountInv'
<1>1. StreamsInv /\ UserTypeOK
  BY DEF IInv, ServerInv
<1>2. SessionsOK'
  BY <1>1, SessionsKept DEF CountInv, userVars
<1>3. Counted'
  <2> SUFFICES ASSUME NEW k \in Sessions, Connected(k)', running'[k] = "on"
               PROVE  Balanced(k)'
    BY DEF Counted
  <2>1. Connected(k) /\ running[k] = "on" /\ asked'[k] = asked[k]
    BY DEF Connected, userVars
  <2>2. asked[k] = Waiting(k) + Coming(k) + Due(k)
    BY <2>1 DEF CountInv, Counted, Balanced
  <2> QED BY <1>1, <2>1, <2>2 DEF Balanced
<1> QED BY <1>2, <1>3 DEF CountInv

LEMMA NothingComes ==
  ASSUME NEW k \in Sessions, UNCHANGED toClient
  PROVE  Coming(k)' = Coming(k)
BY DEF Coming, AnswerFrames, IsAnswer, Replies

LEMMA NothingTaken ==
  ASSUME NEW k \in Sessions, UNCHANGED toServer
  PROVE  Waiting(k)' = Waiting(k)
BY DEF Waiting, AskFrames, Requests, Asks

LEMMA ReadFacts ==
  ASSUME IInv, NEW k \in Sessions, NEW type, Read(k, type)
  PROVE  /\ StreamsInv /\ pc = "wait" /\ fd[k] \in 1 .. MaxFd
         /\ toServer[k] # <<>> /\ TakeFrame(k) /\ Request(k).type = type
         /\ Request(k) \in Requests
         /\ UNCHANGED <<fd, backlog>>
         /\ \A j \in Sessions : toServer[j] = <<>> => toServer'[j] = <<>>
<1>1. fd[k] \in 1 .. MaxFd /\ Request(k) \in Requests
  BY ReadTypes, ChatAssumption DEF IInv
<1>2. \A j \in Sessions : toServer[j] = <<>> => toServer'[j] = <<>>
  BY DEF Read, Readable, TakeFrame, IInv, ServerInv, StreamsInv, StreamsTypeOK
<1> QED BY <1>1, <1>2 DEF Read, Readable, IInv, ServerInv

\* A request that is answered at once.
LEMMA AnswerWithCount ==
  ASSUME IInv, CountInv, UNCHANGED userVars, NEW k \in Sessions, NEW type, Read(k, type),
         NEW status \in Statuses, AnswerWith(k, status),
         status = "offline" <=> type \notin Asks
  PROVE  CountInv'
<1>1. /\ pc' = "reply" /\ conn' = fd[k] /\ reply' = Answer(status)
      /\ UNCHANGED <<toClient, ending>>
  BY DEF AnswerWith
<1>2. /\ pc = "wait" /\ fd[k] \in 1 .. MaxFd /\ UNCHANGED <<fd, backlog>>
      /\ \A j \in Sessions : toServer[j] = <<>> => toServer'[j] = <<>>
  BY ReadFacts
<1>3. HandlerOK'
  BY <1>1, <1>2, ChatAssumption DEF HandlerOK, Answer
<1>4. ASSUME NEW j \in Sessions
      PROVE  Waiting(j)' + Coming(j)' + Due(j)' = Waiting(j) + Coming(j) + Due(j)
  <2>1. Waiting(j)' = Waiting(j) - (IF j = k /\ type \in Asks THEN 1 ELSE 0)
    BY ReadFacts, TakeCounts
  <2>2. Coming(j)' = Coming(j)
    BY <1>1, NothingComes
  <2>3. Due(j) = 0
    BY <1>2 DEF Due
  <2>4. fd[j] = fd[k] <=> j = k
    BY <1>2, ChatAssumption DEF IInv, ServerInv, StreamsInv, OneEach
  <2>5. IsAnswer(reply)' <=> type \in Asks
    BY <1>1 DEF IsAnswer, Answer
  <2>6. Due(j)' = IF j = k /\ type \in Asks THEN 1 ELSE 0
    BY <1>1, <1>2, <2>4, <2>5 DEF Due
  <2>7. Waiting(j) \in Nat /\ Coming(j) \in Nat
    BY CountTypes DEF IInv, ServerInv
  <2> QED BY <2>1, <2>2, <2>3, <2>6, <2>7
<1> QED BY <1>1, <1>2, <1>3, <1>4, CountStep

LEMMA LoginGrantedCount ==
  ASSUME IInv, CountInv, UNCHANGED userVars, NEW k \in Sessions, LoginIn(k),
         LoginGranted(Request(k))
  PROVE  CountInv'
<1> DEFINE q == Request(k)
<1>1. /\ Read(k, "LoginIn") /\ lookup' = [lookup EXCEPT ![q.account] = fd[k]]
      /\ pc' = "login" /\ conn' = fd[k] /\ who' = q.account
      /\ UNCHANGED <<reply, toClient, ending>>
  BY DEF LoginIn
<1>2. /\ pc = "wait" /\ fd[k] \in 1 .. MaxFd /\ UNCHANGED <<fd, backlog>>
      /\ q.account \in Names
      /\ \A j \in Sessions : toServer[j] = <<>> => toServer'[j] = <<>>
  BY <1>1, ReadFacts, AccountFields
<1>3. HandlerOK'
  <2> HIDE DEF q
  <2> QED BY <1>1, <1>2, ChatAssumption DEF HandlerOK, IInv, ServerInv, TableTypeOK
<1>4. ASSUME NEW j \in Sessions
      PROVE  Waiting(j)' + Coming(j)' + Due(j)' = Waiting(j) + Coming(j) + Due(j)
  <2>1. Waiting(j)' = Waiting(j) - (IF j = k THEN 1 ELSE 0)
    BY <1>1, ReadFacts, TakeCounts DEF Asks
  <2>2. Coming(j)' = Coming(j)
    BY <1>1, NothingComes
  <2>3. fd[j] = fd[k] <=> j = k
    BY <1>2, ChatAssumption DEF IInv, ServerInv, StreamsInv, OneEach
  <2>4. Due(j) = 0 /\ Due(j)' = IF j = k THEN 1 ELSE 0
    BY <1>1, <1>2, <2>3 DEF Due
  <2>5. Waiting(j) \in Nat /\ Coming(j) \in Nat
    BY CountTypes DEF IInv, ServerInv
  <2> QED BY <2>1, <2>2, <2>4, <2>5
<1> QED BY <1>1, <1>2, <1>3, <1>4, CountStep

\* A request that is taken while nothing is asked for: it is relayed, stored,
\* or begins a list.
LEMMA TakenCount ==
  ASSUME IInv, CountInv, UNCHANGED userVars, NEW k \in Sessions, NEW type, Read(k, type),
         type \notin Asks,
         \/ UNCHANGED <<toClient, ending>>
         \/ \E f \in 1 .. MaxFd, frame \in Replies : ~IsAnswer(frame) /\ Send(f, frame),
         pc' \in {"wait", "active"}, pc' # "wait" => conn' # 0
  PROVE  CountInv'
<1>1. HandlerOK'
  BY DEF HandlerOK
<1>2. pc = "wait" /\ UNCHANGED <<fd, backlog>>
      /\ \A j \in Sessions : toServer[j] = <<>> => toServer'[j] = <<>>
  BY ReadFacts
<1>3. ASSUME NEW j \in Sessions, running[j] = "on"
      PROVE  Waiting(j)' + Coming(j)' + Due(j)' = Waiting(j) + Coming(j) + Due(j)
  <2>1. Waiting(j)' = Waiting(j)
    <3>1. Waiting(j)' = Waiting(j) - (IF j = k /\ type \in Asks THEN 1 ELSE 0)
      BY ReadFacts, TakeCounts
    <3> QED BY <3>1, CountTypes DEF IInv, ServerInv
  <2>2. Coming(j)' = Coming(j)
    <3>1. CASE UNCHANGED <<toClient, ending>>
      BY <3>1, NothingComes
    <3>2. ASSUME NEW f \in 1 .. MaxFd, NEW frame \in Replies, ~IsAnswer(frame), Send(f, frame)
          PROVE  Coming(j)' = Coming(j)
      <4>1. f # 0 /\ SessionOK(j) /\ StreamsInv /\ UserTypeOK
        BY ChatAssumption DEF CountInv, SessionsOK, IInv, ServerInv
      <4>2. Coming(j)' = Coming(j) + (IF fd[j] = f /\ IsAnswer(frame) THEN 1 ELSE 0)
        BY <1>3, <3>2, <4>1, SendCounts
      <4> QED BY <3>2, <4>1, <4>2, CountTypes
    <3> QED BY <3>1, <3>2
  <2>3. Due(j) = 0 /\ Due(j)' = 0
    BY <1>2 DEF Due
  <2> QED BY <2>1, <2>2, <2>3
<1> QED BY <1>1, <1>2, <1>3, CountStep

LEMMA LookupType ==
  ASSUME IInv, NEW a \in Names, lookup[a] # 0
  PROVE  lookup[a] \in 1 .. MaxFd
BY ChatAssumption DEF IInv, ServerInv, TableTypeOK

LEMMA RequestCounts ==
  ASSUME IInv, CountInv, UNCHANGED userVars, NEW k \in Sessions,
         \/ Registion(k) \/ LoginIn(k) \/ SendMessage(k) \/ P2PRequest(k)
         \/ RecoverPassword(k) \/ FindActiveRequest(k)
  PROVE  CountInv'
<1> DEFINE q == Request(k)
<1>1. CASE Registion(k)
  <2>1. PICK status \in {"succceed", "exception"} : AnswerWith(k, status)
    BY <1>1 DEF Registion
  <2> QED BY <1>1, <2>1, AnswerWithCount DEF Registion, Statuses, Asks
<1>2. CASE RecoverPassword(k)
  <2>1. PICK status \in {"elsewhere", "recovered", "wrong"} : AnswerWith(k, status)
    BY <1>2 DEF RecoverPassword
  <2> QED BY <1>2, <2>1, AnswerWithCount DEF RecoverPassword, Statuses, Asks
<1>3. CASE LoginIn(k)
  <2>1. CASE LoginGranted(q)
    BY <1>3, <2>1, LoginGrantedCount
  <2>2. CASE ~LoginGranted(q)
    <3>1. PICK status \in {"elsewhere", "wrong"} : AnswerWith(k, status)
      BY <1>3, <2>2 DEF LoginIn
    <3> QED BY <1>3, <3>1, AnswerWithCount DEF LoginIn, Statuses, Asks
  <2> QED BY <2>1, <2>2
<1>4. CASE SendMessage(k)
  <2>1. Read(k, "SendMessage") /\ UNCHANGED pc
    BY <1>4 DEF SendMessage
  <2>2. pc = "wait" /\ q \in Requests /\ q.receiver \in Names
    BY <2>1, ReadFacts, AccountFields
  <2>3. CASE lookup[q.receiver] # 0
    <3>1. Send(lookup[q.receiver], Message(q.msg, q.account, q.receiver, "whole"))
      BY <1>4, <2>3 DEF SendMessage
    <3>2. /\ Message(q.msg, q.account, q.receiver, "whole") \in Replies
          /\ ~IsAnswer(Message(q.msg, q.account, q.receiver, "whole"))
      BY <2>2, MessageType, AccountFields DEF IsAnswer, Message
    <3> QED BY <2>1, <2>2, <2>3, <3>1, <3>2, LookupType, TakenCount DEF Asks
  <2>4. CASE lookup[q.receiver] = 0
    <3>1. UNCHANGED <<toClient, ending>>
      BY <1>4, <2>4 DEF SendMessage
    <3> QED BY <2>1, <2>2, <3>1, TakenCount DEF Asks
  <2> QED BY <2>3, <2>4
<1>5. CASE P2PRequest(k)
  <2>1. Read(k, "P2PRequest")
    BY <1>5 DEF P2PRequest
  <2>2. pc = "wait" /\ q \in Requests /\ q.receiver \in Names
    BY <2>1, ReadFacts, AccountFields
  <2>3. CASE lookup[q.receiver] # 0
    <3>1. Send(lookup[q.receiver], Relay(q)) /\ UNCHANGED pc
      BY <1>5, <2>3 DEF P2PRequest
    <3>2. Relay(q) \in Replies /\ ~IsAnswer(Relay(q))
      BY <2>2, RelayType DEF IsAnswer, Relay
    <3> QED BY <2>1, <2>2, <2>3, <3>1, <3>2, LookupType, TakenCount DEF Asks
  <2>4. CASE lookup[q.receiver] = 0
    <3>1. AnswerWith(k, "offline")
      BY <1>5, <2>4 DEF P2PRequest
    <3> QED BY <2>1, <3>1, AnswerWithCount DEF Statuses, Asks
  <2> QED BY <2>3, <2>4
<1>6. CASE FindActiveRequest(k)
  <2>1. /\ Read(k, "FindActiveRequest") /\ UNCHANGED <<toClient, ending>>
        /\ pc' = "active" /\ conn' = fd[k]
    BY <1>6 DEF FindActiveRequest
  <2>2. conn' # 0
    BY <2>1, ReadFacts, ChatAssumption
  <2> QED BY <2>1, <2>2, TakenCount DEF Asks
<1> QED BY <1>1, <1>2, <1>3, <1>4, <1>5, <1>6

\* A write of a handler: what is due before it is written, or due afterwards.
LEMMA WrittenCount ==
  ASSUME IInv, CountInv, UNCHANGED userVars, UNCHANGED <<fd, backlog, toServer>>,
         conn # 0, NEW frame \in Replies, Send(conn, frame), HandlerOK',
         \A j \in Sessions :
           Due(j)' = Due(j) - (IF fd[j] = conn /\ IsAnswer(frame) THEN 1 ELSE 0)
  PROVE  CountInv'
<1>1. conn \in 1 .. MaxFd
  BY ChatAssumption DEF IInv, ServerInv, HandlerTypeOK
<1>2. ASSUME NEW j \in Sessions, running[j] = "on"
      PROVE  Waiting(j)' + Coming(j)' + Due(j)' = Waiting(j) + Coming(j) + Due(j)
  <2>1. Waiting(j)' = Waiting(j)
    BY NothingTaken
  <2>2. SessionOK(j) /\ StreamsInv /\ UserTypeOK
    BY DEF CountInv, SessionsOK, IInv, ServerInv
  <2>3. Coming(j)' = Coming(j) + (IF fd[j] = conn /\ IsAnswer(frame) THEN 1 ELSE 0)
    BY <1>2, <2>2, SendCounts
  <2>4. Waiting(j) \in Nat /\ Coming(j) \in Nat /\ Due(j) \in {0, 1}
    BY <2>2, CountTypes
  <2> QED BY <2>1, <2>3, <2>4
<1> QED BY <1>1, <1>2, CountStep

LEMMA RowType ==
  ASSUME IInv, pc = "offline", row <= Len(mail[who])
  PROVE  who \in Names /\ FromTable(who, mail[who][row]) \in Replies
<1>1. who \in Names /\ row \in Nat /\ mail[who] \in Seq(Rows)
  BY DEF IInv, ServerInv, HandlerTypeOK, MailInv, MailTypeOK
<1>2. row \in 1 .. Len(mail[who])
  BY <1>1, LenProperties DEF IInv, ServerInv, MailInv, RowInRange
<1>3. mail[who][row] \in Rows
  BY <1>1, <1>2, ElementOfSeq
<1>4. mail[who][row].msg \in Messages
  BY <1>3 DEF Rows
<1> QED BY <1>1, <1>4, MessageType DEF FromTable

LEMMA WriteCounts ==
  ASSUME IInv, CountInv, UNCHANGED userVars,
         \/ SendReply \/ SendWelcome \/ SendOffline \/ DeleteOffline
         \/ SendActive \/ ActiveDone
  PROVE  CountInv'
<1>1. CASE SendReply
  <2>1. /\ pc = "reply" /\ Send(conn, reply) /\ pc' = "wait"
        /\ UNCHANGED <<fd, backlog, toServer>>
    BY <1>1 DEF SendReply, Return
  <2>2. conn # 0 /\ reply \in Replies /\ HandlerOK'
    BY <2>1 DEF CountInv, HandlerOK, IInv, ServerInv, HandlerTypeOK
  <2>3. \A j \in Sessions :
          Due(j)' = Due(j) - (IF fd[j] = conn /\ IsAnswer(reply) THEN 1 ELSE 0)
    BY <2>1 DEF Due
  <2> QED BY <2>1, <2>2, <2>3, WrittenCount
<1>2. CASE SendWelcome
  <2>1. /\ pc = "login" /\ Send(conn, Welcome) /\ pc' = "offline"
        /\ UNCHANGED <<fd, backlog, toServer>> /\ UNCHANGED <<conn, who, lookup>>
    BY <1>2 DEF SendWelcome, handlerVars
  <2>2. conn # 0 /\ HandlerOK' /\ IsAnswer(Welcome)
    BY <2>1 DEF CountInv, HandlerOK, IsAnswer, Welcome
  <2>3. \A j \in Sessions :
          Due(j)' = Due(j) - (IF fd[j] = conn /\ IsAnswer(Welcome) THEN 1 ELSE 0)
    BY <2>1, <2>2 DEF Due
  <2> QED BY <2>1, <2>2, <2>3, WelcomeType, WrittenCount
<1>3. CASE SendOffline
  <2>1. /\ pc = "offline" /\ Send(conn, FromTable(who, mail[who][row])) /\ pc' = pc
        /\ row <= Len(mail[who])
        /\ UNCHANGED <<fd, backlog, toServer>> /\ UNCHANGED <<conn, who, lookup>>
    BY <1>3 DEF SendOffline, NextRow
  <2>2. conn # 0 /\ HandlerOK'
    BY <2>1 DEF CountInv, HandlerOK
  <2>3. FromTable(who, mail[who][row]) \in Replies
    BY <2>1, RowType
  <2>4. ~IsAnswer(FromTable(who, mail[who][row]))
    BY DEF FromTable, Message, IsAnswer
  <2>5. \A j \in Sessions : Due(j) = 0 /\ Due(j)' = 0
    BY <2>1 DEF Due
  <2> QED BY <2>1, <2>2, <2>3, <2>4, <2>5, WrittenCount
<1>4. CASE SendActive
  <2>1. PICK a \in actives : Send(conn, Active(a))
    BY <1>4 DEF SendActive
  <2>2. /\ pc = "active" /\ pc' = pc
        /\ UNCHANGED <<fd, backlog, toServer>> /\ UNCHANGED <<conn, who, lookup>>
    BY <1>4 DEF SendActive
  <2>3. conn # 0 /\ HandlerOK'
    BY <2>2 DEF CountInv, HandlerOK
  <2>4. Active(a) \in Replies /\ ~IsAnswer(Active(a))
    BY ActiveType DEF IInv, ServerInv, HandlerTypeOK, Active, IsAnswer
  <2>5. \A j \in Sessions : Due(j) = 0 /\ Due(j)' = 0
    BY <2>2 DEF Due
  <2> QED BY <2>1, <2>2, <2>3, <2>4, <2>5, WrittenCount
<1>5. CASE DeleteOffline \/ ActiveDone
  <2>1. /\ pc \in {"offline", "active"} /\ pc' = "wait"
        /\ UNCHANGED <<fd, backlog, toServer, toClient, ending>>
    BY <1>5 DEF DeleteOffline, ActiveDone, Return, streamVars
  <2>2. HandlerOK' /\ \A j \in Sessions : Due(j) = 0 /\ Due(j)' = 0
    BY <2>1 DEF HandlerOK, Due
  <2>3. \A j \in Sessions : Waiting(j)' = Waiting(j) /\ Coming(j)' = Coming(j)
    BY <2>1, NothingTaken, NothingComes
  <2> QED BY <2>1, <2>2, <2>3, CountStep
<1> QED BY <1>1, <1>2, <1>3, <1>4, <1>5

-----------------------------------------------------------------------------
(* Every request is answered once: connections                              *)

LEMMA ExitCount ==
  ASSUME IInv, CountInv, UNCHANGED userVars, Exit
  PROVE  CountInv'
<1>1. /\ pc' = "down" /\ fd' = [k \in Sessions |-> 0] /\ backlog' = <<>>
      /\ toServer' = [k \in Sessions |-> <<>>]
      /\ UNCHANGED <<toClient, ending>> /\ UNCHANGED <<running, asked>>
  BY DEF Exit, CloseAll, userVars
<1>2. HandlerOK'
  BY <1>1 DEF HandlerOK
<1>3. \A k \in Sessions : ~Connected(k)'
  BY <1>1 DEF Connected
<1>4. Counted'
  BY <1>3 DEF Counted
<1>5. BacklogOK'
  BY <1>1 DEF BacklogOK
<1>6. \A k \in Sessions : SessionOK(k)'
  BY <1>1, <1>3 DEF CountInv, SessionsOK, SessionOK
<1> QED BY <1>2, <1>4, <1>5, <1>6 DEF CountInv, SessionsOK

LEMMA IncomingCount ==
  ASSUME IInv, CountInv, UNCHANGED userVars, Incoming
  PROVE  CountInv'
<1> DEFINE h == Head(backlog)
<1>1. /\ pc = "wait" /\ backlog # <<>> /\ FreeFds # {}
      /\ fd' = [fd EXCEPT ![h] = LowestFree] /\ backlog' = Tail(backlog)
      /\ UNCHANGED <<toServer, toClient, ending>>
      /\ UNCHANGED <<pc, conn, reply, who, lookup>> /\ UNCHANGED <<running, asked>>
  BY DEF Incoming, Accept, serverVars, userVars
<1>2. LowestFree \in 1 .. MaxFd
  BY <1>1, LowestType DEF FreeFds
<1>3. /\ backlog \in Seq(Sessions) /\ h \in Sessions /\ h = backlog[1]
      /\ DOMAIN backlog = 1 .. Len(backlog) /\ Len(backlog) \in Nat \ {0}
      /\ DOMAIN Tail(backlog) = 1 .. Len(backlog) - 1
      /\ \A i \in 1 .. Len(backlog) - 1 : Tail(backlog)[i] = backlog[i + 1]
  BY <1>1, HeadTailProperties, LenProperties, EmptySeq DEF IInv, ServerInv, StreamsInv, StreamsTypeOK
<1> HIDE DEF h
<1>4. \A i \in DOMAIN backlog' : backlog'[i] # h /\ \E j \in DOMAIN backlog : backlog[j] = backlog'[i]
  BY <1>1, <1>3 DEF CountInv, SessionsOK, BacklogOK
<1>5. \A k \in Sessions : fd'[k] = IF k = h THEN LowestFree ELSE fd[k]
  BY <1>1, <1>3 DEF IInv, ServerInv, StreamsInv, StreamsTypeOK
<1>6. \A k \in Sessions : Connected(k)' => Connected(k)
  BY <1>3, <1>4, <1>5 DEF Connected
<1>7. BacklogOK'
  <2>1. \A i \in DOMAIN backlog' : i + 1 \in DOMAIN backlog /\ backlog'[i] = backlog[i + 1]
    BY <1>1, <1>3
  <2>2. \A i \in DOMAIN backlog' : fd'[backlog'[i]] = 0
    BY <1>1, <1>3, <1>4, <2>1 DEF CountInv, SessionsOK, BacklogOK, IInv, ServerInv, StreamsInv, StreamsTypeOK
  <2>3. \A i, j \in DOMAIN backlog' : backlog'[i] = backlog'[j] => i = j
    BY <1>1, <1>3, <2>1 DEF CountInv, SessionsOK, BacklogOK
  <2> QED BY <2>2, <2>3 DEF BacklogOK
<1>8. \A k \in Sessions : SessionOK(k)'
  BY <1>1, <1>6 DEF CountInv, SessionsOK, SessionOK
<1>9. HandlerOK'
  BY <1>1 DEF CountInv, HandlerOK
<1>10. Counted'
  <2> SUFFICES ASSUME NEW k \in Sessions, Connected(k)', running'[k] = "on"
               PROVE  Balanced(k)'
    BY DEF Counted
  <2>1. Balanced(k)
    BY <1>1, <1>6 DEF CountInv, Counted
  <2>2. Waiting(k)' = Waiting(k) /\ Coming(k)' = Coming(k)
    BY <1>1, NothingTaken, NothingComes
  <2>3. Due(k) = 0 /\ Due(k)' = 0
    BY <1>1 DEF Due
  <2> QED BY <1>1, <2>1, <2>2, <2>3 DEF Balanced
<1> QED BY <1>7, <1>8, <1>9, <1>10 DEF CountInv, SessionsOK

LEMMA ClientIsDownCount ==
  ASSUME IInv, CountInv, UNCHANGED userVars, NEW k \in Sessions, ClientIsDown(k)
  PROVE  CountInv'
<1>1. /\ pc = "wait" /\ fd' = [fd EXCEPT ![k] = 0]
      /\ fd[k] # 0 /\ ending[k] # "open"
      /\ UNCHANGED <<backlog, toServer, toClient, ending>>
      /\ UNCHANGED <<pc, conn, reply, who>> /\ UNCHANGED <<running, asked>>
  BY DEF ClientIsDown, CloseFd, AtEof, handlerVars, userVars
<1>2. \A j \in Sessions : fd'[j] = IF j = k THEN 0 ELSE fd[j]
  BY <1>1 DEF IInv, ServerInv, StreamsInv, StreamsTypeOK
<1>3. \A j \in Sessions : Connected(j)' => Connected(j)
  BY <1>1, <1>2 DEF Connected
<1>4. BacklogOK'
  <2>1. \A i \in DOMAIN backlog : backlog[i] \in Sessions
    BY ElementOfSeq, LenProperties DEF IInv, ServerInv, StreamsInv, StreamsTypeOK
  <2> QED BY <1>1, <1>2, <2>1 DEF CountInv, SessionsOK, BacklogOK
<1>5. \A j \in Sessions : SessionOK(j)'
  BY <1>1, <1>3 DEF CountInv, SessionsOK, SessionOK
<1>6. HandlerOK'
  BY <1>1 DEF HandlerOK
<1>7. Counted'
  <2> SUFFICES ASSUME NEW j \in Sessions, Connected(j)', running'[j] = "on"
               PROVE  Balanced(j)'
    BY DEF Counted
  <2>1. Balanced(j)
    BY <1>1, <1>3 DEF CountInv, Counted
  <2>2. Waiting(j)' = Waiting(j) /\ Coming(j)' = Coming(j)
    BY <1>1, NothingTaken, NothingComes
  <2>3. Due(j) = 0 /\ Due(j)' = 0
    BY <1>1 DEF Due
  <2> QED BY <1>1, <2>1, <2>2, <2>3 DEF Balanced
<1> QED BY <1>4, <1>5, <1>6, <1>7 DEF CountInv, SessionsOK

\* Nothing that is counted changes.
LEMMA CountUnchanged ==
  ASSUME IInv, CountInv,
         UNCHANGED <<streamVars, conn, reply, who, lookup, running, asked>>,
         pc' = pc \/ (pc = "down" /\ pc' = "wait")
  PROVE  CountInv'
<1>1. SessionsOK'
  BY DEF CountInv, SessionsOK, SessionOK, BacklogOK, Connected, streamVars
<1>2. HandlerOK'
  BY DEF CountInv, HandlerOK
<1>3. \A k \in Sessions : Due(k)' = Due(k)
  BY DEF Due, IsAnswer, streamVars
<1>4. \A k \in Sessions : Waiting(k)' = Waiting(k) /\ Coming(k)' = Coming(k)
  BY NothingTaken, NothingComes DEF streamVars
<1>5. Counted'
  BY <1>3, <1>4 DEF CountInv, Counted, Balanced, Connected, streamVars
<1> QED BY <1>1, <1>2, <1>5 DEF CountInv

LEMMA ServerCount ==
  ASSUME IInv, CountInv, Server
  PROVE  CountInv'
<1>1. UNCHANGED userVars /\ ServerNext
  BY DEF Server
<1>2. ASSUME NEW k \in Sessions, Visit(k)
      PROVE  CountInv'
  BY <1>1, <1>2, RequestCounts, ClientIsDownCount, ExitCount DEF Visit, VisitFails
<1>3. CASE Continue
  BY <1>1, <1>3, WriteCounts, ExitCount DEF Continue, AnswerFails
<1>4. CASE Kill
  BY <1>1, <1>4, ExitCount DEF Kill
<1>5. CASE Restart
  BY <1>1, <1>5, CountUnchanged DEF Restart, handlerVars, userVars
<1> QED BY <1>1, <1>2, <1>3, <1>4, <1>5, IncomingCount DEF ServerNext

-----------------------------------------------------------------------------
(* Every request is answered once: the users                                *)

LEMMA StartCount ==
  ASSUME IInv, CountInv, UNCHANGED serverVars, NEW k \in Sessions, Start(k)
  PROVE  CountInv'
<1>1. /\ running[k] = "off" /\ backlog' = Append(backlog, k)
      /\ running' = [running EXCEPT ![k] = "on"]
      /\ UNCHANGED <<fd, toServer, toClient, ending>> /\ UNCHANGED asked
      /\ UNCHANGED <<pc, conn, reply, who, lookup>>
  BY DEF Start, Connect, serverVars
<1>2. /\ ~Connected(k) /\ toServer[k] = <<>> /\ toClient[k] = <<>> /\ asked[k] = 0
      /\ ending[k] = "open"
  BY <1>1 DEF CountInv, SessionsOK, SessionOK
<1>3. \A j \in Sessions : running'[j] = IF j = k THEN "on" ELSE running[j]
  BY <1>1 DEF IInv, UserTypeOK
<1>4. /\ backlog \in Seq(Sessions) /\ Len(backlog) \in Nat
      /\ DOMAIN backlog = 1 .. Len(backlog) /\ DOMAIN backlog' = 1 .. Len(backlog) + 1
      /\ \A i \in 1 .. Len(backlog) : backlog'[i] = backlog[i] /\ backlog[i] \in Sessions
      /\ backlog'[Len(backlog) + 1] = k
  BY <1>1, AppendPlaces, ElementOfSeq DEF IInv, ServerInv, StreamsInv, StreamsTypeOK
<1>5. \A i \in DOMAIN backlog' : i = Len(backlog) + 1 \/ i \in DOMAIN backlog
  BY <1>4
<1>6. \A j \in Sessions : j # k /\ Connected(j)' => Connected(j)
  BY <1>1, <1>4, <1>5 DEF Connected
<1>7. BacklogOK'
  <2>1. \A i \in DOMAIN backlog : backlog[i] # k
    BY <1>2 DEF Connected
  <2> QED BY <1>1, <1>2, <1>4, <1>5, <2>1 DEF CountInv, SessionsOK, BacklogOK, Connected
<1>8. \A j \in Sessions : SessionOK(j)'
  BY <1>1, <1>2, <1>3, <1>6 DEF CountInv, SessionsOK, SessionOK
<1>9. HandlerOK'
  BY <1>1 DEF CountInv, HandlerOK
<1>10. Counted'
  <2> SUFFICES ASSUME NEW j \in Sessions, Connected(j)', running'[j] = "on"
               PROVE  Balanced(j)'
    BY DEF Counted
  <2>1. Waiting(j)' = Waiting(j) /\ Coming(j)' = Coming(j) /\ Due(j)' = Due(j)
    BY <1>1, NothingTaken, NothingComes DEF Due, IsAnswer
  <2>2. CASE j = k
    <3>1. Waiting(k) = 0 /\ Coming(k) = 0
      BY <1>2, HitsEmpty DEF Waiting, Coming
    <3>2. Due(k) = 0
      BY <1>2 DEF Connected, Due, CountInv, HandlerOK
    <3> QED BY <1>1, <1>2, <2>1, <2>2, <3>1, <3>2 DEF Balanced
  <2>3. CASE j # k
    BY <1>1, <1>3, <1>6, <2>1, <2>3 DEF CountInv, Counted, Balanced
  <2> QED BY <2>2, <2>3
<1> QED BY <1>7, <1>8, <1>9, <1>10 DEF CountInv, SessionsOK

\* A command: what is asked for is one more if the frame asks for an answer.
LEMMA PutCount ==
  ASSUME IInv, CountInv, UNCHANGED serverVars, NEW k \in Sessions, running[k] = "on",
         NEW frame \in Requests, Put(k, frame), UNCHANGED running,
         asked' = [asked EXCEPT ![k] = IF frame.type \in Asks THEN @ + 1 ELSE @]
  PROVE  CountInv'
<1>1. /\ toServer' = [toServer EXCEPT ![k] = Append(@, frame)]
      /\ UNCHANGED <<fd, backlog, toClient, ending>>
      /\ UNCHANGED <<pc, conn, reply, who, lookup>>
  BY DEF Put, serverVars
<1>2. \A j \in Sessions :
        /\ toServer[j] \in Seq(Requests)
        /\ toServer'[j] = IF j = k THEN Append(toServer[j], frame) ELSE toServer[j]
        /\ asked[j] \in Int
        /\ asked'[j] = asked[j] + (IF j = k /\ frame.type \in Asks THEN 1 ELSE 0)
  BY <1>1 DEF IInv, ServerInv, StreamsInv, StreamsTypeOK, UserTypeOK
<1>3. BacklogOK' /\ HandlerOK'
  BY <1>1 DEF CountInv, SessionsOK, BacklogOK, HandlerOK
<1>4. ASSUME NEW j \in Sessions
      PROVE  SessionOK(j)'
  <2>1. Connected(j)' <=> Connected(j)
    BY <1>1 DEF Connected
  <2>2. SessionOK(j)
    BY DEF CountInv, SessionsOK
  <2>3. CASE j = k
    BY <1>1, <1>2, <2>1, <2>2, <2>3 DEF SessionOK
  <2>4. CASE j # k
    <3>1. asked'[j] = asked[j]
      BY <1>2, <2>4
    <3> QED BY <1>1, <1>2, <2>1, <2>2, <2>4, <3>1 DEF SessionOK
  <2> QED BY <2>3, <2>4
<1>5. Counted'
  <2> SUFFICES ASSUME NEW j \in Sessions, Connected(j)', running'[j] = "on"
               PROVE  Balanced(j)'
    BY DEF Counted
  <2>1. Balanced(j)
    BY <1>1 DEF CountInv, Counted, Connected
  <2>2. Coming(j)' = Coming(j) /\ Due(j)' = Due(j)
    BY <1>1, NothingComes DEF Due, IsAnswer
  <2>3. Waiting(j)' = Waiting(j) + (IF j = k /\ frame.type \in Asks THEN 1 ELSE 0)
    <3>1. frame \in AskFrames <=> frame.type \in Asks
      BY DEF AskFrames
    <3>2. Cardinality(Hits(Append(toServer[j], frame), AskFrames))
            = Waiting(j) + (IF frame \in AskFrames THEN 1 ELSE 0)
      BY <1>2, HitsAppend DEF Waiting
    <3>3. Waiting(j) \in Nat
      BY CountTypes DEF IInv, ServerInv
    <3> QED BY <1>2, <3>1, <3>2, <3>3 DEF Waiting
  <2>4. Waiting(j) \in Nat /\ Coming(j) \in Nat /\ Due(j) \in {0, 1}
    BY CountTypes DEF IInv, ServerInv
  <2> QED BY <1>2, <2>1, <2>2, <2>3, <2>4 DEF Balanced
<1> QED BY <1>3, <1>4, <1>5 DEF CountInv, SessionsOK

LEMMA CommandCounts ==
  ASSUME IInv, CountInv, UNCHANGED serverVars, NEW k \in Sessions,
         \/ registion(k) \/ log_in(k) \/ recoverPassword(k)
         \/ sendmsg(k) \/ p2p_request(k) \/ active(k)
  PROVE  CountInv'
<1>1. account[k] \in Names
  BY DEF IInv, UserTypeOK
<1>2. CASE registion(k)
  <2>1. PICK a \in Names, p \in Passwords, n \in Nicknames :
          Put(k, Frame("Registion", a, p, n, 0, 0, TRUE))
    BY <1>2 DEF registion
  <2>2. /\ Frame("Registion", a, p, n, 0, 0, TRUE) \in Requests
        /\ Frame("Registion", a, p, n, 0, 0, TRUE).type \in Asks
    BY ZeroType, FrameType DEF RequestTypes, Frame, Asks
  <2> QED BY <1>2, <2>1, <2>2, PutCount DEF registion, Asking, Typing
<1>3. CASE log_in(k)
  <2>1. PICK a \in Names, p \in Passwords :
          Put(k, Frame("LoginIn", a, p, 0, 0, 0, TRUE))
    BY <1>3 DEF log_in
  <2>2. /\ Frame("LoginIn", a, p, 0, 0, 0, TRUE) \in Requests
        /\ Frame("LoginIn", a, p, 0, 0, 0, TRUE).type \in Asks
    BY ZeroType, FrameType DEF RequestTypes, Frame, Asks
  <2> QED BY <1>3, <2>1, <2>2, PutCount DEF log_in, Asking, Typing
<1>4. CASE recoverPassword(k)
  <2>1. PICK a \in Names, p \in Passwords, n \in Nicknames :
          Put(k, Frame("RecoverPassword", a, p, n, 0, 0, TRUE))
    BY <1>4 DEF recoverPassword
  <2>2. /\ Frame("RecoverPassword", a, p, n, 0, 0, TRUE) \in Requests
        /\ Frame("RecoverPassword", a, p, n, 0, 0, TRUE).type \in Asks
    BY ZeroType, FrameType DEF RequestTypes, Frame, Asks
  <2> QED BY <1>4, <2>1, <2>2, PutCount DEF recoverPassword, Asking, Typing
<1>5. asked = [asked EXCEPT ![k] = @]
  BY DEF IInv, UserTypeOK
<1>6. CASE sendmsg(k)
  <2>1. PICK to \in Names :
          Put(k, Frame("SendMessage", account[k], 0, 0, to, lastMsg + 1, TRUE))
    BY <1>6 DEF sendmsg
  <2>2. lastMsg + 1 \in Messages
    BY <1>6, ChatAssumption DEF sendmsg, IInv, UserTypeOK, Messages
  <2>3. /\ Frame("SendMessage", account[k], 0, 0, to, lastMsg + 1, TRUE) \in Requests
        /\ Frame("SendMessage", account[k], 0, 0, to, lastMsg + 1, TRUE).type \notin Asks
    BY <1>1, <2>2, ZeroType, FrameType DEF RequestTypes, Frame, Asks
  <2> QED BY <1>5, <1>6, <2>1, <2>3, PutCount DEF sendmsg, Typing
<1>7. CASE p2p_request(k)
  <2>1. PICK to \in Names :
          Put(k, Frame("P2PRequest", account[k], 0, 0, to, 0, TRUE))
    BY <1>7 DEF p2p_request
  <2>2. /\ Frame("P2PRequest", account[k], 0, 0, to, 0, TRUE) \in Requests
        /\ Frame("P2PRequest", account[k], 0, 0, to, 0, TRUE).type \notin Asks
    BY <1>1, ZeroType, FrameType DEF RequestTypes, Frame, Asks
  <2> QED BY <1>5, <1>7, <2>1, <2>2, PutCount DEF p2p_request, Typing
<1>8. CASE active(k)
  <2>1. Put(k, Frame("FindActiveRequest", account[k], 0, 0, 0, 0, TRUE))
    BY <1>8 DEF active
  <2>2. /\ Frame("FindActiveRequest", account[k], 0, 0, 0, 0, TRUE) \in Requests
        /\ Frame("FindActiveRequest", account[k], 0, 0, 0, 0, TRUE).type \notin Asks
    BY <1>1, ZeroType, FrameType DEF RequestTypes, Frame, Asks
  <2> QED BY <1>5, <1>8, <2>1, <2>2, PutCount DEF active, Typing
<1> QED BY <1>2, <1>3, <1>4, <1>6, <1>7, <1>8

LEMMA VisitorCount ==
  ASSUME IInv, CountInv, UNCHANGED serverVars, NEW k \in Sessions, visitor(k)
  PROVE  CountInv'
<1>1. /\ running[k] = "on" /\ toClient[k] # <<>>
      /\ toClient' = [toClient EXCEPT ![k] = Tail(@)]
      /\ asked' = [asked EXCEPT ![k] = IF IsAnswer(Head(toClient[k])) THEN @ - 1 ELSE @]
      /\ UNCHANGED <<fd, backlog, toServer, ending>> /\ UNCHANGED running
      /\ UNCHANGED <<pc, conn, reply, who, lookup>>
  BY DEF visitor, Get, serverVars
<1>2. \A j \in Sessions :
        /\ toClient[j] \in Seq(Replies)
        /\ toClient'[j] = IF j = k THEN Tail(toClient[j]) ELSE toClient[j]
        /\ asked[j] \in Int
        /\ asked'[j] = asked[j] - (IF j = k /\ IsAnswer(Head(toClient[k])) THEN 1 ELSE 0)
  BY <1>1 DEF IInv, ServerInv, StreamsInv, StreamsTypeOK, UserTypeOK
<1>3. BacklogOK' /\ HandlerOK'
  BY <1>1 DEF CountInv, SessionsOK, BacklogOK, HandlerOK
<1>4. ASSUME NEW j \in Sessions
      PROVE  SessionOK(j)'
  <2>1. Connected(j)' <=> Connected(j)
    BY <1>1 DEF Connected
  <2>2. SessionOK(j)
    BY DEF CountInv, SessionsOK
  <2>3. CASE j = k
    BY <1>1, <1>2, <2>1, <2>2, <2>3 DEF SessionOK
  <2>4. CASE j # k
    <3>1. asked'[j] = asked[j]
      BY <1>2, <2>4
    <3> QED BY <1>1, <1>2, <2>1, <2>2, <2>4, <3>1 DEF SessionOK
  <2> QED BY <2>3, <2>4
<1>5. Counted'
  <2> SUFFICES ASSUME NEW j \in Sessions, Connected(j)', running'[j] = "on"
               PROVE  Balanced(j)'
    BY DEF Counted
  <2>1. Balanced(j)
    BY <1>1 DEF CountInv, Counted, Connected
  <2>2. Waiting(j)' = Waiting(j) /\ Due(j)' = Due(j)
    BY <1>1, NothingTaken DEF Due, IsAnswer
  <2>3. Coming(j)' = Coming(j) - (IF j = k /\ IsAnswer(Head(toClient[k])) THEN 1 ELSE 0)
    <3>1. Head(toClient[k]) \in AnswerFrames <=> IsAnswer(Head(toClient[k]))
      BY <1>1, <1>2, HeadTailProperties DEF AnswerFrames
    <3>2. Cardinality(Hits(Tail(toClient[k]), AnswerFrames))
            = Coming(k) - (IF Head(toClient[k]) \in AnswerFrames THEN 1 ELSE 0)
      BY <1>1, <1>2, HitsTail DEF Coming
    <3>3. Coming(j) \in Nat
      BY CountTypes DEF IInv, ServerInv
    <3>4. AnswerFrames' = AnswerFrames
      BY DEF AnswerFrames, IsAnswer, Replies
    <3> QED BY <1>2, <3>1, <3>2, <3>3, <3>4 DEF Coming
  <2>4. Waiting(j) \in Nat /\ Coming(j) \in Nat /\ Due(j) \in {0, 1}
    BY CountTypes DEF IInv, ServerInv
  <2> QED BY <1>2, <2>1, <2>2, <2>3, <2>4 DEF Balanced
<1> QED BY <1>3, <1>4, <1>5 DEF CountInv, SessionsOK

LEMMA LeaveCount ==
  ASSUME IInv, CountInv, UNCHANGED serverVars, NEW k \in Sessions, Leave(k)
  PROVE  CountInv'
<1>1. PICK rest : Hangup(k, rest)
  BY DEF Leave
<1>2. /\ running[k] = "on" /\ running' = [running EXCEPT ![k] = "left"]
      /\ \A j \in Sessions \ {k} : toServer'[j] = toServer[j] /\ toClient'[j] = toClient[j]
                                   /\ ending'[j] = ending[j]
      /\ toClient'[k] = <<>> /\ ending'[k] # "open"
      /\ UNCHANGED <<fd, backlog, asked>> /\ UNCHANGED <<pc, conn, reply, who, lookup>>
  BY <1>1 DEF Leave, Hangup, serverVars, IInv, ServerInv, StreamsInv, StreamsTypeOK
<1>3. \A j \in Sessions : running'[j] = IF j = k THEN "left" ELSE running[j]
  BY <1>2 DEF IInv, UserTypeOK
<1>4. \A j \in Sessions : Connected(j)' <=> Connected(j)
  BY <1>2 DEF Connected
<1>5. BacklogOK' /\ HandlerOK'
  BY <1>2 DEF CountInv, SessionsOK, BacklogOK, HandlerOK
<1>6. \A j \in Sessions : SessionOK(j)'
  BY <1>2, <1>3, <1>4 DEF CountInv, SessionsOK, SessionOK
<1>7. Counted'
  <2> SUFFICES ASSUME NEW j \in Sessions, Connected(j)', running'[j] = "on"
               PROVE  Balanced(j)'
    BY DEF Counted
  <2>1. j # k /\ Balanced(j)
    BY <1>3, <1>4 DEF CountInv, Counted
  <2>2. Waiting(j)' = Waiting(j) /\ Coming(j)' = Coming(j) /\ Due(j)' = Due(j)
    BY <1>2, <2>1 DEF Waiting, Coming, AskFrames, AnswerFrames, IsAnswer, Due
  <2> QED BY <1>2, <2>1, <2>2 DEF Balanced
<1> QED BY <1>5, <1>6, <1>7 DEF CountInv, SessionsOK

LEMMA CountInvariant == IInv /\ CountInv /\ [Next]_vars => CountInv'
<1> SUFFICES ASSUME IInv, CountInv, [Next]_vars PROVE CountInv'
  OBVIOUS
<1>1. CASE Users
  <2>1. UNCHANGED serverVars
    BY <1>1 DEF Users
  <2>2. PICK k \in Sessions :
          \/ Start(k) \/ Leave(k) \/ visitor(k)
          \/ registion(k) \/ log_in(k) \/ recoverPassword(k)
          \/ sendmsg(k) \/ p2p_request(k) \/ active(k)
    BY <1>1 DEF Users, UserNext
  <2> QED BY <2>1, <2>2, StartCount, LeaveCount, VisitorCount, CommandCounts
<1>2. CASE UNCHANGED vars
  BY <1>2, CountUnchanged DEF vars, serverVars, userVars
<1> QED BY <1>1, <1>2, ServerCount DEF Next

LEMMA CountInit == Init => CountInv
<1> SUFFICES ASSUME Init PROVE CountInv
  OBVIOUS
<1>1. /\ pc = "wait" /\ backlog = <<>>
      /\ \A k \in Sessions : /\ fd[k] = 0 /\ running[k] = "off" /\ ending[k] = "open"
                             /\ toServer[k] = <<>> /\ toClient[k] = <<>> /\ asked[k] = 0
  BY DEF Init, StreamsInit, ServerInit, UserInit
<1>2. DOMAIN backlog = {}
  BY <1>1
<1>3. \A k \in Sessions : ~Connected(k)
  BY <1>1, <1>2 DEF Connected
<1> QED BY <1>1, <1>2, <1>3 DEF CountInv, SessionsOK, BacklogOK, SessionOK, HandlerOK, Counted

\* Every register, login and recover is answered once, whoever leaves and
\* whatever descriptor is given to whom.
THEOREM AnsweredCorrect == Spec => []AnsweredOnce
<1>1. IInv /\ CountInv => AnsweredOnce
  BY CountedMeans DEF IInv, ServerInv, CountInv
<1> QED BY Invariance, CountInit, CountInvariant, <1>1, PTL DEF Spec

-----------------------------------------------------------------------------
(* Users who wait for the answer                                            *)

\* Users wait for an answer and log in once in a session, and no client ends
\* in the middle of a login: the server would take it for one with an empty
\* name.
OneLogin == Patient /\ "LoginIn" \notin Tears

\* A login that the server has not read is that of the user's account.
LoginsAsTyped ==
  \A k \in Sessions : \A i \in DOMAIN toServer[k] :
    toServer[k][i].type = "LoginIn" =>
      toServer[k][i].account = account[k] /\ toServer[k][i].pass = passwd[k]

\* The LoginReply has been read or is on its way.
Welcomed(k) ==
  logged[k] \/ \E i \in DOMAIN toClient[k] : toClient[k][i].type = "LoginReply"

InLookup(k) == fd[k] # 0 /\ \E a \in Names : lookup[a] = fd[k]

RelayTypes == {"SendMessage", "P2PRequest"}

GotRelay(k) == \E i \in DOMAIN toClient[k] : toClient[k][i].type \in RelayTypes

\* Before a session is in lookup its account may still change: afterwards the
\* user has been told, or is about to be, and does not log in again.
LoginSeen(k) ==
  running[k] = "on" =>
    /\ InLookup(k) => Welcomed(k) \/ (pc = "login" /\ conn = fd[k])
    /\ GotRelay(k) => Welcomed(k)

PatientInv ==
  /\ LoginsAsTyped
  /\ \A k \in Sessions : LoginSeen(k)
  /\ LookupIsTheUser
  /\ OnlyTheReceiver

\* An account is in lookup for one session, and a session for one account.
LEMMA LookupSession ==
  ASSUME IInv, LookupIsTheUser, NEW a \in Names, lookup[a] # 0
  PROVE  /\ password[a] # Absent
         /\ \E k \in Sessions :
              /\ fd[k] = lookup[a] /\ account[k] = a /\ passwd[k] = password[a]
              /\ \A j \in Sessions : fd[j] = lookup[a] => j = k
<1>1. PICK k \in Sessions : fd[k] = lookup[a] /\ account[k] = a /\ passwd[k] = password[a]
  BY DEF LookupIsTheUser
<1>2. passwd[k] \in Passwords
  BY DEF IInv, UserTypeOK
<1>3. passwd[k] # Absent
  BY <1>2, ChatAssumption DEF Passwords, Absent
<1>4. \A j \in Sessions : fd[j] = lookup[a] => j = k
  BY <1>1 DEF IInv, ServerInv, StreamsInv, OneEach
<1> QED BY <1>1, <1>3, <1>4

\* What the server may leave to read.
LEMMA LoginsKept ==
  ASSUME StreamsInv, LoginsAsTyped, UNCHANGED <<account, passwd>>,
         \A j \in Sessions :
           \/ toServer'[j] \in {toServer[j], <<>>}
           \/ toServer[j] # <<>> /\ toServer'[j] = Tail(toServer[j])
  PROVE  LoginsAsTyped'
<1> SUFFICES ASSUME NEW j \in Sessions, NEW i \in DOMAIN toServer'[j]
             PROVE  \E h \in DOMAIN toServer[j] : toServer'[j][i] = toServer[j][h]
  BY DEF LoginsAsTyped
<1>1. toServer[j] \in Seq(Requests)
  BY DEF StreamsInv, StreamsTypeOK
<1>2. CASE toServer[j] # <<>> /\ toServer'[j] = Tail(toServer[j])
  <2>1. /\ DOMAIN toServer'[j] = 1 .. Len(toServer[j]) - 1 /\ Len(toServer[j]) \in Nat
        /\ DOMAIN toServer[j] = 1 .. Len(toServer[j])
        /\ \A h \in 1 .. Len(toServer[j]) - 1 : toServer'[j][h] = toServer[j][h + 1]
    BY <1>1, <1>2, HeadTailProperties, LenProperties
  <2>2. i + 1 \in DOMAIN toServer[j] /\ toServer'[j][i] = toServer[j][i + 1]
    BY <2>1
  <2> QED BY <2>2
<1>3. CASE toServer'[j] = <<>>
  <2>1. DOMAIN toServer'[j] = {}
    BY <1>3
  <2> QED BY <2>1
<1>4. CASE toServer'[j] = toServer[j]
  BY <1>4
<1> QED BY <1>2, <1>3, <1>4

LEMMA TakeLeaves ==
  ASSUME StreamsInv, NEW k \in Sessions, toServer[k] # <<>>, TakeFrame(k)
  PROVE  \A j \in Sessions :
           \/ toServer'[j] \in {toServer[j], <<>>}
           \/ toServer[j] # <<>> /\ toServer'[j] = Tail(toServer[j])
BY DEF TakeFrame, StreamsInv, StreamsTypeOK

\* What a write leaves true of a session.
LEMMA SendSeen ==
  ASSUME IInv, CountInv, UNCHANGED userVars, NEW j \in Sessions, NEW f, f # 0,
         NEW frame \in Replies, Send(f, frame)
  PROVE  /\ Welcomed(j) => Welcomed(j)'
         /\ fd[j] = f /\ running[j] = "on" /\ frame.type = "LoginReply" => Welcomed(j)'
         /\ GotRelay(j)' => GotRelay(j) \/ (fd[j] = f /\ frame.type \in RelayTypes)
         /\ \A i \in DOMAIN toClient'[j] :
              \/ i \in DOMAIN toClient[j] /\ toClient'[j][i] = toClient[j][i]
              \/ fd[j] = f /\ running[j] = "on" /\ toClient'[j][i] = frame
<1>1. toClient[j] \in Seq(Replies) /\ UNCHANGED logged
  BY DEF IInv, ServerInv, StreamsInv, StreamsTypeOK, userVars
<1>2. toClient'[j] = IF fd[j] = f /\ running[j] = "on"
                     THEN Append(toClient[j], frame) ELSE toClient[j]
  BY SendEffect DEF IInv, ServerInv, CountInv, SessionsOK
<1>3. CASE fd[j] = f /\ running[j] = "on"
  <2>1. /\ toClient'[j] = Append(toClient[j], frame)
        /\ DOMAIN toClient[j] = 1 .. Len(toClient[j]) /\ Len(toClient[j]) \in Nat
        /\ DOMAIN toClient'[j] = 1 .. Len(toClient[j]) + 1
        /\ \A i \in 1 .. Len(toClient[j]) : toClient'[j][i] = toClient[j][i]
        /\ toClient'[j][Len(toClient[j]) + 1] = frame
    BY <1>1, <1>2, <1>3, AppendPlaces
  <2>2. \A i \in DOMAIN toClient'[j] :
          i \in DOMAIN toClient[j] \/ i = Len(toClient[j]) + 1
    BY <2>1
  <2>3. DOMAIN toClient[j] \subseteq DOMAIN toClient'[j]
        /\ Len(toClient[j]) + 1 \in DOMAIN toClient'[j]
    BY <2>1
  <2> QED BY <1>1, <1>3, <2>1, <2>2, <2>3 DEF Welcomed, GotRelay
<1>4. CASE ~(fd[j] = f /\ running[j] = "on")
  BY <1>1, <1>2, <1>4 DEF Welcomed, GotRelay
<1> QED BY <1>3, <1>4

LEMMA NoSendSeen ==
  ASSUME UNCHANGED userVars, UNCHANGED toClient, NEW j \in Sessions
  PROVE  Welcomed(j)' = Welcomed(j) /\ GotRelay(j)' = GotRelay(j)
BY DEF Welcomed, GotRelay, userVars

\* A frame that the server may write to f: a request or a message of another
\* user goes to the session that lookup has for its receiver.
ForReceiver(f, frame) ==
  frame.type \in RelayTypes =>
    pc # "login" /\ \E a \in Names : lookup[a] = f /\ frame.receiver = a

\* A step of the server that changes neither lookup nor a descriptor.
LEMMA PatientStep ==
  ASSUME IInv, CountInv, PatientInv, UNCHANGED userVars, UNCHANGED <<fd, lookup>>,
         \A a \in Names : lookup[a] # 0 => password'[a] = password[a],
         \A j \in Sessions :
           \/ toServer'[j] \in {toServer[j], <<>>}
           \/ toServer[j] # <<>> /\ toServer'[j] = Tail(toServer[j]),
         \/ UNCHANGED <<toClient, ending>> /\ pc # "login"
         \/ \E f \in 1 .. MaxFd, frame \in Replies :
              /\ Send(f, frame) /\ ForReceiver(f, frame)
              /\ pc = "login" => f = conn /\ frame = Welcome
  PROVE  PatientInv'
<1> USE DEF PatientInv
<1>1. LoginsAsTyped'
  BY LoginsKept DEF IInv, ServerInv, userVars
<1>2. LookupIsTheUser'
  BY DEF LookupIsTheUser, userVars
<1>3. CASE UNCHANGED <<toClient, ending>> /\ pc # "login"
  <2>1. OnlyTheReceiver'
    BY <1>3 DEF OnlyTheReceiver, userVars
  <2>2. ASSUME NEW j \in Sessions
        PROVE  LoginSeen(j)'
    BY <1>3, NoSendSeen DEF LoginSeen, InLookup, userVars
  <2> QED BY <1>1, <1>2, <2>1, <2>2
<1>4. ASSUME NEW f \in 1 .. MaxFd, NEW frame \in Replies,
             Send(f, frame), ForReceiver(f, frame),
             pc = "login" => f = conn /\ frame = Welcome
      PROVE  PatientInv'
  <2>1. f # 0 /\ UNCHANGED <<account, running, logged>>
    BY ChatAssumption DEF userVars
  <2>2. ASSUME NEW j \in Sessions, fd[j] = f, frame.type \in RelayTypes
        PROVE  pc # "login" /\ InLookup(j) /\ frame.receiver = account[j]
    <3>1. PICK a \in Names : lookup[a] = f /\ frame.receiver = a /\ pc # "login"
      BY <1>4, <2>2 DEF ForReceiver
    <3>2. account[j] = a
      BY <2>1, <2>2, <3>1, LookupSession
    <3> QED BY <2>1, <2>2, <3>1, <3>2 DEF InLookup
  <2>3. OnlyTheReceiver'
    <3> SUFFICES ASSUME NEW j \in Sessions, NEW i \in DOMAIN toClient'[j],
                        toClient'[j][i].type \in RelayTypes
                 PROVE  toClient'[j][i].receiver = account[j]
      BY <2>1 DEF OnlyTheReceiver, RelayTypes
    <3>1. CASE i \in DOMAIN toClient[j] /\ toClient'[j][i] = toClient[j][i]
      BY <3>1 DEF OnlyTheReceiver, RelayTypes
    <3>2. CASE fd[j] = f /\ toClient'[j][i] = frame
      BY <2>2, <3>2
    <3>3. \A h \in DOMAIN toClient'[j] :
            \/ h \in DOMAIN toClient[j] /\ toClient'[j][h] = toClient[j][h]
            \/ fd[j] = f /\ running[j] = "on" /\ toClient'[j][h] = frame
      BY <1>4, <2>1, SendSeen
    <3> QED BY <3>1, <3>2, <3>3
  <2>4. ASSUME NEW j \in Sessions
        PROVE  LoginSeen(j)'
    <3> SUFFICES ASSUME running[j] = "on"
                 PROVE  /\ InLookup(j) => Welcomed(j)'
                        /\ GotRelay(j)' => Welcomed(j)'
      BY <2>1 DEF LoginSeen, InLookup
    <3>1. LoginSeen(j) /\ (Welcomed(j) => Welcomed(j)')
      BY <1>4, <2>1, SendSeen
    <3>2. InLookup(j) => Welcomed(j)'
      <4>1. CASE pc = "login" /\ conn = fd[j]
        <5>1. f = fd[j] /\ frame.type = "LoginReply"
          BY <1>4, <4>1 DEF Welcome
        <5>2. Welcomed(j)'
          BY <1>4, <2>1, <5>1, SendSeen
        <5> QED BY <5>2
      <4> QED BY <3>1, <4>1 DEF LoginSeen
    <3>3. GotRelay(j)' => GotRelay(j) \/ (fd[j] = f /\ frame.type \in RelayTypes)
      BY <1>4, <2>1, SendSeen
    <3> QED BY <2>2, <3>1, <3>2, <3>3 DEF LoginSeen
  <2> QED BY <1>1, <1>2, <2>3, <2>4
<1> QED BY <1>3, <1>4

LEMMA RequestPatient ==
  ASSUME IInv, CountInv, PatientInv, UNCHANGED userVars, NEW k \in Sessions,
         \/ Registion(k) \/ SendMessage(k) \/ P2PRequest(k)
         \/ RecoverPassword(k) \/ FindActiveRequest(k)
         \/ LoginIn(k) /\ ~LoginGranted(Request(k))
  PROVE  PatientInv'
<1> DEFINE q == Request(k)
<1>1. PICK type : Read(k, type)
  BY DEF Registion, SendMessage, P2PRequest, RecoverPassword, FindActiveRequest, LoginIn
<1>2. /\ pc = "wait" /\ UNCHANGED <<fd, backlog>>
      /\ q \in Requests /\ q.receiver \in Names /\ q.account \in Names
  BY <1>1, ReadFacts, AccountFields
<1>3. \A j \in Sessions :
        \/ toServer'[j] \in {toServer[j], <<>>}
        \/ toServer[j] # <<>> /\ toServer'[j] = Tail(toServer[j])
  BY <1>1, ReadFacts, TakeLeaves
<1>4. UNCHANGED lookup
  BY DEF Registion, SendMessage, P2PRequest, RecoverPassword, FindActiveRequest, LoginIn
<1>5. \A a \in Names : lookup[a] # 0 => password'[a] = password[a]
  <2>1. CASE Registion(k)
    <3>1. \A a \in Names : lookup[a] # 0 => password[a] # Absent
      BY LookupSession DEF PatientInv
    <3> HIDE DEF q
    <3>2. password' = password
          \/ (password[q.account] = Absent
              /\ password' = [password EXCEPT ![q.account] = q.pass])
      BY <2>1 DEF Registion, q
    <3> QED BY <1>2, <3>1, <3>2 DEF IInv, ServerInv, TableTypeOK
  <2>2. CASE RecoverPassword(k)
    <3> HIDE DEF q
    <3>1. password' = password
          \/ (lookup[q.account] = 0
              /\ password' = [password EXCEPT ![q.account] = q.pass])
      BY <2>2 DEF RecoverPassword, RecoverGranted, q
    <3> QED BY <1>2, <3>1 DEF IInv, ServerInv, TableTypeOK
  <2>3. CASE ~Registion(k) /\ ~RecoverPassword(k)
    BY <2>3 DEF SendMessage, P2PRequest, FindActiveRequest, LoginIn, tableVars
  <2> QED BY <2>1, <2>2, <2>3
<1>6. \/ UNCHANGED <<toClient, ending>>
      \/ \E f \in 1 .. MaxFd, frame \in Replies :
           Send(f, frame) /\ ForReceiver(f, frame)
  <2>1. CASE SendMessage(k) /\ lookup[q.receiver] # 0
    <3> DEFINE m == Message(q.msg, q.account, q.receiver, "whole")
    <3>1. Send(lookup[q.receiver], m)
      BY <2>1 DEF SendMessage
    <3>2. m \in Replies
      BY <1>2, AccountFields, MessageType
    <3>3. ForReceiver(lookup[q.receiver], m)
      BY <1>2 DEF ForReceiver, Message
    <3> QED BY <1>2, <2>1, <3>1, <3>2, <3>3, LookupType
  <2>2. CASE P2PRequest(k) /\ lookup[q.receiver] # 0
    <3>1. Send(lookup[q.receiver], Relay(q))
      BY <2>2 DEF P2PRequest
    <3>2. Relay(q) \in Replies
      BY <1>2, RelayType
    <3>3. ForReceiver(lookup[q.receiver], Relay(q))
      BY <1>2 DEF ForReceiver, Relay
    <3> QED BY <1>2, <2>2, <3>1, <3>2, <3>3, LookupType
  <2>3. CASE ~(SendMessage(k) /\ lookup[q.receiver] # 0)
             /\ ~(P2PRequest(k) /\ lookup[q.receiver] # 0)
    BY <2>3 DEF Registion, SendMessage, P2PRequest, RecoverPassword, FindActiveRequest,
                LoginIn, AnswerWith
  <2> QED BY <2>1, <2>2, <2>3
<1> QED BY <1>2, <1>3, <1>4, <1>5, <1>6, PatientStep

LEMMA LoginPatient ==
  ASSUME IInv, CountInv, PatientInv, UNCHANGED userVars, NEW k \in Sessions,
         LoginIn(k), LoginGranted(Request(k))
  PROVE  PatientInv'
<1> USE DEF PatientInv
<1> DEFINE q == Request(k)
           a == q.account
<1>1. /\ Read(k, "LoginIn") /\ lookup' = [lookup EXCEPT ![a] = fd[k]]
      /\ pc' = "login" /\ conn' = fd[k]
      /\ UNCHANGED <<toClient, ending>> /\ UNCHANGED password
  BY DEF LoginIn, tableVars
<1>2. /\ pc = "wait" /\ fd[k] \in 1 .. MaxFd /\ UNCHANGED <<fd, backlog>>
      /\ toServer[k] # <<>> /\ TakeFrame(k) /\ q.type = "LoginIn" /\ a \in Names
  BY <1>1, ReadFacts, AccountFields
<1>3. a = account[k] /\ q.pass = passwd[k] /\ password[a] = q.pass
  <2>1. toServer[k] \in Seq(Requests) /\ 1 \in DOMAIN toServer[k] /\ q = toServer[k][1]
    BY <1>2, LenProperties, EmptySeq DEF Request, IInv, ServerInv, StreamsInv, StreamsTypeOK
  <2> QED BY <1>2, <2>1 DEF LoginsAsTyped, LoginGranted
<1>4. LoginsAsTyped'
  BY <1>2, TakeLeaves, LoginsKept DEF IInv, ServerInv, userVars
<1>5. OnlyTheReceiver'
  BY <1>1 DEF OnlyTheReceiver, userVars
<1> HIDE DEF q
<1>6. \A b \in Names : lookup'[b] = IF b = a THEN fd[k] ELSE lookup[b]
  BY <1>1, <1>2 DEF IInv, ServerInv, TableTypeOK
<1>7. LookupIsTheUser'
  BY <1>1, <1>2, <1>3, <1>6 DEF LookupIsTheUser, userVars
<1>8. ASSUME NEW j \in Sessions
      PROVE  LoginSeen(j)'
  <2>1. InLookup(j)' => InLookup(j) \/ fd[j] = fd[k]
    BY <1>2, <1>6 DEF InLookup
  <2> QED BY <1>1, <1>2, <2>1, NoSendSeen DEF LoginSeen, userVars
<1> QED BY <1>4, <1>5, <1>7, <1>8

LEMMA WritePatient ==
  ASSUME IInv, CountInv, PatientInv, UNCHANGED userVars,
         \/ SendReply \/ SendWelcome \/ SendOffline \/ DeleteOffline
         \/ SendActive \/ ActiveDone
  PROVE  PatientInv'
<1>1. UNCHANGED <<fd, lookup, password, toServer>>
  BY DEF SendReply, SendWelcome, SendOffline, DeleteOffline, SendActive, ActiveDone,
         streamVars, tableVars
<1>2. CASE DeleteOffline \/ ActiveDone
  <2>1. UNCHANGED <<toClient, ending>> /\ pc # "login"
    BY <1>2 DEF DeleteOffline, ActiveDone, streamVars
  <2> QED BY <1>1, <2>1, PatientStep
<1>3. CASE SendReply \/ SendWelcome \/ SendOffline \/ SendActive
  <2>1. PICK frame \in Replies :
          /\ Send(conn, frame) /\ ForReceiver(conn, frame)
          /\ pc = "login" => frame = Welcome
    <3>1. CASE SendReply
      <4>1. reply \in Replies /\ reply.type = "OpStatus" /\ pc = "reply" /\ Send(conn, reply)
        BY <3>1 DEF SendReply, IInv, ServerInv, HandlerTypeOK, CountInv, HandlerOK
      <4> QED BY <4>1 DEF ForReceiver, RelayTypes
    <3>2. CASE SendWelcome
      <4>1. Send(conn, Welcome) /\ ForReceiver(conn, Welcome)
        BY <3>2 DEF SendWelcome, ForReceiver, RelayTypes, Welcome
      <4> QED BY <4>1, WelcomeType
    <3>3. CASE SendOffline
      <4> DEFINE m == FromTable(who, mail[who][row])
      <4>1. pc = "offline" /\ row <= Len(mail[who]) /\ Send(conn, m)
        BY <3>3 DEF SendOffline, NextRow
      <4>2. m \in Replies /\ who \in Names
        BY <4>1, RowType
      <4>3. m.receiver = who /\ lookup[who] = conn
        BY <4>1 DEF FromTable, Message, CountInv, HandlerOK
      <4> QED BY <4>1, <4>2, <4>3 DEF ForReceiver
    <3>4. CASE SendActive
      <4>1. PICK a \in actives : Send(conn, Active(a)) /\ pc = "active"
        BY <3>4 DEF SendActive
      <4>2. Active(a) \in Replies /\ ForReceiver(conn, Active(a))
        BY ActiveType
           DEF IInv, ServerInv, HandlerTypeOK, ForReceiver, RelayTypes, Active
      <4> QED BY <4>1, <4>2
    <3> QED BY <1>3, <3>1, <3>2, <3>3, <3>4
  <2>2. conn \in 1 .. MaxFd
    <3>1. conn # 0
      BY <1>3 DEF SendReply, SendWelcome, SendOffline, SendActive, CountInv, HandlerOK
    <3> QED BY <3>1, ChatAssumption DEF IInv, ServerInv, HandlerTypeOK
  <2> QED BY <1>1, <2>1, <2>2, PatientStep
<1> QED BY <1>2, <1>3

LEMMA ExitPatient ==
  ASSUME IInv, PatientInv, UNCHANGED userVars, Exit
  PROVE  PatientInv'
<1> USE DEF PatientInv
<1>1. /\ pc' = "down" /\ fd' = [k \in Sessions |-> 0]
      /\ toServer' = [k \in Sessions |-> <<>>] /\ lookup' = [a \in Names |-> 0]
      /\ UNCHANGED <<toClient, ending>>
  BY DEF Exit, CloseAll
<1>2. LoginsAsTyped'
  BY <1>1, LoginsKept DEF IInv, ServerInv, userVars
<1>3. LookupIsTheUser' /\ OnlyTheReceiver'
  BY <1>1 DEF LookupIsTheUser, OnlyTheReceiver, userVars
<1>4. ASSUME NEW j \in Sessions
      PROVE  LoginSeen(j)'
  BY <1>1, NoSendSeen DEF LoginSeen, InLookup, userVars
<1> QED BY <1>2, <1>3, <1>4

\* A session gets a descriptor that lookup has for nobody.
LEMMA IncomingPatient ==
  ASSUME IInv, CountInv, PatientInv, UNCHANGED userVars, Incoming
  PROVE  PatientInv'
<1> USE DEF PatientInv
<1> DEFINE h == Head(backlog)
<1>1. /\ pc = "wait" /\ backlog # <<>> /\ FreeFds # {}
      /\ fd' = [fd EXCEPT ![h] = LowestFree]
      /\ UNCHANGED <<toServer, toClient, ending>>
      /\ UNCHANGED <<pc, conn, lookup, password>>
  BY DEF Incoming, Accept, serverVars, tableVars
<1>2. LowestFree # 0 /\ \A k \in Sessions : fd[k] # LowestFree
  BY <1>1, LowestType, ChatAssumption DEF FreeFds
<1>3. h \in Sessions /\ fd[h] = 0
  <2>1. backlog \in Seq(Sessions) /\ 1 \in DOMAIN backlog /\ h = backlog[1]
    BY <1>1, LenProperties, EmptySeq DEF IInv, ServerInv, StreamsInv, StreamsTypeOK
  <2>2. h \in Sessions
    BY <1>1, <2>1, HeadTailProperties
  <2> QED BY <2>1, <2>2 DEF CountInv, SessionsOK, BacklogOK
<1> HIDE DEF h
<1>4. \A k \in Sessions : fd'[k] = IF k = h THEN LowestFree ELSE fd[k]
  BY <1>1, <1>3 DEF IInv, ServerInv, StreamsInv, StreamsTypeOK
<1>5. \A a \in Names : lookup[a] # LowestFree
  BY <1>2 DEF LookupIsTheUser
<1>6. LookupIsTheUser'
  BY <1>1, <1>3, <1>4 DEF LookupIsTheUser, userVars
<1>7. LoginsAsTyped' /\ OnlyTheReceiver'
  BY <1>1 DEF LoginsAsTyped, OnlyTheReceiver, userVars
<1>8. ASSUME NEW j \in Sessions
      PROVE  LoginSeen(j)'
  <2>1. InLookup(j)' => InLookup(j) /\ fd'[j] = fd[j]
    BY <1>1, <1>4, <1>5 DEF InLookup
  <2> QED BY <1>1, <2>1, NoSendSeen DEF LoginSeen, userVars
<1> QED BY <1>6, <1>7, <1>8

\* The entry of a session that has left is the only one with its descriptor,
\* so that the loop that ends with the first one leaves none.
LEMMA ClientIsDownPatient ==
  ASSUME IInv, CountInv, PatientInv, UNCHANGED userVars, NEW k \in Sessions, ClientIsDown(k)
  PROVE  PatientInv'
<1> USE DEF PatientInv
<1>1. /\ pc = "wait" /\ fd' = [fd EXCEPT ![k] = 0]
      /\ lookup' = [a \in Names |-> IF a \in FirstOf(fd[k]) THEN 0 ELSE lookup[a]]
      /\ UNCHANGED <<toServer, toClient, ending>> /\ UNCHANGED <<pc, conn, password>>
      /\ UNCHANGED userVars
  BY DEF ClientIsDown, CloseFd, Forget, AtEof, handlerVars, tableVars
<1>2. \A j \in Sessions : fd'[j] = IF j = k THEN 0 ELSE fd[j]
  BY <1>1 DEF IInv, ServerInv, StreamsInv, StreamsTypeOK
<1>3. ASSUME NEW a \in Names, lookup[a] = fd[k], fd[k] # 0
      PROVE  a \in FirstOf(fd[k])
  <2>1. \A b \in Names : lookup[b] = fd[k] => b = account[k]
    BY <1>3, LookupSession
  <2>2. a <= a
    BY ChatAssumption DEF Names
  <2> QED BY <1>3, <2>1, <2>2 DEF FirstOf
<1>4. \A a \in Names : lookup'[a] # 0 => lookup'[a] = lookup[a] /\ lookup[a] # fd[k]
  BY <1>1, <1>3
<1>5. LookupIsTheUser'
  <2> SUFFICES ASSUME NEW a \in Names, lookup'[a] # 0
               PROVE  \E j \in Sessions : /\ fd'[j] = lookup'[a] /\ account[j] = a
                                          /\ passwd[j] = password[a]
    BY <1>1 DEF LookupIsTheUser, userVars
  <2>1. PICK j \in Sessions : fd[j] = lookup[a] /\ account[j] = a /\ passwd[j] = password[a]
    BY <1>4 DEF LookupIsTheUser
  <2> QED BY <1>2, <1>4, <2>1
<1>6. LoginsAsTyped' /\ OnlyTheReceiver'
  BY <1>1 DEF LoginsAsTyped, OnlyTheReceiver, userVars
<1>7. ASSUME NEW j \in Sessions
      PROVE  LoginSeen(j)'
  <2>1. InLookup(j)' => InLookup(j) /\ fd'[j] = fd[j]
    BY <1>2, <1>4 DEF InLookup
  <2> QED BY <1>1, <2>1, NoSendSeen DEF LoginSeen, userVars
<1> QED BY <1>5, <1>6, <1>7

LEMMA PatientUnchanged ==
  ASSUME PatientInv, UNCHANGED <<streamVars, conn, lookup, password, userVars>>,
         pc' = pc \/ (pc = "down" /\ pc' = "wait")
  PROVE  PatientInv'
<1>1. ASSUME NEW j \in Sessions
      PROVE  LoginSeen(j)'
  <2>1. LoginSeen(j)
    BY DEF PatientInv
  <2> QED BY <2>1, NoSendSeen DEF streamVars, LoginSeen, InLookup, userVars
<1>2. LoginsAsTyped' /\ LookupIsTheUser' /\ OnlyTheReceiver'
  BY DEF PatientInv, LoginsAsTyped, LookupIsTheUser, OnlyTheReceiver, streamVars, userVars
<1> QED BY <1>1, <1>2 DEF PatientInv

LEMMA ServerPatient ==
  ASSUME IInv, CountInv, PatientInv, Server
  PROVE  PatientInv'
<1>1. UNCHANGED userVars /\ ServerNext
  BY DEF Server
<1>2. ASSUME NEW k \in Sessions, Visit(k)
      PROVE  PatientInv'
  BY <1>1, <1>2, RequestPatient, LoginPatient, ClientIsDownPatient, ExitPatient
     DEF Visit, VisitFails
<1>3. CASE Continue
  BY <1>1, <1>3, WritePatient, ExitPatient DEF Continue, AnswerFails
<1>4. CASE Kill
  BY <1>1, <1>4, ExitPatient DEF Kill
<1>5. CASE Restart
  BY <1>1, <1>5, PatientUnchanged DEF Restart, handlerVars, tableVars
<1> QED BY <1>1, <1>2, <1>3, <1>4, <1>5, IncomingPatient DEF ServerNext

LEMMA HitsNone ==
  ASSUME NEW S, NEW s \in Seq(S), NEW T, Cardinality(Hits(s, T)) = 0
  PROVE  \A i \in DOMAIN s : s[i] \notin T
<1>1. IsFiniteSet(Hits(s, T))
  BY HitsFinite
<1>2. Hits(s, T) = {}
  BY <1>1, FS_EmptySet
<1> QED BY <1>2 DEF Hits

\* A user who is owed no answer and has read no LoginReply is not logged in:
\* no login is under way, and nobody has written to the session.
LEMMA NotLoggedIn ==
  ASSUME IInv, CountInv, PatientInv, NEW k \in Sessions,
         running[k] = "on", Connected(k), asked[k] = 0, ~logged[k]
  PROVE  /\ \A i \in DOMAIN toServer[k] : toServer[k][i].type # "LoginIn"
         /\ ~InLookup(k) /\ ~GotRelay(k)
<1>1. toServer[k] \in Seq(Requests) /\ toClient[k] \in Seq(Replies)
  BY DEF IInv, ServerInv, StreamsInv, StreamsTypeOK
<1>2. Waiting(k) = 0 /\ Coming(k) = 0 /\ Due(k) = 0
  <2>1. Waiting(k) \in Nat /\ Coming(k) \in Nat /\ Due(k) \in {0, 1}
    BY CountTypes DEF IInv, ServerInv
  <2>2. 0 = Waiting(k) + Coming(k) + Due(k)
    BY DEF CountInv, Counted, Balanced
  <2> QED BY <2>1, <2>2
<1>3. \A i \in DOMAIN toServer[k] : toServer[k][i].type # "LoginIn"
  <2>1. \A i \in DOMAIN toServer[k] : toServer[k][i] \in Requests \ AskFrames
    BY <1>1, <1>2, HitsNone DEF Waiting
  <2> QED BY <2>1 DEF AskFrames, Asks
<1>4. \A i \in DOMAIN toClient[k] : toClient[k][i].type # "LoginReply"
  <2>1. \A i \in DOMAIN toClient[k] : toClient[k][i] \in Replies \ AnswerFrames
    BY <1>1, <1>2, HitsNone DEF Coming
  <2> QED BY <2>1 DEF AnswerFrames, IsAnswer
<1>5. ~Welcomed(k)
  BY <1>4 DEF Welcomed
<1>6. ~(pc = "login" /\ conn = fd[k])
  BY <1>2 DEF Due
<1> QED BY <1>3, <1>5, <1>6 DEF PatientInv, LoginSeen

LEMMA LogInPatient ==
  ASSUME OneLogin, IInv, CountInv, PatientInv, UNCHANGED serverVars,
         NEW k \in Sessions, log_in(k)
  PROVE  PatientInv'
<1> USE DEF PatientInv
<1>1. PICK a \in Names, p \in Passwords :
        /\ account' = [account EXCEPT ![k] = a] /\ passwd' = [passwd EXCEPT ![k] = p]
        /\ Put(k, Frame("LoginIn", a, p, 0, 0, 0, TRUE))
  BY DEF log_in
<1> DEFINE frame == Frame("LoginIn", a, p, 0, 0, 0, TRUE)
<1>2. /\ toServer' = [toServer EXCEPT ![k] = Append(@, frame)] /\ Connected(k)
      /\ UNCHANGED <<fd, toClient, ending>> /\ UNCHANGED <<pc, conn, lookup, password>>
      /\ running[k] = "on" /\ asked[k] = 0 /\ ~logged[k] /\ UNCHANGED <<running, logged>>
  BY <1>1 DEF log_in, Asking, Typing, Put, serverVars, tableVars, OneLogin
<1>3. /\ \A i \in DOMAIN toServer[k] : toServer[k][i].type # "LoginIn"
      /\ ~InLookup(k) /\ ~GotRelay(k)
  BY <1>2, NotLoggedIn
<1>4. \A j \in Sessions : /\ account'[j] = IF j = k THEN a ELSE account[j]
                          /\ passwd'[j] = IF j = k THEN p ELSE passwd[j]
  BY <1>1 DEF IInv, UserTypeOK
<1>5. frame \in Requests /\ frame.account = a /\ frame.pass = p
  BY ZeroType, FrameType DEF RequestTypes, Frame
<1> HIDE DEF frame
<1>6. LoginsAsTyped'
  <2> SUFFICES ASSUME NEW j \in Sessions, NEW i \in DOMAIN toServer'[j],
                      toServer'[j][i].type = "LoginIn"
               PROVE  /\ toServer'[j][i].account = account'[j]
                      /\ toServer'[j][i].pass = passwd'[j]
    BY DEF LoginsAsTyped
  <2>1. toServer[j] \in Seq(Requests)
    BY DEF IInv, ServerInv, StreamsInv, StreamsTypeOK
  <2>2. CASE j = k
    <3>1. toServer'[k] = Append(toServer[k], frame)
      BY <1>2, <2>2 DEF IInv, ServerInv, StreamsInv, StreamsTypeOK
    <3>2. /\ DOMAIN toServer[k] = 1 .. Len(toServer[k]) /\ Len(toServer[k]) \in Nat
          /\ DOMAIN toServer'[k] = 1 .. Len(toServer[k]) + 1
          /\ \A h \in 1 .. Len(toServer[k]) : toServer'[k][h] = toServer[k][h]
          /\ toServer'[k][Len(toServer[k]) + 1] = frame
      BY <1>5, <2>1, <2>2, <3>1, AppendPlaces
    <3>3. i = Len(toServer[k]) + 1
      BY <1>3, <2>2, <3>2
    <3> QED BY <1>4, <1>5, <2>2, <3>2, <3>3
  <2>3. CASE j # k
    <3>1. toServer'[j] = toServer[j]
      BY <1>2, <2>3 DEF IInv, ServerInv, StreamsInv, StreamsTypeOK
    <3> QED BY <1>4, <2>3, <3>1 DEF LoginsAsTyped
  <2> QED BY <2>2, <2>3
<1>7. LookupIsTheUser'
  BY <1>2, <1>3, <1>4 DEF LookupIsTheUser, InLookup
<1>8. OnlyTheReceiver'
  BY <1>2, <1>3, <1>4 DEF OnlyTheReceiver, GotRelay, RelayTypes
<1>9. ASSUME NEW j \in Sessions
      PROVE  LoginSeen(j)'
  BY <1>2 DEF LoginSeen, InLookup, GotRelay, Welcomed
<1> QED BY <1>6, <1>7, <1>8, <1>9

\* A command that is no login.
LEMMA PutPatient ==
  ASSUME IInv, PatientInv, UNCHANGED serverVars, NEW k \in Sessions,
         NEW frame \in Requests, frame.type # "LoginIn", Put(k, frame),
         UNCHANGED <<account, passwd, running, logged>>
  PROVE  PatientInv'
<1> USE DEF PatientInv
<1>1. /\ toServer' = [toServer EXCEPT ![k] = Append(@, frame)]
      /\ UNCHANGED <<fd, toClient, ending>> /\ UNCHANGED <<pc, conn, lookup, password>>
  BY DEF Put, serverVars, tableVars
<1>2. LoginsAsTyped'
  <2> SUFFICES ASSUME NEW j \in Sessions, NEW i \in DOMAIN toServer'[j]
               PROVE  \/ toServer'[j][i] = frame
                      \/ i \in DOMAIN toServer[j] /\ toServer'[j][i] = toServer[j][i]
    BY DEF LoginsAsTyped
  <2>1. /\ toServer[j] \in Seq(Requests)
        /\ toServer'[j] = IF j = k THEN Append(toServer[j], frame) ELSE toServer[j]
    BY <1>1 DEF IInv, ServerInv, StreamsInv, StreamsTypeOK
  <2>2. CASE j = k
    <3>1. /\ DOMAIN toServer[j] = 1 .. Len(toServer[j]) /\ Len(toServer[j]) \in Nat
          /\ DOMAIN toServer'[j] = 1 .. Len(toServer[j]) + 1
          /\ \A h \in 1 .. Len(toServer[j]) : toServer'[j][h] = toServer[j][h]
          /\ toServer'[j][Len(toServer[j]) + 1] = frame
      BY <2>1, <2>2, AppendPlaces
    <3>2. i \in 1 .. Len(toServer[j]) \/ i = Len(toServer[j]) + 1
      BY <3>1
    <3> QED BY <3>1, <3>2
  <2> QED BY <2>1, <2>2
<1>3. LookupIsTheUser' /\ OnlyTheReceiver'
  BY <1>1 DEF LookupIsTheUser, OnlyTheReceiver
<1>4. ASSUME NEW j \in Sessions
      PROVE  LoginSeen(j)'
  BY <1>1 DEF LoginSeen, InLookup, GotRelay, Welcomed
<1> QED BY <1>2, <1>3, <1>4

LEMMA CommandPatient ==
  ASSUME OneLogin, IInv, CountInv, PatientInv, UNCHANGED serverVars, NEW k \in Sessions,
         \/ registion(k) \/ log_in(k) \/ recoverPassword(k)
         \/ sendmsg(k) \/ p2p_request(k) \/ active(k)
  PROVE  PatientInv'
<1>1. account[k] \in Names
  BY DEF IInv, UserTypeOK
<1>2. CASE registion(k)
  <2>1. PICK a \in Names, p \in Passwords, n \in Nicknames :
          Put(k, Frame("Registion", a, p, n, 0, 0, TRUE))
    BY <1>2 DEF registion
  <2>2. /\ Frame("Registion", a, p, n, 0, 0, TRUE) \in Requests
        /\ Frame("Registion", a, p, n, 0, 0, TRUE).type # "LoginIn"
    BY ZeroType, FrameType DEF RequestTypes, Frame
  <2> QED BY <1>2, <2>1, <2>2, PutPatient DEF registion, Asking, Typing
<1>3. CASE recoverPassword(k)
  <2>1. PICK a \in Names, p \in Passwords, n \in Nicknames :
          Put(k, Frame("RecoverPassword", a, p, n, 0, 0, TRUE))
    BY <1>3 DEF recoverPassword
  <2>2. /\ Frame("RecoverPassword", a, p, n, 0, 0, TRUE) \in Requests
        /\ Frame("RecoverPassword", a, p, n, 0, 0, TRUE).type # "LoginIn"
    BY ZeroType, FrameType DEF RequestTypes, Frame
  <2> QED BY <1>3, <2>1, <2>2, PutPatient DEF recoverPassword, Asking, Typing
<1>4. CASE sendmsg(k)
  <2>1. PICK to \in Names :
          Put(k, Frame("SendMessage", account[k], 0, 0, to, lastMsg + 1, TRUE))
    BY <1>4 DEF sendmsg
  <2>2. lastMsg + 1 \in Messages
    BY <1>4, ChatAssumption DEF sendmsg, IInv, UserTypeOK, Messages
  <2>3. /\ Frame("SendMessage", account[k], 0, 0, to, lastMsg + 1, TRUE) \in Requests
        /\ Frame("SendMessage", account[k], 0, 0, to, lastMsg + 1, TRUE).type # "LoginIn"
    BY <1>1, <2>2, ZeroType, FrameType DEF RequestTypes, Frame
  <2> QED BY <1>4, <2>1, <2>3, PutPatient DEF sendmsg, Typing
<1>5. CASE p2p_request(k)
  <2>1. PICK to \in Names :
          Put(k, Frame("P2PRequest", account[k], 0, 0, to, 0, TRUE))
    BY <1>5 DEF p2p_request
  <2>2. /\ Frame("P2PRequest", account[k], 0, 0, to, 0, TRUE) \in Requests
        /\ Frame("P2PRequest", account[k], 0, 0, to, 0, TRUE).type # "LoginIn"
    BY <1>1, ZeroType, FrameType DEF RequestTypes, Frame
  <2> QED BY <1>5, <2>1, <2>2, PutPatient DEF p2p_request, Typing
<1>6. CASE active(k)
  <2>1. Put(k, Frame("FindActiveRequest", account[k], 0, 0, 0, 0, TRUE))
    BY <1>6 DEF active
  <2>2. /\ Frame("FindActiveRequest", account[k], 0, 0, 0, 0, TRUE) \in Requests
        /\ Frame("FindActiveRequest", account[k], 0, 0, 0, 0, TRUE).type # "LoginIn"
    BY <1>1, ZeroType, FrameType DEF RequestTypes, Frame
  <2> QED BY <1>6, <2>1, <2>2, PutPatient DEF active, Typing
<1> QED BY <1>2, <1>3, <1>4, <1>5, <1>6, LogInPatient

LEMMA StartPatient ==
  ASSUME IInv, CountInv, PatientInv, UNCHANGED serverVars, NEW k \in Sessions, Start(k)
  PROVE  PatientInv'
<1> USE DEF PatientInv
<1>1. /\ running[k] = "off" /\ running' = [running EXCEPT ![k] = "on"]
      /\ UNCHANGED <<fd, toServer, toClient, ending>>
      /\ UNCHANGED <<pc, conn, lookup, password>> /\ UNCHANGED <<account, passwd, logged>>
  BY DEF Start, Connect, serverVars, tableVars
<1>2. LoginsAsTyped' /\ LookupIsTheUser' /\ OnlyTheReceiver'
  BY <1>1 DEF LoginsAsTyped, LookupIsTheUser, OnlyTheReceiver
<1>3. ASSUME NEW j \in Sessions
      PROVE  LoginSeen(j)'
  <2>1. CASE j = k
    <3>1. fd[k] = 0 /\ toClient[k] = <<>>
      BY <1>1 DEF CountInv, SessionsOK, SessionOK, Connected
    <3>2. ~InLookup(k)' /\ ~GotRelay(k)'
      BY <1>1, <3>1 DEF InLookup, GotRelay
    <3> QED BY <2>1, <3>2 DEF LoginSeen
  <2>2. CASE j # k
    <3>1. running'[j] = running[j]
      BY <1>1, <2>2 DEF IInv, UserTypeOK
    <3> QED BY <1>1, <3>1 DEF LoginSeen, InLookup, GotRelay, Welcomed
  <2> QED BY <2>1, <2>2
<1> QED BY <1>2, <1>3

LEMMA VisitorPatient ==
  ASSUME IInv, PatientInv, UNCHANGED serverVars, NEW k \in Sessions, visitor(k)
  PROVE  PatientInv'
<1> USE DEF PatientInv
<1>1. /\ toClient[k] # <<>> /\ toClient' = [toClient EXCEPT ![k] = Tail(@)]
      /\ logged' = [logged EXCEPT ![k] = @ \/ Head(toClient[k]).type = "LoginReply"]
      /\ UNCHANGED <<fd, toServer, ending>> /\ UNCHANGED <<pc, conn, lookup, password>>
      /\ UNCHANGED <<account, passwd, running>>
  BY DEF visitor, Get, serverVars, tableVars
<1>2. LoginsAsTyped' /\ LookupIsTheUser'
  BY <1>1 DEF LoginsAsTyped, LookupIsTheUser
<1>3. /\ toClient[k] \in Seq(Replies) /\ DOMAIN toClient[k] = 1 .. Len(toClient[k])
      /\ Len(toClient[k]) \in Nat \ {0} /\ Head(toClient[k]) = toClient[k][1]
      /\ DOMAIN toClient'[k] = 1 .. Len(toClient[k]) - 1
      /\ \A i \in 1 .. Len(toClient[k]) - 1 : toClient'[k][i] = toClient[k][i + 1]
  BY <1>1, HeadTailProperties, LenProperties, EmptySeq
     DEF IInv, ServerInv, StreamsInv, StreamsTypeOK
<1>4. \A i \in DOMAIN toClient'[k] :
        i + 1 \in DOMAIN toClient[k] /\ toClient'[k][i] = toClient[k][i + 1]
  BY <1>3
<1>5. \A i \in DOMAIN toClient[k] :
        i = 1 \/ (i - 1 \in DOMAIN toClient'[k] /\ toClient'[k][i - 1] = toClient[k][i])
  BY <1>3
<1>6. \A j \in Sessions : j # k => toClient'[j] = toClient[j] /\ logged'[j] = logged[j]
  BY <1>1 DEF IInv, ServerInv, StreamsInv, StreamsTypeOK, UserTypeOK
<1>7. OnlyTheReceiver'
  BY <1>1, <1>4, <1>6 DEF OnlyTheReceiver
<1>8. ASSUME NEW j \in Sessions
      PROVE  LoginSeen(j)'
  <2>1. CASE j = k
    <3>1. GotRelay(k)' => GotRelay(k)
      BY <1>4 DEF GotRelay
    <3>2. logged'[k] <=> logged[k] \/ toClient[k][1].type = "LoginReply"
      BY <1>1, <1>3 DEF IInv, UserTypeOK
    <3>3. Welcomed(k) => Welcomed(k)'
      BY <1>5, <3>2 DEF Welcomed
    <3> QED BY <1>1, <2>1, <3>1, <3>3 DEF LoginSeen, InLookup
  <2>2. CASE j # k
    BY <1>1, <1>6, <2>2 DEF LoginSeen, InLookup, GotRelay, Welcomed
  <2> QED BY <2>1, <2>2
<1> QED BY <1>2, <1>7, <1>8

LEMMA LeavePatient ==
  ASSUME OneLogin, IInv, PatientInv, UNCHANGED serverVars, NEW k \in Sessions, Leave(k)
  PROVE  PatientInv'
<1> USE DEF PatientInv
<1>1. PICK rest \in Seq(Requests) :
        /\ Hangup(k, rest) /\ \A i \in 1 .. Len(rest) : rest[i].type # "LoginIn"
  <2>1. CASE Hangup(k, <<>>)
    <3>1. <<>> \in Seq(Requests) /\ Len(<<>>) = 0
      BY EmptySeq
    <3>2. \A i \in 1 .. Len(<<>>) : <<>>[i].type # "LoginIn"
      BY <3>1
    <3> QED BY <2>1, <3>1, <3>2
  <2>2. ASSUME NEW t \in Tears, Hangup(k, <<Frame(t, 0, 0, 0, 0, 0, FALSE)>>)
        PROVE  \E rest \in Seq(Requests) :
                 /\ Hangup(k, rest) /\ \A i \in 1 .. Len(rest) : rest[i].type # "LoginIn"
    <3> DEFINE frame == Frame(t, 0, 0, 0, 0, 0, FALSE)
    <3>1. frame \in Requests /\ frame.type # "LoginIn"
      BY UserAssumption, ZeroType, FrameType DEF Frame, OneLogin
    <3> HIDE DEF frame
    <3>2. <<frame>> \in Seq(Requests) /\ Len(<<frame>>) = 1 /\ <<frame>>[1] = frame
      BY <3>1, SingletonSeq
    <3>3. \A i \in 1 .. Len(<<frame>>) : <<frame>>[i].type # "LoginIn"
      BY <3>1, <3>2
    <3> QED BY <2>2, <3>2, <3>3 DEF frame
  <2> QED BY <2>1, <2>2 DEF Leave
<1>2. /\ running[k] = "on" /\ running' = [running EXCEPT ![k] = "left"]
      /\ toClient' = [toClient EXCEPT ![k] = <<>>]
      /\ toServer' = [toServer EXCEPT ![k] = IF Connected(k) THEN @ \o rest ELSE @]
      /\ UNCHANGED <<fd, backlog>> /\ UNCHANGED <<pc, conn, lookup, password>>
      /\ UNCHANGED <<account, passwd, logged>>
  BY <1>1 DEF Leave, Hangup, serverVars, tableVars
<1>3. LoginsAsTyped'
  <2> SUFFICES ASSUME NEW j \in Sessions, NEW i \in DOMAIN toServer'[j]
               PROVE  \/ toServer'[j][i].type # "LoginIn"
                      \/ i \in DOMAIN toServer[j] /\ toServer'[j][i] = toServer[j][i]
    BY <1>2 DEF LoginsAsTyped
  <2>1. toServer[j] \in Seq(Requests)
    BY DEF IInv, ServerInv, StreamsInv, StreamsTypeOK
  <2>2. CASE j = k /\ Connected(k)
    <3>1. toServer'[j] = toServer[j] \o rest
      BY <1>2, <2>2 DEF IInv, ServerInv, StreamsInv, StreamsTypeOK
    <3>2. /\ Len(toServer[j]) \in Nat /\ Len(rest) \in Nat
          /\ DOMAIN toServer[j] = 1 .. Len(toServer[j])
          /\ toServer'[j] \in Seq(Requests)
          /\ Len(toServer'[j]) = Len(toServer[j]) + Len(rest)
          /\ \A h \in 1 .. Len(toServer[j]) + Len(rest) :
               toServer'[j][h] = IF h <= Len(toServer[j]) THEN toServer[j][h]
                                 ELSE rest[h - Len(toServer[j])]
      BY <1>1, <2>1, <3>1, ConcatProperties, LenProperties
    <3>3. i \in 1 .. Len(toServer[j]) + Len(rest)
      BY <3>2, LenProperties
    <3>4. CASE i <= Len(toServer[j])
      BY <3>2, <3>3, <3>4
    <3>5. CASE ~(i <= Len(toServer[j]))
      <4>1. i - Len(toServer[j]) \in 1 .. Len(rest)
        BY <3>2, <3>3, <3>5
      <4> QED BY <1>1, <3>2, <3>3, <3>5, <4>1
    <3> QED BY <3>4, <3>5
  <2>3. CASE ~(j = k /\ Connected(k))
    <3>1. toServer'[j] = toServer[j]
      BY <1>2, <2>3 DEF IInv, ServerInv, StreamsInv, StreamsTypeOK
    <3> QED BY <3>1
  <2> QED BY <2>2, <2>3
<1>4. \A j \in Sessions : /\ toClient'[j] = IF j = k THEN <<>> ELSE toClient[j]
                          /\ running'[j] = IF j = k THEN "left" ELSE running[j]
  BY <1>2 DEF IInv, UserTypeOK, ServerInv, StreamsInv, StreamsTypeOK
<1>5. LookupIsTheUser' /\ OnlyTheReceiver'
  BY <1>2, <1>4 DEF LookupIsTheUser, OnlyTheReceiver
<1>6. ASSUME NEW j \in Sessions
      PROVE  LoginSeen(j)'
  BY <1>2, <1>4 DEF LoginSeen, InLookup, GotRelay, Welcomed
<1> QED BY <1>3, <1>5, <1>6

LEMMA PatientInvariant ==
  ASSUME OneLogin
  PROVE  IInv /\ CountInv /\ PatientInv /\ [Next]_vars => PatientInv'
<1> SUFFICES ASSUME IInv, CountInv, PatientInv, [Next]_vars PROVE PatientInv'
  OBVIOUS
<1>1. CASE Users
  <2>1. UNCHANGED serverVars
    BY <1>1 DEF Users
  <2>2. PICK k \in Sessions :
          \/ Start(k) \/ Leave(k) \/ visitor(k)
          \/ registion(k) \/ log_in(k) \/ recoverPassword(k)
          \/ sendmsg(k) \/ p2p_request(k) \/ active(k)
    BY <1>1 DEF Users, UserNext
  <2> QED BY <2>1, <2>2, StartPatient, LeavePatient, VisitorPatient, CommandPatient
<1>2. CASE UNCHANGED vars
  BY <1>2, PatientUnchanged DEF vars, serverVars, tableVars
<1> QED BY <1>1, <1>2, ServerPatient DEF Next

LEMMA PatientInit == Init => PatientInv
<1> SUFFICES ASSUME Init PROVE PatientInv
  OBVIOUS
<1>1. /\ lookup = [a \in Names |-> 0]
      /\ \A k \in Sessions : /\ running[k] = "off" /\ toServer[k] = <<>> /\ toClient[k] = <<>>
  BY DEF Init, StreamsInit, ServerInit, UserInit
<1>2. DOMAIN <<>> = {}
  OBVIOUS
<1>3. \A k \in Sessions : DOMAIN toServer[k] = {} /\ DOMAIN toClient[k] = {}
  BY <1>1, <1>2
<1> QED
  BY <1>1, <1>3 DEF PatientInv, LoginsAsTyped, LoginSeen, LookupIsTheUser, OnlyTheReceiver

LEMMA PatientInvariance == OneLogin => (Spec => []PatientInv)
<1> SUFFICES ASSUME OneLogin PROVE Spec => []PatientInv
  OBVIOUS
<1>1. IInv /\ CountInv /\ PatientInv /\ [Next]_vars => PatientInv'
  BY PatientInvariant
<1> QED BY Invariance, CountInit, CountInvariant, PatientInit, <1>1, PTL DEF Spec

\* For users who wait for the answer and log in once, an account in lookup is
\* that of the user whose connection it names, with the password of the table.
THEOREM LookupCorrect == OneLogin => (Spec => []LookupIsTheUser)
<1> SUFFICES ASSUME OneLogin PROVE Spec => []LookupIsTheUser
  OBVIOUS
<1>1. PatientInv => LookupIsTheUser
  BY DEF PatientInv
<1> QED BY PatientInvariance, <1>1, PTL

\* And a message or the request of a peer reaches nobody but its receiver, also
\* when the descriptor of a session that has left is that of another one.
THEOREM ReceiverCorrect == OneLogin => (Spec => []OnlyTheReceiver)
<1> SUFFICES ASSUME OneLogin PROVE Spec => []OnlyTheReceiver
  OBVIOUS
<1>1. PatientInv => OnlyTheReceiver
  BY DEF PatientInv
<1> QED BY PatientInvariance, <1>1, PTL
-----------------------------------------------------------------------------
(* The service is the mailbox                                               *)

\* A login that goes on is in lookup: HandlerOK.
MInv == IInv /\ CountInv

LEMMA WhoIsThere ==
  ASSUME MInv, pc \in {"login", "offline"}
  PROVE  lookup[who] # 0
BY DEF MInv, CountInv, HandlerOK

-----------------------------------------------------------------------------
(* Steps of the mailbox                                                     *)

LEMMA BoxLen ==
  ASSUME MInv, NEW a \in Names
  PROVE  /\ Len(mail[a]) \in Nat /\ Len(Box[a]) = Len(mail[a])
         /\ mail[a] = <<>> <=> Box[a] = <<>>
         /\ Shown[a] = Handed(a)
<1>1. mail[a] \in Seq(Rows)
  BY DEF MInv, IInv, ServerInv, MailInv, MailTypeOK
<1>2. Len(mail[a]) \in Nat /\ (mail[a] = <<>> <=> Len(mail[a]) = 0)
  BY <1>1, LenProperties, EmptySeq
<1>3. Box[a] = Texts(mail[a])
  BY DEF Box, Texts
<1>4. Box[a] \in Seq(Messages) /\ Len(Box[a]) = Len(mail[a])
  BY <1>1, <1>3, TextsType
<1>5. Box[a] = <<>> <=> Len(Box[a]) = 0
  BY <1>4, EmptySeq
<1> QED BY <1>2, <1>4, <1>5 DEF Shown

\* Nothing of the mailbox changes.
LEMMA Quiet ==
  ASSUME UNCHANGED <<lookup, mail, given>>,
         \A a \in Names : Handed(a)' = Handed(a)
  PROVE  UNCHANGED Mail!mailVars
<1>1. Present' = Present /\ Box' = Box
  BY DEF Present, Box
<1>2. Shown' = Shown
  BY DEF Shown
<1> QED BY <1>1, <1>2 DEF Mail!mailVars

LEMMA NothingHanded ==
  ASSUME pc # "offline", pc' # "offline"
  PROVE  \A a \in Names : Handed(a) = 0 /\ Handed(a)' = 0
BY DEF Handed

\* Steps between two handlers, or in one that has nothing to do with mail.
LEMMA QuietStep ==
  ASSUME pc # "offline", pc' # "offline", UNCHANGED <<lookup, mail, given>>
  PROVE  UNCHANGED Mail!mailVars
BY NothingHanded, Quiet

LEMMA ExitStops ==
  ASSUME Exit
  PROVE  Mail!Next
<1>1. Present' = {}
  BY DEF Exit, Present
<1>2. Shown' = [a \in Names |-> 0]
  BY DEF Exit, Shown, Handed
<1>3. UNCHANGED <<Box, given>>
  BY DEF Exit, tableVars, Box
<1> QED BY <1>1, <1>2, <1>3 DEF Mail!Next, Mail!Stop

LEMMA LoginComes ==
  ASSUME MInv, NEW k \in Sessions, LoginIn(k)
  PROVE  [Mail!Next]_(Mail!mailVars)
<1> DEFINE a == Request(k).account
<1>1. ServerInv /\ Read(k, "LoginIn") /\ UNCHANGED <<mail, given>>
  BY DEF MInv, IInv, LoginIn, tableVars
<1>2. a \in Names /\ fd[k] # 0 /\ pc = "wait"
  BY <1>1, ReadTypes, AccountFields
<1>3. pc' # "offline" /\ \A b \in Names : Handed(b) = 0 /\ Handed(b)' = 0
  BY <1>2 DEF LoginIn, AnswerWith, Handed
<1>4. CASE LoginGranted(Request(k))
  <2>1. lookup' = [lookup EXCEPT ![a] = fd[k]] /\ lookup[a] = 0
    BY <1>4 DEF LoginIn, LoginGranted
  <2> HIDE DEF a
  <2>2. Present' = Present \union {a} /\ a \notin Present
    BY <1>1, <1>2, <2>1 DEF Present, ServerInv, TableTypeOK
  <2>3. UNCHANGED <<Box, Shown, given>>
    BY <1>1, <1>3 DEF Box, Shown
  <2> QED BY <1>2, <2>2, <2>3 DEF Mail!Next, Mail!Come
<1>5. CASE ~LoginGranted(Request(k))
  <2>1. UNCHANGED lookup
    BY <1>5 DEF LoginIn
  <2> QED BY <1>1, <1>2, <1>3, <2>1, QuietStep
<1> QED BY <1>4, <1>5

LEMMA MessageComes ==
  ASSUME MInv, NEW k \in Sessions, SendMessage(k)
  PROVE  Mail!Next
<1> DEFINE q == Request(k)
           a == q.receiver
<1>1. ServerInv /\ Read(k, "SendMessage")
  BY DEF MInv, IInv, SendMessage
<1>2. a \in Names /\ q.msg \in Messages /\ pc = "wait"
  BY <1>1, ReadTypes, AccountFields
<1>3. UNCHANGED <<pc, lookup>>
  BY DEF SendMessage, handlerVars
<1>4. \A b \in Names : Handed(b) = 0 /\ Handed(b)' = 0
  BY <1>2, <1>3 DEF Handed
<1>5. UNCHANGED <<Present, Shown>>
  BY <1>3, <1>4 DEF Present, Shown
<1>6. CASE lookup[a] # 0
  <2>1. given' = [given EXCEPT ![a] = Append(@, q.msg)] /\ UNCHANGED mail
    BY <1>6 DEF SendMessage, Deliver, tableVars
  <2> HIDE DEF a, q
  <2>2. mail[a] = <<>>
    BY <1>1, <1>2, <1>6 DEF ServerInv, MailInv, OnlineHasNoMail
  <2>3. a \in Present /\ Box[a] = <<>> /\ UNCHANGED Box
    BY <1>2, <1>6, <2>1, <2>2, BoxLen DEF Present, Box
  <2>4. Mail!Pass(a, q.msg)
    BY <1>5, <2>1, <2>3 DEF Mail!Pass
  <2> QED BY <1>2, <2>4 DEF Mail!Next
<1>7. CASE lookup[a] = 0
  <2>1. /\ mail' = [mail EXCEPT ![a] = Append(@, [msg |-> q.msg, sender |-> q.account])]
        /\ UNCHANGED given
    BY <1>7 DEF SendMessage, Store
  <2> DEFINE r == [msg |-> q.msg, sender |-> q.account]
  <2>2. q.account \in Names
    BY <1>1, ReadTypes, AccountFields
  <2>3. r \in Rows /\ r.msg = q.msg
    BY <1>2, <2>2 DEF Rows
  <2>4. mail \in [Names -> Seq(Rows)]
    BY <1>1 DEF ServerInv, MailInv, MailTypeOK
  <2> HIDE DEF r
  <2>5. mail' = [mail EXCEPT ![a] = Append(@, r)]
    BY <2>1 DEF r
  <2> HIDE DEF a, q
  <2>6. mail[a] \in Seq(Rows) /\ mail'[a] = Append(mail[a], r)
    BY <1>2, <2>4, <2>5
  <2>7. Texts(mail'[a]) = Append(Texts(mail[a]), q.msg)
    <3>1. /\ Len(mail[a]) \in Nat /\ Len(mail'[a]) = Len(mail[a]) + 1
          /\ mail'[a][Len(mail[a]) + 1] = r
          /\ \A i \in 1 .. Len(mail[a]) : mail'[a][i] = mail[a][i]
      BY <2>3, <2>6, AppendProperties, LenProperties
    <3>2. /\ Texts(mail[a]) \in Seq(Messages) /\ Len(Texts(mail[a])) = Len(mail[a])
          /\ Texts(mail'[a]) \in Seq(Messages) /\ Len(Texts(mail'[a])) = Len(mail[a]) + 1
      <4>1. mail'[a] \in Seq(Rows)
        BY <2>3, <2>6, AppendProperties
      <4> QED BY <2>6, <3>1, <4>1, TextsType
    <3>3. \A i \in 1 .. Len(mail[a]) : Texts(mail'[a])[i] = Texts(mail[a])[i]
      BY <3>1 DEF Texts
    <3>4. Texts(mail'[a])[Len(mail[a]) + 1] = q.msg
      BY <2>3, <3>1 DEF Texts
    <3> HIDE DEF Texts
    <3> DEFINE s == Append(Texts(mail[a]), q.msg)
    <3>5. /\ s \in Seq(Messages) /\ Len(s) = Len(mail[a]) + 1
          /\ \A i \in 1 .. Len(mail[a]) : s[i] = Texts(mail[a])[i]
          /\ s[Len(mail[a]) + 1] = q.msg
      BY <1>2, <3>1, <3>2, AppendProperties
    <3> HIDE DEF s
    <3>6. \A i \in 1 .. Len(mail[a]) + 1 : Texts(mail'[a])[i] = s[i]
      BY <3>1, <3>3, <3>4, <3>5
    <3> QED BY <3>2, <3>5, <3>6, SeqEqual DEF s
  <2>8. Box' = [Box EXCEPT ![a] = Append(@, q.msg)]
    <3>1. Box = [b \in Names |-> Texts(mail[b])] /\ Box' = [b \in Names |-> Texts(mail'[b])]
      BY DEF Box, Texts
    <3>2. \A b \in Names : b # a => mail'[b] = mail[b]
      BY <2>4, <2>5
    <3> HIDE DEF Texts
    <3> QED BY <1>2, <2>7, <3>1, <3>2
  <2>9. a \notin Present
    BY <1>7 DEF Present
  <2>10. Mail!Keep(a, q.msg)
    BY <1>5, <2>1, <2>8, <2>9 DEF Mail!Keep
  <2> QED BY <1>2, <2>10 DEF Mail!Next
<1> QED BY <1>6, <1>7

LEMMA ClientGoes ==
  ASSUME MInv, NEW k \in Sessions, ClientIsDown(k)
  PROVE  [Mail!Next]_(Mail!mailVars)
<1>1. /\ pc = "wait" /\ pc' = pc /\ AtEof(k)
      /\ lookup' = [a \in Names |-> IF a \in FirstOf(fd[k]) THEN 0 ELSE lookup[a]]
      /\ UNCHANGED <<mail, given>>
  BY DEF ClientIsDown, Forget, handlerVars, tableVars
<1>2. \A b \in Names : Handed(b) = 0 /\ Handed(b)' = 0
  BY <1>1 DEF Handed
<1>3. UNCHANGED <<Box, Shown>>
  BY <1>1, <1>2 DEF Box, Shown
<1>4. lookup \in [Names -> 0 .. MaxFd]
  BY DEF MInv, IInv, ServerInv, TableTypeOK
<1>5. CASE FirstOf(fd[k]) = {}
  <2>1. lookup' = lookup
    BY <1>1, <1>4, <1>5
  <2> QED BY <1>1, <2>1, QuietStep
<1>6. CASE FirstOf(fd[k]) # {}
  <2>1. PICK a \in FirstOf(fd[k]) : TRUE
    BY <1>6
  <2>2. a \in Names /\ lookup[a] = fd[k] /\ fd[k] # 0
    BY <1>1, <2>1 DEF FirstOf, AtEof
  <2>3. \A b \in FirstOf(fd[k]) : b = a
    BY <2>1, ChatAssumption DEF FirstOf, Names
  <2>4. Present' = Present \ {a} /\ a \in Present
    BY <1>1, <2>1, <2>2, <2>3 DEF Present
  <2>5. mail[a] = <<>>
    BY <1>1, <2>2 DEF MInv, IInv, ServerInv, MailInv, OnlineHasNoMail
  <2>6. Box[a] = <<>>
    BY <2>2, <2>5, BoxLen
  <2> QED BY <1>1, <1>3, <2>2, <2>4, <2>6 DEF Mail!Next, Mail!Go
<1> QED BY <1>5, <1>6

LEMMA RowIsHanded ==
  ASSUME MInv, SendOffline
  PROVE  Mail!Next
<1>1. /\ pc = "offline" /\ row <= Len(mail[who])
      /\ given' = [given EXCEPT ![who] = Append(@, mail[who][row].msg)]
      /\ row' = row + 1
      /\ UNCHANGED <<pc, who, lookup, mail>>
  BY DEF SendOffline, NextRow, tableVars
<1>2. who \in Names /\ row \in Nat /\ row >= 1 /\ lookup[who] # 0
  BY <1>1, WhoIsThere DEF MInv, IInv, ServerInv, HandlerTypeOK, MailInv, RowInRange
<1>3. Shown[who] = row - 1 /\ Len(Box[who]) = Len(mail[who]) /\ Len(mail[who]) \in Nat
  BY <1>1, <1>2, BoxLen DEF Handed
<1>4. Shown' = [Shown EXCEPT ![who] = @ + 1]
  <2>1. \A a \in Names : Handed(a)' = IF a = who THEN Handed(a) + 1 ELSE Handed(a)
    BY <1>1, <1>2 DEF Handed
  <2> QED BY <2>1 DEF Shown
<1>5. Box[who][Shown[who] + 1] = mail[who][row].msg
  <2>1. row \in 1 .. Len(mail[who]) /\ Shown[who] + 1 = row
    BY <1>1, <1>2, <1>3
  <2> QED BY <1>2, <2>1 DEF Box
<1>6. who \in Present /\ UNCHANGED <<Present, Box>>
  BY <1>1, <1>2 DEF Present, Box
<1>7. Shown[who] < Len(Box[who])
  BY <1>1, <1>2, <1>3
<1>8. Mail!Hand(who)
  BY <1>1, <1>4, <1>5, <1>6, <1>7 DEF Mail!Hand
<1> QED BY <1>2, <1>8 DEF Mail!Next

LEMMA BoxIsCleared ==
  ASSUME MInv, DeleteOffline
  PROVE  Mail!Next
<1>1. /\ pc = "offline" /\ row > Len(mail[who]) /\ pc' = "wait"
      /\ mail' = [mail EXCEPT ![who] = <<>>]
      /\ UNCHANGED <<lookup, given>>
  BY DEF DeleteOffline, Return
<1>2. who \in Names /\ row \in 1 .. Len(mail[who]) + 1 /\ lookup[who] # 0
  BY <1>1, WhoIsThere DEF MInv, IInv, ServerInv, HandlerTypeOK, MailInv, RowInRange
<1>3. Shown[who] = Len(Box[who])
  <2>1. Shown[who] = row - 1 /\ Len(Box[who]) = Len(mail[who]) /\ Len(mail[who]) \in Nat
    BY <1>1, <1>2, BoxLen DEF Handed
  <2> QED BY <1>1, <1>2, <2>1
<1>4. Shown' = [Shown EXCEPT ![who] = 0]
  <2>1. \A a \in Names : Handed(a)' = 0 /\ (a # who => Handed(a) = 0)
    BY <1>1 DEF Handed
  <2> QED BY <2>1 DEF Shown
<1>5. Box' = [Box EXCEPT ![who] = <<>>]
  <2>1. mail \in [Names -> Seq(Rows)]
    BY DEF MInv, IInv, ServerInv, MailInv, MailTypeOK
  <2>2. mail'[who] = <<>> /\ \A a \in Names : a # who => mail'[a] = mail[a]
    BY <1>1, <1>2, <2>1
  <2>3. Texts(mail'[who]) = <<>>
    <3>1. mail'[who] \in Seq(Rows) /\ Len(mail'[who]) = 0
      BY <2>2, EmptySeq
    <3> QED BY <3>1, TextsType, EmptySeq
  <2>4. Box = [a \in Names |-> Texts(mail[a])] /\ Box' = [a \in Names |-> Texts(mail'[a])]
    BY DEF Box, Texts
  <2> HIDE DEF Texts
  <2> QED BY <1>2, <2>2, <2>3, <2>4
<1>6. who \in Present /\ UNCHANGED <<Present, given>>
  BY <1>1, <1>2 DEF Present
<1>7. Mail!Clear(who)
  BY <1>3, <1>4, <1>5, <1>6 DEF Mail!Clear
<1> QED BY <1>2, <1>7 DEF Mail!Next

-----------------------------------------------------------------------------
(* The refinement                                                           *)

LEMMA InitMaps == Init => Mail!Init
<1> SUFFICES ASSUME Init PROVE Mail!Init
  OBVIOUS
<1>1. /\ pc = "wait" /\ lookup = [a \in Names |-> 0]
      /\ mail = [a \in Names |-> <<>>] /\ given = [a \in Names |-> <<>>]
  BY DEF Init, ServerInit
<1>2. Present = {} /\ Shown = [a \in Names |-> 0]
  BY <1>1 DEF Present, Shown, Handed
<1>3. Box = [a \in Names |-> <<>>]
  <2>1. Texts(<<>>) = <<>>
    <3>1. <<>> \in Seq(Rows) /\ Len(<<>>) = 0
      BY EmptySeq
    <3> QED BY <3>1, TextsType, EmptySeq
  <2>2. Box = [a \in Names |-> Texts(mail[a])]
    BY DEF Box, Texts
  <2> HIDE DEF Texts
  <2> QED BY <1>1, <2>1, <2>2
<1> QED BY <1>1, <1>2, <1>3 DEF Mail!Init

LEMMA StepMaps == MInv /\ [Next]_vars => [Mail!Next]_(Mail!mailVars)
<1> SUFFICES ASSUME MInv, [Next]_vars PROVE [Mail!Next]_(Mail!mailVars)
  OBVIOUS
<1>1. ASSUME UNCHANGED serverVars PROVE UNCHANGED Mail!mailVars
  BY <1>1, Quiet DEF serverVars, Handed
<1>2. ASSUME NEW k \in Sessions, Visit(k) PROVE [Mail!Next]_(Mail!mailVars)
  <2>1. CASE Registion(k) \/ RecoverPassword(k)
    <3>1. pc = "wait" /\ pc' = "reply" /\ UNCHANGED <<lookup, mail, given>>
      BY <2>1 DEF Registion, RecoverPassword, Read, AnswerWith
    <3> QED BY <3>1, QuietStep
  <2>2. CASE P2PRequest(k)
    <3>1. pc = "wait" /\ pc' # "offline" /\ UNCHANGED <<lookup, mail, given>>
      BY <2>2 DEF P2PRequest, Read, AnswerWith, tableVars
    <3> QED BY <3>1, QuietStep
  <2>3. CASE FindActiveRequest(k)
    <3>1. pc = "wait" /\ pc' = "active" /\ UNCHANGED <<lookup, mail, given>>
      BY <2>3 DEF FindActiveRequest, Read, tableVars
    <3> QED BY <3>1, QuietStep
  <2>4. CASE VisitFails(k)
    BY <2>4, ExitStops DEF VisitFails
  <2> QED
    BY <1>2, <2>1, <2>2, <2>3, <2>4, LoginComes, MessageComes, ClientGoes DEF Visit
<1>3. CASE Continue
  <2>1. CASE SendReply \/ SendActive \/ ActiveDone
    <3>1. pc # "offline" /\ pc' # "offline" /\ UNCHANGED <<lookup, mail, given>>
      BY <2>1 DEF SendReply, SendActive, ActiveDone, Return, tableVars
    <3> QED BY <3>1, QuietStep
  <2>2. CASE SendWelcome
    <3>1. pc = "login" /\ row = 1 /\ UNCHANGED <<row, who, lookup, mail, given>>
      BY <2>2 DEF SendWelcome, handlerVars, tableVars, MInv, IInv, ServerInv,
                  MailInv, RowInRange
    <3>2. \A a \in Names : Handed(a)' = Handed(a)
      BY <3>1 DEF Handed
    <3> QED BY <3>1, <3>2, Quiet
  <2>3. CASE AnswerFails
    BY <2>3, ExitStops DEF AnswerFails
  <2> QED BY <1>3, <2>1, <2>2, <2>3, RowIsHanded, BoxIsCleared DEF Continue
<1>4. CASE Kill
  BY <1>4, ExitStops DEF Kill
<1>5. CASE Restart
  <2>1. pc # "offline" /\ pc' # "offline" /\ UNCHANGED <<lookup, mail, given>>
    BY <1>5 DEF Restart, tableVars
  <2> QED BY <2>1, QuietStep
<1>6. CASE Incoming
  BY <1>1, <1>6 DEF Incoming
<1>7. CASE Users \/ UNCHANGED vars
  BY <1>1, <1>7 DEF Users, vars
<1> QED
  BY <1>2, <1>3, <1>4, <1>5, <1>6, <1>7 DEF Next, Server, ServerNext

\* What the server does with the messages of an account, through logins, ends
\* of clients and stops, is what a mailbox does.
THEOREM MailboxCorrect == Spec => ImplementsMailbox
<1>1. Init => MInv
  BY InitInvariant, CountInit DEF MInv
<1>2. MInv /\ [Next]_vars => MInv'
  BY NextInvariant, CountInvariant DEF MInv
<1>3. Spec => []MInv
  BY <1>1, <1>2, PTL DEF Spec
<1>4. MInv /\ [Next]_vars => [Mail!Next]_(Mail!mailVars)
  BY StepMaps
<1> QED BY InitMaps, <1>3, <1>4, PTL DEF Spec, ImplementsMailbox, Mail!Spec
=============================================================================
