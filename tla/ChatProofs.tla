----------------------------- MODULE ChatProofs -----------------------------
(***************************************************************************)
(* What the server does with messages is right for any number of sessions, *)
(* accounts, messages and restarts, and for users who do not wait: none is *)
(* lost, none waits for an account that is logged in, and the order is     *)
(* kept.                                                                   *)
(***************************************************************************)
EXTENDS Chat, SequenceTheorems, WellFoundedInduction, TLAPS

-----------------------------------------------------------------------------
(* Frames                                                                   *)

LEMMA AnswerType == \A s \in Statuses : Answer(s) \in Replies
BY DEF Answer, Replies

LEMMA WelcomeType == Welcome \in Replies
BY DEF Welcome, Replies

LEMMA ActiveType == \A a \in Names : Active(a) \in Replies
BY DEF Active, Replies

LEMMA RelayType == \A q \in Requests : Relay(q) \in Replies
BY DEF Relay, Replies, Requests

LEMMA MessageType ==
  ASSUME NEW m \in Messages, NEW a \in Names, NEW b \in Names,
         NEW t \in {"whole", "cut"}
  PROVE  Message(m, a, b, t) \in Replies
BY DEF Message, Replies

LEMMA FrameType ==
  ASSUME NEW t \in RequestTypes, NEW a \in Names, NEW p \in Passwords,
         NEW n \in Nicknames, NEW b \in Names, NEW m \in Messages,
         NEW all \in BOOLEAN
  PROVE  Frame(t, a, p, n, b, m, all) \in Requests
BY DEF Frame, Requests

LEMMA SingletonSeq ==
  ASSUME NEW S, NEW x \in S
  PROVE  <<x>> \in Seq(S)
OBVIOUS

LEMMA ZeroType ==
  /\ 0 \in Names /\ 0 \in Passwords /\ 0 \in Nicknames /\ 0 \in Messages
BY ChatAssumption DEF Names, Passwords, Nicknames, Messages

-----------------------------------------------------------------------------
(* The streams                                                              *)

\* A descriptor belongs to one session.
OneEach == \A j, k \in Sessions : fd[j] = fd[k] /\ fd[j] # 0 => j = k

StreamsInv == StreamsTypeOK /\ OneEach

LEMMA LowestType ==
  ASSUME FreeFds # {}
  PROVE  LowestFree \in FreeFds
<1>1. FreeFds \subseteq Nat
  BY ChatAssumption DEF FreeFds
<1>2. PICK f \in FreeFds : \A g \in FreeFds : ~(<<g, f>> \in OpToRel(<, Nat))
  BY <1>1, NatLessThanWellFounded, WFMin
<1>3. \A g \in FreeFds : f <= g
  <2> SUFFICES ASSUME NEW g \in FreeFds PROVE f <= g
    OBVIOUS
  <2>1. ~(g < f)
    BY <1>1, <1>2 DEF OpToRel
  <2> QED BY <1>1, <2>1
<1> QED BY <1>2, <1>3 DEF LowestFree

LEMMA AcceptStreams ==
  ASSUME StreamsInv, Accept
  PROVE  StreamsInv'
<1>1. LowestFree \in 1 .. MaxFd /\ \A k \in Sessions : fd[k] # LowestFree
  BY LowestType DEF Accept, FreeFds
<1>2. Head(backlog) \in Sessions /\ Tail(backlog) \in Seq(Sessions)
  BY HeadTailProperties DEF StreamsInv, StreamsTypeOK, Accept
<1>3. StreamsTypeOK'
  BY <1>1, <1>2, ChatAssumption DEF StreamsInv, StreamsTypeOK, Accept
<1>4. OneEach'
  BY <1>1, <1>2 DEF StreamsInv, StreamsTypeOK, OneEach, Accept
<1> QED BY <1>3, <1>4 DEF StreamsInv

LEMMA TakeStreams ==
  ASSUME StreamsInv, NEW k \in Sessions, toServer[k] # <<>>, TakeFrame(k),
         UNCHANGED <<fd, backlog>>
  PROVE  /\ fd' \in [Sessions -> 0 .. MaxFd] /\ backlog' \in Seq(Sessions)
         /\ toServer' \in [Sessions -> Seq(Requests)] /\ OneEach'
<1>1. Tail(toServer[k]) \in Seq(Requests)
  BY HeadTailProperties DEF StreamsInv, StreamsTypeOK
<1> QED BY <1>1 DEF StreamsInv, StreamsTypeOK, OneEach, TakeFrame

LEMMA SendTypes ==
  ASSUME StreamsInv, NEW f, NEW frame \in Replies, Send(f, frame)
  PROVE  toClient' \in [Sessions -> Seq(Replies)] /\ ending' \in [Sessions -> Endings]
<1>1. CASE Written(f, frame)
  BY <1>1, AppendProperties DEF Written, StreamsInv, StreamsTypeOK
<1>2. CASE WrittenToNobody(f)
  BY <1>2 DEF WrittenToNobody, StreamsInv, StreamsTypeOK, Endings
<1> QED BY <1>1, <1>2 DEF Send

LEMMA SendStreams ==
  ASSUME StreamsInv, NEW f, NEW frame \in Replies, Send(f, frame),
         UNCHANGED <<fd, backlog, toServer>>
  PROVE  StreamsInv'
BY SendTypes DEF StreamsInv, StreamsTypeOK, OneEach

LEMMA CloseStreams ==
  ASSUME StreamsInv, NEW k \in Sessions, CloseFd(k),
         UNCHANGED <<backlog, toServer, toClient, ending>>
  PROVE  StreamsInv'
BY ChatAssumption DEF StreamsInv, StreamsTypeOK, OneEach, CloseFd

LEMMA CloseAllStreams ==
  ASSUME StreamsInv, CloseAll
  PROVE  StreamsInv'
BY EmptySeq, ChatAssumption DEF StreamsInv, StreamsTypeOK, OneEach, CloseAll

LEMMA ConnectStreams ==
  ASSUME StreamsInv, NEW k \in Sessions, Connect(k)
  PROVE  StreamsInv'
BY AppendProperties DEF StreamsInv, StreamsTypeOK, OneEach, Connect

LEMMA PutStreams ==
  ASSUME StreamsInv, NEW k \in Sessions, NEW frame \in Requests, Put(k, frame)
  PROVE  StreamsInv'
BY AppendProperties DEF StreamsInv, StreamsTypeOK, OneEach, Put

LEMMA GetStreams ==
  ASSUME StreamsInv, NEW k \in Sessions, Get(k)
  PROVE  StreamsInv'
<1>1. Tail(toClient[k]) \in Seq(Replies)
  BY HeadTailProperties DEF StreamsInv, StreamsTypeOK, Get
<1> QED BY <1>1 DEF StreamsInv, StreamsTypeOK, OneEach, Get

LEMMA HangupStreams ==
  ASSUME StreamsInv, NEW k \in Sessions, NEW rest \in Seq(Requests), Hangup(k, rest)
  PROVE  StreamsInv'
<1>1. (toServer[k] \o rest) \in Seq(Requests)
  BY ConcatProperties DEF StreamsInv, StreamsTypeOK
<1>2. toServer' \in [Sessions -> Seq(Requests)]
  BY <1>1 DEF StreamsInv, StreamsTypeOK, Hangup
<1>3. toClient' \in [Sessions -> Seq(Replies)]
  BY EmptySeq DEF StreamsInv, StreamsTypeOK, Hangup
<1>4. ending' \in [Sessions -> Endings]
  BY DEF StreamsInv, StreamsTypeOK, Hangup, Endings
<1> QED BY <1>2, <1>3, <1>4 DEF StreamsInv, StreamsTypeOK, OneEach, Hangup

-----------------------------------------------------------------------------
(* The users                                                                *)

LEMMA AskingTypes ==
  ASSUME UserTypeOK, NEW k \in Sessions, NEW type, Asking(k, type),
         account' \in [Sessions -> Names], passwd' \in [Sessions -> Passwords]
  PROVE  UserTypeOK'
<1>1. asked' \in [Sessions -> Int]
  BY DEF UserTypeOK, Asking
<1>2. typed' \in 0 .. MaxCommands
  BY UserAssumption DEF UserTypeOK, Asking, Typing
<1>3. UNCHANGED <<running, logged, lastMsg>>
  BY DEF Asking, Typing
<1> QED BY <1>1, <1>2, <1>3 DEF UserTypeOK

LEMMA RequestAskers ==
  ASSUME StreamsInv, UserTypeOK, NEW k \in Sessions,
         registion(k) \/ recoverPassword(k) \/ log_in(k)
  PROVE  StreamsInv' /\ UserTypeOK'
<1>1. CASE registion(k)
  <2>1. PICK a \in Names, p \in Passwords, n \in Nicknames :
          Put(k, Frame("Registion", a, p, n, 0, 0, TRUE))
    BY <1>1 DEF registion
  <2>2. Frame("Registion", a, p, n, 0, 0, TRUE) \in Requests
    BY ZeroType, FrameType DEF RequestTypes
  <2>3. UserTypeOK'
    BY <1>1, AskingTypes DEF registion, UserTypeOK
  <2> QED BY <2>1, <2>2, <2>3, PutStreams
<1>2. CASE recoverPassword(k)
  <2>1. PICK a \in Names, p \in Passwords, n \in Nicknames :
          Put(k, Frame("RecoverPassword", a, p, n, 0, 0, TRUE))
    BY <1>2 DEF recoverPassword
  <2>2. Frame("RecoverPassword", a, p, n, 0, 0, TRUE) \in Requests
    BY ZeroType, FrameType DEF RequestTypes
  <2>3. UserTypeOK'
    BY <1>2, AskingTypes DEF recoverPassword, UserTypeOK
  <2> QED BY <2>1, <2>2, <2>3, PutStreams
<1>3. CASE log_in(k)
  <2>1. PICK a \in Names, p \in Passwords :
          /\ account' = [account EXCEPT ![k] = a]
          /\ passwd' = [passwd EXCEPT ![k] = p]
          /\ Put(k, Frame("LoginIn", a, p, 0, 0, 0, TRUE))
    BY <1>3 DEF log_in
  <2>2. Frame("LoginIn", a, p, 0, 0, 0, TRUE) \in Requests
    BY ZeroType, FrameType DEF RequestTypes
  <2>3. account' \in [Sessions -> Names] /\ passwd' \in [Sessions -> Passwords]
    BY <2>1 DEF UserTypeOK
  <2>4. Asking(k, "LoginIn")
    BY <1>3 DEF log_in
  <2>5. UserTypeOK'
    BY <2>3, <2>4, AskingTypes
  <2> QED BY <2>1, <2>2, <2>5, PutStreams
<1> QED BY <1>1, <1>2, <1>3

LEMMA RequestTellers ==
  ASSUME StreamsInv, UserTypeOK, NEW k \in Sessions,
         sendmsg(k) \/ p2p_request(k) \/ active(k)
  PROVE  StreamsInv' /\ UserTypeOK'
<1>1. account[k] \in Names
  BY DEF UserTypeOK
<1>2. CASE sendmsg(k)
  <2>1. PICK to \in Names :
          Put(k, Frame("SendMessage", account[k], 0, 0, to, lastMsg + 1, TRUE))
    BY <1>2 DEF sendmsg
  <2>2. lastMsg + 1 \in Messages
    BY <1>2, ChatAssumption DEF sendmsg, UserTypeOK, Messages
  <2>3. Frame("SendMessage", account[k], 0, 0, to, lastMsg + 1, TRUE) \in Requests
    BY <1>1, <2>2, ZeroType, FrameType DEF RequestTypes
  <2>4. UserTypeOK'
    BY <1>2, UserAssumption, ChatAssumption DEF sendmsg, Typing, UserTypeOK
  <2> QED BY <2>1, <2>3, <2>4, PutStreams
<1>3. CASE p2p_request(k)
  <2>1. PICK to \in Names :
          Put(k, Frame("P2PRequest", account[k], 0, 0, to, 0, TRUE))
    BY <1>3 DEF p2p_request
  <2>2. Frame("P2PRequest", account[k], 0, 0, to, 0, TRUE) \in Requests
    BY <1>1, ZeroType, FrameType DEF RequestTypes
  <2>3. UserTypeOK'
    BY <1>3, UserAssumption DEF p2p_request, Typing, UserTypeOK
  <2> QED BY <2>1, <2>2, <2>3, PutStreams
<1>4. CASE active(k)
  <2>1. Put(k, Frame("FindActiveRequest", account[k], 0, 0, 0, 0, TRUE))
    BY <1>4 DEF active
  <2>2. Frame("FindActiveRequest", account[k], 0, 0, 0, 0, TRUE) \in Requests
    BY <1>1, ZeroType, FrameType DEF RequestTypes
  <2>3. UserTypeOK'
    BY <1>4, UserAssumption DEF active, Typing, UserTypeOK
  <2> QED BY <2>1, <2>2, <2>3, PutStreams
<1> QED BY <1>2, <1>3, <1>4

LEMMA UserTypes ==
  ASSUME StreamsInv, UserTypeOK, UserNext
  PROVE  StreamsInv' /\ UserTypeOK'
<1> PICK k \in Sessions :
      \/ Start(k) \/ Leave(k) \/ visitor(k)
      \/ registion(k) \/ log_in(k) \/ recoverPassword(k)
      \/ sendmsg(k) \/ p2p_request(k) \/ active(k)
  BY DEF UserNext
<1>1. CASE Start(k)
  BY <1>1, ConnectStreams DEF Start, UserTypeOK
<1>2. CASE Leave(k)
  <2>1. PICK rest \in Seq(Requests) : Hangup(k, rest)
    <3>1. CASE Hangup(k, <<>>)
      BY <3>1, EmptySeq
    <3>2. ASSUME NEW t \in Tears, Hangup(k, <<Frame(t, 0, 0, 0, 0, 0, FALSE)>>)
          PROVE  \E rest \in Seq(Requests) : Hangup(k, rest)
      <4>1. Frame(t, 0, 0, 0, 0, 0, FALSE) \in Requests
        BY UserAssumption, ZeroType, FrameType
      <4>2. <<Frame(t, 0, 0, 0, 0, 0, FALSE)>> \in Seq(Requests)
        BY <4>1, SingletonSeq
      <4> QED BY <3>2, <4>2
    <3> QED BY <1>2, <3>1, <3>2 DEF Leave
  <2>2. UserTypeOK'
    BY <1>2 DEF Leave, UserTypeOK
  <2> QED BY <2>1, <2>2, HangupStreams
<1>3. CASE visitor(k)
  <2>1. asked' \in [Sessions -> Int]
    <3> DEFINE n == IF IsAnswer(Head(toClient[k])) THEN asked[k] - 1 ELSE asked[k]
    <3>1. n \in Int
      BY DEF UserTypeOK
    <3>2. asked' = [asked EXCEPT ![k] = n]
      BY <1>3 DEF visitor
    <3> HIDE DEF n
    <3> QED BY <3>1, <3>2 DEF UserTypeOK
  <2>2. logged' \in [Sessions -> BOOLEAN]
    <3> DEFINE b == logged[k] \/ Head(toClient[k]).type = "LoginReply"
    <3>1. logged' = [logged EXCEPT ![k] = b] /\ b \in BOOLEAN
      BY <1>3 DEF visitor
    <3> HIDE DEF b
    <3> QED BY <3>1 DEF UserTypeOK
  <2>3. UserTypeOK'
    BY <1>3, <2>1, <2>2 DEF visitor, UserTypeOK
  <2> QED BY <1>3, <2>3, GetStreams DEF visitor
<1> QED BY <1>1, <1>2, <1>3, RequestAskers, RequestTellers

-----------------------------------------------------------------------------
(* The inductive invariant                                                  *)

HandlerTypeOK ==
  /\ pc \in {"wait", "reply", "login", "offline", "active", "down"}
  /\ conn \in 0 .. MaxFd /\ reply \in Replies
  /\ who \in Names /\ row \in Nat /\ actives \subseteq Names

TableTypeOK ==
  /\ lookup \in [Names -> 0 .. MaxFd]
  /\ password \in [Names -> Passwords \union {Absent}]
  /\ nickname \in [Names -> Nicknames]
  /\ restarts \in 0 .. MaxRestarts

MailTypeOK ==
  /\ mail \in [Names -> Seq(Rows)]
  /\ accepted \in [Names -> Seq(Messages)]
  /\ given \in [Names -> Seq(Messages)]

LEMMA ServerTypes == ServerTypeOK <=> HandlerTypeOK /\ TableTypeOK /\ MailTypeOK
BY DEF ServerTypeOK, HandlerTypeOK, TableTypeOK, MailTypeOK

\* The login is at a row of the table, or has come to its end.
RowInRange ==
  /\ pc = "login" => row = 1
  /\ pc = "offline" => row \in 1 .. Len(mail[who]) + 1

\* The first n rows of the table are written.
Passed(gave, rows, n) ==
  \A j \in 1 .. n : \E i \in DOMAIN gave : gave[i] = rows[j].msg

RowsGiven == pc = "offline" => Passed(given[who], mail[who], row - 1)

\* Of the messages taken, the ones written come first, and then the rows of the
\* table after the first h, in the order in which they were taken.
Ordered(took, gave, rows, h) ==
  /\ Len(took) = Len(gave) + Len(rows) - h
  /\ \A i \in 1 .. Len(gave) : took[i] = gave[i]
  /\ \A i \in h + 1 .. Len(rows) : took[Len(gave) + i - h] = rows[i].msg

InOrder ==
  restarts = 0 /\ pc # "down" =>
    \A a \in Names : Ordered(accepted[a], given[a], mail[a], Handed(a))

\* Each message taken is written or in the table.
Kept(took, gave, rows) ==
  \A i \in DOMAIN took :
    \/ \E j \in DOMAIN gave : gave[j] = took[i]
    \/ \E j \in DOMAIN rows : rows[j].msg = took[i]

MailInv ==
  /\ MailTypeOK
  /\ OnlineHasNoMail
  /\ RowInRange
  /\ RowsGiven
  /\ KeptOrGiven
  /\ InOrder

ServerInv == StreamsInv /\ HandlerTypeOK /\ TableTypeOK /\ MailInv

IInv == ServerInv /\ UserTypeOK

-----------------------------------------------------------------------------
(* The messages of one account                                              *)

LEMMA AppendPlaces ==
  ASSUME NEW S, NEW s \in Seq(S), NEW x \in S
  PROVE  /\ Append(s, x) \in Seq(S) /\ Len(Append(s, x)) = Len(s) + 1
         /\ DOMAIN s = 1 .. Len(s) /\ DOMAIN Append(s, x) = 1 .. Len(s) + 1
         /\ \A i \in 1 .. Len(s) : Append(s, x)[i] = s[i]
         /\ Append(s, x)[Len(s) + 1] = x
         /\ Len(s) \in Nat
BY AppendProperties, LenProperties

\* A message is relayed: nothing is in the table.
LEMMA OrderedRelay ==
  ASSUME NEW took \in Seq(Messages), NEW gave \in Seq(Messages), NEW m \in Messages,
         Ordered(took, gave, <<>>, 0)
  PROVE  Ordered(Append(took, m), Append(gave, m), <<>>, 0)
<1>1. /\ Len(took) = Len(gave) /\ Len(gave) \in Nat
      /\ \A i \in 1 .. Len(gave) : took[i] = gave[i]
  BY AppendPlaces DEF Ordered
<1>2. /\ Len(Append(took, m)) = Len(gave) + 1 /\ Len(Append(gave, m)) = Len(gave) + 1
      /\ \A i \in 1 .. Len(gave) : Append(took, m)[i] = took[i]
      /\ \A i \in 1 .. Len(gave) : Append(gave, m)[i] = gave[i]
      /\ Append(took, m)[Len(gave) + 1] = m /\ Append(gave, m)[Len(gave) + 1] = m
  BY <1>1, AppendPlaces
<1>3. \A i \in 1 .. Len(gave) + 1 : i = Len(gave) + 1 \/ i \in 1 .. Len(gave)
  BY <1>1
<1>4. \A i \in 1 .. Len(gave) + 1 : Append(took, m)[i] = Append(gave, m)[i]
  BY <1>1, <1>2, <1>3
<1> QED BY <1>1, <1>2, <1>4 DEF Ordered

\* A message is stored.
LEMMA OrderedStore ==
  ASSUME NEW took \in Seq(Messages), NEW gave \in Seq(Messages), NEW rows \in Seq(Rows),
         NEW r \in Rows, r.msg \in Messages, Ordered(took, gave, rows, 0)
  PROVE  Ordered(Append(took, r.msg), gave, Append(rows, r), 0)
<1> DEFINE n == Len(gave)
           l == Len(rows)
<1>1. /\ Len(took) = n + l /\ n \in Nat /\ l \in Nat
      /\ \A i \in 1 .. n : took[i] = gave[i]
      /\ \A i \in 1 .. l : took[n + i] = rows[i].msg
  BY LenProperties DEF Ordered
<1>2. /\ Len(Append(took, r.msg)) = n + l + 1 /\ Len(Append(rows, r)) = l + 1
      /\ \A i \in 1 .. n + l : Append(took, r.msg)[i] = took[i]
      /\ Append(took, r.msg)[n + l + 1] = r.msg
      /\ \A i \in 1 .. l : Append(rows, r)[i] = rows[i]
      /\ Append(rows, r)[l + 1] = r
  BY <1>1, AppendPlaces
<1> HIDE DEF n, l
<1>3. \A i \in 1 .. n : Append(took, r.msg)[i] = gave[i]
  BY <1>1, <1>2
<1>4. ASSUME NEW i \in 1 .. l + 1
      PROVE  Append(took, r.msg)[n + i] = Append(rows, r)[i].msg
  <2>1. CASE i = l + 1
    BY <1>1, <1>2, <2>1
  <2>2. CASE i \in 1 .. l
    <3>1. n + i \in 1 .. n + l
      BY <1>1, <2>2
    <3> QED BY <1>1, <1>2, <2>2, <3>1
  <2>3. i = l + 1 \/ i \in 1 .. l
    BY <1>1
  <2> QED BY <2>1, <2>2, <2>3
<1>5. \A i \in 0 + 1 .. l + 1 : Append(took, r.msg)[n + i - 0] = Append(rows, r)[i].msg
  <2> SUFFICES ASSUME NEW i \in 0 + 1 .. l + 1
               PROVE  Append(took, r.msg)[n + i - 0] = Append(rows, r)[i].msg
    OBVIOUS
  <2>1. i \in 1 .. l + 1 /\ n + i - 0 = n + i
    BY <1>1
  <2> QED BY <1>4, <2>1
<1>6. n + l + 1 = n + (l + 1) - 0
  BY <1>1
<1> QED BY <1>2, <1>3, <1>5, <1>6 DEF Ordered, n

\* A row of the table is written.
LEMMA OrderedHand ==
  ASSUME NEW took \in Seq(Messages), NEW gave \in Seq(Messages), NEW rows \in Seq(Rows),
         NEW h \in Nat, h < Len(rows), rows[h + 1].msg \in Messages,
         Ordered(took, gave, rows, h)
  PROVE  Ordered(took, Append(gave, rows[h + 1].msg), rows, h + 1)
<1> DEFINE n == Len(gave)
           l == Len(rows)
           m == rows[h + 1].msg
<1>1. /\ Len(took) = n + l - h /\ n \in Nat /\ l \in Nat /\ h < l
      /\ \A i \in 1 .. n : took[i] = gave[i]
      /\ \A i \in h + 1 .. l : took[n + i - h] = rows[i].msg
  BY LenProperties DEF Ordered
<1>2. /\ Len(Append(gave, m)) = n + 1
      /\ \A i \in 1 .. n : Append(gave, m)[i] = gave[i]
      /\ Append(gave, m)[n + 1] = m
  BY AppendPlaces
<1>3. took[n + 1] = m
  <2>1. h + 1 \in h + 1 .. l /\ n + (h + 1) - h = n + 1
    BY <1>1
  <2> QED BY <1>1, <2>1
<1> HIDE DEF n, l, m
<1>4. \A i \in 1 .. n + 1 : took[i] = Append(gave, m)[i]
  <2>1. \A i \in 1 .. n + 1 : i = n + 1 \/ i \in 1 .. n
    BY <1>1
  <2> QED BY <1>1, <1>2, <1>3, <2>1
<1>5. \A i \in (h + 1) + 1 .. l : took[(n + 1) + i - (h + 1)] = rows[i].msg
  <2> SUFFICES ASSUME NEW i \in (h + 1) + 1 .. l
               PROVE  took[(n + 1) + i - (h + 1)] = rows[i].msg
    OBVIOUS
  <2>1. i \in h + 1 .. l /\ (n + 1) + i - (h + 1) = n + i - h
    BY <1>1
  <2> QED BY <1>1, <2>1
<1>6. n + l - h = (n + 1) + l - (h + 1)
  BY <1>1
<1> QED BY <1>1, <1>2, <1>4, <1>5, <1>6 DEF Ordered, l, m

\* All rows are written, and the table is emptied.
LEMMA OrderedDone ==
  ASSUME NEW took \in Seq(Messages), NEW gave \in Seq(Messages), NEW rows \in Seq(Rows),
         Ordered(took, gave, rows, Len(rows))
  PROVE  Ordered(took, gave, <<>>, 0)
<1>1. Len(gave) \in Nat /\ Len(rows) \in Nat /\ Len(<<>>) = 0
  BY LenProperties
<1>2. Len(took) = Len(gave) + 0 - 0
  BY <1>1 DEF Ordered
<1>3. \A i \in 1 .. Len(gave) : took[i] = gave[i]
  BY DEF Ordered
<1> QED BY <1>1, <1>2, <1>3 DEF Ordered

Texts(rows) == [i \in 1 .. Len(rows) |-> rows[i].msg]

LEMMA TextsType ==
  ASSUME NEW rows \in Seq(Rows)
  PROVE  /\ Texts(rows) \in Seq(Messages) /\ Len(Texts(rows)) = Len(rows)
         /\ \A i \in 1 .. Len(rows) : Texts(rows)[i] = rows[i].msg
<1>1. Len(rows) \in Nat /\ \A i \in 1 .. Len(rows) : rows[i].msg \in Messages
  <2>1. \A i \in 1 .. Len(rows) : rows[i] \in Rows
    BY ElementOfSeq
  <2> QED BY <2>1, LenProperties DEF Rows
<1> QED BY <1>1 DEF Texts

\* What Ordered means.
LEMMA OrderedMeans ==
  ASSUME NEW took \in Seq(Messages), NEW gave \in Seq(Messages), NEW rows \in Seq(Rows),
         NEW h \in 0 .. Len(rows), Ordered(took, gave, rows, h)
  PROVE  took = gave \o SubSeq(Texts(rows), h + 1, Len(Texts(rows)))
<1> DEFINE stored == Texts(rows)
<1>0. /\ stored \in Seq(Messages) /\ Len(stored) = Len(rows)
      /\ \A i \in 1 .. Len(rows) : stored[i] = rows[i].msg
  BY TextsType
<1> HIDE DEF stored
<1> DEFINE n == Len(gave)
           l == Len(rows)
           rest == SubSeq(stored, h + 1, Len(stored))
<1>1. /\ Len(took) = n + l - h /\ n \in Nat /\ l \in Nat /\ h \in 0 .. l
      /\ \A i \in 1 .. n : took[i] = gave[i]
      /\ \A i \in h + 1 .. l : took[n + i - h] = stored[i]
  BY <1>0, LenProperties DEF Ordered
<1>2. /\ rest \in Seq(Messages) /\ Len(rest) = l - h
      /\ \A i \in 1 .. l - h : rest[i] = stored[h + i]
  <2>1. CASE h < l
    BY <1>0, <1>1, <2>1, SubSeqProperties
  <2>2. CASE h = l
    <3>1. rest = <<>>
      BY <1>0, <1>1, <2>2, SubSeqEmpty
    <3> QED BY <1>1, <2>2, <3>1, EmptySeq
  <2> QED BY <1>1, <2>1, <2>2
<1> HIDE DEF l, rest
<1>3. /\ gave \o rest \in Seq(Messages) /\ Len(gave \o rest) = n + (l - h)
      /\ \A i \in 1 .. n + (l - h) :
           (gave \o rest)[i] = IF i <= n THEN gave[i] ELSE rest[i - n]
  <2>1. /\ gave \o rest \in Seq(Messages)
        /\ Len(gave \o rest) = Len(gave) + Len(rest)
        /\ \A i \in 1 .. Len(gave) + Len(rest) :
             (gave \o rest)[i] = IF i <= Len(gave) THEN gave[i] ELSE rest[i - Len(gave)]
    <3>1. rest \in Seq(Messages)
      BY <1>2
    <3> QED BY <3>1, ConcatProperties, ZenonT(30)
  <2> QED BY <1>2, <2>1
<1> HIDE DEF n
<1>4. ASSUME NEW i \in 1 .. Len(took) PROVE took[i] = (gave \o rest)[i]
  <2>1. i \in 1 .. n + (l - h)
    BY <1>1
  <2>2. CASE i <= n
    BY <1>1, <1>3, <2>1, <2>2
  <2>3. CASE i > n
    <3>1. i - n \in 1 .. l - h /\ h + (i - n) \in h + 1 .. l
          /\ n + (h + (i - n)) - h = i
      BY <1>1, <2>1, <2>3
    <3>2. took[i] = stored[h + (i - n)]
      BY <1>1, <3>1
    <3>3. (gave \o rest)[i] = rest[i - n]
      BY <1>1, <1>3, <2>1, <2>3
    <3> QED BY <1>2, <3>1, <3>2, <3>3
  <2>4. i <= n \/ i > n
    BY <1>1, <2>1
  <2> QED BY <2>2, <2>3, <2>4
<1>5. Len(took) = Len(gave \o rest)
  BY <1>1, <1>3
<1>6. took = gave \o rest
  BY <1>3, <1>4, <1>5, SeqEqual
<1> QED BY <1>6 DEF rest, stored

LEMMA KeptRelay ==
  ASSUME NEW took \in Seq(Messages), NEW gave \in Seq(Messages), NEW m \in Messages,
         NEW rows, Kept(took, gave, rows)
  PROVE  Kept(Append(took, m), Append(gave, m), rows)
<1>0. DOMAIN Append(took, m) = 1 .. Len(took) + 1
  BY AppendPlaces
<1> SUFFICES ASSUME NEW i \in 1 .. Len(took) + 1
             PROVE  \/ \E j \in DOMAIN Append(gave, m) :
                         Append(gave, m)[j] = Append(took, m)[i]
                    \/ \E j \in DOMAIN rows : rows[j].msg = Append(took, m)[i]
  BY <1>0, Zenon DEF Kept
<1>1. /\ DOMAIN took = 1 .. Len(took) /\ Len(took) \in Nat
      /\ \A k \in 1 .. Len(took) : Append(took, m)[k] = took[k]
      /\ Append(took, m)[Len(took) + 1] = m
  BY AppendPlaces
<1>2. /\ DOMAIN gave = 1 .. Len(gave) /\ Len(gave) \in Nat
      /\ DOMAIN Append(gave, m) = 1 .. Len(gave) + 1
      /\ \A k \in 1 .. Len(gave) : Append(gave, m)[k] = gave[k]
      /\ Append(gave, m)[Len(gave) + 1] = m
  BY AppendPlaces
<1>3. i = Len(took) + 1 \/ i \in 1 .. Len(took)
  BY <1>1
<1>4. CASE i = Len(took) + 1
  <2>1. Len(gave) + 1 \in DOMAIN Append(gave, m)
    BY <1>2
  <2> QED BY <1>1, <1>2, <1>4, <2>1
<1>5. CASE i \in 1 .. Len(took)
  <2>1. \A j \in DOMAIN gave : j \in DOMAIN Append(gave, m)
    BY <1>2
  <2>2. \/ \E j \in DOMAIN gave : gave[j] = took[i]
        \/ \E j \in DOMAIN rows : rows[j].msg = took[i]
    BY <1>1, <1>5 DEF Kept
  <2> QED BY <1>1, <1>2, <1>5, <2>1, <2>2
<1> QED BY <1>3, <1>4, <1>5

LEMMA KeptStore ==
  ASSUME NEW took \in Seq(Messages), NEW gave, NEW rows \in Seq(Rows),
         NEW r \in Rows, r.msg \in Messages, Kept(took, gave, rows)
  PROVE  Kept(Append(took, r.msg), gave, Append(rows, r))
<1> DEFINE now == Append(took, r.msg)
           table == Append(rows, r)
<1>0. DOMAIN now = 1 .. Len(took) + 1
  BY AppendPlaces
<1> SUFFICES ASSUME NEW i \in 1 .. Len(took) + 1
             PROVE  \/ \E j \in DOMAIN gave : gave[j] = now[i]
                    \/ \E j \in DOMAIN table : table[j].msg = now[i]
  BY <1>0, Zenon DEF Kept
<1>1. /\ DOMAIN took = 1 .. Len(took) /\ Len(took) \in Nat
      /\ \A k \in 1 .. Len(took) : now[k] = took[k]
      /\ now[Len(took) + 1] = r.msg
  BY AppendPlaces
<1>2. /\ DOMAIN rows = 1 .. Len(rows) /\ Len(rows) \in Nat
      /\ DOMAIN table = 1 .. Len(rows) + 1
      /\ \A k \in 1 .. Len(rows) : table[k] = rows[k]
      /\ table[Len(rows) + 1] = r
  BY AppendPlaces
<1> HIDE DEF now, table
<1>3. i = Len(took) + 1 \/ i \in 1 .. Len(took)
  BY <1>1
<1>4. CASE i = Len(took) + 1
  <2>1. Len(rows) + 1 \in DOMAIN table
    BY <1>2
  <2> QED BY <1>1, <1>2, <1>4, <2>1
<1>5. CASE i \in 1 .. Len(took)
  <2>1. \A j \in DOMAIN rows : j \in DOMAIN table /\ table[j] = rows[j]
    BY <1>2
  <2>2. \/ \E j \in DOMAIN gave : gave[j] = took[i]
        \/ \E j \in DOMAIN rows : rows[j].msg = took[i]
    BY <1>1, <1>5 DEF Kept
  <2>3. now[i] = took[i]
    BY <1>1, <1>5
  <2> QED BY <2>1, <2>2, <2>3
<1> QED BY <1>3, <1>4, <1>5

LEMMA KeptHand ==
  ASSUME NEW took, NEW gave \in Seq(Messages), NEW m \in Messages, NEW rows,
         Kept(took, gave, rows)
  PROVE  Kept(took, Append(gave, m), rows)
<1>1. \A j \in DOMAIN gave : j \in DOMAIN Append(gave, m) /\ Append(gave, m)[j] = gave[j]
  <2>1. /\ DOMAIN gave = 1 .. Len(gave) /\ Len(gave) \in Nat
        /\ DOMAIN Append(gave, m) = 1 .. Len(gave) + 1
        /\ \A k \in 1 .. Len(gave) : Append(gave, m)[k] = gave[k]
    BY AppendPlaces
  <2> QED BY <2>1
<1> QED BY <1>1, Zenon DEF Kept

LEMMA PassedHand ==
  ASSUME NEW gave \in Seq(Messages), NEW rows, NEW n \in Nat,
         rows[n + 1].msg \in Messages, Passed(gave, rows, n)
  PROVE  Passed(Append(gave, rows[n + 1].msg), rows, n + 1)
<1> DEFINE m == rows[n + 1].msg
<1>1. /\ DOMAIN gave = 1 .. Len(gave) /\ Len(gave) \in Nat
      /\ DOMAIN Append(gave, m) = 1 .. Len(gave) + 1
      /\ \A k \in 1 .. Len(gave) : Append(gave, m)[k] = gave[k]
      /\ Append(gave, m)[Len(gave) + 1] = m
  BY AppendPlaces
<1>2. ASSUME NEW j \in 1 .. n + 1
      PROVE  \E i \in DOMAIN Append(gave, m) : Append(gave, m)[i] = rows[j].msg
  <2>1. CASE j = n + 1
    <3>1. Len(gave) + 1 \in DOMAIN Append(gave, m)
      BY <1>1
    <3> QED BY <1>1, <2>1, <3>1
  <2>2. CASE j \in 1 .. n
    <3>1. PICK i \in DOMAIN gave : gave[i] = rows[j].msg
      BY <2>2 DEF Passed
    <3>2. i \in DOMAIN Append(gave, m) /\ Append(gave, m)[i] = gave[i]
      BY <1>1
    <3> QED BY <3>1, <3>2
  <2>3. j = n + 1 \/ j \in 1 .. n
    OBVIOUS
  <2> QED BY <2>1, <2>2, <2>3
<1> QED BY <1>2 DEF Passed

LEMMA KeptDone ==
  ASSUME NEW took, NEW gave, NEW rows \in Seq(Rows),
         Kept(took, gave, rows), Passed(gave, rows, Len(rows))
  PROVE  Kept(took, gave, <<>>)
<1>1. \A j \in DOMAIN rows : \E i \in DOMAIN gave : gave[i] = rows[j].msg
  BY LenProperties DEF Passed
<1> QED BY <1>1 DEF Kept

LEMMA KeptIs ==
  KeptOrGiven <=> \A a \in Names : Kept(accepted[a], given[a], mail[a])
BY DEF KeptOrGiven, Kept

-----------------------------------------------------------------------------
(* The messages                                                             *)

\* Steps that do nothing with messages and log nobody in.
LEMMA QuietMail ==
  ASSUME MailInv,
         UNCHANGED <<mail, given, accepted>>,
         pc \notin {"login", "offline"}, pc' \notin {"login", "offline"},
         \A a \in Names : lookup'[a] # 0 => lookup[a] # 0,
         restarts' = 0 /\ pc' # "down" => restarts = 0 /\ pc # "down"
  PROVE  MailInv'
<1>1. \A a \in Names : Handed(a) = 0 /\ Handed(a)' = 0
  BY DEF Handed
<1>2. InOrder'
  BY <1>1 DEF MailInv, InOrder
<1>3. OnlineHasNoMail'
  BY DEF MailInv, OnlineHasNoMail
<1>4. KeptOrGiven'
  BY DEF MailInv, KeptOrGiven
<1> QED BY <1>2, <1>3, <1>4 DEF MailInv, MailTypeOK, RowInRange, RowsGiven

\* The end of the process.
LEMMA ExitInv ==
  ASSUME ServerInv, Exit
  PROVE  ServerInv'
<1>1. StreamsInv'
  BY CloseAllStreams DEF Exit, ServerInv
<1>2. HandlerTypeOK'
  BY ZeroType, WelcomeType, ChatAssumption DEF Exit, Idle, HandlerTypeOK
<1>3. TableTypeOK'
  BY ChatAssumption DEF Exit, tableVars, TableTypeOK, ServerInv
<1>4. MailInv'
  <2>1. UNCHANGED <<mail, given, accepted>> /\ pc' = "down"
        /\ \A a \in Names : lookup'[a] = 0
    BY DEF Exit, tableVars
  <2>2. InOrder' /\ OnlineHasNoMail'
    BY <2>1 DEF InOrder, OnlineHasNoMail
  <2>3. KeptOrGiven'
    BY <2>1 DEF ServerInv, MailInv, KeptOrGiven
  <2> QED BY <2>1, <2>2, <2>3 DEF ServerInv, MailInv, MailTypeOK, RowInRange, RowsGiven
<1> QED BY <1>1, <1>2, <1>3, <1>4 DEF ServerInv

-----------------------------------------------------------------------------
(* The handlers                                                             *)

LEMMA ReadTypes ==
  ASSUME ServerInv, NEW k \in Sessions, NEW type, Read(k, type)
  PROVE  /\ Request(k) \in Requests
         /\ pc = "wait" /\ restarts' = restarts
         /\ fd[k] \in 0 .. MaxFd /\ fd[k] # 0
         /\ /\ toClient' \in [Sessions -> Seq(Replies)]
            /\ ending' \in [Sessions -> Endings]
            => StreamsInv'
<1>1. toServer[k] \in Seq(Requests) /\ toServer[k] # <<>>
  BY DEF ServerInv, StreamsInv, StreamsTypeOK, Read, Readable
<1>2. Request(k) \in Requests
  BY <1>1, HeadTailProperties DEF Request
<1>3. /\ fd' \in [Sessions -> 0 .. MaxFd] /\ backlog' \in Seq(Sessions)
      /\ toServer' \in [Sessions -> Seq(Requests)] /\ OneEach'
  BY <1>1, TakeStreams DEF Read, ServerInv
<1> QED BY <1>2, <1>3 DEF Read, Readable, ServerInv, StreamsInv, StreamsTypeOK

LEMMA AnswerTypes ==
  ASSUME ServerInv, NEW k \in Sessions, NEW type, Read(k, type),
         NEW status \in Statuses, AnswerWith(k, status)
  PROVE  StreamsInv' /\ HandlerTypeOK' /\ pc' = "reply"
<1>1. StreamsInv'
  <2>1. toClient' \in [Sessions -> Seq(Replies)] /\ ending' \in [Sessions -> Endings]
    BY DEF AnswerWith, ServerInv, StreamsInv, StreamsTypeOK
  <2> QED BY <2>1, ReadTypes
<1>2. fd[k] \in 0 .. MaxFd
  BY ReadTypes
<1>3. Answer(status) \in Replies
  BY AnswerType
<1> QED BY <1>1, <1>2, <1>3, ZeroType DEF AnswerWith, HandlerTypeOK

\* A request that is answered at once, with the tables of the accounts changed
\* or not.
LEMMA AnsweredInv ==
  ASSUME ServerInv, NEW k \in Sessions, NEW type, Read(k, type),
         NEW status \in Statuses, AnswerWith(k, status),
         password' \in [Names -> Passwords \union {Absent}],
         nickname' \in [Names -> Nicknames],
         UNCHANGED <<lookup, mail, accepted, given>>
  PROVE  ServerInv'
<1>1. StreamsInv' /\ HandlerTypeOK' /\ pc' = "reply"
  BY AnswerTypes
<1>2. pc = "wait" /\ restarts' = restarts
  BY ReadTypes
<1>3. TableTypeOK'
  BY <1>2 DEF ServerInv, TableTypeOK
<1>4. MailInv'
  BY <1>1, <1>2, QuietMail DEF ServerInv
<1> QED BY <1>1, <1>3, <1>4 DEF ServerInv

LEMMA AccountFields ==
  ASSUME NEW q \in Requests
  PROVE  /\ q.account \in Names /\ q.receiver \in Names /\ q.pass \in Passwords
         /\ q.nick \in Nicknames /\ q.msg \in Messages
BY DEF Requests

LEMMA RegistionInv ==
  ASSUME ServerInv, NEW k \in Sessions, Registion(k)
  PROVE  ServerInv'
<1> DEFINE q == Request(k)
<1>1. Read(k, "Registion") /\ UNCHANGED <<lookup, mail, accepted, given>>
  BY DEF Registion
<1>2. /\ q.account \in Names /\ q.pass \in Passwords /\ q.nick \in Nicknames
  BY <1>1, ReadTypes, AccountFields
<1>3. /\ password' \in {password, [password EXCEPT ![q.account] = q.pass]}
      /\ nickname' \in {nickname, [nickname EXCEPT ![q.account] = q.nick]}
      /\ AnswerWith(k, "succceed") \/ AnswerWith(k, "exception")
  BY DEF Registion
<1> HIDE DEF q
<1>4. /\ password' \in [Names -> Passwords \union {Absent}]
      /\ nickname' \in [Names -> Nicknames]
  BY <1>2, <1>3 DEF ServerInv, TableTypeOK
<1>5. PICK status \in Statuses : AnswerWith(k, status)
  BY <1>3 DEF Statuses
<1> QED BY <1>1, <1>4, <1>5, AnsweredInv

LEMMA RecoverPasswordInv ==
  ASSUME ServerInv, NEW k \in Sessions, RecoverPassword(k)
  PROVE  ServerInv'
<1> DEFINE q == Request(k)
<1>1. Read(k, "RecoverPassword") /\ UNCHANGED <<lookup, nickname, mail, accepted, given>>
  BY DEF RecoverPassword
<1>2. q.account \in Names /\ q.pass \in Passwords
  BY <1>1, ReadTypes, AccountFields
<1>3. /\ password' \in {password, [password EXCEPT ![q.account] = q.pass]}
      /\ \/ AnswerWith(k, "elsewhere") \/ AnswerWith(k, "recovered")
         \/ AnswerWith(k, "wrong")
  BY DEF RecoverPassword
<1> HIDE DEF q
<1>4. /\ password' \in [Names -> Passwords \union {Absent}]
      /\ nickname' \in [Names -> Nicknames]
  BY <1>1, <1>2, <1>3 DEF ServerInv, TableTypeOK
<1>5. PICK status \in Statuses : AnswerWith(k, status)
  BY <1>3 DEF Statuses
<1> QED BY <1>1, <1>4, <1>5, AnsweredInv

\* A handler that goes on with pc, and has changed no table.
LEMMA GoesOnTypes ==
  ASSUME ServerInv, NEW k \in Sessions, NEW type, Read(k, type),
         UNCHANGED <<toClient, ending>>
  PROVE  StreamsInv'
BY ReadTypes DEF ServerInv, StreamsInv, StreamsTypeOK

LEMMA LoginInInv ==
  ASSUME ServerInv, NEW k \in Sessions, LoginIn(k)
  PROVE  ServerInv'
<1> DEFINE q == Request(k)
<1>1. /\ Read(k, "LoginIn")
      /\ UNCHANGED <<password, nickname, mail, accepted, given>>
  BY DEF LoginIn, tableVars
<1>2. q.account \in Names /\ pc = "wait" /\ restarts' = restarts /\ fd[k] \in 0 .. MaxFd
  BY <1>1, ReadTypes, AccountFields
<1>3. CASE ~LoginGranted(q)
  <2>1. /\ AnswerWith(k, "elsewhere") \/ AnswerWith(k, "wrong")
        /\ UNCHANGED lookup
    BY <1>3 DEF LoginIn
  <2>2. PICK status \in Statuses : AnswerWith(k, status)
    BY <2>1 DEF Statuses
  <2>3. password' \in [Names -> Passwords \union {Absent}] /\ nickname' \in [Names -> Nicknames]
    BY <1>1 DEF ServerInv, TableTypeOK
  <2> QED BY <1>1, <2>1, <2>2, <2>3, AnsweredInv
<1>4. CASE LoginGranted(q)
  <2>1. /\ lookup' = [lookup EXCEPT ![q.account] = fd[k]]
        /\ pc' = "login" /\ conn' = fd[k] /\ who' = q.account /\ row' = 1
        /\ UNCHANGED <<reply, actives, toClient, ending>>
    BY <1>4 DEF LoginIn
  <2> HIDE DEF q
  <2>2. StreamsInv'
    BY <1>1, <2>1, GoesOnTypes
  <2>3. HandlerTypeOK'
    BY <1>2, <2>1 DEF HandlerTypeOK, ServerInv
  <2>4. TableTypeOK'
    BY <1>1, <1>2, <2>1 DEF TableTypeOK, ServerInv
  <2>5. OnlineHasNoMail'
    <3> SUFFICES ASSUME NEW a \in Names, lookup'[a] # 0, mail'[a] # <<>>
                 PROVE  a = q.account
      BY <2>1 DEF OnlineHasNoMail
    <3>1. a # q.account => lookup[a] # 0 /\ mail[a] # <<>>
      BY <1>1, <2>1 DEF ServerInv, TableTypeOK
    <3> QED BY <1>2, <3>1 DEF ServerInv, MailInv, OnlineHasNoMail
  <2>6. InOrder'
    <3>1. \A a \in Names : Handed(a) = 0 /\ Handed(a)' = 0
      BY <1>2, <2>1 DEF Handed
    <3> QED BY <1>1, <1>2, <2>1, <3>1 DEF ServerInv, MailInv, InOrder
  <2>7. KeptOrGiven'
    BY <1>1 DEF ServerInv, MailInv, KeptOrGiven
  <2>8. MailTypeOK' /\ RowInRange' /\ RowsGiven'
    BY <1>1, <2>1 DEF ServerInv, MailInv, MailTypeOK, RowInRange, RowsGiven
  <2> QED BY <2>2, <2>3, <2>4, <2>5, <2>6, <2>7, <2>8 DEF ServerInv, MailInv
<1> QED BY <1>3, <1>4

LEMMA P2PRequestInv ==
  ASSUME ServerInv, NEW k \in Sessions, P2PRequest(k)
  PROVE  ServerInv'
<1> DEFINE q == Request(k)
<1>1. /\ Read(k, "P2PRequest")
      /\ UNCHANGED <<lookup, password, nickname, mail, accepted, given>>
  BY DEF P2PRequest, tableVars
<1>2. q \in Requests /\ pc = "wait" /\ restarts' = restarts
  BY <1>1, ReadTypes
<1>3. TableTypeOK'
  BY <1>1, <1>2 DEF TableTypeOK, ServerInv
<1>4. CASE lookup[q.receiver] # 0
  <2>1. Send(lookup[q.receiver], Relay(q)) /\ UNCHANGED <<pc, handlerVars>>
    BY <1>4 DEF P2PRequest
  <2>2. Relay(q) \in Replies
    BY <1>2, RelayType
  <2>3. StreamsInv'
    BY <1>1, <2>1, <2>2, SendTypes, ReadTypes DEF ServerInv
  <2>4. HandlerTypeOK'
    BY <2>1 DEF HandlerTypeOK, handlerVars, ServerInv
  <2>5. MailInv'
    BY <1>1, <1>2, <2>1, QuietMail DEF ServerInv
  <2> QED BY <1>3, <2>3, <2>4, <2>5 DEF ServerInv
<1>5. CASE lookup[q.receiver] = 0
  <2>1. AnswerWith(k, "offline")
    BY <1>5 DEF P2PRequest
  <2>2. password' \in [Names -> Passwords \union {Absent}] /\ nickname' \in [Names -> Nicknames]
    BY <1>1 DEF ServerInv, TableTypeOK
  <2>3. "offline" \in Statuses
    BY DEF Statuses
  <2> QED BY <1>1, <2>1, <2>2, <2>3, AnsweredInv
<1> QED BY <1>4, <1>5

LEMMA FindActiveInv ==
  ASSUME ServerInv, NEW k \in Sessions, FindActiveRequest(k)
  PROVE  ServerInv'
<1>1. /\ Read(k, "FindActiveRequest")
      /\ UNCHANGED <<lookup, password, nickname, mail, accepted, given>>
      /\ UNCHANGED <<reply, who, row, toClient, ending>>
      /\ actives' \subseteq Names /\ pc' = "active" /\ conn' = fd[k]
  BY DEF FindActiveRequest, tableVars
<1>2. pc = "wait" /\ restarts' = restarts /\ fd[k] \in 0 .. MaxFd
  BY <1>1, ReadTypes
<1>3. StreamsInv'
  BY <1>1, GoesOnTypes
<1>4. HandlerTypeOK' /\ TableTypeOK'
  BY <1>1, <1>2 DEF HandlerTypeOK, TableTypeOK, ServerInv
<1>5. MailInv'
  BY <1>1, <1>2, QuietMail DEF ServerInv
<1> QED BY <1>3, <1>4, <1>5 DEF ServerInv

LEMMA ClientIsDownInv ==
  ASSUME ServerInv, NEW k \in Sessions, ClientIsDown(k)
  PROVE  ServerInv'
<1>1. /\ pc = "wait" /\ CloseFd(k)
      /\ lookup' = [a \in Names |-> IF a \in FirstOf(fd[k]) THEN 0 ELSE lookup[a]]
      /\ UNCHANGED <<backlog, toServer, toClient, ending>>
      /\ UNCHANGED <<pc, conn, reply, who, row, actives>>
      /\ UNCHANGED <<password, nickname, mail, restarts, accepted, given>>
  BY DEF ClientIsDown, Forget, handlerVars, tableVars
<1>2. StreamsInv'
  BY <1>1, CloseStreams DEF ServerInv
<1>3. lookup' \in [Names -> 0 .. MaxFd]
  BY <1>1, ChatAssumption DEF ServerInv, TableTypeOK
<1>4. HandlerTypeOK' /\ TableTypeOK'
  BY <1>1, <1>3 DEF HandlerTypeOK, TableTypeOK, ServerInv
<1>5. \A a \in Names : lookup'[a] # 0 => lookup[a] # 0
  BY <1>1
<1>6. MailInv'
  BY <1>1, <1>5, QuietMail DEF ServerInv
<1> QED BY <1>2, <1>4, <1>6 DEF ServerInv

LEMMA RelayMail ==
  ASSUME ServerInv, NEW a \in Names, NEW m \in Messages,
         pc = "wait", lookup[a] # 0, Deliver(a, m),
         UNCHANGED <<pc, who, row, lookup, mail, restarts>>
  PROVE  MailInv'
<1>1. /\ accepted' = [accepted EXCEPT ![a] = Append(@, m)]
      /\ given' = [given EXCEPT ![a] = Append(@, m)]
  BY DEF Deliver
<1>2. /\ accepted[a] \in Seq(Messages) /\ given[a] \in Seq(Messages)
      /\ mail[a] = <<>>
  BY DEF ServerInv, MailInv, MailTypeOK, OnlineHasNoMail
<1>3. MailTypeOK'
  BY <1>1, <1>2, AppendPlaces DEF ServerInv, MailInv, MailTypeOK
<1>4. /\ accepted'[a] = Append(accepted[a], m) /\ given'[a] = Append(given[a], m)
      /\ \A b \in Names \ {a} : accepted'[b] = accepted[b] /\ given'[b] = given[b]
  BY <1>1 DEF ServerInv, MailInv, MailTypeOK
<1>5. OnlineHasNoMail' /\ RowInRange' /\ RowsGiven'
  BY DEF ServerInv, MailInv, OnlineHasNoMail, RowInRange, RowsGiven
<1>6. ASSUME NEW b \in Names PROVE Kept(accepted'[b], given'[b], mail'[b])
  <2>1. Kept(accepted[b], given[b], mail[b])
    BY KeptIs DEF ServerInv, MailInv
  <2>2. CASE b = a
    BY <1>2, <1>4, <2>1, <2>2, KeptRelay
  <2> QED BY <1>4, <2>1, <2>2
<1>7. KeptOrGiven'
  BY <1>6 DEF KeptOrGiven, Kept
<1>8. ASSUME restarts' = 0, NEW b \in Names
      PROVE  Ordered(accepted'[b], given'[b], mail'[b], Handed(b)')
  <2>1. Handed(b) = 0 /\ Handed(b)' = 0
    BY DEF Handed
  <2>2. Ordered(accepted[b], given[b], mail[b], 0)
    BY <1>8, <2>1 DEF ServerInv, MailInv, InOrder
  <2>3. CASE b = a
    BY <1>2, <1>4, <2>1, <2>2, <2>3, OrderedRelay
  <2> QED BY <1>4, <2>1, <2>2, <2>3
<1>9. InOrder'
  BY <1>8 DEF InOrder
<1> QED BY <1>3, <1>5, <1>7, <1>9 DEF MailInv

LEMMA StoreMail ==
  ASSUME ServerInv, NEW q \in Requests,
         pc = "wait", lookup[q.receiver] = 0, Store(q),
         UNCHANGED <<pc, who, row, lookup, given, restarts>>
  PROVE  MailInv'
<1> DEFINE a == q.receiver
           r == [msg |-> q.msg, sender |-> q.account]
<1>1. /\ mail' = [mail EXCEPT ![a] = Append(@, r)]
      /\ accepted' = [accepted EXCEPT ![a] = Append(@, r.msg)]
  BY DEF Store
<1>2. a \in Names /\ r \in Rows /\ r.msg \in Messages
  BY AccountFields DEF Rows
<1> HIDE DEF r
<1>3. /\ accepted[a] \in Seq(Messages) /\ given[a] \in Seq(Messages)
      /\ mail[a] \in Seq(Rows)
  BY <1>2 DEF ServerInv, MailInv, MailTypeOK
<1>4. MailTypeOK'
  BY <1>1, <1>2, <1>3, AppendPlaces DEF ServerInv, MailInv, MailTypeOK
<1>5. /\ accepted'[a] = Append(accepted[a], r.msg) /\ mail'[a] = Append(mail[a], r)
      /\ \A b \in Names \ {a} : accepted'[b] = accepted[b] /\ mail'[b] = mail[b]
  BY <1>1, <1>2 DEF ServerInv, MailInv, MailTypeOK
<1>6. OnlineHasNoMail'
  BY <1>5 DEF ServerInv, MailInv, OnlineHasNoMail
<1>7. RowInRange' /\ RowsGiven'
  BY DEF RowInRange, RowsGiven
<1>8. ASSUME NEW b \in Names PROVE Kept(accepted'[b], given'[b], mail'[b])
  <2>1. Kept(accepted[b], given[b], mail[b])
    BY KeptIs DEF ServerInv, MailInv
  <2>2. CASE b = a
    BY <1>2, <1>3, <1>5, <2>1, <2>2, KeptStore
  <2> QED BY <1>5, <2>1, <2>2
<1>9. KeptOrGiven'
  BY <1>8 DEF KeptOrGiven, Kept
<1>10. ASSUME restarts' = 0, NEW b \in Names
       PROVE  Ordered(accepted'[b], given'[b], mail'[b], Handed(b)')
  <2>1. Handed(b) = 0 /\ Handed(b)' = 0
    BY DEF Handed
  <2>2. Ordered(accepted[b], given[b], mail[b], 0)
    BY <1>10, <2>1 DEF ServerInv, MailInv, InOrder
  <2>3. CASE b = a
    BY <1>2, <1>3, <1>5, <2>1, <2>2, <2>3, OrderedStore
  <2> QED BY <1>5, <2>1, <2>2, <2>3
<1>11. InOrder'
  BY <1>10 DEF InOrder
<1> QED BY <1>4, <1>6, <1>7, <1>9, <1>11 DEF MailInv

LEMMA SendMessageInv ==
  ASSUME ServerInv, NEW k \in Sessions, SendMessage(k)
  PROVE  ServerInv'
<1> DEFINE q == Request(k)
           to == lookup[q.receiver]
<1>1. /\ Read(k, "SendMessage")
      /\ UNCHANGED <<pc, conn, reply, who, row, actives>>
      /\ UNCHANGED <<lookup, password, nickname>>
  BY DEF SendMessage, handlerVars, tableVars
<1>2. q \in Requests /\ pc = "wait" /\ restarts' = restarts
  BY <1>1, ReadTypes
<1>3. q.account \in Names /\ q.receiver \in Names /\ q.msg \in Messages
  BY <1>2, AccountFields
<1>4. HandlerTypeOK' /\ TableTypeOK'
  BY <1>1, <1>2 DEF HandlerTypeOK, TableTypeOK, ServerInv
<1>5. CASE to # 0
  <2>1. /\ Send(to, Message(q.msg, q.account, q.receiver, "whole"))
        /\ Deliver(q.receiver, q.msg) /\ UNCHANGED mail
    BY <1>5 DEF SendMessage, tableVars
  <2>2. Message(q.msg, q.account, q.receiver, "whole") \in Replies
    BY <1>3, MessageType
  <2>3. StreamsInv'
    BY <1>1, <2>1, <2>2, SendTypes, ReadTypes DEF ServerInv
  <2>4. MailInv'
    BY <1>1, <1>2, <1>3, <1>5, <2>1, RelayMail
  <2> QED BY <1>4, <2>3, <2>4 DEF ServerInv
<1>6. CASE to = 0
  <2>1. Store(q) /\ UNCHANGED <<given, toClient, ending>>
    BY <1>6 DEF SendMessage
  <2>2. StreamsInv'
    BY <1>1, <2>1, GoesOnTypes
  <2>3. MailInv'
    BY <1>1, <1>2, <1>6, <2>1, StoreMail
  <2> QED BY <1>4, <2>2, <2>3 DEF ServerInv
<1> QED BY <1>5, <1>6

-----------------------------------------------------------------------------
(* The writes                                                               *)

\* A write that is the last one, or one of several, of a handler that has
\* nothing to do with messages.
LEMMA QuietWriteInv ==
  ASSUME ServerInv, NEW frame \in Replies,
         \/ Send(conn, frame) /\ UNCHANGED <<fd, backlog, toServer>>
         \/ UNCHANGED streamVars,
         HandlerTypeOK',
         UNCHANGED <<lookup, tableVars, restarts, accepted, given>>,
         pc \in {"reply", "active"}, pc' \in {"wait", "active"}
  PROVE  ServerInv'
<1>1. StreamsInv'
  BY SendStreams DEF streamVars, ServerInv, StreamsInv, StreamsTypeOK, OneEach
<1>2. TableTypeOK'
  BY DEF TableTypeOK, tableVars, ServerInv
<1>3. MailInv'
  BY QuietMail DEF ServerInv, tableVars
<1> QED BY <1>1, <1>2, <1>3 DEF ServerInv

LEMMA ReturnTypes ==
  ASSUME Return
  PROVE  HandlerTypeOK' /\ pc' = "wait"
BY ZeroType, WelcomeType, ChatAssumption DEF Return, Idle, HandlerTypeOK

LEMMA AnswersInv ==
  ASSUME ServerInv, SendReply \/ SendActive \/ ActiveDone
  PROVE  ServerInv'
<1>1. CASE SendReply
  <2>1. HandlerTypeOK' /\ pc' = "wait"
    BY <1>1, ReturnTypes DEF SendReply
  <2>2. reply \in Replies
    BY DEF ServerInv, HandlerTypeOK
  <2> QED BY <1>1, <2>1, <2>2, QuietWriteInv DEF SendReply
<1>2. CASE SendActive
  <2>1. PICK a \in actives :
          /\ Send(conn, Active(a)) /\ actives' = actives \ {a}
    BY <1>2 DEF SendActive
  <2>2. Active(a) \in Replies
    BY ActiveType DEF ServerInv, HandlerTypeOK
  <2>3. HandlerTypeOK'
    BY <1>2, <2>1 DEF SendActive, ServerInv, HandlerTypeOK
  <2> QED BY <1>2, <2>1, <2>2, <2>3, QuietWriteInv DEF SendActive
<1>3. CASE ActiveDone
  <2>1. HandlerTypeOK' /\ pc' = "wait"
    BY <1>3, ReturnTypes DEF ActiveDone
  <2> QED BY <1>3, <2>1, WelcomeType, QuietWriteInv DEF ActiveDone
<1> QED BY <1>1, <1>2, <1>3

LEMMA SendWelcomeInv ==
  ASSUME ServerInv, SendWelcome
  PROVE  ServerInv'
<1>1. /\ pc = "login" /\ pc' = "offline" /\ Send(conn, Welcome)
      /\ UNCHANGED <<fd, backlog, toServer>>
      /\ UNCHANGED <<conn, reply, who, row, actives>>
      /\ UNCHANGED <<lookup, password, nickname, mail, restarts, accepted, given>>
  BY DEF SendWelcome, handlerVars, tableVars
<1>2. StreamsInv'
  BY <1>1, WelcomeType, SendStreams DEF ServerInv
<1>3. HandlerTypeOK' /\ TableTypeOK'
  BY <1>1 DEF HandlerTypeOK, TableTypeOK, ServerInv
<1>4. row = 1 /\ who \in Names
  BY <1>1 DEF ServerInv, MailInv, RowInRange, HandlerTypeOK
<1>5. OnlineHasNoMail'
  BY <1>1 DEF ServerInv, MailInv, OnlineHasNoMail
<1>6. RowInRange' /\ RowsGiven'
  <2>1. Len(mail[who]) \in Nat
    BY <1>4, LenProperties DEF ServerInv, MailInv, MailTypeOK
  <2> QED BY <1>1, <1>4, <2>1 DEF RowInRange, RowsGiven, Passed
<1>7. InOrder'
  <2>1. \A a \in Names : Handed(a) = 0 /\ Handed(a)' = 0
    BY <1>1, <1>4 DEF Handed
  <2> QED BY <1>1, <2>1 DEF ServerInv, MailInv, InOrder
<1>8. MailTypeOK' /\ KeptOrGiven'
  BY <1>1 DEF ServerInv, MailInv, MailTypeOK, KeptOrGiven
<1> QED BY <1>2, <1>3, <1>5, <1>6, <1>7, <1>8 DEF ServerInv, MailInv

LEMMA SendOfflineInv ==
  ASSUME ServerInv, SendOffline
  PROVE  ServerInv'
<1>1. /\ pc = "offline" /\ row <= Len(mail[who])
      /\ Send(conn, FromTable(who, mail[who][row]))
      /\ given' = [given EXCEPT ![who] = Append(@, mail[who][row].msg)]
      /\ row' = row + 1
      /\ UNCHANGED <<fd, backlog, toServer>>
      /\ UNCHANGED <<pc, conn, reply, who, actives>>
      /\ UNCHANGED <<lookup, password, nickname, mail, restarts, accepted>>
  BY DEF SendOffline, NextRow, tableVars
<1>2. who \in Names /\ row \in Nat
  BY DEF ServerInv, HandlerTypeOK
<1>3. /\ mail[who] \in Seq(Rows) /\ given[who] \in Seq(Messages)
      /\ accepted[who] \in Seq(Messages) /\ Len(mail[who]) \in Nat
  BY <1>2, LenProperties DEF ServerInv, MailInv, MailTypeOK
<1>4. row \in 1 .. Len(mail[who])
  BY <1>1, <1>2, <1>3 DEF ServerInv, MailInv, RowInRange
<1>5. mail[who][row] \in Rows
  BY <1>3, <1>4, ElementOfSeq
<1>6. mail[who][row].msg \in Messages
  BY <1>5 DEF Rows
<1>7. StreamsInv'
  <2>1. FromTable(who, mail[who][row]) \in Replies
    BY <1>2, <1>6, MessageType DEF FromTable
  <2> QED BY <1>1, <2>1, SendStreams DEF ServerInv
<1>8. HandlerTypeOK' /\ TableTypeOK'
  BY <1>1, <1>2 DEF HandlerTypeOK, TableTypeOK, ServerInv
<1>9. /\ given'[who] = Append(given[who], mail[who][row].msg)
      /\ \A b \in Names \ {who} : given'[b] = given[b]
  BY <1>1, <1>2 DEF ServerInv, MailInv, MailTypeOK
<1>10. MailTypeOK'
  BY <1>1, <1>3, <1>6, AppendPlaces DEF ServerInv, MailInv, MailTypeOK
<1>11. OnlineHasNoMail'
  BY <1>1 DEF ServerInv, MailInv, OnlineHasNoMail
<1> DEFINE h == row - 1
<1>12. h \in Nat /\ h + 1 = row /\ h < Len(mail[who]) /\ row' - 1 = row
  BY <1>1, <1>3, <1>4
<1>13. RowInRange' /\ RowsGiven'
  <2>1. Passed(given[who], mail[who], h)
    BY <1>1 DEF ServerInv, MailInv, RowsGiven
  <2> HIDE DEF h
  <2>2. Passed(given'[who], mail[who], row)
    BY <1>3, <1>6, <1>9, <1>12, <2>1, PassedHand
  <2>3. row' \in 1 .. Len(mail[who]) + 1
    BY <1>1, <1>3, <1>4
  <2> QED BY <1>1, <1>12, <2>2, <2>3 DEF RowInRange, RowsGiven
<1>14. ASSUME NEW b \in Names PROVE Kept(accepted'[b], given'[b], mail'[b])
  <2>1. Kept(accepted[b], given[b], mail[b])
    BY KeptIs DEF ServerInv, MailInv
  <2>2. CASE b = who
    BY <1>1, <1>3, <1>6, <1>9, <2>1, <2>2, KeptHand
  <2> QED BY <1>1, <1>9, <2>1, <2>2
<1>15. KeptOrGiven'
  BY <1>14 DEF KeptOrGiven, Kept
<1>16. ASSUME restarts' = 0, NEW b \in Names
       PROVE  Ordered(accepted'[b], given'[b], mail'[b], Handed(b)')
  <2>1. Ordered(accepted[b], given[b], mail[b], Handed(b))
    BY <1>1, <1>16 DEF ServerInv, MailInv, InOrder
  <2>2. CASE b = who
    <3>1. Handed(b) = h /\ Handed(b)' = row
      BY <1>1, <1>12, <2>2 DEF Handed
    <3> HIDE DEF h
    <3>2. Ordered(accepted[who], Append(given[who], mail[who][row].msg), mail[who], row)
      BY <1>3, <1>6, <1>12, <2>1, <2>2, <3>1, OrderedHand
    <3> QED BY <1>1, <1>9, <2>2, <3>1, <3>2
  <2>3. CASE b # who
    <3>1. Handed(b) = 0 /\ Handed(b)' = 0
      BY <1>1, <2>3 DEF Handed
    <3> QED BY <1>1, <1>9, <2>1, <2>3, <3>1
  <2> QED BY <2>2, <2>3
<1>17. InOrder'
  BY <1>16 DEF InOrder
<1> QED BY <1>7, <1>8, <1>10, <1>11, <1>13, <1>15, <1>17 DEF ServerInv, MailInv

LEMMA DeleteOfflineInv ==
  ASSUME ServerInv, DeleteOffline
  PROVE  ServerInv'
<1>1. /\ pc = "offline" /\ row > Len(mail[who])
      /\ mail' = [mail EXCEPT ![who] = <<>>]
      /\ Return
      /\ UNCHANGED streamVars
      /\ UNCHANGED <<lookup, password, nickname, restarts, accepted, given>>
  BY DEF DeleteOffline
<1>2. who \in Names /\ row \in Nat
  BY DEF ServerInv, HandlerTypeOK
<1>3. /\ mail[who] \in Seq(Rows) /\ given[who] \in Seq(Messages)
      /\ accepted[who] \in Seq(Messages) /\ Len(mail[who]) \in Nat
  BY <1>2, LenProperties DEF ServerInv, MailInv, MailTypeOK
<1>4. row - 1 = Len(mail[who])
  BY <1>1, <1>2, <1>3 DEF ServerInv, MailInv, RowInRange
<1>5. StreamsInv'
  BY <1>1 DEF streamVars, ServerInv, StreamsInv, StreamsTypeOK, OneEach
<1>6. HandlerTypeOK' /\ pc' = "wait"
  BY <1>1, ReturnTypes
<1>7. TableTypeOK'
  BY <1>1 DEF TableTypeOK, ServerInv
<1>8. /\ mail'[who] = <<>>
      /\ \A b \in Names \ {who} : mail'[b] = mail[b]
      /\ MailTypeOK'
  BY <1>1, <1>2, EmptySeq DEF ServerInv, MailInv, MailTypeOK
<1>9. OnlineHasNoMail'
  BY <1>1, <1>8 DEF ServerInv, MailInv, OnlineHasNoMail
<1>10. RowInRange' /\ RowsGiven'
  BY <1>6 DEF RowInRange, RowsGiven
<1>11. ASSUME NEW b \in Names PROVE Kept(accepted'[b], given'[b], mail'[b])
  <2>1. Kept(accepted[b], given[b], mail[b])
    BY KeptIs DEF ServerInv, MailInv
  <2>2. Passed(given[who], mail[who], Len(mail[who]))
    BY <1>1, <1>4 DEF ServerInv, MailInv, RowsGiven
  <2>3. CASE b = who
    BY <1>1, <1>3, <1>8, <2>1, <2>2, <2>3, KeptDone
  <2> QED BY <1>1, <1>8, <2>1, <2>3
<1>12. KeptOrGiven'
  BY <1>11 DEF KeptOrGiven, Kept
<1>13. ASSUME restarts' = 0, NEW b \in Names
       PROVE  Ordered(accepted'[b], given'[b], mail'[b], Handed(b)')
  <2>1. Ordered(accepted[b], given[b], mail[b], Handed(b))
    BY <1>1, <1>13 DEF ServerInv, MailInv, InOrder
  <2>2. Handed(b)' = 0
    BY <1>6 DEF Handed
  <2>3. CASE b = who
    <3>1. Handed(b) = Len(mail[who])
      BY <1>1, <1>4, <2>3 DEF Handed
    <3> QED BY <1>1, <1>3, <1>8, <2>1, <2>2, <2>3, <3>1, OrderedDone
  <2>4. CASE b # who
    <3>1. Handed(b) = 0
      BY <1>1, <2>4 DEF Handed
    <3> QED BY <1>1, <1>8, <2>1, <2>2, <2>4, <3>1
  <2> QED BY <2>3, <2>4
<1>14. InOrder'
  BY <1>13 DEF InOrder
<1> QED BY <1>5, <1>6, <1>7, <1>8, <1>9, <1>10, <1>12, <1>14 DEF ServerInv, MailInv

-----------------------------------------------------------------------------
(* The process                                                              *)

LEMMA IncomingInv ==
  ASSUME ServerInv, Incoming
  PROVE  ServerInv'
<1>1. pc = "wait" /\ Accept /\ UNCHANGED serverVars
  BY DEF Incoming
<1>2. StreamsInv'
  BY <1>1, AcceptStreams DEF ServerInv
<1>3. HandlerTypeOK' /\ TableTypeOK'
  BY <1>1 DEF serverVars, HandlerTypeOK, TableTypeOK, ServerInv
<1>4. MailInv'
  BY <1>1, QuietMail DEF serverVars, ServerInv
<1> QED BY <1>2, <1>3, <1>4 DEF ServerInv

LEMMA RestartInv ==
  ASSUME ServerInv, Restart
  PROVE  ServerInv'
<1>1. /\ pc = "down" /\ pc' = "wait" /\ restarts < MaxRestarts
      /\ restarts' = restarts + 1
      /\ UNCHANGED <<conn, reply, who, row, actives>>
      /\ UNCHANGED <<lookup, password, nickname, mail, accepted, given>>
      /\ UNCHANGED streamVars
  BY DEF Restart, handlerVars, tableVars
<1>2. StreamsInv'
  BY <1>1 DEF streamVars, ServerInv, StreamsInv, StreamsTypeOK, OneEach
<1>3. restarts \in Nat /\ restarts' \in 0 .. MaxRestarts /\ restarts' # 0
  BY <1>1, ChatAssumption DEF ServerInv, TableTypeOK
<1>4. HandlerTypeOK' /\ TableTypeOK'
  BY <1>1, <1>3 DEF HandlerTypeOK, TableTypeOK, ServerInv
<1>5. MailInv'
  BY <1>1, <1>3, QuietMail DEF ServerInv
<1> QED BY <1>2, <1>4, <1>5 DEF ServerInv

LEMMA ServerNextInv ==
  ASSUME ServerInv, ServerNext
  PROVE  ServerInv'
<1>1. ASSUME NEW k \in Sessions, Visit(k)
      PROVE  ServerInv'
  <2>1. CASE VisitFails(k)
    BY <2>1, ExitInv DEF VisitFails
  <2> QED
    BY <1>1, <2>1, RegistionInv, LoginInInv, SendMessageInv, P2PRequestInv,
       RecoverPasswordInv, FindActiveInv, ClientIsDownInv DEF Visit
<1>2. CASE Continue
  <2>1. CASE AnswerFails
    BY <2>1, ExitInv DEF AnswerFails
  <2> QED
    BY <1>2, <2>1, AnswersInv, SendWelcomeInv, SendOfflineInv, DeleteOfflineInv
       DEF Continue
<1>3. CASE Kill
  BY <1>3, ExitInv DEF Kill
<1> QED BY <1>1, <1>2, <1>3, IncomingInv, RestartInv DEF ServerNext

\* What the users do leaves the server alone.
LEMMA ServerUnchanged ==
  ASSUME ServerInv, StreamsInv', UNCHANGED serverVars
  PROVE  ServerInv'
<1>1. HandlerTypeOK' /\ TableTypeOK'
  BY DEF serverVars, HandlerTypeOK, TableTypeOK, ServerInv
<1>2. MailTypeOK' /\ OnlineHasNoMail' /\ RowInRange' /\ RowsGiven' /\ KeptOrGiven'
  BY DEF serverVars, ServerInv, MailInv, MailTypeOK, OnlineHasNoMail, RowInRange,
         RowsGiven, Passed, KeptOrGiven
<1>3. \A a \in Names : Handed(a)' = Handed(a)
  BY DEF serverVars, Handed
<1>4. InOrder'
  BY <1>3 DEF serverVars, ServerInv, MailInv, InOrder
<1> QED BY <1>1, <1>2, <1>4 DEF ServerInv, MailInv

LEMMA InitInvariant == Init => IInv
<1> SUFFICES ASSUME Init PROVE IInv
  OBVIOUS
<1>1. StreamsInv
  BY EmptySeq, ChatAssumption
     DEF Init, StreamsInit, StreamsInv, StreamsTypeOK, OneEach, Endings
<1>2. HandlerTypeOK
  BY ZeroType, WelcomeType, ChatAssumption DEF Init, ServerInit, HandlerTypeOK
<1>3. TableTypeOK
  BY ChatAssumption
     DEF Init, ServerInit, TableTypeOK, Names, Passwords, Nicknames
<1>4. MailTypeOK /\ \A a \in Names : mail[a] = <<>> /\ accepted[a] = <<>> /\ given[a] = <<>>
  BY EmptySeq DEF Init, ServerInit, MailTypeOK
<1>5. pc = "wait" /\ \A a \in Names : Handed(a) = 0
  BY DEF Init, ServerInit, Handed
<1>6. InOrder
  <2>1. Ordered(<<>>, <<>>, <<>>, 0)
    BY DEF Ordered
  <2> QED BY <1>4, <1>5, <2>1 DEF InOrder
<1>7. OnlineHasNoMail /\ RowInRange /\ RowsGiven /\ KeptOrGiven
  BY <1>4, <1>5 DEF OnlineHasNoMail, RowInRange, RowsGiven, KeptOrGiven
<1>8. UserTypeOK
  BY ZeroType, ChatAssumption, UserAssumption DEF Init, UserInit, UserTypeOK
<1> QED BY <1>1, <1>2, <1>3, <1>4, <1>6, <1>7, <1>8 DEF IInv, ServerInv, MailInv

LEMMA NextInvariant == IInv /\ [Next]_vars => IInv'
<1> SUFFICES ASSUME IInv, [Next]_vars PROVE IInv'
  OBVIOUS
<1> USE DEF IInv
<1>1. CASE Server
  <2>1. UserTypeOK'
    BY <1>1 DEF Server, userVars, UserTypeOK
  <2> QED BY <1>1, <2>1, ServerNextInv DEF Server
<1>2. CASE Users
  <2>1. StreamsInv' /\ UserTypeOK'
    BY <1>2, UserTypes DEF Users, ServerInv
  <2> QED BY <1>2, <2>1, ServerUnchanged DEF Users
<1>3. CASE UNCHANGED vars
  <2>1. StreamsInv' /\ UserTypeOK'
    BY <1>3 DEF vars, streamVars, userVars, StreamsInv, StreamsTypeOK, OneEach,
                UserTypeOK, ServerInv
  <2> QED BY <1>3, <2>1, ServerUnchanged DEF vars
<1> QED BY <1>1, <1>2, <1>3 DEF Next

-----------------------------------------------------------------------------
(* The theorems                                                             *)

\* IInv holds in every state.
THEOREM Invariance == Spec => []IInv
<1>1. IInv /\ [Next]_vars => IInv'
  BY NextInvariant
<1> QED BY InitInvariant, <1>1, PTL DEF Spec

\* Types; in particular a descriptor belongs to one session, whatever order
\* the connections are closed and accepted in.
THEOREM ChatTypeCorrect == Spec => []TypeOK
<1>1. IInv => TypeOK
  BY ServerTypes DEF IInv, ServerInv, StreamsInv, OneEach, MailInv, TypeOK
<1> QED BY Invariance, <1>1, PTL

\* No message waits for an account that is logged in.
THEOREM OnlineCorrect == Spec => []OnlineHasNoMail
<1>1. IInv => OnlineHasNoMail
  BY DEF IInv, ServerInv, MailInv
<1> QED BY Invariance, <1>1, PTL

\* A message the server took is stored or written, wherever it is stopped.
THEOREM KeptCorrect == Spec => []KeptOrGiven
<1>1. IInv => KeptOrGiven
  BY DEF IInv, ServerInv, MailInv
<1> QED BY Invariance, <1>1, PTL

\* As long as the server is not stopped, the messages for an account are
\* written to it once and in the order in which they were taken.
THEOREM OrderCorrect == Spec => []GivenInOrder
<1>1. IInv => GivenInOrder
  <2> SUFFICES ASSUME IInv, restarts = 0, pc # "down", NEW a \in Names
               PROVE  LET stored == [i \in 1 .. Len(mail[a]) |-> mail[a][i].msg]
                      IN accepted[a] = given[a] \o
                           SubSeq(stored, Handed(a) + 1, Len(stored))
    BY DEF GivenInOrder
  <2>1. /\ accepted[a] \in Seq(Messages) /\ given[a] \in Seq(Messages)
        /\ mail[a] \in Seq(Rows) /\ Len(mail[a]) \in Nat
    BY LenProperties DEF IInv, ServerInv, MailInv, MailTypeOK
  <2>2. Handed(a) \in 0 .. Len(mail[a])
    BY <2>1 DEF Handed, IInv, ServerInv, MailInv, RowInRange, HandlerTypeOK
  <2>3. Ordered(accepted[a], given[a], mail[a], Handed(a))
    BY DEF IInv, ServerInv, MailInv, InOrder
  <2>4. accepted[a] = given[a] \o SubSeq(Texts(mail[a]), Handed(a) + 1, Len(Texts(mail[a])))
    BY <2>1, <2>2, <2>3, OrderedMeans
  <2> QED BY <2>4 DEF Texts
<1> QED BY Invariance, <1>1, PTL
=============================================================================
