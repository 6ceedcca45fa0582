--------------------------- MODULE PeerLinkProofs ---------------------------
(***************************************************************************)
(* The connection a client has in lookup for a peer is the connection to   *)
(* that peer, for any number of clients, connections and descriptors,      *)
(* whatever the users type and whoever ends: descriptors are given out     *)
(* again only after the entry that names them is gone.                     *)
(***************************************************************************)
EXTENDS PeerLink, SequenceTheorems, WellFoundedInduction, TLAPS

-----------------------------------------------------------------------------
(* The inductive invariant                                                  *)

Parts == [part : {"type", "fields"}, frame : Frames]

\* Only a request for a connection has a number that is not a file's.
RealFrames == {f \in Frames : f.type # "P2PRequest" => f.num \in Files}

\* What comes from the server: a request names its sender and a connection.
ServerFrames == {f \in RealFrames :
  f.type = "P2PRequest" => f.from \in Peers /\ f.num \in Conns}

\* The main thread never sends a login.
MainFrames == {f \in ServerFrames : f.type # "P2PLogin"}

\* A login that is read names the client at the other side.
PartsAt(e) == {p \in Parts :
  /\ p.frame \in RealFrames
  /\ p.part = "fields" /\ p.frame.type = "P2PLogin" => p.frame.from = owner[Other(e)]}

\* Two connections of a client have different descriptors.
OneEach ==
  \A d, e \in Ends : owner[d] = owner[e] /\ fd[d] = fd[e] /\ fd[d] # 0 => d = e

OwnFds == \A e \in Ends : fd[e] # 0 => owner[e] \in Peers /\ fd[e] # client[owner[e]]

Paired ==
  \A e \in Ends : owner[e] = Nobody => owner[Other(e)] = Nobody /\ stream[e] = <<>>

\* What waits to be accepted is a connection to this client, is there once
\* and has no descriptor yet.
Backlogs ==
  \A c \in Peers :
    /\ backlog[c] \in Seq(Conns)
    /\ \A i \in 1 .. Len(backlog[c]) :
         /\ owner[<<backlog[c][i], 2>>] = c /\ fd[<<backlog[c][i], 2>>] = 0
         /\ \A j \in 1 .. Len(backlog[c]) : backlog[c][i] = backlog[c][j] => i = j

StreamsInv ==
  /\ owner \in [Ends -> Names]
  /\ fd \in [Ends -> 0 .. MaxFd]
  /\ DOMAIN stream = Ends /\ \A e \in Ends : stream[e] \in Seq(PartsAt(e))
  /\ stream = [e \in Ends |-> stream[e]]
  /\ ending \in [Ends -> Endings]
  /\ backlog = [c \in Peers |-> backlog[c]]
  /\ client \in [Peers -> {0, Client}]
  /\ inbox \in [Peers -> Seq(ServerFrames)]
  /\ up \in BOOLEAN
  /\ OneEach /\ OwnFds /\ Paired /\ Backlogs

MainInv ==
  /\ main \in [Peers -> [pc : {"idle", "path", "find", "type", "fields"},
                         at : 0 .. MaxFd, frame : MainFrames]]
  /\ \A c \in Peers : main[c].pc = "path" => main[c].frame.to \in Peers

EpollInv ==
  /\ epoll \in [Peers -> [pc : {"wait", "fields", "link", "login", "loginfields",
                                "erase", "offer", "file", "astray"},
                          end : Ends, frame : RealFrames]]
  /\ \A c \in Peers :
       /\ epoll[c].pc = "fields" => epoll[c].frame.from = Nobody
       /\ epoll[c].pc \in {"offer", "file"} => epoll[c].frame.type = "FileSendRequest"

RestInv ==
  /\ life \in [Peers -> {"on", "left", "exited", "asserted"}]
  /\ lookup \in [Peers -> [Peers -> 0 .. MaxFd]]
  /\ data \in [Peers -> [from : Names, to : Names, path : Files, length : Files]]
  /\ typed \in 0 .. MaxCommands /\ asked \in 0 .. MaxConns
  /\ offers \in Seq([from : Peers, to : Peers]) /\ Len(offers) <= typed
  /\ started \subseteq [from : Peers, to : Peers, file : Files, port : Files, alone : BOOLEAN]
  /\ closed \subseteq Peers

\* What the epoll thread is at is open, and what it puts into lookup is right.
EndInv ==
  \A c \in Peers : epoll[c].pc \in {"fields", "link", "erase"} =>
    /\ owner[epoll[c].end] = c /\ fd[epoll[c].end] # 0
    /\ epoll[c].pc = "link" => owner[Other(epoll[c].end)] = epoll[c].frame.from

LinkInv == LookupIsThePeer /\ EndInv

IInv == StreamsInv /\ MainInv /\ EpollInv /\ RestInv /\ LinkInv

-----------------------------------------------------------------------------
(* Ends, frames and descriptors                                             *)

LEMMA OtherType ==
  ASSUME NEW e \in Ends
  PROVE  Other(e) \in Ends /\ Other(Other(e)) = e /\ Other(e) # e
BY DEF Ends, Other

LEMMA ConnEnds ==
  ASSUME NEW n \in Conns
  PROVE  /\ <<n, 1>> \in Ends /\ <<n, 2>> \in Ends
         /\ Other(<<n, 1>>) = <<n, 2>> /\ Other(<<n, 2>>) = <<n, 1>>
BY DEF Ends, Other

LEMMA PairOfEnds ==
  ASSUME NEW e \in Ends, NEW n \in Conns, e # <<n, 1>>, e # <<n, 2>>
  PROVE  Other(e) # <<n, 1>> /\ Other(e) # <<n, 2>>
BY DEF Ends, Other

LEMMA NobodyIsNoPeer == Nobody \notin Peers
BY PeerStreamsAssumption DEF Nobody

LEMMA FilesType == 0 \in Files
BY PeerAssumption DEF Files

LEMMA FrameType ==
  ASSUME NEW t \in FrameTypes, NEW a \in Names, NEW b \in Names,
         NEW n \in 0 .. MaxConns + MaxCommands, t # "P2PRequest" => n \in Files
  PROVE  Frame(t, a, b, n) \in RealFrames
BY PeerAssumption DEF Frame, RealFrames, Frames

LEMMA BlankType ==
  ASSUME NEW t \in FrameTypes
  PROVE  Blank(t) \in RealFrames /\ Blank(t).type = t /\ Blank(t).from = Nobody
<1>1. Nobody \in Names /\ 0 \in 0 .. MaxConns + MaxCommands
  BY PeerAssumption, PeerStreamsAssumption DEF Names
<1> QED BY <1>1, FilesType, FrameType DEF Blank, Frame

LEMMA StatusType == Blank("OpStatus") \in MainFrames
BY BlankType DEF MainFrames, ServerFrames, FrameTypes

LEMMA TypePart ==
  ASSUME NEW frame \in RealFrames
  PROVE  /\ Type(frame).part = "type" /\ Type(frame) \in Parts
         /\ Type(frame).frame \in RealFrames
<1>1. frame.type \in FrameTypes
  BY DEF RealFrames, Frames
<1>2. Blank(frame.type) \in RealFrames
  BY <1>1, BlankType
<1> QED BY <1>2 DEF Type, Parts, RealFrames

LEMMA FieldsPart ==
  ASSUME NEW frame \in RealFrames
  PROVE  /\ Fields(frame).part = "fields" /\ Fields(frame).frame = frame
         /\ Fields(frame) \in Parts
BY DEF Fields, Parts, RealFrames

LEMMA LowestType ==
  ASSUME NEW c \in Peers, FreeFds(c) # {}
  PROVE  LowestFree(c) \in FreeFds(c)
<1>1. FreeFds(c) \subseteq Nat
  BY PeerStreamsAssumption DEF FreeFds
<1>2. PICK f \in FreeFds(c) : \A g \in FreeFds(c) : ~(<<g, f>> \in OpToRel(<, Nat))
  BY <1>1, NatLessThanWellFounded, WFMin
<1>3. \A g \in FreeFds(c) : f <= g
  <2> SUFFICES ASSUME NEW g \in FreeFds(c) PROVE f <= g
    OBVIOUS
  <2>1. ~(g < f)
    BY <1>1, <1>2 DEF OpToRel
  <2> QED BY <1>1, <2>1
<1> QED BY <1>2, <1>3 DEF LowestFree

\* A descriptor that is given out is nobody's and not the server's.
LEMMA LowestIsFree ==
  ASSUME NEW c \in Peers, FreeFds(c) # {}
  PROVE  /\ LowestFree(c) \in 1 .. MaxFd /\ LowestFree(c) # client[c]
         /\ \A e \in Ends : owner[e] = c => fd[e] # LowestFree(c)
BY LowestType, PeerStreamsAssumption DEF FreeFds, EndsAt, EndsOf

-----------------------------------------------------------------------------
(* Connections                                                              *)

LEMMA ConnectStreams ==
  ASSUME StreamsInv, NEW c \in Peers, NEW n \in Conns, NEW to \in Peers,
         Connect(c, n, to), UNCHANGED up,
         inbox' \in [Peers -> Seq(ServerFrames)]
  PROVE  /\ StreamsInv'
         /\ owner[<<n, 1>>] = Nobody /\ owner[<<n, 2>>] = Nobody
         /\ owner'[<<n, 1>>] = c /\ owner'[<<n, 2>>] = to
         /\ fd'[<<n, 1>>] # 0
         /\ \A e \in Ends : owner[e] # Nobody => owner'[e] = owner[e] /\ fd'[e] = fd[e]
<1> DEFINE f == LowestFree(c)
<1>1. <<n, 1>> \in Ends /\ <<n, 2>> \in Ends
  BY ConnEnds
<1>2. owner[<<n, 1>>] = Nobody /\ owner[<<n, 2>>] = Nobody
  BY <1>1, ConnEnds DEF Connect, StreamsInv, Paired
<1>3. fd[<<n, 1>>] = 0 /\ fd[<<n, 2>>] = 0
  BY <1>1, <1>2, NobodyIsNoPeer DEF StreamsInv, OwnFds
<1>4. f \in 1 .. MaxFd /\ f # client[c] /\ \A e \in Ends : owner[e] = c => fd[e] # f
  BY LowestIsFree DEF Connect
<1>5. /\ owner' = [owner EXCEPT ![<<n, 1>>] = c, ![<<n, 2>>] = to]
      /\ fd' = [fd EXCEPT ![<<n, 1>>] = f]
      /\ backlog' = [backlog EXCEPT ![to] = Append(@, n)]
      /\ UNCHANGED <<stream, ending, client>>
  BY DEF Connect
<1> HIDE DEF f
<1>6. /\ owner'[<<n, 1>>] = c /\ owner'[<<n, 2>>] = to
      /\ \A e \in Ends : e # <<n, 1>> /\ e # <<n, 2>> => owner'[e] = owner[e]
      /\ owner' \in [Ends -> Names]
  <2>1. <<n, 1>> # <<n, 2>> /\ c \in Names /\ to \in Names /\ owner \in [Ends -> Names]
    BY DEF StreamsInv, Names
  <2>2. owner' \in [Ends -> Names]
    BY <2>1, <1>5
  <2> QED BY <2>1, <2>2, <1>1, <1>5
<1>7. /\ fd'[<<n, 1>>] = f
      /\ \A e \in Ends : e # <<n, 1>> => fd'[e] = fd[e]
      /\ fd' \in [Ends -> 0 .. MaxFd]
  BY <1>1, <1>4, <1>5, PeerStreamsAssumption DEF StreamsInv
<1>8. \A e \in Ends : stream'[e] \in Seq(PartsAt(e)')
  <2> SUFFICES ASSUME NEW e \in Ends PROVE stream[e] \in Seq(PartsAt(e)')
    BY <1>5
  <2>1. CASE e = <<n, 1>> \/ e = <<n, 2>>
    <3>1. stream[e] = <<>>
      BY <1>1, <1>2, <2>1 DEF StreamsInv, Paired
    <3> QED BY <3>1, EmptySeq
  <2>2. CASE e # <<n, 1>> /\ e # <<n, 2>>
    <3>1. owner'[Other(e)] = owner[Other(e)]
      BY <1>6, <2>2, PairOfEnds, OtherType
    <3>2. PartsAt(e)' = PartsAt(e)
      BY <3>1 DEF PartsAt
    <3> QED BY <3>2 DEF StreamsInv
  <2> QED BY <2>1, <2>2
<1>9. OneEach'
  <2> SUFFICES ASSUME NEW d \in Ends, NEW e \in Ends,
                      owner'[d] = owner'[e], fd'[d] = fd'[e], fd'[d] # 0
               PROVE  d = e
    BY DEF OneEach
  <2>1. CASE d # <<n, 1>> /\ e # <<n, 1>>
    <3>1. d # <<n, 2>> /\ e # <<n, 2>>
      BY <1>1, <1>3, <1>7, <2>1
    <3> QED BY <3>1, <2>1, <1>6, <1>7 DEF StreamsInv, OneEach
  <2>2. CASE d = <<n, 1>> /\ e # <<n, 1>>
    <3>1. e # <<n, 2>>
      BY <1>1, <1>3, <1>7, <2>2
    <3> QED BY <3>1, <2>2, <1>4, <1>6, <1>7
  <2>3. CASE d # <<n, 1>> /\ e = <<n, 1>>
    <3>1. d # <<n, 2>>
      BY <1>1, <1>3, <1>7, <2>3
    <3> QED BY <3>1, <2>3, <1>4, <1>6, <1>7
  <2> QED BY <2>1, <2>2, <2>3
<1>10. OwnFds'
  <2> SUFFICES ASSUME NEW e \in Ends, fd'[e] # 0
               PROVE  owner'[e] \in Peers /\ fd'[e] # client'[owner'[e]]
    BY DEF OwnFds
  <2>1. CASE e = <<n, 1>>
    BY <2>1, <1>4, <1>5, <1>6, <1>7
  <2>2. CASE e # <<n, 1>>
    <3>1. e # <<n, 2>> /\ fd[e] # 0
      BY <1>1, <1>3, <1>7, <2>2
    <3> QED BY <3>1, <2>2, <1>5, <1>6, <1>7 DEF StreamsInv, OwnFds
  <2> QED BY <2>1, <2>2
<1>11. Paired'
  <2> SUFFICES ASSUME NEW e \in Ends, owner'[e] = Nobody
               PROVE  owner'[Other(e)] = Nobody /\ stream'[e] = <<>>
    BY DEF Paired
  <2>1. e # <<n, 1>> /\ e # <<n, 2>>
    BY <1>6, NobodyIsNoPeer
  <2> QED BY <2>1, <1>5, <1>6, PairOfEnds, OtherType DEF StreamsInv, Paired
<1>12. Backlogs'
  <2> SUFFICES ASSUME NEW b \in Peers
               PROVE  /\ backlog'[b] \in Seq(Conns)
                      /\ \A i \in 1 .. Len(backlog'[b]) :
                           /\ owner'[<<backlog'[b][i], 2>>] = b
                           /\ fd'[<<backlog'[b][i], 2>>] = 0
                           /\ \A j \in 1 .. Len(backlog'[b]) :
                                backlog'[b][i] = backlog'[b][j] => i = j
    BY DEF Backlogs
  <2>1. /\ backlog[b] \in Seq(Conns)
        /\ \A i \in 1 .. Len(backlog[b]) :
             /\ backlog[b][i] \in Conns
             /\ owner[<<backlog[b][i], 2>>] = b /\ fd[<<backlog[b][i], 2>>] = 0
             /\ \A j \in 1 .. Len(backlog[b]) : backlog[b][i] = backlog[b][j] => i = j
    BY ElementOfSeq DEF StreamsInv, Backlogs
  <2>2. \A i \in 1 .. Len(backlog[b]) :
          /\ backlog[b][i] # n
          /\ owner'[<<backlog[b][i], 2>>] = b /\ fd'[<<backlog[b][i], 2>>] = 0
    <3> SUFFICES ASSUME NEW i \in 1 .. Len(backlog[b])
                 PROVE  /\ backlog[b][i] # n
                        /\ owner'[<<backlog[b][i], 2>>] = b
                        /\ fd'[<<backlog[b][i], 2>>] = 0
      OBVIOUS
    <3> DEFINE m == backlog[b][i]
    <3>1. m \in Conns /\ owner[<<m, 2>>] = b /\ fd[<<m, 2>>] = 0
      BY <2>1
    <3> HIDE DEF m
    <3>2. m # n
      BY <3>1, <1>2, NobodyIsNoPeer
    <3>3. <<m, 2>> \in Ends /\ <<m, 2>> # <<n, 1>> /\ <<m, 2>> # <<n, 2>>
      BY <3>1, <3>2, ConnEnds
    <3>4. m # n /\ owner'[<<m, 2>>] = b /\ fd'[<<m, 2>>] = 0
      BY <3>1, <3>2, <3>3, <1>6, <1>7
    <3> QED BY <3>4 DEF m
  <2>3. CASE b # to
    BY <2>1, <2>2, <2>3, <1>5 DEF StreamsInv
  <2>4. CASE b = to
    <3>1. backlog'[b] = Append(backlog[b], n)
      BY <2>4, <1>5 DEF StreamsInv
    <3>2. /\ backlog'[b] \in Seq(Conns)
          /\ Len(backlog'[b]) = Len(backlog[b]) + 1
          /\ \A i \in 1 .. Len(backlog[b]) : backlog'[b][i] = backlog[b][i]
          /\ backlog'[b][Len(backlog[b]) + 1] = n
      BY <3>1, <2>1, AppendProperties
    <3>3. Len(backlog[b]) \in Nat
      BY <2>1, LenProperties
    <3>4. owner'[<<n, 2>>] = b /\ fd'[<<n, 2>>] = 0
      BY <2>4, <1>1, <1>3, <1>6, <1>7
    <3> DEFINE l == Len(backlog[b])
    <3>5. \A i \in 1 .. l + 1 : i \in 1 .. l \/ i = l + 1
      BY <3>3
    <3>6. \A i \in 1 .. l + 1 :
            owner'[<<backlog'[b][i], 2>>] = b /\ fd'[<<backlog'[b][i], 2>>] = 0
      BY <3>2, <3>4, <3>5, <2>2
    <3>7. \A i, j \in 1 .. l + 1 : backlog'[b][i] = backlog'[b][j] => i = j
      BY <3>2, <3>5, <2>1, <2>2
    <3> QED BY <3>2, <3>6, <3>7
  <2> QED BY <2>3, <2>4
<1>13. StreamsInv'
  BY <1>5, <1>6, <1>7, <1>8, <1>9, <1>10, <1>11, <1>12 DEF StreamsInv
<1>14. \A e \in Ends : owner[e] # Nobody => owner'[e] = owner[e] /\ fd'[e] = fd[e]
  BY <1>2, <1>6, <1>7
<1> QED BY <1>2, <1>4, <1>6, <1>7, <1>13, <1>14, PeerStreamsAssumption

LEMMA AcceptStreams ==
  ASSUME StreamsInv, NEW c \in Peers, Accept(c)
  PROVE  StreamsInv' /\ \A e \in Ends : fd[e] # 0 => fd'[e] = fd[e]
<1> DEFINE f == LowestFree(c)  n == Head(backlog[c])
<1>1. f \in 1 .. MaxFd /\ f # client[c] /\ \A e \in Ends : owner[e] = c => fd[e] # f
  BY LowestIsFree DEF Accept
<1>2. /\ fd' = [fd EXCEPT ![<<n, 2>>] = f]
      /\ backlog' = [backlog EXCEPT ![c] = Tail(@)]
      /\ UNCHANGED <<owner, stream, ending, client, inbox, up>>
      /\ backlog[c] # <<>>
  BY DEF Accept
<1>3. /\ backlog[c] \in Seq(Conns)
      /\ \A i \in 1 .. Len(backlog[c]) :
           /\ owner[<<backlog[c][i], 2>>] = c /\ fd[<<backlog[c][i], 2>>] = 0
           /\ \A j \in 1 .. Len(backlog[c]) : backlog[c][i] = backlog[c][j] => i = j
  BY DEF StreamsInv, Backlogs
<1>4. /\ Len(backlog[c]) \in Nat \ {0} /\ n = backlog[c][1]
      /\ Tail(backlog[c]) \in Seq(Conns) /\ Len(Tail(backlog[c])) = Len(backlog[c]) - 1
      /\ \A i \in 1 .. Len(Tail(backlog[c])) : Tail(backlog[c])[i] = backlog[c][i + 1]
  BY <1>2, <1>3, HeadTailProperties, EmptySeq
<1>5. n \in Conns /\ owner[<<n, 2>>] = c /\ fd[<<n, 2>>] = 0
  <2> HIDE DEF n
  <2>1. 1 \in 1 .. Len(backlog[c])
    BY <1>4
  <2>2. backlog[c][1] \in Conns
    BY <2>1, <1>3, ElementOfSeq
  <2> QED BY <2>1, <2>2, <1>3, <1>4
<1> HIDE DEF f, n
<1>6. <<n, 2>> \in Ends
  BY <1>5, ConnEnds
<1>7. /\ fd'[<<n, 2>>] = f
      /\ \A e \in Ends : e # <<n, 2>> => fd'[e] = fd[e]
      /\ fd' \in [Ends -> 0 .. MaxFd]
  BY <1>1, <1>2, <1>6, PeerStreamsAssumption DEF StreamsInv
<1>8. OneEach'
  <2> SUFFICES ASSUME NEW d \in Ends, NEW e \in Ends,
                      owner[d] = owner[e], fd'[d] = fd'[e], fd'[d] # 0
               PROVE  d = e
    BY <1>2 DEF OneEach
  <2>1. CASE d # <<n, 2>> /\ e # <<n, 2>>
    BY <2>1, <1>7 DEF StreamsInv, OneEach
  <2>2. CASE d = <<n, 2>> \/ e = <<n, 2>>
    BY <2>2, <1>1, <1>5, <1>7
  <2> QED BY <2>1, <2>2
<1>9. OwnFds'
  <2> SUFFICES ASSUME NEW e \in Ends, fd'[e] # 0
               PROVE  owner[e] \in Peers /\ fd'[e] # client[owner[e]]
    BY <1>2 DEF OwnFds
  <2>1. CASE e = <<n, 2>>
    BY <2>1, <1>1, <1>5, <1>7
  <2>2. CASE e # <<n, 2>>
    BY <2>2, <1>7 DEF StreamsInv, OwnFds
  <2> QED BY <2>1, <2>2
<1>10. Backlogs'
  <2> SUFFICES ASSUME NEW b \in Peers
               PROVE  /\ backlog'[b] \in Seq(Conns)
                      /\ \A i \in 1 .. Len(backlog'[b]) :
                           /\ owner[<<backlog'[b][i], 2>>] = b
                           /\ fd'[<<backlog'[b][i], 2>>] = 0
                           /\ \A j \in 1 .. Len(backlog'[b]) :
                                backlog'[b][i] = backlog'[b][j] => i = j
    BY <1>2 DEF Backlogs
  <2>1. CASE b # c
    <3>1. backlog'[b] = backlog[b]
      BY <2>1, <1>2 DEF StreamsInv
    <3>2. \A i \in 1 .. Len(backlog[b]) :
            /\ backlog[b][i] \in Conns
            /\ owner[<<backlog[b][i], 2>>] = b /\ fd[<<backlog[b][i], 2>>] = 0
      BY ElementOfSeq DEF StreamsInv, Backlogs
    <3>3. \A i \in 1 .. Len(backlog[b]) :
            <<backlog[b][i], 2>> \in Ends /\ <<backlog[b][i], 2>> # <<n, 2>>
      BY <3>2, <2>1, <1>5, ConnEnds
    <3>4. \A i \in 1 .. Len(backlog[b]) : fd'[<<backlog[b][i], 2>>] = 0
      BY <3>2, <3>3, <1>7
    <3> QED BY <3>1, <3>2, <3>4 DEF StreamsInv, Backlogs
  <2>2. CASE b = c
    <3>1. backlog'[b] = Tail(backlog[c])
      BY <2>2, <1>2 DEF StreamsInv
    <3>2. \A i \in 1 .. Len(backlog'[b]) :
            /\ i \in Nat /\ i + 1 \in 1 .. Len(backlog[c]) /\ i + 1 # 1
            /\ backlog'[b][i] = backlog[c][i + 1]
      BY <3>1, <1>4
    <3>3. \A i \in 1 .. Len(backlog'[b]) :
            /\ backlog'[b][i] \in Conns /\ backlog'[b][i] # n
            /\ owner[<<backlog'[b][i], 2>>] = b /\ fd[<<backlog'[b][i], 2>>] = 0
      <4> SUFFICES ASSUME NEW i \in 1 .. Len(backlog'[b])
                   PROVE  /\ backlog[c][i + 1] \in Conns /\ backlog[c][i + 1] # n
                          /\ owner[<<backlog[c][i + 1], 2>>] = b
                          /\ fd[<<backlog[c][i + 1], 2>>] = 0
        BY <3>2
      <4>1. backlog[c][i + 1] \in Conns
        BY <3>2, <1>3, ElementOfSeq
      <4>2. backlog[c][i + 1] # n
        <5>1. 1 \in 1 .. Len(backlog[c]) /\ i + 1 \in 1 .. Len(backlog[c]) /\ i + 1 # 1
          BY <3>2, <1>4
        <5>2. backlog[c][i + 1] = backlog[c][1] => i + 1 = 1
          BY <5>1, <1>3
        <5> QED BY <5>1, <5>2, <1>4
      <4> QED BY <4>1, <4>2, <3>2, <2>2, <1>3
    <3>4. \A i \in 1 .. Len(backlog'[b]) :
            <<backlog'[b][i], 2>> \in Ends /\ <<backlog'[b][i], 2>> # <<n, 2>>
      BY <3>3, ConnEnds
    <3>5. \A i \in 1 .. Len(backlog'[b]) : fd'[<<backlog'[b][i], 2>>] = 0
      BY <3>3, <3>4, <1>7
    <3>6. \A i, j \in 1 .. Len(backlog'[b]) :
            backlog'[b][i] = backlog'[b][j] => i + 1 = j + 1
      <4> SUFFICES ASSUME NEW i \in 1 .. Len(backlog'[b]), NEW j \in 1 .. Len(backlog'[b]),
                          backlog'[b][i] = backlog'[b][j]
                   PROVE  i + 1 = j + 1
        OBVIOUS
      <4>1. /\ i + 1 \in 1 .. Len(backlog[c]) /\ j + 1 \in 1 .. Len(backlog[c])
            /\ backlog[c][i + 1] = backlog[c][j + 1]
        BY <3>2
      <4> QED BY <4>1, <1>3
    <3>7. \A i, j \in 1 .. Len(backlog'[b]) : backlog'[b][i] = backlog'[b][j] => i = j
      BY <3>2, <3>6
    <3> QED BY <3>1, <3>3, <3>5, <3>7, <1>4
  <2> QED BY <2>1, <2>2
<1>11. Paired' /\ \A e \in Ends : stream'[e] \in Seq(PartsAt(e)')
  BY <1>2 DEF StreamsInv, Paired, PartsAt
<1> QED BY <1>2, <1>5, <1>7, <1>8, <1>9, <1>10, <1>11 DEF StreamsInv

LEMMA CloseEndStreams ==
  ASSUME StreamsInv, NEW e \in Ends, fd[e] # 0, CloseEnd(e)
  PROVE  StreamsInv' /\ \A d \in Ends : fd'[d] = IF d = e THEN 0 ELSE fd[d]
<1>1. /\ fd' = [fd EXCEPT ![e] = 0] /\ ending' = [ending EXCEPT ![e] = "closed"]
      /\ UNCHANGED <<owner, stream, backlog, client, inbox, up>>
  BY DEF CloseEnd
<1>2. /\ fd' \in [Ends -> 0 .. MaxFd]
      /\ \A d \in Ends : fd'[d] = IF d = e THEN 0 ELSE fd[d]
  BY <1>1, PeerStreamsAssumption DEF StreamsInv
<1>3. ending' \in [Ends -> Endings]
  BY <1>1 DEF StreamsInv, Endings
<1>4. OneEach' /\ OwnFds'
  BY <1>1, <1>2 DEF StreamsInv, OneEach, OwnFds
<1>5. Backlogs'
  <2>1. \A c \in Peers : \A i \in 1 .. Len(backlog[c]) : <<backlog[c][i], 2>> \in Ends
    BY ElementOfSeq, ConnEnds DEF StreamsInv, Backlogs
  <2> QED BY <2>1, <1>1, <1>2 DEF StreamsInv, Backlogs
<1>6. Paired' /\ \A d \in Ends : stream'[d] \in Seq(PartsAt(d)')
  BY <1>1 DEF StreamsInv, Paired, PartsAt
<1> QED BY <1>1, <1>2, <1>3, <1>4, <1>5, <1>6 DEF StreamsInv

LEMMA CloseAllStreams ==
  ASSUME StreamsInv, NEW c \in Peers, CloseAll(c)
  PROVE  StreamsInv' /\ \A e \in Ends : fd'[e] = IF owner[e] = c THEN 0 ELSE fd[e]
<1>1. /\ fd' = [e \in Ends |-> IF owner[e] = c THEN 0 ELSE fd[e]]
      /\ stream' = [e \in Ends |-> IF owner[e] = c THEN <<>> ELSE stream[e]]
      /\ backlog' = [backlog EXCEPT ![c] = <<>>]
      /\ inbox' = [inbox EXCEPT ![c] = <<>>]
      /\ client' = [client EXCEPT ![c] = 0]
      /\ UNCHANGED <<owner, up>>
  BY DEF CloseAll
<1>2. /\ fd' \in [Ends -> 0 .. MaxFd]
      /\ \A e \in Ends : fd'[e] = IF owner[e] = c THEN 0 ELSE fd[e]
  BY <1>1, PeerStreamsAssumption DEF StreamsInv
<1>3. ending' \in [Ends -> Endings]
  BY DEF StreamsInv, Endings, CloseAll
<1>4. inbox' \in [Peers -> Seq(ServerFrames)] /\ client' \in [Peers -> {0, Client}]
  BY <1>1, EmptySeq DEF StreamsInv
<1>5. /\ OneEach' /\ OwnFds'
  BY <1>1, <1>2 DEF StreamsInv, OneEach, OwnFds
<1>6. Backlogs'
  <2>1. \A b \in Peers : \A i \in 1 .. Len(backlog[b]) : <<backlog[b][i], 2>> \in Ends
    BY ElementOfSeq, ConnEnds DEF StreamsInv, Backlogs
  <2>2. \A b \in Peers : backlog'[b] = IF b = c THEN <<>> ELSE backlog[b]
    BY <1>1 DEF StreamsInv
  <2>3. <<>> \in Seq(Conns) /\ 1 .. Len(<<>>) = {}
    BY EmptySeq
  <2> SUFFICES ASSUME NEW b \in Peers
               PROVE  /\ backlog'[b] \in Seq(Conns)
                      /\ \A i \in 1 .. Len(backlog'[b]) :
                           /\ owner[<<backlog'[b][i], 2>>] = b
                           /\ fd'[<<backlog'[b][i], 2>>] = 0
                           /\ \A j \in 1 .. Len(backlog'[b]) :
                                backlog'[b][i] = backlog'[b][j] => i = j
    <3>1. owner' = owner
      BY <1>1
    <3> QED BY <3>1 DEF Backlogs
  <2>4. CASE b = c
    BY <2>2, <2>3, <2>4
  <2>5. CASE b # c
    BY <2>1, <2>2, <2>5, <1>2 DEF StreamsInv, Backlogs
  <2> QED BY <2>4, <2>5
<1>7. Paired'
  BY <1>1, OtherType DEF StreamsInv, Paired
<1>8. \A e \in Ends : stream'[e] \in Seq(PartsAt(e)')
  <2>1. \A e \in Ends : stream'[e] \in Seq(PartsAt(e))
    BY <1>1, EmptySeq DEF StreamsInv
  <2> QED BY <2>1, <1>1 DEF PartsAt
<1> QED BY <1>1, <1>2, <1>3, <1>4, <1>5, <1>6, <1>7, <1>8 DEF StreamsInv

LEMMA TakePartStreams ==
  ASSUME StreamsInv, NEW e \in Ends, stream[e] # <<>>, TakePart(e),
         UNCHANGED <<owner, fd, ending, backlog, client, inbox, up>>
  PROVE  StreamsInv'
<1>1. stream' = [stream EXCEPT ![e] = Tail(@)]
  BY DEF TakePart
<1>2. Tail(stream[e]) \in Seq(PartsAt(e))
  BY HeadTailProperties DEF StreamsInv
<1>3. \A d \in Ends : stream'[d] = IF d = e THEN Tail(stream[e]) ELSE stream[d]
  BY <1>1 DEF StreamsInv
<1>4. \A d \in Ends : stream'[d] \in Seq(PartsAt(d)')
  <2>1. \A d \in Ends : PartsAt(d)' = PartsAt(d)
    BY DEF PartsAt
  <2>2. \A d \in Ends : stream'[d] \in Seq(PartsAt(d))
    BY <1>2, <1>3 DEF StreamsInv
  <2> QED BY <2>1, <2>2
<1>5. \A d \in Ends : stream[d] = <<>> => d # e
  OBVIOUS
<1>6. Paired'
  BY <1>3, <1>5 DEF StreamsInv, Paired
<1>7. DOMAIN stream' = Ends /\ stream' = [d \in Ends |-> stream'[d]]
  BY <1>1 DEF StreamsInv
<1> QED BY <1>4, <1>6, <1>7 DEF StreamsInv, OneEach, OwnFds, Backlogs

\* A part that is written to an end of this client comes to the other side.
LEMMA WriteEndStreams ==
  ASSUME StreamsInv, NEW e \in Ends, NEW c \in Peers, owner[e] = c,
         NEW part \in Parts, part.frame \in RealFrames,
         part.part = "fields" /\ part.frame.type = "P2PLogin" => part.frame.from = c,
         WriteEnd(e, part), UNCHANGED <<owner, fd, backlog, client, inbox, up>>
  PROVE  StreamsInv'
<1> DEFINE o == Other(e)
<1>1. o \in Ends /\ Other(o) = e
  BY OtherType
<1>2. part \in PartsAt(o)
  BY <1>1 DEF PartsAt
<1>3. owner[o] # Nobody
  BY <1>1, NobodyIsNoPeer DEF StreamsInv, Paired
<1>4. ending' \in [Ends -> Endings]
  BY <1>1 DEF WriteEnd, StreamsInv, Endings
<1>5. stream' = stream \/ stream' = [stream EXCEPT ![o] = Append(@, part)]
  BY DEF WriteEnd
<1> HIDE DEF o
<1>6. Append(stream[o], part) \in Seq(PartsAt(o))
  BY <1>1, <1>2, AppendProperties DEF StreamsInv
<1>7. \A d \in Ends : stream'[d] = stream[d] \/ (d = o /\ stream'[d] = Append(stream[o], part))
  BY <1>1, <1>5 DEF StreamsInv
<1>8. \A d \in Ends : stream'[d] \in Seq(PartsAt(d)')
  <2>1. \A d \in Ends : PartsAt(d)' = PartsAt(d)
    BY DEF PartsAt
  <2>2. \A d \in Ends : stream'[d] \in Seq(PartsAt(d))
    BY <1>6, <1>7 DEF StreamsInv
  <2> QED BY <2>1, <2>2
<1>9. Paired'
  BY <1>3, <1>7 DEF StreamsInv, Paired
<1>10. DOMAIN stream' = Ends /\ stream' = [d \in Ends |-> stream'[d]]
  BY <1>5 DEF StreamsInv
<1> QED BY <1>4, <1>8, <1>9, <1>10 DEF StreamsInv, OneEach, OwnFds, Backlogs

LEMMA InboxStreams ==
  ASSUME StreamsInv, inbox' \in [Peers -> Seq(ServerFrames)],
         UNCHANGED <<owner, fd, stream, ending, backlog, client, up>>
  PROVE  StreamsInv'
BY DEF StreamsInv, OneEach, OwnFds, Paired, Backlogs, PartsAt

LEMMA TakeFrameType ==
  ASSUME StreamsInv, NEW c \in Peers, inbox[c] # <<>>, TakeFrame(c)
  PROVE  inbox' \in [Peers -> Seq(ServerFrames)] /\ Head(inbox[c]) \in ServerFrames
<1>1. Head(inbox[c]) \in ServerFrames /\ Tail(inbox[c]) \in Seq(ServerFrames)
  BY HeadTailProperties DEF StreamsInv
<1> QED BY <1>1 DEF StreamsInv, TakeFrame

LEMMA RelayType ==
  ASSUME StreamsInv, NEW c \in Peers, NEW frame \in ServerFrames, Relay(c, frame)
  PROVE  inbox' \in [Peers -> Seq(ServerFrames)]
<1>1. \A b \in Peers, f \in ServerFrames : Append(inbox[b], f) \in Seq(ServerFrames)
  BY AppendProperties DEF StreamsInv
<1>2. Blank("OpStatus") \in ServerFrames
  BY StatusType DEF MainFrames
<1>3. CASE inbox' = [inbox EXCEPT ![frame.to] = Append(@, frame)]
  <2>1. \A b \in Peers : inbox'[b] = inbox[b] \/ inbox'[b] = Append(inbox[b], frame)
    BY <1>3 DEF StreamsInv
  <2>2. inbox' = [b \in Peers |-> inbox'[b]]
    BY <1>3 DEF StreamsInv
  <2>3. \A b \in Peers : inbox'[b] \in Seq(ServerFrames)
    BY <2>1, <1>1 DEF StreamsInv
  <2> QED BY <2>2, <2>3
<1>4. CASE inbox' = [inbox EXCEPT ![c] = Append(@, Blank("OpStatus"))]
  BY <1>1, <1>2, <1>4 DEF StreamsInv
<1>5. CASE UNCHANGED inbox
  BY <1>5 DEF StreamsInv
<1> QED BY <1>3, <1>4, <1>5 DEF Relay

LEMMA WriteStreams ==
  ASSUME StreamsInv, NEW c \in Peers, NEW f, NEW part \in Parts, part.frame \in RealFrames,
         part.part = "fields" => part.frame \in ServerFrames,
         part.part = "fields" /\ part.frame.type = "P2PLogin" => part.frame.from = c,
         Write(c, f, part)
  PROVE  StreamsInv' /\ UNCHANGED <<owner, fd>>
<1>1. UNCHANGED <<owner, fd, backlog, client, up>>
  BY DEF Write
<1>2. CASE (\E e \in EndsAt(c, f) : WriteEnd(e, part)) /\ UNCHANGED inbox
  BY <1>1, <1>2, WriteEndStreams DEF EndsAt, EndsOf
<1>3. CASE /\ IF up /\ part.part = "fields" THEN Relay(c, part.frame) ELSE UNCHANGED inbox
           /\ UNCHANGED <<stream, ending>>
  <2>1. inbox' \in [Peers -> Seq(ServerFrames)]
    BY <1>3, RelayType DEF StreamsInv
  <2> QED BY <2>1, <1>1, <1>3, InboxStreams
<1>4. CASE UNCHANGED <<stream, ending, inbox>>
  BY <1>1, <1>4, InboxStreams DEF StreamsInv
<1> QED BY <1>1, <1>2, <1>3, <1>4 DEF Write

-----------------------------------------------------------------------------
(* The main thread                                                          *)

LEMMA MainEntry ==
  ASSUME MainInv, NEW c \in Peers, NEW pc \in {"idle", "path", "find", "type", "fields"},
         NEW at \in 0 .. MaxFd, NEW frame \in MainFrames,
         pc = "path" => frame.to \in Peers, MainGoes(c, pc, at, frame)
  PROVE  MainInv'
BY DEF MainInv, MainGoes

LEMMA MainIdle ==
  ASSUME MainInv, NEW c \in Peers, main' = [main EXCEPT ![c] = Idle]
  PROVE  MainInv'
<1>1. 0 \in 0 .. MaxFd
  BY PeerStreamsAssumption
<1> QED BY <1>1, StatusType DEF MainInv, Idle

LEMMA MainFrameType ==
  ASSUME NEW frame \in RealFrames, frame.type \notin {"P2PRequest", "P2PLogin"}
  PROVE  frame \in MainFrames
BY DEF MainFrames, ServerFrames

LEMMA OthersType == ASSUME NEW c, NEW command PROVE Others(c, command) \subseteq Peers
BY DEF Others

LEMMA FindType ==
  ASSUME RestInv, NEW c \in Peers, NEW a, NEW f \in Find(c, a)
  PROVE  f \in 0 .. MaxFd
BY PeerStreamsAssumption DEF RestInv, Find, Entry

\* What these steps leave alone.
LEMMA LinksStay ==
  ASSUME LinkInv, UNCHANGED <<owner, fd, lookup, epoll>>
  PROVE  LinkInv'
BY DEF LinkInv, LookupIsThePeer, EndInv

LEMMA StreamsStay ==
  ASSUME StreamsInv, UNCHANGED streamVars
  PROVE  StreamsInv'
BY DEF StreamsInv, streamVars, OneEach, OwnFds, Paired, Backlogs, PartsAt

LEMMA EpollStays ==
  ASSUME EpollInv, UNCHANGED epoll
  PROVE  EpollInv'
BY DEF EpollInv

LEMMA TypingInv ==
  ASSUME IInv, NEW c \in Peers, NEW command, Typing(c, command)
  PROVE  /\ StreamsInv' /\ EpollInv' /\ LinkInv'
         /\ typed < MaxCommands /\ typed' = typed + 1
         /\ UNCHANGED <<life, lookup, data, started, closed>>
BY StreamsStay, EpollStays, LinksStay DEF IInv, Typing, streamVars

LEMMA TypedRest ==
  ASSUME RestInv, typed < MaxCommands, typed' = typed + 1, asked' \in 0 .. MaxConns,
         UNCHANGED <<life, lookup, data, offers, started, closed>>
  PROVE  RestInv'
<1>1. typed \in Nat /\ typed' \in 0 .. MaxCommands
  BY PeerAssumption DEF RestInv
<1>2. Len(offers) \in Nat
  BY LenProperties DEF RestInv
<1>3. Len(offers') <= typed'
  BY <1>1, <1>2 DEF RestInv
<1> QED BY <1>1, <1>3 DEF RestInv

LEMMA SendmsgInv ==
  ASSUME IInv, NEW c \in Peers, sendmsg(c)
  PROVE  IInv'
<1>1. PICK to \in Others(c, "send") : \E f \in Find(c, to) :
        MainGoes(c, "type", IF f # 0 THEN f ELSE Client, Frame("SendMessage", c, to, 0))
  BY DEF sendmsg
<1>2. PICK f \in Find(c, to) :
        MainGoes(c, "type", IF f # 0 THEN f ELSE Client, Frame("SendMessage", c, to, 0))
  BY <1>1
<1>3. (IF f # 0 THEN f ELSE Client) \in 0 .. MaxFd
  BY FindType, PeerStreamsAssumption DEF IInv, Client
<1>4. to \in Peers /\ to \in Names /\ c \in Names /\ 0 \in 0 .. MaxConns + MaxCommands
  BY OthersType, PeerStreamsAssumption, PeerAssumption DEF Names
<1>5. Frame("SendMessage", c, to, 0) \in RealFrames
  BY <1>4, FrameType, FilesType DEF FrameTypes
<1>6. Frame("SendMessage", c, to, 0) \in MainFrames
  BY <1>5, MainFrameType DEF Frame
<1>7. MainInv'
  BY <1>2, <1>3, <1>6, MainEntry DEF IInv
<1>8. Typing(c, "send") /\ UNCHANGED <<asked, offers>>
  BY DEF sendmsg
<1>9. RestInv'
  BY <1>8, TypingInv, TypedRest DEF IInv, RestInv
<1> QED BY <1>7, <1>8, <1>9, TypingInv DEF IInv

LEMMA P2PRequestInv ==
  ASSUME IInv, NEW c \in Peers, p2p_request(c)
  PROVE  IInv'
<1>1. PICK to \in Others(c, "p2p") : MainGoes(c, "type", Client, Frame("P2PRequest", c, to, asked + 1))
  BY DEF p2p_request
<1>2. Typing(c, "p2p") /\ asked < MaxConns /\ asked' = asked + 1 /\ UNCHANGED offers
  BY DEF p2p_request
<1>3. asked + 1 \in Conns /\ asked + 1 \in 0 .. MaxConns + MaxCommands
  BY <1>2, PeerStreamsAssumption, PeerAssumption DEF IInv, RestInv, Conns
<1>4. to \in Names /\ c \in Names /\ Client \in 0 .. MaxFd
  BY OthersType, PeerStreamsAssumption DEF Names, Client
<1>5. Frame("P2PRequest", c, to, asked + 1) \in RealFrames
  BY <1>3, <1>4, FrameType DEF FrameTypes
<1>6. Frame("P2PRequest", c, to, asked + 1) \in MainFrames
  BY <1>3, <1>5 DEF MainFrames, ServerFrames, Frame
<1>7. MainInv'
  BY <1>1, <1>4, <1>6, MainEntry DEF IInv
<1>8. RestInv'
  <2>1. asked' \in 0 .. MaxConns
    BY <1>2, PeerStreamsAssumption DEF IInv, RestInv
  <2>2. RestInv /\ typed < MaxCommands /\ typed' = typed + 1
    BY <1>2, TypingInv DEF IInv
  <2> QED BY <2>1, <2>2, <1>2, TypingInv, TypedRest
<1> QED BY <1>2, <1>7, <1>8, TypingInv DEF IInv

LEMMA FileSendInv ==
  ASSUME IInv, NEW c \in Peers, file_send(c)
  PROVE  IInv'
<1> DEFINE n == Len(offers) + 1
<1>1. PICK to \in Others(c, "filesend") : \E f \in Find(c, to) :
        /\ MainGoes(c, "path", f, Frame("FileSendRequest", c, to, n))
        /\ offers' = Append(offers, [from |-> c, to |-> to])
  BY DEF file_send
<1>2. PICK f \in Find(c, to) : MainGoes(c, "path", f, Frame("FileSendRequest", c, to, n))
  BY <1>1
<1>3. Typing(c, "filesend") /\ UNCHANGED asked
  BY DEF file_send
<1>4. to \in Peers /\ to \in Names /\ c \in Names /\ f \in 0 .. MaxFd
  BY OthersType, FindType DEF IInv, Names
<1>5. Len(offers) \in Nat /\ Len(offers) <= typed
  BY LenProperties DEF IInv, RestInv
<1>6. n \in Files /\ n \in 0 .. MaxConns + MaxCommands /\ n <= typed + 1
  <2>1. typed < MaxCommands /\ typed \in 0 .. MaxCommands
    BY <1>3, TypingInv DEF IInv, RestInv
  <2>2. MaxCommands \in Nat /\ MaxConns \in Nat
    BY PeerAssumption, PeerStreamsAssumption
  <2>3. n \in Nat /\ n <= typed + 1
    BY <1>5, <2>1, <2>2
  <2> HIDE DEF n
  <2> QED BY <2>1, <2>2, <2>3 DEF Files
<1> HIDE DEF n
<1>7. Frame("FileSendRequest", c, to, n) \in RealFrames
  BY <1>4, <1>6, FrameType DEF FrameTypes
<1>8. /\ Frame("FileSendRequest", c, to, n) \in MainFrames
      /\ Frame("FileSendRequest", c, to, n).to = to
  BY <1>7, MainFrameType DEF Frame
<1>9. MainInv'
  BY <1>2, <1>4, <1>8, MainEntry DEF IInv
<1>10. offers' \in Seq([from : Peers, to : Peers]) /\ Len(offers') = n
  <2>1. [from |-> c, to |-> to] \in [from : Peers, to : Peers]
    BY <1>4
  <2> QED BY <2>1, <1>1, AppendProperties DEF IInv, RestInv, n
<1>11. RestInv'
  <2>1. RestInv /\ typed < MaxCommands /\ typed' = typed + 1
    BY <1>3, TypingInv DEF IInv
  <2>2. UNCHANGED <<life, lookup, data, asked, started, closed>>
    BY <1>3, TypingInv
  <2>3. typed' \in 0 .. MaxCommands
    BY <2>1, PeerAssumption DEF RestInv
  <2> QED BY <2>1, <2>2, <2>3, <1>6, <1>10 DEF RestInv
<1> QED BY <1>3, <1>9, <1>11, TypingInv DEF IInv

LEMMA FileAcceptInv ==
  ASSUME IInv, NEW c \in Peers, file_accept(c)
  PROVE  IInv'
<1> DEFINE frame == [Blank("FileSendAccept") EXCEPT !.port = data[c].length,
                                                    !.alone = epoll[c].pc \notin {"offer", "file"}]
<1>1. Typing(c, "fileAC") /\ MainGoes(c, "find", 0, frame) /\ UNCHANGED <<asked, offers>>
  BY DEF file_accept
<1>2. data[c].length \in 0 .. MaxCommands
  BY DEF IInv, RestInv, Files
<1>3. Blank("FileSendAccept") \in RealFrames /\ Blank("FileSendAccept").type = "FileSendAccept"
  BY BlankType DEF FrameTypes
<1>4. frame \in RealFrames /\ frame.type = "FileSendAccept"
  BY <1>2, <1>3 DEF RealFrames, Frames
<1> HIDE DEF frame
<1>5. frame \in MainFrames /\ 0 \in 0 .. MaxFd
  BY <1>4, MainFrameType, PeerStreamsAssumption
<1>6. MainInv'
  BY <1>1, <1>5, MainEntry DEF IInv
<1>7. RestInv'
  BY <1>1, TypingInv, TypedRest DEF IInv, RestInv
<1> QED BY <1>1, <1>6, <1>7, TypingInv DEF IInv

LEMMA RestStays ==
  ASSUME RestInv, UNCHANGED <<life, lookup, data, history>>
  PROVE  RestInv'
BY DEF RestInv, history

LEMMA FileSendPathInv ==
  ASSUME IInv, NEW c \in Peers, file_send_path(c)
  PROVE  IInv'
<1>1. PICK f \in Second(c) : MainGoes(c, "type", f, main[c].frame)
  BY DEF file_send_path
<1>2. main[c].frame.to \in Peers /\ main[c].frame \in MainFrames /\ main[c].at \in 0 .. MaxFd
  BY DEF file_send_path, IInv, MainInv
<1>3. f \in 0 .. MaxFd
  BY <1>2, PeerStreamsAssumption DEF Second, IInv, RestInv
<1>4. MainInv'
  BY <1>1, <1>2, <1>3, MainEntry DEF IInv
<1> QED BY <1>4, StreamsStay, EpollStays, RestStays, LinksStay DEF IInv, file_send_path, streamVars

LEMMA FileAcceptFindInv ==
  ASSUME IInv, NEW c \in Peers, file_accept_find(c)
  PROVE  IInv'
<1>1. PICK f \in Find(c, data[c].from) : MainGoes(c, "type", f, main[c].frame)
  BY DEF file_accept_find
<1>2. main[c].frame \in MainFrames /\ f \in 0 .. MaxFd
  BY FindType DEF IInv, MainInv
<1>3. MainInv'
  BY <1>1, <1>2, MainEntry DEF IInv
<1> QED BY <1>3, StreamsStay, EpollStays, RestStays, LinksStay DEF IInv, file_accept_find, streamVars

LEMMA SendTypeInv ==
  ASSUME IInv, NEW c \in Peers, send_type(c)
  PROVE  IInv'
<1>1. main[c].frame \in MainFrames /\ main[c].frame \in RealFrames /\ main[c].at \in 0 .. MaxFd
  BY DEF IInv, MainInv, MainFrames, ServerFrames
<1>2. /\ Write(c, main[c].at, Type(main[c].frame))
      /\ MainGoes(c, "fields", main[c].at, main[c].frame)
      /\ UNCHANGED <<life, lookup, data, epoll, history>>
  BY DEF send_type
<1>3. StreamsInv' /\ UNCHANGED <<owner, fd>>
  BY <1>1, <1>2, TypePart, WriteStreams DEF IInv
<1>4. MainInv'
  BY <1>1, <1>2, MainEntry DEF IInv
<1> QED BY <1>2, <1>3, <1>4, EpollStays, RestStays, LinksStay DEF IInv

LEMMA SentFrameType ==
  ASSUME IInv, NEW c \in Peers
  PROVE  SentFrame(c) \in MainFrames
<1>1. main[c].frame \in MainFrames
  BY DEF IInv, MainInv
<1>2. /\ data[c].from \in Names /\ data[c].to \in Names
      /\ data[c].path \in Files /\ data[c].path \in 0 .. MaxConns + MaxCommands
  BY PeerStreamsAssumption, PeerAssumption DEF IInv, RestInv, Files
<1>3. CASE main[c].frame.type = "FileSendAccept"
  <2>1. SentFrame(c) \in RealFrames /\ SentFrame(c).type = "FileSendAccept"
    BY <1>1, <1>2, <1>3 DEF SentFrame, MainFrames, ServerFrames, RealFrames, Frames
  <2> QED BY <2>1, MainFrameType
<1>4. CASE main[c].frame.type # "FileSendAccept"
  BY <1>1, <1>4 DEF SentFrame
<1> QED BY <1>3, <1>4

LEMMA SendFieldsInv ==
  ASSUME IInv, NEW c \in Peers, send_fields(c)
  PROVE  IInv'
<1>1. /\ SentFrame(c) \in RealFrames /\ SentFrame(c) \in ServerFrames
      /\ SentFrame(c).type # "P2PLogin"
  BY SentFrameType DEF MainFrames, ServerFrames
<1>2. /\ Write(c, main[c].at, Fields(SentFrame(c)))
      /\ main' = [main EXCEPT ![c] = Idle]
      /\ UNCHANGED <<life, lookup, data, epoll, history>>
  BY DEF send_fields
<1>3. StreamsInv' /\ UNCHANGED <<owner, fd>>
  BY <1>1, <1>2, FieldsPart, WriteStreams DEF IInv
<1>4. MainInv'
  BY <1>2, MainIdle DEF IInv
<1> QED BY <1>2, <1>3, <1>4, EpollStays, RestStays, LinksStay DEF IInv

-----------------------------------------------------------------------------
(* The epoll thread                                                         *)

LEMMA WaitType == Wait.pc = "wait" /\ Wait.end \in Ends /\ Wait.frame \in RealFrames
BY PeerStreamsAssumption, StatusType DEF Wait, Ends, Conns, MainFrames, ServerFrames

LEMMA EpollEntry ==
  ASSUME EpollInv, NEW c \in Peers,
         NEW pc \in {"wait", "fields", "link", "login", "loginfields",
                     "erase", "offer", "file", "astray"},
         NEW e \in Ends, NEW frame \in RealFrames,
         pc = "fields" => frame.from = Nobody,
         pc \in {"offer", "file"} => frame.type = "FileSendRequest",
         EpollGoes(c, pc, e, frame)
  PROVE  EpollInv'
BY DEF EpollInv, EpollGoes

LEMMA EpollIdle ==
  ASSUME EpollInv, NEW c \in Peers, epoll' = [epoll EXCEPT ![c] = Wait]
  PROVE  EpollInv' /\ epoll'[c].pc = "wait"
BY WaitType DEF EpollInv, Wait

LEMMA MainStays ==
  ASSUME MainInv, UNCHANGED main
  PROVE  MainInv'
BY DEF MainInv

\* The links stay when a thread goes on to where it needs no end.
LEMMA LinksStayOn ==
  ASSUME LinkInv, EpollInv, NEW c \in Peers, NEW entry, entry.pc \notin {"fields", "link", "erase"},
         epoll' = [epoll EXCEPT ![c] = entry], UNCHANGED <<owner, fd, lookup>>
  PROVE  LinkInv'
<1>1. LookupIsThePeer'
  BY DEF LinkInv, LookupIsThePeer
<1>2. \A b \in Peers : epoll'[b] = IF b = c THEN entry ELSE epoll[b]
  BY DEF EpollInv
<1>3. EndInv'
  BY <1>2 DEF LinkInv, EndInv
<1> QED BY <1>1, <1>3 DEF LinkInv

LEMMA ExitInv ==
  ASSUME IInv, NEW c \in Peers, NEW how \in {"left", "exited", "asserted"}, Exit(c, how)
  PROVE  IInv'
<1>1. /\ life' = [life EXCEPT ![c] = how] /\ CloseAll(c)
      /\ lookup' = [lookup EXCEPT ![c] = [a \in Peers |-> 0]]
      /\ data' = [data EXCEPT ![c] = NoData]
      /\ main' = [main EXCEPT ![c] = Idle]
      /\ epoll' = [epoll EXCEPT ![c] = Wait]
      /\ UNCHANGED history
  BY DEF Exit
<1>2. /\ StreamsInv' /\ UNCHANGED owner
      /\ \A e \in Ends : fd'[e] = IF owner[e] = c THEN 0 ELSE fd[e]
  BY <1>1, CloseAllStreams DEF IInv, CloseAll
<1>3. MainInv' /\ EpollInv'
  BY <1>1, MainIdle, EpollIdle DEF IInv
<1>4. RestInv'
  <2>1. NoData \in [from : Names, to : Names, path : Files, length : Files]
    BY FilesType DEF NoData, Names
  <2>2. [a \in Peers |-> 0] \in [Peers -> 0 .. MaxFd]
    BY PeerStreamsAssumption
  <2> QED BY <2>1, <2>2, <1>1 DEF IInv, RestInv, history
<1>5. LookupIsThePeer'
  <2> SUFFICES ASSUME NEW b \in Peers, NEW a \in Peers, lookup'[b][a] # 0
               PROVE  \E e \in Ends : owner[e] = b /\ fd'[e] = lookup'[b][a] /\ owner[Other(e)] = a
    BY <1>2 DEF LookupIsThePeer
  <2>1. b # c /\ lookup'[b] = lookup[b]
    BY <1>1 DEF IInv, RestInv
  <2>2. PICK e \in Ends : owner[e] = b /\ fd[e] = lookup[b][a] /\ owner[Other(e)] = a
    BY <2>1 DEF IInv, LinkInv, LookupIsThePeer
  <2> QED BY <2>1, <2>2, <1>2
<1>6. EndInv'
  <2>1. epoll'[c].pc = "wait" /\ \A b \in Peers : b # c => epoll'[b] = epoll[b]
    BY <1>1, EpollIdle DEF IInv, EpollInv
  <2>2. \A b \in Peers : epoll[b].end \in Ends
    BY DEF IInv, EpollInv
  <2> QED BY <2>1, <2>2, <1>2 DEF IInv, LinkInv, EndInv
<1> QED BY <1>2, <1>3, <1>4, <1>5, <1>6 DEF IInv, LinkInv

LEMMA IncomingInv ==
  ASSUME IInv, NEW c \in Peers, Incoming(c)
  PROVE  IInv'
<1>1. Accept(c) /\ UNCHANGED <<life, lookup, data, main, epoll, history>>
  BY DEF Incoming, clientVars
<1>2. StreamsInv' /\ UNCHANGED owner /\ \A e \in Ends : fd[e] # 0 => fd'[e] = fd[e]
  BY <1>1, AcceptStreams DEF IInv, Accept
<1>3. LookupIsThePeer'
  BY <1>1, <1>2 DEF IInv, LinkInv, LookupIsThePeer
<1>4. EndInv'
  <2>1. \A b \in Peers : epoll[b].end \in Ends
    BY DEF IInv, EpollInv
  <2> QED BY <2>1, <1>1, <1>2 DEF IInv, LinkInv, EndInv
<1> QED BY <1>1, <1>2, <1>3, <1>4, MainStays, EpollStays, RestStays DEF IInv, LinkInv

LEMMA ShownInv ==
  ASSUME IInv, NEW c \in Peers, Shown(c)
  PROVE  IInv'
<1>1. /\ inbox[c] # <<>> /\ TakeFrame(c)
      /\ UNCHANGED <<owner, fd, stream, ending, backlog, client, up>>
      /\ UNCHANGED <<life, lookup, data, main, epoll, history>>
  BY DEF Shown, FromServer, clientVars
<1>2. StreamsInv'
  BY <1>1, TakeFrameType, InboxStreams DEF IInv
<1> QED BY <1>1, <1>2, MainStays, EpollStays, RestStays, LinksStay DEF IInv

LEMMA P2PRequestHandled ==
  ASSUME IInv, NEW c \in Peers, P2PRequest(c)
  PROVE  IInv'
<1> DEFINE r == Head(inbox[c])
<1>1. inbox[c] # <<>> /\ r.type = "P2PRequest"
  BY DEF P2PRequest, FromServer
<1>2. r \in ServerFrames
  BY <1>1, HeadTailProperties DEF IInv, StreamsInv
<1>3. r \in RealFrames /\ r.from \in Peers /\ r.num \in Conns
  BY <1>1, <1>2 DEF ServerFrames
<1>4. CASE Exit(c, "exited")
  BY <1>4, ExitInv
<1>5. CASE /\ Connect(c, r.num, r.from)
           /\ EpollGoes(c, "link", <<r.num, 1>>, r)
           /\ TakeFrame(c) /\ UNCHANGED up /\ NothingElse
  <2> HIDE DEF r
  <2> DEFINE e == <<r.num, 1>>
  <2>1. inbox' \in [Peers -> Seq(ServerFrames)]
    BY <1>1, <1>5, TakeFrameType DEF IInv
  <2>2. /\ StreamsInv'
        /\ owner'[e] = c /\ owner'[Other(e)] = r.from /\ fd'[e] # 0
        /\ \A d \in Ends : owner[d] # Nobody => owner'[d] = owner[d] /\ fd'[d] = fd[d]
    <3>1. StreamsInv /\ Connect(c, r.num, r.from) /\ UNCHANGED up
      BY <1>5 DEF IInv
    <3>2. Other(e) = <<r.num, 2>>
      BY <1>3, ConnEnds
    <3>3. StreamsInv' /\ owner'[<<r.num, 1>>] = c /\ owner'[<<r.num, 2>>] = r.from
      BY <3>1, <2>1, <1>3, ConnectStreams
    <3>4. fd'[<<r.num, 1>>] # 0
      BY <3>1, <2>1, <1>3, ConnectStreams
    <3>5. \A d \in Ends : owner[d] # Nobody => owner'[d] = owner[d] /\ fd'[d] = fd[d]
      BY <3>1, <2>1, <1>3, ConnectStreams
    <3> QED BY <3>2, <3>3, <3>4, <3>5
  <2>3. e \in Ends
    BY <1>3, ConnEnds
  <2> HIDE DEF e
  <2>4. EpollGoes(c, "link", e, r)
    BY <1>5 DEF e
  <2>5. EpollInv'
    BY <2>3, <2>4, <1>3, EpollEntry DEF IInv
  <2>6. LookupIsThePeer'
    <3> SUFFICES ASSUME NEW b \in Peers, NEW a \in Peers, lookup[b][a] # 0
                 PROVE  \E d \in Ends : owner'[d] = b /\ fd'[d] = lookup[b][a] /\ owner'[Other(d)] = a
      BY <1>5 DEF LookupIsThePeer, NothingElse
    <3>1. PICK d \in Ends : owner[d] = b /\ fd[d] = lookup[b][a] /\ owner[Other(d)] = a
      BY DEF IInv, LinkInv, LookupIsThePeer
    <3> QED BY <3>1, <2>2, NobodyIsNoPeer, OtherType
  <2>7. EndInv'
    <3>1. \A b \in Peers : epoll'[b] = IF b = c THEN [pc |-> "link", end |-> e, frame |-> r]
                                       ELSE epoll[b]
      BY <2>4 DEF EpollGoes, IInv, EpollInv
    <3> SUFFICES ASSUME NEW b \in Peers, epoll'[b].pc \in {"fields", "link", "erase"}
                 PROVE  /\ owner'[epoll'[b].end] = b /\ fd'[epoll'[b].end] # 0
                        /\ epoll'[b].pc = "link" => owner'[Other(epoll'[b].end)] = epoll'[b].frame.from
      BY DEF EndInv
    <3>2. CASE b = c
      BY <3>1, <3>2, <2>2
    <3>3. CASE b # c
      <4>1. epoll'[b] = epoll[b] /\ epoll[b].end \in Ends
        BY <3>1, <3>3 DEF IInv, EpollInv
      <4>2. /\ owner[epoll[b].end] = b /\ fd[epoll[b].end] # 0
            /\ epoll[b].pc = "link" => owner[Other(epoll[b].end)] = epoll[b].frame.from
        BY <4>1 DEF IInv, LinkInv, EndInv
      <4>3. owner'[epoll[b].end] = b /\ fd'[epoll[b].end] # 0
        BY <4>1, <4>2, <2>2, NobodyIsNoPeer
      <4>4. owner'[Other(epoll[b].end)] = owner[Other(epoll[b].end)]
        BY <4>1, <4>2, <2>2, OtherType, NobodyIsNoPeer DEF IInv, StreamsInv, Paired
      <4> QED BY <4>1, <4>2, <4>3, <4>4
    <3> QED BY <3>2, <3>3
  <2> QED BY <2>2, <2>5, <2>6, <2>7, <1>5, MainStays, RestStays DEF IInv, LinkInv, NothingElse
<1> QED BY <1>4, <1>5 DEF P2PRequest

LEMMA ServerIsDownInv ==
  ASSUME IInv, NEW c \in Peers, ServerIsDown(c)
  PROVE  IInv'
<1>1. CASE Exit(c, "exited")
  BY <1>1, ExitInv
<1>2. CASE /\ client' = [client EXCEPT ![c] = 0]
           /\ closed' = closed \union {c}
           /\ UNCHANGED <<owner, fd, stream, ending, backlog, inbox, up,
                          life, lookup, data, main, epoll, typed, asked, offers, started>>
  <2>1. client' \in [Peers -> {0, Client}] /\ OwnFds'
    BY <1>2 DEF IInv, StreamsInv, OwnFds
  <2>2. StreamsInv'
    BY <2>1, <1>2 DEF IInv, StreamsInv, OneEach, Paired, Backlogs, PartsAt
  <2>3. RestInv'
    BY <1>2 DEF IInv, RestInv
  <2> QED BY <2>2, <2>3, <1>2, MainStays, EpollStays, LinksStay DEF IInv
<1> QED BY <1>1, <1>2 DEF ServerIsDown

LEMMA GetTypeInv ==
  ASSUME IInv, NEW c \in Peers, get_type(c)
  PROVE  IInv'
<1>1. PICK e \in EndsOf(c) :
        \/ /\ Readable(e)
           /\ LET p == Head(stream[e])
              IN EpollGoes(c, IF p.part = "type" THEN "fields" ELSE "astray", e, Blank(p.frame.type))
           /\ TakePart(e)
           /\ UNCHANGED <<owner, fd, ending, backlog, client, inbox, up>> /\ NothingElse
        \/ /\ AtEof(e)
           /\ EpollGoes(c, "erase", e, Blank("OpStatus"))
           /\ UNCHANGED streamVars /\ NothingElse
        \/ ReadFails(e) /\ Exit(c, "exited")
  BY DEF get_type
<1>2. e \in Ends /\ owner[e] = c
  BY DEF EndsOf
<1>3. CASE Exit(c, "exited")
  BY <1>3, ExitInv
<1>4. ASSUME NEW pc \in {"fields", "erase", "astray"}, NEW t \in FrameTypes, fd[e] # 0,
             EpollGoes(c, pc, e, Blank(t)), NothingElse, StreamsInv', UNCHANGED <<owner, fd>>
      PROVE  IInv'
  <2>1. Blank(t) \in RealFrames /\ Blank(t).from = Nobody
    BY BlankType
  <2>2. EpollInv'
    BY <1>2, <1>4, <2>1, EpollEntry DEF IInv
  <2>3. LookupIsThePeer'
    BY <1>4 DEF IInv, LinkInv, LookupIsThePeer, NothingElse
  <2>4. EndInv'
    <3>1. \A b \in Peers : epoll'[b] = IF b = c THEN [pc |-> pc, end |-> e, frame |-> Blank(t)]
                                       ELSE epoll[b]
      BY <1>4 DEF EpollGoes, IInv, EpollInv
    <3> QED BY <3>1, <1>2, <1>4 DEF IInv, LinkInv, EndInv
  <2> QED BY <1>4, <2>2, <2>3, <2>4, MainStays, RestStays DEF IInv, LinkInv, NothingElse
<1>5. CASE /\ Readable(e)
           /\ LET p == Head(stream[e])
              IN EpollGoes(c, IF p.part = "type" THEN "fields" ELSE "astray", e, Blank(p.frame.type))
           /\ TakePart(e)
           /\ UNCHANGED <<owner, fd, ending, backlog, client, inbox, up>> /\ NothingElse
  <2> DEFINE p == Head(stream[e])
             pc == IF p.part = "type" THEN "fields" ELSE "astray"
  <2>1. stream[e] # <<>> /\ fd[e] # 0
    BY <1>5 DEF Readable, Open
  <2>2. p \in PartsAt(e)
    BY <2>1, <1>2, HeadTailProperties DEF IInv, StreamsInv
  <2>3. p.frame.type \in FrameTypes
    BY <2>2 DEF PartsAt, RealFrames, Frames
  <2>4. EpollGoes(c, pc, e, Blank(p.frame.type))
    BY <1>5
  <2>5. StreamsInv'
    BY <2>1, <1>2, <1>5, TakePartStreams DEF IInv
  <2> QED BY <2>1, <2>3, <2>4, <2>5, <1>4, <1>5
<1>6. CASE /\ AtEof(e)
           /\ EpollGoes(c, "erase", e, Blank("OpStatus"))
           /\ UNCHANGED streamVars /\ NothingElse
  <2>1. fd[e] # 0 /\ "OpStatus" \in FrameTypes
    BY <1>6 DEF AtEof, Open, FrameTypes
  <2>2. StreamsInv' /\ UNCHANGED <<owner, fd>>
    BY <1>6, StreamsStay DEF IInv, streamVars
  <2> QED BY <2>1, <2>2, <1>4, <1>6
<1> QED BY <1>1, <1>3, <1>5, <1>6

\* The loop of the visitor finds the only entry there is.
LEMMA HeldOnce ==
  ASSUME IInv, NEW c \in Peers, NEW e \in Ends, owner[e] = c,
         NEW a \in Peers, lookup[c][a] = fd[e], fd[e] # 0
  PROVE  a = owner[Other(e)]
<1>1. PICK d \in Ends : owner[d] = c /\ fd[d] = lookup[c][a] /\ owner[Other(d)] = a
  BY DEF IInv, LinkInv, LookupIsThePeer
<1>2. d = e
  BY <1>1 DEF IInv, StreamsInv, OneEach
<1> QED BY <1>1, <1>2

LEMMA TouchedType ==
  ASSUME MainInv, NEW c \in Peers, Touched(c)
  PROVE  MainInv'
<1> DEFINE g == [main[c].frame EXCEPT !.alone = FALSE]
<1>1. main' = main \/ (main[c].frame.type = "FileSendAccept" /\ main' = [main EXCEPT ![c].frame = g])
  BY DEF Touched, MainInv
<1>2. g \in MainFrames /\ g.to = main[c].frame.to
  <2>1. main[c].frame \in MainFrames /\ main[c].frame \in Frames
    BY DEF MainInv, MainFrames, ServerFrames, RealFrames
  <2>2. /\ g \in Frames /\ g.type = main[c].frame.type /\ g.num = main[c].frame.num
        /\ g.from = main[c].frame.from /\ g.to = main[c].frame.to
    BY <2>1 DEF Frames
  <2> HIDE DEF g
  <2> QED BY <2>1, <2>2 DEF MainFrames, ServerFrames, RealFrames
<1> HIDE DEF g
<1>3. CASE main' = main
  BY <1>3 DEF MainInv
<1>4. CASE main' = [main EXCEPT ![c].frame = g]
  BY <1>2, <1>4 DEF MainInv
<1> QED BY <1>1, <1>3, <1>4

LEMMA PeerIsDownInv ==
  ASSUME IInv, NEW c \in Peers, PeerIsDown(c)
  PROVE  IInv'
<1> DEFINE e == epoll[c].end
           held == {a \in Peers : lookup[c][a] = fd[e]}
<1>1. /\ epoll[c].pc = "erase" /\ Forget(c, e) /\ CloseEnd(e)
      /\ epoll' = [epoll EXCEPT ![c] = Wait] /\ Touched(c)
      /\ closed' = closed \union {c}
      /\ UNCHANGED <<life, data, typed, asked, offers, started>>
  BY DEF PeerIsDown, EpollWaits
<1>2. e \in Ends /\ owner[e] = c /\ fd[e] # 0
  BY <1>1 DEF IInv, EpollInv, LinkInv, EndInv
<1>3. IF held = {} THEN UNCHANGED lookup
      ELSE \E a \in held : lookup' = [lookup EXCEPT ![c][a] = 0]
  BY <1>1 DEF Forget
<1>4. \A a \in held : a = owner[Other(e)]
  BY <1>2, HeldOnce
<1> HIDE DEF e
<1>5. StreamsInv' /\ UNCHANGED owner /\ \A d \in Ends : fd'[d] = IF d = e THEN 0 ELSE fd[d]
  BY <1>1, <1>2, CloseEndStreams DEF IInv, CloseEnd
<1>6. /\ lookup' \in [Peers -> [Peers -> 0 .. MaxFd]]
      /\ \A b, a \in Peers : lookup'[b][a] = IF b = c /\ a \in held THEN 0 ELSE lookup[b][a]
  <2>1. CASE held = {}
    BY <2>1, <1>3 DEF IInv, RestInv
  <2>2. CASE held # {}
    <3>1. PICK x \in held : lookup' = [lookup EXCEPT ![c][x] = 0]
      BY <2>2, <1>3
    <3>2. \A a \in held : a = x
      BY <1>4
    <3> QED BY SMTT(30), <3>1, <3>2, PeerStreamsAssumption DEF IInv, RestInv
  <2> QED BY <2>1, <2>2
<1>7. RestInv'
  BY <1>1, <1>6 DEF IInv, RestInv
<1>8. MainInv' /\ EpollInv' /\ epoll'[c].pc = "wait"
  BY <1>1, TouchedType, EpollIdle DEF IInv
<1>9. LookupIsThePeer'
  <2> SUFFICES ASSUME NEW b \in Peers, NEW a \in Peers, lookup'[b][a] # 0
               PROVE  \E d \in Ends : owner[d] = b /\ fd'[d] = lookup'[b][a] /\ owner[Other(d)] = a
    BY <1>5 DEF LookupIsThePeer
  <2>1. lookup'[b][a] = lookup[b][a] /\ ~(b = c /\ a \in held)
    BY <1>6
  <2>2. PICK d \in Ends : owner[d] = b /\ fd[d] = lookup[b][a] /\ owner[Other(d)] = a
    BY <2>1 DEF IInv, LinkInv, LookupIsThePeer
  <2>3. d # e
    BY <2>1, <2>2, <1>2
  <2> QED BY <2>1, <2>2, <2>3, <1>5
<1>10. EndInv'
  <2>1. \A b \in Peers : b # c => epoll'[b] = epoll[b]
    BY <1>1 DEF IInv, EpollInv
  <2>2. \A b \in Peers : epoll[b].end \in Ends
    BY DEF IInv, EpollInv
  <2> QED BY <2>1, <2>2, <1>2, <1>5, <1>8 DEF IInv, LinkInv, EndInv
<1> QED BY <1>5, <1>7, <1>8, <1>9, <1>10 DEF IInv, LinkInv

\* What is put into lookup is the connection to that peer.
LEMMA EnterLinks ==
  ASSUME IInv, NEW c \in Peers, NEW a, NEW e \in Ends, owner[e] = c,
         a \in Peers => owner[Other(e)] = a,
         Enter(c, a, e), UNCHANGED <<owner, fd>>
  PROVE  LookupIsThePeer' /\ lookup' \in [Peers -> [Peers -> 0 .. MaxFd]]
<1>1. fd[e] \in 0 .. MaxFd
  BY DEF IInv, StreamsInv
<1>2. /\ lookup' \in [Peers -> [Peers -> 0 .. MaxFd]]
      /\ \A b, d \in Peers : lookup'[b][d] = IF b = c /\ d = a THEN fd[e] ELSE lookup[b][d]
  BY <1>1 DEF Enter, IInv, RestInv
<1>3. LookupIsThePeer'
  BY <1>2 DEF IInv, LinkInv, LookupIsThePeer
<1> QED BY <1>2, <1>3

LEMMA LinkEntered ==
  ASSUME IInv, NEW c \in Peers, P2PRequest_link(c)
  PROVE  IInv'
<1> DEFINE e == epoll[c].end  r == epoll[c].frame
<1>1. /\ epoll[c].pc = "link" /\ Enter(c, r.from, e) /\ EpollGoes(c, "login", e, r)
      /\ UNCHANGED <<streamVars, life, data, main, history>>
  BY DEF P2PRequest_link
<1>2. e \in Ends /\ owner[e] = c /\ owner[Other(e)] = r.from /\ r \in RealFrames
  BY <1>1 DEF IInv, EpollInv, LinkInv, EndInv
<1> HIDE DEF e, r
<1>3. LookupIsThePeer' /\ lookup' \in [Peers -> [Peers -> 0 .. MaxFd]]
  BY <1>1, <1>2, EnterLinks DEF streamVars
<1>4. EpollInv'
  BY <1>1, <1>2, EpollEntry DEF IInv
<1>5. EndInv'
  <2>1. \A b \in Peers : epoll'[b] = IF b = c THEN [pc |-> "login", end |-> e, frame |-> r]
                                     ELSE epoll[b]
    BY <1>1 DEF EpollGoes, IInv, EpollInv
  <2> QED BY <2>1, <1>1 DEF IInv, LinkInv, EndInv, streamVars
<1>6. RestInv'
  BY <1>1, <1>3 DEF IInv, RestInv, history
<1> QED BY <1>1, <1>3, <1>4, <1>5, <1>6, StreamsStay, MainStays DEF IInv, LinkInv

LEMMA LoginType ==
  ASSUME NEW c \in Peers
  PROVE  /\ Login(c) \in RealFrames /\ Login(c) \in ServerFrames
         /\ Login(c).from = c
<1>1. c \in Names /\ Nobody \in Names /\ 0 \in 0 .. MaxConns + MaxCommands
  BY PeerAssumption, PeerStreamsAssumption DEF Names
<1>2. Login(c) \in RealFrames
  BY <1>1, FrameType, FilesType DEF Login, FrameTypes
<1> QED BY <1>2 DEF ServerFrames, Login, Frame

LEMMA LoginTypeInv ==
  ASSUME IInv, NEW c \in Peers, login_type(c)
  PROVE  IInv'
<1> DEFINE e == epoll[c].end  r == epoll[c].frame
<1>1. /\ Write(c, fd[e], Type(Login(c))) /\ EpollGoes(c, "loginfields", e, r) /\ NothingElse
  BY DEF login_type
<1>2. e \in Ends /\ r \in RealFrames
  BY DEF IInv, EpollInv
<1>3. StreamsInv' /\ UNCHANGED <<owner, fd>>
  BY <1>1, LoginType, TypePart, WriteStreams DEF IInv
<1> HIDE DEF e, r
<1>4. EpollInv'
  BY <1>1, <1>2, EpollEntry DEF IInv
<1>5. LinkInv'
  BY <1>1, <1>3, LinksStayOn DEF IInv, EpollGoes, NothingElse
<1> QED BY <1>1, <1>3, <1>4, <1>5, MainStays, RestStays DEF IInv, NothingElse

LEMMA LinksWait ==
  ASSUME IInv, NEW c \in Peers, EpollWaits(c), UNCHANGED <<owner, fd, lookup>>
  PROVE  EpollInv' /\ LinkInv'
<1>1. Wait.pc \notin {"fields", "link", "erase"} /\ epoll' = [epoll EXCEPT ![c] = Wait]
  BY DEF EpollWaits, Wait
<1> QED BY <1>1, EpollIdle, LinksStayOn DEF IInv

LEMMA LoginFieldsInv ==
  ASSUME IInv, NEW c \in Peers, login_fields(c)
  PROVE  IInv'
<1>1. /\ Write(c, fd[epoll[c].end], Fields(Login(c))) /\ EpollWaits(c) /\ NothingElse
  BY DEF login_fields
<1>2. StreamsInv' /\ UNCHANGED <<owner, fd>>
  BY <1>1, LoginType, FieldsPart, WriteStreams DEF IInv
<1> QED BY <1>1, <1>2, LinksWait, MainStays, RestStays DEF IInv, NothingElse

\* What read_data leaves in raw.
LEMMA ReadData ==
  ASSUME IInv, NEW c \in Peers, NEW type, read_data(c, type)
  PROVE  /\ StreamsInv' /\ UNCHANGED <<owner, fd>>
         /\ epoll[c].pc = "fields" /\ epoll[c].end \in Ends /\ owner[epoll[c].end] = c
         /\ raw(c) \in RealFrames /\ raw(c).type = type
         /\ type = "P2PLogin" /\ raw(c).from \in Peers => raw(c).from = owner[Other(epoll[c].end)]
<1> DEFINE e == epoll[c].end  r == epoll[c].frame
<1>1. /\ epoll[c].pc = "fields" /\ r.type = type
      /\ IF Fits(c) THEN TakePart(e) ELSE UNCHANGED stream
      /\ UNCHANGED <<owner, fd, ending, backlog, client, inbox, up>>
  BY DEF read_data, Reading
<1>2. e \in Ends /\ owner[e] = c /\ r \in RealFrames /\ r.from = Nobody
  BY <1>1 DEF IInv, EpollInv, LinkInv, EndInv
<1>3. CASE Fits(c)
  <2>1. /\ stream[e] # <<>> /\ raw(c) = Head(stream[e]).frame
        /\ Head(stream[e]).part = "fields" /\ Head(stream[e]).frame.type = type
    BY <1>1, <1>3 DEF Fits, Comes, raw, Readable
  <2>2. Head(stream[e]) \in PartsAt(e)
    BY <1>2, <2>1, HeadTailProperties DEF IInv, StreamsInv
  <2>3. StreamsInv'
    BY <1>1, <1>2, <1>3, <2>1, TakePartStreams DEF IInv
  <2> QED BY <1>1, <1>2, <2>1, <2>2, <2>3 DEF PartsAt
<1>4. CASE ~Fits(c)
  <2>1. raw(c) = r
    BY <1>4 DEF raw
  <2>2. UNCHANGED streamVars
    BY <1>1, <1>4 DEF streamVars
  <2>3. StreamsInv'
    BY <2>2, StreamsStay DEF IInv
  <2> QED BY <1>1, <1>2, <2>1, <2>3, NobodyIsNoPeer
<1> QED BY <1>3, <1>4

LEMMA SendMessageHandled ==
  ASSUME IInv, NEW c \in Peers, SendMessage_action(c)
  PROVE  IInv'
<1>1. read_data(c, "SendMessage") /\ EpollWaits(c) /\ NothingElse
  BY DEF SendMessage_action
<1>2. StreamsInv' /\ UNCHANGED <<owner, fd>>
  BY <1>1, ReadData
<1> QED BY <1>1, <1>2, LinksWait, MainStays, RestStays DEF IInv, NothingElse

LEMMA P2PLoginHandled ==
  ASSUME IInv, NEW c \in Peers, P2PLogin_action(c)
  PROVE  IInv'
<1>1. /\ read_data(c, "P2PLogin") /\ Enter(c, raw(c).from, epoll[c].end)
      /\ epoll' = [epoll EXCEPT ![c] = Wait]
      /\ UNCHANGED <<life, data, main, history>>
  BY DEF P2PLogin_action, EpollWaits
<1>2. /\ StreamsInv' /\ UNCHANGED <<owner, fd>>
      /\ epoll[c].end \in Ends /\ owner[epoll[c].end] = c
      /\ raw(c).from \in Peers => raw(c).from = owner[Other(epoll[c].end)]
  BY <1>1, ReadData
<1>3. LookupIsThePeer' /\ lookup' \in [Peers -> [Peers -> 0 .. MaxFd]]
  BY <1>1, <1>2, EnterLinks
<1>4. EpollInv'
  BY <1>1, EpollIdle DEF IInv
<1>5. EndInv'
  <2>1. \A b \in Peers : epoll'[b] = IF b = c THEN Wait ELSE epoll[b]
    BY <1>1 DEF IInv, EpollInv
  <2> QED BY <2>1, <1>2 DEF IInv, LinkInv, EndInv, Wait
<1>6. RestInv'
  BY <1>1, <1>3 DEF IInv, RestInv, history
<1> QED BY <1>1, <1>2, <1>3, <1>4, <1>5, <1>6, MainStays DEF IInv, LinkInv

LEMMA ReadsAstrayInv ==
  ASSUME IInv, NEW c \in Peers, ReadsAstray(c)
  PROVE  IInv'
<1> DEFINE e == epoll[c].end
<1>1. /\ stream[e] # <<>> /\ EpollGoes(c, "astray", e, Blank("OpStatus")) /\ TakePart(e)
      /\ UNCHANGED <<owner, fd, ending, backlog, client, inbox, up>> /\ NothingElse
  BY DEF ReadsAstray, Readable
<1>2. e \in Ends /\ Blank("OpStatus") \in RealFrames
  BY StatusType DEF IInv, EpollInv, MainFrames, ServerFrames
<1> HIDE DEF e
<1>3. StreamsInv'
  BY <1>1, <1>2, TakePartStreams DEF IInv
<1>4. EpollInv'
  BY <1>1, <1>2, EpollEntry DEF IInv
<1>5. LinkInv'
  BY <1>1, LinksStayOn DEF IInv, EpollGoes, NothingElse
<1> QED BY <1>1, <1>3, <1>4, <1>5, MainStays, RestStays DEF IInv, NothingElse

LEMMA FileSendRequestHandled ==
  ASSUME IInv, NEW c \in Peers, FileSendRequest_action(c)
  PROVE  IInv'
<1> DEFINE e == epoll[c].end  r == raw(c)
<1>1. read_data(c, "FileSendRequest") /\ EpollGoes(c, "offer", e, r) /\ NothingElse
  BY DEF FileSendRequest_action
<1>2. /\ StreamsInv' /\ UNCHANGED <<owner, fd>> /\ e \in Ends
      /\ r \in RealFrames /\ r.type = "FileSendRequest"
  BY <1>1, ReadData
<1> HIDE DEF e, r
<1>3. EpollInv'
  BY <1>1, <1>2, EpollEntry DEF IInv
<1>4. LinkInv'
  BY <1>1, <1>2, LinksStayOn DEF IInv, EpollGoes, NothingElse
<1> QED BY <1>1, <1>2, <1>3, <1>4, MainStays, RestStays DEF IInv, NothingElse

\* The offer the epoll thread is copying into data.
LEMMA OfferType ==
  ASSUME IInv, NEW c \in Peers, epoll[c].pc \in {"offer", "file"}
  PROVE  /\ epoll[c].frame \in RealFrames /\ epoll[c].end \in Ends
         /\ epoll[c].frame.type = "FileSendRequest"
         /\ epoll[c].frame.from \in Names /\ epoll[c].frame.to \in Names
         /\ epoll[c].frame.num \in Files
BY DEF IInv, EpollInv, RealFrames, Frames

LEMMA NamesCopied ==
  ASSUME IInv, NEW c \in Peers, FileSendRequest_names(c)
  PROVE  IInv'
<1> DEFINE e == epoll[c].end  r == epoll[c].frame
<1>1. /\ epoll[c].pc = "offer"
      /\ data' = [data EXCEPT ![c].from = r.from, ![c].to = r.to]
      /\ EpollGoes(c, "file", e, r) /\ Touched(c)
      /\ UNCHANGED <<streamVars, life, lookup, history>>
  BY DEF FileSendRequest_names
<1>2. /\ r \in RealFrames /\ e \in Ends /\ r.type = "FileSendRequest"
      /\ r.from \in Names /\ r.to \in Names
  BY <1>1, OfferType
<1> HIDE DEF e, r
<1>3. EpollInv' /\ MainInv'
  BY <1>1, <1>2, EpollEntry, TouchedType DEF IInv
<1>4. LinkInv'
  BY <1>1, LinksStayOn DEF IInv, EpollGoes, streamVars
<1>5. RestInv'
  BY <1>1, <1>2 DEF IInv, RestInv, history
<1> QED BY <1>1, <1>3, <1>4, <1>5, StreamsStay DEF IInv

LEMMA FileCopied ==
  ASSUME IInv, NEW c \in Peers, FileSendRequest_file(c)
  PROVE  IInv'
<1> DEFINE n == epoll[c].frame.num
<1>1. /\ epoll[c].pc = "file"
      /\ data' = [data EXCEPT ![c].path = n, ![c].length = n]
      /\ EpollWaits(c) /\ Touched(c)
      /\ UNCHANGED <<streamVars, life, lookup, history>>
  BY DEF FileSendRequest_file
<1>2. n \in Files
  BY <1>1, OfferType
<1> HIDE DEF n
<1>3. MainInv' /\ EpollInv' /\ LinkInv'
  BY <1>1, TouchedType, LinksWait DEF IInv, streamVars
<1>4. RestInv'
  BY <1>1, <1>2 DEF IInv, RestInv, history
<1> QED BY <1>1, <1>3, <1>4, StreamsStay DEF IInv

LEMMA FileSendAcceptHandled ==
  ASSUME IInv, NEW c \in Peers, FileSendAccept_action(c)
  PROVE  IInv'
<1> DEFINE r == raw(c)
<1>1. /\ read_data(c, "FileSendAccept") /\ EpollWaits(c)
      /\ UNCHANGED <<life, lookup, data, main, typed, asked, offers, closed>>
  BY DEF FileSendAccept_action
<1>2. PICK p \in EndsAt(c, Entry(c, r.to)) :
        started' = started \union
          {[from |-> c, to |-> owner[Other(p)], file |-> r.num, port |-> r.port, alone |-> r.alone]}
  BY DEF FileSendAccept_action
<1>3. StreamsInv' /\ UNCHANGED <<owner, fd>> /\ r \in RealFrames /\ r.type = "FileSendAccept"
  BY <1>1, ReadData
<1> HIDE DEF r
<1>4. r.num \in Files /\ r.port \in Files /\ r.alone \in BOOLEAN
  BY <1>3 DEF RealFrames, Frames, Files
<1>5. owner[Other(p)] \in Peers
  <2>1. p \in Ends /\ owner[p] = c
    BY DEF EndsAt, EndsOf
  <2> QED BY <2>1, OtherType, NobodyIsNoPeer DEF IInv, StreamsInv, Paired, Names
<1>6. RestInv'
  BY SMTT(30), <1>1, <1>2, <1>4, <1>5 DEF IInv, RestInv
<1> QED BY <1>1, <1>3, <1>6, LinksWait, MainStays DEF IInv

-----------------------------------------------------------------------------
(* The theorems                                                             *)

LEMMA InitInv == Init => IInv
<1> SUFFICES ASSUME Init PROVE IInv
  OBVIOUS
<1> USE DEF Init, StreamsInit, ClientInit
<1>1. StreamsInv
  <2>1. <<>> \in Seq(Conns) /\ <<>> \in Seq(ServerFrames) /\ 1 .. Len(<<>>) = {}
    BY EmptySeq
  <2>2. \A e \in Ends : stream[e] \in Seq(PartsAt(e))
    BY EmptySeq
  <2>3. OneEach /\ OwnFds /\ Paired
    BY OtherType DEF OneEach, OwnFds, Paired
  <2>4. Backlogs
    BY <2>1 DEF Backlogs
  <2> QED BY <2>1, <2>2, <2>3, <2>4, PeerStreamsAssumption DEF StreamsInv, Names, Endings
<1>2. MainInv
  BY StatusType, PeerStreamsAssumption DEF MainInv, Idle
<1>3. EpollInv
  BY WaitType DEF EpollInv, Wait
<1>4. RestInv
  <2>1. NoData \in [from : Names, to : Names, path : Files, length : Files]
    BY FilesType DEF NoData, Names
  <2>2. offers \in Seq([from : Peers, to : Peers]) /\ Len(offers) = 0
    BY EmptySeq
  <2> QED BY <2>1, <2>2, PeerStreamsAssumption, PeerAssumption DEF RestInv
<1>5. LinkInv
  BY DEF LinkInv, LookupIsThePeer, EndInv, Wait
<1> QED BY <1>1, <1>2, <1>3, <1>4, <1>5 DEF IInv

LEMMA EpollNext ==
  ASSUME IInv, NEW c \in Peers, Epoll(c)
  PROVE  IInv'
<1>1. ASSUME \E how \in {"left", "exited", "asserted"} : Exit(c, how) PROVE IInv'
  BY <1>1, ExitInv
<1>2. CASE \/ Incoming(c) \/ Shown(c) \/ P2PRequest(c) \/ ServerIsDown(c) \/ get_type(c)
           \/ PeerIsDown(c)
  BY <1>2, IncomingInv, ShownInv, P2PRequestHandled, ServerIsDownInv, GetTypeInv, PeerIsDownInv
<1>3. CASE P2PRequest_link(c) \/ login_type(c) \/ login_fields(c) \/ ReadsAstray(c)
  BY <1>3, LinkEntered, LoginTypeInv, LoginFieldsInv, ReadsAstrayInv
<1>4. CASE \/ SendMessage_action(c) \/ P2PLogin_action(c) \/ FileSendRequest_action(c)
           \/ FileSendRequest_names(c) \/ FileSendRequest_file(c) \/ FileSendAccept_action(c)
  BY <1>4, SendMessageHandled, P2PLoginHandled, FileSendRequestHandled, NamesCopied,
     FileCopied, FileSendAcceptHandled
<1>5. CASE \/ login_fails(c) \/ ReadBreaks(c) \/ P2PRequest_stray(c) \/ FileSendAccept_fails(c)
           \/ Misread(c)
  BY <1>1, <1>5 DEF login_fails, ReadBreaks, P2PRequest_stray, FileSendAccept_fails, Misread
<1> QED BY <1>2, <1>3, <1>4, <1>5 DEF Epoll, EpollGoesOn

LEMMA MainNext ==
  ASSUME IInv, NEW c \in Peers, Main(c)
  PROVE  IInv'
<1>1. CASE sendmsg(c) \/ p2p_request(c) \/ file_send(c) \/ file_accept(c)
  BY <1>1, SendmsgInv, P2PRequestInv, FileSendInv, FileAcceptInv
<1>2. CASE file_send_path(c) \/ file_accept_find(c) \/ send_type(c) \/ send_fields(c)
  BY <1>2, FileSendPathInv, FileAcceptFindInv, SendTypeInv, SendFieldsInv
<1>3. CASE send_fails(c)
  BY <1>3, ExitInv DEF send_fails
<1> QED BY <1>1, <1>2, <1>3 DEF Main, MainGoesOn

LEMMA NextInv == IInv /\ [Next]_vars => IInv'
<1> SUFFICES ASSUME IInv, [Next]_vars PROVE IInv'
  OBVIOUS
<1>1. ASSUME NEW c \in Peers, Main(c) \/ Epoll(c) PROVE IInv'
  BY <1>1, MainNext, EpollNext
<1>2. ASSUME NEW c \in Peers, Leave(c) PROVE IInv'
  BY <1>2, ExitInv DEF Leave
<1>3. CASE ServerStops
  <2>1. up' = FALSE
    BY <1>3 DEF ServerStops
  <2>2. StreamsInv'
    <3>1. UNCHANGED <<owner, fd, stream, ending, backlog, client, inbox>> /\ up' \in BOOLEAN
      BY <1>3, <2>1 DEF ServerStops
    <3>2. \A e \in Ends : PartsAt(e)' = PartsAt(e)
      BY <3>1 DEF PartsAt
    <3>3. OneEach' /\ OwnFds' /\ Paired' /\ Backlogs'
      BY <3>1 DEF IInv, StreamsInv, OneEach, OwnFds, Paired, Backlogs
    <3> QED BY <3>1, <3>2, <3>3 DEF IInv, StreamsInv
  <2>3. UNCHANGED <<owner, fd, life, lookup, data, main, epoll, history>>
    BY <1>3 DEF ServerStops, clientVars
  <2> QED BY <2>2, <2>3, MainStays, EpollStays, RestStays, LinksStay DEF IInv
<1>4. CASE UNCHANGED vars
  <2>1. UNCHANGED streamVars /\ UNCHANGED <<life, lookup, data, main, epoll, history>>
    BY <1>4 DEF vars, clientVars
  <2> QED BY <2>1, StreamsStay, MainStays, EpollStays, RestStays, LinksStay DEF IInv, streamVars
<1> QED BY <1>1, <1>2, <1>3, <1>4 DEF Next

\* The invariant holds of every behaviour of the clients.
THEOREM LinkInvariance == Spec => []IInv
BY InitInv, NextInv, PTL DEF Spec

LEMMA TypeFollows == IInv => TypeOK
<1> SUFFICES ASSUME IInv PROVE TypeOK
  OBVIOUS
<1>1. StreamsTypeOK
  <2>1. \A e \in Ends : stream[e] \in Seq([part : {"type", "fields"}, frame : Frames])
    <3>1. \A e \in Ends : PartsAt(e) \subseteq [part : {"type", "fields"}, frame : Frames]
      BY DEF PartsAt, Parts
    <3> SUFFICES ASSUME NEW e \in Ends
                 PROVE  stream[e] \in Seq([part : {"type", "fields"}, frame : Frames])
      OBVIOUS
    <3>2. stream[e] \in Seq(PartsAt(e))
      BY DEF IInv, StreamsInv
    <3>3. PartsAt(e) \subseteq [part : {"type", "fields"}, frame : Frames]
      BY <3>1
    <3> HIDE DEF Ends
    <3> QED BY <3>2, <3>3, SeqMonotonic
  <2>2. \A c \in Peers : inbox[c] \in Seq(Frames)
    <3>1. ServerFrames \subseteq Frames
      BY DEF ServerFrames, RealFrames
    <3> QED BY <3>1, SeqMonotonic DEF IInv, StreamsInv
  <2> QED BY <2>1, <2>2 DEF IInv, StreamsInv, StreamsTypeOK, Backlogs
<1>2. ClientTypeOK
  <2>1. MainFrames \subseteq Frames /\ RealFrames \subseteq Frames
    BY DEF MainFrames, ServerFrames, RealFrames
  <2>2. /\ main \in [Peers -> [pc : {"idle", "path", "find", "type", "fields"},
                               at : 0 .. MaxFd, frame : Frames]]
    BY <2>1 DEF IInv, MainInv
  <2>3. epoll \in [Peers -> [pc : {"wait", "fields", "link", "login", "loginfields",
                                   "erase", "offer", "file", "astray"},
                             end : Ends, frame : Frames]]
    BY <2>1 DEF IInv, EpollInv
  <2> QED BY <2>2, <2>3 DEF IInv, RestInv, ClientTypeOK
<1>3. OneEach /\ OwnFds
  BY DEF IInv, StreamsInv
<1> QED BY <1>1, <1>2, <1>3 DEF TypeOK, OneEach, OwnFds

\* Every variable has its type, and no two connections of a client, the
\* server's included, have one descriptor, however they are closed and opened.
THEOREM LinkTypeCorrect == Spec => []TypeOK
BY LinkInvariance, TypeFollows, PTL

\* A descriptor in lookup is that of the connection to the peer it is there
\* for, whoever closes connections and whoever gets their descriptors next.
THEOREM LookupCorrect == Spec => []LookupIsThePeer
<1>1. IInv => LookupIsThePeer
  BY DEF IInv, LinkInv
<1> QED BY <1>1, LinkInvariance, PTL

-----------------------------------------------------------------------------
(* Messages                                                                 *)

\* A message that may lie in the stream of e.
RightAt(e) == {p \in Parts :
  p.part = "fields" /\ p.frame.type = "SendMessage" /\ p.frame.from \notin closed
    => p.frame.to = owner[e]}

StreamsRight == \A e \in Ends : stream[e] \in Seq(RightAt(e))

\* Where the main thread writes a message: to the server, or to the receiver.
Towards(c) ==
  \/ main[c].at = Client
  \/ \E e \in Ends : /\ owner[e] = c /\ fd[e] = main[c].at /\ fd[e] # 0
                     /\ owner[Other(e)] = main[c].frame.to

MessagesRight ==
  \A c \in Peers :
    /\ main[c].frame.type = "SendMessage" =>
         main[c].frame.from = c /\ main[c].pc \in {"type", "fields"}
    /\ c \notin closed =>
         /\ life[c] = "on" => client[c] = Client
         /\ main[c].frame.type = "SendMessage" => life[c] = "on" /\ Towards(c)

RInv == IInv /\ StreamsRight /\ MessagesRight

LEMMA ReceiverMeans == RInv => OnlyTheReceiver
<1> SUFFICES ASSUME RInv, NEW e \in Ends, NEW i \in DOMAIN stream[e],
                    stream[e][i].part = "fields", stream[e][i].frame.type = "SendMessage",
                    stream[e][i].frame.from \notin closed
             PROVE  stream[e][i].frame.to = owner[e]
  BY DEF OnlyTheReceiver
<1>1. stream[e] \in Seq(RightAt(e))
  BY DEF RInv, StreamsRight
<1>2. i \in 1 .. Len(stream[e])
  BY <1>1, LenProperties
<1>3. stream[e][i] \in RightAt(e)
  BY <1>1, <1>2, ElementOfSeq
<1> QED BY <1>3 DEF RightAt

LEMMA RightGrows ==
  ASSUME NEW e \in Ends, owner'[e] = owner[e], closed \subseteq closed'
  PROVE  RightAt(e) \subseteq RightAt(e)'
BY DEF RightAt

\* Reading, closing and connecting put nothing into a stream.
LEMMA StreamsShrink ==
  ASSUME StreamsRight, closed \subseteq closed',
         \A e \in Ends :
           \/ stream'[e] = <<>>
           \/ /\ owner'[e] = owner[e]
              /\ \/ stream'[e] = stream[e]
                 \/ stream[e] # <<>> /\ stream'[e] = Tail(stream[e])
  PROVE  StreamsRight'
<1> SUFFICES ASSUME NEW e \in Ends PROVE stream'[e] \in Seq(RightAt(e)')
  BY DEF StreamsRight
<1>1. CASE stream'[e] = <<>>
  BY <1>1, EmptySeq
<1>2. CASE owner'[e] = owner[e] /\ \/ stream'[e] = stream[e]
                                   \/ stream[e] # <<>> /\ stream'[e] = Tail(stream[e])
  <2>1. stream[e] \in Seq(RightAt(e))
    BY DEF StreamsRight
  <2>2. stream'[e] \in Seq(RightAt(e))
    BY <1>2, <2>1, HeadTailProperties
  <2>3. RightAt(e) \subseteq RightAt(e)'
    BY <1>2, RightGrows
  <2> QED BY <2>2, <2>3, SeqMonotonic
<1> QED BY <1>1, <1>2

LEMMA StreamsAsTheyAre ==
  ASSUME StreamsRight, closed \subseteq closed', UNCHANGED <<owner, stream>>
  PROVE  StreamsRight'
BY StreamsShrink

LEMMA WriteRight ==
  ASSUME RInv, NEW c \in Peers, NEW f, NEW part \in Parts, UNCHANGED closed,
         part.part = "fields" /\ part.frame.type = "SendMessage" /\ part.frame.from \notin closed =>
           \A e \in EndsAt(c, f) : owner[Other(e)] = part.frame.to,
         Write(c, f, part)
  PROVE  StreamsRight'
<1>1. UNCHANGED owner
  BY DEF Write
<1>2. CASE UNCHANGED stream
  BY <1>1, <1>2, StreamsAsTheyAre DEF RInv
<1>3. ASSUME NEW e \in EndsAt(c, f), stream' = [stream EXCEPT ![Other(e)] = Append(@, part)]
      PROVE  StreamsRight'
  <2> DEFINE o == Other(e)
  <2>1. o \in Ends
    BY OtherType DEF EndsAt, EndsOf
  <2>2. part \in RightAt(o)
    BY DEF RightAt
  <2>3. stream' = [stream EXCEPT ![o] = Append(@, part)]
    BY <1>3
  <2> HIDE DEF o
  <2>4. Append(stream[o], part) \in Seq(RightAt(o))
    BY <2>1, <2>2, AppendProperties DEF RInv, StreamsRight
  <2>5. \A d \in Ends : stream'[d] = IF d = o THEN Append(stream[o], part) ELSE stream[d]
    BY <2>1, <2>3 DEF RInv, IInv, StreamsInv
  <2>6. \A d \in Ends : stream'[d] \in Seq(RightAt(d))
    BY <2>4, <2>5 DEF RInv, StreamsRight
  <2>7. \A d \in Ends : RightAt(d)' = RightAt(d)
    BY <1>1 DEF RightAt
  <2> QED BY <2>6, <2>7 DEF StreamsRight
<1> QED BY <1>2, <1>3 DEF Write, WriteEnd

\* The step leaves what client c is about to write where it is, or c has
\* ended, or has closed a connection.
KeptMessage(c) ==
  \/ main'[c].frame.type # "SendMessage"
  \/ /\ main'[c].frame = main[c].frame /\ main'[c].at = main[c].at
     /\ main'[c].pc \in {main[c].pc, "type", "fields"}

KeptEnds(c) ==
  /\ life'[c] = life[c] /\ client'[c] = client[c]
  /\ \A e \in Ends : owner[e] = c /\ fd[e] # 0 =>
       owner'[e] = c /\ fd'[e] = fd[e] /\ owner'[Other(e)] = owner[Other(e)]

Kept(c) ==
  /\ KeptMessage(c)
  /\ \/ c \in closed'
     \/ life'[c] # "on" /\ main'[c].frame.type # "SendMessage"
     \/ KeptEnds(c)

LEMMA MessagesKept ==
  ASSUME MessagesRight, closed \subseteq closed', \A c \in Peers : Kept(c)
  PROVE  MessagesRight'
<1> SUFFICES ASSUME NEW c \in Peers
             PROVE  /\ main'[c].frame.type = "SendMessage" =>
                         main'[c].frame.from = c /\ main'[c].pc \in {"type", "fields"}
                    /\ c \notin closed' =>
                         /\ life'[c] = "on" => client'[c] = Client
                         /\ main'[c].frame.type = "SendMessage" => life'[c] = "on" /\ Towards(c)'
  BY DEF MessagesRight
<1>1. KeptMessage(c)
  BY DEF Kept
<1>2. main'[c].frame.type = "SendMessage" =>
        main'[c].frame.from = c /\ main'[c].pc \in {"type", "fields"}
  BY <1>1 DEF KeptMessage, MessagesRight
<1>3. ASSUME c \notin closed', KeptEnds(c)
      PROVE  /\ life'[c] = "on" => client'[c] = Client
             /\ main'[c].frame.type = "SendMessage" => life'[c] = "on" /\ Towards(c)'
  <2>1. c \notin closed
    BY <1>3
  <2>2. life'[c] = "on" => client'[c] = Client
    <3>1. life[c] = "on" => client[c] = Client
      BY <2>1 DEF MessagesRight
    <3>2. life'[c] = life[c] /\ client'[c] = client[c]
      BY <1>3 DEF KeptEnds
    <3> QED BY <3>1, <3>2
  <2>3. ASSUME main'[c].frame.type = "SendMessage"
        PROVE  life'[c] = "on" /\ Towards(c)'
    <3>1. main'[c].frame = main[c].frame /\ main'[c].at = main[c].at
      BY <1>1, <2>3 DEF KeptMessage
    <3>2. life[c] = "on" /\ Towards(c)
      BY <2>1, <2>3, <3>1 DEF MessagesRight
    <3>3. Towards(c)'
      BY <1>3, <3>1, <3>2 DEF Towards, KeptEnds
    <3> QED BY <1>3, <3>2, <3>3 DEF KeptEnds
  <2> QED BY <2>2, <2>3
<1> QED BY <1>2, <1>3 DEF Kept

\* Steps of the threads that close, open and end nothing.
LEMMA QuietMessages ==
  ASSUME MessagesRight, UNCHANGED <<owner, fd, client, life, closed>>,
         \A c \in Peers : KeptMessage(c)
  PROVE  MessagesRight'
<1>1. \A c \in Peers : Kept(c)
  BY DEF Kept, KeptEnds
<1> QED BY <1>1, MessagesKept

LEMMA MainGoesAt ==
  ASSUME IInv, NEW c \in Peers, NEW pc, NEW at, NEW frame, MainGoes(c, pc, at, frame)
  PROVE  \A b \in Peers :
           main'[b] = IF b = c THEN [pc |-> pc, at |-> at, frame |-> frame] ELSE main[b]
BY DEF MainGoes, IInv, MainInv

LEMMA MainGoesMessage ==
  ASSUME IInv, NEW c \in Peers, NEW pc, NEW at, NEW frame, MainGoes(c, pc, at, frame),
         \/ frame.type # "SendMessage"
         \/ frame = main[c].frame /\ at = main[c].at /\ pc \in {main[c].pc, "type", "fields"}
  PROVE  \A b \in Peers : KeptMessage(b)
<1> SUFFICES ASSUME NEW b \in Peers PROVE KeptMessage(b)
  OBVIOUS
<1>1. CASE b # c
  <2>1. main'[b] = main[b]
    BY <1>1, MainGoesAt
  <2> QED BY <2>1 DEF KeptMessage
<1>2. CASE b = c
  <2>1. main'[b] = [pc |-> pc, at |-> at, frame |-> frame]
    BY <1>2, MainGoesAt
  <2>2. main'[b].pc = pc /\ main'[b].at = at /\ main'[b].frame = frame
    BY <2>1
  <2> QED BY <1>2, <2>2 DEF KeptMessage
<1> QED BY <1>1, <1>2

LEMMA TypingRight ==
  ASSUME RInv, NEW c \in Peers, NEW command, Typing(c, command)
  PROVE  /\ StreamsRight' /\ life[c] = "on"
         /\ UNCHANGED <<owner, fd, client, life, lookup, closed>>
BY StreamsAsTheyAre DEF RInv, Typing, streamVars

LEMMA SendmsgRight ==
  ASSUME RInv, NEW c \in Peers, sendmsg(c)
  PROVE  StreamsRight' /\ MessagesRight'
<1>1. /\ Typing(c, "send")
      /\ \E to \in Others(c, "send") : \E f \in Find(c, to) :
           MainGoes(c, "type", IF f # 0 THEN f ELSE Client, Frame("SendMessage", c, to, 0))
  BY DEF sendmsg
<1>. PICK to \in Others(c, "send") : \E f \in Find(c, to) :
       MainGoes(c, "type", IF f # 0 THEN f ELSE Client, Frame("SendMessage", c, to, 0))
  BY <1>1
<1>2. PICK f \in Find(c, to) :
        MainGoes(c, "type", IF f # 0 THEN f ELSE Client, Frame("SendMessage", c, to, 0))
  OBVIOUS
<1>3. StreamsRight' /\ life[c] = "on" /\ UNCHANGED <<owner, fd, client, life, lookup, closed>>
  BY <1>1, TypingRight
<1>4. \A b \in Peers : b # c => main'[b] = main[b]
  <2> DEFINE at == IF f # 0 THEN f ELSE Client
             frame == Frame("SendMessage", c, to, 0)
  <2>1. IInv /\ MainGoes(c, "type", at, frame)
    BY <1>2 DEF RInv
  <2> HIDE DEF at, frame
  <2>2. \A b \in Peers :
          main'[b] = IF b = c THEN [pc |-> "type", at |-> at, frame |-> frame] ELSE main[b]
    BY <2>1, MainGoesAt
  <2> QED BY <2>2
<1>5. /\ main'[c].pc = "type" /\ main'[c].at = IF f # 0 THEN f ELSE Client
      /\ main'[c].frame.from = c /\ main'[c].frame.to = to
  <2> DEFINE at == IF f # 0 THEN f ELSE Client
             frame == Frame("SendMessage", c, to, 0)
  <2>1. main'[c] = [pc |-> "type", at |-> at, frame |-> frame]
    BY <1>2, MainGoesAt DEF RInv
  <2>2. frame.from = c /\ frame.to = to
    BY DEF Frame
  <2> HIDE DEF frame
  <2> QED BY <2>1, <2>2
<1>6. Towards(c)'
  <2>1. CASE f = 0
    BY <2>1, <1>5 DEF Towards
  <2>2. CASE f # 0
    <3>1. to \in Peers /\ f = lookup[c][to]
      BY <2>2, OthersType DEF Find, Entry
    <3>2. PICK e \in Ends : owner[e] = c /\ fd[e] = f /\ owner[Other(e)] = to
      BY <2>2, <3>1 DEF RInv, IInv, LinkInv, LookupIsThePeer
    <3> QED BY <2>2, <3>2, <1>3, <1>5 DEF Towards
  <2> QED BY <2>1, <2>2
<1>7. MessagesRight'
  <2> SUFFICES ASSUME NEW b \in Peers
               PROVE  /\ main'[b].frame.type = "SendMessage" =>
                           main'[b].frame.from = b /\ main'[b].pc \in {"type", "fields"}
                      /\ b \notin closed' =>
                           /\ life'[b] = "on" => client'[b] = Client
                           /\ main'[b].frame.type = "SendMessage" => life'[b] = "on" /\ Towards(b)'
    BY DEF MessagesRight
  <2>1. CASE b = c
    BY <2>1, <1>3, <1>5, <1>6 DEF RInv, MessagesRight
  <2>2. CASE b # c
    BY <2>2, <1>3, <1>4 DEF RInv, MessagesRight, Towards
  <2> QED BY <2>1, <2>2
<1> QED BY <1>3, <1>7

LEMMA OtherTypingRight ==
  ASSUME RInv, NEW c \in Peers, p2p_request(c) \/ file_send(c) \/ file_accept(c)
  PROVE  StreamsRight' /\ MessagesRight'
<1>1. \E command : Typing(c, command)
  BY DEF p2p_request, file_send, file_accept
<1>2. /\ StreamsRight' /\ UNCHANGED <<owner, fd, client, life, closed>>
  BY <1>1, TypingRight
<1>3. ASSUME NEW pc, NEW at, NEW frame, frame.type # "SendMessage", MainGoes(c, pc, at, frame)
      PROVE  MessagesRight'
  <2>1. \A b \in Peers : KeptMessage(b)
    BY <1>3, MainGoesMessage DEF RInv
  <2> QED BY <1>2, <2>1, QuietMessages DEF RInv
<1>4. CASE p2p_request(c)
  BY <1>2, <1>3, <1>4 DEF p2p_request, Frame
<1>5. CASE file_send(c)
  <2>1. PICK to \in Others(c, "filesend") : \E f \in Find(c, to) :
          MainGoes(c, "path", f, Frame("FileSendRequest", c, to, Len(offers) + 1))
    BY <1>5 DEF file_send
  <2> QED BY <1>2, <1>3, <2>1 DEF Frame
<1>6. CASE file_accept(c)
  <2> DEFINE frame == [Blank("FileSendAccept") EXCEPT !.port = data[c].length,
                                                      !.alone = epoll[c].pc \notin {"offer", "file"}]
  <2>1. MainGoes(c, "find", 0, frame)
    BY <1>6 DEF file_accept
  <2>2. frame.type # "SendMessage"
    BY DEF Blank, Frame
  <2> HIDE DEF frame
  <2> QED BY <1>2, <1>3, <2>1, <2>2
<1> QED BY <1>4, <1>5, <1>6

LEMMA FindRight ==
  ASSUME RInv, NEW c \in Peers, file_send_path(c) \/ file_accept_find(c)
  PROVE  StreamsRight' /\ MessagesRight'
<1>1. /\ main[c].pc \in {"path", "find"} /\ UNCHANGED <<streamVars, life, closed>>
      /\ \E f : MainGoes(c, "type", f, main[c].frame)
  BY DEF file_send_path, file_accept_find, history
<1>2. PICK f : MainGoes(c, "type", f, main[c].frame)
  BY <1>1
<1>3. main[c].frame.type # "SendMessage"
  BY <1>1 DEF RInv, MessagesRight
<1>4. \A b \in Peers : KeptMessage(b)
  BY <1>2, <1>3, MainGoesMessage DEF RInv
<1> QED BY <1>1, <1>4, QuietMessages, StreamsAsTheyAre DEF RInv, streamVars

LEMMA SendTypeRight ==
  ASSUME RInv, NEW c \in Peers, send_type(c)
  PROVE  StreamsRight' /\ MessagesRight'
<1>1. /\ Write(c, main[c].at, Type(main[c].frame))
      /\ MainGoes(c, "fields", main[c].at, main[c].frame)
      /\ UNCHANGED <<life, closed>>
  BY DEF send_type, history
<1>2. Type(main[c].frame) \in Parts /\ Type(main[c].frame).part = "type"
  BY TypePart DEF RInv, IInv, MainInv, MainFrames, ServerFrames
<1>3. StreamsRight'
  BY <1>1, <1>2, WriteRight
<1>4. UNCHANGED <<owner, fd, client>>
  BY <1>1 DEF Write
<1>5. \A b \in Peers : KeptMessage(b)
  BY <1>1, MainGoesMessage DEF RInv
<1> QED BY <1>1, <1>3, <1>4, <1>5, QuietMessages DEF RInv

\* The connection that has the descriptor is the one the message is for.
LEMMA AtTheReceiver ==
  ASSUME RInv, NEW c \in Peers, c \notin closed, main[c].frame.type = "SendMessage",
         NEW e \in EndsAt(c, main[c].at)
  PROVE  owner[Other(e)] = main[c].frame.to
<1>1. e \in Ends /\ owner[e] = c /\ fd[e] = main[c].at /\ fd[e] # 0
  BY DEF EndsAt, EndsOf
<1>2. Towards(c) /\ life[c] = "on" /\ client[c] = Client
  BY DEF RInv, MessagesRight
<1>3. main[c].at # Client
  BY <1>1, <1>2 DEF RInv, IInv, StreamsInv, OwnFds
<1>4. PICK d \in Ends : /\ owner[d] = c /\ fd[d] = main[c].at
                        /\ owner[Other(d)] = main[c].frame.to
  BY <1>2, <1>3 DEF Towards
<1>5. d = e
  BY <1>1, <1>4 DEF RInv, IInv, StreamsInv, OneEach
<1> QED BY <1>4, <1>5

LEMMA SendFieldsRight ==
  ASSUME RInv, NEW c \in Peers, send_fields(c)
  PROVE  StreamsRight' /\ MessagesRight'
<1> DEFINE frame == SentFrame(c)  part == Fields(SentFrame(c))
<1>1. /\ Write(c, main[c].at, part)
      /\ main' = [main EXCEPT ![c] = Idle]
      /\ UNCHANGED <<life, closed>>
  BY DEF send_fields, history
<1>2. frame \in RealFrames
  BY SentFrameType DEF RInv, MainFrames, ServerFrames
<1>3. part \in Parts /\ part.frame = frame
  BY <1>2, FieldsPart
<1>4. frame.type = "SendMessage" => frame = main[c].frame
  BY DEF SentFrame, RInv, IInv, MainInv, MainFrames, ServerFrames, RealFrames, Frames
<1> HIDE DEF frame, part
<1>5. ASSUME part.frame.type = "SendMessage", part.frame.from \notin closed,
             NEW e \in EndsAt(c, main[c].at)
      PROVE  owner[Other(e)] = part.frame.to
  <2>1. frame = main[c].frame /\ main[c].frame.type = "SendMessage"
    BY <1>3, <1>4, <1>5
  <2>2. CASE c \notin closed
    BY <2>1, <2>2, <1>3, <1>5, AtTheReceiver
  <2>3. CASE c \in closed
    BY <2>1, <2>3, <1>3, <1>5 DEF RInv, MessagesRight
  <2> QED BY <2>2, <2>3
<1>6. StreamsRight'
  BY <1>1, <1>3, <1>5, WriteRight
<1>7. UNCHANGED <<owner, fd, client>>
  BY <1>1 DEF Write
<1>8. \A b \in Peers : KeptMessage(b)
  <2>1. \A b \in Peers : main'[b] = main[b] \/ main'[b].frame.type # "SendMessage"
    BY <1>1 DEF Idle, Blank, Frame, RInv, IInv, MainInv
  <2> QED BY <2>1 DEF KeptMessage
<1> QED BY <1>1, <1>6, <1>7, <1>8, QuietMessages DEF RInv

LEMMA SameMessages ==
  ASSUME UNCHANGED main
  PROVE  \A c \in Peers : KeptMessage(c)
BY DEF KeptMessage

LEMMA ExitRight ==
  ASSUME RInv, NEW c \in Peers, NEW how \in {"left", "exited", "asserted"}, Exit(c, how)
  PROVE  StreamsRight' /\ MessagesRight'
<1>1. /\ life' = [life EXCEPT ![c] = how] /\ CloseAll(c)
      /\ main' = [main EXCEPT ![c] = Idle] /\ UNCHANGED closed
  BY DEF Exit, history
<1>2. /\ UNCHANGED owner
      /\ fd' = [e \in Ends |-> IF owner[e] = c THEN 0 ELSE fd[e]]
      /\ stream' = [e \in Ends |-> IF owner[e] = c THEN <<>> ELSE stream[e]]
      /\ client' = [client EXCEPT ![c] = 0]
  BY <1>1 DEF CloseAll
<1>3. StreamsRight'
  BY <1>1, <1>2, StreamsShrink DEF RInv
<1>4. Kept(c)
  <2>1. life'[c] = how /\ main'[c] = Idle
    BY <1>1 DEF RInv, IInv, RestInv, MainInv
  <2> QED BY <2>1 DEF Kept, KeptMessage, Idle, Blank, Frame
<1>5. \A b \in Peers : b # c => Kept(b)
  <2> SUFFICES ASSUME NEW b \in Peers, b # c PROVE Kept(b)
    OBVIOUS
  <2>1. main'[b] = main[b] /\ life'[b] = life[b] /\ client'[b] = client[b]
    BY <1>1, <1>2 DEF RInv, IInv, RestInv, MainInv, StreamsInv
  <2> QED BY <2>1, <1>2 DEF Kept, KeptMessage, KeptEnds
<1> QED BY <1>1, <1>3, <1>4, <1>5, MessagesKept DEF RInv

\* A part that is no message is written by the epoll thread.
LEMMA LoginRight ==
  ASSUME RInv, NEW c \in Peers, login_type(c) \/ login_fields(c)
  PROVE  StreamsRight' /\ MessagesRight'
<1>1. /\ \E f : Write(c, f, Type(Login(c))) \/ Write(c, f, Fields(Login(c)))
      /\ UNCHANGED <<life, main, closed>>
  BY DEF login_type, login_fields, NothingElse, history
<1>2. Login(c) \in RealFrames /\ Login(c).type # "SendMessage"
  BY LoginType DEF Login, Frame
<1>3. PICK f : Write(c, f, Type(Login(c))) \/ Write(c, f, Fields(Login(c)))
  BY <1>1
<1>4. UNCHANGED <<owner, fd, client>>
  BY <1>3 DEF Write
<1>5. CASE Write(c, f, Type(Login(c)))
  <2>1. Type(Login(c)) \in Parts /\ Type(Login(c)).part = "type"
    BY <1>2, TypePart
  <2>2. StreamsRight'
    BY <2>1, <1>1, <1>5, WriteRight
  <2> QED BY <2>2, <1>1, <1>4, SameMessages, QuietMessages DEF RInv
<1>6. CASE Write(c, f, Fields(Login(c)))
  <2>1. Fields(Login(c)) \in Parts /\ Fields(Login(c)).frame = Login(c)
    BY <1>2, FieldsPart
  <2>2. StreamsRight'
    BY <2>1, <1>1, <1>2, <1>6, WriteRight
  <2> QED BY <2>2, <1>1, <1>4, SameMessages, QuietMessages DEF RInv
<1> QED BY <1>3, <1>5, <1>6

LEMMA TakePartRight ==
  ASSUME RInv, NEW e, TakePart(e), stream[e] # <<>>, UNCHANGED <<owner, closed>>
  PROVE  StreamsRight'
<1>1. \A d \in Ends : stream'[d] = stream[d] \/ (stream[d] # <<>> /\ stream'[d] = Tail(stream[d]))
  BY DEF TakePart, RInv, IInv, StreamsInv
<1> QED BY <1>1, StreamsShrink DEF RInv

LEMMA ReadRight ==
  ASSUME RInv, NEW c \in Peers, NEW type, read_data(c, type), UNCHANGED <<life, closed>>,
         \A b \in Peers : KeptMessage(b)
  PROVE  StreamsRight' /\ MessagesRight'
<1>1. /\ UNCHANGED <<owner, fd, client>>
      /\ IF Fits(c) THEN TakePart(epoll[c].end) ELSE UNCHANGED stream
  BY DEF read_data
<1>2. StreamsRight'
  BY <1>1, TakePartRight, StreamsAsTheyAre DEF Fits, Readable, RInv
<1> QED BY <1>1, <1>2, QuietMessages DEF RInv

LEMMA HandlersRight ==
  ASSUME RInv, NEW c \in Peers,
         \/ SendMessage_action(c) \/ P2PLogin_action(c)
         \/ FileSendRequest_action(c) \/ FileSendAccept_action(c)
  PROVE  StreamsRight' /\ MessagesRight'
<1>1. /\ \E type : read_data(c, type)
      /\ UNCHANGED <<life, main, closed>>
  BY DEF SendMessage_action, P2PLogin_action, FileSendRequest_action, FileSendAccept_action,
         NothingElse, history
<1> QED BY <1>1, SameMessages, ReadRight

LEMMA TouchedMessages ==
  ASSUME RInv, NEW c \in Peers, Touched(c)
  PROVE  \A b \in Peers : KeptMessage(b)
<1>1. \A b \in Peers : main'[b] = main[b] \/ main'[b].frame.type = "FileSendAccept"
  BY DEF Touched, RInv, IInv, MainInv, MainFrames, ServerFrames, RealFrames, Frames
<1> QED BY <1>1 DEF KeptMessage

LEMMA CopiedRight ==
  ASSUME RInv, NEW c \in Peers, FileSendRequest_names(c) \/ FileSendRequest_file(c)
  PROVE  StreamsRight' /\ MessagesRight'
<1>1. Touched(c) /\ UNCHANGED <<owner, fd, stream, client, life, closed>>
  BY DEF FileSendRequest_names, FileSendRequest_file, history, streamVars
<1>2. \A b \in Peers : KeptMessage(b)
  BY <1>1, TouchedMessages
<1> QED BY <1>1, <1>2, QuietMessages, StreamsAsTheyAre DEF RInv

LEMMA IncomingRight ==
  ASSUME RInv, NEW c \in Peers, Incoming(c)
  PROVE  StreamsRight' /\ MessagesRight'
<1>1. Accept(c) /\ UNCHANGED <<owner, stream, client, life, main, closed>>
  BY DEF Incoming, Accept, clientVars, history
<1>2. \A e \in Ends : fd[e] # 0 => fd'[e] = fd[e]
  BY <1>1, AcceptStreams DEF RInv, IInv
<1>3. \A b \in Peers : Kept(b)
  BY <1>1, <1>2 DEF Kept, KeptMessage, KeptEnds
<1> QED BY <1>1, <1>3, MessagesKept, StreamsAsTheyAre DEF RInv

LEMMA ConnectRight ==
  ASSUME RInv, NEW c \in Peers, P2PRequest(c)
  PROVE  StreamsRight' /\ MessagesRight'
<1> DEFINE r == Head(inbox[c])
<1>1. CASE Exit(c, "exited")
  BY <1>1, ExitRight
<1>2. CASE /\ Connect(c, r.num, r.from) /\ TakeFrame(c) /\ UNCHANGED up /\ NothingElse
  <2>1. inbox[c] # <<>> /\ r.type = "P2PRequest"
    BY DEF P2PRequest, FromServer
  <2>2. r \in ServerFrames /\ inbox' \in [Peers -> Seq(ServerFrames)]
    BY <2>1, <1>2, TakeFrameType DEF RInv, IInv
  <2>3. r.from \in Peers /\ r.num \in Conns
    BY <2>1, <2>2 DEF ServerFrames
  <2> HIDE DEF r
  <2>4. StreamsInv /\ Connect(c, r.num, r.from) /\ UNCHANGED up
    BY <1>2 DEF RInv, IInv
  <2>5. \A e \in Ends : owner[e] # Nobody => owner'[e] = owner[e] /\ fd'[e] = fd[e]
    BY <2>2, <2>3, <2>4, ConnectStreams
  <2>6. UNCHANGED <<stream, client, life, main, closed>>
    BY <1>2 DEF Connect, NothingElse, history
  <2>7. StreamsRight'
    <3>1. \A e \in Ends : stream'[e] = <<>> \/ (owner'[e] = owner[e] /\ stream'[e] = stream[e])
      BY <2>4, <2>5, <2>6 DEF StreamsInv, Paired
    <3> QED BY <3>1, <2>6, StreamsShrink DEF RInv
  <2>8. \A b \in Peers : KeptEnds(b)
    <3>1. \A e \in Ends : owner[e] \in Peers =>
            owner'[e] = owner[e] /\ fd'[e] = fd[e] /\ owner'[Other(e)] = owner[Other(e)]
      <4> SUFFICES ASSUME NEW e \in Ends, owner[e] \in Peers
                   PROVE  /\ owner'[e] = owner[e] /\ fd'[e] = fd[e]
                          /\ owner'[Other(e)] = owner[Other(e)]
        OBVIOUS
      <4>1. owner[e] # Nobody /\ Other(e) \in Ends /\ Other(Other(e)) = e
        BY NobodyIsNoPeer, OtherType
      <4>2. owner[Other(e)] # Nobody
        BY <4>1, <2>4 DEF StreamsInv, Paired
      <4> QED BY <4>1, <4>2, <2>5
    <3> QED BY <3>1, <2>6 DEF KeptEnds
  <2> QED BY <2>6, <2>7, <2>8, SameMessages, MessagesKept DEF RInv, Kept
<1> QED BY <1>1, <1>2 DEF P2PRequest

LEMMA ServerIsDownRight ==
  ASSUME RInv, NEW c \in Peers, ServerIsDown(c)
  PROVE  StreamsRight' /\ MessagesRight'
<1>1. CASE Exit(c, "exited")
  BY <1>1, ExitRight
<1>2. CASE /\ client' = [client EXCEPT ![c] = 0] /\ closed' = closed \union {c}
           /\ UNCHANGED <<owner, fd, stream, life, main>>
  <2>1. \A b \in Peers : b # c => client'[b] = client[b]
    BY <1>2 DEF RInv, IInv, StreamsInv
  <2>2. \A b \in Peers : Kept(b)
    BY <2>1, <1>2 DEF Kept, KeptMessage, KeptEnds
  <2> QED BY <2>2, <1>2, MessagesKept, StreamsAsTheyAre DEF RInv
<1> QED BY <1>1, <1>2 DEF ServerIsDown

LEMMA PeerIsDownRight ==
  ASSUME RInv, NEW c \in Peers, PeerIsDown(c)
  PROVE  StreamsRight' /\ MessagesRight'
<1> DEFINE e == epoll[c].end
<1>1. /\ epoll[c].pc = "erase" /\ fd' = [fd EXCEPT ![e] = 0]
      /\ closed' = closed \union {c} /\ Touched(c) /\ UNCHANGED <<owner, stream, client, life>>
  BY DEF PeerIsDown, CloseEnd
<1>2. e \in Ends /\ owner[e] = c
  BY <1>1 DEF RInv, IInv, EpollInv, LinkInv, EndInv
<1> HIDE DEF e
<1>3. \A d \in Ends : d # e => fd'[d] = fd[d]
  BY <1>1, <1>2 DEF RInv, IInv, StreamsInv
<1>4. \A b \in Peers : b # c => KeptEnds(b)
  BY <1>1, <1>2, <1>3 DEF KeptEnds
<1>5. \A b \in Peers : Kept(b)
  BY <1>1, <1>4, TouchedMessages DEF Kept
<1> QED BY <1>1, <1>5, MessagesKept, StreamsAsTheyAre DEF RInv

LEMMA GetTypeRight ==
  ASSUME RInv, NEW c \in Peers, get_type(c)
  PROVE  StreamsRight' /\ MessagesRight'
<1>1. PICK e \in EndsOf(c) :
        \/ Readable(e) /\ TakePart(e) /\ UNCHANGED <<owner, fd, client>> /\ NothingElse
        \/ UNCHANGED streamVars /\ NothingElse
        \/ Exit(c, "exited")
  BY DEF get_type
<1>2. CASE Exit(c, "exited")
  BY <1>2, ExitRight
<1>3. CASE Readable(e) /\ TakePart(e) /\ UNCHANGED <<owner, fd, client>> /\ NothingElse
  <2>1. stream[e] # <<>> /\ UNCHANGED <<life, main, closed>>
    BY <1>3 DEF Readable, NothingElse, history
  <2> QED BY <2>1, <1>3, TakePartRight, SameMessages, QuietMessages DEF RInv
<1>4. CASE UNCHANGED streamVars /\ NothingElse
  BY <1>4, SameMessages, QuietMessages, StreamsAsTheyAre DEF RInv, NothingElse, history, streamVars
<1> QED BY <1>1, <1>2, <1>3, <1>4

\* The rest takes from a stream, or touches none.
LEMMA OtherRight ==
  ASSUME RInv, NEW c \in Peers, Shown(c) \/ P2PRequest_link(c) \/ ReadsAstray(c)
  PROVE  StreamsRight' /\ MessagesRight'
<1>1. UNCHANGED <<owner, fd, client, life, main, closed>>
  BY DEF Shown, P2PRequest_link, ReadsAstray, NothingElse, clientVars, history, streamVars
<1>2. MessagesRight'
  BY <1>1, SameMessages, QuietMessages DEF RInv
<1>3. CASE Shown(c) \/ P2PRequest_link(c)
  <2>1. UNCHANGED stream
    BY <1>3 DEF Shown, P2PRequest_link, streamVars
  <2> QED BY <2>1, <1>1, <1>2, StreamsAsTheyAre DEF RInv
<1>4. CASE ReadsAstray(c)
  BY <1>1, <1>2, <1>4, TakePartRight DEF ReadsAstray, Readable
<1> QED BY <1>3, <1>4

LEMMA EpollRight ==
  ASSUME RInv, NEW c \in Peers, Epoll(c)
  PROVE  StreamsRight' /\ MessagesRight'
<1>1. CASE \/ Incoming(c) \/ P2PRequest(c) \/ ServerIsDown(c) \/ get_type(c) \/ PeerIsDown(c)
  BY <1>1, IncomingRight, ConnectRight, ServerIsDownRight, GetTypeRight, PeerIsDownRight
<1>2. CASE login_type(c) \/ login_fields(c)
  BY <1>2, LoginRight
<1>3. CASE Shown(c) \/ P2PRequest_link(c) \/ ReadsAstray(c)
  BY <1>3, OtherRight
<1>4. CASE \/ SendMessage_action(c) \/ P2PLogin_action(c)
           \/ FileSendRequest_action(c) \/ FileSendAccept_action(c)
  BY <1>4, HandlersRight
<1>5. CASE FileSendRequest_names(c) \/ FileSendRequest_file(c)
  BY <1>5, CopiedRight
<1>6. CASE \/ login_fails(c) \/ ReadBreaks(c) \/ P2PRequest_stray(c) \/ FileSendAccept_fails(c)
           \/ Misread(c)
  BY <1>6, ExitRight DEF login_fails, ReadBreaks, P2PRequest_stray, FileSendAccept_fails, Misread
<1> QED BY <1>1, <1>2, <1>3, <1>4, <1>5, <1>6 DEF Epoll, EpollGoesOn

LEMMA NextRight == RInv /\ [Next]_vars => RInv'
<1> SUFFICES ASSUME RInv, [Next]_vars PROVE RInv'
  OBVIOUS
<1>1. IInv'
  BY NextInv DEF RInv
<1>2. ASSUME NEW c \in Peers, Main(c) PROVE StreamsRight' /\ MessagesRight'
  <2>1. CASE sendmsg(c) \/ p2p_request(c) \/ file_send(c) \/ file_accept(c)
    BY <2>1, SendmsgRight, OtherTypingRight
  <2>2. CASE file_send_path(c) \/ file_accept_find(c)
    BY <2>2, FindRight
  <2>3. CASE send_type(c) \/ send_fields(c)
    BY <2>3, SendTypeRight, SendFieldsRight
  <2>4. CASE send_fails(c)
    BY <2>4, ExitRight DEF send_fails
  <2> QED BY <1>2, <2>1, <2>2, <2>3, <2>4 DEF Main, MainGoesOn
<1>3. ASSUME NEW c \in Peers, Leave(c) PROVE StreamsRight' /\ MessagesRight'
  BY <1>3, ExitRight DEF Leave
<1>4. CASE ServerStops \/ UNCHANGED vars
  <2>1. UNCHANGED <<owner, fd, stream, client, life, main, closed>>
    BY <1>4 DEF ServerStops, vars, streamVars, clientVars, history
  <2> QED BY <2>1, <1>1, SameMessages, QuietMessages, StreamsAsTheyAre DEF RInv
<1> QED BY <1>1, <1>2, <1>3, <1>4, EpollRight DEF Next, RInv

LEMMA InitRight == Init => RInv
<1> SUFFICES ASSUME Init PROVE RInv
  OBVIOUS
<1>1. IInv
  BY InitInv
<1>2. StreamsRight
  BY EmptySeq DEF Init, StreamsInit, StreamsRight
<1>3. MessagesRight
  BY DEF Init, StreamsInit, ClientInit, MessagesRight, Idle, Blank, Frame
<1> QED BY <1>1, <1>2, <1>3 DEF RInv

\* A message written to a peer is for the client at the other side, for any
\* number of clients that connect, leave and are given descriptors again, but
\* where its sender has itself closed a connection.
THEOREM ReceiverCorrect == Spec => []OnlyTheReceiver
<1>1. Spec => []RInv
  BY InitRight, NextRight, PTL DEF Spec
<1> QED BY <1>1, ReceiverMeans, PTL

=============================================================================
