------------------------------ MODULE PeerLink ------------------------------
(***************************************************************************)
(* Clients that link to one another: two threads each, their connections,  *)
(* and the server that relays their requests until it stops.               *)
(***************************************************************************)
EXTENDS PeerClient, FiniteSets

CONSTANT MaxStops  \* users that leave, and the server if it stops

ASSUME StopsAssumption == MaxStops \in Nat

vars == <<streamVars, clientVars>>

Init == StreamsInit /\ ClientInit

Stops == Cardinality({c \in Peers : life[c] = "left"}) + (IF up THEN 0 ELSE 1)

Next ==
  \/ \E c \in Peers : Main(c) \/ Epoll(c)
  \/ Stops < MaxStops /\ ((\E c \in Peers : Leave(c)) \/ ServerStops)

Spec == Init /\ [][Next]_vars

\* Both threads of a client go on with what they have begun, and epoll_wait
\* hands over every descriptor that is ready.  What is typed is not fair.
Fairness ==
  \A c \in Peers : /\ WF_vars(MainGoesOn(c))
                   /\ WF_vars(EpollGoesOn(c))

FairSpec == Spec /\ Fairness

-----------------------------------------------------------------------------
(* Types                                                                    *)

Frames == [type : FrameTypes, from : Names, to : Names,
           num : 0 .. MaxConns + MaxCommands, port : 0 .. MaxCommands, alone : BOOLEAN]

StreamsTypeOK ==
  /\ owner \in [Ends -> Names]
  /\ fd \in [Ends -> 0 .. MaxFd]
  /\ stream \in [Ends -> Seq([part : {"type", "fields"}, frame : Frames])]
  /\ ending \in [Ends -> Endings]
  /\ backlog \in [Peers -> Seq(Conns)]
  /\ client \in [Peers -> {0, Client}]
  /\ inbox \in [Peers -> Seq(Frames)]
  /\ up \in BOOLEAN

Files == 0 .. MaxCommands

ClientTypeOK ==
  /\ life \in [Peers -> {"on", "left", "exited", "asserted"}]
  /\ lookup \in [Peers -> [Peers -> 0 .. MaxFd]]
  /\ data \in [Peers -> [from : Names, to : Names, path : Files, length : Files]]
  /\ main \in [Peers -> [pc : {"idle", "path", "find", "type", "fields"},
                         at : 0 .. MaxFd, frame : Frames]]
  /\ epoll \in [Peers -> [pc : {"wait", "fields", "link", "login", "loginfields",
                                "erase", "offer", "file", "astray"},
                          end : Ends, frame : Frames]]
  /\ typed \in 0 .. MaxCommands /\ asked \in 0 .. MaxConns
  /\ offers \in Seq([from : Peers, to : Peers])
  /\ started \subseteq [from : Peers, to : Peers, file : Files, port : Files, alone : BOOLEAN]
  /\ closed \subseteq Peers

\* Types of the variables; in particular two connections of a client have
\* different descriptors.
TypeOK ==
  /\ StreamsTypeOK /\ ClientTypeOK
  /\ \A d, e \in Ends : owner[d] = owner[e] /\ fd[d] = fd[e] /\ fd[d] # 0 => d = e
  /\ \A e \in Ends : fd[e] # 0 => owner[e] \in Peers /\ fd[e] # client[owner[e]]

-----------------------------------------------------------------------------
(* What a link promises                                                     *)

\* The connection a client has in lookup for a peer ends at that peer: no
\* other peer, not the server, and none that is closed here.
LookupIsThePeer ==
  \A c, a \in Peers : lookup[c][a] # 0 =>
    \E e \in Ends : owner[e] = c /\ fd[e] = lookup[c][a] /\ owner[Other(e)] = a

\* The login that will tell the owner of e whose connection it is: still to
\* be written at the other side, in the stream, or being read.
LoginComes(e) ==
  \/ epoll[owner[Other(e)]].end = Other(e)
     /\ epoll[owner[Other(e)]].pc \in {"login", "loginfields"}
  \/ \E i \in DOMAIN stream[e] : stream[e][i].frame.type = "P2PLogin"

Astray(c) == epoll[c].pc = "astray"

\* A link is known at both sides: when a client has a peer in lookup, the
\* peer has it, or will have read its login, unless one of them has ended or
\* its reading has gone astray.
LinkIsMutual ==
  \A c, a \in Peers :
    lookup[c][a] # 0 /\ life[a] = "on" /\ ~Astray(a) =>
      \/ lookup[a][c] # 0
      \/ \E e \in EndsOf(a) : owner[Other(e)] = c /\ LoginComes(e)

\* A message that is written to a peer is for that peer, however connections
\* come and go elsewhere: only a client that has closed one may write to
\* whoever got its descriptor.
OnlyTheReceiver ==
  \A e \in Ends : \A i \in DOMAIN stream[e] :
    LET p == stream[e][i]
    IN p.part = "fields" /\ p.frame.type = "SendMessage" /\ p.frame.from \notin closed
         => p.frame.to = owner[e]

InOrder(s, first) ==
  \A i \in DOMAIN s : s[i].part = IF (i % 2 = 1) = (first = "type") THEN "type" ELSE "fields"

\* What comes to the side that has called connect are whole frames: only one
\* thread of the other client writes there.  The side that has accepted
\* has no such promise.
ConnectedReadsFrames ==
  \A n \in Conns :
    LET e == <<n, 1>>  c == owner[e]
    IN fd[e] # 0 /\ owner[Other(e)] \notin closed =>
         /\ InOrder(stream[e], IF epoll[c].pc = "fields" /\ epoll[c].end = e THEN "fields" ELSE "type")
         /\ ~(Astray(c) /\ epoll[c].end = e)

\* A transfer is of a file this client has offered to the peer it goes to,
\* and the port was opened for its length, unless another request came, or a
\* connection was closed, while the user accepted.
TransferWasOffered ==
  \A t \in started : t.alone =>
    /\ t.file \in DOMAIN offers /\ t.port = t.file
    /\ offers[t.file] = [from |-> t.from, to |-> t.to]

-----------------------------------------------------------------------------
(* Liveness                                                                 *)

Ended(c) == life[c] # "on" \/ Astray(c)

\* Users who type no more are served: what has been written to a client that
\* stays is read in the end, from its peers and from the server.
EverythingIsRead ==
  <>[] /\ \A e \in Ends : stream[e] = <<>> \/ Ended(owner[e])
       /\ \A c \in Peers : inbox[c] = <<>> \/ Ended(c)

\* And a connection becomes a link that both sides know, also when two users
\* have asked for each other at once.
Linked ==
  <>[] \A n \in Conns :
         LET a == owner[<<n, 1>>]  b == owner[<<n, 2>>]
         IN a = Nobody \/ Ended(a) \/ Ended(b) \/ (lookup[a][b] # 0 /\ lookup[b][a] # 0)

-----------------------------------------------------------------------------
(* What the repository says and the code does not do                        *)

\* The assertion that a type of the wrong direction is never read.
NoFakeSymbol == \A c \in Peers : life[c] # "asserted"
=============================================================================
