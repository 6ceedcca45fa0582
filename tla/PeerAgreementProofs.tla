------------------------- MODULE PeerAgreementProofs ------------------------
(***************************************************************************)
(* What the two clients of a connection agree on.  A link is known at both *)
(* sides: who has a peer in lookup is in the lookup of that peer, or a     *)
(* login that says so is on its way.  A transfer is of a file that was     *)
(* offered to the peer it goes to, and the port was opened for its length. *)
(* And what comes to the side that has called connect are whole frames.    *)
(***************************************************************************)
EXTENDS PeerLinkProofs

-----------------------------------------------------------------------------
(* The invariant of the links                                               *)

\* Both clients of connection n run.
Alive(n) ==
  /\ owner[<<n, 1>>] \in Peers /\ owner[<<n, 2>>] \in Peers
  /\ life[owner[<<n, 1>>]] = "on" /\ life[owner[<<n, 2>>]] = "on"

\* The epoll thread of the client that connected has not entered n yet.
Linking(n) ==
  epoll[owner[<<n, 1>>]].end = <<n, 1>> /\ epoll[owner[<<n, 1>>]].pc = "link"

\* It is writing its login.
Greeting(n) ==
  /\ epoll[owner[<<n, 1>>]].end = <<n, 1>>
  /\ epoll[owner[<<n, 1>>]].pc \in {"login", "loginfields"}

LoginLies(n) ==
  \E i \in DOMAIN stream[<<n, 2>>] : stream[<<n, 2>>][i].frame.type = "P2PLogin"

\* The fields of the login, which name its writer, are still to be read.
LoginWhole(n) ==
  \E i \in DOMAIN stream[<<n, 2>>] :
    stream[<<n, 2>>][i].part = "fields" /\ stream[<<n, 2>>][i].frame.type = "P2PLogin"

LoginIsRead(n) ==
  /\ epoll[owner[<<n, 2>>]].end = <<n, 2>>
  /\ epoll[owner[<<n, 2>>]].pc = "fields" /\ epoll[owner[<<n, 2>>]].frame.type = "P2PLogin"

\* No entry leads to n.
Unnamed(n) ==
  \A a \in Peers :
    /\ lookup[owner[<<n, 1>>]][a] # fd[<<n, 1>>]
    /\ lookup[owner[<<n, 2>>]][a] # 0 => lookup[owner[<<n, 2>>]][a] # fd[<<n, 2>>]

KnownBehind(n) == lookup[owner[<<n, 1>>]][owner[<<n, 2>>]] # 0

KnownAhead(n) ==
  \/ lookup[owner[<<n, 2>>]][owner[<<n, 1>>]] # 0
  \/ Astray(owner[<<n, 2>>])
  \/ Greeting(n) \/ LoginWhole(n)

\* As long as both clients run, nobody knows n before the one that connected
\* has entered it, and both do, or will, afterwards.
LinkOK(n) ==
  Alive(n) => IF Linking(n) THEN Unnamed(n) /\ ~LoginLies(n) /\ ~LoginIsRead(n)
              ELSE KnownBehind(n) /\ KnownAhead(n)

\* A client that has ended knows nobody, and no connection is closed before
\* one of its clients has ended.
EndedIdle ==
  \A c \in Peers : life[c] # "on" => epoll[c].pc = "wait" /\ \A a \in Peers : lookup[c][a] = 0

ClosedByEnd ==
  \A n \in Conns : ending[<<n, 1>>] # "open" \/ ending[<<n, 2>>] # "open" =>
    owner[<<n, 1>>] # Nobody /\ ~Alive(n)

EndsKnown ==
  \A c \in Peers :
    /\ epoll[c].pc = "erase" => ending[Other(epoll[c].end)] # "open"
    /\ epoll[c].pc \in {"link", "login", "loginfields"} => epoll[c].end[2] = 1
    /\ epoll[c].pc \in {"login", "loginfields"} =>
         owner[epoll[c].end] = c /\ fd[epoll[c].end] # 0

UInv == EndedIdle /\ ClosedByEnd /\ EndsKnown /\ \A n \in Conns : LinkOK(n)

KInv == IInv /\ UInv

\* The two ends of a connection have its number.
LEMMA EndIsSide ==
  ASSUME NEW e \in Ends
  PROVE  /\ e[1] \in Conns /\ (e = <<e[1], 1>> \/ e = <<e[1], 2>>)
         /\ e[2] = 1 => e = <<e[1], 1>> /\ Other(e) = <<e[1], 2>>
         /\ e[2] = 2 => e = <<e[1], 2>> /\ Other(e) = <<e[1], 1>>
BY DEF Ends, Other

\* An end that belongs to a client belongs to a connection that does.
LEMMA BothOwned ==
  ASSUME IInv, NEW n \in Conns, owner[<<n, 1>>] # Nobody \/ owner[<<n, 2>>] # Nobody
  PROVE  owner[<<n, 1>>] \in Peers /\ owner[<<n, 2>>] \in Peers
<1>1. owner[<<n, 1>>] # Nobody /\ owner[<<n, 2>>] # Nobody
  BY ConnEnds DEF IInv, StreamsInv, Paired
<1> QED BY <1>1, ConnEnds DEF IInv, StreamsInv, Names

LEMMA MutualMeans == KInv => LinkIsMutual
<1> SUFFICES ASSUME KInv, NEW c \in Peers, NEW a \in Peers,
                    lookup[c][a] # 0, life[a] = "on", ~Astray(a)
             PROVE  \/ lookup[a][c] # 0
                    \/ \E e \in EndsOf(a) : owner[Other(e)] = c /\ LoginComes(e)
  BY DEF LinkIsMutual
<1>1. life[c] = "on"
  BY DEF KInv, UInv, EndedIdle
<1>2. PICK e \in Ends : owner[e] = c /\ fd[e] = lookup[c][a] /\ owner[Other(e)] = a
  BY DEF KInv, IInv, LinkInv, LookupIsThePeer
<1> DEFINE n == e[1]
<1>3. n \in Conns /\ (e = <<n, 1>> \/ e = <<n, 2>>)
  BY EndIsSide
<1> HIDE DEF n
<1>4. LinkOK(n)
  BY <1>3 DEF KInv, UInv
<1>5. CASE e = <<n, 1>>
  <2>1. owner[<<n, 1>>] = c /\ owner[<<n, 2>>] = a
    BY <1>2, <1>3, <1>5, ConnEnds
  <2>2. Alive(n)
    BY <2>1, <1>1 DEF Alive
  <2>3. ~Linking(n)
    BY <2>1, <2>2, <1>2, <1>4, <1>5 DEF LinkOK, Unnamed
  <2>4. KnownAhead(n)
    BY <2>2, <2>3, <1>4 DEF LinkOK
  <2>5. <<n, 2>> \in EndsOf(a) /\ Other(<<n, 2>>) = <<n, 1>>
    BY <2>1, <1>3, ConnEnds DEF EndsOf
  <2>6. Greeting(n) \/ LoginWhole(n) => LoginComes(<<n, 2>>)
    BY <2>1, <2>5 DEF Greeting, LoginWhole, LoginComes
  <2> QED BY <2>1, <2>4, <2>5, <2>6 DEF KnownAhead
<1>6. CASE e = <<n, 2>>
  <2>1. owner[<<n, 2>>] = c /\ owner[<<n, 1>>] = a
    BY <1>2, <1>3, <1>6, ConnEnds
  <2>2. Alive(n)
    BY <2>1, <1>1 DEF Alive
  <2>3. ~Linking(n)
    BY <2>1, <2>2, <1>2, <1>4, <1>6 DEF LinkOK, Unnamed
  <2> QED BY <2>1, <2>2, <2>3, <1>4 DEF LinkOK, KnownBehind
<1> QED BY <1>3, <1>5, <1>6

-----------------------------------------------------------------------------
(* What steps leave as it is                                                *)

LEMMA LinkStays ==
  ASSUME NEW n \in Conns, LinkOK(n),
         Alive(n)' =>
           /\ Alive(n) /\ (Linking(n)' <=> Linking(n))
           /\ Linking(n) => /\ Unnamed(n) => Unnamed(n)'
                            /\ LoginLies(n)' => LoginLies(n)
                            /\ LoginIsRead(n)' => LoginIsRead(n) \/ LoginLies(n)
           /\ ~Linking(n) => /\ KnownBehind(n) => KnownBehind(n)'
                             /\ KnownAhead(n) => KnownAhead(n)'
  PROVE  LinkOK(n)'
BY DEF LinkOK

\* A step that touches neither clients, descriptors nor lookup and puts no
\* login into a stream and takes none out.
LEMMA QuietLinks ==
  ASSUME KInv, UNCHANGED <<owner, fd, life, lookup, epoll>>,
         \A n \in Conns : (LoginLies(n)' => LoginLies(n)) /\ (LoginWhole(n) => LoginWhole(n)')
  PROVE  \A n \in Conns : LinkOK(n)'
<1> SUFFICES ASSUME NEW n \in Conns PROVE LinkOK(n)'
  OBVIOUS
<1>1. LinkOK(n)
  BY DEF KInv, UInv
<1>2. Alive(n)' => Alive(n)
  BY DEF Alive
<1>3. (Linking(n)' <=> Linking(n)) /\ (Unnamed(n) => Unnamed(n)')
  BY DEF Linking, Unnamed
<1>4. LoginIsRead(n)' => LoginIsRead(n)
  BY DEF LoginIsRead
<1>5. (KnownBehind(n) => KnownBehind(n)') /\ (KnownAhead(n) => KnownAhead(n)')
  BY DEF KnownBehind, KnownAhead, Greeting, Astray
<1> QED BY <1>1, <1>2, <1>3, <1>4, <1>5, LinkStays

\* The epoll thread of c goes from one place to another and is linking at
\* neither.
LEMMA ReaderLinks ==
  ASSUME KInv, NEW c \in Peers, NEW entry,
         epoll[c].pc \notin {"link", "login", "loginfields", "astray"},
         entry.pc \notin {"link", "login", "loginfields"},
         epoll' = [epoll EXCEPT ![c] = entry],
         UNCHANGED <<owner, fd, life, lookup>>,
         \A n \in Conns :
           /\ LoginLies(n)' => LoginLies(n)
           /\ LoginIsRead(n)' => LoginIsRead(n) \/ LoginLies(n)
           /\ LoginWhole(n) => LoginWhole(n)' \/ (owner[<<n, 2>>] = c /\ entry.pc = "astray")
  PROVE  \A n \in Conns : LinkOK(n)'
<1> SUFFICES ASSUME NEW n \in Conns PROVE LinkOK(n)'
  OBVIOUS
<1>1. LinkOK(n)
  BY DEF KInv, UInv
<1>2. Alive(n)' => Alive(n)
  BY DEF Alive
<1>3. \A b \in Peers : epoll'[b] = IF b = c THEN entry ELSE epoll[b]
  BY DEF KInv, IInv, EpollInv
<1>4. Alive(n) => (Linking(n)' <=> Linking(n)) /\ (Unnamed(n) => Unnamed(n)')
  BY <1>3 DEF Linking, Unnamed, Alive
<1>5. Alive(n) => (KnownBehind(n) => KnownBehind(n)') /\ (Greeting(n) => Greeting(n)')
  BY <1>3 DEF KnownBehind, Greeting, Alive
<1>6. Alive(n) => (Astray(owner[<<n, 2>>]) => Astray(owner[<<n, 2>>])')
  BY <1>3 DEF Astray, Alive
<1>7. Alive(n) => (LoginWhole(n) => LoginWhole(n)' \/ Astray(owner[<<n, 2>>])')
  BY <1>3 DEF Astray, Alive
<1>8. Alive(n) => (KnownAhead(n) => KnownAhead(n)')
  BY <1>5, <1>6, <1>7 DEF KnownAhead
<1> QED BY <1>1, <1>2, <1>4, <1>5, <1>8, LinkStays

LEMMA EndedStay ==
  ASSUME KInv, NEW c \in Peers, life[c] = "on", UNCHANGED life,
         \A b \in Peers : b # c => epoll'[b] = epoll[b] /\ lookup'[b] = lookup[b]
  PROVE  EndedIdle'
BY DEF KInv, UInv, EndedIdle

LEMMA ClosedStay ==
  ASSUME KInv, UNCHANGED <<owner, life>>, \A e \in Ends : ending'[e] # "open" => ending[e] # "open"
  PROVE  ClosedByEnd'
BY ConnEnds DEF KInv, UInv, ClosedByEnd, Alive

LEMMA EndsStay ==
  ASSUME KInv, UNCHANGED <<owner, fd, epoll>>,
         \A e \in Ends : ending[e] # "open" => ending'[e] # "open"
  PROVE  EndsKnown'
<1>1. \A c \in Peers : epoll[c].end \in Ends /\ Other(epoll[c].end) \in Ends
  BY OtherType DEF KInv, IInv, EpollInv
<1> QED BY <1>1 DEF KInv, UInv, EndsKnown

LEMMA EndsMove ==
  ASSUME KInv, NEW c \in Peers, NEW entry, epoll' = [epoll EXCEPT ![c] = entry],
         UNCHANGED <<owner, fd>>, \A e \in Ends : ending[e] # "open" => ending'[e] # "open",
         entry.pc = "erase" => ending'[Other(entry.end)] # "open",
         entry.pc \in {"link", "login", "loginfields"} => entry.end[2] = 1,
         entry.pc \in {"login", "loginfields"} => owner[entry.end] = c /\ fd[entry.end] # 0
  PROVE  EndsKnown'
<1>1. \A b \in Peers : epoll'[b] = IF b = c THEN entry ELSE epoll[b]
  BY DEF KInv, IInv, EpollInv
<1>2. \A b \in Peers : epoll[b].end \in Ends /\ Other(epoll[b].end) \in Ends
  BY OtherType DEF KInv, IInv, EpollInv
<1> QED BY <1>1, <1>2 DEF KInv, UInv, EndsKnown

\* A thread that is at something belongs to a client that runs.
LEMMA BusyIsOn ==
  ASSUME KInv, NEW c \in Peers, epoll[c].pc # "wait"
  PROVE  life[c] = "on"
BY DEF KInv, UInv, EndedIdle

-----------------------------------------------------------------------------
(* Streams                                                                  *)

\* A write appends one part to one stream, or none.
LEMMA WriteAppends ==
  ASSUME IInv, NEW c \in Peers, NEW f, NEW part \in Parts, Write(c, f, part)
  PROVE  /\ UNCHANGED <<owner, fd>>
         /\ \A e \in Ends : ending'[e] # "open" <=> ending[e] # "open"
         /\ \A e \in Ends : stream'[e] # stream[e] =>
              stream'[e] = Append(stream[e], part) /\ Other(e) \in EndsAt(c, f)
<1>1. UNCHANGED <<owner, fd>>
  BY DEF Write
<1>2. CASE UNCHANGED <<stream, ending>>
  BY <1>1, <1>2
<1>3. ASSUME NEW d \in EndsAt(c, f), WriteEnd(d, part)
      PROVE  /\ \A e \in Ends : ending'[e] # "open" <=> ending[e] # "open"
             /\ \A e \in Ends : stream'[e] # stream[e] =>
                  stream'[e] = Append(stream[e], part) /\ Other(e) \in EndsAt(c, f)
  <2> DEFINE o == Other(d)
  <2>1. d \in Ends /\ o \in Ends /\ Other(o) = d
    BY OtherType DEF EndsAt, EndsOf
  <2>2. \/ stream' = [stream EXCEPT ![o] = Append(@, part)] /\ UNCHANGED ending
        \/ ending[o] = "closed" /\ ending' = [ending EXCEPT ![o] = "broken"] /\ UNCHANGED stream
    BY <1>3 DEF WriteEnd
  <2> HIDE DEF o
  <2> QED BY <2>1, <2>2 DEF IInv, StreamsInv
<1> QED BY <1>1, <1>2, <1>3 DEF Write

LEMMA Appended ==
  ASSUME NEW s, NEW S, s \in Seq(S), NEW p \in S
  PROVE  /\ DOMAIN Append(s, p) = DOMAIN s \union {Len(s) + 1}
         /\ \A i \in DOMAIN s : Append(s, p)[i] = s[i]
         /\ Append(s, p)[Len(s) + 1] = p
<1>1. /\ Append(s, p) \in Seq(S) /\ Len(Append(s, p)) = Len(s) + 1
      /\ \A i \in 1 .. Len(s) : Append(s, p)[i] = s[i]
      /\ Append(s, p)[Len(s) + 1] = p
  BY AppendProperties
<1>2. Len(s) \in Nat /\ DOMAIN s = 1 .. Len(s) /\ DOMAIN Append(s, p) = 1 .. Len(Append(s, p))
  BY <1>1, LenProperties
<1> QED BY <1>1, <1>2

LEMMA Shortened ==
  ASSUME NEW s, NEW S, s \in Seq(S), s # <<>>
  PROVE  /\ Head(s) = s[1] /\ Head(s) \in S /\ 1 \in DOMAIN s
         /\ \A i \in DOMAIN Tail(s) : i + 1 \in DOMAIN s /\ Tail(s)[i] = s[i + 1]
         /\ \A i \in DOMAIN s : i # 1 => i - 1 \in DOMAIN Tail(s) /\ s[i] = Tail(s)[i - 1]
<1>1. /\ Len(s) \in Nat \ {0} /\ DOMAIN s = 1 .. Len(s) /\ Head(s) = s[1] /\ Head(s) \in S
      /\ Tail(s) \in Seq(S) /\ Len(Tail(s)) = Len(s) - 1
      /\ \A i \in 1 .. Len(Tail(s)) : Tail(s)[i] = s[i + 1]
  BY HeadTailProperties, EmptySeq, LenProperties
<1>2. DOMAIN Tail(s) = 1 .. Len(s) - 1
  BY <1>1, LenProperties
<1>3. \A i \in DOMAIN s : i # 1 => i - 1 \in 1 .. Len(s) - 1 /\ i - 1 + 1 = i
  BY <1>1
<1> QED BY <1>1, <1>2, <1>3

LEMMA StreamType ==
  ASSUME IInv, NEW n \in Conns
  PROVE  stream[<<n, 2>>] \in Seq(Parts)
<1>1. stream[<<n, 2>>] \in Seq(PartsAt(<<n, 2>>)) /\ PartsAt(<<n, 2>>) \subseteq Parts
  BY ConnEnds DEF IInv, StreamsInv, PartsAt
<1> QED BY <1>1, SeqMonotonic

\* No write takes a login out, and only a login puts one in.
LEMMA LoginsWritten ==
  ASSUME IInv, NEW c \in Peers, NEW f, NEW part \in Parts, Write(c, f, part), NEW n \in Conns
  PROVE  /\ LoginWhole(n) => LoginWhole(n)'
         /\ LoginLies(n)' => \/ LoginLies(n)
                             \/ part.frame.type = "P2PLogin" /\ <<n, 1>> \in EndsAt(c, f)
<1> DEFINE s == stream[<<n, 2>>]  t == stream'[<<n, 2>>]
<1>1. <<n, 2>> \in Ends /\ Other(<<n, 2>>) = <<n, 1>>
  BY ConnEnds
<1>2. s \in Seq(Parts)
  BY StreamType
<1>3. t = s \/ (t = Append(s, part) /\ <<n, 1>> \in EndsAt(c, f))
  BY <1>1, WriteAppends
<1>4. CASE t = s
  BY <1>4 DEF LoginWhole, LoginLies
<1>5. CASE t = Append(s, part) /\ <<n, 1>> \in EndsAt(c, f)
  <2>1. /\ DOMAIN t = DOMAIN s \union {Len(s) + 1}
        /\ \A i \in DOMAIN s : t[i] = s[i]
        /\ t[Len(s) + 1] = part
    <3> HIDE DEF s, t
    <3>1. t = Append(s, part)
      BY <1>5
    <3> QED BY <3>1, <1>2, Appended
  <2>2. /\ LoginWhole(n) <=> \E i \in DOMAIN s : s[i].part = "fields" /\ s[i].frame.type = "P2PLogin"
        /\ LoginWhole(n)' <=> \E i \in DOMAIN t : t[i].part = "fields" /\ t[i].frame.type = "P2PLogin"
        /\ LoginLies(n) <=> \E i \in DOMAIN s : s[i].frame.type = "P2PLogin"
        /\ LoginLies(n)' <=> \E i \in DOMAIN t : t[i].frame.type = "P2PLogin"
    BY DEF LoginWhole, LoginLies
  <2> HIDE DEF s, t
  <2> QED BY <2>1, <2>2, <1>5
<1> QED BY <1>3, <1>4, <1>5

\* What is read is taken from the front of a stream.
LEMMA LoginsTaken ==
  ASSUME IInv, NEW e \in Ends, stream[e] # <<>>, TakePart(e), NEW n \in Conns
  PROVE  /\ LoginLies(n)' => LoginLies(n)
         /\ e = <<n, 2>> /\ Head(stream[e]).frame.type = "P2PLogin" => LoginLies(n)
         /\ LoginWhole(n) => \/ LoginWhole(n)'
                             \/ /\ e = <<n, 2>> /\ Head(stream[e]).part = "fields"
                                /\ Head(stream[e]).frame.type = "P2PLogin"
<1> DEFINE s == stream[<<n, 2>>]  t == stream'[<<n, 2>>]
<1>0. <<n, 2>> \in Ends
  BY ConnEnds
<1>1. t = IF e = <<n, 2>> THEN Tail(s) ELSE s
  BY <1>0 DEF TakePart, IInv, StreamsInv
<1>2. s \in Seq(Parts)
  BY StreamType
<1>3. CASE e # <<n, 2>>
  BY <1>1, <1>3 DEF LoginWhole, LoginLies
<1>4. CASE e = <<n, 2>>
  <2>1. /\ Head(s) = s[1] /\ 1 \in DOMAIN s
        /\ \A i \in DOMAIN t : i + 1 \in DOMAIN s /\ t[i] = s[i + 1]
        /\ \A i \in DOMAIN s : i # 1 => i - 1 \in DOMAIN t /\ s[i] = t[i - 1]
    <3>0. s # <<>> /\ t = Tail(s)
      BY <1>1, <1>4
    <3> HIDE DEF s, t
    <3> QED BY <3>0, <1>2, Shortened
  <2>2. /\ LoginWhole(n) <=> \E i \in DOMAIN s : s[i].part = "fields" /\ s[i].frame.type = "P2PLogin"
        /\ LoginWhole(n)' <=> \E i \in DOMAIN t : t[i].part = "fields" /\ t[i].frame.type = "P2PLogin"
        /\ LoginLies(n) <=> \E i \in DOMAIN s : s[i].frame.type = "P2PLogin"
        /\ LoginLies(n)' <=> \E i \in DOMAIN t : t[i].frame.type = "P2PLogin"
    BY DEF LoginWhole, LoginLies
  <2>3. Head(stream[e]) = Head(s)
    BY <1>4
  <2> HIDE DEF s, t
  <2>4. LoginLies(n)' => LoginLies(n)
    BY <2>1, <2>2
  <2>5. Head(s).frame.type = "P2PLogin" => LoginLies(n)
    BY <2>1, <2>2
  <2>6. ASSUME LoginWhole(n), ~(s[1].part = "fields" /\ s[1].frame.type = "P2PLogin")
        PROVE  LoginWhole(n)'
    <3>1. PICK i \in DOMAIN s : s[i].part = "fields" /\ s[i].frame.type = "P2PLogin"
      BY <2>2, <2>6
    <3>2. i - 1 \in DOMAIN t /\ s[i] = t[i - 1]
      BY <3>1, <2>1, <2>6
    <3> QED BY <3>1, <3>2, <2>2
  <2> QED BY <2>1, <2>3, <2>4, <2>5, <2>6, <1>4
<1> QED BY <1>3, <1>4

-----------------------------------------------------------------------------
(* The main thread, and the end of a client                                 *)

LEMMA UntouchedLinks ==
  ASSUME KInv, UNCHANGED <<owner, fd, stream, ending, life, lookup, epoll>>
  PROVE  UInv'
<1>1. \A n \in Conns : (LoginLies(n)' => LoginLies(n)) /\ (LoginWhole(n) => LoginWhole(n)')
  BY DEF LoginLies, LoginWhole
<1>2. \A n \in Conns : LinkOK(n)'
  BY <1>1, QuietLinks
<1>3. EndedIdle'
  BY DEF KInv, UInv, EndedIdle
<1>4. ClosedByEnd' /\ EndsKnown'
  BY ClosedStay, EndsStay
<1> QED BY <1>2, <1>3, <1>4 DEF UInv

LEMMA MainWrites ==
  ASSUME KInv, NEW c \in Peers, NEW f, NEW part \in Parts, part.frame.type # "P2PLogin",
         Write(c, f, part), UNCHANGED <<life, lookup, epoll>>
  PROVE  UInv'
<1>1. UNCHANGED <<owner, fd>> /\ \A e \in Ends : ending'[e] # "open" <=> ending[e] # "open"
  BY WriteAppends DEF KInv
<1>2. \A n \in Conns : (LoginLies(n)' => LoginLies(n)) /\ (LoginWhole(n) => LoginWhole(n)')
  BY LoginsWritten DEF KInv
<1>3. \A n \in Conns : LinkOK(n)'
  BY <1>1, <1>2, QuietLinks
<1>4. EndedIdle'
  BY DEF KInv, UInv, EndedIdle
<1>5. ClosedByEnd' /\ EndsKnown'
  BY <1>1, ClosedStay, EndsStay
<1> QED BY <1>3, <1>4, <1>5 DEF UInv

LEMMA MainLinks ==
  ASSUME KInv, NEW c \in Peers, Main(c), ~send_fails(c)
  PROVE  UInv'
<1>1. CASE \/ sendmsg(c) \/ p2p_request(c) \/ file_send(c) \/ file_accept(c)
           \/ file_send_path(c) \/ file_accept_find(c)
  <2>1. UNCHANGED <<owner, fd, stream, ending, life, lookup, epoll>>
    BY <1>1 DEF sendmsg, p2p_request, file_send, file_accept, file_send_path, file_accept_find,
                Typing, streamVars
  <2> QED BY <2>1, UntouchedLinks
<1>2. CASE send_type(c)
  <2>1. /\ Write(c, main[c].at, Type(main[c].frame)) /\ UNCHANGED <<life, lookup, epoll>>
    BY <1>2 DEF send_type
  <2>2. main[c].frame \in RealFrames /\ main[c].frame.type \in FrameTypes
    BY DEF KInv, IInv, MainInv, MainFrames, ServerFrames, RealFrames, Frames
  <2>3. Type(main[c].frame) \in Parts /\ Type(main[c].frame).frame.type # "P2PLogin"
    <3>1. main[c].frame.type # "P2PLogin"
      BY DEF KInv, IInv, MainInv, MainFrames
    <3> QED BY <2>2, <3>1, TypePart, BlankType DEF Type
  <2> QED BY <2>1, <2>3, MainWrites
<1>3. CASE send_fields(c)
  <2>1. /\ Write(c, main[c].at, Fields(SentFrame(c))) /\ UNCHANGED <<life, lookup, epoll>>
    BY <1>3 DEF send_fields
  <2>2. SentFrame(c) \in RealFrames /\ SentFrame(c) \in MainFrames
    BY SentFrameType DEF KInv, MainFrames, ServerFrames
  <2>3. Fields(SentFrame(c)) \in Parts /\ Fields(SentFrame(c)).frame.type # "P2PLogin"
    BY <2>2, FieldsPart DEF MainFrames
  <2> QED BY <2>1, <2>3, MainWrites
<1> QED BY <1>1, <1>2, <1>3 DEF Main, MainGoesOn

LEMMA ExitLinks ==
  ASSUME KInv, NEW c \in Peers, NEW how \in {"left", "exited", "asserted"}, Exit(c, how)
  PROVE  UInv'
<1>1. /\ life' = [life EXCEPT ![c] = how] /\ CloseAll(c)
      /\ lookup' = [lookup EXCEPT ![c] = [a \in Peers |-> 0]]
      /\ epoll' = [epoll EXCEPT ![c] = Wait]
  BY DEF Exit
<1>2. /\ UNCHANGED owner
      /\ \A e \in Ends : owner[e] # c =>
           fd'[e] = fd[e] /\ stream'[e] = stream[e] /\ ending'[e] = ending[e]
      /\ \A e \in Ends : ending[e] # "open" => ending'[e] # "open"
  BY <1>1 DEF CloseAll
<1>3. /\ epoll'[c] = Wait /\ life'[c] = how /\ \A a \in Peers : lookup'[c][a] = 0
      /\ \A b \in Peers : b # c =>
           epoll'[b] = epoll[b] /\ life'[b] = life[b] /\ lookup'[b] = lookup[b]
  BY <1>1 DEF KInv, IInv, EpollInv, RestInv
<1>4. Wait.pc = "wait"
  BY DEF Wait
<1>5. EndedIdle'
  BY <1>3, <1>4 DEF KInv, UInv, EndedIdle
<1>6. \A n \in Conns : Alive(n)' => Alive(n) /\ owner[<<n, 1>>] # c /\ owner[<<n, 2>>] # c
  BY <1>2, <1>3 DEF Alive
<1>7. ClosedByEnd'
  <2> SUFFICES ASSUME NEW n \in Conns, ending'[<<n, 1>>] # "open" \/ ending'[<<n, 2>>] # "open"
               PROVE  owner'[<<n, 1>>] # Nobody /\ ~Alive(n)'
    BY DEF ClosedByEnd
  <2>1. CASE owner[<<n, 1>>] = c \/ owner[<<n, 2>>] = c
    <3>1. owner[<<n, 1>>] # Nobody
      BY <2>1, BothOwned, NobodyIsNoPeer DEF KInv
    <3> QED BY <2>1, <3>1, <1>2, <1>6
  <2>2. CASE owner[<<n, 1>>] # c /\ owner[<<n, 2>>] # c
    BY <2>2, <1>2, <1>6, ConnEnds DEF KInv, UInv, ClosedByEnd
  <2> QED BY <2>1, <2>2
<1>8. EndsKnown'
  <2> SUFFICES ASSUME NEW b \in Peers
               PROVE  /\ epoll'[b].pc = "erase" => ending'[Other(epoll'[b].end)] # "open"
                      /\ epoll'[b].pc \in {"link", "login", "loginfields"} => epoll'[b].end[2] = 1
                      /\ epoll'[b].pc \in {"login", "loginfields"} =>
                           owner'[epoll'[b].end] = b /\ fd'[epoll'[b].end] # 0
    BY DEF EndsKnown
  <2>1. epoll[b].end \in Ends /\ Other(epoll[b].end) \in Ends
    BY OtherType DEF KInv, IInv, EpollInv
  <2> QED BY <2>1, <1>2, <1>3, <1>4 DEF KInv, UInv, EndsKnown
<1>9. \A n \in Conns : LinkOK(n)'
  <2> SUFFICES ASSUME NEW n \in Conns, Alive(n)' PROVE LinkOK(n)'
    BY DEF LinkOK
  <2>1. Alive(n) /\ owner[<<n, 1>>] # c /\ owner[<<n, 2>>] # c
    BY <1>6
  <2>2. LinkOK(n)
    BY DEF KInv, UInv
  <2> DEFINE x == owner[<<n, 1>>]  y == owner[<<n, 2>>]
  <2>3. /\ x \in Peers /\ y \in Peers
        /\ UNCHANGED <<owner[<<n, 1>>], owner[<<n, 2>>], fd[<<n, 1>>], fd[<<n, 2>>],
                       stream[<<n, 2>>]>>
        /\ epoll'[x] = epoll[x] /\ epoll'[y] = epoll[y]
        /\ lookup'[x] = lookup[x] /\ lookup'[y] = lookup[y]
    BY <2>1, <1>2, <1>3, ConnEnds DEF Alive
  <2>4. /\ Linking(n)' <=> Linking(n)
        /\ Unnamed(n) => Unnamed(n)'
        /\ LoginLies(n)' => LoginLies(n)
        /\ LoginIsRead(n)' => LoginIsRead(n)
    BY <2>3 DEF Linking, Unnamed, LoginLies, LoginIsRead
  <2>5. /\ KnownBehind(n) => KnownBehind(n)'
        /\ KnownAhead(n) => KnownAhead(n)'
    BY <2>3 DEF KnownBehind, KnownAhead, Greeting, LoginWhole, Astray
  <2> QED BY <2>1, <2>2, <2>4, <2>5, LinkStays
<1> QED BY <1>5, <1>7, <1>8, <1>9 DEF UInv

-----------------------------------------------------------------------------
(* Connecting                                                               *)

LEMMA IncomingLinks ==
  ASSUME KInv, NEW c \in Peers, Incoming(c)
  PROVE  UInv'
<1> DEFINE f == LowestFree(c)  m == Head(backlog[c])
<1>1. /\ fd' = [fd EXCEPT ![<<m, 2>>] = f] /\ backlog[c] # <<>> /\ FreeFds(c) # {}
      /\ UNCHANGED <<owner, stream, ending, life, lookup, epoll>>
  BY DEF Incoming, Accept, clientVars
<1>2. f \in 1 .. MaxFd /\ \A e \in Ends : owner[e] = c => fd[e] # f
  BY <1>1, LowestIsFree
<1>3. m \in Conns /\ owner[<<m, 2>>] = c /\ fd[<<m, 2>>] = 0
  <2>1. /\ backlog[c] \in Seq(Conns)
        /\ \A i \in 1 .. Len(backlog[c]) :
             owner[<<backlog[c][i], 2>>] = c /\ fd[<<backlog[c][i], 2>>] = 0
    BY DEF KInv, IInv, StreamsInv, Backlogs
  <2>2. m = backlog[c][1] /\ m \in Conns /\ 1 \in 1 .. Len(backlog[c])
    BY <1>1, <2>1, HeadTailProperties, EmptySeq
  <2> QED BY <2>1, <2>2
<1> HIDE DEF f, m
<1>4. \A e \in Ends : fd'[e] = IF e = <<m, 2>> THEN f ELSE fd[e]
  BY <1>1 DEF KInv, IInv, StreamsInv
<1>5. \A a \in Peers : lookup[c][a] # f
  <2> SUFFICES ASSUME NEW a \in Peers, lookup[c][a] = f PROVE FALSE
    OBVIOUS
  <2>1. lookup[c][a] # 0
    BY <1>2
  <2> QED BY <2>1, <1>2 DEF KInv, IInv, LinkInv, LookupIsThePeer
<1>6. \A n \in Conns : LinkOK(n)'
  <2> SUFFICES ASSUME NEW n \in Conns PROVE LinkOK(n)'
    OBVIOUS
  <2>1. LinkOK(n)
    BY DEF KInv, UInv
  <2>2. fd'[<<n, 1>>] = fd[<<n, 1>>] /\ fd'[<<n, 2>>] = IF n = m THEN f ELSE fd[<<n, 2>>]
    BY <1>4, ConnEnds
  <2>3. Alive(n)' => Alive(n)
    BY <1>1 DEF Alive
  <2>4. (Linking(n)' <=> Linking(n)) /\ (LoginLies(n)' => LoginLies(n))
    BY <1>1 DEF Linking, LoginLies
  <2>5. Unnamed(n) => Unnamed(n)'
    BY <2>2, <1>1, <1>3, <1>5 DEF Unnamed
  <2>6. (LoginIsRead(n)' => LoginIsRead(n)) /\ (KnownBehind(n) => KnownBehind(n)')
    BY <1>1 DEF LoginIsRead, KnownBehind
  <2>7. KnownAhead(n) => KnownAhead(n)'
    BY <1>1 DEF KnownAhead, Astray, Greeting, LoginWhole
  <2> QED BY <2>1, <2>3, <2>4, <2>5, <2>6, <2>7, LinkStays
<1>7. EndedIdle'
  BY <1>1 DEF KInv, UInv, EndedIdle
<1>8. ClosedByEnd'
  BY <1>1, ClosedStay
<1>9. EndsKnown'
  <2>1. \A b \in Peers : epoll[b].end \in Ends
    BY DEF KInv, IInv, EpollInv
  <2>2. \A e \in Ends : fd[e] # 0 => fd'[e] = fd[e]
    BY <1>3, <1>4
  <2> QED BY <2>1, <2>2, <1>1 DEF KInv, UInv, EndsKnown
<1> QED BY <1>6, <1>7, <1>8, <1>9 DEF UInv

\* The other side of a new connection is not read: it has no descriptor yet.
LEMMA ConnectLinks ==
  ASSUME KInv, NEW c \in Peers, P2PRequest(c)
  PROVE  UInv'
<1> DEFINE r == Head(inbox[c])  m == r.num
<1>1. CASE Exit(c, "exited")
  BY <1>1, ExitLinks
<1>2. CASE /\ Connect(c, m, r.from) /\ EpollGoes(c, "link", <<m, 1>>, r)
           /\ TakeFrame(c) /\ UNCHANGED up /\ NothingElse
  <2>1. inbox[c] # <<>> /\ r.type = "P2PRequest" /\ life[c] = "on" /\ epoll[c].pc = "wait"
    BY DEF P2PRequest, FromServer, Waiting
  <2>2. r \in ServerFrames /\ inbox' \in [Peers -> Seq(ServerFrames)]
    BY <2>1, <1>2, TakeFrameType DEF KInv, IInv
  <2>3. r.from \in Peers /\ m \in Conns
    BY <2>1, <2>2 DEF ServerFrames
  <2> HIDE DEF m
  <2> DEFINE to == r.from
  <2> HIDE DEF to, r
  <2>4. StreamsInv /\ Connect(c, m, to) /\ UNCHANGED up
    BY <1>2 DEF KInv, IInv, to
  <2>5. /\ owner[<<m, 1>>] = Nobody /\ owner[<<m, 2>>] = Nobody
        /\ owner'[<<m, 1>>] = c /\ owner'[<<m, 2>>] = to
        /\ \A e \in Ends : owner[e] # Nobody => owner'[e] = owner[e] /\ fd'[e] = fd[e]
    BY <2>2, <2>3, <2>4, ConnectStreams DEF to
  <2>6. /\ UNCHANGED <<stream, ending, life, lookup>>
        /\ owner' = [owner EXCEPT ![<<m, 1>>] = c, ![<<m, 2>>] = to]
        /\ fd' = [fd EXCEPT ![<<m, 1>>] = LowestFree(c)] /\ FreeFds(c) # {}
    BY <2>4, <1>2 DEF Connect, NothingElse
  <2>7. <<m, 1>> \in Ends /\ <<m, 2>> \in Ends
    BY <2>3, ConnEnds
  <2>8. /\ fd'[<<m, 1>>] = LowestFree(c) /\ fd'[<<m, 2>>] = fd[<<m, 2>>] /\ fd[<<m, 2>>] = 0
        /\ \A e \in Ends : e # <<m, 1>> => fd'[e] = fd[e]
        /\ \A e \in Ends : e # <<m, 1>> /\ e # <<m, 2>> => owner'[e] = owner[e]
    BY <2>5, <2>6, <2>7, NobodyIsNoPeer DEF KInv, IInv, StreamsInv, OwnFds
  <2>9. \A b \in Peers : epoll'[b] = IF b = c THEN [pc |-> "link", end |-> <<m, 1>>, frame |-> r]
                                     ELSE epoll[b]
    BY <1>2 DEF EpollGoes, KInv, IInv, EpollInv
  <2>10. EndedIdle'
    BY <2>1, <2>6, <2>9, EndedStay
  <2>11. \A n \in Conns : n # m =>
           /\ owner'[<<n, 1>>] = owner[<<n, 1>>] /\ owner'[<<n, 2>>] = owner[<<n, 2>>]
           /\ fd'[<<n, 1>>] = fd[<<n, 1>>] /\ fd'[<<n, 2>>] = fd[<<n, 2>>]
    <3> SUFFICES ASSUME NEW n \in Conns, n # m
                 PROVE  /\ owner'[<<n, 1>>] = owner[<<n, 1>>] /\ owner'[<<n, 2>>] = owner[<<n, 2>>]
                        /\ fd'[<<n, 1>>] = fd[<<n, 1>>] /\ fd'[<<n, 2>>] = fd[<<n, 2>>]
      OBVIOUS
    <3>1. <<n, 1>> \in Ends /\ <<n, 2>> \in Ends
      BY ConnEnds
    <3> QED BY <3>1, <2>8
  <2>12. ClosedByEnd'
    <3> SUFFICES ASSUME NEW n \in Conns, ending[<<n, 1>>] # "open" \/ ending[<<n, 2>>] # "open"
                 PROVE  owner'[<<n, 1>>] # Nobody /\ ~Alive(n)'
      BY <2>6 DEF ClosedByEnd
    <3>1. owner[<<n, 1>>] # Nobody /\ ~Alive(n)
      BY DEF KInv, UInv, ClosedByEnd
    <3>2. n # m
      BY <3>1, <2>5
    <3> QED BY <3>1, <3>2, <2>6, <2>11 DEF Alive
  <2>13. EndsKnown'
    <3> SUFFICES ASSUME NEW b \in Peers
                 PROVE  /\ epoll'[b].pc = "erase" => ending[Other(epoll'[b].end)] # "open"
                        /\ epoll'[b].pc \in {"link", "login", "loginfields"} => epoll'[b].end[2] = 1
                        /\ epoll'[b].pc \in {"login", "loginfields"} =>
                             owner'[epoll'[b].end] = b /\ fd'[epoll'[b].end] # 0
      BY <2>6 DEF EndsKnown
    <3>1. epoll[b].end \in Ends
      BY DEF KInv, IInv, EpollInv
    <3>2. CASE b = c
      BY <3>2, <2>9
    <3>3. CASE b # c
      BY <3>1, <3>3, <2>5, <2>9, NobodyIsNoPeer DEF KInv, UInv, EndsKnown
    <3> QED BY <3>2, <3>3
  <2>14. ASSUME NEW n \in Conns, n # m PROVE LinkOK(n)'
    <3>1. LinkOK(n)
      BY DEF KInv, UInv
    <3>2. Alive(n)' => Alive(n)
      BY <2>6, <2>11, <2>14 DEF Alive
    <3> DEFINE x == owner[<<n, 1>>]  y == owner[<<n, 2>>]
    <3>3. Alive(n) => /\ epoll'[x] = epoll[x] \/ (x = c /\ epoll[x].pc = "wait" /\ epoll'[x].end # <<n, 1>>)
                      /\ epoll'[y] = epoll[y] \/ (y = c /\ epoll[y].pc = "wait" /\ epoll'[y].pc = "link")
      BY <2>1, <2>9, <2>14 DEF Alive
    <3>4. UNCHANGED <<owner[<<n, 1>>], owner[<<n, 2>>], fd[<<n, 1>>], fd[<<n, 2>>], stream, lookup>>
      BY <2>6, <2>11, <2>14
    <3>5. Alive(n) =>
            /\ Linking(n)' <=> Linking(n)
            /\ LoginIsRead(n)' => LoginIsRead(n)
            /\ Greeting(n) => Greeting(n)'
            /\ Astray(y) => Astray(y)'
      BY <3>3, <3>4 DEF Linking, LoginIsRead, Greeting, Astray
    <3>6. /\ Unnamed(n) => Unnamed(n)'
          /\ LoginLies(n)' => LoginLies(n)
          /\ LoginWhole(n) => LoginWhole(n)'
          /\ KnownBehind(n) => KnownBehind(n)'
      BY <3>4 DEF Unnamed, LoginLies, LoginWhole, KnownBehind
    <3>7. Alive(n) => (KnownAhead(n) => KnownAhead(n)')
      BY <3>4, <3>5, <3>6 DEF KnownAhead, Astray
    <3> QED BY <3>1, <3>2, <3>5, <3>6, <3>7, LinkStays
  <2>15. ASSUME NEW n \in Conns, n = m PROVE LinkOK(n)'
    <3>0. /\ owner[<<n, 2>>] = Nobody /\ owner'[<<n, 1>>] = c /\ owner'[<<n, 2>>] = to
          /\ fd'[<<n, 1>>] = LowestFree(c) /\ fd'[<<n, 2>>] = 0
          /\ epoll'[c].pc = "link" /\ epoll'[c].end = <<n, 1>>
      BY <2>5, <2>8, <2>9, <2>15
    <3>1. Linking(n)'
      BY <3>0 DEF Linking
    <3>2. \A a \in Peers : lookup'[c][a] # fd'[<<n, 1>>]
      <4> SUFFICES ASSUME NEW a \in Peers, lookup[c][a] = LowestFree(c) PROVE FALSE
        BY <2>6, <3>0
      <4>1. LowestFree(c) \in 1 .. MaxFd /\ \A e \in Ends : owner[e] = c => fd[e] # LowestFree(c)
        BY <2>6, LowestIsFree
      <4>2. lookup[c][a] # 0
        BY <4>1
      <4> QED BY <4>1, <4>2 DEF KInv, IInv, LinkInv, LookupIsThePeer
    <3>3. Unnamed(n)'
      BY <3>0, <3>2 DEF Unnamed
    <3>4. ~LoginLies(n)'
      <4>1. stream'[<<n, 2>>] = <<>>
        BY <3>0, <2>6, ConnEnds DEF KInv, IInv, StreamsInv, Paired
      <4> QED BY <4>1, EmptySeq DEF LoginLies
    <3>5. ~LoginIsRead(n)'
      <4> SUFFICES ASSUME epoll'[to].end = <<n, 2>>, epoll'[to].pc = "fields" PROVE FALSE
        BY <3>0 DEF LoginIsRead
      <4>1. to \in Peers /\ epoll'[to] = epoll[to]
        BY <2>3, <2>9 DEF to
      <4>2. owner[<<n, 2>>] = to
        BY <4>1 DEF KInv, IInv, LinkInv, EndInv
      <4> QED BY <4>1, <4>2, <3>0, NobodyIsNoPeer
    <3> QED BY <3>1, <3>3, <3>4, <3>5 DEF LinkOK
  <2> QED BY <2>10, <2>12, <2>13, <2>14, <2>15 DEF UInv
<1> QED BY <1>1, <1>2 DEF P2PRequest

-----------------------------------------------------------------------------
(* What the epoll thread reads                                              *)

\* It takes a part that is not the rest of a login, or none.
LEMMA ReaderMoves ==
  ASSUME KInv, NEW c \in Peers, NEW entry,
         epoll[c].pc \notin {"link", "login", "loginfields", "astray"}, life[c] = "on",
         entry.pc \notin {"link", "login", "loginfields"},
         entry.pc = "erase" => ending[Other(entry.end)] # "open",
         epoll' = [epoll EXCEPT ![c] = entry],
         UNCHANGED <<owner, fd, ending, life, lookup>>,
         \A n \in Conns :
           /\ LoginLies(n)' => LoginLies(n)
           /\ LoginIsRead(n)' => LoginIsRead(n) \/ LoginLies(n)
           /\ LoginWhole(n) => LoginWhole(n)' \/ (owner[<<n, 2>>] = c /\ entry.pc = "astray")
  PROVE  UInv'
<1>1. \A n \in Conns : LinkOK(n)'
  BY ReaderLinks
<1>2. \A b \in Peers : b # c => epoll'[b] = epoll[b] /\ lookup'[b] = lookup[b]
  BY DEF KInv, IInv, EpollInv
<1>3. EndedIdle'
  BY <1>2, EndedStay
<1>4. ClosedByEnd'
  BY ClosedStay
<1>5. EndsKnown'
  BY EndsMove
<1> QED BY <1>1, <1>3, <1>4, <1>5 DEF UInv

LEMMA NoLoginRead ==
  ASSUME KInv, NEW c \in Peers, NEW entry, entry.pc # "fields",
         epoll' = [epoll EXCEPT ![c] = entry], UNCHANGED owner
  PROVE  \A n \in Conns : LoginIsRead(n)' => LoginIsRead(n)
<1> SUFFICES ASSUME NEW n \in Conns, LoginIsRead(n)', ~LoginIsRead(n) PROVE FALSE
  OBVIOUS
<1> DEFINE y == owner[<<n, 2>>]
<1>1. epoll'[y] # epoll[y]
  BY DEF LoginIsRead
<1>2. epoll'[y] = entry
  BY <1>1 DEF KInv, IInv, EpollInv
<1> QED BY <1>2 DEF LoginIsRead

LEMMA GetTypeLinks ==
  ASSUME KInv, NEW c \in Peers, get_type(c)
  PROVE  UInv'
<1>1. PICK e \in EndsOf(c) :
        \/ /\ Readable(e)
           /\ LET p == Head(stream[e])
              IN EpollGoes(c, IF p.part = "type" THEN "fields" ELSE "astray", e, Blank(p.frame.type))
           /\ TakePart(e)
           /\ UNCHANGED <<owner, fd, ending, backlog, client, inbox, up>> /\ NothingElse
        \/ /\ AtEof(e)
           /\ EpollGoes(c, "erase", e, Blank("OpStatus"))
           /\ UNCHANGED streamVars /\ NothingElse
        \/ ReadFails(e) /\ Exit(c, "exited")
  BY DEF get_type
<1>2. e \in Ends /\ owner[e] = c /\ epoll[c].pc = "wait" /\ life[c] = "on"
  BY DEF EndsOf, get_type, Waiting
<1>3. CASE Exit(c, "exited")
  BY <1>3, ExitLinks
<1>4. CASE /\ Readable(e)
           /\ LET p == Head(stream[e])
              IN EpollGoes(c, IF p.part = "type" THEN "fields" ELSE "astray", e, Blank(p.frame.type))
           /\ TakePart(e)
           /\ UNCHANGED <<owner, fd, ending, backlog, client, inbox, up>> /\ NothingElse
  <2> DEFINE p == Head(stream[e])
             pc == IF p.part = "type" THEN "fields" ELSE "astray"
             entry == [pc |-> pc, end |-> e, frame |-> Blank(p.frame.type)]
  <2>1. stream[e] # <<>> /\ epoll' = [epoll EXCEPT ![c] = entry]
    BY <1>4 DEF Readable, EpollGoes
  <2>2. p \in PartsAt(e)
    BY <2>1, <1>2, HeadTailProperties DEF KInv, IInv, StreamsInv
  <2>3. p.frame.type \in FrameTypes /\ p.part \in {"type", "fields"}
    BY <2>2 DEF PartsAt, RealFrames, Frames, Parts
  <2>4. entry.pc \in {"fields", "astray"} /\ entry.end = e /\ entry.frame.type = p.frame.type
    BY <2>3, BlankType
  <2>5. entry.pc = "astray" <=> p.part = "fields"
    BY <2>3
  <2> HIDE DEF entry, p
  <2>6. \A b \in Peers : epoll'[b] = IF b = c THEN entry ELSE epoll[b]
    BY <2>1 DEF KInv, IInv, EpollInv
  <2>7. UNCHANGED <<owner, fd, ending, life, lookup>>
    BY <1>4 DEF NothingElse
  <2>8. ASSUME NEW n \in Conns
        PROVE  /\ LoginLies(n)' => LoginLies(n)
               /\ LoginIsRead(n)' => LoginIsRead(n) \/ LoginLies(n)
               /\ LoginWhole(n) => LoginWhole(n)' \/ (owner[<<n, 2>>] = c /\ entry.pc = "astray")
    <3>1. /\ LoginLies(n)' => LoginLies(n)
          /\ e = <<n, 2>> /\ p.frame.type = "P2PLogin" => LoginLies(n)
          /\ LoginWhole(n) => LoginWhole(n)' \/ (e = <<n, 2>> /\ p.part = "fields")
      BY <2>1, <1>2, <1>4, LoginsTaken DEF KInv, p
    <3>2. LoginIsRead(n)' => LoginIsRead(n) \/ LoginLies(n)
      <4> SUFFICES ASSUME LoginIsRead(n)', ~LoginIsRead(n) PROVE LoginLies(n)
        OBVIOUS
      <4> DEFINE y == owner[<<n, 2>>]
      <4>1. y \in Names /\ owner'[<<n, 2>>] = y
        BY <2>7, ConnEnds DEF KInv, IInv, StreamsInv
      <4>2. epoll'[y] # epoll[y]
        BY <4>1 DEF LoginIsRead
      <4>3. epoll'[y] = entry
        BY <4>2, <2>1, <2>6 DEF KInv, IInv, EpollInv
      <4> QED BY <4>1, <4>3, <3>1, <2>4 DEF LoginIsRead
    <3> QED BY <3>1, <3>2, <2>5, <1>2
  <2> QED BY <1>2, <2>1, <2>4, <2>7, <2>8, ReaderMoves
<1>5. CASE /\ AtEof(e)
           /\ EpollGoes(c, "erase", e, Blank("OpStatus"))
           /\ UNCHANGED streamVars /\ NothingElse
  <2> DEFINE entry == [pc |-> "erase", end |-> e, frame |-> Blank("OpStatus")]
  <2>1. /\ ending[Other(e)] # "open" /\ epoll' = [epoll EXCEPT ![c] = entry]
        /\ UNCHANGED <<owner, fd, stream, ending, life, lookup>>
    BY <1>5 DEF AtEof, EpollGoes, streamVars, NothingElse
  <2>2. \A n \in Conns : (LoginLies(n)' => LoginLies(n)) /\ (LoginWhole(n) => LoginWhole(n)')
    BY <2>1 DEF LoginLies, LoginWhole
  <2>3. entry.pc = "erase" /\ entry.end = e
    OBVIOUS
  <2> HIDE DEF entry
  <2>4. \A n \in Conns : LoginIsRead(n)' => LoginIsRead(n)
    BY <2>1, <2>3, NoLoginRead
  <2> QED BY <1>2, <2>1, <2>2, <2>3, <2>4, ReaderMoves
<1> QED BY <1>1, <1>3, <1>4, <1>5

\* What a handler takes that is not a login.
LEMMA ReadLinks ==
  ASSUME KInv, NEW c \in Peers, NEW entry,
         epoll[c].frame.type # "P2PLogin", read_data(c, epoll[c].frame.type),
         entry.pc \in {"wait", "offer"}, epoll' = [epoll EXCEPT ![c] = entry],
         UNCHANGED <<life, lookup>>
  PROVE  UInv'
<1> DEFINE e == epoll[c].end
<1>1. /\ epoll[c].pc = "fields" /\ life[c] = "on" /\ e \in Ends
      /\ IF Fits(c) THEN TakePart(e) ELSE UNCHANGED stream
      /\ UNCHANGED <<owner, fd, ending>>
  BY BusyIsOn DEF read_data, Reading, KInv, IInv, EpollInv
<1>2. ASSUME NEW n \in Conns
      PROVE  (LoginLies(n)' => LoginLies(n)) /\ (LoginWhole(n) => LoginWhole(n)')
  <2>1. CASE Fits(c)
    <3>1. stream[e] # <<>> /\ TakePart(e) /\ Head(stream[e]).frame.type # "P2PLogin"
      BY <1>1, <2>1 DEF Fits, Readable, Comes
    <3> HIDE DEF e
    <3> QED BY <1>1, <3>1, LoginsTaken DEF KInv
  <2>2. CASE ~Fits(c)
    BY <1>1, <2>2 DEF LoginLies, LoginWhole
  <2> QED BY <2>1, <2>2
<1>3. \A n \in Conns : LoginIsRead(n)' => LoginIsRead(n)
  BY <1>1, NoLoginRead
<1> QED BY <1>1, <1>2, <1>3, ReaderMoves

LEMMA HandlersLinks ==
  ASSUME KInv, NEW c \in Peers,
         SendMessage_action(c) \/ FileSendRequest_action(c) \/ FileSendAccept_action(c)
  PROVE  UInv'
<1>1. CASE SendMessage_action(c)
  <2>1. read_data(c, "SendMessage") /\ epoll[c].frame.type = "SendMessage"
        /\ epoll' = [epoll EXCEPT ![c] = Wait]
        /\ UNCHANGED <<life, lookup>> /\ Wait.pc = "wait"
    BY <1>1 DEF SendMessage_action, read_data, Reading, EpollWaits, NothingElse, Wait
  <2> QED BY <2>1, ReadLinks
<1>2. CASE FileSendRequest_action(c)
  <2> DEFINE entry == [pc |-> "offer", end |-> epoll[c].end, frame |-> raw(c)]
  <2>1. read_data(c, "FileSendRequest") /\ epoll[c].frame.type = "FileSendRequest"
        /\ epoll' = [epoll EXCEPT ![c] = entry]
        /\ UNCHANGED <<life, lookup>> /\ entry.pc = "offer"
    BY <1>2 DEF FileSendRequest_action, read_data, Reading, EpollGoes, NothingElse
  <2> HIDE DEF entry
  <2> QED BY <2>1, ReadLinks
<1>3. CASE FileSendAccept_action(c)
  <2>1. read_data(c, "FileSendAccept") /\ epoll[c].frame.type = "FileSendAccept"
        /\ epoll' = [epoll EXCEPT ![c] = Wait]
        /\ UNCHANGED <<life, lookup>> /\ Wait.pc = "wait"
    BY <1>3 DEF FileSendAccept_action, read_data, Reading, EpollWaits, Wait
  <2> QED BY <2>1, ReadLinks
<1> QED BY <1>1, <1>2, <1>3

LEMMA CopiedLinks ==
  ASSUME KInv, NEW c \in Peers, FileSendRequest_names(c) \/ FileSendRequest_file(c)
  PROVE  UInv'
<1> DEFINE entry == IF epoll[c].pc = "offer"
                    THEN [pc |-> "file", end |-> epoll[c].end, frame |-> epoll[c].frame] ELSE Wait
<1>1. /\ epoll[c].pc \in {"offer", "file"} /\ epoll' = [epoll EXCEPT ![c] = entry]
      /\ entry.pc \in {"file", "wait"} /\ UNCHANGED <<owner, fd, stream, ending, life, lookup>>
  BY DEF FileSendRequest_names, FileSendRequest_file, EpollGoes, EpollWaits, streamVars, Wait
<1> HIDE DEF entry
<1>2. \A n \in Conns : (LoginLies(n)' => LoginLies(n)) /\ (LoginWhole(n) => LoginWhole(n)')
  BY <1>1 DEF LoginLies, LoginWhole
<1>3. \A n \in Conns : LoginIsRead(n)' => LoginIsRead(n)
  BY <1>1, NoLoginRead
<1>4. life[c] = "on"
  BY <1>1, BusyIsOn
<1> QED BY <1>1, <1>2, <1>3, <1>4, ReaderMoves

LEMMA AstrayLinks ==
  ASSUME KInv, NEW c \in Peers, ReadsAstray(c)
  PROVE  UInv'
<1> DEFINE e == epoll[c].end
           entry == [pc |-> "astray", end |-> e, frame |-> Blank("OpStatus")]
<1>1. /\ epoll[c].pc = "fields" /\ life[c] = "on" /\ e \in Ends /\ owner[e] = c
      /\ stream[e] # <<>> /\ TakePart(e) /\ epoll' = [epoll EXCEPT ![c] = entry]
      /\ UNCHANGED <<owner, fd, ending, life, lookup>> /\ entry.pc = "astray"
  BY BusyIsOn DEF ReadsAstray, Readable, EpollGoes, NothingElse, KInv, IInv, EpollInv, LinkInv, EndInv
<1> HIDE DEF e, entry
<1>2. ASSUME NEW n \in Conns
      PROVE  /\ LoginLies(n)' => LoginLies(n)
             /\ LoginWhole(n) => LoginWhole(n)' \/ owner[<<n, 2>>] = c
  BY <1>1, LoginsTaken DEF KInv
<1>3. \A n \in Conns : LoginIsRead(n)' => LoginIsRead(n)
  BY <1>1, NoLoginRead
<1> QED BY <1>1, <1>2, <1>3, ReaderMoves

-----------------------------------------------------------------------------
(* A connection that is closed, and logins                                  *)

\* The peer at the other side has ended, so that nobody else is forgotten.
LEMMA PeerIsDownLinks ==
  ASSUME KInv, NEW c \in Peers, PeerIsDown(c)
  PROVE  UInv'
<1> DEFINE e == epoll[c].end
           held == {a \in Peers : lookup[c][a] = fd[e]}
<1>1. /\ epoll[c].pc = "erase" /\ Forget(c, e) /\ CloseEnd(e)
      /\ epoll' = [epoll EXCEPT ![c] = Wait] /\ UNCHANGED life
  BY DEF PeerIsDown, EpollWaits
<1>2. e \in Ends /\ owner[e] = c /\ fd[e] # 0 /\ life[c] = "on"
  BY <1>1, BusyIsOn DEF KInv, IInv, EpollInv, LinkInv, EndInv
<1>3. IF held = {} THEN UNCHANGED lookup
      ELSE \E a \in held : lookup' = [lookup EXCEPT ![c][a] = 0]
  BY <1>1 DEF Forget
<1>4. \A a \in held : a = owner[Other(e)]
  BY <1>2, HeldOnce DEF KInv
<1>5. ending[Other(e)] # "open"
  BY <1>1 DEF KInv, UInv, EndsKnown
<1> HIDE DEF e
<1>6. /\ fd' = [fd EXCEPT ![e] = 0] /\ ending' = [ending EXCEPT ![e] = "closed"]
      /\ UNCHANGED <<owner, stream>>
  BY <1>1 DEF CloseEnd
<1>7. /\ \A d \in Ends : fd'[d] = IF d = e THEN 0 ELSE fd[d]
      /\ \A d \in Ends : ending'[d] = IF d = e THEN "closed" ELSE ending[d]
  BY <1>6 DEF KInv, IInv, StreamsInv
<1>8. \A b, a \in Peers : lookup'[b][a] = lookup[b][a]
                           \/ (b = c /\ a = owner[Other(e)] /\ lookup'[b][a] = 0)
  <2>1. CASE held = {}
    BY <2>1, <1>3
  <2>2. CASE held # {}
    <3>1. PICK z \in held : lookup' = [lookup EXCEPT ![c][z] = 0]
      BY <2>2, <1>3
    <3>2. z \in Peers /\ z = owner[Other(e)]
      BY <1>4
    <3> QED BY <3>1, <3>2 DEF KInv, IInv, RestInv
  <2> QED BY <2>1, <2>2
<1>9. \A b \in Peers : epoll'[b] = IF b = c THEN Wait ELSE epoll[b]
  BY <1>1 DEF KInv, IInv, EpollInv
<1>10. \A n \in Conns : e = <<n, 1>> \/ e = <<n, 2>> => owner[<<n, 1>>] # Nobody /\ ~Alive(n)
  <2> SUFFICES ASSUME NEW n \in Conns, e = <<n, 1>> \/ e = <<n, 2>>
               PROVE  owner[<<n, 1>>] # Nobody /\ ~Alive(n)
    OBVIOUS
  <2>1. Other(e) = <<n, 1>> \/ Other(e) = <<n, 2>>
    BY ConnEnds
  <2> QED BY <2>1, <1>5 DEF KInv, UInv, ClosedByEnd
<1>11. EndedIdle'
  <2> SUFFICES ASSUME NEW b \in Peers, life[b] # "on"
               PROVE  epoll'[b].pc = "wait" /\ \A a \in Peers : lookup'[b][a] = 0
    BY <1>1 DEF EndedIdle
  <2>1. b # c
    BY <1>2
  <2> QED BY <2>1, <1>8, <1>9 DEF KInv, UInv, EndedIdle
<1>12. ClosedByEnd'
  <2> SUFFICES ASSUME NEW n \in Conns, ending'[<<n, 1>>] # "open" \/ ending'[<<n, 2>>] # "open"
               PROVE  owner[<<n, 1>>] # Nobody /\ ~Alive(n)
    BY <1>1, <1>6 DEF ClosedByEnd, Alive
  <2>1. CASE e = <<n, 1>> \/ e = <<n, 2>>
    BY <2>1, <1>10
  <2>2. CASE e # <<n, 1>> /\ e # <<n, 2>>
    BY <2>2, <1>7, ConnEnds DEF KInv, UInv, ClosedByEnd
  <2> QED BY <2>1, <2>2
<1>13. EndsKnown'
  <2> SUFFICES ASSUME NEW b \in Peers
               PROVE  /\ epoll'[b].pc = "erase" => ending'[Other(epoll'[b].end)] # "open"
                      /\ epoll'[b].pc \in {"link", "login", "loginfields"} => epoll'[b].end[2] = 1
                      /\ epoll'[b].pc \in {"login", "loginfields"} =>
                           owner'[epoll'[b].end] = b /\ fd'[epoll'[b].end] # 0
    BY DEF EndsKnown
  <2>1. epoll[b].end \in Ends /\ Other(epoll[b].end) \in Ends
    BY OtherType DEF KInv, IInv, EpollInv
  <2>2. CASE b = c
    BY <2>2, <1>9 DEF Wait
  <2>3. CASE b # c
    <3>1. epoll'[b] = epoll[b]
      BY <2>3, <1>9
    <3>2. epoll[b].pc = "erase" => ending'[Other(epoll[b].end)] # "open"
      BY <2>1, <1>7 DEF KInv, UInv, EndsKnown
    <3>3. epoll[b].pc \in {"login", "loginfields"} =>
            owner'[epoll[b].end] = b /\ fd'[epoll[b].end] # 0
      BY <2>1, <2>3, <1>2, <1>6, <1>7 DEF KInv, UInv, EndsKnown
    <3> QED BY <3>1, <3>2, <3>3 DEF KInv, UInv, EndsKnown
  <2> QED BY <2>2, <2>3
<1>14. ASSUME NEW n \in Conns PROVE LinkOK(n)'
  <2> SUFFICES ASSUME Alive(n)' PROVE LinkOK(n)'
    BY DEF LinkOK
  <2> DEFINE x == owner[<<n, 1>>]  y == owner[<<n, 2>>]
  <2>1. Alive(n) /\ x \in Peers /\ y \in Peers
    BY <1>1, <1>6 DEF Alive
  <2>2. LinkOK(n) /\ e # <<n, 1>> /\ e # <<n, 2>>
    BY <2>1, <1>10 DEF KInv, UInv
  <2>3. UNCHANGED <<owner[<<n, 1>>], owner[<<n, 2>>], fd[<<n, 1>>], fd[<<n, 2>>], stream>>
    BY <2>2, <1>6, <1>7, ConnEnds
  <2>4. /\ epoll'[x] = epoll[x] \/ (epoll[x].pc = "erase" /\ epoll'[x].pc = "wait")
        /\ epoll'[y] = epoll[y] \/ (epoll[y].pc = "erase" /\ epoll'[y].pc = "wait")
    BY <2>1, <1>1, <1>9 DEF Wait
  <2>5. ~(x = c /\ y = owner[Other(e)]) /\ ~(y = c /\ x = owner[Other(e)])
    <3>1. e[1] \in Conns /\ (e = <<e[1], 1>> \/ e = <<e[1], 2>>)
      BY <1>2, EndIsSide
    <3>2. PICK m \in Conns : e = <<m, 1>> \/ e = <<m, 2>>
      BY <3>1
    <3>3. ~Alive(m) /\ (e = <<m, 1>> => Other(e) = <<m, 2>>) /\ (e = <<m, 2>> => Other(e) = <<m, 1>>)
      BY <3>2, <1>10, ConnEnds
    <3> QED BY <2>1, <3>2, <3>3, <1>2 DEF Alive
  <2>6. lookup'[x][y] = lookup[x][y] /\ lookup'[y][x] = lookup[y][x]
    BY <2>1, <2>5, <1>8
  <2>7. /\ Linking(n)' <=> Linking(n)
        /\ LoginLies(n)' => LoginLies(n)
        /\ LoginIsRead(n)' => LoginIsRead(n)
    BY <2>3, <2>4 DEF Linking, LoginLies, LoginIsRead
  <2>8. Linking(n) /\ Unnamed(n) => Unnamed(n)'
    <3> SUFFICES ASSUME Linking(n), Unnamed(n) PROVE Unnamed(n)'
      OBVIOUS
    <3>1. fd[<<n, 1>>] # 0
      BY <2>1 DEF Linking, KInv, IInv, LinkInv, EndInv
    <3> QED BY <3>1, <2>1, <2>3, <1>8 DEF Unnamed
  <2>9. /\ KnownBehind(n) => KnownBehind(n)'
        /\ KnownAhead(n) => KnownAhead(n)'
    BY <2>3, <2>4, <2>6 DEF KnownBehind, KnownAhead, Greeting, LoginWhole, Astray
  <2> QED BY <2>1, <2>2, <2>7, <2>8, <2>9, LinkStays
<1> QED BY <1>11, <1>12, <1>13, <1>14 DEF UInv

\* An entry that is made takes no other away.
LEMMA EnterGrows ==
  ASSUME IInv, NEW c \in Peers, NEW a, NEW e \in Ends, owner[e] = c, fd[e] # 0, Enter(c, a, e)
  PROVE  /\ \A b, d \in Peers : lookup[b][d] # 0 => lookup'[b][d] # 0
         /\ \A b, d \in Peers : lookup'[b][d] = lookup[b][d] \/ (b = c /\ lookup'[b][d] = fd[e])
         /\ \A b \in Peers : b # c => lookup'[b] = lookup[b]
         /\ a \in Peers => lookup'[c][a] # 0
BY DEF Enter, IInv, RestInv

\* Nor does it name another connection.
LEMMA EnterNames ==
  ASSUME IInv, NEW c \in Peers, NEW a, NEW e \in Ends, owner[e] = c, fd[e] # 0, Enter(c, a, e),
         UNCHANGED <<owner, fd>>, NEW n \in Conns, e # <<n, 1>>, e # <<n, 2>>, Alive(n), Unnamed(n)
  PROVE  Unnamed(n)'
<1>1. \A b, d \in Peers : lookup'[b][d] = lookup[b][d] \/ (b = c /\ lookup'[b][d] = fd[e])
  BY EnterGrows
<1>2. \A d \in Ends : owner[d] = c /\ d # e => fd[e] # fd[d]
  BY DEF IInv, StreamsInv, OneEach
<1> QED BY <1>1, <1>2, ConnEnds DEF Unnamed, Alive

\* From the moment the client that connected has entered its peer, its login
\* is under way.
LEMMA LinkEnteredLinks ==
  ASSUME KInv, NEW c \in Peers, P2PRequest_link(c)
  PROVE  UInv'
<1> DEFINE e == epoll[c].end  r == epoll[c].frame
           entry == [pc |-> "login", end |-> e, frame |-> r]
<1>1. /\ epoll[c].pc = "link" /\ Enter(c, r.from, e) /\ epoll' = [epoll EXCEPT ![c] = entry]
      /\ UNCHANGED <<owner, fd, stream, ending, life>>
      /\ entry.pc = "login" /\ entry.end = e
  BY DEF P2PRequest_link, EpollGoes, streamVars
<1>2. /\ e \in Ends /\ owner[e] = c /\ fd[e] # 0 /\ owner[Other(e)] = r.from
      /\ e[2] = 1 /\ life[c] = "on"
  BY <1>1, BusyIsOn DEF KInv, UInv, EndsKnown, IInv, EpollInv, LinkInv, EndInv
<1> DEFINE from == r.from
<1> HIDE DEF e, r, entry, from
<1>3. /\ Enter(c, from, e) /\ owner[Other(e)] = from
      /\ epoll[c].end = e
  BY <1>1, <1>2 DEF e, from
<1>4. /\ \A b, d \in Peers : lookup[b][d] # 0 => lookup'[b][d] # 0
      /\ \A b \in Peers : b # c => lookup'[b] = lookup[b]
      /\ from \in Peers => lookup'[c][from] # 0
  BY <1>2, <1>3, EnterGrows DEF KInv
<1>5. \A b \in Peers : epoll'[b] = IF b = c THEN entry ELSE epoll[b]
  BY <1>1 DEF KInv, IInv, EpollInv
<1>6. EndedIdle'
  BY <1>1, <1>2, <1>4, <1>5, EndedStay
<1>7. ClosedByEnd'
  BY <1>1, ClosedStay
<1>8. EndsKnown'
  BY <1>1, <1>2, EndsMove
<1>9. ASSUME NEW n \in Conns, e = <<n, 1>> PROVE LinkOK(n)'
  <2> SUFFICES ASSUME Alive(n)' PROVE ~Linking(n)' /\ KnownBehind(n)' /\ KnownAhead(n)'
    BY DEF LinkOK
  <2>1. owner[<<n, 1>>] = c /\ owner[<<n, 2>>] = from /\ from \in Peers
    BY <1>1, <1>2, <1>3, <1>9, ConnEnds DEF Alive
  <2>2. epoll'[c].pc = "login" /\ epoll'[c].end = <<n, 1>>
    BY <1>1, <1>5, <1>9
  <2>3. ~Linking(n)' /\ Greeting(n)'
    BY <2>1, <2>2, <1>1 DEF Linking, Greeting
  <2> QED BY <2>1, <2>3, <1>1, <1>4 DEF KnownBehind, KnownAhead
<1>10. ASSUME NEW n \in Conns, e # <<n, 1>> PROVE LinkOK(n)'
  <2>0. e # <<n, 2>>
    BY <1>2
  <2>1. Alive(n)' => Alive(n)
    BY <1>1 DEF Alive
  <2>2. Alive(n) => /\ Linking(n)' <=> Linking(n)
                    /\ Greeting(n) => Greeting(n)'
                    /\ LoginIsRead(n)' => LoginIsRead(n)
                    /\ Astray(owner[<<n, 2>>]) => Astray(owner[<<n, 2>>])'
    BY <1>1, <1>3, <1>5, <1>10 DEF Alive, Linking, Greeting, LoginIsRead, Astray
  <2>3. Alive(n) /\ Unnamed(n) => Unnamed(n)'
    BY <1>1, <1>2, <1>3, <1>10, <2>0, EnterNames DEF KInv
  <2>4. (LoginLies(n)' => LoginLies(n)) /\ (LoginWhole(n) => LoginWhole(n)')
    BY <1>1 DEF LoginLies, LoginWhole
  <2>5. Alive(n) => /\ KnownBehind(n) => KnownBehind(n)'
                    /\ KnownAhead(n) => KnownAhead(n)'
    BY <2>2, <2>4, <1>1, <1>4 DEF KnownBehind, KnownAhead, Alive, Astray
  <2> QED BY <2>1, <2>2, <2>3, <2>4, <2>5, LinkStays DEF KInv, UInv
<1> QED BY <1>6, <1>7, <1>8, <1>9, <1>10 DEF UInv

\* A thread that writes its login writes it to the other side of its end.
LEMMA GreetsOne ==
  ASSUME KInv, NEW c \in Peers, epoll[c].pc \in {"login", "loginfields"}
  PROVE  /\ epoll[c].end \in Ends /\ epoll[c].end[2] = 1 /\ owner[epoll[c].end] = c
         /\ EndsAt(c, fd[epoll[c].end]) = {epoll[c].end}
         /\ ~AtServer(c, fd[epoll[c].end]) /\ fd[epoll[c].end] # 0 /\ life[c] = "on"
<1>1. /\ epoll[c].end \in Ends /\ epoll[c].end[2] = 1 /\ owner[epoll[c].end] = c
      /\ fd[epoll[c].end] # 0 /\ life[c] = "on"
  BY BusyIsOn DEF KInv, UInv, EndsKnown, IInv, EpollInv
<1>2. ~AtServer(c, fd[epoll[c].end])
  BY <1>1 DEF AtServer, KInv, IInv, StreamsInv, OwnFds
<1>3. EndsAt(c, fd[epoll[c].end]) = {epoll[c].end}
  BY <1>1 DEF EndsAt, EndsOf, KInv, IInv, StreamsInv, OneEach
<1> QED BY <1>1, <1>2, <1>3

LEMMA LoginTypeLinks ==
  ASSUME KInv, NEW c \in Peers, login_type(c)
  PROVE  UInv'
<1> DEFINE e == epoll[c].end  f == fd[e]  part == Type(Login(c))
           entry == [pc |-> "loginfields", end |-> e, frame |-> epoll[c].frame]
<1>1. /\ epoll[c].pc = "login" /\ Write(c, f, part) /\ epoll' = [epoll EXCEPT ![c] = entry]
      /\ UNCHANGED <<life, lookup>> /\ entry.pc = "loginfields" /\ entry.end = e
  BY DEF login_type, EpollGoes, NothingElse
<1>2. part \in Parts
  BY LoginType, TypePart
<1>3. e \in Ends /\ e[2] = 1 /\ owner[e] = c /\ EndsAt(c, f) = {e} /\ f # 0 /\ life[c] = "on"
  BY <1>1, GreetsOne
<1>4. /\ UNCHANGED <<owner, fd>> /\ \A d \in Ends : ending'[d] # "open" <=> ending[d] # "open"
  BY <1>1, <1>2, WriteAppends DEF KInv
<1>5. \A n \in Conns : /\ LoginWhole(n) => LoginWhole(n)'
                       /\ LoginLies(n)' => LoginLies(n) \/ <<n, 1>> = e
  BY <1>1, <1>2, <1>3, LoginsWritten DEF KInv
<1>6. epoll[c].end = e /\ fd[e] # 0
  BY <1>3
<1> HIDE DEF e, f, part, entry
<1>7. \A b \in Peers : epoll'[b] = IF b = c THEN entry ELSE epoll[b]
  BY <1>1 DEF KInv, IInv, EpollInv
<1>8. EndedIdle'
  BY <1>1, <1>3, <1>7, EndedStay
<1>9. ClosedByEnd'
  BY <1>1, <1>4, ClosedStay
<1>10. EndsKnown'
  BY <1>1, <1>3, <1>4, <1>6, EndsMove
<1>11. ASSUME NEW n \in Conns PROVE LinkOK(n)'
  <2>1. Alive(n)' => Alive(n)
    BY <1>1, <1>4 DEF Alive
  <2>2. Alive(n) => /\ Linking(n)' <=> Linking(n)
                    /\ Greeting(n) => Greeting(n)'
                    /\ LoginIsRead(n)' => LoginIsRead(n)
                    /\ Astray(owner[<<n, 2>>]) => Astray(owner[<<n, 2>>])'
    BY <1>1, <1>4, <1>6, <1>7 DEF Alive, Linking, Greeting, LoginIsRead, Astray
  <2>3. Linking(n) => <<n, 1>> # e
    BY <1>1, <1>3 DEF Linking
  <2>4. /\ Unnamed(n) => Unnamed(n)'
        /\ KnownBehind(n) => KnownBehind(n)'
    BY <1>1, <1>4 DEF Unnamed, KnownBehind
  <2>5. Alive(n) => (KnownAhead(n) => KnownAhead(n)')
    BY <2>2, <1>1, <1>4, <1>5 DEF KnownAhead, Alive, Astray
  <2> QED BY <2>1, <2>2, <2>3, <2>4, <2>5, <1>5, LinkStays DEF KInv, UInv
<1> QED BY <1>8, <1>9, <1>10, <1>11 DEF UInv

\* The fields of the login are in the stream when it has been written, unless
\* the peer has ended.
LEMMA LoginFieldsLinks ==
  ASSUME KInv, NEW c \in Peers, login_fields(c)
  PROVE  UInv'
<1> DEFINE e == epoll[c].end  f == fd[e]  part == Fields(Login(c))
<1>1. /\ epoll[c].pc = "loginfields" /\ Write(c, f, part) /\ epoll' = [epoll EXCEPT ![c] = Wait]
      /\ UNCHANGED <<life, lookup>> /\ Wait.pc = "wait"
  BY DEF login_fields, EpollWaits, NothingElse, Wait
<1>2. part \in Parts /\ part.part = "fields" /\ part.frame.type = "P2PLogin"
  BY LoginType, FieldsPart DEF Login, Frame
<1>3. /\ e \in Ends /\ e[2] = 1 /\ owner[e] = c /\ EndsAt(c, f) = {e} /\ f # 0 /\ life[c] = "on"
      /\ ~AtServer(c, f)
  BY <1>1, GreetsOne
<1>4. /\ UNCHANGED <<owner, fd>> /\ \A d \in Ends : ending'[d] # "open" <=> ending[d] # "open"
  BY <1>1, <1>2, WriteAppends DEF KInv
<1>5. \A n \in Conns : /\ LoginWhole(n) => LoginWhole(n)'
                       /\ LoginLies(n)' => LoginLies(n) \/ <<n, 1>> = e
  BY <1>1, <1>2, <1>3, LoginsWritten DEF KInv
<1>6. epoll[c].end = e
  OBVIOUS
<1> HIDE DEF e, f, part
<1>7. \A b \in Peers : epoll'[b] = IF b = c THEN Wait ELSE epoll[b]
  BY <1>1 DEF KInv, IInv, EpollInv
<1>8. EndedIdle'
  BY <1>1, <1>3, <1>7, EndedStay
<1>9. ClosedByEnd'
  BY <1>1, <1>4, ClosedStay
<1>10. EndsKnown'
  BY <1>1, <1>4, EndsMove
<1>11. ASSUME NEW n \in Conns, <<n, 1>> = e, Alive(n) PROVE LoginWhole(n)'
  <2>1. Other(e) = <<n, 2>> /\ <<n, 2>> \in Ends
    BY <1>11, ConnEnds
  <2>2. ending[<<n, 2>>] = "open"
    BY <1>11 DEF KInv, UInv, ClosedByEnd
  <2>3. stream' = [stream EXCEPT ![<<n, 2>>] = Append(@, part)]
    BY <1>1, <1>3, <2>1, <2>2 DEF Write, WriteEnd
  <2>4. stream'[<<n, 2>>] = Append(stream[<<n, 2>>], part)
    BY <2>1, <2>3 DEF KInv, IInv, StreamsInv
  <2>5. Len(stream[<<n, 2>>]) + 1 \in DOMAIN stream'[<<n, 2>>]
        /\ stream'[<<n, 2>>][Len(stream[<<n, 2>>]) + 1] = part
    BY <2>4, <1>2, StreamType, Appended DEF KInv
  <2> QED BY <2>5, <1>2 DEF LoginWhole
<1>12. ASSUME NEW n \in Conns PROVE LinkOK(n)'
  <2>1. Alive(n)' => Alive(n)
    BY <1>1, <1>4 DEF Alive
  <2>2. Alive(n) => /\ Linking(n)' <=> Linking(n)
                    /\ Greeting(n) => Greeting(n)' \/ <<n, 1>> = e
                    /\ LoginIsRead(n)' => LoginIsRead(n)
                    /\ Astray(owner[<<n, 2>>]) => Astray(owner[<<n, 2>>])'
    BY <1>1, <1>4, <1>6, <1>7 DEF Alive, Linking, Greeting, LoginIsRead, Astray
  <2>3. Linking(n) => <<n, 1>> # e
    BY <1>1, <1>3 DEF Linking
  <2>4. /\ Unnamed(n) => Unnamed(n)'
        /\ KnownBehind(n) => KnownBehind(n)'
    BY <1>1, <1>4 DEF Unnamed, KnownBehind
  <2>5. Alive(n) => (KnownAhead(n) => KnownAhead(n)')
    BY <2>2, <1>1, <1>4, <1>5, <1>11 DEF KnownAhead, Alive, Astray
  <2> QED BY <2>1, <2>2, <2>3, <2>4, <2>5, <1>5, LinkStays DEF KInv, UInv
<1> QED BY <1>8, <1>9, <1>10, <1>12 DEF UInv

\* The client that accepted knows the peer when it has read its login.
LEMMA P2PLoginLinks ==
  ASSUME KInv, NEW c \in Peers, P2PLogin_action(c)
  PROVE  UInv'
<1> DEFINE e == epoll[c].end  from == raw(c).from
<1>1. /\ read_data(c, "P2PLogin") /\ Enter(c, from, e)
      /\ epoll' = [epoll EXCEPT ![c] = Wait] /\ UNCHANGED life /\ Wait.pc = "wait"
  BY DEF P2PLogin_action, EpollWaits, Wait
<1>2. /\ epoll[c].pc = "fields" /\ epoll[c].frame.type = "P2PLogin" /\ epoll[c].end = e
      /\ IF Fits(c) THEN TakePart(e) ELSE UNCHANGED stream
      /\ UNCHANGED <<owner, fd, ending>>
  BY <1>1 DEF read_data, Reading
<1>3. /\ e \in Ends /\ owner[e] = c /\ fd[e] # 0 /\ life[c] = "on"
  BY <1>2, BusyIsOn DEF KInv, IInv, EpollInv, LinkInv, EndInv
<1>4. Fits(c) => /\ stream[e] # <<>> /\ from = Head(stream[e]).frame.from
                 /\ Head(stream[e]).part = "fields" /\ Head(stream[e]).frame.type = "P2PLogin"
                 /\ from = owner[Other(e)]
  <2> SUFFICES ASSUME Fits(c)
               PROVE  /\ stream[e] # <<>> /\ from = Head(stream[e]).frame.from
                      /\ Head(stream[e]).part = "fields" /\ Head(stream[e]).frame.type = "P2PLogin"
                      /\ from = owner[Other(e)]
    OBVIOUS
  <2>1. /\ stream[e] # <<>> /\ from = Head(stream[e]).frame.from
        /\ Head(stream[e]).part = "fields" /\ Head(stream[e]).frame.type = "P2PLogin"
    BY <1>2 DEF Fits, Readable, Comes, raw
  <2>2. Head(stream[e]) \in PartsAt(e)
    BY <2>1, <1>3, HeadTailProperties DEF KInv, IInv, StreamsInv
  <2> QED BY <2>1, <2>2 DEF PartsAt
<1> HIDE DEF e, from
<1>5. /\ \A b, d \in Peers : lookup[b][d] # 0 => lookup'[b][d] # 0
      /\ \A b \in Peers : b # c => lookup'[b] = lookup[b]
      /\ from \in Peers => lookup'[c][from] # 0
  BY <1>1, <1>3, EnterGrows DEF KInv
<1>6. \A b \in Peers : epoll'[b] = IF b = c THEN Wait ELSE epoll[b]
  BY <1>1 DEF KInv, IInv, EpollInv
<1>7. EndedIdle'
  BY <1>1, <1>3, <1>5, <1>6, EndedStay
<1>8. ClosedByEnd'
  BY <1>1, <1>2, ClosedStay
<1>9. EndsKnown'
  BY <1>1, <1>2, EndsMove
<1>10. ASSUME NEW n \in Conns
       PROVE  /\ LoginLies(n)' => LoginLies(n)
              /\ LoginWhole(n) => LoginWhole(n)' \/ (Fits(c) /\ e = <<n, 2>>)
  <2>1. CASE Fits(c)
    BY <2>1, <1>2, <1>3, <1>4, LoginsTaken DEF KInv
  <2>2. CASE ~Fits(c)
    BY <1>2, <2>2 DEF LoginLies, LoginWhole
  <2> QED BY <2>1, <2>2
<1>11. ASSUME NEW n \in Conns PROVE LinkOK(n)'
  <2>1. Alive(n)' => Alive(n)
    BY <1>1, <1>2 DEF Alive
  <2>2. Alive(n) => /\ Linking(n)' <=> Linking(n)
                    /\ Greeting(n) => Greeting(n)'
                    /\ LoginIsRead(n)' => LoginIsRead(n)
                    /\ Astray(owner[<<n, 2>>]) => Astray(owner[<<n, 2>>])'
    BY <1>1, <1>2, <1>6 DEF Alive, Linking, Greeting, LoginIsRead, Astray
  <2>3. LinkOK(n)
    BY DEF KInv, UInv
  <2>4. Alive(n) /\ Linking(n) => e # <<n, 1>> /\ e # <<n, 2>>
    <3>1. Linking(n) => e # <<n, 1>>
      BY <1>2, <1>3 DEF Linking
    <3>2. e = <<n, 2>> => LoginIsRead(n)
      BY <1>2, <1>3 DEF LoginIsRead
    <3> QED BY <3>1, <3>2, <2>3 DEF LinkOK
  <2>5. Alive(n) /\ Linking(n) /\ Unnamed(n) => Unnamed(n)'
    BY <1>1, <1>2, <1>3, <2>4, EnterNames DEF KInv
  <2>6. Alive(n) => (KnownBehind(n) => KnownBehind(n)')
    BY <1>2, <1>5 DEF KnownBehind, Alive
  <2>7. Alive(n) /\ Fits(c) /\ e = <<n, 2>> => KnownAhead(n)'
    <3> SUFFICES ASSUME Alive(n), Fits(c), e = <<n, 2>> PROVE KnownAhead(n)'
      OBVIOUS
    <3>1. from = owner[<<n, 1>>] /\ from \in Peers
      BY <1>4, ConnEnds DEF Alive
    <3> QED BY <3>1, <1>2, <1>3, <1>5 DEF KnownAhead
  <2>8. Alive(n) => (KnownAhead(n) => KnownAhead(n)')
    BY <2>2, <2>7, <1>2, <1>5, <1>10 DEF KnownAhead, Alive, Astray
  <2> QED BY <2>1, <2>2, <2>3, <2>5, <2>6, <2>8, <1>10, LinkStays
<1> QED BY <1>7, <1>8, <1>9, <1>11 DEF UInv

-----------------------------------------------------------------------------
(* The theorem                                                              *)

LEMMA ServerLinks ==
  ASSUME KInv, NEW c \in Peers, Shown(c) \/ ServerIsDown(c)
  PROVE  UInv'
<1>1. CASE Exit(c, "exited")
  BY <1>1, ExitLinks
<1>2. CASE ~Exit(c, "exited")
  <2>1. UNCHANGED <<owner, fd, stream, ending, life, lookup, epoll>>
    BY <1>2 DEF Shown, ServerIsDown, clientVars
  <2> QED BY <2>1, UntouchedLinks
<1> QED BY <1>1, <1>2

LEMMA EpollLinks ==
  ASSUME KInv, NEW c \in Peers, Epoll(c)
  PROVE  UInv'
<1>1. ASSUME \E how \in {"left", "exited", "asserted"} : Exit(c, how) PROVE UInv'
  BY <1>1, ExitLinks
<1>2. CASE \/ Incoming(c) \/ Shown(c) \/ P2PRequest(c) \/ ServerIsDown(c) \/ get_type(c)
           \/ PeerIsDown(c)
  BY <1>2, IncomingLinks, ServerLinks, ConnectLinks, GetTypeLinks, PeerIsDownLinks
<1>3. CASE P2PRequest_link(c) \/ login_type(c) \/ login_fields(c) \/ ReadsAstray(c)
  BY <1>3, LinkEnteredLinks, LoginTypeLinks, LoginFieldsLinks, AstrayLinks
<1>4. CASE \/ SendMessage_action(c) \/ P2PLogin_action(c) \/ FileSendRequest_action(c)
           \/ FileSendRequest_names(c) \/ FileSendRequest_file(c) \/ FileSendAccept_action(c)
  BY <1>4, HandlersLinks, P2PLoginLinks, CopiedLinks
<1>5. CASE \/ login_fails(c) \/ ReadBreaks(c) \/ P2PRequest_stray(c) \/ FileSendAccept_fails(c)
           \/ Misread(c)
  BY <1>1, <1>5 DEF login_fails, ReadBreaks, P2PRequest_stray, FileSendAccept_fails, Misread
<1> QED BY <1>2, <1>3, <1>4, <1>5 DEF Epoll, EpollGoesOn

LEMMA NextLinks == KInv /\ [Next]_vars => KInv'
<1> SUFFICES ASSUME KInv, [Next]_vars PROVE UInv'
  BY NextInv DEF KInv
<1>1. ASSUME NEW c \in Peers, Main(c) PROVE UInv'
  <2>1. CASE send_fails(c)
    BY <2>1, ExitLinks DEF send_fails
  <2> QED BY <2>1, <1>1, MainLinks
<1>2. ASSUME NEW c \in Peers, Leave(c) PROVE UInv'
  BY <1>2, ExitLinks DEF Leave
<1>3. CASE ServerStops \/ UNCHANGED vars
  <2>1. UNCHANGED <<owner, fd, stream, ending, life, lookup, epoll>>
    BY <1>3 DEF ServerStops, vars, streamVars, clientVars
  <2> QED BY <2>1, UntouchedLinks
<1> QED BY <1>1, <1>2, <1>3, EpollLinks DEF Next

LEMMA InitLinks == Init => KInv
<1> SUFFICES ASSUME Init PROVE UInv
  BY InitInv DEF KInv
<1>1. /\ \A c \in Peers : epoll[c].pc = "wait" /\ life[c] = "on"
      /\ \A e \in Ends : owner[e] = Nobody /\ ending[e] = "open"
  BY DEF Init, StreamsInit, ClientInit, Wait
<1>2. EndedIdle /\ EndsKnown
  BY <1>1 DEF EndedIdle, EndsKnown
<1>3. ClosedByEnd /\ \A n \in Conns : LinkOK(n)
  BY <1>1, ConnEnds, NobodyIsNoPeer DEF ClosedByEnd, LinkOK, Alive
<1> QED BY <1>2, <1>3 DEF UInv

\* A link is known at both sides, for any number of clients and connections:
\* LinkIsMutual of PeerLink.
THEOREM MutualCorrect == Spec => []LinkIsMutual
BY InitLinks, NextLinks, MutualMeans, PTL DEF Spec

-----------------------------------------------------------------------------
(* The invariant of the transfers                                           *)

\* The file of frame f, if it names one, was offered by its sender to its
\* receiver, among the offers made.
Offered(f, made) ==
  f.num # 0 => f.num \in DOMAIN made /\ made[f.num] = [from |-> f.from, to |-> f.to]

\* An answer that nothing has come between reaches the client that offered.
FreshAnswer(f, c, made) ==
  f.alone /\ f.num # 0 => Offered(f, made) /\ f.port = f.num /\ f.from = c

GoodPart(p, c, made) ==
  p.part = "fields" =>
    /\ p.frame.type = "FileSendRequest" => Offered(p.frame, made)
    /\ p.frame.type = "FileSendAccept" => FreshAnswer(p.frame, c, made)

GoodParts(e) == {p \in Parts : GoodPart(p, owner[e], offers)}

StreamsOffered == \A e \in Ends : stream[e] \in Seq(GoodParts(e))

\* What the epoll thread of c reads into and copies from, and what main sends.
FramesOffered(c) ==
  /\ epoll[c].pc = "fields" => epoll[c].frame = Blank(epoll[c].frame.type)
  /\ epoll[c].pc \in {"offer", "file"} => Offered(epoll[c].frame, offers)
  /\ main[c].frame.type = "FileSendRequest" => Offered(main[c].frame, offers)
  /\ main[c].pc = "path" => main[c].frame.type = "FileSendRequest"

\* Between its two steps the copy has the names of the new request and the
\* path and length of the one before.
DataOffered(c) ==
  /\ data[c].path = data[c].length
  /\ IF epoll[c].pc = "file"
     THEN data[c].from = epoll[c].frame.from /\ data[c].to = epoll[c].frame.to
     ELSE data[c].path # 0 =>
            /\ data[c].path \in DOMAIN offers
            /\ offers[data[c].path] = [from |-> data[c].from, to |-> data[c].to]

\* The descriptor an answer is written to leads to who made the request.
Leads(c, f, a) ==
  f # 0 => \E e \in Ends : owner[e] = c /\ fd[e] = f /\ owner[Other(e)] = a

AnswerReady(c) ==
  main[c].frame.type = "FileSendAccept" /\ main[c].frame.alone =>
    /\ epoll[c].pc # "file" /\ main[c].frame.port = data[c].length
    /\ main[c].pc \in {"type", "fields"} => Leads(c, main[c].at, data[c].from)

OffersRight(c) == FramesOffered(c) /\ DataOffered(c) /\ AnswerReady(c)

OInv ==
  IInv /\ StreamsOffered /\ (\A c \in Peers : OffersRight(c)) /\ TransferWasOffered

-----------------------------------------------------------------------------
(* What steps keep                                                          *)

\* Offers are only ever added.
Grown == \A i \in DOMAIN offers : i \in DOMAIN offers' /\ offers'[i] = offers[i]

\* The ends of c that have a descriptor stay what they are.
EndsKeep(c) ==
  \A e \in Ends : owner[e] = c /\ fd[e] # 0 =>
    owner'[e] = c /\ fd'[e] = fd[e] /\ owner'[Other(e)] = owner[Other(e)]

LEMMA OfferedStays ==
  ASSUME Grown, NEW f, Offered(f, offers)
  PROVE  Offered(f, offers')
BY DEF Grown, Offered

LEMMA GoodStays ==
  ASSUME Grown, NEW e \in Ends, owner'[e] = owner[e]
  PROVE  GoodParts(e) \subseteq GoodParts(e)'
<1> SUFFICES ASSUME NEW p \in Parts, GoodPart(p, owner[e], offers)
             PROVE  GoodPart(p, owner[e], offers')
  BY DEF GoodParts
<1> QED BY OfferedStays DEF GoodPart, FreshAnswer

LEMMA OfferedShrink ==
  ASSUME StreamsOffered, Grown,
         \A e \in Ends :
           \/ stream'[e] = <<>>
           \/ /\ owner'[e] = owner[e]
              /\ \/ stream'[e] = stream[e]
                 \/ stream[e] # <<>> /\ stream'[e] = Tail(stream[e])
  PROVE  StreamsOffered'
<1> SUFFICES ASSUME NEW e \in Ends PROVE stream'[e] \in Seq(GoodParts(e)')
  BY DEF StreamsOffered
<1>1. CASE stream'[e] = <<>>
  BY <1>1, EmptySeq
<1>2. CASE owner'[e] = owner[e] /\ \/ stream'[e] = stream[e]
                                   \/ stream[e] # <<>> /\ stream'[e] = Tail(stream[e])
  <2>1. stream[e] \in Seq(GoodParts(e))
    BY DEF StreamsOffered
  <2>2. stream'[e] \in Seq(GoodParts(e))
    BY <1>2, <2>1, HeadTailProperties
  <2>3. GoodParts(e) \subseteq GoodParts(e)'
    BY <1>2, GoodStays
  <2> QED BY <2>2, <2>3, SeqMonotonic
<1> QED BY <1>1, <1>2

LEMMA OfferedTaken ==
  ASSUME OInv, NEW e, TakePart(e), stream[e] # <<>>, UNCHANGED <<owner, offers>>
  PROVE  StreamsOffered'
<1>1. \A d \in Ends : stream'[d] = stream[d] \/ (stream[d] # <<>> /\ stream'[d] = Tail(stream[d]))
  BY DEF TakePart, OInv, IInv, StreamsInv
<1>2. Grown
  BY DEF Grown
<1> QED BY <1>1, <1>2, OfferedShrink DEF OInv

LEMMA OfferedWrite ==
  ASSUME OInv, NEW c \in Peers, NEW f, NEW part \in Parts, UNCHANGED offers,
         \A e \in EndsAt(c, f) : GoodPart(part, owner[Other(e)], offers),
         Write(c, f, part)
  PROVE  StreamsOffered'
<1>1. UNCHANGED owner /\ Grown
  BY DEF Write, Grown
<1>2. CASE UNCHANGED stream
  BY <1>1, <1>2, OfferedShrink DEF OInv
<1>3. ASSUME NEW e \in EndsAt(c, f), stream' = [stream EXCEPT ![Other(e)] = Append(@, part)]
      PROVE  StreamsOffered'
  <2> DEFINE o == Other(e)
  <2>1. o \in Ends
    BY OtherType DEF EndsAt, EndsOf
  <2>2. part \in GoodParts(o)
    BY DEF GoodParts
  <2>3. stream' = [stream EXCEPT ![o] = Append(@, part)]
    BY <1>3
  <2> HIDE DEF o
  <2>4. Append(stream[o], part) \in Seq(GoodParts(o))
    BY <2>1, <2>2, AppendProperties DEF OInv, StreamsOffered
  <2>5. \A d \in Ends : stream'[d] = IF d = o THEN Append(stream[o], part) ELSE stream[d]
    BY <2>1, <2>3 DEF OInv, IInv, StreamsInv
  <2>6. \A d \in Ends : stream'[d] \in Seq(GoodParts(d))
    BY <2>4, <2>5 DEF OInv, StreamsOffered
  <2>7. \A d \in Ends : GoodParts(d)' = GoodParts(d)
    BY <1>1 DEF GoodParts
  <2> QED BY <2>6, <2>7 DEF StreamsOffered
<1> QED BY <1>2, <1>3 DEF Write, WriteEnd

LEMMA TransfersStay ==
  ASSUME TransferWasOffered, Grown, UNCHANGED started
  PROVE  TransferWasOffered'
BY DEF TransferWasOffered, Grown

\* A client that does nothing itself.
LEMMA OffersStay ==
  ASSUME NEW c \in Peers, OffersRight(c), Grown, EndsKeep(c),
         main'[c] = main[c], epoll'[c] = epoll[c], data'[c] = data[c]
  PROVE  OffersRight(c)'
<1>1. FramesOffered(c)'
  BY OfferedStays DEF OffersRight, FramesOffered
<1>2. DataOffered(c)'
  BY DEF OffersRight, DataOffered, Grown
<1>3. AnswerReady(c)'
  BY DEF OffersRight, AnswerReady, EndsKeep, Leads
<1> QED BY <1>1, <1>2, <1>3 DEF OffersRight

\* The other clients, and the invariant when nobody has begun a transfer.
LEMMA OffersNext ==
  ASSUME OInv, NEW c \in Peers, StreamsOffered', Grown, UNCHANGED started, OffersRight(c)',
         \A b \in Peers : b # c =>
           main'[b] = main[b] /\ epoll'[b] = epoll[b] /\ data'[b] = data[b] /\ EndsKeep(b),
         IInv'
  PROVE  OInv'
<1>1. \A b \in Peers : OffersRight(b)'
  BY OffersStay DEF OInv
<1> QED BY <1>1, TransfersStay DEF OInv

LEMMA OffersAlone ==
  ASSUME OInv, StreamsOffered', Grown, UNCHANGED <<started, main, epoll, data>>,
         \A b \in Peers : EndsKeep(b), IInv'
  PROVE  OInv'
<1>1. \A b \in Peers : OffersRight(b)'
  BY OffersStay DEF OInv
<1> QED BY <1>1, TransfersStay DEF OInv

LEMMA SameEnds ==
  ASSUME UNCHANGED <<owner, fd>>
  PROVE  \A b \in Peers : EndsKeep(b)
BY DEF EndsKeep

LEMMA SameOffers ==
  ASSUME UNCHANGED offers
  PROVE  Grown
BY DEF Grown

-----------------------------------------------------------------------------
(* The main thread                                                          *)

\* Only main and the offers change.
LEMMA MainOffers ==
  ASSUME OInv, NEW c \in Peers, NEW pc, NEW at, NEW frame, MainGoes(c, pc, at, frame), Grown,
         UNCHANGED <<owner, fd, stream, epoll, data, started>>,
         frame.type = "FileSendRequest" => Offered(frame, offers'),
         pc = "path" => frame.type = "FileSendRequest",
         frame.type = "FileSendAccept" /\ frame.alone =>
           /\ epoll[c].pc # "file" /\ frame.port = data[c].length
           /\ pc \in {"type", "fields"} => Leads(c, at, data[c].from),
         IInv'
  PROVE  OInv'
<1>1. \A b \in Peers :
        main'[b] = IF b = c THEN [pc |-> pc, at |-> at, frame |-> frame] ELSE main[b]
  BY MainGoesAt DEF OInv
<1>2. main'[c].pc = pc /\ main'[c].at = at /\ main'[c].frame = frame
  BY <1>1
<1>3. StreamsOffered'
  BY OfferedShrink DEF OInv
<1>4. OffersRight(c)
  BY DEF OInv
<1>5. FramesOffered(c)'
  BY <1>2, <1>4, OfferedStays DEF OffersRight, FramesOffered
<1>6. DataOffered(c)'
  BY <1>4 DEF OffersRight, DataOffered, Grown
<1>7. AnswerReady(c)'
  BY <1>2 DEF AnswerReady, Leads
<1> QED BY <1>1, <1>3, <1>5, <1>6, <1>7, SameEnds, OffersNext DEF OffersRight

LEMMA TypingOffers ==
  ASSUME OInv, NEW c \in Peers, sendmsg(c) \/ p2p_request(c)
  PROVE  OInv'
<1>1. IInv'
  BY SendmsgInv, P2PRequestInv DEF OInv
<1>2. /\ UNCHANGED <<owner, fd, stream, epoll, data, started>> /\ Grown
  BY SameOffers DEF sendmsg, p2p_request, Typing, streamVars
<1>3. ASSUME NEW pc, NEW at, NEW frame, MainGoes(c, pc, at, frame),
             frame.type \notin {"FileSendRequest", "FileSendAccept"}, pc # "path"
      PROVE  OInv'
  BY <1>1, <1>2, <1>3, MainOffers
<1>4. CASE sendmsg(c)
  <2>1. PICK to \in Others(c, "send") : \E f \in Find(c, to) :
          MainGoes(c, "type", IF f # 0 THEN f ELSE Client, Frame("SendMessage", c, to, 0))
    BY <1>4 DEF sendmsg
  <2>2. Frame("SendMessage", c, to, 0).type \notin {"FileSendRequest", "FileSendAccept"}
    BY DEF Frame
  <2> QED BY <1>3, <2>1, <2>2
<1>5. CASE p2p_request(c)
  <2>1. PICK to \in Others(c, "p2p") :
          MainGoes(c, "type", Client, Frame("P2PRequest", c, to, asked + 1))
    BY <1>5 DEF p2p_request
  <2>2. Frame("P2PRequest", c, to, asked + 1).type \notin {"FileSendRequest", "FileSendAccept"}
    BY DEF Frame
  <2> QED BY <1>3, <2>1, <2>2
<1> QED BY <1>4, <1>5

\* The file is offered by its number before the request is sent.
LEMMA FileSendOffers ==
  ASSUME OInv, NEW c \in Peers, file_send(c)
  PROVE  OInv'
<1> DEFINE n == Len(offers) + 1
<1>1. PICK to \in Others(c, "filesend") : \E f \in Find(c, to) :
        /\ MainGoes(c, "path", f, Frame("FileSendRequest", c, to, n))
        /\ offers' = Append(offers, [from |-> c, to |-> to])
  BY DEF file_send
<1>2. PICK f \in Find(c, to) :
        /\ MainGoes(c, "path", f, Frame("FileSendRequest", c, to, n))
        /\ offers' = Append(offers, [from |-> c, to |-> to])
  BY <1>1
<1>3. IInv' /\ UNCHANGED <<owner, fd, stream, epoll, data, started>>
  BY FileSendInv DEF OInv, file_send, Typing, streamVars
<1>4. /\ offers \in Seq([from : Peers, to : Peers]) /\ [from |-> c, to |-> to] \in [from : Peers, to : Peers]
      /\ Len(offers) \in Nat /\ DOMAIN offers = 1 .. Len(offers)
  BY OthersType, LenProperties DEF OInv, IInv, RestInv
<1>5. /\ offers' \in Seq([from : Peers, to : Peers]) /\ Len(offers') = n
      /\ \A i \in 1 .. Len(offers) : offers'[i] = offers[i]
      /\ offers'[n] = [from |-> c, to |-> to]
  BY <1>2, <1>4, AppendProperties
<1>6. DOMAIN offers' = 1 .. n
  BY <1>5, LenProperties
<1>7. Grown
  BY <1>4, <1>5, <1>6 DEF Grown
<1> DEFINE frame == Frame("FileSendRequest", c, to, n)
<1>8. frame.type = "FileSendRequest" /\ frame.num = n /\ frame.from = c /\ frame.to = to
  BY DEF Frame
<1>9. n \in 1 .. n
  BY <1>4
<1>10. MainGoes(c, "path", f, frame)
  BY <1>2
<1> HIDE DEF frame, n
<1>11. Offered(frame, offers')
  BY <1>5, <1>6, <1>8, <1>9 DEF Offered
<1> QED BY <1>3, <1>7, <1>8, <1>10, <1>11, MainOffers

LEMMA FileAcceptOffers ==
  ASSUME OInv, NEW c \in Peers, file_accept(c)
  PROVE  OInv'
<1> DEFINE frame == [Blank("FileSendAccept") EXCEPT !.port = data[c].length,
                                                    !.alone = epoll[c].pc \notin {"offer", "file"}]
<1>1. MainGoes(c, "find", 0, frame)
  BY DEF file_accept
<1>2. IInv' /\ Grown /\ UNCHANGED <<owner, fd, stream, epoll, data, started>>
  BY FileAcceptInv, SameOffers DEF OInv, file_accept, Typing, streamVars
<1>3. /\ frame.type = "FileSendAccept" /\ frame.port = data[c].length
      /\ frame.alone => epoll[c].pc # "file"
  BY DEF Blank, Frame
<1> HIDE DEF frame
<1> QED BY <1>1, <1>2, <1>3, MainOffers

LEMMA PathOffers ==
  ASSUME OInv, NEW c \in Peers, file_send_path(c)
  PROVE  OInv'
<1>1. PICK f \in Second(c) : MainGoes(c, "type", f, main[c].frame)
  BY DEF file_send_path
<1>2. IInv' /\ Grown /\ UNCHANGED <<owner, fd, stream, epoll, data, started, offers>>
  BY FileSendPathInv, SameOffers DEF OInv, file_send_path, streamVars, history
<1>3. main[c].frame.type = "FileSendRequest" => Offered(main[c].frame, offers')
  BY <1>2 DEF OInv, OffersRight, FramesOffered
<1>4. main[c].frame.type = "FileSendRequest"
  BY DEF OInv, OffersRight, FramesOffered, file_send_path
<1> QED BY <1>1, <1>2, <1>3, <1>4, MainOffers

LEMMA FindOffers ==
  ASSUME OInv, NEW c \in Peers, file_accept_find(c)
  PROVE  OInv'
<1>1. PICK f \in Find(c, data[c].from) : MainGoes(c, "type", f, main[c].frame)
  BY DEF file_accept_find
<1>2. IInv' /\ Grown /\ UNCHANGED <<owner, fd, stream, epoll, data, started, offers>>
  BY FileAcceptFindInv, SameOffers DEF OInv, file_accept_find, streamVars, history
<1>3. main[c].frame.type = "FileSendRequest" => Offered(main[c].frame, offers')
  BY <1>2 DEF OInv, OffersRight, FramesOffered
<1>4. Leads(c, f, data[c].from)
  <2> SUFFICES ASSUME f # 0 PROVE \E e \in Ends : owner[e] = c /\ fd[e] = f /\ owner[Other(e)] = data[c].from
    BY DEF Leads
  <2>1. data[c].from \in Peers /\ f = lookup[c][data[c].from]
    BY DEF Find, Entry
  <2> QED BY <2>1 DEF OInv, IInv, LinkInv, LookupIsThePeer
<1>5. main[c].frame.type = "FileSendAccept" /\ main[c].frame.alone =>
        epoll[c].pc # "file" /\ main[c].frame.port = data[c].length
  BY DEF OInv, OffersRight, AnswerReady
<1> QED BY <1>1, <1>2, <1>3, <1>4, <1>5, MainOffers

LEMMA SendTypeOffers ==
  ASSUME OInv, NEW c \in Peers, send_type(c)
  PROVE  OInv'
<1>1. /\ Write(c, main[c].at, Type(main[c].frame))
      /\ MainGoes(c, "fields", main[c].at, main[c].frame) /\ main[c].pc = "type"
      /\ UNCHANGED <<epoll, data, offers, started>>
  BY DEF send_type, history
<1>2. UNCHANGED <<owner, fd>> /\ IInv'
  BY <1>1, SendTypeInv DEF Write, OInv
<1>3. Type(main[c].frame) \in Parts /\ Type(main[c].frame).part = "type"
  BY TypePart DEF OInv, IInv, MainInv, MainFrames, ServerFrames
<1>4. StreamsOffered'
  BY <1>1, <1>3, OfferedWrite DEF GoodPart
<1>5. \A b \in Peers :
        main'[b] = IF b = c THEN [pc |-> "fields", at |-> main[c].at, frame |-> main[c].frame]
                   ELSE main[b]
  BY <1>1, MainGoesAt DEF OInv
<1>6. OffersRight(c)'
  <2>1. main'[c].pc = "fields" /\ main'[c].at = main[c].at /\ main'[c].frame = main[c].frame
    BY <1>5
  <2>2. OffersRight(c)
    BY DEF OInv
  <2>3. FramesOffered(c)' /\ DataOffered(c)'
    BY <2>1, <2>2, <1>1 DEF OffersRight, FramesOffered, DataOffered
  <2>4. AnswerReady(c)'
    BY <2>1, <2>2, <1>1, <1>2 DEF OffersRight, AnswerReady, Leads
  <2> QED BY <2>3, <2>4 DEF OffersRight
<1> QED BY <1>1, <1>2, <1>4, <1>5, <1>6, SameEnds, SameOffers, OffersNext

\* What is sent is data as it is now: if nothing has come between, the
\* request that was accepted.
LEMMA SentIsGood ==
  ASSUME OInv, NEW c \in Peers, main[c].pc = "fields", NEW e \in EndsAt(c, main[c].at)
  PROVE  GoodPart(Fields(SentFrame(c)), owner[Other(e)], offers)
<1> DEFINE f == SentFrame(c)
<1>1. e \in Ends /\ owner[e] = c /\ fd[e] = main[c].at /\ fd[e] # 0
  BY DEF EndsAt, EndsOf
<1>2. FramesOffered(c) /\ DataOffered(c) /\ AnswerReady(c)
  BY DEF OInv, OffersRight
<1>3. main[c].frame.type # "FileSendAccept" => f = main[c].frame
  BY DEF SentFrame
<1>4. main[c].frame.type = "FileSendAccept" =>
        /\ f.type = "FileSendAccept" /\ f.from = data[c].from /\ f.to = data[c].to
        /\ f.num = data[c].path /\ f.port = main[c].frame.port /\ f.alone = main[c].frame.alone
  <2>1. main[c].frame \in Frames
    BY DEF OInv, IInv, MainInv, MainFrames, ServerFrames, RealFrames
  <2> QED BY <2>1 DEF SentFrame, Frames
<1>5. Fields(f).frame = f
  BY DEF Fields
<1> SUFFICES GoodPart(Fields(f), owner[Other(e)], offers)
  OBVIOUS
<1> HIDE DEF f
<1>6. CASE main[c].frame.type # "FileSendAccept"
  BY <1>2, <1>3, <1>5, <1>6 DEF GoodPart, FramesOffered
<1>7. CASE main[c].frame.type = "FileSendAccept"
  <2> SUFFICES ASSUME f.alone, f.num # 0
               PROVE  Offered(f, offers) /\ f.port = f.num /\ f.from = owner[Other(e)]
    BY <1>4, <1>5, <1>7 DEF GoodPart, FreshAnswer
  <2>1. /\ epoll[c].pc # "file" /\ f.port = data[c].length
        /\ Leads(c, main[c].at, data[c].from)
    BY <1>2, <1>4, <1>7 DEF AnswerReady
  <2>2. Offered(f, offers) /\ f.port = f.num
    BY <2>1, <1>2, <1>4, <1>7 DEF DataOffered, Offered
  <2>3. PICK d \in Ends : owner[d] = c /\ fd[d] = main[c].at /\ owner[Other(d)] = data[c].from
    BY <2>1, <1>1 DEF Leads
  <2>4. d = e
    BY <2>3, <1>1 DEF OInv, IInv, StreamsInv, OneEach
  <2> QED BY <2>2, <2>3, <2>4, <1>4, <1>7
<1> QED BY <1>6, <1>7

LEMMA IdleOffers ==
  ASSUME NEW c \in Peers, OffersRight(c), main'[c] = Idle, epoll'[c] = epoll[c],
         UNCHANGED <<data, offers>>
  PROVE  OffersRight(c)'
<1>1. Idle.pc = "idle" /\ Idle.frame.type = "OpStatus"
  BY DEF Idle, Blank, Frame
<1> QED BY <1>1 DEF OffersRight, FramesOffered, DataOffered, AnswerReady

LEMMA SendFieldsOffers ==
  ASSUME OInv, NEW c \in Peers, send_fields(c)
  PROVE  OInv'
<1>1. /\ Write(c, main[c].at, Fields(SentFrame(c))) /\ main[c].pc = "fields"
      /\ main' = [main EXCEPT ![c] = Idle]
      /\ UNCHANGED <<epoll, data, offers, started>>
  BY DEF send_fields, history
<1>2. UNCHANGED <<owner, fd>> /\ IInv'
  BY <1>1, SendFieldsInv DEF Write, OInv
<1>3. Fields(SentFrame(c)) \in Parts
  BY SentFrameType, FieldsPart DEF OInv, MainFrames, ServerFrames
<1>4. StreamsOffered'
  BY <1>1, <1>3, SentIsGood, OfferedWrite
<1>5. main'[c] = Idle /\ \A b \in Peers : b # c => main'[b] = main[b]
  BY <1>1 DEF OInv, IInv, MainInv
<1>6. OffersRight(c)'
  BY <1>1, <1>5, IdleOffers DEF OInv
<1> QED BY <1>1, <1>2, <1>4, <1>5, <1>6, SameEnds, SameOffers, OffersNext

LEMMA ExitOffers ==
  ASSUME OInv, NEW c \in Peers, NEW how \in {"left", "exited", "asserted"}, Exit(c, how)
  PROVE  OInv'
<1>1. /\ CloseAll(c)
      /\ data' = [data EXCEPT ![c] = NoData]
      /\ main' = [main EXCEPT ![c] = Idle]
      /\ epoll' = [epoll EXCEPT ![c] = Wait] /\ UNCHANGED <<offers, started>>
  BY DEF Exit, history
<1>2. /\ UNCHANGED owner
      /\ fd' = [e \in Ends |-> IF owner[e] = c THEN 0 ELSE fd[e]]
      /\ stream' = [e \in Ends |-> IF owner[e] = c THEN <<>> ELSE stream[e]]
  BY <1>1 DEF CloseAll
<1>3. IInv' /\ Grown
  BY <1>1, ExitInv, SameOffers DEF OInv
<1>4. StreamsOffered'
  BY <1>2, <1>3, OfferedShrink DEF OInv
<1>5. /\ data'[c] = NoData /\ main'[c] = Idle /\ epoll'[c] = Wait
      /\ \A b \in Peers : b # c => data'[b] = data[b] /\ main'[b] = main[b] /\ epoll'[b] = epoll[b]
  BY <1>1 DEF OInv, IInv, MainInv, EpollInv, RestInv
<1>6. OffersRight(c)'
  <2>1. /\ NoData.path = 0 /\ NoData.length = 0 /\ Wait.pc = "wait"
        /\ Idle.pc = "idle" /\ Idle.frame.type = "OpStatus"
    BY DEF NoData, Wait, Idle, Blank, Frame
  <2> QED BY <2>1, <1>5 DEF OffersRight, FramesOffered, DataOffered, AnswerReady
<1>7. \A b \in Peers : b # c => EndsKeep(b)
  BY <1>2 DEF EndsKeep
<1> QED BY <1>1, <1>3, <1>4, <1>5, <1>6, <1>7, OffersNext

LEMMA MainNextOffers ==
  ASSUME OInv, NEW c \in Peers, Main(c)
  PROVE  OInv'
<1>1. CASE send_fails(c)
  BY <1>1, ExitOffers DEF send_fails
<1>2. CASE sendmsg(c) \/ p2p_request(c) \/ file_send(c) \/ file_accept(c)
  BY <1>2, TypingOffers, FileSendOffers, FileAcceptOffers
<1>3. CASE file_send_path(c) \/ file_accept_find(c) \/ send_type(c) \/ send_fields(c)
  BY <1>3, PathOffers, FindOffers, SendTypeOffers, SendFieldsOffers
<1> QED BY <1>1, <1>2, <1>3 DEF Main, MainGoesOn

-----------------------------------------------------------------------------
(* The epoll thread                                                         *)

\* It goes on, and is not copying.
LEMMA EpollOffers ==
  ASSUME OInv, NEW c \in Peers, NEW entry, epoll' = [epoll EXCEPT ![c] = entry],
         epoll[c].pc # "file", entry.pc # "file",
         entry.pc = "fields" => entry.frame = Blank(entry.frame.type),
         entry.pc = "offer" => Offered(entry.frame, offers),
         UNCHANGED <<main, data, offers>>, \A b \in Peers : EndsKeep(b)
  PROVE  \A b \in Peers : OffersRight(b)'
<1>1. Grown
  BY SameOffers
<1>2. \A b \in Peers : epoll'[b] = IF b = c THEN entry ELSE epoll[b]
  BY DEF OInv, IInv, EpollInv
<1>3. OffersRight(c)
  BY DEF OInv
<1>4. FramesOffered(c)'
  BY <1>2, <1>3 DEF OffersRight, FramesOffered
<1>5. DataOffered(c)'
  BY <1>2, <1>3 DEF OffersRight, DataOffered
<1>6. AnswerReady(c)'
  BY <1>2, <1>3 DEF OffersRight, AnswerReady, EndsKeep, Leads
<1>7. OffersRight(c)'
  BY <1>4, <1>5, <1>6 DEF OffersRight
<1> QED BY <1>1, <1>2, <1>7, OffersStay DEF OInv

LEMMA IncomingOffers ==
  ASSUME OInv, NEW c \in Peers, Incoming(c) \/ Shown(c)
  PROVE  OInv'
<1>1. UNCHANGED <<owner, stream, main, epoll, data, offers, started>>
  BY DEF Incoming, Shown, Accept, clientVars, history
<1>2. \A e \in Ends : fd[e] # 0 => fd'[e] = fd[e]
  <2>1. CASE Incoming(c)
    BY <2>1, AcceptStreams DEF OInv, IInv, Incoming
  <2>2. CASE Shown(c)
    BY <2>2 DEF Shown
  <2> QED BY <2>1, <2>2
<1>3. \A b \in Peers : EndsKeep(b)
  BY <1>1, <1>2 DEF EndsKeep
<1>4. Grown /\ IInv'
  BY <1>1, SameOffers, IncomingInv, ShownInv DEF OInv
<1> QED BY <1>1, <1>3, <1>4, OfferedShrink, OffersAlone DEF OInv

LEMMA ConnectOffers ==
  ASSUME OInv, NEW c \in Peers, P2PRequest(c)
  PROVE  OInv'
<1> DEFINE r == Head(inbox[c])
           entry == [pc |-> "link", end |-> <<r.num, 1>>, frame |-> r]
<1>1. CASE Exit(c, "exited")
  BY <1>1, ExitOffers
<1>2. CASE /\ Connect(c, r.num, r.from) /\ epoll' = [epoll EXCEPT ![c] = entry]
           /\ TakeFrame(c) /\ UNCHANGED up /\ NothingElse
  <2>1. inbox[c] # <<>> /\ r.type = "P2PRequest" /\ epoll[c].pc = "wait" /\ entry.pc = "link"
    BY DEF P2PRequest, FromServer, Waiting
  <2>2. r \in ServerFrames /\ inbox' \in [Peers -> Seq(ServerFrames)]
    BY <2>1, <1>2, TakeFrameType DEF OInv, IInv
  <2>3. r.from \in Peers /\ r.num \in Conns
    BY <2>1, <2>2 DEF ServerFrames
  <2> HIDE DEF r, entry
  <2>4. StreamsInv /\ Connect(c, r.num, r.from) /\ UNCHANGED up
    BY <1>2 DEF OInv, IInv
  <2>5. \A e \in Ends : owner[e] # Nobody => owner'[e] = owner[e] /\ fd'[e] = fd[e]
    BY <2>2, <2>3, <2>4, ConnectStreams
  <2>6. UNCHANGED <<stream, main, data, offers, started>> /\ Grown
    BY <1>2, SameOffers DEF Connect, NothingElse, history
  <2>7. StreamsOffered'
    <3>1. \A e \in Ends : stream'[e] = <<>> \/ (owner'[e] = owner[e] /\ stream'[e] = stream[e])
      BY <2>4, <2>5, <2>6 DEF StreamsInv, Paired
    <3> QED BY <3>1, <2>6, OfferedShrink DEF OInv
  <2>8. \A b \in Peers : EndsKeep(b)
    <3> SUFFICES ASSUME NEW e \in Ends, owner[e] \in Peers
                 PROVE  /\ owner'[e] = owner[e] /\ fd'[e] = fd[e]
                        /\ owner'[Other(e)] = owner[Other(e)]
      BY DEF EndsKeep
    <3>1. owner[e] # Nobody /\ Other(e) \in Ends /\ Other(Other(e)) = e
      BY NobodyIsNoPeer, OtherType
    <3>2. owner[Other(e)] # Nobody
      BY <3>1, <2>4 DEF StreamsInv, Paired
    <3> QED BY <3>1, <3>2, <2>5
  <2>9. \A b \in Peers : OffersRight(b)'
    BY <1>2, <2>1, <2>6, <2>8, EpollOffers
  <2>10. IInv'
    BY P2PRequestHandled DEF OInv
  <2> QED BY <2>6, <2>7, <2>9, <2>10, TransfersStay DEF OInv
<1> QED BY <1>1, <1>2 DEF P2PRequest, EpollGoes

LEMMA ServerOffers ==
  ASSUME OInv, NEW c \in Peers, ServerIsDown(c)
  PROVE  OInv'
<1>1. CASE Exit(c, "exited")
  BY <1>1, ExitOffers
<1>2. CASE UNCHANGED <<owner, fd, stream, main, epoll, data, offers, started>>
  BY <1>2, ServerIsDownInv, SameEnds, SameOffers, OfferedShrink, OffersAlone DEF OInv
<1> QED BY <1>1, <1>2 DEF ServerIsDown

\* What is at the front of a stream.
LEMMA HeadIsGood ==
  ASSUME OInv, NEW e \in Ends, stream[e] # <<>>
  PROVE  Head(stream[e]) \in Parts /\ GoodPart(Head(stream[e]), owner[e], offers)
<1>1. stream[e] \in Seq(GoodParts(e))
  BY DEF OInv, StreamsOffered
<1>2. Head(stream[e]) \in GoodParts(e)
  BY <1>1, HeadTailProperties
<1> QED BY <1>2 DEF GoodParts

LEMMA GetTypeOffers ==
  ASSUME OInv, NEW c \in Peers, get_type(c)
  PROVE  OInv'
<1>1. PICK e \in EndsOf(c) :
        \/ /\ Readable(e)
           /\ LET p == Head(stream[e])
              IN EpollGoes(c, IF p.part = "type" THEN "fields" ELSE "astray", e, Blank(p.frame.type))
           /\ TakePart(e)
           /\ UNCHANGED <<owner, fd, ending, backlog, client, inbox, up>> /\ NothingElse
        \/ /\ AtEof(e)
           /\ EpollGoes(c, "erase", e, Blank("OpStatus"))
           /\ UNCHANGED streamVars /\ NothingElse
        \/ ReadFails(e) /\ Exit(c, "exited")
  BY DEF get_type
<1>2. e \in Ends /\ epoll[c].pc = "wait" /\ IInv'
  BY GetTypeInv DEF EndsOf, get_type, Waiting, OInv
<1>3. ASSUME NEW pc \in {"fields", "astray", "erase"}, NEW t \in FrameTypes,
             EpollGoes(c, pc, e, Blank(t)), NothingElse, UNCHANGED <<owner, fd>>, StreamsOffered'
      PROVE  OInv'
  <2> DEFINE entry == [pc |-> pc, end |-> e, frame |-> Blank(t)]
  <2>1. epoll' = [epoll EXCEPT ![c] = entry] /\ UNCHANGED <<main, data, offers, started>>
    BY <1>3 DEF EpollGoes, NothingElse, history
  <2>2. entry.pc \notin {"file", "offer"} /\ entry.frame = Blank(entry.frame.type)
    BY BlankType
  <2> HIDE DEF entry
  <2>3. \A b \in Peers : OffersRight(b)'
    BY <1>2, <1>3, <2>1, <2>2, SameEnds, EpollOffers
  <2> QED BY <1>2, <1>3, <2>1, <2>3, SameOffers, TransfersStay DEF OInv
<1>4. CASE Exit(c, "exited")
  BY <1>4, ExitOffers
<1>5. CASE /\ Readable(e)
           /\ LET p == Head(stream[e])
              IN EpollGoes(c, IF p.part = "type" THEN "fields" ELSE "astray", e, Blank(p.frame.type))
           /\ TakePart(e)
           /\ UNCHANGED <<owner, fd, ending, backlog, client, inbox, up>> /\ NothingElse
  <2> DEFINE p == Head(stream[e])
             pc == IF p.part = "type" THEN "fields" ELSE "astray"
  <2>1. stream[e] # <<>> /\ EpollGoes(c, pc, e, Blank(p.frame.type)) /\ pc \in {"fields", "astray", "erase"}
    BY <1>5 DEF Readable
  <2>2. p.frame.type \in FrameTypes
    BY <2>1, <1>2, HeadIsGood DEF Parts, Frames
  <2>3. StreamsOffered'
    BY <2>1, <1>5, OfferedTaken DEF NothingElse, history
  <2> HIDE DEF p, pc
  <2> QED BY <2>1, <2>2, <2>3, <1>3, <1>5
<1>6. CASE AtEof(e) /\ EpollGoes(c, "erase", e, Blank("OpStatus")) /\ UNCHANGED streamVars /\ NothingElse
  <2>1. UNCHANGED <<owner, fd, stream, offers>> /\ "OpStatus" \in FrameTypes
    BY <1>6 DEF streamVars, NothingElse, history, FrameTypes
  <2>2. StreamsOffered'
    BY <2>1, SameOffers, OfferedShrink DEF OInv
  <2> QED BY <2>1, <2>2, <1>3, <1>6
<1> QED BY <1>1, <1>4, <1>5, <1>6

\* An answer that is under way when data changes or a descriptor becomes free
\* is marked.
LEMMA TouchedAnswer ==
  ASSUME IInv, NEW c \in Peers, Touched(c)
  PROVE  /\ \A b \in Peers : b # c => main'[b] = main[b]
         /\ main'[c].pc = main[c].pc
         /\ main[c].frame.type # "FileSendAccept" => main'[c] = main[c]
         /\ main[c].frame.type = "FileSendAccept" =>
              main'[c].frame.type = "FileSendAccept" /\ main'[c].frame.alone = FALSE
<1>1. main[c].frame \in Frames
  BY DEF IInv, MainInv, MainFrames, ServerFrames, RealFrames
<1> QED BY <1>1 DEF Touched, IInv, MainInv, Frames

LEMMA TouchedOffers ==
  ASSUME OInv, NEW c \in Peers, NEW entry, Touched(c), epoll' = [epoll EXCEPT ![c] = entry],
         entry.pc # "fields", entry.pc \in {"offer", "file"} => Offered(entry.frame, offers),
         UNCHANGED <<owner, stream, offers, started>>,
         \A b \in Peers : b # c => EndsKeep(b) /\ data'[b] = data[b],
         data'[c].path = data'[c].length,
         IF entry.pc = "file"
         THEN data'[c].from = entry.frame.from /\ data'[c].to = entry.frame.to
         ELSE data'[c].path # 0 =>
                /\ data'[c].path \in DOMAIN offers
                /\ offers[data'[c].path] = [from |-> data'[c].from, to |-> data'[c].to],
         IInv'
  PROVE  OInv'
<1>1. \A b \in Peers : epoll'[b] = IF b = c THEN entry ELSE epoll[b]
  BY DEF OInv, IInv, EpollInv
<1>2. /\ \A b \in Peers : b # c => main'[b] = main[b]
      /\ main'[c].pc = main[c].pc
      /\ main[c].frame.type # "FileSendAccept" => main'[c] = main[c]
      /\ main[c].frame.type = "FileSendAccept" =>
           main'[c].frame.type = "FileSendAccept" /\ main'[c].frame.alone = FALSE
  BY TouchedAnswer DEF OInv
<1>3. FramesOffered(c)'
  BY <1>1, <1>2 DEF OInv, OffersRight, FramesOffered
<1>4. DataOffered(c)'
  BY <1>1 DEF DataOffered
<1>5. AnswerReady(c)'
  BY <1>2 DEF AnswerReady
<1>6. StreamsOffered'
  BY SameOffers, OfferedShrink DEF OInv
<1> QED BY <1>1, <1>2, <1>3, <1>4, <1>5, <1>6, SameOffers, OffersNext DEF OffersRight

LEMMA DownOffers ==
  ASSUME OInv, NEW c \in Peers, PeerIsDown(c)
  PROVE  OInv'
<1> DEFINE e == epoll[c].end
<1>1. /\ epoll[c].pc = "erase" /\ fd' = [fd EXCEPT ![e] = 0] /\ Touched(c)
      /\ epoll' = [epoll EXCEPT ![c] = Wait] /\ Wait.pc = "wait"
      /\ UNCHANGED <<owner, stream, data, offers, started>>
  BY DEF PeerIsDown, CloseEnd, EpollWaits, Wait
<1>2. e \in Ends /\ owner[e] = c
  BY <1>1 DEF OInv, IInv, EpollInv, LinkInv, EndInv
<1> HIDE DEF e
<1>3. \A d \in Ends : d # e => fd'[d] = fd[d]
  BY <1>1, <1>2 DEF OInv, IInv, StreamsInv
<1>4. \A b \in Peers : b # c => EndsKeep(b)
  BY <1>1, <1>2, <1>3 DEF EndsKeep
<1>5. /\ data[c].path = data[c].length
      /\ data[c].path # 0 => /\ data[c].path \in DOMAIN offers
                             /\ offers[data[c].path] = [from |-> data[c].from, to |-> data[c].to]
  BY <1>1 DEF OInv, OffersRight, DataOffered
<1>6. IInv'
  BY PeerIsDownInv DEF OInv
<1> QED BY <1>1, <1>4, <1>5, <1>6, TouchedOffers

LEMMA CopiedOffers ==
  ASSUME OInv, NEW c \in Peers, FileSendRequest_names(c) \/ FileSendRequest_file(c)
  PROVE  OInv'
<1> DEFINE r == epoll[c].frame
<1>1. Touched(c) /\ IInv' /\ UNCHANGED <<owner, fd, stream, offers, started>>
  BY NamesCopied, FileCopied DEF FileSendRequest_names, FileSendRequest_file, streamVars, history, OInv
<1>2. Offered(r, offers) /\ DataOffered(c)
  BY DEF FileSendRequest_names, FileSendRequest_file, OInv, OffersRight, FramesOffered
<1>3. data[c] \in [from : Names, to : Names, path : Files, length : Files]
      /\ DOMAIN data = Peers
  BY DEF OInv, IInv, RestInv
<1>4. CASE FileSendRequest_names(c)
  <2> DEFINE entry == [pc |-> "file", end |-> epoll[c].end, frame |-> r]
  <2>1. /\ epoll[c].pc = "offer" /\ epoll' = [epoll EXCEPT ![c] = entry]
        /\ data' = [data EXCEPT ![c].from = r.from, ![c].to = r.to]
        /\ entry.pc = "file" /\ entry.frame = r
    BY <1>4 DEF FileSendRequest_names, EpollGoes
  <2> HIDE DEF entry, r
  <2>2. /\ data'[c].path = data[c].path /\ data'[c].length = data[c].length
        /\ data'[c].from = r.from /\ data'[c].to = r.to
        /\ \A b \in Peers : b # c => data'[b] = data[b]
    BY <2>1, <1>3
  <2>3. data[c].path = data[c].length
    BY <1>2 DEF DataOffered
  <2> QED BY <1>1, <1>2, <2>1, <2>2, <2>3, SameEnds, TouchedOffers
<1>5. CASE FileSendRequest_file(c)
  <2>1. /\ epoll[c].pc = "file" /\ epoll' = [epoll EXCEPT ![c] = Wait] /\ Wait.pc = "wait"
        /\ data' = [data EXCEPT ![c].path = r.num, ![c].length = r.num]
    BY <1>5 DEF FileSendRequest_file, EpollWaits, Wait
  <2>2. data[c].from = r.from /\ data[c].to = r.to
    BY <2>1, <1>2 DEF DataOffered
  <2> HIDE DEF r
  <2>3. /\ data'[c].path = r.num /\ data'[c].length = r.num
        /\ data'[c].from = r.from /\ data'[c].to = r.to
        /\ \A b \in Peers : b # c => data'[b] = data[b]
    BY <2>1, <2>2, <1>3
  <2> QED BY <1>1, <1>2, <2>1, <2>3, SameEnds, TouchedOffers DEF Offered
<1> QED BY <1>4, <1>5

LEMMA GreetingOffers ==
  ASSUME OInv, NEW c \in Peers, P2PRequest_link(c) \/ login_type(c) \/ login_fields(c)
  PROVE  OInv'
<1> DEFINE goes(pc) == [pc |-> pc, end |-> epoll[c].end, frame |-> epoll[c].frame]
           entry == IF epoll[c].pc = "link" THEN goes("login")
                    ELSE IF epoll[c].pc = "login" THEN goes("loginfields") ELSE Wait
<1>1. /\ epoll' = [epoll EXCEPT ![c] = entry] /\ entry.pc \in {"login", "loginfields", "wait"}
      /\ epoll[c].pc \in {"link", "login", "loginfields"}
      /\ UNCHANGED <<owner, fd, main, data, offers, started>>
  <2>1. CASE P2PRequest_link(c)
    BY <2>1 DEF P2PRequest_link, EpollGoes, streamVars, history
  <2>2. CASE login_type(c)
    BY <2>2 DEF login_type, EpollGoes, NothingElse, history, Write
  <2>3. CASE login_fields(c)
    BY <2>3 DEF login_fields, EpollWaits, NothingElse, history, Write, Wait
  <2> QED BY <2>1, <2>2, <2>3
<1> HIDE DEF entry
<1>2. \A b \in Peers : OffersRight(b)'
  BY <1>1, SameEnds, EpollOffers
<1>3. IInv'
  BY LinkEntered, LoginTypeInv, LoginFieldsInv DEF OInv
<1>4. StreamsOffered'
  <2>1. CASE P2PRequest_link(c)
    <3>1. UNCHANGED stream
      BY <2>1 DEF P2PRequest_link, streamVars
    <3> QED BY <3>1, <1>1, SameOffers, OfferedShrink DEF OInv
  <2>2. CASE login_type(c)
    <3>1. /\ Write(c, fd[epoll[c].end], Type(Login(c)))
          /\ Type(Login(c)) \in Parts /\ Type(Login(c)).part = "type"
      BY <2>2, LoginType, TypePart DEF login_type
    <3> QED BY <3>1, <1>1, OfferedWrite DEF GoodPart
  <2>3. CASE login_fields(c)
    <3>1. /\ Write(c, fd[epoll[c].end], Fields(Login(c)))
          /\ Fields(Login(c)) \in Parts /\ Fields(Login(c)).frame = Login(c)
          /\ Login(c).type = "P2PLogin"
      BY <2>3, LoginType, FieldsPart DEF login_fields, Login, Frame
    <3> QED BY <3>1, <1>1, OfferedWrite DEF GoodPart
  <2> QED BY <2>1, <2>2, <2>3
<1> QED BY <1>1, <1>2, <1>3, <1>4, SameOffers, TransfersStay DEF OInv

\* What a handler reads: the fields that have come, or none.
LEMMA ReadOffers ==
  ASSUME OInv, NEW c \in Peers, NEW type, read_data(c, type), UNCHANGED offers
  PROVE  /\ StreamsOffered' /\ UNCHANGED <<owner, fd>> /\ epoll[c].pc = "fields"
         /\ raw(c).type = "FileSendRequest" => Offered(raw(c), offers)
         /\ raw(c).type = "FileSendAccept" => FreshAnswer(raw(c), c, offers)
<1> DEFINE e == epoll[c].end
<1>1. /\ epoll[c].pc = "fields" /\ UNCHANGED <<owner, fd>>
      /\ IF Fits(c) THEN TakePart(e) ELSE UNCHANGED stream
  BY DEF read_data, Reading
<1>2. e \in Ends /\ owner[e] = c
  BY <1>1 DEF OInv, IInv, EpollInv, LinkInv, EndInv
<1>3. CASE Fits(c)
  <2>1. /\ stream[e] # <<>> /\ raw(c) = Head(stream[e]).frame /\ Head(stream[e]).part = "fields"
    BY <1>3 DEF Fits, Readable, Comes, raw
  <2>2. GoodPart(Head(stream[e]), c, offers)
    BY <2>1, <1>2, HeadIsGood
  <2>3. StreamsOffered'
    BY <1>1, <1>3, <2>1, OfferedTaken
  <2> QED BY <1>1, <2>1, <2>2, <2>3 DEF GoodPart
<1>4. CASE ~Fits(c)
  <2>1. raw(c) = epoll[c].frame
    BY <1>4 DEF raw
  <2>2. epoll[c].frame = Blank(epoll[c].frame.type)
    BY <1>1 DEF OInv, OffersRight, FramesOffered
  <2>3. raw(c).num = 0
    BY <2>1, <2>2 DEF Blank, Frame
  <2>4. StreamsOffered'
    BY <1>1, <1>4, SameOffers, OfferedShrink DEF OInv
  <2> QED BY <1>1, <2>3, <2>4 DEF Offered, FreshAnswer
<1> QED BY <1>3, <1>4

LEMMA HandlersOffers ==
  ASSUME OInv, NEW c \in Peers,
         SendMessage_action(c) \/ P2PLogin_action(c) \/ FileSendRequest_action(c)
  PROVE  OInv'
<1>1. IInv' /\ UNCHANGED <<main, data, offers, started>>
  BY SendMessageHandled, P2PLoginHandled, FileSendRequestHandled
     DEF SendMessage_action, P2PLogin_action, FileSendRequest_action, NothingElse, history, OInv
<1>2. ASSUME NEW type, read_data(c, type), NEW entry, epoll' = [epoll EXCEPT ![c] = entry],
             entry.pc \in {"wait", "offer"}, entry.pc = "offer" => Offered(entry.frame, offers)
      PROVE  OInv'
  <2>1. StreamsOffered' /\ UNCHANGED <<owner, fd>> /\ epoll[c].pc = "fields"
    BY <1>1, <1>2, ReadOffers
  <2>2. \A b \in Peers : OffersRight(b)'
    BY <1>1, <1>2, <2>1, SameEnds, EpollOffers
  <2> QED BY <1>1, <2>1, <2>2, SameOffers, TransfersStay DEF OInv
<1>3. CASE SendMessage_action(c) \/ P2PLogin_action(c)
  <2>1. /\ epoll' = [epoll EXCEPT ![c] = Wait] /\ Wait.pc = "wait"
        /\ \E type : read_data(c, type)
    BY <1>3 DEF SendMessage_action, P2PLogin_action, EpollWaits, Wait
  <2> QED BY <2>1, <1>2
<1>4. CASE FileSendRequest_action(c)
  <2> DEFINE entry == [pc |-> "offer", end |-> epoll[c].end, frame |-> raw(c)]
  <2>1. /\ read_data(c, "FileSendRequest") /\ epoll' = [epoll EXCEPT ![c] = entry]
        /\ entry.pc = "offer" /\ entry.frame = raw(c)
    BY <1>4 DEF FileSendRequest_action, EpollGoes
  <2>2. raw(c).type = "FileSendRequest"
    BY <2>1, ReadData DEF OInv
  <2>3. Offered(raw(c), offers)
    BY <1>1, <2>1, <2>2, ReadOffers
  <2> HIDE DEF entry
  <2> QED BY <2>1, <2>3, <1>2
<1> QED BY <1>3, <1>4

\* The transfer that begins is of what was offered: the answer came to who
\* made the offer, and goes to who was to get it.
LEMMA AcceptOffers ==
  ASSUME OInv, NEW c \in Peers, FileSendAccept_action(c)
  PROVE  OInv'
<1> DEFINE r == raw(c)
<1>1. /\ read_data(c, "FileSendAccept") /\ epoll' = [epoll EXCEPT ![c] = Wait]
      /\ UNCHANGED <<main, data, offers>> /\ IInv' /\ Wait.pc = "wait"
  BY FileSendAcceptHandled DEF FileSendAccept_action, EpollWaits, Wait, OInv
<1>2. PICK p \in EndsAt(c, Entry(c, r.to)) :
        /\ r.num # 0
        /\ started' = started \union
             {[from |-> c, to |-> owner[Other(p)], file |-> r.num, port |-> r.port, alone |-> r.alone]}
  BY DEF FileSendAccept_action
<1>3. r.type = "FileSendAccept"
  BY <1>1, ReadData DEF OInv
<1>4. /\ StreamsOffered' /\ UNCHANGED <<owner, fd>> /\ epoll[c].pc = "fields"
      /\ FreshAnswer(r, c, offers)
  BY <1>1, <1>3, ReadOffers
<1> HIDE DEF r
<1>5. \A b \in Peers : OffersRight(b)'
  BY <1>1, <1>4, SameEnds, EpollOffers
<1>6. owner[Other(p)] = r.to
  <2>1. p \in Ends /\ owner[p] = c /\ fd[p] = Entry(c, r.to) /\ fd[p] # 0
    BY DEF EndsAt, EndsOf
  <2>2. r.to \in Peers /\ lookup[c][r.to] = fd[p]
    BY <2>1 DEF Entry
  <2> QED BY <2>1, <2>2, HeldOnce DEF OInv
<1>7. TransferWasOffered'
  <2> DEFINE new == [from |-> c, to |-> owner[Other(p)], file |-> r.num, port |-> r.port, alone |-> r.alone]
  <2> SUFFICES ASSUME NEW t \in started', t.alone
               PROVE  /\ t.file \in DOMAIN offers /\ t.port = t.file
                      /\ offers[t.file] = [from |-> t.from, to |-> t.to]
    BY <1>1 DEF TransferWasOffered
  <2>1. CASE t \in started
    BY <2>1 DEF OInv, TransferWasOffered
  <2>2. CASE t = new
    <3>1. t.alone = r.alone /\ t.file = r.num /\ t.port = r.port /\ t.from = c /\ t.to = r.to
      BY <2>2, <1>6
    <3> QED BY <3>1, <1>2, <1>4 DEF FreshAnswer, Offered
  <2> QED BY <2>1, <2>2, <1>2
<1> QED BY <1>1, <1>4, <1>5, <1>7 DEF OInv

LEMMA AstrayOffers ==
  ASSUME OInv, NEW c \in Peers, ReadsAstray(c)
  PROVE  OInv'
<1> DEFINE e == epoll[c].end
           entry == [pc |-> "astray", end |-> e, frame |-> Blank("OpStatus")]
<1>1. /\ epoll[c].pc = "fields" /\ stream[e] # <<>> /\ TakePart(e)
      /\ epoll' = [epoll EXCEPT ![c] = entry] /\ entry.pc = "astray"
      /\ UNCHANGED <<owner, fd, main, data, offers, started>> /\ IInv'
  BY ReadsAstrayInv DEF ReadsAstray, Readable, EpollGoes, NothingElse, history, OInv
<1> HIDE DEF e, entry
<1>2. StreamsOffered'
  BY <1>1, OfferedTaken
<1>3. \A b \in Peers : OffersRight(b)'
  BY <1>1, SameEnds, EpollOffers
<1> QED BY <1>1, <1>2, <1>3, SameOffers, TransfersStay DEF OInv

-----------------------------------------------------------------------------
(* The theorem                                                              *)

LEMMA EpollNextOffers ==
  ASSUME OInv, NEW c \in Peers, Epoll(c)
  PROVE  OInv'
<1>1. ASSUME \E how \in {"left", "exited", "asserted"} : Exit(c, how) PROVE OInv'
  BY <1>1, ExitOffers
<1>2. CASE \/ Incoming(c) \/ Shown(c) \/ P2PRequest(c) \/ ServerIsDown(c) \/ get_type(c)
           \/ PeerIsDown(c)
  BY <1>2, IncomingOffers, ServerOffers, ConnectOffers, GetTypeOffers, DownOffers
<1>3. CASE P2PRequest_link(c) \/ login_type(c) \/ login_fields(c) \/ ReadsAstray(c)
  BY <1>3, GreetingOffers, AstrayOffers
<1>4. CASE \/ SendMessage_action(c) \/ P2PLogin_action(c) \/ FileSendRequest_action(c)
           \/ FileSendRequest_names(c) \/ FileSendRequest_file(c) \/ FileSendAccept_action(c)
  BY <1>4, HandlersOffers, CopiedOffers, AcceptOffers
<1>5. CASE \/ login_fails(c) \/ ReadBreaks(c) \/ P2PRequest_stray(c) \/ FileSendAccept_fails(c)
           \/ Misread(c)
  BY <1>1, <1>5 DEF login_fails, ReadBreaks, P2PRequest_stray, FileSendAccept_fails, Misread
<1> QED BY <1>2, <1>3, <1>4, <1>5 DEF Epoll, EpollGoesOn

LEMMA NextOffers == OInv /\ [Next]_vars => OInv'
<1> SUFFICES ASSUME OInv, [Next]_vars PROVE OInv'
  OBVIOUS
<1>1. ASSUME NEW c \in Peers, Leave(c) PROVE OInv'
  BY <1>1, ExitOffers DEF Leave
<1>2. CASE ServerStops \/ UNCHANGED vars
  <2>1. UNCHANGED <<owner, fd, stream, main, epoll, data, offers, started>>
    BY <1>2 DEF ServerStops, vars, streamVars, clientVars, history
  <2>2. IInv'
    BY NextInv DEF OInv
  <2> QED BY <2>1, <2>2, SameEnds, SameOffers, OfferedShrink, OffersAlone DEF OInv
<1> QED BY <1>1, <1>2, MainNextOffers, EpollNextOffers DEF Next

LEMMA InitOffers == Init => OInv
<1> SUFFICES ASSUME Init PROVE OInv
  OBVIOUS
<1>1. IInv
  BY InitInv
<1>2. StreamsOffered
  BY EmptySeq DEF Init, StreamsInit, StreamsOffered
<1>3. ASSUME NEW c \in Peers PROVE OffersRight(c)
  <2>1. main[c] = Idle /\ epoll[c] = Wait /\ data[c] = NoData
    BY DEF Init, ClientInit
  <2>2. /\ NoData.path = 0 /\ NoData.length = 0 /\ Wait.pc = "wait"
        /\ Idle.pc = "idle" /\ Idle.frame.type = "OpStatus"
    BY DEF NoData, Wait, Idle, Blank, Frame
  <2> QED BY <2>1, <2>2 DEF OffersRight, FramesOffered, DataOffered, AnswerReady
<1>4. TransferWasOffered
  BY DEF Init, ClientInit, TransferWasOffered
<1> QED BY <1>1, <1>2, <1>3, <1>4 DEF OInv

\* A transfer is of a file that was offered to the peer it goes to, and the
\* port was opened for its length, for any number of clients, connections and
\* commands: TransferWasOffered of PeerLink.
THEOREM TransferCorrect == Spec => []TransferWasOffered
<1>1. OInv => TransferWasOffered
  BY DEF OInv
<1> QED BY <1>1, InitOffers, NextOffers, PTL DEF Spec

-----------------------------------------------------------------------------
(* The invariant of the frames                                              *)

\* Stream s of frames in order, where the type t has been read if r.
Whole(s, r, t) ==
  /\ InOrder(s, IF r THEN "fields" ELSE "type")
  /\ \A i \in DOMAIN s : s[i].part = "fields" =>
       s[i].frame.type = IF i = 1 THEN t ELSE s[i - 1].frame.type

\* What has been written last is a type, and which.
Half(s, r) == IF s = <<>> THEN r ELSE s[Len(s)].part = "type"
HalfType(s, t) == IF s = <<>> THEN t ELSE s[Len(s)].frame.type

\* Between the parts of a frame: the reader of the side that connected, and
\* the main thread that writes to it.
TypeIsRead(n) ==
  epoll[owner[<<n, 1>>]].end = <<n, 1>> /\ epoll[owner[<<n, 1>>]].pc = "fields"

TypeIsWritten(n) ==
  main[owner[<<n, 2>>]].pc = "fields" /\ main[owner[<<n, 2>>]].at = fd[<<n, 2>>]

\* What lies towards the side that connected are parts in turn, and half a
\* frame has been written exactly while the main thread of the other client
\* is between its two writes to it.  Before the connection is accepted nobody
\* can write there.
FlowOK(n) ==
  LET e == <<n, 1>>  o == <<n, 2>>
      c == owner[e]  b == owner[o]
      s == stream[e]  t == epoll[c].frame.type
  IN fd[e] # 0 /\ b \notin closed =>
       /\ ~(Astray(c) /\ epoll[c].end = e)
       /\ Whole(s, TypeIsRead(n), t)
       /\ IF fd[o] = 0
          THEN ending[o] = "open" => s = <<>> /\ ~TypeIsRead(n)
          ELSE /\ TypeIsWritten(n) <=> Half(s, TypeIsRead(n))
               /\ TypeIsWritten(n) => main[b].frame.type = HalfType(s, t)

\* What is closed has no descriptor, and nobody closes what is to be accepted.
ShutEnds == \A e \in Ends : ending[e] # "open" => fd[e] = 0

BacklogsOpen == \A c \in Peers : \A i \in DOMAIN backlog[c] : ending[<<backlog[c][i], 2>>] = "open"

\* The number the main thread has found is not given out again, so that what
\* is accepted now is not what it is in the middle of a frame to.
AtOwn(c) ==
  c \notin closed /\ life[c] = "on" => client[c] = Client /\ main[c].at \notin FreeFds(c)

WInv ==
  ShutEnds /\ BacklogsOpen /\ (\A c \in Peers : AtOwn(c)) /\ \A n \in Conns : FlowOK(n)

FInv == KInv /\ WInv

-----------------------------------------------------------------------------
(* Parts in turn                                                            *)

\* Which part comes at place i.
Turn(i, r) == IF (i % 2 = 1) = ~r THEN "type" ELSE "fields"

LEMMA TurnTurns ==
  ASSUME NEW i \in Nat, NEW r \in BOOLEAN
  PROVE  /\ Turn(1, r) = IF r THEN "fields" ELSE "type"
         /\ Turn(i + 1, r) = IF Turn(i, r) = "type" THEN "fields" ELSE "type"
         /\ Turn(i + 1, r) = Turn(i, ~r)
<1>1. ((i + 1) % 2 = 1) <=> (i % 2 # 1)
  OBVIOUS
<1> QED BY <1>1 DEF Turn

LEMMA WholeTurns ==
  ASSUME NEW s, NEW r \in BOOLEAN, NEW t
  PROVE  Whole(s, r, t) <=>
           /\ \A i \in DOMAIN s : s[i].part = Turn(i, r)
           /\ \A i \in DOMAIN s : s[i].part = "fields" =>
                s[i].frame.type = IF i = 1 THEN t ELSE s[i - 1].frame.type
<1>1. ((IF r THEN "fields" ELSE "type") = "type") = ~r
  OBVIOUS
<1> QED BY <1>1 DEF Whole, InOrder, Turn

LEMMA EmptyWhole ==
  ASSUME NEW r \in BOOLEAN, NEW t
  PROVE  Whole(<<>>, r, t) /\ Half(<<>>, r) = r /\ HalfType(<<>>, t) = t
BY WholeTurns DEF Half, HalfType

\* After a type come its fields, and after the fields a type.
LEMMA WholeGrows ==
  ASSUME NEW s \in Seq(Parts), NEW r \in BOOLEAN, NEW t, NEW p \in Parts, Whole(s, r, t),
         p.part = IF Half(s, r) THEN "fields" ELSE "type",
         Half(s, r) => p.frame.type = HalfType(s, t)
  PROVE  /\ Whole(Append(s, p), r, t)
         /\ Half(Append(s, p), r) = ~Half(s, r)
         /\ HalfType(Append(s, p), t) = p.frame.type
<1> DEFINE u == Append(s, p)  k == Len(s)
<1>1. /\ DOMAIN u = DOMAIN s \union {k + 1} /\ u[k + 1] = p
      /\ \A i \in DOMAIN s : u[i] = s[i]
  BY Appended
<1>2. /\ k \in Nat /\ DOMAIN s = 1 .. k /\ Len(u) = k + 1 /\ u # <<>>
      /\ s = <<>> <=> k = 0
  BY LenProperties, EmptySeq, AppendProperties
<1>3. \A i \in 1 .. k : s[i].part = Turn(i, r)
  BY <1>2, WholeTurns
<1>4. p.part = Turn(k + 1, r)
  <2>1. CASE k = 0
    BY <2>1, <1>2, TurnTurns DEF Half
  <2>2. CASE k # 0
    <3>1. k \in 1 .. k /\ s # <<>>
      BY <2>2, <1>2
    <3>2. Half(s, r) <=> Turn(k, r) = "type"
      BY <3>1, <1>3 DEF Half
    <3>3. Turn(k + 1, r) = IF Turn(k, r) = "type" THEN "fields" ELSE "type"
      BY <1>2, TurnTurns
    <3> QED BY <3>2, <3>3
  <2> QED BY <2>1, <2>2
<1>5. u[k + 1].part = "fields" =>
        u[k + 1].frame.type = IF k + 1 = 1 THEN t ELSE u[k].frame.type
  <2>1. p.part = "fields" => p.frame.type = HalfType(s, t)
    OBVIOUS
  <2>2. k = 0 => HalfType(s, t) = t
    BY <1>2 DEF HalfType
  <2>3. k # 0 => HalfType(s, t) = s[k].frame.type /\ u[k] = s[k]
    <3> SUFFICES ASSUME k # 0 PROVE HalfType(s, t) = s[k].frame.type /\ u[k] = s[k]
      OBVIOUS
    <3>1. k \in DOMAIN s /\ s # <<>>
      BY <1>2
    <3>2. HalfType(s, t) = s[k].frame.type
      BY <3>1 DEF HalfType
    <3> HIDE DEF u, k
    <3> QED BY <3>1, <3>2, <1>1
  <2>4. k + 1 = 1 <=> k = 0
    BY <1>2
  <2> HIDE DEF u, k
  <2> QED BY <1>1, <2>1, <2>2, <2>3, <2>4
<1>6. \A i \in 1 .. k : s[i].part = "fields" =>
        s[i].frame.type = IF i = 1 THEN t ELSE s[i - 1].frame.type
  BY <1>2, WholeTurns
<1>7. Whole(u, r, t)
  <2>1. \A i \in DOMAIN u : u[i].part = Turn(i, r)
    BY <1>1, <1>2, <1>3, <1>4
  <2>2. \A i \in DOMAIN u : u[i].part = "fields" =>
          u[i].frame.type = IF i = 1 THEN t ELSE u[i - 1].frame.type
    <3> SUFFICES ASSUME NEW i \in DOMAIN u, u[i].part = "fields"
                 PROVE  u[i].frame.type = IF i = 1 THEN t ELSE u[i - 1].frame.type
      OBVIOUS
    <3>1. CASE i = k + 1
      <4>1. i - 1 = k
        BY <3>1, <1>2
      <4> QED BY <3>1, <4>1, <1>5
    <3>2. CASE i \in 1 .. k
      <4>1. i # 1 => i - 1 \in DOMAIN s
        BY <3>2, <1>2
      <4> HIDE DEF u
      <4> QED BY <3>2, <4>1, <1>1, <1>2, <1>6
    <3> QED BY <3>1, <3>2, <1>1, <1>2
  <2> HIDE DEF u
  <2> QED BY <2>1, <2>2, WholeTurns
<1>8. /\ Half(u, r) <=> p.part = "type"
      /\ HalfType(u, t) = p.frame.type
  BY <1>1, <1>2 DEF Half, HalfType
<1>9. Half(u, r) \in BOOLEAN /\ Half(s, r) \in BOOLEAN
  BY DEF Half
<1> QED BY <1>7, <1>8, <1>9

LEMMA WholeHead ==
  ASSUME NEW s \in Seq(Parts), s # <<>>, NEW r \in BOOLEAN, NEW t, Whole(s, r, t)
  PROVE  /\ Head(s).part = IF r THEN "fields" ELSE "type"
         /\ r => Head(s).frame.type = t
<1>1. Head(s) = s[1] /\ 1 \in DOMAIN s
  BY Shortened
<1>2. Head(s).part = Turn(1, r)
  BY <1>1, WholeTurns
<1>3. Head(s).part = IF r THEN "fields" ELSE "type"
  BY <1>2, TurnTurns
<1> QED BY <1>1, <1>3, WholeTurns

\* A part that is taken changes what has been read, and not what has been
\* written.
LEMMA WholeShrinks ==
  ASSUME NEW s \in Seq(Parts), s # <<>>, NEW r \in BOOLEAN, NEW q \in BOOLEAN, q # r,
         NEW t, NEW v, Whole(s, r, t), r \/ v = Head(s).frame.type
  PROVE  /\ Whole(Tail(s), q, v)
         /\ Half(Tail(s), q) = Half(s, r)
         /\ Half(s, r) => HalfType(Tail(s), v) = HalfType(s, t)
<1> DEFINE u == Tail(s)  k == Len(s)
<1>1. /\ Head(s) = s[1] /\ 1 \in DOMAIN s
      /\ \A i \in DOMAIN u : i + 1 \in DOMAIN s /\ u[i] = s[i + 1]
  BY Shortened
<1>2. /\ k \in Nat \ {0} /\ DOMAIN s = 1 .. k /\ u \in Seq(Parts) /\ Len(u) = k - 1
      /\ DOMAIN u = 1 .. k - 1 /\ (u = <<>> <=> k = 1)
  <2>1. k \in Nat \ {0} /\ DOMAIN s = 1 .. k /\ u \in Seq(Parts) /\ Len(u) = k - 1
    BY LenProperties, EmptySeq, HeadTailProperties
  <2> HIDE DEF u, k
  <2>2. DOMAIN u = 1 .. Len(u) /\ (u = <<>> <=> Len(u) = 0)
    BY <2>1, LenProperties, EmptySeq
  <2> QED BY <2>1, <2>2
<1>3. \A i \in 1 .. k : s[i].part = Turn(i, r)
  BY <1>2, WholeTurns
<1>4. \A i \in 1 .. k : s[i].part = "fields" =>
        s[i].frame.type = IF i = 1 THEN t ELSE s[i - 1].frame.type
  BY <1>2, WholeTurns
<1>5. Head(s).part = IF r THEN "fields" ELSE "type"
  BY WholeHead
<1> HIDE DEF u, k
<1>7. \A i \in DOMAIN u : u[i].part = Turn(i, q)
  <2> SUFFICES ASSUME NEW i \in DOMAIN u PROVE u[i].part = Turn(i, q)
    OBVIOUS
  <2>1. i \in Nat /\ i + 1 \in 1 .. k /\ u[i] = s[i + 1]
    BY <1>1, <1>2
  <2>2. q = ~r
    OBVIOUS
  <2> QED BY <2>1, <2>2, <1>3, TurnTurns
<1>8. \A i \in DOMAIN u : u[i].part = "fields" =>
        u[i].frame.type = IF i = 1 THEN v ELSE u[i - 1].frame.type
  <2> SUFFICES ASSUME NEW i \in DOMAIN u, u[i].part = "fields"
               PROVE  u[i].frame.type = IF i = 1 THEN v ELSE u[i - 1].frame.type
    OBVIOUS
  <2>1. i \in Nat \ {0} /\ i + 1 \in 1 .. k /\ i + 1 # 1 /\ i + 1 - 1 = i /\ u[i] = s[i + 1]
    BY <1>1, <1>2
  <2>2. u[i].frame.type = s[i].frame.type
    BY <2>1, <1>4
  <2>3. CASE i = 1
    <3>1. r = FALSE
      BY <2>1, <2>3, <1>7, TurnTurns
    <3> QED BY <3>1, <2>2, <2>3, <1>1
  <2>4. CASE i # 1
    <3>1. i - 1 \in DOMAIN u /\ i - 1 + 1 = i
      BY <2>1, <2>4, <1>2
    <3> QED BY <3>1, <2>2, <2>4, <1>1
  <2> QED BY <2>3, <2>4
<1>9. Whole(u, q, v)
  BY <1>7, <1>8, WholeTurns
<1>10. /\ Half(u, q) = Half(s, r)
       /\ Half(s, r) => HalfType(u, v) = HalfType(s, t)
  <2>1. Half(s, r) = (s[k].part = "type") /\ HalfType(s, t) = s[k].frame.type
    BY DEF Half, HalfType, k
  <2>2. CASE k = 1
    <3>1. Half(u, q) = q /\ HalfType(u, v) = v
      BY <2>2, <1>2 DEF Half, HalfType
    <3>2. Half(s, r) = q
      BY <2>1, <2>2, <1>1, <1>5
    <3> QED BY <3>1, <3>2, <2>1, <2>2, <1>1
  <2>3. CASE k # 1
    <3>1. k - 1 \in DOMAIN u /\ k - 1 + 1 = k
      BY <2>3, <1>2
    <3>2. Half(u, q) = (u[k - 1].part = "type") /\ HalfType(u, v) = u[k - 1].frame.type
      BY <2>3, <1>2 DEF Half, HalfType
    <3> QED BY <2>1, <3>1, <3>2, <1>1
  <2> QED BY <2>2, <2>3
<1> QED BY <1>9, <1>10 DEF u

LEMMA TakenType ==
  ASSUME NEW s \in Seq(Parts), s # <<>>, NEW t, Whole(s, FALSE, t)
  PROVE  /\ Whole(Tail(s), TRUE, Head(s).frame.type)
         /\ Half(Tail(s), TRUE) = Half(s, FALSE)
         /\ Half(s, FALSE) => HalfType(Tail(s), Head(s).frame.type) = HalfType(s, t)
BY WholeShrinks

LEMMA TakenFields ==
  ASSUME NEW s \in Seq(Parts), s # <<>>, NEW t, NEW v, Whole(s, TRUE, t)
  PROVE  /\ Whole(Tail(s), FALSE, v)
         /\ Half(Tail(s), FALSE) = Half(s, TRUE)
         /\ Half(s, TRUE) => HalfType(Tail(s), v) = HalfType(s, t)
<1> DEFINE r == TRUE  q == FALSE
<1>1. r \in BOOLEAN /\ q \in BOOLEAN /\ q # r /\ (r \/ v = Head(s).frame.type)
      /\ Whole(s, r, t)
  OBVIOUS
<1> HIDE DEF r, q
<1>2. /\ Whole(Tail(s), q, v) /\ Half(Tail(s), q) = Half(s, r)
      /\ Half(s, r) => HalfType(Tail(s), v) = HalfType(s, t)
  BY <1>1, WholeShrinks
<1> QED BY <1>2 DEF r, q

\* The type that was read before does not matter where none is read.
LEMMA WholeAny ==
  ASSUME NEW s \in Seq(Parts), NEW t, NEW v, Whole(s, FALSE, t)
  PROVE  Whole(s, FALSE, v) /\ (Half(s, FALSE) => HalfType(s, v) = HalfType(s, t))
<1>1. /\ \A i \in DOMAIN s : s[i].part = Turn(i, FALSE)
      /\ \A i \in DOMAIN s : s[i].part = "fields" =>
           s[i].frame.type = IF i = 1 THEN t ELSE s[i - 1].frame.type
  BY WholeTurns
<1>2. Turn(1, FALSE) = "type"
  BY TurnTurns
<1>3. \A i \in DOMAIN s : s[i].part = "fields" =>
        s[i].frame.type = IF i = 1 THEN v ELSE s[i - 1].frame.type
  BY <1>1, <1>2
<1> QED BY <1>1, <1>3, WholeTurns DEF Half, HalfType

-----------------------------------------------------------------------------
(* What steps keep                                                          *)

LEMMA EndStream ==
  ASSUME IInv, NEW e \in Ends
  PROVE  stream[e] \in Seq(Parts)
<1>1. stream[e] \in Seq(PartsAt(e)) /\ PartsAt(e) \subseteq Parts
  BY DEF IInv, StreamsInv, PartsAt
<1> QED BY <1>1, SeqMonotonic

\* An end that has a descriptor is open, and so its connection has two owners.
LEMMA FlowEnds ==
  ASSUME FInv, NEW n \in Conns, fd[<<n, 1>>] # 0 \/ fd[<<n, 2>>] # 0
  PROVE  owner[<<n, 1>>] \in Peers /\ owner[<<n, 2>>] \in Peers
<1>1. owner[<<n, 1>>] \in Peers \/ owner[<<n, 2>>] \in Peers
  BY ConnEnds DEF FInv, KInv, IInv, StreamsInv, OwnFds
<1> QED BY <1>1, BothOwned, NobodyIsNoPeer DEF FInv, KInv

\* Whoever is there reads or writes no frame at the end e.
Away(entry, e) == entry.end = e => entry.pc \notin {"fields", "astray"}
Off(entry, f) == ~(entry.pc = "fields" /\ entry.at = f)

SameAt(old, new) == new.pc = old.pc /\ new.at = old.at /\ new.frame.type = old.frame.type

\* A step that leaves the frames of n alone.
LEMMA QuietFlow ==
  ASSUME FInv, NEW n \in Conns, closed \subseteq closed',
         UNCHANGED <<owner[<<n, 1>>], owner[<<n, 2>>], fd[<<n, 1>>], fd[<<n, 2>>],
                     stream[<<n, 1>>]>>,
         ending'[<<n, 2>>] = "open" => ending[<<n, 2>>] = "open",
         \A c \in Peers : owner[<<n, 1>>] = c =>
           \/ epoll'[c] = epoll[c]
           \/ Away(epoll[c], <<n, 1>>) /\ Away(epoll'[c], <<n, 1>>),
         \A b \in Peers : owner[<<n, 2>>] = b /\ fd[<<n, 2>>] # 0 =>
           \/ SameAt(main[b], main'[b])
           \/ Off(main[b], fd[<<n, 2>>]) /\ Off(main'[b], fd[<<n, 2>>])
  PROVE  FlowOK(n)'
<1> DEFINE e == <<n, 1>>  o == <<n, 2>>  c == owner[e]  b == owner[o]
           s == stream[e]  t == epoll[c].frame.type  v == epoll'[c].frame.type
<1> SUFFICES ASSUME fd[e] # 0, b \notin closed'
             PROVE  /\ ~(Astray(c)' /\ epoll'[c].end = e)
                    /\ Whole(s, TypeIsRead(n)', v)
                    /\ IF fd[o] = 0
                       THEN ending'[o] = "open" => s = <<>> /\ ~TypeIsRead(n)'
                       ELSE /\ TypeIsWritten(n)' <=> Half(s, TypeIsRead(n)')
                            /\ TypeIsWritten(n)' => main'[b].frame.type = HalfType(s, v)
  BY DEF FlowOK
<1>1. c \in Peers /\ b \in Peers
  BY FlowEnds
<1>2. FlowOK(n) /\ b \notin closed
  BY DEF FInv, WInv
<1>3. s \in Seq(Parts)
  BY ConnEnds, EndStream DEF FInv, KInv
<1>4. /\ ~(Astray(c) /\ epoll[c].end = e)
      /\ Whole(s, TypeIsRead(n), t)
      /\ IF fd[o] = 0 THEN ending[o] = "open" => s = <<>> /\ ~TypeIsRead(n)
         ELSE /\ TypeIsWritten(n) <=> Half(s, TypeIsRead(n))
              /\ TypeIsWritten(n) => main[b].frame.type = HalfType(s, t)
  BY <1>2 DEF FlowOK
<1>5. /\ TypeIsRead(n) <=> epoll[c].end = e /\ epoll[c].pc = "fields"
      /\ TypeIsRead(n)' <=> epoll'[c].end = e /\ epoll'[c].pc = "fields"
      /\ Astray(c) <=> epoll[c].pc = "astray"
      /\ Astray(c)' <=> epoll'[c].pc = "astray"
  BY DEF TypeIsRead, Astray
<1>6. /\ TypeIsWritten(n) <=> main[b].pc = "fields" /\ main[b].at = fd[o]
      /\ TypeIsWritten(n)' <=> main'[b].pc = "fields" /\ main'[b].at = fd[o]
  BY DEF TypeIsWritten
<1>7. /\ ~(Astray(c)' /\ epoll'[c].end = e)
      /\ TypeIsRead(n)' = TypeIsRead(n)
      /\ TypeIsRead(n) => v = t
  <2>1. CASE epoll'[c] = epoll[c]
    BY <2>1, <1>4, <1>5 DEF TypeIsRead
  <2>2. CASE Away(epoll[c], e) /\ Away(epoll'[c], e)
    BY <2>2, <1>5 DEF Away, TypeIsRead
  <2> QED BY <2>1, <2>2, <1>1
<1>8. fd[o] # 0 => /\ TypeIsWritten(n)' = TypeIsWritten(n)
                   /\ TypeIsWritten(n) => main'[b].frame.type = main[b].frame.type
  BY <1>1, <1>6 DEF Off, SameAt, TypeIsWritten
<1>9. /\ Whole(s, TypeIsRead(n), v)
      /\ Half(s, TypeIsRead(n)) => HalfType(s, v) = HalfType(s, t)
  <2>1. TypeIsRead(n) \in BOOLEAN
    BY DEF TypeIsRead
  <2>2. CASE TypeIsRead(n)
    BY <2>2, <1>4, <1>7
  <2>3. CASE TypeIsRead(n) = FALSE
    <3> HIDE DEF s, t, v
    <3> QED BY <2>3, <1>3, <1>4, WholeAny
  <2> QED BY <2>1, <2>2, <2>3
<1> HIDE DEF s, t, v, c, b
<1> QED BY <1>4, <1>7, <1>8, <1>9

\* No number of a connection, nor 0 or the server's, is free.
LEMMA NotFree ==
  ASSUME FInv, NEW c \in Peers
  PROVE  /\ 0 \notin FreeFds(c)
         /\ \A a \in Peers : lookup[c][a] \notin FreeFds(c)
         /\ \A a : \A f \in Find(c, a) : f \notin FreeFds(c)
         /\ client[c] = Client => Client \notin FreeFds(c)
<1>1. 0 \notin FreeFds(c) /\ (client[c] = Client => Client \notin FreeFds(c))
  BY DEF FreeFds
<1>2. ASSUME NEW a \in Peers PROVE lookup[c][a] \notin FreeFds(c)
  <2>1. CASE lookup[c][a] = 0
    BY <2>1, <1>1
  <2>2. CASE lookup[c][a] # 0
    BY <2>2 DEF FInv, KInv, IInv, LinkInv, LookupIsThePeer, FreeFds, EndsOf
  <2> QED BY <2>1, <2>2
<1>3. \A a : \A f \in Find(c, a) : f \notin FreeFds(c)
  BY <1>1, <1>2 DEF Find, Entry
<1> QED BY <1>1, <1>2, <1>3

\* What else there is to know where no connection is made, accepted or closed.
LEMMA QuietRest ==
  ASSUME FInv, UNCHANGED <<owner, fd, backlog, life>>, closed \subseteq closed',
         \A e \in Ends : ending'[e] # "open" <=> ending[e] # "open",
         \A c \in Peers : c \notin closed' /\ life[c] = "on" =>
           /\ client'[c] = client[c]
           /\ client[c] = Client => main'[c].at = main[c].at \/ main'[c].at \notin FreeFds(c)
  PROVE  ShutEnds' /\ BacklogsOpen' /\ \A c \in Peers : AtOwn(c)'
<1>1. ShutEnds'
  BY DEF FInv, WInv, ShutEnds
<1>2. BacklogsOpen'
  <2> SUFFICES ASSUME NEW c \in Peers, NEW i \in DOMAIN backlog[c]
               PROVE  ending'[<<backlog[c][i], 2>>] = "open"
    BY DEF BacklogsOpen
  <2>1. backlog[c] \in Seq(Conns)
    BY DEF FInv, KInv, IInv, StreamsInv, Backlogs
  <2>2. backlog[c][i] \in Conns
    BY <2>1, LenProperties, ElementOfSeq
  <2> QED BY <2>2, ConnEnds DEF FInv, WInv, BacklogsOpen
<1>3. ASSUME NEW c \in Peers PROVE AtOwn(c)'
  <2> SUFFICES ASSUME c \notin closed', life[c] = "on"
               PROVE  client'[c] = Client /\ main'[c].at \notin FreeFds(c)'
    BY DEF AtOwn
  <2>1. client[c] = Client /\ main[c].at \notin FreeFds(c) /\ client'[c] = client[c]
    BY DEF FInv, WInv, AtOwn
  <2>2. FreeFds(c)' = FreeFds(c)
    BY <2>1 DEF FreeFds, EndsOf
  <2> QED BY <2>1, <2>2
<1> QED BY <1>1, <1>2, <1>3

-----------------------------------------------------------------------------
(* The main thread                                                          *)

LEMMA MainQuiet ==
  ASSUME FInv, NEW c \in Peers,
         \/ sendmsg(c) \/ p2p_request(c) \/ file_send(c) \/ file_accept(c)
         \/ file_send_path(c) \/ file_accept_find(c)
  PROVE  /\ main[c].pc # "fields" /\ main'[c].pc # "fields"
         /\ \A b \in Peers : b # c => main'[b] = main[b]
         /\ client[c] = Client => main'[c].at = main[c].at \/ main'[c].at \notin FreeFds(c)
<1>0. \A entry : main' = [main EXCEPT ![c] = entry] =>
        main'[c] = entry /\ \A b \in Peers : b # c => main'[b] = main[b]
  BY DEF FInv, KInv, IInv, MainInv
<1>1. CASE sendmsg(c)
  <2>1. PICK to \in Others(c, "send") : \E f \in Find(c, to) :
          MainGoes(c, "type", IF f # 0 THEN f ELSE Client, Frame("SendMessage", c, to, 0))
    BY <1>1 DEF sendmsg
  <2> QED BY <2>1, <1>0, <1>1, NotFree DEF MainGoes, sendmsg, Typing
<1>2. CASE p2p_request(c)
  BY <1>2, <1>0, NotFree DEF p2p_request, Typing, MainGoes
<1>3. CASE file_send(c)
  <2>1. PICK to \in Others(c, "filesend") : \E f \in Find(c, to) :
          MainGoes(c, "path", f, Frame("FileSendRequest", c, to, Len(offers) + 1))
    BY <1>3 DEF file_send
  <2> QED BY <2>1, <1>0, <1>3, NotFree DEF MainGoes, file_send, Typing
<1>4. CASE file_accept(c)
  <2>1. main[c].pc = "idle" /\ main'[c].pc = "find" /\ main'[c].at = 0
        /\ \A b \in Peers : b # c => main'[b] = main[b]
    BY <1>4, <1>0 DEF file_accept, Typing, MainGoes
  <2> QED BY <2>1, NotFree
<1>5. CASE file_send_path(c)
  <2>1. PICK f \in Second(c) : MainGoes(c, "type", f, main[c].frame)
    BY <1>5 DEF file_send_path
  <2>2. main[c].pc = "path" /\ main[c].frame.to \in Peers
    BY <1>5 DEF file_send_path, FInv, KInv, IInv, MainInv
  <2>3. f = main[c].at \/ f \notin FreeFds(c)
    BY <2>2, NotFree DEF Second
  <2> QED BY <2>1, <2>2, <2>3, <1>0 DEF MainGoes
<1>6. CASE file_accept_find(c)
  <2>1. PICK f \in Find(c, data[c].from) : MainGoes(c, "type", f, main[c].frame)
    BY <1>6 DEF file_accept_find
  <2> QED BY <2>1, <1>0, <1>6, NotFree DEF MainGoes, file_accept_find
<1> QED BY <1>1, <1>2, <1>3, <1>4, <1>5, <1>6

LEMMA MainQuietFlow ==
  ASSUME FInv, NEW c \in Peers,
         \/ sendmsg(c) \/ p2p_request(c) \/ file_send(c) \/ file_accept(c)
         \/ file_send_path(c) \/ file_accept_find(c)
  PROVE  WInv'
<1>1. UNCHANGED <<owner, fd, stream, ending, backlog, client, life, epoll, closed>>
  BY DEF sendmsg, p2p_request, file_send, file_accept, file_send_path, file_accept_find,
         Typing, streamVars, history
<1>2. /\ main[c].pc # "fields" /\ main'[c].pc # "fields"
      /\ \A b \in Peers : b # c => main'[b] = main[b]
      /\ client[c] = Client => main'[c].at = main[c].at \/ main'[c].at \notin FreeFds(c)
  BY MainQuiet
<1>3. ShutEnds' /\ BacklogsOpen' /\ \A b \in Peers : AtOwn(b)'
  BY <1>1, <1>2, QuietRest
<1>4. ASSUME NEW n \in Conns PROVE FlowOK(n)'
  <2>1. \A b \in Peers : \/ SameAt(main[b], main'[b])
                         \/ Off(main[b], fd[<<n, 2>>]) /\ Off(main'[b], fd[<<n, 2>>])
    BY <1>2 DEF SameAt, Off
  <2> QED BY <2>1, <1>1, QuietFlow
<1> QED BY <1>3, <1>4 DEF WInv

\* A write to a connection whose other side is open arrives there.
LEMMA WriteReaches ==
  ASSUME FInv, NEW c \in Peers, NEW f, NEW part \in Parts, Write(c, f, part),
         NEW d \in EndsAt(c, f), fd[Other(d)] # 0
  PROVE  stream'[Other(d)] = Append(stream[Other(d)], part)
<1>1. /\ d \in Ends /\ Other(d) \in Ends /\ owner[d] = c /\ fd[d] = f /\ f # 0
  BY OtherType DEF EndsAt, EndsOf
<1>2. ~AtServer(c, f)
  BY <1>1 DEF AtServer, FInv, KInv, IInv, StreamsInv, OwnFds
<1>3. \A x \in EndsAt(c, f) : x = d
  BY <1>1 DEF EndsAt, EndsOf, FInv, KInv, IInv, StreamsInv, OneEach
<1>4. WriteEnd(d, part)
  BY <1>1, <1>2, <1>3 DEF Write
<1>5. ending[Other(d)] = "open"
  BY <1>1 DEF FInv, WInv, ShutEnds
<1> DEFINE o == Other(d)
<1>6. stream' = [stream EXCEPT ![o] = Append(@, part)]
  BY <1>4, <1>5 DEF WriteEnd
<1>7. o \in DOMAIN stream
  BY <1>1 DEF FInv, KInv, IInv, StreamsInv
<1> HIDE DEF o
<1>8. stream'[o] = Append(stream[o], part)
  BY <1>6, <1>7
<1> QED BY <1>8 DEF o

\* The main thread writes one of the two parts of its frame.
LEMMA SendFlow ==
  ASSUME FInv, NEW a \in Peers, NEW part \in Parts, NEW entry,
         Write(a, main[a].at, part), main' = [main EXCEPT ![a] = entry],
         part.frame.type = main[a].frame.type,
         \/ /\ main[a].pc = "type" /\ part.part = "type"
            /\ entry.pc = "fields" /\ entry.at = main[a].at
            /\ entry.frame.type = main[a].frame.type
         \/ /\ main[a].pc = "fields" /\ part.part = "fields" /\ entry.pc # "fields"
            /\ entry.at = 0,
         UNCHANGED <<life, epoll, closed>>
  PROVE  WInv'
<1> DEFINE f == main[a].at
<1>1. /\ UNCHANGED <<owner, fd, backlog, client>>
      /\ \A e \in Ends : ending'[e] # "open" <=> ending[e] # "open"
      /\ \A e \in Ends : stream'[e] # stream[e] =>
           stream'[e] = Append(stream[e], part) /\ Other(e) \in EndsAt(a, f)
  BY WriteAppends DEF Write, FInv, KInv
<1>2. main'[a] = entry /\ \A b \in Peers : b # a => main'[b] = main[b]
  BY DEF FInv, KInv, IInv, MainInv
<1>3. ShutEnds' /\ BacklogsOpen' /\ \A b \in Peers : AtOwn(b)'
  BY <1>1, <1>2, NotFree, QuietRest
<1>4. ASSUME NEW n \in Conns PROVE FlowOK(n)'
  <2> DEFINE e == <<n, 1>>  o == <<n, 2>>
  <2>1. e \in Ends /\ o \in Ends /\ Other(e) = o /\ Other(o) = e
    BY ConnEnds
  <2>2. CASE fd[e] = 0
    BY <2>2, <1>1 DEF FlowOK
  <2>3. CASE fd[e] # 0 /\ o \notin EndsAt(a, f)
    <3>1. stream'[e] = stream[e]
      BY <2>1, <2>3, <1>1
    <3>2. owner[o] = a /\ fd[o] # 0 => f # fd[o]
      BY <2>1, <2>3 DEF EndsAt, EndsOf
    <3>3. \A b \in Peers : owner[o] = b /\ fd[o] # 0 =>
            \/ SameAt(main[b], main'[b])
            \/ Off(main[b], fd[o]) /\ Off(main'[b], fd[o])
      BY <3>2, <1>2 DEF SameAt, Off
    <3> QED BY <2>1, <3>1, <3>3, <1>1, QuietFlow
  <2>4. CASE fd[e] # 0 /\ o \in EndsAt(a, f)
    <3> DEFINE c == owner[e]  s == stream[e]  t == epoll[c].frame.type  r == TypeIsRead(n)
    <3>1. stream'[e] = Append(s, part)
      BY <2>1, <2>4, WriteReaches
    <3>2. owner[o] = a /\ fd[o] = f /\ fd[o] # 0
      BY <2>4 DEF EndsAt, EndsOf
    <3> SUFFICES ASSUME a \notin closed
                 PROVE  /\ ~(epoll[c].pc = "astray" /\ epoll[c].end = e)
                        /\ Whole(stream'[e], TypeIsRead(n)', t)
                        /\ TypeIsWritten(n)' <=> Half(stream'[e], TypeIsRead(n)')
                        /\ TypeIsWritten(n)' => entry.frame.type = HalfType(stream'[e], t)
      BY <1>1, <1>2, <3>2 DEF FlowOK, Astray
    <3>3. /\ ~(epoll[c].pc = "astray" /\ epoll[c].end = e)
          /\ Whole(s, r, t)
          /\ TypeIsWritten(n) <=> Half(s, r)
          /\ TypeIsWritten(n) => main[a].frame.type = HalfType(s, t)
      BY <2>4, <3>2 DEF FlowOK, FInv, WInv, Astray
    <3>4. r \in BOOLEAN /\ TypeIsRead(n)' = r
      BY <1>1 DEF TypeIsRead
    <3>5. /\ TypeIsWritten(n) <=> main[a].pc = "fields"
          /\ TypeIsWritten(n)' <=> entry.pc = "fields" /\ entry.at = f
      BY <3>2, <1>1, <1>2 DEF TypeIsWritten
    <3>6. s \in Seq(Parts)
      BY <2>1, EndStream DEF FInv, KInv
    <3>7. part.part = IF Half(s, r) THEN "fields" ELSE "type"
      BY <3>3, <3>5
    <3>8. Half(s, r) => part.frame.type = HalfType(s, t)
      BY <3>3
    <3> HIDE DEF s, t, r
    <3>9. /\ Whole(Append(s, part), r, t)
          /\ Half(Append(s, part), r) = ~Half(s, r)
          /\ HalfType(Append(s, part), t) = part.frame.type
      BY <3>3, <3>4, <3>6, <3>7, <3>8, WholeGrows
    <3>10. Whole(stream'[e], TypeIsRead(n)', t)
      BY <3>1, <3>4, <3>9
    <3>11. /\ Half(stream'[e], TypeIsRead(n)') <=> ~Half(s, r)
           /\ HalfType(stream'[e], t) = part.frame.type
      BY <3>1, <3>4, <3>9
    <3> QED BY <3>3, <3>5, <3>10, <3>11
  <2> QED BY <2>2, <2>3, <2>4
<1> QED BY <1>3, <1>4 DEF WInv

LEMMA SendsFlow ==
  ASSUME FInv, NEW c \in Peers, send_type(c) \/ send_fields(c)
  PROVE  WInv'
<1>1. CASE send_type(c)
  <2> DEFINE part == Type(main[c].frame)
             entry == [pc |-> "fields", at |-> main[c].at, frame |-> main[c].frame]
  <2>1. /\ main[c].pc = "type" /\ Write(c, main[c].at, part)
        /\ main' = [main EXCEPT ![c] = entry] /\ UNCHANGED <<life, epoll, closed>>
    BY <1>1 DEF send_type, MainGoes, history
  <2>2. main[c].frame \in RealFrames
    BY DEF FInv, KInv, IInv, MainInv, MainFrames, ServerFrames
  <2>3. part \in Parts /\ part.part = "type" /\ part.frame.type = main[c].frame.type
    BY <2>2, TypePart, BlankType DEF Type, Blank, Frame
  <2>4. /\ entry.pc = "fields" /\ entry.at = main[c].at
        /\ entry.frame.type = main[c].frame.type
    OBVIOUS
  <2> HIDE DEF part, entry
  <2> QED BY <2>1, <2>3, <2>4, SendFlow
<1>2. CASE send_fields(c)
  <2> DEFINE part == Fields(SentFrame(c))
  <2>1. /\ main[c].pc = "fields" /\ Write(c, main[c].at, part)
        /\ main' = [main EXCEPT ![c] = Idle] /\ UNCHANGED <<life, epoll, closed>>
        /\ Idle.pc = "idle" /\ Idle.at = 0
    BY <1>2 DEF send_fields, history, Idle
  <2>2. SentFrame(c) \in RealFrames
    BY SentFrameType DEF FInv, KInv, MainFrames, ServerFrames
  <2>3. SentFrame(c).type = main[c].frame.type
    BY DEF SentFrame, FInv, KInv, IInv, MainInv, MainFrames, ServerFrames, RealFrames, Frames
  <2>4. part \in Parts /\ part.part = "fields" /\ part.frame.type = main[c].frame.type
    BY <2>2, <2>3, FieldsPart DEF Fields
  <2> HIDE DEF part
  <2> QED BY <2>1, <2>4, SendFlow
<1> QED BY <1>1, <1>2

-----------------------------------------------------------------------------
(* The epoll thread                                                         *)

\* It goes from one place to another, and reads at neither.
LEMMA EpollQuietFlow ==
  ASSUME FInv, NEW c \in Peers, NEW entry, epoll' = [epoll EXCEPT ![c] = entry],
         epoll[c].pc \notin {"fields", "astray"}, entry.pc \notin {"fields", "astray"},
         UNCHANGED <<owner, fd, backlog, client, life, closed>>,
         \A e \in Ends : ending'[e] # "open" <=> ending[e] # "open",
         \A n \in Conns : stream'[<<n, 1>>] = stream[<<n, 1>>],
         \A b \in Peers : SameAt(main[b], main'[b])
  PROVE  WInv'
<1>1. ShutEnds' /\ BacklogsOpen' /\ \A b \in Peers : AtOwn(b)'
  BY QuietRest DEF SameAt
<1>2. \A b \in Peers : epoll'[b] = IF b = c THEN entry ELSE epoll[b]
  BY DEF FInv, KInv, IInv, EpollInv
<1>3. ASSUME NEW n \in Conns PROVE FlowOK(n)'
  <2>1. \A b \in Peers :
          \/ epoll'[b] = epoll[b]
          \/ Away(epoll[b], <<n, 1>>) /\ Away(epoll'[b], <<n, 1>>)
    BY <1>2 DEF Away
  <2>2. ending'[<<n, 2>>] = "open" => ending[<<n, 2>>] = "open"
    BY ConnEnds
  <2> QED BY <2>1, <2>2, QuietFlow
<1> QED BY <1>1, <1>3 DEF WInv

\* The main thread keeps its place when it is touched.
LEMMA TouchedAt ==
  ASSUME FInv, NEW c \in Peers, Touched(c)
  PROVE  \A b \in Peers : SameAt(main[b], main'[b])
BY DEF Touched, SameAt, FInv, KInv, IInv, MainInv, MainFrames, ServerFrames, RealFrames, Frames

LEMMA SameMain ==
  ASSUME UNCHANGED main
  PROVE  \A b \in Peers : SameAt(main[b], main'[b])
BY DEF SameAt

\* A part is taken from the end of c that is read, of a type or of the fields
\* that go with it.
LEMMA TakeFlow ==
  ASSUME FInv, NEW a \in Peers, NEW e \in Ends, owner[e] = a, fd[e] # 0, stream[e] # <<>>,
         TakePart(e), NEW entry, epoll' = [epoll EXCEPT ![a] = entry],
         epoll[a].pc = "wait" \/ (epoll[a].pc = "fields" /\ epoll[a].end = e),
         entry.pc \in {"fields", "astray"} => entry.end = e,
         /\ Head(stream[e]).part = IF epoll[a].pc = "fields" THEN "fields" ELSE "type"
         /\ epoll[a].pc = "fields" => Head(stream[e]).frame.type = epoll[a].frame.type
         => /\ entry.pc # "astray"
            /\ entry.pc = "fields" <=> epoll[a].pc = "wait"
            /\ entry.pc = "fields" => entry.frame.type = Head(stream[e]).frame.type,
         UNCHANGED <<owner, fd, ending, backlog, client, life, closed, main>>
  PROVE  WInv'
<1>1. ShutEnds' /\ BacklogsOpen' /\ \A b \in Peers : AtOwn(b)'
  BY QuietRest
<1>2. \A b \in Peers : epoll'[b] = IF b = a THEN entry ELSE epoll[b]
  BY DEF FInv, KInv, IInv, EpollInv
<1>3. \A d \in Ends : stream'[d] = IF d = e THEN Tail(stream[e]) ELSE stream[d]
  BY DEF TakePart, FInv, KInv, IInv, StreamsInv
<1>4. ASSUME NEW n \in Conns PROVE FlowOK(n)'
  <2>1. <<n, 1>> \in Ends
    BY ConnEnds
  <2>2. CASE e # <<n, 1>>
    <3>1. \A b \in Peers :
            \/ epoll'[b] = epoll[b]
            \/ Away(epoll[b], <<n, 1>>) /\ Away(epoll'[b], <<n, 1>>)
      BY <2>2, <1>2 DEF Away
    <3>2. \A b \in Peers : SameAt(main[b], main'[b])
      BY SameMain
    <3> QED BY <2>1, <2>2, <3>1, <3>2, <1>3, QuietFlow
  <2>3. CASE e = <<n, 1>>
    <3> DEFINE o == <<n, 2>>  b == owner[o]  s == stream[e]  t == epoll[a].frame.type
               r == TypeIsRead(n)
    <3> SUFFICES ASSUME b \notin closed
                 PROVE  /\ ~(entry.pc = "astray" /\ entry.end = e)
                        /\ Whole(stream'[e], TypeIsRead(n)', entry.frame.type)
                        /\ IF fd[o] = 0
                           THEN ending[o] = "open" => stream'[e] = <<>> /\ ~TypeIsRead(n)'
                           ELSE /\ TypeIsWritten(n)' <=> Half(stream'[e], TypeIsRead(n)')
                                /\ TypeIsWritten(n)' =>
                                     main[b].frame.type = HalfType(stream'[e], entry.frame.type)
      BY <2>3, <1>2 DEF FlowOK, Astray
    <3>1. /\ Whole(s, r, t)
          /\ IF fd[o] = 0 THEN ending[o] = "open" => s = <<>> /\ ~r
             ELSE /\ TypeIsWritten(n) <=> Half(s, r)
                  /\ TypeIsWritten(n) => main[b].frame.type = HalfType(s, t)
      BY <2>3 DEF FlowOK, FInv, WInv
    <3>2. r <=> epoll[a].pc = "fields"
      BY <2>3 DEF TypeIsRead
    <3>3. r \in BOOLEAN /\ (TypeIsWritten(n)' <=> TypeIsWritten(n))
      BY DEF TypeIsRead, TypeIsWritten
    <3>4. s \in Seq(Parts)
      BY EndStream DEF FInv, KInv
    <3>5. TypeIsRead(n)' <=> entry.pc = "fields" /\ entry.end = e
      BY <2>3, <1>2 DEF TypeIsRead
    <3>6. stream'[e] = Tail(s)
      BY <1>3
    <3>11. s # <<>>
      OBVIOUS
    <3> HIDE DEF r, s, t
    <3>7. /\ Head(s).part = IF r THEN "fields" ELSE "type"
          /\ r => Head(s).frame.type = t
      BY <3>1, <3>3, <3>4, <3>11, WholeHead
    <3>8. /\ entry.pc # "astray"
          /\ entry.pc = "fields" <=> ~r
          /\ entry.pc = "fields" => entry.frame.type = Head(s).frame.type
      BY <3>2, <3>7 DEF s, t
    <3> DEFINE q == TypeIsRead(n)'
    <3>10. q \in BOOLEAN /\ q # r
      BY <3>3, <3>5, <3>8 DEF TypeIsRead
    <3> HIDE DEF q
    <3>9. /\ Whole(Tail(s), q, entry.frame.type)
          /\ Half(Tail(s), q) = Half(s, r)
          /\ Half(s, r) => HalfType(Tail(s), entry.frame.type) = HalfType(s, t)
      <4>1. CASE r = TRUE
        <5>1. Whole(s, TRUE, t)
          BY <3>1, <4>1
        <5>2. /\ Whole(Tail(s), FALSE, entry.frame.type)
              /\ Half(Tail(s), FALSE) = Half(s, TRUE)
              /\ Half(s, TRUE) => HalfType(Tail(s), entry.frame.type) = HalfType(s, t)
          BY <5>1, <3>4, <3>11, TakenFields
        <5>3. q = FALSE
          BY <3>10, <4>1
        <5> QED BY <5>2, <5>3, <4>1
      <4>2. CASE r = FALSE
        <5>1. Whole(s, FALSE, t) /\ entry.frame.type = Head(s).frame.type
          BY <3>1, <3>8, <4>2
        <5>2. /\ Whole(Tail(s), TRUE, Head(s).frame.type)
              /\ Half(Tail(s), TRUE) = Half(s, FALSE)
              /\ Half(s, FALSE) => HalfType(Tail(s), Head(s).frame.type) = HalfType(s, t)
          BY <5>1, <3>4, <3>11, TakenType
        <5>3. q = TRUE
          BY <3>10, <4>2
        <5> QED BY <5>1, <5>2, <5>3, <4>2
      <4> QED BY <4>1, <4>2, <3>3
    <3>12. Whole(stream'[e], TypeIsRead(n)', entry.frame.type)
      BY <3>6, <3>9 DEF q
    <3>13. /\ Half(stream'[e], TypeIsRead(n)') <=> Half(s, r)
           /\ Half(s, r) => HalfType(stream'[e], entry.frame.type) = HalfType(s, t)
      BY <3>6, <3>9 DEF q
    <3> QED BY <3>1, <3>3, <3>8, <3>11, <3>12, <3>13
  <2> QED BY <2>2, <2>3
<1> QED BY <1>1, <1>4 DEF WInv

LEMMA EndedFields ==
  ASSUME FInv, NEW a \in Peers, NEW entry, epoll[a].pc = "fields", AtEof(epoll[a].end),
         epoll' = [epoll EXCEPT ![a] = entry], entry.pc \notin {"fields", "astray"},
         UNCHANGED <<owner, fd, stream, ending, backlog, client, life, closed, main>>
  PROVE  WInv'
<1> DEFINE e == epoll[a].end
<1>1. ShutEnds' /\ BacklogsOpen' /\ \A b \in Peers : AtOwn(b)'
  BY QuietRest
<1>2. \A b \in Peers : epoll'[b] = IF b = a THEN entry ELSE epoll[b]
  BY DEF FInv, KInv, IInv, EpollInv
<1>3. e \in Ends /\ Other(e) \in Ends /\ stream[e] = <<>> /\ ending[Other(e)] # "open"
  BY OtherType DEF AtEof, FInv, KInv, IInv, EpollInv
<1>4. fd[Other(e)] = 0
  BY <1>3 DEF FInv, WInv, ShutEnds
<1>5. ASSUME NEW n \in Conns PROVE FlowOK(n)'
  <2>1. CASE e # <<n, 1>>
    <3>1. \A b \in Peers :
            \/ epoll'[b] = epoll[b]
            \/ Away(epoll[b], <<n, 1>>) /\ Away(epoll'[b], <<n, 1>>)
      BY <2>1, <1>2 DEF Away
    <3>2. \A b \in Peers : SameAt(main[b], main'[b])
      BY SameMain
    <3> QED BY <3>1, <3>2, QuietFlow
  <2>2. CASE e = <<n, 1>>
    <3>1. Other(e) = <<n, 2>> /\ owner[e] = a
      BY <2>2, ConnEnds DEF FInv, KInv, IInv, LinkInv, EndInv
    <3>2. Whole(<<>>, TypeIsRead(n)', entry.frame.type)
      BY EmptyWhole DEF TypeIsRead
    <3> QED BY <2>2, <3>1, <3>2, <1>2, <1>3, <1>4 DEF FlowOK, Astray
  <2> QED BY <2>1, <2>2
<1> QED BY <1>1, <1>5 DEF WInv

LEMMA GetTypeFlow ==
  ASSUME FInv, NEW c \in Peers, get_type(c), ~Exit(c, "exited")
  PROVE  WInv'
<1>1. PICK e \in EndsOf(c) :
        \/ /\ Readable(e)
           /\ LET p == Head(stream[e])
              IN EpollGoes(c, IF p.part = "type" THEN "fields" ELSE "astray", e, Blank(p.frame.type))
           /\ TakePart(e)
           /\ UNCHANGED <<owner, fd, ending, backlog, client, inbox, up>> /\ NothingElse
        \/ /\ AtEof(e)
           /\ EpollGoes(c, "erase", e, Blank("OpStatus"))
           /\ UNCHANGED streamVars /\ NothingElse
  BY DEF get_type
<1>2. e \in Ends /\ owner[e] = c /\ epoll[c].pc = "wait"
  BY DEF EndsOf, get_type, Waiting
<1>3. CASE /\ Readable(e)
           /\ LET p == Head(stream[e])
              IN EpollGoes(c, IF p.part = "type" THEN "fields" ELSE "astray", e, Blank(p.frame.type))
           /\ TakePart(e)
           /\ UNCHANGED <<owner, fd, ending, backlog, client, inbox, up>> /\ NothingElse
  <2> DEFINE p == Head(stream[e])
             entry == [pc |-> IF p.part = "type" THEN "fields" ELSE "astray", end |-> e,
                       frame |-> Blank(p.frame.type)]
  <2>1. /\ fd[e] # 0 /\ stream[e] # <<>> /\ TakePart(e) /\ epoll' = [epoll EXCEPT ![c] = entry]
        /\ UNCHANGED <<owner, fd, ending, backlog, client, life, closed, main>>
    BY <1>3 DEF Readable, Open, EpollGoes, NothingElse, history
  <2>2. /\ entry.end = e /\ entry.pc = IF p.part = "type" THEN "fields" ELSE "astray"
        /\ entry.frame.type = p.frame.type
    BY DEF Blank, Frame
  <2> HIDE DEF entry
  <2> QED BY <1>2, <2>1, <2>2, TakeFlow
<1>4. CASE /\ AtEof(e)
           /\ EpollGoes(c, "erase", e, Blank("OpStatus"))
           /\ UNCHANGED streamVars /\ NothingElse
  <2> DEFINE entry == [pc |-> "erase", end |-> e, frame |-> Blank("OpStatus")]
  <2>1. /\ epoll' = [epoll EXCEPT ![c] = entry] /\ entry.pc = "erase"
        /\ UNCHANGED <<owner, fd, stream, ending, backlog, client, life, closed, main>>
    BY <1>4 DEF EpollGoes, streamVars, NothingElse, history
  <2> HIDE DEF entry
  <2> QED BY <1>2, <2>1, SameMain, EpollQuietFlow
<1> QED BY <1>1, <1>3, <1>4

LEMMA ReadFlow ==
  ASSUME FInv, NEW c \in Peers, NEW entry,
         epoll[c].pc = "fields", Fits(c) \/ AtEof(epoll[c].end),
         IF Fits(c) THEN TakePart(epoll[c].end) ELSE UNCHANGED stream,
         entry.pc \in {"wait", "offer"}, epoll' = [epoll EXCEPT ![c] = entry],
         UNCHANGED <<owner, fd, ending, backlog, client, life, closed, main>>
  PROVE  WInv'
<1>1. CASE Fits(c)
  <2> DEFINE e == epoll[c].end
  <2>1. e \in Ends /\ owner[e] = c /\ fd[e] # 0 /\ stream[e] # <<>> /\ TakePart(e)
    BY <1>1 DEF Fits, Readable, FInv, KInv, IInv, EpollInv, LinkInv, EndInv
  <2>2. epoll[c].end = e
    OBVIOUS
  <2> HIDE DEF e
  <2> QED BY <2>1, <2>2, TakeFlow
<1>2. CASE ~Fits(c)
  BY <1>2, EndedFields
<1> QED BY <1>1, <1>2

LEMMA HandlersFlow ==
  ASSUME FInv, NEW c \in Peers,
         \/ SendMessage_action(c) \/ P2PLogin_action(c)
         \/ FileSendRequest_action(c) \/ FileSendAccept_action(c)
  PROVE  WInv'
<1> DEFINE entry == IF FileSendRequest_action(c)
                    THEN [pc |-> "offer", end |-> epoll[c].end, frame |-> raw(c)] ELSE Wait
<1>1. /\ epoll[c].pc = "fields" /\ (Fits(c) \/ AtEof(epoll[c].end))
      /\ IF Fits(c) THEN TakePart(epoll[c].end) ELSE UNCHANGED stream
      /\ UNCHANGED <<owner, fd, ending, backlog, client, life, closed, main>>
  BY DEF SendMessage_action, P2PLogin_action, FileSendRequest_action, FileSendAccept_action,
         read_data, Reading, NothingElse, history
<1>2. entry.pc \in {"wait", "offer"} /\ epoll' = [epoll EXCEPT ![c] = entry]
  BY DEF SendMessage_action, P2PLogin_action, FileSendRequest_action, FileSendAccept_action,
         EpollGoes, EpollWaits, Wait
<1> HIDE DEF entry
<1> QED BY <1>1, <1>2, ReadFlow

\* What is read at the side that has connected fits.
LEMMA AstrayFlow ==
  ASSUME FInv, NEW c \in Peers, ReadsAstray(c)
  PROVE  WInv'
<1> DEFINE e == epoll[c].end
           entry == [pc |-> "astray", end |-> e, frame |-> Blank("OpStatus")]
<1>1. /\ epoll[c].pc = "fields" /\ e \in Ends /\ owner[e] = c /\ fd[e] # 0
      /\ stream[e] # <<>> /\ TakePart(e) /\ epoll' = [epoll EXCEPT ![c] = entry]
      /\ UNCHANGED <<owner, fd, ending, backlog, client, life, closed, main>>
  BY DEF ReadsAstray, Readable, EpollGoes, NothingElse, history, FInv, KInv, IInv, EpollInv,
         LinkInv, EndInv
<1>2. ~(Head(stream[e]).part = "fields" /\ Head(stream[e]).frame.type = epoll[c].frame.type)
  BY DEF ReadsAstray, Fits, Comes
<1>3. epoll[c].end = e /\ entry.end = e
  OBVIOUS
<1> HIDE DEF e, entry
<1> QED BY <1>1, <1>2, <1>3, TakeFlow

LEMMA CopiedFlow ==
  ASSUME FInv, NEW c \in Peers, FileSendRequest_names(c) \/ FileSendRequest_file(c)
  PROVE  WInv'
<1> DEFINE entry == IF epoll[c].pc = "offer"
                    THEN [pc |-> "file", end |-> epoll[c].end, frame |-> epoll[c].frame] ELSE Wait
<1>1. /\ epoll[c].pc \in {"offer", "file"} /\ epoll' = [epoll EXCEPT ![c] = entry]
      /\ entry.pc \in {"file", "wait"} /\ Touched(c)
      /\ UNCHANGED <<owner, fd, stream, ending, backlog, client, life, closed>>
  BY DEF FileSendRequest_names, FileSendRequest_file, EpollGoes, EpollWaits, streamVars, history,
         Wait
<1> HIDE DEF entry
<1> QED BY <1>1, TouchedAt, EpollQuietFlow

LEMMA GreetingFlow ==
  ASSUME FInv, NEW c \in Peers, login_type(c) \/ login_fields(c)
  PROVE  WInv'
<1> DEFINE f == fd[epoll[c].end]
           part == IF login_type(c) THEN Type(Login(c)) ELSE Fields(Login(c))
           entry == IF login_type(c)
                    THEN [pc |-> "loginfields", end |-> epoll[c].end, frame |-> epoll[c].frame]
                    ELSE Wait
<1>1. /\ epoll[c].pc \in {"login", "loginfields"} /\ Write(c, f, part)
      /\ epoll' = [epoll EXCEPT ![c] = entry] /\ entry.pc \in {"loginfields", "wait"}
      /\ UNCHANGED <<life, closed, main>>
  BY DEF login_type, login_fields, EpollGoes, EpollWaits, NothingElse, history, Wait
<1>2. part \in Parts
  BY LoginType, TypePart, FieldsPart
<1>3. EndsAt(c, f) = {epoll[c].end} /\ epoll[c].end[2] = 1
  BY <1>1, GreetsOne DEF FInv
<1> HIDE DEF f, part, entry
<1>4. /\ UNCHANGED <<owner, fd, backlog, client>>
      /\ \A e \in Ends : ending'[e] # "open" <=> ending[e] # "open"
      /\ \A e \in Ends : stream'[e] # stream[e] => Other(e) \in EndsAt(c, f)
  BY <1>1, <1>2, WriteAppends DEF Write, FInv, KInv
<1>5. ASSUME NEW n \in Conns PROVE stream'[<<n, 1>>] = stream[<<n, 1>>]
  <2>1. <<n, 1>> \in Ends /\ Other(<<n, 1>>) = <<n, 2>>
    BY ConnEnds
  <2>2. <<n, 2>>[2] = 2
    OBVIOUS
  <2> QED BY <2>1, <2>2, <1>3, <1>4
<1> QED BY <1>1, <1>4, <1>5, SameMain, EpollQuietFlow

LEMMA LinkedFlow ==
  ASSUME FInv, NEW c \in Peers, P2PRequest_link(c)
  PROVE  WInv'
<1> DEFINE entry == [pc |-> "login", end |-> epoll[c].end, frame |-> epoll[c].frame]
<1>1. /\ epoll[c].pc = "link" /\ epoll' = [epoll EXCEPT ![c] = entry] /\ entry.pc = "login"
      /\ UNCHANGED <<owner, fd, stream, ending, backlog, client, life, closed, main>>
  BY DEF P2PRequest_link, EpollGoes, streamVars, history
<1> HIDE DEF entry
<1> QED BY <1>1, SameMain, EpollQuietFlow

-----------------------------------------------------------------------------
(* Connections that begin and end                                           *)

\* A connection that is accepted is new to the main thread, which may be
\* writing to another: the number it has found is not free.
LEMMA IncomingFlow ==
  ASSUME FInv, NEW c \in Peers, Incoming(c)
  PROVE  WInv'
<1> DEFINE f == LowestFree(c)  m == Head(backlog[c])
<1>1. /\ fd' = [fd EXCEPT ![<<m, 2>>] = f] /\ backlog' = [backlog EXCEPT ![c] = Tail(@)]
      /\ backlog[c] # <<>> /\ FreeFds(c) # {} /\ life[c] = "on"
      /\ UNCHANGED <<owner, stream, ending, client, life, epoll, main, closed>>
  BY DEF Incoming, Waiting, Accept, clientVars, history
<1>2. f \in FreeFds(c) /\ f # 0
  BY <1>1, LowestType, LowestIsFree
<1>3. /\ m \in Conns /\ owner[<<m, 2>>] = c /\ fd[<<m, 2>>] = 0 /\ ending[<<m, 2>>] = "open"
      /\ \A i \in DOMAIN Tail(backlog[c]) :
           i + 1 \in DOMAIN backlog[c] /\ Tail(backlog[c])[i] = backlog[c][i + 1]
  <2>1. /\ backlog[c] \in Seq(Conns)
        /\ \A i \in 1 .. Len(backlog[c]) :
             owner[<<backlog[c][i], 2>>] = c /\ fd[<<backlog[c][i], 2>>] = 0
    BY DEF FInv, KInv, IInv, StreamsInv, Backlogs
  <2>2. /\ m = backlog[c][1] /\ m \in Conns /\ 1 \in DOMAIN backlog[c]
        /\ \A i \in DOMAIN Tail(backlog[c]) :
             i + 1 \in DOMAIN backlog[c] /\ Tail(backlog[c])[i] = backlog[c][i + 1]
    BY <1>1, <2>1, Shortened
  <2>3. DOMAIN backlog[c] = 1 .. Len(backlog[c])
    BY <2>1, LenProperties
  <2> QED BY <2>1, <2>2, <2>3 DEF FInv, WInv, BacklogsOpen
<1> HIDE DEF f, m
<1>4. <<m, 2>> \in Ends
  BY <1>3, ConnEnds
<1>5. \A e \in Ends : fd'[e] = IF e = <<m, 2>> THEN f ELSE fd[e]
  BY <1>1 DEF FInv, KInv, IInv, StreamsInv
<1>6. \A b \in Peers : backlog'[b] = IF b = c THEN Tail(backlog[c]) ELSE backlog[b]
  BY <1>1 DEF FInv, KInv, IInv, StreamsInv
<1>7. ShutEnds'
  BY <1>1, <1>3, <1>5 DEF FInv, WInv, ShutEnds
<1>8. BacklogsOpen'
  <2> SUFFICES ASSUME NEW b \in Peers, NEW i \in DOMAIN backlog'[b]
               PROVE  ending[<<backlog'[b][i], 2>>] = "open"
    BY <1>1 DEF BacklogsOpen
  <2>1. CASE b # c
    BY <2>1, <1>6 DEF FInv, WInv, BacklogsOpen
  <2>2. CASE b = c
    <3>1. i + 1 \in DOMAIN backlog[c] /\ backlog'[b][i] = backlog[c][i + 1]
      BY <2>2, <1>3, <1>6
    <3> QED BY <3>1 DEF FInv, WInv, BacklogsOpen
  <2> QED BY <2>1, <2>2
<1>9. ASSUME NEW b \in Peers PROVE AtOwn(b)'
  <2>1. FreeFds(b)' \subseteq FreeFds(b)
    <3> SUFFICES ASSUME NEW x \in FreeFds(b)' PROVE x \in FreeFds(b)
      OBVIOUS
    <3>1. /\ x \in 1 .. MaxFd /\ x # client[b]
          /\ \A e \in Ends : owner[e] = b => fd'[e] # x
      BY <1>1 DEF FreeFds, EndsOf
    <3>2. \A e \in Ends : owner[e] = b => fd[e] # x
      BY <3>1, <1>3, <1>4, <1>5
    <3> QED BY <3>1, <3>2 DEF FreeFds, EndsOf
  <2> QED BY <2>1, <1>1 DEF FInv, WInv, AtOwn
<1>10. ASSUME NEW n \in Conns PROVE FlowOK(n)'
  <2> DEFINE e == <<n, 1>>  o == <<n, 2>>
  <2>1. e \in Ends /\ o \in Ends /\ e # <<m, 2>>
    BY ConnEnds
  <2>2. fd'[e] = fd[e]
    BY <2>1, <1>5
  <2>3. CASE n # m
    <3>1. fd'[o] = fd[o]
      BY <2>1, <2>3, <1>5
    <3>2. \A b \in Peers : SameAt(main[b], main'[b])
      BY <1>1, SameMain
    <3> QED BY <2>2, <3>1, <3>2, <1>1, QuietFlow
  <2>4. CASE n = m
    <3>1. o = <<m, 2>> /\ fd[o] = 0 /\ ending[o] = "open" /\ owner[o] = c /\ fd'[o] = f
      BY <2>1, <2>4, <1>3, <1>5
    <3> SUFFICES ASSUME fd[e] # 0, c \notin closed PROVE FlowOK(n)'
      BY <2>2, <3>1, <1>1 DEF FlowOK
    <3>2. /\ ~(Astray(owner[e]) /\ epoll[owner[e]].end = e)
          /\ Whole(stream[e], TypeIsRead(n), epoll[owner[e]].frame.type)
          /\ stream[e] = <<>> /\ ~TypeIsRead(n)
      BY <3>1 DEF FlowOK, FInv, WInv
    <3>3. main[c].at # f
      BY <1>1, <1>2 DEF FInv, WInv, AtOwn
    <3>4. ~TypeIsWritten(n)' /\ (TypeIsRead(n)' <=> TypeIsRead(n))
      BY <3>1, <3>3, <1>1 DEF TypeIsWritten, TypeIsRead
    <3>5. Astray(owner[e])' <=> Astray(owner[e])
      BY <1>1 DEF Astray
    <3>6. Whole(<<>>, TypeIsRead(n)', epoll[owner[e]].frame.type)
      BY EmptyWhole DEF TypeIsRead
    <3>7. ~Half(<<>>, TypeIsRead(n)')
      BY <3>2, <3>4, EmptyWhole DEF Half
    <3> QED BY <3>1, <3>2, <3>4, <3>5, <3>6, <3>7, <1>1, <1>2 DEF FlowOK
  <2> QED BY <2>3, <2>4
<1> QED BY <1>7, <1>8, <1>9, <1>10 DEF WInv

\* Nothing has been written to a new connection.
LEMMA ConnectFlow ==
  ASSUME FInv, NEW c \in Peers, P2PRequest(c), ~Exit(c, "exited")
  PROVE  WInv'
<1> DEFINE q == Head(inbox[c])  m == q.num  to == q.from  f == LowestFree(c)
           entry == [pc |-> "link", end |-> <<m, 1>>, frame |-> q]
<1>1. /\ inbox[c] # <<>> /\ q.type = "P2PRequest" /\ epoll[c].pc = "wait"
      /\ owner[<<m, 1>>] = Nobody /\ FreeFds(c) # {}
      /\ owner' = [owner EXCEPT ![<<m, 1>>] = c, ![<<m, 2>>] = to]
      /\ fd' = [fd EXCEPT ![<<m, 1>>] = f]
      /\ backlog' = [backlog EXCEPT ![to] = Append(@, m)]
      /\ epoll' = [epoll EXCEPT ![c] = entry]
      /\ UNCHANGED <<stream, ending, client, life, main, closed>>
  BY DEF P2PRequest, FromServer, Waiting, Connect, EpollGoes, NothingElse, history
<1>2. to \in Peers /\ m \in Conns
  <2>1. q \in ServerFrames
    BY <1>1, HeadTailProperties DEF FInv, KInv, IInv, StreamsInv
  <2> QED BY <2>1, <1>1 DEF ServerFrames
<1>3. entry.pc = "link"
  OBVIOUS
<1> HIDE DEF q, m, to, f, entry
<1>4. <<m, 1>> \in Ends /\ <<m, 2>> \in Ends /\ Other(<<m, 1>>) = <<m, 2>>
  BY <1>2, ConnEnds
<1>5. /\ owner[<<m, 2>>] = Nobody /\ stream[<<m, 1>>] = <<>>
      /\ ending[<<m, 1>>] = "open" /\ ending[<<m, 2>>] = "open" /\ fd[<<m, 2>>] = 0
  <2>1. owner[<<m, 2>>] = Nobody /\ stream[<<m, 1>>] = <<>>
    BY <1>1, <1>4 DEF FInv, KInv, IInv, StreamsInv, Paired
  <2> QED BY <2>1, <1>1, <1>2, <1>4, NobodyIsNoPeer
          DEF FInv, KInv, UInv, ClosedByEnd, IInv, StreamsInv, OwnFds
<1>6. \A e \in Ends :
        /\ owner'[e] = IF e = <<m, 1>> THEN c ELSE IF e = <<m, 2>> THEN to ELSE owner[e]
        /\ fd'[e] = IF e = <<m, 1>> THEN f ELSE fd[e]
  <2>1. <<m, 1>> # <<m, 2>>
    OBVIOUS
  <2> DEFINE x == <<m, 1>>  y == <<m, 2>>
  <2>2. /\ owner' = [owner EXCEPT ![x] = c, ![y] = to] /\ fd' = [fd EXCEPT ![x] = f]
        /\ x # y
    BY <1>1, <2>1
  <2>3. DOMAIN owner = Ends /\ DOMAIN fd = Ends
    BY DEF FInv, KInv, IInv, StreamsInv
  <2> HIDE DEF x, y
  <2>4. \A e \in Ends :
          /\ owner'[e] = IF e = x THEN c ELSE IF e = y THEN to ELSE owner[e]
          /\ fd'[e] = IF e = x THEN f ELSE fd[e]
    BY <2>2, <2>3
  <2> QED BY <2>4 DEF x, y
<1>7. \A b \in Peers : epoll'[b] = IF b = c THEN entry ELSE epoll[b]
  BY <1>1 DEF FInv, KInv, IInv, EpollInv
<1>8. ShutEnds'
  BY <1>1, <1>5, <1>6 DEF FInv, WInv, ShutEnds
<1>9. BacklogsOpen'
  <2> SUFFICES ASSUME NEW b \in Peers, NEW i \in DOMAIN backlog'[b]
               PROVE  ending[<<backlog'[b][i], 2>>] = "open"
    BY <1>1 DEF BacklogsOpen
  <2>1. \A x \in Peers : backlog[x] \in Seq(Conns)
    BY DEF FInv, KInv, IInv, StreamsInv, Backlogs
  <2>2. backlog'[b] = IF b = to THEN Append(backlog[to], m) ELSE backlog[b]
    BY <1>1, <1>2 DEF FInv, KInv, IInv, StreamsInv
  <2>3. CASE b # to
    BY <2>2, <2>3 DEF FInv, WInv, BacklogsOpen
  <2>4. CASE b = to
    <3>1. /\ DOMAIN Append(backlog[to], m) = DOMAIN backlog[to] \union {Len(backlog[to]) + 1}
          /\ \A j \in DOMAIN backlog[to] : Append(backlog[to], m)[j] = backlog[to][j]
          /\ Append(backlog[to], m)[Len(backlog[to]) + 1] = m
      BY <2>1, <1>2, Appended
    <3>2. i \in DOMAIN backlog[to] \/ i = Len(backlog[to]) + 1
      BY <2>2, <2>4, <3>1
    <3>3. CASE i \in DOMAIN backlog[to]
      <4>1. backlog'[b][i] = backlog[to][i]
        BY <2>2, <2>4, <3>1, <3>3
      <4> QED BY <4>1, <3>3, <1>2 DEF FInv, WInv, BacklogsOpen
    <3>4. CASE i = Len(backlog[to]) + 1
      <4>1. backlog'[b][i] = m
        BY <2>2, <2>4, <3>1, <3>4
      <4> QED BY <4>1, <1>5
    <3> QED BY <3>2, <3>3, <3>4
  <2> QED BY <2>3, <2>4
<1>10. ASSUME NEW b \in Peers PROVE AtOwn(b)'
  <2>1. FreeFds(b)' \subseteq FreeFds(b)
    <3> SUFFICES ASSUME NEW x \in FreeFds(b)' PROVE x \in FreeFds(b)
      OBVIOUS
    <3>1. /\ x \in 1 .. MaxFd /\ x # client[b]
          /\ \A e \in Ends : owner'[e] = b => fd'[e] # x
      BY <1>1 DEF FreeFds, EndsOf
    <3>2. \A e \in Ends : owner[e] = b => fd[e] # x
      BY <3>1, <1>1, <1>5, <1>6, NobodyIsNoPeer
    <3> QED BY <3>1, <3>2 DEF FreeFds, EndsOf
  <2> QED BY <2>1, <1>1 DEF FInv, WInv, AtOwn
<1>11. ASSUME NEW n \in Conns PROVE FlowOK(n)'
  <2> DEFINE e == <<n, 1>>  o == <<n, 2>>
  <2>1. e \in Ends /\ o \in Ends
    BY ConnEnds
  <2>2. CASE n # m
    <3>1. UNCHANGED <<owner[e], owner[o], fd[e], fd[o]>>
      BY <2>1, <2>2, <1>6
    <3>2. \A b \in Peers : \/ epoll'[b] = epoll[b]
                           \/ Away(epoll[b], e) /\ Away(epoll'[b], e)
      BY <1>1, <1>3, <1>7 DEF Away
    <3>3. \A b \in Peers : SameAt(main[b], main'[b])
      BY <1>1, SameMain
    <3> QED BY <3>1, <3>2, <3>3, <1>1, QuietFlow
  <2>3. CASE n = m
    <3>1. owner'[e] = c /\ fd'[o] = 0 /\ stream'[e] = <<>>
      <4>1. e = <<m, 1>> /\ o = <<m, 2>> /\ o # <<m, 1>>
        BY <2>3
      <4> HIDE DEF e, o
      <4>2. owner'[e] = c /\ fd'[o] = fd[o]
        BY <4>1, <2>1, <1>6
      <4> QED BY <4>1, <4>2, <1>1, <1>5
    <3>2. ~TypeIsRead(n)' /\ ~Astray(c)'
      BY <3>1, <1>3, <1>7 DEF TypeIsRead, Astray
    <3>3. Whole(<<>>, TypeIsRead(n)', epoll'[c].frame.type)
      BY EmptyWhole DEF TypeIsRead
    <3> QED BY <3>1, <3>2, <3>3 DEF FlowOK
  <2> QED BY <2>2, <2>3
<1> QED BY <1>8, <1>9, <1>10, <1>11 DEF WInv

\* A client that closes a connection promises nothing from then on.
LEMMA PeerIsDownFlow ==
  ASSUME FInv, NEW c \in Peers, PeerIsDown(c)
  PROVE  WInv'
<1> DEFINE d == epoll[c].end
<1>1. /\ epoll[c].pc = "erase" /\ fd' = [fd EXCEPT ![d] = 0]
      /\ ending' = [ending EXCEPT ![d] = "closed"] /\ epoll' = [epoll EXCEPT ![c] = Wait]
      /\ Touched(c) /\ closed' = closed \union {c} /\ Wait.pc = "wait"
      /\ UNCHANGED <<owner, stream, backlog, client, life>>
  BY DEF PeerIsDown, CloseEnd, EpollWaits, Wait
<1>2. d \in Ends /\ owner[d] = c /\ fd[d] # 0
  BY <1>1 DEF FInv, KInv, IInv, EpollInv, LinkInv, EndInv
<1> HIDE DEF d
<1>3. \A e \in Ends : /\ fd'[e] = IF e = d THEN 0 ELSE fd[e]
                      /\ ending'[e] = IF e = d THEN "closed" ELSE ending[e]
  BY <1>1 DEF FInv, KInv, IInv, StreamsInv
<1>4. \A b \in Peers : epoll'[b] = IF b = c THEN Wait ELSE epoll[b]
  BY <1>1 DEF FInv, KInv, IInv, EpollInv
<1>5. \A b \in Peers : SameAt(main[b], main'[b])
  BY <1>1, TouchedAt
<1>6. ShutEnds'
  BY <1>3 DEF FInv, WInv, ShutEnds
<1>7. BacklogsOpen'
  <2> SUFFICES ASSUME NEW b \in Peers, NEW i \in DOMAIN backlog[b]
               PROVE  ending'[<<backlog[b][i], 2>>] = "open"
    BY <1>1 DEF BacklogsOpen
  <2>1. backlog[b] \in Seq(Conns)
        /\ \A j \in 1 .. Len(backlog[b]) : fd[<<backlog[b][j], 2>>] = 0
    BY DEF FInv, KInv, IInv, StreamsInv, Backlogs
  <2>2. backlog[b][i] \in Conns /\ fd[<<backlog[b][i], 2>>] = 0
    BY <2>1, LenProperties, ElementOfSeq
  <2>3. <<backlog[b][i], 2>> \in Ends /\ <<backlog[b][i], 2>> # d
    BY <2>2, <1>2, ConnEnds
  <2> QED BY <2>3, <1>3 DEF FInv, WInv, BacklogsOpen
<1>8. ASSUME NEW b \in Peers PROVE AtOwn(b)'
  <2> SUFFICES ASSUME b # c PROVE AtOwn(b)'
    BY <1>1 DEF AtOwn
  <2>1. FreeFds(b)' = FreeFds(b)
    <3>1. \A e \in Ends : owner[e] = b => fd'[e] = fd[e]
      BY <1>2, <1>3
    <3> QED BY <3>1, <1>1 DEF FreeFds, EndsOf
  <2> QED BY <2>1, <1>1, <1>5 DEF FInv, WInv, AtOwn, SameAt
<1>9. ASSUME NEW n \in Conns PROVE FlowOK(n)'
  <2> DEFINE e == <<n, 1>>  o == <<n, 2>>
  <2>1. e \in Ends /\ o \in Ends
    BY ConnEnds
  <2>2. CASE d = e
    BY <2>1, <2>2, <1>3 DEF FlowOK
  <2>3. CASE d = o
    BY <2>3, <1>1, <1>2 DEF FlowOK
  <2>4. CASE d # e /\ d # o
    <3>1. UNCHANGED <<fd[e], fd[o], ending[o]>>
      BY <2>1, <2>4, <1>3
    <3>2. \A b \in Peers : \/ epoll'[b] = epoll[b]
                           \/ Away(epoll[b], e) /\ Away(epoll'[b], e)
      BY <1>1, <1>4 DEF Away
    <3> QED BY <3>1, <3>2, <1>1, <1>5, QuietFlow
  <2> QED BY <2>2, <2>3, <2>4
<1> QED BY <1>6, <1>7, <1>8, <1>9 DEF WInv

\* The frame a client has begun when it ends is never finished.
LEMMA ExitFlow ==
  ASSUME FInv, NEW a \in Peers, NEW how \in {"left", "exited", "asserted"}, Exit(a, how)
  PROVE  WInv'
<1>1. /\ life' = [life EXCEPT ![a] = how] /\ CloseAll(a)
      /\ main' = [main EXCEPT ![a] = Idle] /\ epoll' = [epoll EXCEPT ![a] = Wait]
      /\ Wait.pc = "wait" /\ UNCHANGED closed
  BY DEF Exit, history, Wait
<1>2. /\ UNCHANGED owner
      /\ \A e \in Ends :
           /\ owner[e] # a => fd'[e] = fd[e] /\ stream'[e] = stream[e] /\ ending'[e] = ending[e]
           /\ owner[e] = a => fd'[e] = 0 /\ ending'[e] # "open"
  BY <1>1 DEF CloseAll
<1>3. /\ life'[a] = how
      /\ \A b \in Peers : b # a =>
           /\ epoll'[b] = epoll[b] /\ life'[b] = life[b] /\ main'[b] = main[b]
           /\ client'[b] = client[b]
      /\ epoll'[a] = Wait
  BY <1>1 DEF CloseAll, FInv, KInv, IInv, EpollInv, RestInv, MainInv, StreamsInv
<1>4. backlog'[a] = <<>> /\ \A b \in Peers : b # a => backlog'[b] = backlog[b]
  BY <1>1 DEF CloseAll, FInv, KInv, IInv, StreamsInv
<1>5. ShutEnds'
  BY <1>2 DEF FInv, WInv, ShutEnds
<1>6. BacklogsOpen'
  <2> SUFFICES ASSUME NEW b \in Peers, NEW i \in DOMAIN backlog'[b]
               PROVE  ending'[<<backlog'[b][i], 2>>] = "open"
    BY DEF BacklogsOpen
  <2>1. b # a /\ backlog'[b] = backlog[b]
    BY <1>4
  <2>2. backlog[b] \in Seq(Conns)
        /\ \A j \in 1 .. Len(backlog[b]) : owner[<<backlog[b][j], 2>>] = b
    BY DEF FInv, KInv, IInv, StreamsInv, Backlogs
  <2>3. backlog[b][i] \in Conns /\ owner[<<backlog[b][i], 2>>] = b
    BY <2>1, <2>2, LenProperties, ElementOfSeq
  <2> QED BY <2>1, <2>3, <1>2, ConnEnds DEF FInv, WInv, BacklogsOpen
<1>7. ASSUME NEW b \in Peers PROVE AtOwn(b)'
  <2> SUFFICES ASSUME b # a PROVE AtOwn(b)'
    BY <1>3 DEF AtOwn
  <2>1. FreeFds(b)' = FreeFds(b)
    <3>1. \A e \in Ends : owner[e] = b => fd'[e] = fd[e]
      BY <1>2
    <3> QED BY <3>1, <1>2, <1>3 DEF FreeFds, EndsOf
  <2> QED BY <2>1, <1>1, <1>3 DEF FInv, WInv, AtOwn
<1>8. ASSUME NEW n \in Conns PROVE FlowOK(n)'
  <2> DEFINE e == <<n, 1>>  o == <<n, 2>>
  <2>1. e \in Ends /\ o \in Ends
    BY ConnEnds
  <2>2. CASE fd'[e] = 0
    BY <2>2 DEF FlowOK
  <2>3. CASE fd'[e] # 0 /\ owner[o] # a
    <3>1. UNCHANGED <<owner[e], owner[o], fd[e], fd[o], ending[o], stream[e]>> /\ owner[e] # a
      BY <2>1, <2>3, <1>2
    <3>2. \A b \in Peers : owner[e] = b => epoll'[b] = epoll[b]
      BY <3>1, <1>3
    <3>3. \A b \in Peers : owner[o] = b => SameAt(main[b], main'[b])
      BY <2>3, <1>3 DEF SameAt
    <3> QED BY <3>1, <3>2, <3>3, <1>1, QuietFlow
  <2>4. CASE fd'[e] # 0 /\ owner[o] = a
    <3> DEFINE c == owner[e]
    <3>1. /\ fd[e] # 0 /\ c # a /\ stream'[e] = stream[e] /\ owner'[e] = c /\ owner'[o] = a
          /\ fd'[o] = 0 /\ ending'[o] # "open"
      BY <2>1, <2>4, <1>2
    <3>2. c \in Peers
      BY <3>1, FlowEnds
    <3>3. epoll'[c] = epoll[c]
      BY <3>1, <3>2, <1>3
    <3>4. FlowOK(n)
      BY DEF FInv, WInv
    <3>5. TypeIsRead(n)' = TypeIsRead(n) /\ (Astray(c)' <=> epoll[c].pc = "astray")
      BY <3>1, <3>3 DEF TypeIsRead, Astray
    <3> SUFFICES ASSUME a \notin closed
                 PROVE  /\ ~(epoll[c].pc = "astray" /\ epoll[c].end = e)
                        /\ Whole(stream[e], TypeIsRead(n)', epoll[c].frame.type)
      BY <3>1, <3>3, <1>1 DEF FlowOK, Astray
    <3>6. /\ ~(epoll[c].pc = "astray" /\ epoll[c].end = e)
          /\ Whole(stream[e], TypeIsRead(n), epoll[c].frame.type)
      BY <2>4, <3>1, <3>4 DEF FlowOK, Astray
    <3> QED BY <3>5, <3>6
  <2> QED BY <2>2, <2>3, <2>4
<1> QED BY <1>5, <1>6, <1>7, <1>8 DEF WInv

-----------------------------------------------------------------------------
(* All steps                                                                *)

\* The server's side, and the server.
LEMMA ServerFlow ==
  ASSUME FInv, NEW c \in Peers,
         \/ (Shown(c) \/ ServerIsDown(c)) /\ ~Exit(c, "exited")
         \/ ServerStops \/ UNCHANGED vars
  PROVE  WInv'
<1>1. /\ UNCHANGED <<owner, fd, stream, ending, backlog, life, main, epoll>>
      /\ closed \subseteq closed'
      /\ \A b \in Peers : b \notin closed' => client'[b] = client[b]
  <2>1. CASE ServerIsDown(c) /\ ~Exit(c, "exited")
    <3>1. /\ UNCHANGED <<owner, fd, stream, ending, backlog, life, main, epoll>>
          /\ client' = [client EXCEPT ![c] = 0] /\ closed' = closed \union {c}
      BY <2>1 DEF ServerIsDown
    <3> QED BY <3>1
  <2>2. CASE Shown(c) \/ ServerStops \/ UNCHANGED vars
    BY <2>2 DEF Shown, ServerStops, vars, streamVars, clientVars, history
  <2> QED BY <2>1, <2>2
<1>2. ShutEnds' /\ BacklogsOpen' /\ \A b \in Peers : AtOwn(b)'
  BY <1>1, QuietRest
<1>3. \A b \in Peers : SameAt(main[b], main'[b])
  BY <1>1, SameMain
<1>4. \A n \in Conns : FlowOK(n)'
  BY <1>1, <1>3, QuietFlow
<1> QED BY <1>2, <1>4 DEF WInv

LEMMA EpollFlow ==
  ASSUME FInv, NEW c \in Peers, Epoll(c)
  PROVE  WInv'
<1>1. ASSUME \E how \in {"left", "exited", "asserted"} : Exit(c, how) PROVE WInv'
  BY <1>1, ExitFlow
<1>2. CASE \/ Incoming(c) \/ Shown(c) \/ P2PRequest(c) \/ ServerIsDown(c) \/ get_type(c)
           \/ PeerIsDown(c)
  BY <1>1, <1>2, IncomingFlow, ServerFlow, ConnectFlow, GetTypeFlow, PeerIsDownFlow
<1>3. CASE P2PRequest_link(c) \/ login_type(c) \/ login_fields(c) \/ ReadsAstray(c)
  BY <1>3, LinkedFlow, GreetingFlow, AstrayFlow
<1>4. CASE \/ SendMessage_action(c) \/ P2PLogin_action(c) \/ FileSendRequest_action(c)
           \/ FileSendRequest_names(c) \/ FileSendRequest_file(c) \/ FileSendAccept_action(c)
  BY <1>4, HandlersFlow, CopiedFlow
<1>5. CASE \/ login_fails(c) \/ ReadBreaks(c) \/ P2PRequest_stray(c) \/ FileSendAccept_fails(c)
           \/ Misread(c)
  BY <1>1, <1>5 DEF login_fails, ReadBreaks, P2PRequest_stray, FileSendAccept_fails, Misread
<1> QED BY <1>2, <1>3, <1>4, <1>5 DEF Epoll, EpollGoesOn

LEMMA NextFlow == FInv /\ [Next]_vars => FInv'
<1> SUFFICES ASSUME FInv, [Next]_vars PROVE WInv'
  BY NextLinks DEF FInv
<1>1. ASSUME NEW c \in Peers, Main(c) PROVE WInv'
  <2>1. CASE send_fails(c)
    BY <2>1, ExitFlow DEF send_fails
  <2> QED BY <2>1, <1>1, MainQuietFlow, SendsFlow DEF Main, MainGoesOn
<1>2. ASSUME NEW c \in Peers, Leave(c) PROVE WInv'
  BY <1>2, ExitFlow DEF Leave
<1>3. CASE ServerStops \/ UNCHANGED vars
  <2>1. CASE Peers # {}
    BY <1>3, <2>1, ServerFlow
  <2>2. CASE Peers = {}
    <3>1. \A n \in Conns : fd[<<n, 1>>] = 0
      BY <2>2, FlowEnds
    <3>2. UNCHANGED <<fd, ending>>
      BY <1>3 DEF ServerStops, vars, streamVars
    <3>3. (\A n \in Conns : FlowOK(n)') /\ ShutEnds'
      BY <3>1, <3>2 DEF FlowOK, FInv, WInv, ShutEnds
    <3> QED BY <2>2, <3>3 DEF WInv, BacklogsOpen
  <2> QED BY <2>1, <2>2
<1> QED BY <1>1, <1>2, <1>3, EpollFlow DEF Next

LEMMA InitFlow == Init => FInv
<1> SUFFICES ASSUME Init PROVE WInv
  BY InitLinks DEF FInv
<1>1. \A n \in Conns : FlowOK(n)
  BY ConnEnds DEF Init, StreamsInit, FlowOK
<1>2. ShutEnds /\ BacklogsOpen
  BY DEF Init, StreamsInit, ShutEnds, BacklogsOpen
<1>3. ASSUME NEW c \in Peers PROVE AtOwn(c)
  BY DEF Init, StreamsInit, ClientInit, AtOwn, FreeFds, Idle
<1> QED BY <1>1, <1>2, <1>3 DEF WInv

\* What comes to the side that has called connect are whole frames, for any
\* number of clients, connections and commands: ConnectedReadsFrames of
\* PeerLink.
THEOREM FramesCorrect == Spec => []ConnectedReadsFrames
<1>1. FInv => ConnectedReadsFrames
  <2> SUFFICES ASSUME FInv, NEW n \in Conns, fd[<<n, 1>>] # 0, owner[<<n, 2>>] \notin closed
               PROVE  LET e == <<n, 1>>  c == owner[e]
                      IN /\ InOrder(stream[e],
                              IF epoll[c].pc = "fields" /\ epoll[c].end = e
                              THEN "fields" ELSE "type")
                         /\ ~(Astray(c) /\ epoll[c].end = e)
    BY ConnEnds DEF ConnectedReadsFrames
  <2> QED BY DEF FInv, WInv, FlowOK, Whole, TypeIsRead
<1> QED BY <1>1, InitFlow, NextFlow, PTL DEF Spec
=============================================================================
