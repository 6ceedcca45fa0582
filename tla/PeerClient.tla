----------------------------- MODULE PeerClient -----------------------------
(***************************************************************************)
(* The client program towards its peers: the commands of its main thread   *)
(* (client/client.cpp) and the handlers of its epoll thread                *)
(* (client/client_dataflow.cpp).  The two share global.lookup and the      *)
(* record data of an offered file, and write to the same connections;      *)
(* send_mutex is only ever taken by the main thread.  A step is what a     *)
(* thread does up to the next place where the other may come between.      *)
(***************************************************************************)
EXTENDS PeerStreams

CONSTANTS
  Commands,    \* what the users type: a subset of CommandNames
  MaxCommands, \* commands typed in all clients together
  Self         \* users that also address themselves, with the command they do it by

CommandNames == {"send", "p2p", "filesend", "fileAC"}

ASSUME PeerAssumption ==
  /\ Commands \subseteq CommandNames /\ MaxCommands \in Nat
  /\ Self \subseteq Peers \X CommandNames

VARIABLES
  life,     \* "on", "left", "exited" by exit(-1), "asserted" by an assertion
  lookup,   \* global.lookup: the descriptor of a peer, 0 if not there
  data,     \* data of client_dataflow.cpp: the file offered last
  main,     \* what the main thread is at
  epoll,    \* what the epoll thread is at
  typed,    \* commands typed
  asked     \* requests for a connection among them

\* For the properties: the file offers made, the transfers begun, and the
\* clients that have closed a connection.
VARIABLES offers, started, closed

history == <<typed, asked, offers, started, closed>>
clientVars == <<life, lookup, data, main, epoll, history>>

NoData == [from |-> Nobody, to |-> Nobody, path |-> 0, length |-> 0]
Idle == [pc |-> "idle", at |-> 0, frame |-> Blank("OpStatus")]
Wait == [pc |-> "wait", end |-> <<1, 1>>, frame |-> Blank("OpStatus")]

ClientInit ==
  /\ life = [c \in Peers |-> "on"]
  /\ lookup = [c \in Peers |-> [a \in Peers |-> 0]]
  /\ data = [c \in Peers |-> NoData]
  /\ main = [c \in Peers |-> Idle]
  /\ epoll = [c \in Peers |-> Wait]
  /\ typed = 0 /\ asked = 0
  /\ offers = <<>> /\ started = {} /\ closed = {}

MainGoes(c, pc, at, frame) == main' = [main EXCEPT ![c] = [pc |-> pc, at |-> at, frame |-> frame]]
EpollGoes(c, pc, e, frame) == epoll' = [epoll EXCEPT ![c] = [pc |-> pc, end |-> e, frame |-> frame]]
EpollWaits(c) == epoll' = [epoll EXCEPT ![c] = Wait]

\* the process ends and the system closes its connections
Exit(c, how) ==
  /\ life' = [life EXCEPT ![c] = how]
  /\ CloseAll(c)
  /\ lookup' = [lookup EXCEPT ![c] = [a \in Peers |-> 0]]
  /\ data' = [data EXCEPT ![c] = NoData]
  /\ main' = [main EXCEPT ![c] = Idle]
  /\ epoll' = [epoll EXCEPT ![c] = Wait]
  /\ UNCHANGED history

\* The user ends the program, at any moment, or names a file that is not there.
Leave(c) == life[c] = "on" /\ Exit(c, "left")

-----------------------------------------------------------------------------
(* The main thread                                                          *)

\* An entry for the empty name is left out: it is made by a login of which
\* nothing came, whose connection is closed next.
Entry(c, a) == IF a \in Peers THEN lookup[c][a] ELSE 0

\* The epoll thread changes the map: a find at that moment may miss.
Modifying(c) ==
  \/ epoll[c].pc \in {"link", "erase"}
  \/ epoll[c].pc = "fields" /\ epoll[c].frame.type = "P2PLogin"

Others(c, command) == IF <<c, command>> \in Self THEN Peers ELSE Peers \ {c}

\* Defective: whatever peer is there.
FindAny(c, a) == {lookup[c][b] : b \in Peers}

Find(c, a) == {Entry(c, a)} \union (IF Modifying(c) THEN {0} ELSE {})

Typing(c, command) ==
  /\ life[c] = "on" /\ main[c].pc = "idle"
  /\ command \in Commands
  /\ typed < MaxCommands /\ typed' = typed + 1
  /\ UNCHANGED <<streamVars, life, lookup, data, epoll, started, closed>>

sendmsg(c) ==
  /\ Typing(c, "send")
  /\ \E to \in Others(c, "send") : \E f \in Find(c, to) :
       MainGoes(c, "type", IF f # 0 THEN f ELSE Client, Frame("SendMessage", c, to, 0))
  /\ UNCHANGED <<asked, offers>>

p2p_request(c) ==
  /\ Typing(c, "p2p")
  /\ asked < MaxConns /\ asked' = asked + 1
  /\ \E to \in Others(c, "p2p") : MainGoes(c, "type", Client, Frame("P2PRequest", c, to, asked + 1))
  /\ UNCHANGED offers

\* find, and then cin waits for the path
file_send(c) ==
  /\ Typing(c, "filesend")
  /\ \E to \in Others(c, "filesend") : \E f \in Find(c, to) :
       /\ MainGoes(c, "path", f, Frame("FileSendRequest", c, to, Len(offers) + 1))
       /\ offers' = Append(offers, [from |-> c, to |-> to])
  /\ UNCHANGED asked

\* iter->second after the wait: of the entry if it is still there; of the
\* memory of the one that was erased, which another entry may have got; of
\* lookup.end(), where libstdc++ has no entry and the memory is 0
Second(c) ==
  LET now == lookup[c][main[c].frame.to]
  IN IF main[c].at = 0 THEN {0}
     ELSE IF now # 0 THEN {now}
     ELSE {main[c].at} \union ({lookup[c][a] : a \in Peers} \ {0})

file_send_path(c) ==
  /\ main[c].pc = "path"
  /\ \E f \in Second(c) : MainGoes(c, "type", f, main[c].frame)
  /\ UNCHANGED <<streamVars, life, lookup, data, epoll, history>>

\* The user has been shown a request, which is before the fields are copied.
\* The port is opened for data.file_length.
file_accept(c) ==
  /\ Typing(c, "fileAC")
  /\ data[c].from # Nobody \/ epoll[c].pc \in {"offer", "file"}
  /\ MainGoes(c, "find", 0,
       [Blank("FileSendAccept") EXCEPT !.port = data[c].length,
                                       !.alone = epoll[c].pc \notin {"offer", "file"}])
  /\ UNCHANGED <<asked, offers>>

file_accept_find(c) ==
  /\ main[c].pc = "find"
  /\ \E f \in Find(c, data[c].from) : MainGoes(c, "type", f, main[c].frame)
  /\ UNCHANGED <<streamVars, life, lookup, data, epoll, history>>

send_type(c) ==
  /\ main[c].pc = "type"
  /\ Write(c, main[c].at, Type(main[c].frame))
  /\ MainGoes(c, "fields", main[c].at, main[c].frame)
  /\ UNCHANGED <<life, lookup, data, epoll, history>>

\* data is written as it is at that moment
SentFrame(c) ==
  LET f == main[c].frame
  IN IF f.type # "FileSendAccept" THEN f
     ELSE [f EXCEPT !.from = data[c].from, !.to = data[c].to, !.num = data[c].path]

send_fields(c) ==
  /\ main[c].pc = "fields"
  /\ Write(c, main[c].at, Fields(SentFrame(c)))
  /\ main' = [main EXCEPT ![c] = Idle]
  /\ UNCHANGED <<life, lookup, data, epoll, history>>

send_fails(c) ==
  /\ main[c].pc \in {"type", "fields"}
  /\ WriteFails(c, main[c].at)
  /\ Exit(c, "exited")

MainGoesOn(c) ==
  \/ file_accept_find(c)
  \/ send_type(c) \/ send_fields(c) \/ send_fails(c)

Main(c) ==
  \/ sendmsg(c) \/ p2p_request(c) \/ file_send(c) \/ file_accept(c)
  \/ file_send_path(c) \/ MainGoesOn(c)

-----------------------------------------------------------------------------
(* The epoll thread: what it waits for                                      *)

NothingElse == UNCHANGED <<life, lookup, data, main, history>>

Waiting(c) == life[c] = "on" /\ epoll[c].pc = "wait"

Incoming(c) == Waiting(c) /\ Accept(c) /\ UNCHANGED clientVars

FromServer(c) == Waiting(c) /\ client[c] # 0 /\ inbox[c] # <<>>

TakeFrame(c) == inbox' = [inbox EXCEPT ![c] = Tail(@)]

\* SendMessage::action and OpStatus::action print
Shown(c) ==
  /\ FromServer(c)
  /\ Head(inbox[c]).type # "P2PRequest"
  /\ TakeFrame(c)
  /\ UNCHANGED <<owner, fd, stream, ending, backlog, client, up, clientVars>>

\* P2PRequest::action up to engine.insert
P2PRequest(c) ==
  /\ FromServer(c)
  /\ LET r == Head(inbox[c])
     IN /\ r.type = "P2PRequest"
        /\ \/ /\ life[r.from] = "on"
              /\ Connect(c, r.num, r.from)
              /\ EpollGoes(c, "link", <<r.num, 1>>, r)
              /\ TakeFrame(c)
              /\ UNCHANGED up /\ NothingElse
           \/ life[r.from] # "on" /\ Exit(c, "exited")

\* the end of the stream, or a reset by a server that had something to read
ServerIsDown(c) ==
  /\ Waiting(c) /\ ~up /\ client[c] # 0 /\ inbox[c] = <<>>
  /\ \/ /\ client' = [client EXCEPT ![c] = 0]
        /\ closed' = closed \union {c}
        /\ UNCHANGED <<owner, fd, stream, ending, backlog, inbox, up,
                       life, lookup, data, main, epoll, typed, asked, offers, started>>
     \/ Exit(c, "exited")

\* get_type: readn of a type, or the end of the stream, or an error; where a
\* type should be there are fields when another connection had the descriptor
get_type(c) ==
  /\ Waiting(c)
  /\ \E e \in EndsOf(c) :
       \/ /\ Readable(e)
          /\ LET p == Head(stream[e])
             IN EpollGoes(c, IF p.part = "type" THEN "fields" ELSE "astray", e, Blank(p.frame.type))
          /\ TakePart(e)
          /\ UNCHANGED <<owner, fd, ending, backlog, client, inbox, up>> /\ NothingElse
       \/ /\ AtEof(e)
          /\ EpollGoes(c, "erase", e, Blank("OpStatus"))
          /\ UNCHANGED streamVars /\ NothingElse
       \/ ReadFails(e) /\ Exit(c, "exited")

-----------------------------------------------------------------------------
(* The epoll thread: what it does                                           *)

\* the loop of the visitor erases one entry, the first it finds
Forget(c, e) ==
  LET held == {a \in Peers : lookup[c][a] = fd[e]}
  IN IF held = {} THEN UNCHANGED lookup
     ELSE \E a \in held : lookup' = [lookup EXCEPT ![c][a] = 0]

\* data changes, or a connection is closed and its descriptor may come back,
\* while file_accept is under way
Touched(c) ==
  main' = IF main[c].frame.type = "FileSendAccept"
          THEN [main EXCEPT ![c].frame.alone = FALSE] ELSE main

PeerIsDown(c) ==
  /\ epoll[c].pc = "erase"
  /\ Forget(c, epoll[c].end)
  /\ CloseEnd(epoll[c].end)
  /\ EpollWaits(c)
  /\ Touched(c)
  /\ closed' = closed \union {c}
  /\ UNCHANGED <<life, data, typed, asked, offers, started>>

Enter(c, a, e) ==
  lookup' = IF a \in Peers THEN [lookup EXCEPT ![c][a] = fd[e]] ELSE lookup

\* Defective: the connection is put there under the receiver of the request.
P2PRequest_linkReceiver(c) ==
  /\ epoll[c].pc = "link"
  /\ Enter(c, epoll[c].frame.to, epoll[c].end)
  /\ EpollGoes(c, "login", epoll[c].end, epoll[c].frame)
  /\ UNCHANGED <<streamVars, life, data, main, history>>

P2PRequest_link(c) ==
  /\ epoll[c].pc = "link"
  /\ Enter(c, epoll[c].frame.from, epoll[c].end)
  /\ EpollGoes(c, "login", epoll[c].end, epoll[c].frame)
  /\ UNCHANGED <<streamVars, life, data, main, history>>

Login(c) == Frame("P2PLogin", c, Nobody, 0)

\* send_data of the P2PLogin, without send_mutex
login_type(c) ==
  /\ epoll[c].pc = "login"
  /\ Write(c, fd[epoll[c].end], Type(Login(c)))
  /\ EpollGoes(c, "loginfields", epoll[c].end, epoll[c].frame)
  /\ NothingElse

\* Defective: the type goes alone.
login_fieldsNot(c) ==
  /\ epoll[c].pc = "loginfields"
  /\ EpollWaits(c)
  /\ UNCHANGED streamVars /\ NothingElse

login_fields(c) ==
  /\ epoll[c].pc = "loginfields"
  /\ Write(c, fd[epoll[c].end], Fields(Login(c)))
  /\ EpollWaits(c)
  /\ NothingElse

login_fails(c) ==
  /\ epoll[c].pc \in {"login", "loginfields"}
  /\ WriteFails(c, fd[epoll[c].end])
  /\ Exit(c, "exited")

Comes(c) == Head(stream[epoll[c].end])

Fits(c) ==
  /\ Readable(epoll[c].end)
  /\ Comes(c).part = "fields" /\ Comes(c).frame.type = epoll[c].frame.type

\* readn of the fields that go with the type, or of none when the stream ends
\* before: the result of read_data is dropped
Reading(c, type) ==
  /\ epoll[c].pc = "fields" /\ epoll[c].frame.type = type
  /\ Fits(c) \/ AtEof(epoll[c].end)

read_data(c, type) ==
  /\ Reading(c, type)
  /\ IF Fits(c) THEN TakePart(epoll[c].end) ELSE UNCHANGED stream
  /\ UNCHANGED <<owner, fd, ending, backlog, client, inbox, up>>

raw(c) == IF Fits(c) THEN Comes(c).frame ELSE epoll[c].frame

\* what comes are not the fields that go with the type
ReadsAstray(c) ==
  /\ epoll[c].pc = "fields" /\ Readable(epoll[c].end) /\ ~Fits(c)
  /\ EpollGoes(c, "astray", epoll[c].end, Blank("OpStatus"))
  /\ TakePart(epoll[c].end)
  /\ UNCHANGED <<owner, fd, ending, backlog, client, inbox, up>> /\ NothingElse

ReadBreaks(c) ==
  /\ epoll[c].pc = "fields" /\ ReadFails(epoll[c].end)
  /\ Exit(c, "exited")

\* From then on types are read where there are none: get_type exits, or an
\* assertion on a type of the wrong direction fails, or readn waits for more.
\* The last four bytes of a login's name are such a type: 0, Type_Registion.
Misread(c) ==
  /\ epoll[c].pc = "astray"
  /\ \E how \in {"exited", "asserted"} : Exit(c, how)

-----------------------------------------------------------------------------
(* The handlers                                                             *)

SendMessage_action(c) ==
  /\ read_data(c, "SendMessage")
  /\ EpollWaits(c)
  /\ NothingElse

\* Defective: the peer is not put into lookup.
P2PLogin_read(c) ==
  /\ read_data(c, "P2PLogin")
  /\ EpollWaits(c)
  /\ NothingElse

\* Defective: the login is answered with one, so that both sides know.
P2PLogin_answers(c) ==
  /\ read_data(c, "P2PLogin")
  /\ Enter(c, raw(c).from, epoll[c].end)
  /\ EpollGoes(c, IF epoll[c].end[2] = 2 THEN "login" ELSE "wait", epoll[c].end, raw(c))
  /\ UNCHANGED <<life, data, main, history>>

P2PLogin_action(c) ==
  /\ read_data(c, "P2PLogin")
  /\ Enter(c, raw(c).from, epoll[c].end)
  /\ EpollWaits(c)
  /\ UNCHANGED <<life, data, main, history>>

\* A request that main has written to a peer, because the peer had got the
\* descriptor of the server: listener_ip is not set, and connect fails.
P2PRequest_stray(c) ==
  /\ Reading(c, "P2PRequest")
  /\ Exit(c, "exited")

\* shows the request
FileSendRequest_action(c) ==
  /\ read_data(c, "FileSendRequest")
  /\ EpollGoes(c, "offer", epoll[c].end, raw(c))
  /\ NothingElse

FileSendRequest_names(c) ==
  /\ epoll[c].pc = "offer"
  /\ data' = [data EXCEPT ![c].from = epoll[c].frame.from, ![c].to = epoll[c].frame.to]
  /\ EpollGoes(c, "file", epoll[c].end, epoll[c].frame)
  /\ Touched(c)
  /\ UNCHANGED <<streamVars, life, lookup, history>>

\* Defective: the length of the offer before it stays.
FileSendRequest_path(c) ==
  /\ epoll[c].pc = "file"
  /\ data' = [data EXCEPT ![c].path = epoll[c].frame.num]
  /\ EpollWaits(c)
  /\ Touched(c)
  /\ UNCHANGED <<streamVars, life, lookup, history>>

FileSendRequest_file(c) ==
  /\ epoll[c].pc = "file"
  /\ data' = [data EXCEPT ![c].path = epoll[c].frame.num, ![c].length = epoll[c].frame.num]
  /\ EpollWaits(c)
  /\ Touched(c)
  /\ UNCHANGED <<streamVars, life, lookup, history>>

\* FileUDP::send to the host at the other end of the receiver's connection
FileSendAccept_action(c) ==
  /\ read_data(c, "FileSendAccept")
  /\ \E p \in EndsAt(c, Entry(c, raw(c).to)) :
       /\ ~NoPeer(p) /\ raw(c).num # 0
       /\ started' = started \union
            {[from |-> c, to |-> owner[Other(p)], file |-> raw(c).num,
              port |-> raw(c).port, alone |-> raw(c).alone]}
  /\ EpollWaits(c)
  /\ UNCHANGED <<life, lookup, data, main, typed, asked, offers, closed>>

HasFile(c, n) == n \in DOMAIN offers /\ offers[n].from = c

\* lookup[raw.receiver] makes an entry for descriptor 0, getpeername fails,
\* or the file is not one of this client
FileSendAccept_fails(c) ==
  /\ Reading(c, "FileSendAccept")
  /\ \/ \A p \in EndsAt(c, Entry(c, raw(c).to)) : NoPeer(p)
     \/ ~HasFile(c, raw(c).num)
  /\ Exit(c, "exited")

EpollGoesOn(c) ==
  \/ Incoming(c) \/ Shown(c) \/ P2PRequest(c) \/ ServerIsDown(c)
  \/ get_type(c) \/ PeerIsDown(c)
  \/ P2PRequest_link(c) \/ login_type(c) \/ login_fields(c) \/ login_fails(c)
  \/ ReadsAstray(c) \/ ReadBreaks(c)
  \/ SendMessage_action(c) \/ P2PLogin_action(c) \/ P2PRequest_stray(c)
  \/ FileSendRequest_action(c) \/ FileSendRequest_names(c) \/ FileSendRequest_file(c)
  \/ FileSendAccept_action(c) \/ FileSendAccept_fails(c)

Epoll(c) == EpollGoesOn(c) \/ Misread(c)

-----------------------------------------------------------------------------
ServerStops ==
  /\ up /\ up' = FALSE
  /\ UNCHANGED <<owner, fd, stream, ending, backlog, client, inbox, clientVars>>
=============================================================================
