----------------------------- MODULE PeerStreams -----------------------------
(***************************************************************************)
(* class TCP of include/dog_socket.h, as the client programs use it with   *)
(* one another: the connections between peers, and the server's seen from  *)
(* the clients.  send_data of protocol/dataflow.h writes a frame in two    *)
(* parts, its type and its fields, and get_type and read_data read them    *)
(* one after the other; two threads that write to one connection at once   *)
(* mix their parts.                                                        *)
(*                                                                         *)
(* The server (server/server_dataflow.cpp, modelled in ChatServer) is here *)
(* a relay that takes a whole frame at once.                               *)
(***************************************************************************)
EXTENDS Integers, Sequences

CONSTANTS
  Peers,     \* client programs, each logged in to the account of this name
  MaxConns,  \* connections between them
  MaxFd      \* descriptors a client has for connections

ASSUME PeerStreamsAssumption ==
  /\ MaxConns \in Nat \ {0}
  /\ MaxFd \in Nat /\ MaxFd > 2 * MaxConns  \* both ends and the server's
  /\ "nobody" \notin Peers

Nobody == "nobody"  \* the empty name, in fields that were never read
Names == Peers \union {Nobody}

Client == 1         \* the descriptor of main's local variable client

\* A connection is the request for it, by number, and has two ends: side 1
\* has called connect, side 2 is got from accept.
Conns == 1 .. MaxConns
Ends == Conns \X {1, 2}
Other(e) == <<e[1], 3 - e[2]>>

VARIABLES
  owner,    \* the client an end belongs to, Nobody before connect
  fd,       \* its descriptor there, 0 if it has none
  stream,   \* parts written to the end and not read
  ending,   \* how its owner has closed it: see Endings
  backlog,  \* connections a client has not accepted yet
  client,   \* global.client: the server's descriptor, 0 for -1
  inbox,    \* frames from the server a client has not read
  up        \* the server is there

streamVars == <<owner, fd, stream, ending, backlog, client, inbox, up>>

\* "closed", "broken" and "reset" as in TCPStreams
Endings == {"open", "closed", "broken", "reset"}

StreamsInit ==
  /\ owner = [e \in Ends |-> Nobody]
  /\ fd = [e \in Ends |-> 0]
  /\ stream = [e \in Ends |-> <<>>]
  /\ ending = [e \in Ends |-> "open"]
  /\ backlog = [c \in Peers |-> <<>>]
  /\ client = [c \in Peers |-> Client]
  /\ inbox = [c \in Peers |-> <<>>]
  /\ up = TRUE

-----------------------------------------------------------------------------
(* Frames and their parts                                                   *)

FrameTypes == {"SendMessage", "P2PRequest", "P2PLogin", "FileSendRequest",
               "FileSendAccept", "OpStatus"}

\* num is the connection asked for, or the file, which stands for its path;
\* port is the file for whose length a UDP port is open.  alone is no field:
\* no second thread has touched what the frame was made from, or closed a
\* connection, since the command was typed.
Frame(type, from, to, num) ==
  [type |-> type, from |-> from, to |-> to, num |-> num, port |-> 0, alone |-> TRUE]

\* the fields before anything is read into them
Blank(type) == Frame(type, Nobody, Nobody, 0)

Type(frame) == [part |-> "type", frame |-> Blank(frame.type)]
Fields(frame) == [part |-> "fields", frame |-> frame]

-----------------------------------------------------------------------------
(* Descriptors                                                              *)

EndsOf(c) == {e \in Ends : owner[e] = c}
EndsAt(c, f) == {e \in EndsOf(c) : f # 0 /\ fd[e] = f}

\* Defective: the descriptor of the server is given away.
FreeOfEnds(c) == (1 .. MaxFd) \ {fd[e] : e \in EndsOf(c)}

FreeFds(c) == (1 .. MaxFd) \ ({client[c]} \union {fd[e] : e \in EndsOf(c)})

LowestFree(c) ==
  LET free == FreeFds(c) IN CHOOSE f \in free : \A g \in free : f <= g

\* connect is complete when the other side has the connection in its backlog
Connect(c, n, to) ==
  /\ owner[<<n, 1>>] = Nobody /\ FreeFds(c) # {}
  /\ owner' = [owner EXCEPT ![<<n, 1>>] = c, ![<<n, 2>>] = to]
  /\ fd' = [fd EXCEPT ![<<n, 1>>] = LowestFree(c)]
  /\ backlog' = [backlog EXCEPT ![to] = Append(@, n)]
  /\ UNCHANGED <<stream, ending, client>>

Accept(c) ==
  /\ backlog[c] # <<>> /\ FreeFds(c) # {}
  /\ fd' = [fd EXCEPT ![<<Head(backlog[c]), 2>>] = LowestFree(c)]
  /\ backlog' = [backlog EXCEPT ![c] = Tail(@)]
  /\ UNCHANGED <<owner, stream, ending, client, inbox, up>>

\* close at the end of the stream
CloseEnd(e) ==
  /\ fd' = [fd EXCEPT ![e] = 0]
  /\ ending' = [ending EXCEPT ![e] = "closed"]
  /\ UNCHANGED <<owner, stream, backlog, client, inbox, up>>

\* the process of c ends
CloseAll(c) ==
  /\ fd' = [e \in Ends |-> IF owner[e] = c THEN 0 ELSE fd[e]]
  /\ ending' = [e \in Ends |->
       IF owner[e] # c \/ ending[e] # "open" THEN ending[e]
       ELSE IF stream[e] = <<>> /\ fd[e] # 0 THEN "closed" ELSE "reset"]
  /\ stream' = [e \in Ends |-> IF owner[e] = c THEN <<>> ELSE stream[e]]
  /\ backlog' = [backlog EXCEPT ![c] = <<>>]
  /\ inbox' = [inbox EXCEPT ![c] = <<>>]
  /\ client' = [client EXCEPT ![c] = 0]
  /\ UNCHANGED <<owner, up>>

-----------------------------------------------------------------------------
(* writen                                                                   *)

\* What the server does with a frame from c: it writes a request to its
\* receiver, or answers "User offline"; a message for nobody is stored.
Relay(c, frame) ==
  \/ /\ client[frame.to] # 0
     /\ inbox' = [inbox EXCEPT ![frame.to] = Append(@, frame)]
  \/ /\ client[frame.to] = 0 /\ frame.type = "P2PRequest"
     /\ inbox' = [inbox EXCEPT ![c] = Append(@, Blank("OpStatus"))]
  \/ /\ client[frame.to] = 0
     /\ UNCHANGED inbox

AtServer(c, f) == f # 0 /\ f = client[c]

\* a part goes to the end at the other side, or to nobody when that is closed
WriteEnd(e, part) ==
  LET o == Other(e)
  IN \/ /\ ending[o] = "open"
        /\ stream' = [stream EXCEPT ![o] = Append(@, part)]
        /\ UNCHANGED ending
     \/ /\ ending[o] = "closed"
        /\ ending' = [ending EXCEPT ![o] = "broken"]
        /\ UNCHANGED stream

Write(c, f, part) ==
  /\ \/ /\ \E e \in EndsAt(c, f) : WriteEnd(e, part)
        /\ UNCHANGED inbox
     \/ /\ AtServer(c, f)
        /\ IF up /\ part.part = "fields" THEN Relay(c, part.frame) ELSE UNCHANGED inbox
        /\ UNCHANGED <<stream, ending>>
     \/ f = 0 /\ UNCHANGED <<stream, ending, inbox>>  \* descriptor 0: a terminal takes it
  /\ UNCHANGED <<owner, fd, backlog, client, up>>

\* a second write after the end, or a descriptor that is not open (or is 0,
\* and is not a terminal)
WriteFails(c, f) ==
  IF AtServer(c, f) THEN ~up
  ELSE \A e \in EndsAt(c, f) : ending[Other(e)] \in {"broken", "reset"}

-----------------------------------------------------------------------------
(* readn                                                                    *)

Open(e) == fd[e] # 0
Readable(e) == Open(e) /\ stream[e] # <<>>
AtEof(e) == Open(e) /\ stream[e] = <<>> /\ ending[Other(e)] \in {"closed", "broken"}
ReadFails(e) == Open(e) /\ stream[e] = <<>> /\ ending[Other(e)] = "reset"

TakePart(e) == stream' = [stream EXCEPT ![e] = Tail(@)]

\* getpeername of a connection that has been reset
NoPeer(e) == ending[Other(e)] \in {"broken", "reset"}
=============================================================================
