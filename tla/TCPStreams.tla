----------------------------- MODULE TCPStreams -----------------------------
(***************************************************************************)
(* class TCP of include/dog_socket.h, as the server sees it: one           *)
(* connection for each run of the client program (a session), a stream of  *)
(* frames in each direction, and the descriptor the server has for it.     *)
(* A descriptor is a number and the lowest free one is taken, so the       *)
(* number of a closed connection is soon that of another one.              *)
(*                                                                         *)
(* A client that ends closes its connection.  With nothing unread that is  *)
(* an end of file for the server, and what the server writes afterwards is *)
(* answered by a reset; with something unread it is a reset at once.  Both *)
(* writen and readn end the process when the system call fails.            *)
(***************************************************************************)
EXTENDS Integers, Sequences

CONSTANTS
  Sessions,  \* runs of the client program
  MaxFd      \* descriptors the server has for connections

VARIABLES
  fd,        \* the server's descriptor of a session, 0 if it has none
  backlog,   \* sessions that have connected and are not accepted yet
  toServer,  \* frames the server has not read
  toClient,  \* frames the client has not read
  ending     \* how far a connection has ended: see Endings

streamVars == <<fd, backlog, toServer, toClient, ending>>

\* "closed": the client has closed; "broken": and has answered a write by a
\* reset; "reset": the client has left data unread
Endings == {"open", "closed", "broken", "reset"}

StreamsInit ==
  /\ fd = [k \in Sessions |-> 0]
  /\ backlog = <<>>
  /\ toServer = [k \in Sessions |-> <<>>]
  /\ toClient = [k \in Sessions |-> <<>>]
  /\ ending = [k \in Sessions |-> "open"]

-----------------------------------------------------------------------------
(* The server's end                                                         *)

FreeFds == {f \in 1 .. MaxFd : \A k \in Sessions : fd[k] # f}

LowestFree == CHOOSE f \in FreeFds : \A g \in FreeFds : f <= g

Accept ==
  /\ backlog # <<>> /\ FreeFds # {}
  /\ fd' = [fd EXCEPT ![Head(backlog)] = LowestFree]
  /\ backlog' = Tail(backlog)
  /\ UNCHANGED <<toServer, toClient, ending>>

\* readn of a whole frame, or of a torn one that ends with the stream
Readable(k) ==
  /\ fd[k] # 0 /\ toServer[k] # <<>>
  /\ Head(toServer[k]).whole \/ ending[k] # "reset"

TakeFrame(k) == toServer' = [toServer EXCEPT ![k] = Tail(@)]

\* readn returns 0, at the end of the stream
AtEof(k) == fd[k] # 0 /\ toServer[k] = <<>> /\ ending[k] \in {"closed", "broken"}

\* readn returns -1
ReadFails(k) == fd[k] # 0 /\ ending[k] = "reset" /\ ~Readable(k)

\* writen of a frame to the connection that has descriptor f
Written(f, frame) ==
  /\ \E k \in Sessions :
       /\ fd[k] = f /\ ending[k] = "open"
       /\ toClient' = [toClient EXCEPT ![k] = Append(@, frame)]
  /\ UNCHANGED ending

\* the client has closed, and its reset comes after the last write of the frame
WrittenToNobody(f) ==
  /\ \E k \in Sessions :
       /\ fd[k] = f /\ ending[k] = "closed"
       /\ ending' = [ending EXCEPT ![k] = "broken"]
  /\ UNCHANGED toClient

\* the reset has come (ECONNRESET, SIGPIPE), or f is not open (EBADF)
WriteFails(f) == \A k \in Sessions : fd[k] = f => ending[k] # "open"

Send(f, frame) == Written(f, frame) \/ WrittenToNobody(f)

\* getpeername has no peer to name
NoPeer(k) == ending[k] \in {"broken", "reset"}

\* Defective: the number is marked and not given back.
CloseFdMarks(k) == fd' = [fd EXCEPT ![k] = -1]

CloseFd(k) == fd' = [fd EXCEPT ![k] = 0]

\* the server's process ends: what it had not read is gone
CloseAll ==
  /\ fd' = [k \in Sessions |-> 0]
  /\ backlog' = <<>>
  /\ toServer' = [k \in Sessions |-> <<>>]
  /\ UNCHANGED <<toClient, ending>>

-----------------------------------------------------------------------------
(* The client's end                                                         *)

Connected(k) == fd[k] # 0 \/ \E i \in DOMAIN backlog : backlog[i] = k

Connect(k) ==
  /\ backlog' = Append(backlog, k)
  /\ UNCHANGED <<fd, toServer, toClient, ending>>

Put(k, frame) ==
  /\ Connected(k)
  /\ toServer' = [toServer EXCEPT ![k] = Append(@, frame)]
  /\ UNCHANGED <<fd, backlog, toClient, ending>>

Get(k) ==
  /\ toClient[k] # <<>>
  /\ toClient' = [toClient EXCEPT ![k] = Tail(@)]
  /\ UNCHANGED <<fd, backlog, toServer, ending>>

\* the client's process ends, having written the frames of rest
Hangup(k, rest) ==
  /\ ending' = [ending EXCEPT ![k] = IF toClient[k] = <<>> THEN "closed" ELSE "reset"]
  /\ toClient' = [toClient EXCEPT ![k] = <<>>]
  /\ toServer' = [toServer EXCEPT ![k] = IF Connected(k) THEN @ \o rest ELSE @]
  /\ UNCHANGED <<fd, backlog>>
=============================================================================
