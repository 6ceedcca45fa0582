# A verification project for dog_chatter (TCP-LABS)

dog_chatter is a chat program: a server with accounts and offline messages over
TCP, clients that talk through it or with each other, and a file transfer of
its own over UDP.  This directory holds TLA+ modules of the program, the TLC
configurations that check them on small instances, and proofs that TLAPS
checks.  Paths below are those of the repository; "proved" means checked by
`tlapm` for every value of the constants, "checked" means by TLC within the
bounds of a `.cfg`.

## 1. The parts of the system

| Part | Source | State | Operations | Modelled by |
|---|---|---|---|---|
| File transfer | `protocol/file_udp.cpp`, `.h` | `DatagramACK` (main_ack, naks), a ring of 2*SLOTS packets at each end, `lost_queue`, `send_seq_index`, the file | `update`, `sender`, `receiver`, `UDP::send/recv`, the linger at the end | `DatagramACK`, `DatagramACKLoop`, `Window`, `UDPNetwork`, `FileSender`, `FileReceiver`, `FileUDP`, `FileCopy` |
| Chat server | `server/server.cpp`, `server/server_dataflow.cpp`, `data/test.sql` | `lookup` (account to descriptor), tables `accounts` and `message` | one `action` per request, `visitor` at an end of file | `ChatServer`, `Chat`, `Mailbox` |
| Connections | `include/dog_socket.h`, `protocol/dataflow.h`, `protocol/gen_dataflow.h` | descriptors, streams, the epoll set | `accept`, `readn`, `writen`, `close`, `getpeername`, `get_type` | `TCPStreams` (frames whole or torn), `PeerStreams` (frames in two parts) |
| Client, towards the server | `client/client.cpp`, `client/client_dataflow.cpp` | `global.account`, `global.passwd` | register, login, recover, send, p2p, active; taking replies | `ChatUser` |
| Client, towards its peers | the same files | `global.lookup`, the slot `data` of an offered file | `P2PRequest`, `P2PLogin`, `FileSendRequest`, `FileSendAccept`, `file_send`, `file_accept`; the visitor | `PeerClient`, `PeerLink` |
| Helpers | `include/common.h`, `include/security.h` | none | `COPY`, `dog_timer`, `naive_hash` (logging only) | not modelled |
| Not part of the program | `reference/`, `dirty_test/` | | | not modelled: vendored, or left out of the build |

How they interact.  Every client keeps one TCP connection to the server.  The
server has one thread: `epoll_wait` for one event, then `accept`, or `visitor`,
which reads one frame and runs its `action` to the end.  A client has a main
thread, which reads commands and writes frames, and an epoll thread, which
reads what comes.  A file transfer adds a thread to either client, with a UDP
socket of its own, and shares nothing with the rest after it has started.

Where it is hard:

* file transfer: datagrams lost, late, overtaken and refused; a record of fixed
  size that must not forget a packet; a ring that is filled again at one place
  and read at another; two ends that stop on their own;
* server: descriptors are numbers kept in `lookup` and given out again; a client
  may end at any moment, between two writes of a frame or while it is answered;
  a write that fails ends the process; the tables outlive it;
* client: commands are sent before the answer to the last one is there; two
  threads share `lookup`, the slot `data` and the connections, and only one of
  them takes `send_mutex`; requests cross, and descriptors are given out again.

What makes each part right, in a sentence: the receiver writes exactly the
file and the sender ends only when it may; the server hands every message to
its receiver and nobody else, once and in order, `lookup` is true, and a
request is answered; a link between two clients is known to both, leads to the
peer it names, and what is written there is read.

## 2. The file transfer

**`DatagramACK`** is the record itself, as a pure data type: `Received(a)` is
the set of packets it stands for, `update(a, p)` and `update_returns(a, p)` are
what the method leaves and returns, in closed form (`Expand` for a packet
beyond `main_ack`, `Shift` for one that was missing, `Room` for the
pre-check).  **`DatagramACKLoop`** runs the method's loops turn by turn, early
returns included, and shows that they compute the closed form.  That module is
the bridge from the C++ to the operators the others use.

**`Window`** has the arithmetic of the ring: `Slot`, `InWindow` (the assertion
of `operator[]`), `offset_end`, `empty`.  **`UDPNetwork`** has the two channels
and the error a refused datagram leaves on a connected socket.  The sockets
connect to the local host (`UDP::connect` drops the address it is given), so a
refusal comes back at once; that is why a receive and the send that answers it
are one step of the receiver.

**`FileSender`** follows `sender` round by round: `FixLost` (286-308),
`ResendTail` (310-320), `SendNext` (380-384), and in the wait `Timeout`,
`RecvAck`, `ResendNak`, `TakeReply`; every datagram leaves in a step of its
own.  `WindowAssert` and `SenderRefused` are the assertions that can end it.
**`FileReceiver`** follows `receiver`: `RecvData` (199-237), then `RecvLinger`
and `LingerTimeout` (244-252).  **`FileUDP`** composes both with the network.
**`FileCopy`** is the abstract specification: a file grows by blocks in order,
is saved only when it is whole, and is saved in the end unless the client dies.

| Run | Question | Answer |
|---|---|---|
| `ack_loop` | Do the loops of `update` compute the closed form (`LoopAgrees`), count a packet once (`TakesOne`), keep the record well formed (`LoopWellFormed`)? | yes |
| `transfer` | Acknowledgements in order, data overtaken: does the sender's window assertion hold (`ReadsInWindow`), does it remember each loss it is told of (`LossRemembered`), does its view only grow (`ViewGrows`), is a file delivered (`Delivered`), does the sender hear of it when acknowledgements are lost (`SenderHears`), and is the transfer a copy (`ImplementsFileCopy`)? | yes, for a file whose last block is not passed together with the one before it |
| `transfer_reorder` | Both directions overtaken and one nak only: is the file right (`FileIsPrefix`), is what is acknowledged held (`AckedIsHeld`), does the receiver end with everything (`EndsComplete`), may the sender end when it does (`SenderDoneSound`), does the receiver never take an acknowledgement back (`AcksGrow`)? | yes |
| `transfer_tail` | Has a finished sender left a whole file? | **no**: one packet can move `bottom_ack` past two edges, and one block is written |
| `transfer_errno` | Is `errno` always `EAGAIN`? | **no**: a closed socket refuses |

Two more things the code takes for granted show in the same model and have no
run of their own.  With "ack" in Reorders `ReadsInWindow` fails: `total_reply =
reply` goes back when an acknowledgement overtakes another ("assume no reordered
ack", `file_udp.cpp:343`), and the window has left the packets it lists.  And
`SenderInit` is an end of the client for a file shorter than two blocks, by the
assertion at `file_udp.cpp:268`.

Bounds.  SLOTS = 4, SINGLE_LENGTH = 2, and a file of 19 bytes: ten packets, the
last one shorter, three blocks, the last one shorter: each ring goes round
once, and every boundary of the code is met.  `transfer` has 23 bytes, twelve
packets that end with a block, since `transfer_tail` shows that a short tail may
stay behind.  NAK_SIZE is 1 or 2 so that the record overflows with few losses;
SOFT_WIND = 3 and HARD_WIND = 4 keep the source's relation SOFT < HARD <= SLOTS,
LOST_GAP is its 4 made smaller.  ChanCap bounds a channel (a full one drops),
MaxFaults the losses, early timeouts and swaps together, MaxLost the resend
queue, which the source does not bound.
INACTIVE = 63 is the largest number of the unsigned type: `main_ack - 2` wraps
there as it does in the source.

Fairness.  Both threads run (`WF` of `Sender` and `Receiver`), the network
refuses what comes to a closed port (`WF` of `Network`).  No fairness of
delivery is assumed: faults are bounded, and a datagram that is not lost is in
the channel.  `SenderHears` says that the sender ends as long as the receiver
has not closed its socket before: `RecvLinger` answers whatever comes, so the last
acknowledgement may be lost.  Beyond that its end is not claimed: a send eats the
pending error and `status` is dropped (`file_udp.h:57`), so a sender whose
receiver has gone may wait and resend for ever.

**Proved** (`DatagramACKProofs`, `DatagramACKLoopProofs`, `FileUDPProofs`,
`FileSenderProofs`).  From the
assumptions on the constants (naks and slots are positive, packet numbers stay
below INACTIVE, HARD_WIND <= SLOTS):

* `UpdateCorrect`: for every well formed record and every packet, `update`
  keeps it well formed, adds exactly the packet when it returns true, and
  changes nothing when it returns false;
* `LoopCorrect`, `TakesOneCorrect`, `LoopShapeCorrect`: the loops of `update`
  compute that closed form (`LoopAgrees`, `TakesOne`, `LoopWellFormed`), so that
  what is said of the record is said of the C++ loops;
* `TypeCorrect`, `PrefixCorrect`, `HeldCorrect`, `EndCorrect`,
  `AcksGrowCorrect`: `TypeOK`, `FileIsPrefix`, `AckedIsHeld`, `EndsComplete`
  and `AcksGrow` hold of every behaviour, with any length of the file, any
  window and any network;
* `CopyCorrect`: every behaviour is one of `FileCopy!Spec`, the safety half of
  `ImplementsFileCopy`;
* `SenderDoneCorrect`: `SenderDoneSound` holds of every behaviour, overtaken
  acknowledgements included;
* `ViewGrowsCorrect`, `LossCorrect`, `ReadsCorrect`: `ViewGrows`,
  `LossRemembered` and `ReadsInWindow` hold when no acknowledgement overtakes
  another (`"ack" \notin Reorders`).  That is the assumption the source writes
  down (`file_udp.cpp:343`) and cannot be dropped: `total_reply = reply` then
  takes an older record for the newer one, and TLC finds each of the three
  violated in a few steps.

The argument.  For the loops, `LInv` says at each turn what the loop has done so
far: `Expanding` that it has met no free slot, or has filled those from the
first one on with the packets above the old `main_ack`, one each turn;
`Filling` that the entries passed are not the packet; `Shifting` that the
entries between the one removed and the turn have moved up by one.  The slot a
packet is listed in is unique because the naks are in strict order.  At each
return what the loop has done is the closed form, and `UpdateCorrect` gives the
other two.

None of the invariants of the transfer is inductive: `FileIsPrefix` says nothing of the
ring the next block comes from.  `IInv` adds what carries it: `SenderRing` (a
slot in the sender's window holds the packet of its number, so datagrams carry
what they name), `ReceiverWindow` (`write_edge` is one block above the base or
at the end), `FileWritten` (the file has exactly what is below the base) and
`RingHolds` (what is taken in and not below the base is in the ring).  The step
that matters is a block that is written: `bottom_ack >= write_edge` makes all
packets of the block received (`BottomIsFirstMissing`), `RingHolds` puts them
in their slots, `SlotNear` and `SlotWrap` make these slots
consecutive, and the push moves the base by one block, no slot of which is
needed again (`SlotDistinct`).  TLC checked `IInv` as an invariant first.
`CopyCorrect` follows from `IInv` before and after a step: a written block is
longer than nothing and continues the prefix, and the file is whole exactly
when the window is past the last packet (`WholeWhenEmpty`), which is when the
code leaves its loop.

The sender's half (`FileSenderProofs`) rests on what the sender knows being
late but never wrong.  `AcksBehind`: what is received according to
`total_reply`, `s_reply` and every acknowledgement in the channel is received
according to `reply`.  It is inductive without any order, since `reply` only
grows; with `SentFirst` (nobody has taken in what was not sent) and `DoneIsAll`
(a sender that is done saw `bottom_ack` past the last packet) it makes
`DoneInv`, and `SenderDoneSound` follows.  With ordered acknowledgements the
inclusion becomes a chain (`AcksInOrder`): `total_reply`, then `s_reply`, then
the channel from its head, then `reply`.  `AckMono` turns an inclusion of what
is received into the order of `main_ack` and of `bottom_ack`, which is all the
sender computes with.  `SenderWindow` then says that everything between
`bottom_ack` and `send_seq_index` is in the ring: HARD_WIND <= SLOTS keeps the
next packet inside the two blocks of the window, and one refill per turn is
enough.  `NaksHeard` says that each nak that lies between two acknowledgements the sender
has taken was put into `lost_queue`; a packet leaves the queue only when it is
acknowledged, which is `LossRemembered`.  All these are in `FileUDP` (section
"Why the sender is right"), and TLC checked them before they were proved.

Only model-checked: liveness, that is `Delivered`, `SenderHears` and the fair
half of `ImplementsFileCopy`, which are beyond the prover.

## 3. The chat service

**`TCPStreams`** has, for each run of the client program (a session), the
server's descriptor, a queue of frames each way and how the connection has
ended.  `Accept` takes the lowest free descriptor.  An end with nothing unread
is an end of file ("closed"); what the server writes then is lost and answered
by a reset ("broken"), which makes the next write fail; with something unread
the end is a reset at once, and reading fails when the frames that came before
it have been read.  On the local host the reset is nearly always there before
the second of the two writes of `send_data`, but need not be: a write to a
closed connection is lost or fails, and both are in the model.

**`ChatServer`** has one action per handler (`Registion`, `LoginIn`,
`SendMessage`, `P2PRequest`, `RecoverPassword`, `FindActiveRequest`,
`ClientIsDown`) up to the first write, then one action per write (`SendReply`,
`SendWelcome`, `SendOffline`, `SendActive`) and `DeleteOffline`; the one thread
does nothing else in between, but clients go on and may leave, and the operator
may `Kill` the process at every step.  `Exit` is any end of the process: the
streams and `lookup` are gone, the tables stay, and `Restart` finds them.

Data: accounts, passwords, nicknames are numbers, and 0 is the empty string.
It matters: `visitor` drops the result of `read_data`, so a frame whose client
ended between the two writes is handled with empty fields (`make_unique<T>()`
clears the object).  A message is its number, and `Long` are those of more than
eight bytes.  `FromTable` is the row as `send_offline_message` gives it out: the
sender is column 1 of the SELECT, the text what `sizeof(plain.size() + 1)`
bytes of it leave.  Table `message` is a sequence per receiver, as every
statement on it says `WHERE receiver=?`.  The cipher, timestamps and wording are left
out; sqlite is taken to store what it is given.

`accepted` and `given` record, per account, the messages the server has handled
and those it has written to the account's connection; they are history and no
action reads them.

**`ChatUser`** has the commands of the client and its taking of replies;
`log_in` sets `global.account` and `global.passwd` before it is answered.
`Patient` users wait for the answer of register, login and recover, and log in
once in a session; `Tears` are the frames a client may end in the middle of.
**`Chat`** composes; **`MCChat`** adds the symmetry of sessions.

**`Mailbox`** is the abstract specification, with no connections and no
descriptors: an account is there or away, a message for one that is away is
kept in its box, one that comes is handed its box from the first message to the
last before it gets any other, and goes with an empty box.  Only `Stop` may have
a box handed over again.  `Chat` maps to it (`ImplementsMailbox`): `Present` is
`lookup`, `Box` the table, `Shown` how many rows have been written since the
login, `handed` what `given` records.

| Run | Question | Answer |
|---|---|---|
| `chat_mail` | Three sessions, two accounts, the server stopped anywhere and started again: is a message in the table only while its receiver is away (`OnlineHasNoMail`), are messages given in order, once and without a gap as long as the server is not stopped (`GivenInOrder`), is each one it took stored or handed over even so (`KeptOrGiven`), and do messages and requests for a peer reach nobody but the receiver they name (`OnlyTheReceiver`)? | yes; after a stop some are given twice |
| `chat_accounts` | Register, login, recover, messages, and torn registrations: is the user behind each entry of `lookup` the one who gave the password now in the table (`LookupIsTheUser`), is each request answered once (`AnsweredOnce`) and answered at all (`Answered`), is mail handed over after a login (`MailHandedOver`)? Is the service a mailbox (`ImplementsMailbox`)? | yes, the liveness while the server is up |
| `chat_leave` | Does the server go on when a client leaves (`ServerGoesOn`)? | **no**: a write or read that fails is `exit(-1)` or SIGPIPE |
| `chat_relogin` | Has every account in `lookup` a connection (`ElsewhereIsTrue`)? | **no**, after two logins on one connection one entry stays for ever |
| `chat_stored` | Is what was stored handed over as it was sent (`StoredAsSent`)? | **no**: it names the receiver as the sender, and has eight bytes |

Bounds.  Three sessions are a sender, a receiver, and one that gets the
receiver's descriptor after it has left; two are enough where descriptors are
not the question.  MaxCommands commands in all sessions together (3 or 4) reach
two stored messages and the login that hands them over, one stored around a
login and one relayed; a registration, a login and a recovery.  MaxFd is the number of sessions, so that no accept waits for a
descriptor.  MaxRestarts is 1 in `chat_mail`.  Sessions are symmetric; no
symmetry is used with liveness.

What the passing runs assume: patient users in all of them, since without them
`chat_relogin` shows `lookup` itself to be wrong; and no torn login in
`chat_accounts`, because a torn login to an account "" that a torn registration
has made is a second login of the same session.  `ServerGoesOn` is not assumed:
the safety properties hold up to and after every end of the server.

Fairness.  The thread goes on with its handler and accepts (`WF` of `Continue`
and `Incoming`).  Each session with something to read is visited (`WF` of
`Visit(k)`): `epoll_wait` is level triggered and the kernel puts a descriptor it
has reported at the end of its ready list, so that one event at a time still
reaches every one.  A client that stays reads (`WF` of `visitor(k)`).  Nothing
says that a user types, stays or leaves.

**Proved** (`ChatProofs`, `ChatUserProofs`), for any number of sessions,
descriptors, accounts, messages and restarts, and for users who do not wait (`Patient` or not, with
or without torn frames): `ChatTypeCorrect`, `OnlineCorrect`, `KeptCorrect` and
`OrderCorrect` for `TypeOK`, `OnlineHasNoMail`, `KeptOrGiven` and
`GivenInOrder`, `AnsweredCorrect` for `AnsweredOnce`, from `ChatAssumption` and
`UserAssumption`; and `MailboxCorrect` for `ImplementsMailbox`, in full, since
the mailbox promises no liveness.  `LookupCorrect` and `ReceiverCorrect`, for
`LookupIsTheUser` and `OnlyTheReceiver`, have the hypothesis `OneLogin`: users
are `Patient`, and no client ends in the middle of a login.  The first half is
needed because of `chat_relogin`.  The second: a login that is torn arrives with
the empty name, and when a torn registration has made an account of that name,
a session that logged in before it has two entries in `lookup`, of which
`ClientIsDown` erases one; the other leads to whoever gets the descriptor next.

The argument.  `OnlineHasNoMail` is what makes relaying and storing agree: a
relayed message finds the table empty, so it may not overtake a stored one.
`KeptOrGiven` needs to know, when `DeleteOffline` empties the table, that every
row of it is written: `RowInRange` and `RowsGiven` carry this through
`SendOffline`.  `GivenInOrder` is proved place by place (`Ordered`): lemmas on
the sequences of one account say that relaying, storing, handing over a row and
deleting keep it, and `OrderedMeans` leads back to the concatenation.  That no
two sessions have one descriptor rests on the lowest free number being free,
that is on the order of the naturals (`LowestType`).

`AnsweredOnce` needs a count: what a user has asked is what waits in the
stream to the server, plus the answers in the stream to the client, plus the one
the server is about to write (`Counted`).  That the handler's answer is counted
for one session only, the one whose frame was read, needs `SessionsOK` (a
session connects once, and is in the backlog or has a descriptor) and
`HandlerOK` (a handler that goes on has a connection, and a login the one
`lookup` has for the account).  `PatientInv` adds what waiting buys: a login in
the stream is that of `global.account` (`LoginsAsTyped`), and a session in
`lookup` has been told so, or is about to be (`LoginSeen`), so that its user
types no second login and the account behind the entry does not change.  With
that a session has one entry at most, and the one entry `ClientIsDown` erases is
all there is before the descriptor is free.

`MailboxCorrect` rests on an account whose login goes on being in `lookup`
(`HandlerOK` again).  `OnlineHasNoMail` then gives `Pass` and `Go` the empty box they
ask for, `RowInRange` gives `Hand` its row, and every end of the process,
wherever it strikes, is `Stop`.

Only model-checked: the liveness, `Answered` and `MailHandedOver`.

Not modelled: a client that stops reading or stops in the middle of a frame
without ending, on which the server blocks.

## 4. Links between clients

A client asks the server for a connection with `p2p`; the server hands the
request to the peer, with an address and a port; the peer connects, puts the
connection into `lookup` and writes `P2PLogin` to it; the asker accepts it and
puts it into its own `lookup` when the login has been read.  From then on
`send` writes to the peer, and files are offered and accepted there.

**`PeerStreams`** is `class TCP` between peers.  A connection has two ends,
side 1 (who called `connect`, the client that was asked) and side 2 (accepted).
`send_data` writes a frame in two parts, `Type` and `Fields`, and a part is what
one `writen` hands over.  `Write` takes a descriptor, as the code does, and finds
out what it is at that moment: an end, the server (`AtServer`), or 0, which is
the terminal.  The server is a relay that takes a whole frame at once (it is
modelled in `ChatServer`).  Ends, breaks and resets are as in `TCPStreams`.

**`PeerClient`** has the two threads of a client.  `main[c].pc` is where the main
thread is: `sendmsg`, `p2p_request`, `file_send` up to the wait for a path
(`file_send_path`), `file_accept` up to its search (`file_accept_find`), and
then `send_type` and `send_fields` of any of them, with the descriptor that was
found before.  `epoll[c].pc` is where the epoll thread is: `Incoming`,
`get_type`, `read_data` with an action of its own for each `action`;
`P2PRequest`, `P2PRequest_link`, `login_type` and `login_fields` are the lines
58, 60 and 67 of `P2PRequest::action`, between which the main thread comes;
`FileSendRequest_names` and `FileSendRequest_file` are the two halves of the
copy into `data`; `PeerIsDown` and `ServerIsDown` are the visitor at an end of
file.  **`PeerLink`** composes clients and states what a link promises.

| Run | Question | Answer |
|---|---|---|
| `peer_links` | Two clients that ask for connections, twice and at once, also of themselves, write, offer and accept files, and one user who leaves or the server that stops: does `lookup` lead to the peer it names (`LookupIsThePeer`), do both sides know a link or will (`LinkIsMutual`), is a message to a peer for that peer (`OnlyTheReceiver`), does the side that connected read whole frames (`ConnectedReadsFrames`), is a transfer one that was offered (`TransferWasOffered`), is what is written read in the end (`EverythingIsRead`), and does every connection become a link (`Linked`)? | yes |
| `peer_frames` | Is no type of the wrong direction read (`NoFakeSymbol`, the assertion of `client_dataflow.cpp:20`)? | **no**: the login is written without `send_mutex`, and a message typed at that moment mixes with it |

Three of these say less than one would like, because the code does less.
`ConnectedReadsFrames` holds for the side that connected only; towards the side
that accepted two threads write.  `OnlyTheReceiver` holds for writers that have
closed no connection: `main` keeps its own copy of the server's descriptor
(`client.cpp:118`), and when the server has gone and a peer has got the number,
`sendmsg` writes a message for somebody else to that peer.  `TransferWasOffered`
holds for answers between whose typing and writing no other request came and no
connection was closed (`alone`): otherwise the path is of one request and the
length, or the receiver, of another, or the answer goes to whoever got the
descriptor `file_accept` had found, and that peer starts the transfer.

What stands for what.  A message has its sender and receiver, a file is its
number and stands for its path and length, and `port` is the file for whose
length a UDP port is open.  `Find` may miss while the epoll thread changes the
map, `Second` is what an iterator gives after its entry was erased or when it is
`lookup.end()`; both are undefined behaviour, and the model has the outcomes of
libstdc++, where the header of the map has no entry and reads as descriptor 0.
Parts that come in the wrong order lead to "astray": what get_type makes of them
is an exit or an assertion (`Misread`), or a wait that never ends, which is why
`Misread` is not fair.  In the case of `peer_frames` it is the assertion: the type
is the last four of the 32 bytes of `peer`, and `COPY` takes them from
`global.account`, where a name of up to fifteen letters is followed by 0.
A user who names a file that is not there is one who leaves (`fopen` gives
null, and the length is that of nothing).  An entry for the empty name is left
out: it is made by a login of which nothing came, whose connection is closed next.

Bounds.  Two clients and two connections are two requests that cross, or two
for the same pair; `Self` (given in **`MCPeerLink`**) adds a user that asks for
itself, which gives one client both ends of a connection, and with them a lookup
of two entries.
MaxCommands = 3 reaches a connection, an offer and its acceptance, or a
connection, another one and a message.  MaxFd is one more than all ends and the
server need.  MaxStops is one leave or stop, after which descriptors come back.
`peer_frames` needs one connection and two commands.

Fairness.  Each thread goes on with what it has begun, and `epoll_wait` hands
over every descriptor that is ready in the end (`WF` of `MainGoesOn` and
`EpollGoesOn`): of the events of a client any may be next, and there are finitely
many once users type no more.  What is typed, the path a user is asked for, and
the ends of users and server are not fair.

**Proved** (`PeerLinkProofs`, `PeerAgreementProofs`), for any number of
clients, connections, descriptors, commands and stops, from
`PeerStreamsAssumption`, `PeerAssumption` and `StopsAssumption`:
`LinkTypeCorrect`, `LookupCorrect` and `ReceiverCorrect` for `TypeOK`,
`LookupIsThePeer` and `OnlyTheReceiver`; `MutualCorrect` for `LinkIsMutual`;
`TransferCorrect` for `TransferWasOffered`; and `FramesCorrect` for
`ConnectedReadsFrames`.

The argument.  `IInv` adds to `LookupIsThePeer` what it rests on: two
connections of a client have different descriptors (`OneEach`), and none has the
server's; what waits in a backlog is there once, is a connection to this client
and has no descriptor (`Backlogs`), so that accepting cannot give one end two;
a login that lies in a stream names the client at the other side (`PartsAt`), so
that reading it enters the right peer; and the end a handler is at is open
(`EndInv`), so that the entry is not a descriptor that has gone.  The step that
matters is `PeerIsDown`: the loop erases one entry and then closes the
descriptor, and `LookupIsThePeer` would fail if two entries named it.  They
cannot: both would be the peer at the other end (`HeldOnce`).
`OnlyTheReceiver` needs the main thread as well (`MessagesRight`): from the search
to the last write, the descriptor it holds is a connection to the receiver or
the server's, as long as this client has closed none; and what it has written is
addressed to the owner of the end it lies in (`StreamsRight`).

`LinkIsMutual` is about two clients and what lies between them, so its invariant
(`KInv`) goes by connection.  `LinkOK(n)` says, as long as both clients of `n`
run, that nobody knows `n` before the epoll thread of the one that connected
has entered it (line 60), and that afterwards that one knows the other
(`KnownBehind`), which knows it too, has gone astray, or has the login still to
read (`KnownAhead`).  Entries are by name and not by connection: when requests
cross, the second login takes the place of the first, which is why both parts
speak of any entry for the peer.  What makes an entry go away is an end of file,
and a connection is closed only after one of its clients has ended
(`ClosedByEnd`), so that `Erase` takes nothing from a link that is alive.

`TransferWasOffered` follows a request through both clients (`OInv`): what lies
in a stream names an offer of its writer (`StreamsOffered`); between the two
halves of the copy the slot `data` has the names of the new request and the
path and length of the old one (`DataOffered`); and an answer nothing has come
between has the port of the length that is in the slot, and the descriptor it
is written to leads to who asked (`AnswerReady`).  Without the second half of
`alone` the last does not hold: the checker found the descriptor given out again
when the proof asked for it.

`ConnectedReadsFrames` needs writer and reader together (`FlowOK`, for each
connection, in `FInv`): what lies in the stream are types and fields in turn,
beginning with what the reader waits for (`Whole`), and the last part is a type
exactly if the main thread of the other client is between its two writes to this
end (`Half`).  The epoll thread of that client writes a login only where it has
connected itself, never here, so the main thread alone moves `Half`.  The step
that could break it is `Incoming`, which gives an accepted connection the lowest
free descriptor: were that the number the main thread holds, the fields of a
frame to another peer would come first here.  As long as the client has closed
nothing, the number is not free (`AtOwn`); that an end without a descriptor is
never written to, and one that is to be accepted never closed, are `ShutEnds` and
`BacklogsOpen`.

Only model-checked: the liveness.

## 5. The plan

Done: the file transfer, the server with the clients that talk to it, and the
links between clients, each with proofs of its types and of the safety it
stands for; the transfer and the server also with abstract specifications
(`FileCopy`, `Mailbox`) they are proved to implement, but for liveness.

What is left:

1. `Framing`: bytes of a part, a part that comes in pieces, a full socket
   buffer; that what `PeerStreams` and `TCPStreams` say of parts and frames is
   implemented by `readn` and `writen`.

### Not modelled

* A client that stops in the middle of a frame without ending, or does not read
  what it is sent: the server, or the peer's thread, blocks in `readn` or `writen`.
* The contents of names, texts, paths and files beyond what the properties tell
  apart; the cipher, timestamps, wording and logging (`naive_hash` is logging).
* The bytes inside a part of a frame, and what a data race on `std::map` does to memory.
* The commands `up`, `down`, `up2` and `down2` of `main`: they are `login`, `p2p`,
  `filesend` and `fileAC` with names fixed in the source.
* `reference/` is vendored, `dirty_test/` is left out of the build.

## 6. Running it

    tlc -workers 2 -config transfer.cfg FileUDP.tla
    tlc -workers 2 -config ack_loop.cfg DatagramACKLoop.tla
    tlc -workers 2 -config chat_mail.cfg MCChat.tla
    tlc -workers 2 -config peer_links.cfg MCPeerLink.tla
    tlapm DatagramACKLoopProofs.tla
    tlapm FileUDPProofs.tla
    tlapm FileSenderProofs.tla
    tlapm ChatProofs.tla
    tlapm ChatUserProofs.tla
    tlapm PeerLinkProofs.tla
    tlapm PeerAgreementProofs.tla

`PROJECT.json` lists the runs with their modules, the lines each definition
models, and for every property of a passing run a defective variant of the code
(the operators marked "Defective" in the modules) that the property rejects.
