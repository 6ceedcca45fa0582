------------------------------ MODULE FileUDP ------------------------------
(***************************************************************************)
(* A file transfer: one sender thread, one receiver thread and the network *)
(* between them (protocol/file_udp.cpp).                                   *)
(***************************************************************************)
EXTENDS FileSender, FileReceiver

\* Packet numbers are unsigned ints; the largest one marks an unused nak.
ASSUME FileAssumption == max_seq_index < INACTIVE

vars == <<senderVars, receiverVars, netVars>>

Init == SenderInit /\ ReceiverInit /\ NetInit

Sender == SenderNext /\ UNCHANGED receiverVars

Receiver == ReceiverNext(SenderGone) /\ UNCHANGED senderVars

Network ==
  /\ \/ ReorderData \/ ReorderAcks
     \/ DataRefused(ReceiverGone, SenderGone)
     \/ AckRefused(SenderGone, ReceiverGone)
  /\ UNCHANGED <<senderVars, receiverVars>>

Next == Sender \/ Receiver \/ Network

Spec == Init /\ [][Next]_vars

\* The two threads run; a datagram sent to a closed port is refused.
Fairness ==
  /\ WF_vars(Sender)
  /\ WF_vars(Receiver)
  /\ WF_vars(Network)

FairSpec == Spec /\ Fairness

-----------------------------------------------------------------------------
(* Types                                                                    *)

Packets == 0 .. (max_seq_index - 1)

Rings == 0 .. (max_interval - 1)

\* A datagram carries the packet it names.
Datagrams == {[seq_index |-> p, data |-> p] : p \in Packets}

Acks == {a \in ACK : WellFormed(a) /\ a.main_ack <= max_seq_index}

LostPacks == [seq_index : Packets, trigger_ack : Nat]

SenderTypeOK ==
  /\ s_pc \in {"loop", "naks", "done", "abort"}
  /\ total_reply \in Acks
  /\ send_seq_index \in 0 .. max_seq_index
  /\ lost_queue \in Seq(LostPacks)
  /\ isTimeout \in BOOLEAN
  /\ count \in 0 .. Len(lost_queue)
  /\ index \in Nat
  /\ s_reply \in Acks
  /\ nak_i \in 0 .. NAK_SIZE
  /\ s_base \in Nat /\ s_edge \in Nat /\ s_fpos \in Nat
  /\ s_data \in [Rings -> Nat]

ReceiverTypeOK ==
  /\ r_pc \in {"recv", "linger", "closed", "abort"}
  /\ isFirstRecv \in BOOLEAN
  /\ reply \in Acks
  /\ r_base \in Nat /\ r_edge \in Nat
  /\ r_data \in [Rings -> Packets \union {Blank}]
  /\ file \in Seq(Nat)

NetTypeOK ==
  /\ dataChan \in Seq(Datagrams)
  /\ ackChan \in Seq(Acks)
  /\ s_err \in BOOLEAN /\ r_err \in BOOLEAN
  /\ faults \in 0 .. MaxFaults

\* The variables have their types.  Those of the channels say that no
\* datagram leaves with another packet's data and that every acknowledgement
\* is a record update can have made.
TypeOK == SenderTypeOK /\ ReceiverTypeOK /\ NetTypeOK

-----------------------------------------------------------------------------
(* Safety                                                                   *)

\* The bytes fwrite was given are the bytes of the source file, in order and
\* from its start, whatever was lost, resent, repeated or overtaken.
FileIsPrefix == file = [k \in 1 .. Len(file) |-> k - 1]

\* A packet the receiver acknowledges is in the file or in its ring: an
\* acknowledged packet is never sent again, so it must not be dropped by
\* update, overwritten in the ring or passed over by a block.
AckedIsHeld ==
  r_pc # "abort" =>
    \A p \in Received(reply) :
      \/ p < r_base /\ Len(file) >= MinOf(Length, (p + 1) * SINGLE_LENGTH)
      \/ InWindow(r_base, p) /\ r_data[Slot(p)] = p

\* The receiver ends (file_udp.cpp, endOfRecv) only with the whole file.
EndsComplete == r_pc \in {"linger", "closed"} => Len(file) = Length

\* The sender closes its socket only when the receiver holds every packet.
SenderDoneSound == s_pc = "done" => Received(reply) = Packets

\* Whatever the sender reads through operator[] is inside the window, so its
\* assertion holds, and the slot holds the packet the number names.
ReadsInWindow ==
  \A i \in Reads : InWindow(s_base, i) /\ s_data[Slot(i)] = i

\* A packet the last acknowledgement lists as missing is in lost_queue, and
\* will be resent: the naks of an acknowledgement are looked at once only.
LossRemembered ==
  s_pc \in {"loop", "naks"} =>
    \A p \in 0 .. (total_reply.main_ack - 1) :
      isAcked(total_reply, p)
        \/ \E k \in 1 .. Len(lost_queue) : lost_queue[k].seq_index = p

\* The receiver never takes back an acknowledgement.
AcksGrow ==
  [][/\ Received(reply) \subseteq Received(reply')
     /\ bottom_ack(reply) <= bottom_ack(reply')]_vars

\* Nor does the sender's view of it go back.
ViewGrows ==
  [][/\ Received(total_reply) \subseteq Received(total_reply')
     /\ total_reply.main_ack <= total_reply'.main_ack]_vars

\* assert(errno == EAGAIN) of UDP::recv, the assertion on fread and those of
\* Window hold: no assertion ends a client.
NoAssertFails == s_pc # "abort" /\ r_pc # "abort"

\* A sender that is done leaves a receiver with the whole file.
DoneMeansWritten == s_pc = "done" => Len(file) = Length

-----------------------------------------------------------------------------
(* Why the receiver is right: an inductive invariant                        *)

\* A slot inside the sender's window holds the packet of its number; one
\* half of the ring is refilled at a time.
SenderRing ==
  s_pc # "abort" =>
    /\ Slot(s_base) \in {0, SLOTS}
    /\ s_fpos = offset_end(s_base)
    /\ \A i \in s_base .. (offset_end(s_base) - 1) : s_data[Slot(i)] = i

\* write_edge is one block above the base, or at the end of the file.
ReceiverWindow ==
  /\ Slot(r_base) \in {0, SLOTS}
  /\ r_pc = "recv" =>
       /\ ~empty(r_base)
       /\ \/ r_edge = r_base + SLOTS
          \/ r_edge = max_seq_index /\ max_seq_index <= r_base + SLOTS
  /\ r_pc \in {"linger", "closed"} => empty(r_base)

\* What is below the base has been written, and nothing else.
FileWritten ==
  /\ FileIsPrefix
  /\ Len(file) = MinOf(Length, r_base * SINGLE_LENGTH)

\* What has been taken in and is not below the base is in the ring.
RingHolds ==
  r_pc # "abort" =>
    \A p \in Received(reply) :
      p < r_base \/ (InWindow(r_base, p) /\ r_data[Slot(p)] = p)

\* The inductive invariant: FileIsPrefix, AckedIsHeld and EndsComplete follow
\* from it, and the step property AcksGrow from it and a step.
IInv == TypeOK /\ SenderRing /\ ReceiverWindow /\ FileWritten /\ RingHolds

-----------------------------------------------------------------------------
(* Why the sender is right                                                  *)

\* An acknowledgement on its way or taken says nothing the receiver's record
\* does not say.
AcksBehind ==
  /\ \A i \in 1 .. Len(ackChan) : Received(ackChan[i]) \subseteq Received(reply)
  /\ Received(s_reply) \subseteq Received(reply)
  /\ Received(total_reply) \subseteq Received(reply)

\* The thread ends when nothing is missing from the acknowledgement it took.
DoneIsAll == s_pc = "done" => bottom_ack(total_reply) >= max_seq_index

\* What comes later acknowledges at least as much.
AcksInOrder ==
  /\ s_pc = "naks" => Received(total_reply) \subseteq Received(s_reply)
  /\ \A i \in 1 .. Len(ackChan) :
       /\ Received(total_reply) \subseteq Received(ackChan[i])
       /\ Received(s_reply) \subseteq Received(ackChan[i])
       /\ \A j \in 1 .. (i - 1) : Received(ackChan[j]) \subseteq Received(ackChan[i])

\* Whatever is known of a packet, it has been sent before.
SentFirst ==
  /\ reply.main_ack <= send_seq_index
  /\ \A i \in 1 .. Len(dataChan) : dataChan[i].seq_index < send_seq_index
  /\ \A k \in 1 .. Len(lost_queue) : lost_queue[k].seq_index < send_seq_index

\* The first missing packet is in the lower block of the window, and HARD_WIND
\* keeps the last one sent inside it.
SenderWindow ==
  s_pc \in {"loop", "naks"} =>
    /\ s_edge = s_base + SLOTS
    /\ s_base <= bottom_ack(total_reply) /\ bottom_ack(total_reply) < s_edge
    /\ send_seq_index <= bottom_ack(total_reply) + HARD_WIND
    /\ s_pc = "loop" => total_reply.main_ack <= index

\* The naks below nak_i that tell of a loss are in lost_queue.
NaksHeard ==
  s_pc = "naks" =>
    \A i \in Slots :
      i < nak_i /\ s_reply.naks[i] # INACTIVE /\ s_reply.naks[i] >= total_reply.main_ack
        => \E k \in 1 .. Len(lost_queue) : lost_queue[k].seq_index = s_reply.naks[i]

\* Inductive whatever is overtaken: SenderDoneSound follows.
DoneInv == IInv /\ AcksBehind /\ DoneIsAll /\ SentFirst

\* Inductive when acknowledgements stay in order: ReadsInWindow follows, and
\* ViewGrows from it and a step.
OrderInv ==
  DoneInv /\ AcksInOrder /\ SenderWindow /\ LossRemembered /\ NaksHeard

-----------------------------------------------------------------------------
(* Liveness                                                                 *)

\* The whole file is written, and the thread that receives it ends.
Delivered == <>(Len(file) = Length /\ ReceiverGone)

\* The sender hears in the end that everything has arrived, also when the
\* acknowledgement that says so is lost: a receiver that has the whole file
\* goes on answering.  Excepted is a sender that was held up until the
\* receiver had closed its socket.
SenderHears == <>(s_pc = "done" \/ (ReceiverGone /\ ~SenderGone))

-----------------------------------------------------------------------------
(* Refinement                                                               *)

\* What the transfer is to the user of the receiving client.
copyState ==
  [recv |-> "copying", linger |-> "complete", closed |-> "saved", abort |-> "failed"][r_pc]

Copying == INSTANCE FileCopy WITH out <- file, state <- copyState

\* The transfer is a copy of the file, block after block, that goes on until
\* the file is saved or the client dies.
ImplementsFileCopy == Copying!FairSpec
=============================================================================
