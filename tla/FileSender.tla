----------------------------- MODULE FileSender -----------------------------
(***************************************************************************)
(* The thread that sends a file: function sender of protocol/file_udp.cpp. *)
(* Its while(true) body is one round: resend what the lost queue says is   *)
(* due, after a timeout resend everything above main_ack, then send the    *)
(* next packet or, when the windows are full, wait for an acknowledgement. *)
(* Each datagram leaves in a step of its own, so the receiver may run      *)
(* between any two of them.                                                *)
(***************************************************************************)
EXTENDS DatagramACK, Window, UDPNetwork

CONSTANTS
  SOFT_WIND,  \* packets beyond main_ack that may be sent (15)
  HARD_WIND,  \* packets beyond the first missing one that may be sent (20)
  LOST_GAP,   \* growth of main_ack after which a resent packet is taken
              \* for lost again (4)
  MaxLost     \* the model stops timing out when lost_queue would outgrow
              \* this; in the source it has no limit

ASSUME SenderAssumption ==
  /\ SOFT_WIND \in Nat \ {0}
  /\ HARD_WIND \in Nat \ {0}
  /\ HARD_WIND <= SLOTS
  /\ LOST_GAP \in Nat
  /\ MaxLost \in Nat

VARIABLES
  s_pc,           \* "loop", "naks", "done" or "abort"
  total_reply,    \* the acknowledgement taken last
  send_seq_index, \* the next packet never sent before
  lost_queue,     \* packets resent, each with the main_ack that makes it due
  isTimeout,      \* the last wait for an acknowledgement timed out
  count,          \* entries of lost_queue the round has still to look at
  index,          \* the next packet of the resend after a timeout
  s_reply,        \* the acknowledgement being worked on
  nak_i,          \* the entry of s_reply.naks to look at next
  s_base,         \* base of the window
  s_edge,         \* write_edge: the first missing packet that frees slots
  s_data,         \* the ring: the packet of the file each slot holds
  s_fpos          \* packets read from the file

senderVars == <<s_pc, total_reply, send_seq_index, lost_queue, isTimeout,
                count, index, s_reply, nak_i, s_base, s_edge, s_data, s_fpos>>

SenderGone == s_pc \in {"done", "abort"}

SenderInit ==
  /\ s_pc = IF Length >= 2 * SLOTS * SINGLE_LENGTH THEN "loop" ELSE "abort"
  /\ total_reply = NewACK
  /\ send_seq_index = 0
  /\ lost_queue = <<>>
  /\ isTimeout = FALSE
  /\ count = 0 /\ index = 0
  /\ s_reply = NewACK /\ nak_i = 0
  /\ s_base = 0
  /\ s_edge = MinOf(max_seq_index, SLOTS)
  /\ s_data = [j \in 0 .. (max_interval - 1) |-> j]
  /\ s_fpos = max_interval

\* Datagram seq with what operator[] finds in its slot.
Datagram(seq) == [seq_index |-> seq, data |-> s_data[Slot(seq)]]

\* An assertion fails: the client process ends, and its sockets with it.
SenderAbort ==
  /\ s_pc' = "abort"
  /\ ackChan' \in Closed(ackChan)
  /\ UNCHANGED <<dataChan, s_err, r_err, faults>>
  /\ UNCHANGED <<total_reply, send_seq_index, lost_queue, isTimeout, count,
                 index, s_reply, nak_i, s_base, s_edge, s_data, s_fpos>>

\* Defective: one entry more than the queue has.
NextRoundOneMore(reply) ==
  /\ s_pc' = "loop"
  /\ count' = Len(lost_queue) + 1
  /\ index' = reply.main_ack

\* Back to the top of the loop, with the given acknowledgement.
NextRound(reply) ==
  /\ s_pc' = "loop"
  /\ count' = Len(lost_queue)
  /\ index' = reply.main_ack

-----------------------------------------------------------------------------
(* Where the round is                                                       *)

\* The entry at the head of lost_queue is due in this round.
LostIsDue ==
  /\ s_pc = "loop" /\ count > 0
  /\ isTimeout \/ total_reply.main_ack >= Head(lost_queue).trigger_ack

LostRead == LostIsDue /\ ~isAcked(total_reply, Head(lost_queue).seq_index)

\* Defective: the last packet sent is not sent again.
TailReadShort ==
  s_pc = "loop" /\ ~LostIsDue /\ isTimeout /\ index + 1 < send_seq_index

\* After a timeout a packet above main_ack is still to be sent again.
TailRead == s_pc = "loop" /\ ~LostIsDue /\ isTimeout /\ index < send_seq_index

ResendDone == s_pc = "loop" /\ ~LostIsDue /\ ~TailRead

WindowFull ==
  \/ send_seq_index >= max_seq_index
  \/ send_seq_index >= total_reply.main_ack + SOFT_WIND
  \/ send_seq_index >= bottom_ack(total_reply) + HARD_WIND

NextRead == ResendDone /\ ~WindowFull

Waiting == ResendDone /\ WindowFull

NaksLeft == s_pc = "naks" /\ nak_i < NAK_SIZE /\ s_reply.naks[nak_i] # INACTIVE

\* A nak above main_ack is a loss the sender has not heard of before.
NakRead == NaksLeft /\ s_reply.naks[nak_i] >= total_reply.main_ack

\* The packet operator[] of the window is asked for next, if any.
Reads ==
  (IF LostRead THEN {Head(lost_queue).seq_index} ELSE {})
    \union (IF TailRead THEN {index} ELSE {})
    \union (IF NextRead THEN {send_seq_index} ELSE {})
    \union (IF NakRead THEN {s_reply.naks[nak_i]} ELSE {})

\* The assertion of operator[] ends the client.
WindowAssert ==
  /\ \E i \in Reads : ~InWindow(s_base, i)
  /\ SenderAbort

\* Packet seq leaves in a datagram.
Transmit(seq) ==
  /\ InWindow(s_base, seq)
  /\ SendData(Datagram(seq))
  /\ UNCHANGED <<ackChan, r_err>>

\* Packet seq is taken for lost again when main_ack has come to trigger.
Lost(seq, trigger) == [seq_index |-> seq, trigger_ack |-> trigger]

-----------------------------------------------------------------------------
(* Resending and sending                                                    *)

\* One entry of lost_queue that is due.
FixLost ==
  /\ LostIsDue
  /\ LET seq == Head(lost_queue).seq_index IN
     \/ /\ isAcked(total_reply, seq)
        /\ lost_queue' = Tail(lost_queue)
        /\ UNCHANGED netVars
     \/ /\ ~isAcked(total_reply, seq)
        /\ Transmit(seq)
        /\ lost_queue' = Append(Tail(lost_queue),
                                Lost(seq, total_reply.main_ack + LOST_GAP))
  /\ count' = count - 1
  /\ UNCHANGED <<s_pc, total_reply, send_seq_index, isTimeout, index, s_reply,
                 nak_i, s_base, s_edge, s_data, s_fpos>>

\* One packet of the resend of everything above main_ack.
ResendTail ==
  /\ TailRead
  /\ Transmit(index)
  /\ lost_queue' = Append(lost_queue, Lost(index, index + LOST_GAP))
  /\ index' = index + 1
  /\ UNCHANGED <<s_pc, total_reply, send_seq_index, isTimeout, count, s_reply,
                 nak_i, s_base, s_edge, s_data, s_fpos>>

SendNext ==
  /\ NextRead
  /\ Transmit(send_seq_index)
  /\ send_seq_index' = send_seq_index + 1
  /\ isTimeout' = FALSE
  /\ NextRound(total_reply)
  /\ UNCHANGED <<total_reply, lost_queue, s_reply, nak_i, s_base, s_edge,
                 s_data, s_fpos>>

-----------------------------------------------------------------------------
(* Waiting for an acknowledgement                                           *)

\* recv times out: because nothing is on its way, or early, which is a fault.
Timeout ==
  /\ Waiting /\ ~s_err
  /\ Len(lost_queue) + (send_seq_index - total_reply.main_ack) <= MaxLost
  /\ IF dataChan = <<>> /\ ackChan = <<>> THEN UNCHANGED faults ELSE Fault
  /\ isTimeout' = TRUE
  /\ NextRound(total_reply)
  /\ UNCHANGED <<dataChan, ackChan, s_err, r_err>>
  /\ UNCHANGED <<total_reply, send_seq_index, lost_queue, s_reply, nak_i,
                 s_base, s_edge, s_data, s_fpos>>

\* recv reports the refused port and the assertion on errno ends the client.
SenderRefused ==
  /\ Waiting /\ s_err
  /\ SenderAbort

\* Defective: a single missing packet goes unnoticed.
TellsLossLate(reply) ==
  total_reply.main_ack < (reply.main_ack - 2) % (INACTIVE + 1)

\* reply.main_ack - 2 is an unsigned int.
TellsLoss(reply) ==
  total_reply.main_ack <= (reply.main_ack - 2) % (INACTIVE + 1)

RecvAck ==
  /\ Waiting /\ ~s_err /\ ackChan # <<>>
  /\ s_pc' = "naks"
  /\ s_reply' = Head(ackChan)
  /\ ackChan' = Tail(ackChan)
  /\ nak_i' = IF TellsLoss(Head(ackChan)) THEN 0 ELSE NAK_SIZE
  /\ isTimeout' = FALSE
  /\ UNCHANGED <<dataChan, s_err, r_err, faults>>
  /\ UNCHANGED <<total_reply, send_seq_index, lost_queue, count, index,
                 s_base, s_edge, s_data, s_fpos>>

\* One entry of s_reply.naks.
ResendNak ==
  /\ NaksLeft
  /\ LET nak == s_reply.naks[nak_i] IN
     \/ ~NakRead /\ UNCHANGED <<lost_queue, netVars>>
     \/ /\ NakRead
        /\ Transmit(nak)
        /\ lost_queue' = Append(lost_queue,
                                Lost(nak, total_reply.main_ack + LOST_GAP))
  /\ nak_i' = nak_i + 1
  /\ UNCHANGED <<s_pc, total_reply, send_seq_index, isTimeout, count, index,
                 s_reply, s_base, s_edge, s_data, s_fpos>>

\* Defective: the window is moved before the block is read.
FreadSlotAfterPush == Slot(s_base + SLOTS)

\* The slot raw_ptr() points to.
FreadSlot == Slot(s_base)

\* fread of the next SLOTS packets over the ones that are acknowledged.
Refill ==
  LET first == FreadSlot
      n     == MinOf(SLOTS, max_seq_index - s_fpos)
  IN /\ s_data' = [j \in 0 .. (max_interval - 1) |->
                     IF first <= j /\ j < first + n
                     THEN s_fpos + (j - first)
                     ELSE s_data[j]]
     /\ s_fpos' = s_fpos + n
     /\ s_base' = s_base + SLOTS
     /\ s_edge' = s_edge + SLOTS

\* The acknowledgement becomes total_reply, slots are freed, and the thread
\* ends (and closes its socket) when every packet is acknowledged.
TakeReply ==
  /\ s_pc = "naks" /\ ~NaksLeft
  /\ total_reply' = s_reply
  /\ IF bottom_ack(s_reply) >= s_edge
     THEN Refill
     ELSE UNCHANGED <<s_base, s_edge, s_data, s_fpos>>
  /\ IF bottom_ack(s_reply) >= max_seq_index
     THEN /\ s_pc' = "done"
          /\ ackChan' \in Closed(ackChan)
          /\ UNCHANGED <<count, index>>
     ELSE NextRound(s_reply) /\ UNCHANGED ackChan
  /\ s_reply' = NewACK /\ nak_i' = 0
  /\ UNCHANGED <<send_seq_index, lost_queue, isTimeout>>
  /\ UNCHANGED <<dataChan, s_err, r_err, faults>>

SenderNext ==
  \/ FixLost \/ ResendTail \/ SendNext \/ WindowAssert
  \/ Timeout \/ SenderRefused
  \/ RecvAck \/ ResendNak \/ TakeReply
=============================================================================
