---------------------------- MODULE FileReceiver ----------------------------
(***************************************************************************)
(* The thread that receives a file: function receiver of                   *)
(* protocol/file_udp.cpp and the end of the thread open_receive_port       *)
(* starts.  The file is written SLOTS packets at a time, when the first    *)
(* missing packet has passed write_edge.                                   *)
(***************************************************************************)
EXTENDS DatagramACK, Window, UDPNetwork

VARIABLES
  r_pc,         \* "recv", "linger", "closed" or "abort"
  isFirstRecv,  \* no datagram came yet, the socket is not connected
  reply,        \* the acknowledgement sent for every datagram
  r_base,       \* base of the window
  r_edge,       \* write_edge
  r_data,       \* the ring: the packet each slot holds
  file          \* the bytes written, each as its offset in the source file

receiverVars == <<r_pc, isFirstRecv, reply, r_base, r_edge, r_data, file>>

Blank == -1  \* a slot that was never filled

ReceiverGone == r_pc \in {"closed", "abort"}

ReceiverInit ==
  /\ r_pc = "recv"
  /\ isFirstRecv = TRUE
  /\ reply = NewACK
  /\ r_base = 0
  /\ r_edge = SLOTS
  /\ r_data = [j \in 0 .. (max_interval - 1) |-> Blank]
  /\ file = <<>>

\* Defective: the window is moved before the block is written.
WriteBytesAfterPush(ring) ==
  LET write_length == MinOf(Length, SINGLE_LENGTH * r_edge)
                        - r_base * SINGLE_LENGTH
  IN [k \in 1 .. write_length |->
        SINGLE_LENGTH * ring[Slot(r_base + SLOTS) + ((k - 1) \div SINGLE_LENGTH)]
          + ((k - 1) % SINGLE_LENGTH)]

\* Defective: the last packet is written in full.
WriteBytesFull(ring) ==
  LET write_length == SINGLE_LENGTH * r_edge - r_base * SINGLE_LENGTH
  IN [k \in 1 .. write_length |->
        SINGLE_LENGTH * ring[Slot(r_base) + ((k - 1) \div SINGLE_LENGTH)]
          + ((k - 1) % SINGLE_LENGTH)]

\* The bytes fwrite takes from the ring, from the slot of the base on.
WriteBytes(ring) ==
  LET write_length == MinOf(Length, SINGLE_LENGTH * r_edge)
                        - r_base * SINGLE_LENGTH
  IN [k \in 1 .. write_length |->
        SINGLE_LENGTH * ring[Slot(r_base) + ((k - 1) \div SINGLE_LENGTH)]
          + ((k - 1) % SINGLE_LENGTH)]

\* A new packet goes into the ring; if the first missing packet has reached
\* write_edge, a block is written and the window moves on.
Store(seq, data, reply_now) ==
  /\ r_data' = [r_data EXCEPT ![Slot(seq)] = data]
  /\ IF bottom_ack(reply_now) >= r_edge
     THEN /\ file' = file \o WriteBytes(r_data')
          /\ r_edge' = MinOf(max_seq_index, r_edge + SLOTS)
          /\ r_base' = r_base + SLOTS
          /\ r_pc' = IF empty(r_base') THEN "linger" ELSE "recv"
     ELSE UNCHANGED <<r_pc, r_base, r_edge, file>>

RecvData ==
  /\ r_pc = "recv" /\ ~r_err /\ dataChan # <<>>
  /\ LET d   == Head(dataChan)
         new == update_returns(reply, d.seq_index)
     IN /\ reply' = update(reply, d.seq_index)
        /\ IF new /\ ~InWindow(r_base, d.seq_index)
           THEN /\ r_pc' = "abort"
                /\ UNCHANGED <<r_base, r_edge, r_data, file, ackChan, faults>>
           ELSE /\ IF new
                   THEN Store(d.seq_index, d.data, reply')
                   ELSE UNCHANGED <<r_pc, r_base, r_edge, r_data, file>>
                /\ SendAck(reply')
  /\ dataChan' = Tail(dataChan)
  /\ isFirstRecv' = FALSE
  /\ UNCHANGED <<s_err, r_err>>

\* Defective: what comes after the last block is not answered.
RecvLingerSilent ==
  /\ r_pc = "linger" /\ ~r_err /\ dataChan # <<>>
  /\ dataChan' = Tail(dataChan)
  /\ UNCHANGED <<ackChan, faults, s_err, r_err, receiverVars>>

\* After the last block every datagram is answered with the final record.
RecvLinger ==
  /\ r_pc = "linger" /\ ~r_err /\ dataChan # <<>>
  /\ SendAck(reply)
  /\ dataChan' = Tail(dataChan)
  /\ UNCHANGED <<s_err, r_err, receiverVars>>

\* Half a second without a datagram ends the thread: the socket and the file
\* are closed.  It comes when nothing is on its way and the sender is gone;
\* before that, it takes a sender held up for as long, which is a fault.
LingerTimeout(senderGone) ==
  /\ r_pc = "linger" /\ ~r_err
  /\ IF dataChan = <<>> /\ senderGone THEN UNCHANGED faults ELSE Fault
  /\ r_pc' = "closed"
  /\ dataChan' \in Closed(dataChan)
  /\ UNCHANGED <<ackChan, s_err, r_err>>
  /\ UNCHANGED <<isFirstRecv, reply, r_base, r_edge, r_data, file>>

\* recv reports the refused port and the assertion on errno ends the client,
\* with what stdio had not written yet.
ReceiverRefused ==
  /\ r_pc \in {"recv", "linger"} /\ ~isFirstRecv /\ r_err
  /\ r_pc' = "abort"
  /\ dataChan' \in Closed(dataChan)
  /\ UNCHANGED <<ackChan, s_err, r_err, faults>>
  /\ UNCHANGED <<isFirstRecv, reply, r_base, r_edge, r_data, file>>

ReceiverNext(senderGone) ==
  \/ RecvData \/ RecvLinger \/ LingerTimeout(senderGone) \/ ReceiverRefused
=============================================================================
