----------------------------- MODULE UDPNetwork -----------------------------
(***************************************************************************)
(* class UDP and class Jam of protocol/file_udp.h with the network under   *)
(* them: one datagram channel from the file sender to the file receiver    *)
(* and one back, each a queue that ends in the socket buffer of the        *)
(* reader.  A datagram may be lost when it is sent (Jam::lost, a full      *)
(* socket buffer, the network) and may be overtaken.  A datagram that      *)
(* reaches a closed port comes back as a pending error on the connected    *)
(* socket it was sent from: the next send of that socket fails and clears  *)
(* the error, the next recv reports it.                                    *)
(***************************************************************************)
EXTENDS Integers, Sequences

CONSTANTS
  ChanCap,    \* datagrams a channel holds, the ones beyond it are dropped
  MaxFaults,  \* losses, early timeouts and reorderings in one behaviour
  Reorders    \* the channels in which datagrams may overtake: a subset of
              \* {"data", "ack"}

ASSUME NetworkAssumption ==
  /\ ChanCap \in Nat \ {0}
  /\ MaxFaults \in Nat
  /\ Reorders \subseteq {"data", "ack"}

VARIABLES
  dataChan,   \* datagrams on the way to the receiver
  ackChan,    \* acknowledgements on the way to the sender
  s_err,      \* an ECONNREFUSED is pending on the sender's socket
  r_err,      \* an ECONNREFUSED is pending on the receiver's socket
  faults      \* faults so far

netVars == <<dataChan, ackChan, s_err, r_err, faults>>

NetInit ==
  /\ dataChan = <<>> /\ ackChan = <<>>
  /\ s_err = FALSE /\ r_err = FALSE
  /\ faults = 0

Fault == faults < MaxFaults /\ faults' = faults + 1

\* UDP::send on the sender's socket; UDP::send drops the status of ::send.
SendData(d) ==
  \/ Fault /\ UNCHANGED <<dataChan, s_err>>
  \/ s_err /\ s_err' = FALSE /\ UNCHANGED <<dataChan, faults>>
  \/ /\ ~s_err
     /\ dataChan' = IF Len(dataChan) < ChanCap THEN Append(dataChan, d)
                                                ELSE dataChan
     /\ UNCHANGED <<s_err, faults>>

\* UDP::send on the receiver's socket.  The receiver sends only right after
\* a recv that reported no error.
SendAck(a) ==
  \/ Fault /\ UNCHANGED ackChan
  \/ /\ ackChan' = IF Len(ackChan) < ChanCap THEN Append(ackChan, a)
                                             ELSE ackChan
     /\ UNCHANGED faults

Swap(chan, i) ==
  [chan EXCEPT ![i] = chan[i + 1], ![i + 1] = chan[i]]

ReorderData ==
  /\ "data" \in Reorders
  /\ Fault
  /\ \E i \in 1 .. (Len(dataChan) - 1) : dataChan' = Swap(dataChan, i)
  /\ UNCHANGED <<ackChan, s_err, r_err>>

ReorderAcks ==
  /\ "ack" \in Reorders
  /\ Fault
  /\ \E i \in 1 .. (Len(ackChan) - 1) : ackChan' = Swap(ackChan, i)
  /\ UNCHANGED <<dataChan, s_err, r_err>>

\* Closing a socket drops what is in its buffer; what is still on the wire
\* finds the port closed.
Closed(chan) == {chan, <<>>}

\* A datagram comes to a port that is closed; the error it causes is of no
\* interest to a socket that is closed as well.
DataRefused(receiverGone, senderGone) ==
  /\ receiverGone /\ dataChan # <<>>
  /\ dataChan' = Tail(dataChan)
  /\ s_err' = (s_err \/ ~senderGone)
  /\ UNCHANGED <<ackChan, r_err, faults>>

AckRefused(senderGone, receiverGone) ==
  /\ senderGone /\ ackChan # <<>>
  /\ ackChan' = Tail(ackChan)
  /\ r_err' = (r_err \/ ~receiverGone)
  /\ UNCHANGED <<dataChan, s_err, faults>>
=============================================================================
