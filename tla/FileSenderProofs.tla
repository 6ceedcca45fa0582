-------------------------- MODULE FileSenderProofs --------------------------
(***************************************************************************)
(* What the sender of a file believes is right, for every file, window and *)
(* record.  It ends only when the receiver holds every packet, whatever is *)
(* overtaken; and if acknowledgements keep their order its view of them    *)
(* only grows, it remembers each loss it is told of and reads its ring     *)
(* only inside the window.                                                 *)
(***************************************************************************)
EXTENDS FileUDPProofs

-----------------------------------------------------------------------------
(* Acknowledgements that say more                                           *)

LEMMA AckNumbers ==
  ASSUME NEW a \in Acks
  PROVE  /\ WellFormed(a) /\ a \in ACK
         /\ a.main_ack \in Nat /\ a.main_ack <= max_seq_index
         /\ bottom_ack(a) \in Nat /\ bottom_ack(a) <= a.main_ack
         /\ bottom_ack(a) \notin Received(a)
         /\ \A p \in Received(a) : p \in Nat /\ p < a.main_ack
         /\ \A p \in Nat : p < bottom_ack(a) => p \in Received(a)
<1>1. WellFormed(a) /\ a \in ACK /\ a.main_ack \in Nat /\ a.main_ack <= max_seq_index
  BY DEF Acks, ACK
<1>2. /\ bottom_ack(a) \in 0 .. a.main_ack
      /\ bottom_ack(a) \notin Received(a)
      /\ \A p \in 0 .. (bottom_ack(a) - 1) : p \in Received(a)
  BY <1>1, BottomIsFirstMissing
<1>3. \A p \in Received(a) : p \in Nat /\ p < a.main_ack
  BY <1>1 DEF Received
<1> QED BY <1>1, <1>2, <1>3

\* The entries of naks that are in use are below main_ack - 1, and behind one
\* that is not in use none is.
LEMMA NakBelow ==
  ASSUME NEW a \in Acks
  PROVE  /\ \A i \in Slots : a.naks[i] \in Nat
         /\ \A i \in Slots : a.naks[i] # INACTIVE => a.naks[i] + 1 < a.main_ack
         /\ \A i, j \in Slots :
              i <= j /\ a.naks[i] = INACTIVE => a.naks[j] = INACTIVE
<1>0. a \in ACK /\ a.main_ack \in Nat /\ WellFormed(a)
  BY AckNumbers
<1>1. PICK n \in 0 .. NAK_SIZE : Shape(a, n)
  BY <1>0 DEF WellFormed
<1>2. \A i \in Slots : i \in Nat /\ a.naks[i] \in Nat
  <2>1. a.naks \in [Slots -> Nat]
    BY <1>0 DEF ACK
  <2>2. \A i \in Slots : i \in Nat
    BY ACKAssumption DEF Slots
  <2> QED BY <2>1, <2>2
<1>3. ASSUME NEW i \in Slots, a.naks[i] # INACTIVE
      PROVE  i < n /\ a.naks[i] + 1 < a.main_ack
  BY <1>1, <1>2, <1>3 DEF Shape
<1>4. ASSUME NEW i \in Slots, NEW j \in Slots, i <= j, a.naks[i] = INACTIVE
      PROVE  a.naks[j] = INACTIVE
  <2>1. ~(i < n)
    <3>1. i < n => a.naks[i] + 1 < a.main_ack /\ a.main_ack <= INACTIVE
      BY <1>1 DEF Shape
    <3> QED BY <1>0, <1>2, <1>4, <3>1, ACKAssumption
  <2> QED BY <1>1, <1>2, <1>4, <2>1 DEF Shape
<1> QED BY <1>2, <1>3, <1>4

\* The last packet below main_ack has been taken in.
LEMMA LastIsReceived ==
  ASSUME NEW a \in Acks, a.main_ack > 0
  PROVE  a.main_ack - 1 \in Received(a)
<1>1. a.main_ack \in Nat /\ a.main_ack <= INACTIVE
  BY AckNumbers DEF WellFormed, Shape
<1>2. \A i \in Slots : a.naks[i] # a.main_ack - 1
  BY <1>1, NakBelow, ACKAssumption
<1> QED BY <1>1, <1>2 DEF Received, isAcked

\* A record that says at least as much is not behind.
LEMMA AckMono ==
  ASSUME NEW a \in Acks, NEW b \in Acks, Received(a) \subseteq Received(b)
  PROVE  a.main_ack <= b.main_ack /\ bottom_ack(a) <= bottom_ack(b)
<1>1. a.main_ack <= b.main_ack
  <2>1. CASE a.main_ack = 0
    BY <2>1, AckNumbers
  <2>2. CASE a.main_ack > 0
    <3>1. a.main_ack - 1 \in Received(b)
      BY <2>2, LastIsReceived
    <3>2. a.main_ack - 1 < b.main_ack
      BY <3>1, AckNumbers
    <3> QED BY <3>2, AckNumbers
  <2> QED BY <2>1, <2>2, AckNumbers
<1>2. ~(bottom_ack(b) < bottom_ack(a))
  BY AckNumbers
<1> QED BY <1>1, <1>2, AckNumbers

-----------------------------------------------------------------------------
(* Channels and queues                                                      *)

\* The packets named in a channel or in lost_queue.
Named(q) == {q[k].seq_index : k \in 1 .. Len(q)}

\* What is left of a channel when it is read or closed.
Suffix(next, chan) ==
  \E n \in Nat : \A k \in 1 .. Len(next) :
    k + n \in 1 .. Len(chan) /\ next[k] = chan[k + n]

LEMMA SuffixSame ==
  ASSUME NEW S, NEW chan \in Seq(S)
  PROVE  Suffix(chan, chan)
<1>1. \A k \in 1 .. Len(chan) : k + 0 \in 1 .. Len(chan) /\ chan[k] = chan[k + 0]
  OBVIOUS
<1> QED BY <1>1 DEF Suffix

LEMMA SuffixTail ==
  ASSUME NEW S, NEW chan \in Seq(S), chan # <<>>
  PROVE  Suffix(Tail(chan), chan)
<1>1. \A k \in 1 .. Len(Tail(chan)) :
        k + 1 \in 1 .. Len(chan) /\ Tail(chan)[k] = chan[k + 1]
  BY HeadTailProperties
<1> QED BY <1>1 DEF Suffix

LEMMA SuffixClosed ==
  ASSUME NEW S, NEW chan \in Seq(S), NEW next \in Closed(chan)
  PROVE  Suffix(next, chan)
<1>1. CASE next = chan
  BY <1>1, SuffixSame
<1>2. CASE next = <<>>
  <2>1. \A k \in 1 .. Len(<<>>) : k + 0 \in 1 .. Len(chan) /\ <<>>[k] = chan[k + 0]
    OBVIOUS
  <2> QED BY <1>2, <2>1 DEF Suffix
<1> QED BY <1>1, <1>2 DEF Closed

LEMMA NamedSuffix ==
  ASSUME NEW next, NEW chan, Suffix(next, chan)
  PROVE  Named(next) \subseteq Named(chan)
BY DEF Suffix, Named

LEMMA NamedAppend ==
  ASSUME NEW S, NEW q \in Seq(S), NEW e \in S
  PROVE  Named(Append(q, e)) = Named(q) \union {e.seq_index}
<1>1. /\ Len(q) \in Nat /\ Len(Append(q, e)) = Len(q) + 1
      /\ \A k \in 1 .. Len(q) : Append(q, e)[k] = q[k]
      /\ Append(q, e)[Len(q) + 1] = e
  BY AppendProperties, LenProperties
<1>2. 1 .. (Len(q) + 1) = (1 .. Len(q)) \union {Len(q) + 1}
  BY <1>1
<1> QED BY <1>1, <1>2 DEF Named

LEMMA NamedTail ==
  ASSUME NEW S, NEW q \in Seq(S), q # <<>>
  PROVE  Named(q) = {Head(q).seq_index} \union Named(Tail(q))
<1>1. /\ Len(q) \in Nat /\ Len(q) > 0 /\ Head(q) = q[1]
      /\ Len(Tail(q)) = Len(q) - 1
      /\ \A k \in 1 .. Len(Tail(q)) : Tail(q)[k] = q[k + 1]
  BY HeadTailProperties, LenProperties, EmptySeq
<1>2. ASSUME NEW k \in 1 .. Len(q)
      PROVE  q[k].seq_index \in {Head(q).seq_index} \union Named(Tail(q))
  <2>1. CASE k = 1
    BY <1>1, <2>1
  <2>2. CASE k # 1
    <3>1. k - 1 \in 1 .. Len(Tail(q)) /\ Tail(q)[k - 1] = q[k]
      BY <1>1, <2>2
    <3> QED BY <3>1 DEF Named
  <2> QED BY <2>1, <2>2
<1>3. ASSUME NEW k \in 1 .. Len(Tail(q))
      PROVE  Tail(q)[k].seq_index \in Named(q)
  <2>1. k + 1 \in 1 .. Len(q) /\ Tail(q)[k] = q[k + 1]
    BY <1>1
  <2> QED BY <2>1 DEF Named
<1>4. Head(q).seq_index \in Named(q)
  BY <1>1 DEF Named
<1> QED BY <1>2, <1>3, <1>4 DEF Named

LEMMA NamedPackets ==
  ASSUME NEW q, q \in Seq(LostPacks) \/ q \in Seq(Datagrams)
  PROVE  /\ Named(q) \subseteq Packets
         /\ \A p \in Named(q) : p \in Nat
<1>1. ASSUME NEW k \in 1 .. Len(q) PROVE q[k].seq_index \in Packets
  <2>1. CASE q \in Seq(LostPacks)
    <3>1. q[k] \in LostPacks
      BY <2>1, ElementOfSeq
    <3> QED BY <3>1 DEF LostPacks
  <2>2. CASE q \in Seq(Datagrams)
    <3>1. q[k] \in Datagrams
      BY <2>2, ElementOfSeq
    <3> QED BY <3>1 DEF Datagrams
  <2> QED BY <2>1, <2>2
<1>2. \A p \in Packets : p \in Nat
  BY LastPacket DEF Packets
<1> QED BY <1>1, <1>2 DEF Named

LEMMA NamedSwap ==
  ASSUME NEW S, NEW chan \in Seq(S), NEW i \in 1 .. (Len(chan) - 1)
  PROVE  /\ Len(Swap(chan, i)) = Len(chan)
         /\ \A k \in 1 .. Len(chan) : \E j \in 1 .. Len(chan) : Swap(chan, i)[k] = chan[j]
<1>1. i \in 1 .. Len(chan) /\ i + 1 \in 1 .. Len(chan) /\ Len(chan) \in Nat
  BY LenProperties
<1>2. chan[i] \in S /\ chan[i + 1] \in S
  BY <1>1, ElementOfSeq
<1> DEFINE once == [chan EXCEPT ![i] = chan[i + 1]]
<1>3. /\ once \in Seq(S) /\ Len(once) = Len(chan)
      /\ \A k \in 1 .. Len(chan) : once[k] = IF k = i THEN chan[i + 1] ELSE chan[k]
  BY <1>1, <1>2, ExceptSeq
<1>4. Swap(chan, i) = [once EXCEPT ![i + 1] = chan[i]]
  BY DEF Swap
<1> HIDE DEF once
<1>5. /\ Len(Swap(chan, i)) = Len(chan)
      /\ \A k \in 1 .. Len(chan) :
           Swap(chan, i)[k] = IF k = i + 1 THEN chan[i] ELSE once[k]
  BY <1>1, <1>2, <1>3, <1>4, ExceptSeq
<1> QED BY <1>1, <1>3, <1>5

-----------------------------------------------------------------------------
(* What the sender does to what it knows                                    *)

\* The values the sender's steps leave in the acknowledgements it holds.
LEMMA SenderTakes ==
  ASSUME SenderNext, NetTypeOK
  PROVE  \/ /\ UNCHANGED <<total_reply, s_reply, ackChan>>
            /\ s_pc' # "done" /\ s_pc' \in {s_pc, "loop"}
         \/ /\ s_pc' = "abort" /\ UNCHANGED <<total_reply, s_reply>>
            /\ Suffix(ackChan', ackChan)
         \/ RecvAck
         \/ TakeReply
<1>1. CASE FixLost
  BY <1>1 DEF FixLost, LostIsDue, Transmit, netVars
<1>2. CASE ResendTail
  BY <1>2 DEF ResendTail, TailRead, Transmit
<1>3. CASE SendNext
  BY <1>3 DEF SendNext, NextRound, Transmit
<1>4. CASE Timeout
  BY <1>4 DEF Timeout, NextRound
<1>5. CASE ResendNak
  BY <1>5 DEF ResendNak, NaksLeft, Transmit, netVars
<1>6. CASE SenderAbort
  BY <1>6, SuffixClosed DEF SenderAbort, NetTypeOK
<1> QED
  BY <1>1, <1>2, <1>3, <1>4, <1>5, <1>6 DEF SenderNext, WindowAssert, SenderRefused

\* Taking an acknowledgement takes one that was on its way.
LEMMA RecvAckTakes ==
  ASSUME NetTypeOK, RecvAck
  PROVE  /\ Len(ackChan) \in Nat /\ 1 \in 1 .. Len(ackChan)
         /\ s_reply' = ackChan[1] /\ total_reply' = total_reply
         /\ s_pc' = "naks"
         /\ \A k \in 1 .. Len(ackChan') :
              k \in Nat /\ k + 1 \in 1 .. Len(ackChan) /\ ackChan'[k] = ackChan[k + 1]
<1>1. ackChan # <<>> /\ ackChan \in Seq(Acks) /\ ackChan' = Tail(ackChan)
  BY DEF RecvAck, NetTypeOK
<1>2. /\ Len(ackChan) \in Nat /\ Len(ackChan) > 0 /\ Head(ackChan) = ackChan[1]
      /\ Len(Tail(ackChan)) = Len(ackChan) - 1
      /\ \A k \in 1 .. Len(Tail(ackChan)) : Tail(ackChan)[k] = ackChan[k + 1]
  BY <1>1, HeadTailProperties, LenProperties, EmptySeq
<1> QED BY <1>1, <1>2 DEF RecvAck

\* The sender only passes on what it has been told.
LEMMA SenderBehind ==
  ASSUME IInv, AcksBehind, DoneIsAll, SenderNext, UNCHANGED receiverVars
  PROVE  AcksBehind' /\ DoneIsAll'
<1>0. NetTypeOK /\ SenderTypeOK /\ reply' = reply
  BY DEF IInv, TypeOK, receiverVars
<1>1. ASSUME Suffix(ackChan', ackChan), s_pc' # "done",
             UNCHANGED <<total_reply, s_reply>>
      PROVE  AcksBehind' /\ DoneIsAll'
  BY <1>0, <1>1 DEF AcksBehind, DoneIsAll, Suffix
<1>2. CASE RecvAck
  BY <1>0, <1>2, RecvAckTakes DEF AcksBehind, DoneIsAll
<1>3. CASE TakeReply
  <2>1. Suffix(ackChan', ackChan)
    BY <1>0, <1>3, SuffixSame, SuffixClosed DEF TakeReply, NetTypeOK
  <2>2. total_reply' = s_reply /\ s_reply' = NewACK
    BY <1>3 DEF TakeReply
  <2>3. Received(s_reply') = {}
    BY <2>2, NewWellFormed
  <2>4. DoneIsAll'
    BY <1>3, <2>2 DEF TakeReply, NextRound, DoneIsAll
  <2> QED BY <1>0, <2>1, <2>2, <2>3, <2>4 DEF AcksBehind, Suffix
<1>4. UNCHANGED ackChan => Suffix(ackChan', ackChan)
  BY <1>0, SuffixSame DEF NetTypeOK
<1> QED BY <1>0, <1>1, <1>2, <1>3, <1>4, SenderTakes

\* A packet that leaves is named in its datagram.
LEMMA TransmitNames ==
  ASSUME NetTypeOK, NEW seq \in Nat, Datagram(seq) \in Datagrams, Transmit(seq)
  PROVE  Named(dataChan') \subseteq Named(dataChan) \union {seq}
<1>1. dataChan' \in {dataChan, Append(dataChan, Datagram(seq))}
  BY DEF Transmit, SendData
<1>2. dataChan \in Seq(Datagrams) /\ Datagram(seq).seq_index = seq
  BY DEF NetTypeOK, Datagram
<1>3. Named(Append(dataChan, Datagram(seq)))
        = Named(dataChan) \union {Datagram(seq).seq_index}
  BY <1>2, NamedAppend
<1> QED BY <1>1, <1>2, <1>3

\* SentFirst, with the names in the channel and the queue as sets.
LEMMA SentFirstNames ==
  SentFirst <=> /\ reply.main_ack <= send_seq_index
                /\ \A p \in Named(dataChan) : p < send_seq_index
                /\ \A p \in Named(lost_queue) : p < send_seq_index
BY DEF SentFirst, Named

\* What a step of the sender reads, sends and puts into lost_queue.
LEMMA SenderNames ==
  ASSUME IInv, SenderNext
  PROVE  \/ /\ FixLost
            /\ Head(lost_queue).seq_index \in Named(lost_queue)
            /\ Named(dataChan') \subseteq Named(dataChan) \union Named(lost_queue)
            /\ \/ Named(lost_queue') = Named(lost_queue)
               \/ /\ isAcked(total_reply, Head(lost_queue).seq_index)
                  /\ Named(lost_queue)
                       = {Head(lost_queue).seq_index} \union Named(lost_queue')
         \/ /\ ResendTail
            /\ Named(dataChan') \subseteq Named(dataChan) \union {index}
            /\ Named(lost_queue') = Named(lost_queue) \union {index}
         \/ /\ SendNext /\ lost_queue' = lost_queue
            /\ Named(dataChan') \subseteq Named(dataChan) \union {send_seq_index}
         \/ SenderAbort
         \/ Timeout \/ RecvAck \/ TakeReply
         \/ /\ ResendNak /\ ~NakRead /\ UNCHANGED <<dataChan, lost_queue>>
         \/ /\ ResendNak /\ NakRead
            /\ Named(dataChan') \subseteq Named(dataChan) \union {s_reply.naks[nak_i]}
            /\ Named(lost_queue') = Named(lost_queue) \union {s_reply.naks[nak_i]}
<1>0. /\ SenderTypeOK /\ NetTypeOK /\ SenderRing
      /\ lost_queue \in Seq(LostPacks) /\ Len(lost_queue) \in Nat
      /\ total_reply \in Acks /\ s_reply \in Acks
      /\ total_reply.main_ack \in Nat /\ LOST_GAP \in Nat /\ NAK_SIZE \in Nat
  BY LenProperties, AckNumbers, SenderAssumption, ACKAssumption
     DEF IInv, TypeOK, SenderTypeOK
<1>1. ASSUME NEW seq \in Nat, s_pc # "abort", Transmit(seq)
      PROVE  /\ seq \in Packets
             /\ Named(dataChan') \subseteq Named(dataChan) \union {seq}
  <2>1. InWindow(s_base, seq) /\ seq \in Int
    BY <1>1 DEF Transmit
  <2>2. seq \in Packets /\ Datagram(seq) \in Datagrams
    BY <1>0, <1>1, <2>1, DatagramIsRight
  <2> QED BY <1>0, <1>1, <2>2, TransmitNames
<1>2. CASE FixLost
  <2> DEFINE seq == Head(lost_queue).seq_index
             e == Lost(seq, total_reply.main_ack + LOST_GAP)
             rest == Tail(lost_queue)
  <2>1. s_pc # "abort" /\ lost_queue # <<>>
    <3>1. s_pc = "loop" /\ count > 0 /\ count \in 0 .. Len(lost_queue)
      BY <1>0, <1>2 DEF FixLost, LostIsDue, SenderTypeOK
    <3> QED BY <1>0, <3>1, EmptySeq
  <2>2. /\ Head(lost_queue) \in LostPacks /\ rest \in Seq(LostPacks)
        /\ Named(lost_queue) = {seq} \union Named(rest)
    BY <1>0, <2>1, HeadTailProperties, NamedTail
  <2>3. seq \in Packets /\ seq \in Nat
    BY <2>2, LastPacket DEF LostPacks, Packets
  <2>4. CASE isAcked(total_reply, seq) /\ lost_queue' = rest /\ UNCHANGED netVars
    BY <1>2, <2>2, <2>4 DEF netVars
  <2>5. CASE Transmit(seq) /\ lost_queue' = Append(rest, e)
    <3>1. e \in LostPacks /\ e.seq_index = seq
      BY <1>0, <2>3, LostType DEF Lost
    <3>2. Named(lost_queue') = Named(rest) \union {seq}
      <4>1. rest \in Seq(LostPacks) /\ e \in LostPacks
        BY <2>2, <3>1
      <4> HIDE DEF rest, e
      <4>2. Named(Append(rest, e)) = Named(rest) \union {e.seq_index}
        BY <4>1, NamedAppend
      <4> QED BY <2>5, <3>1, <4>2
    <3>3. Named(dataChan') \subseteq Named(dataChan) \union {seq}
      BY <1>1, <2>1, <2>3, <2>5
    <3> QED BY <1>2, <2>2, <3>2, <3>3
  <2> QED BY <1>2, <2>4, <2>5 DEF FixLost
<1>3. CASE ResendTail
  <2>1. s_pc # "abort" /\ index \in Nat /\ Transmit(index)
        /\ lost_queue' = Append(lost_queue, Lost(index, index + LOST_GAP))
    BY <1>0, <1>3 DEF ResendTail, TailRead, SenderTypeOK
  <2>2. index \in Packets /\ Named(dataChan') \subseteq Named(dataChan) \union {index}
    BY <1>1, <2>1
  <2>3. /\ Lost(index, index + LOST_GAP) \in LostPacks
        /\ Lost(index, index + LOST_GAP).seq_index = index
    BY <1>0, <2>1, <2>2, LostType DEF Lost
  <2>4. Named(lost_queue') = Named(lost_queue) \union {index}
    BY <1>0, <2>1, <2>3, NamedAppend
  <2> QED BY <1>3, <2>2, <2>4
<1>4. CASE SendNext
  <2>1. s_pc # "abort" /\ send_seq_index \in Nat /\ Transmit(send_seq_index)
        /\ lost_queue' = lost_queue
    BY <1>0, <1>4, LastPacket DEF SendNext, NextRead, ResendDone, SenderTypeOK
  <2> QED BY <1>1, <1>4, <2>1
<1>5. CASE ResendNak
  <2> DEFINE nak == s_reply.naks[nak_i]
             e == Lost(nak, total_reply.main_ack + LOST_GAP)
  <2>1. s_pc # "abort" /\ nak_i \in Slots
    BY <1>0, <1>5 DEF ResendNak, NaksLeft, SenderTypeOK, Slots
  <2>2. nak \in Nat
    BY <1>0, <2>1, NakBelow
  <2>3. CASE ~NakRead
    BY <1>5, <2>3 DEF ResendNak, netVars
  <2>4. CASE NakRead
    <3>1. Transmit(nak) /\ lost_queue' = Append(lost_queue, e)
      BY <1>5, <2>4 DEF ResendNak
    <3>2. nak \in Packets /\ Named(dataChan') \subseteq Named(dataChan) \union {nak}
      BY <1>1, <2>1, <2>2, <3>1
    <3>3. e \in LostPacks /\ e.seq_index = nak
      BY <1>0, <3>2, LostType DEF Lost
    <3>4. Named(lost_queue') = Named(lost_queue) \union {nak}
      BY <1>0, <3>1, <3>3, NamedAppend
    <3> QED BY <1>5, <2>4, <3>2, <3>4
  <2> QED BY <2>3, <2>4
<1> QED BY <1>2, <1>3, <1>4, <1>5 DEF SenderNext, WindowAssert, SenderRefused

LEMMA SenderSentFirst ==
  ASSUME IInv, AcksBehind, SentFirst, SenderNext, UNCHANGED receiverVars
  PROVE  SentFirst'
<1>0. /\ SenderTypeOK /\ NetTypeOK /\ reply' = reply /\ reply \in Acks
      /\ send_seq_index \in Nat /\ reply.main_ack \in Nat
      /\ lost_queue \in Seq(LostPacks) /\ dataChan \in Seq(Datagrams)
      /\ s_reply \in Acks
  BY LastPacket, AckNumbers
     DEF IInv, TypeOK, receiverVars, ReceiverTypeOK, SenderTypeOK, NetTypeOK
<1>1. /\ reply.main_ack <= send_seq_index
      /\ \A p \in Named(dataChan) : p < send_seq_index
      /\ \A p \in Named(lost_queue) : p < send_seq_index
  BY SentFirstNames
<1>2. ASSUME /\ send_seq_index' = send_seq_index
             /\ \A p \in Named(dataChan') : p < send_seq_index
             /\ \A p \in Named(lost_queue') : p < send_seq_index
      PROVE  SentFirst'
  BY <1>0, <1>1, <1>2 DEF SentFirst, Named
<1>3. ASSUME FixLost,
             Named(dataChan') \subseteq Named(dataChan) \union Named(lost_queue),
             Named(lost_queue') \subseteq Named(lost_queue)
      PROVE  SentFirst'
  BY <1>1, <1>2, <1>3 DEF FixLost
<1>4. ASSUME ResendTail,
             Named(dataChan') \subseteq Named(dataChan) \union {index},
             Named(lost_queue') = Named(lost_queue) \union {index}
      PROVE  SentFirst'
  BY <1>1, <1>2, <1>4 DEF ResendTail, TailRead
<1>5. ASSUME SendNext, lost_queue' = lost_queue,
             Named(dataChan') \subseteq Named(dataChan) \union {send_seq_index}
      PROVE  SentFirst'
  <2>1. send_seq_index' = send_seq_index + 1
    BY <1>5 DEF SendNext
  <2>2. \A p \in Named(dataChan') : p < send_seq_index'
    <3>1. \A p \in Named(dataChan) : p \in Nat
      BY <1>0, NamedPackets
    <3> QED BY <1>0, <1>1, <1>5, <2>1, <3>1
  <2>3. \A p \in Named(lost_queue) : p < send_seq_index'
    <3>1. \A p \in Named(lost_queue) : p \in Nat
      BY <1>0, NamedPackets
    <3> QED BY <1>0, <1>1, <2>1, <3>1
  <2>4. reply'.main_ack <= send_seq_index'
    BY <1>0, <1>1, <2>1
  <2> QED BY <1>5, <2>2, <2>3, <2>4 DEF SentFirst, Named
<1>6. CASE SenderAbort
  BY <1>1, <1>2, <1>6 DEF SenderAbort
<1>7. CASE Timeout \/ RecvAck \/ TakeReply
  BY <1>1, <1>2, <1>7 DEF Timeout, RecvAck, TakeReply
<1>8. ASSUME ResendNak, UNCHANGED <<dataChan, lost_queue>>
      PROVE  SentFirst'
  BY <1>1, <1>2, <1>8 DEF ResendNak
<1>9. ASSUME ResendNak, NakRead,
             Named(dataChan') \subseteq Named(dataChan) \union {s_reply.naks[nak_i]},
             Named(lost_queue') = Named(lost_queue) \union {s_reply.naks[nak_i]}
      PROVE  SentFirst'
  <2>1. nak_i \in Slots /\ s_reply.naks[nak_i] # INACTIVE
    BY <1>0, <1>9, ACKAssumption DEF NakRead, NaksLeft, SenderTypeOK, Slots
  <2>2. s_reply.naks[nak_i] \in Nat /\ s_reply.naks[nak_i] + 1 < s_reply.main_ack
    BY <1>0, <2>1, NakBelow
  <2>3. s_reply.main_ack <= reply.main_ack /\ s_reply.main_ack \in Nat
    BY <1>0, AckMono, AckNumbers DEF AcksBehind
  <2>4. s_reply.naks[nak_i] < send_seq_index
    BY <1>0, <1>1, <2>2, <2>3
  <2>5. send_seq_index' = send_seq_index
    BY <1>9 DEF ResendNak
  <2> QED BY <1>1, <1>2, <1>9, <2>4, <2>5
<1> QED
  BY SenderNames, <1>3, <1>4, <1>5, <1>6, <1>7, <1>8, <1>9

-----------------------------------------------------------------------------
(* What the receiver and the network leave the sender                       *)

\* A step of the receiver: its record grows by a packet that was named, what
\* it reads leaves the channel, and its record may join the acknowledgements.
LEMMA ReceiverLeaves ==
  ASSUME IInv, ReceiverNext(SenderGone)
  PROVE  /\ Received(reply) \subseteq Received(reply')
         /\ reply' \in Acks
         /\ \/ reply'.main_ack = reply.main_ack
            \/ \E p \in Named(dataChan) : p \in Nat /\ reply'.main_ack = p + 1
         /\ Suffix(dataChan', dataChan)
         /\ ackChan' \in {ackChan, Append(ackChan, reply')}
<1>0. /\ SenderTypeOK /\ ReceiverTypeOK /\ NetTypeOK /\ ReceiverWindow /\ FileWritten
      /\ RingHolds /\ dataChan \in Seq(Datagrams) /\ reply \in Acks
  BY DEF IInv, TypeOK, NetTypeOK, ReceiverTypeOK
<1>1. ReceiverTypeOK' /\ Grows
  BY <1>0, ReceiverStep
<1>2. Received(reply) \subseteq Received(reply') /\ reply' \in Acks
  BY <1>1 DEF Grows, ReceiverTypeOK
<1>3. CASE RecvData
  <2> DEFINE p == Head(dataChan).seq_index
  <2>1. dataChan # <<>> /\ dataChan' = Tail(dataChan) /\ reply' = update(reply, p)
    BY <1>3 DEF RecvData
  <2>2. Head(dataChan) \in Datagrams /\ p \in Named(dataChan)
    BY <1>0, <2>1, HeadTailProperties, NamedTail
  <2>3. p \in Nat
    BY <1>0, <2>2, NamedPackets
  <2>4. reply'.main_ack \in {reply.main_ack, p + 1}
    <3>1. reply \in ACK
      BY <1>0, AckNumbers
    <3> QED BY <2>1, <3>1 DEF update, Expand, Shift, ACK
  <2>5. ackChan' \in {ackChan, Append(ackChan, reply')}
    BY <1>3 DEF RecvData, SendAck
  <2>6. Suffix(dataChan', dataChan)
    BY <1>0, <2>1, SuffixTail
  <2> QED BY <1>2, <2>2, <2>3, <2>4, <2>5, <2>6
<1>4. CASE RecvLinger
  <2>1. dataChan # <<>> /\ dataChan' = Tail(dataChan) /\ reply' = reply
        /\ ackChan' \in {ackChan, Append(ackChan, reply')}
    BY <1>4 DEF RecvLinger, SendAck, receiverVars
  <2> QED BY <1>0, <1>2, <2>1, SuffixTail
<1>5. CASE LingerTimeout(SenderGone) \/ ReceiverRefused
  <2>1. dataChan' \in Closed(dataChan) /\ reply' = reply /\ ackChan' = ackChan
    BY <1>5 DEF LingerTimeout, ReceiverRefused
  <2> QED BY <1>0, <1>2, <2>1, SuffixClosed
<1> QED BY <1>3, <1>4, <1>5 DEF ReceiverNext

LEMMA ReceiverBehind ==
  ASSUME DoneInv, ReceiverNext(SenderGone), UNCHANGED senderVars
  PROVE  AcksBehind' /\ DoneIsAll' /\ SentFirst'
<1>0. /\ IInv /\ AcksBehind /\ DoneIsAll /\ SentFirst
      /\ reply \in Acks /\ ackChan \in Seq(Acks) /\ send_seq_index \in Nat
      /\ UNCHANGED <<s_pc, total_reply, s_reply, send_seq_index, lost_queue>>
  BY LastPacket
     DEF DoneInv, IInv, TypeOK, ReceiverTypeOK, NetTypeOK, SenderTypeOK, senderVars
<1>1. /\ Received(reply) \subseteq Received(reply')
      /\ reply' \in Acks
      /\ \/ reply'.main_ack = reply.main_ack
         \/ \E p \in Named(dataChan) : p \in Nat /\ reply'.main_ack = p + 1
      /\ Suffix(dataChan', dataChan)
      /\ ackChan' \in {ackChan, Append(ackChan, reply')}
  BY <1>0, ReceiverLeaves
<1>2. AcksBehind'
  <2>1. \A k \in 1 .. Len(ackChan) : Received(ackChan[k]) \subseteq Received(reply')
    BY <1>0, <1>1 DEF AcksBehind
  <2>2. \A k \in 1 .. Len(ackChan') : Received(ackChan'[k]) \subseteq Received(reply')
    <3>1. CASE ackChan' = ackChan
      BY <2>1, <3>1
    <3>2. CASE ackChan' = Append(ackChan, reply')
      <4>1. /\ Len(ackChan) \in Nat /\ Len(ackChan') = Len(ackChan) + 1
            /\ \A k \in 1 .. Len(ackChan) : ackChan'[k] = ackChan[k]
            /\ ackChan'[Len(ackChan) + 1] = reply'
        BY <1>0, <1>1, <3>2, AppendProperties, LenProperties
      <4> QED BY <2>1, <4>1
    <3> QED BY <1>1, <3>1, <3>2
  <2> QED BY <1>0, <1>1, <2>2 DEF AcksBehind
<1>3. DoneIsAll'
  BY <1>0 DEF DoneIsAll
<1>4. SentFirst'
  <2>1. /\ reply.main_ack <= send_seq_index
        /\ \A p \in Named(dataChan) : p < send_seq_index
        /\ \A p \in Named(lost_queue) : p < send_seq_index
    BY <1>0, SentFirstNames
  <2>2. reply'.main_ack <= send_seq_index
    BY <1>0, <1>1, <2>1
  <2>3. \A p \in Named(dataChan') : p < send_seq_index
    BY <1>1, <2>1, NamedSuffix
  <2> QED BY <1>0, <2>1, <2>2, <2>3 DEF SentFirst, Named
<1> QED BY <1>2, <1>3, <1>4

\* A step of the network changes the order of a channel, or takes from it.
LEMMA NetworkLeaves ==
  ASSUME NetTypeOK, Network
  PROVE  /\ Named(dataChan') \subseteq Named(dataChan)
         /\ \A k \in 1 .. Len(ackChan') :
              \E j \in 1 .. Len(ackChan) : ackChan'[k] = ackChan[j]
         /\ "ack" \notin Reorders => Suffix(ackChan', ackChan)
         /\ UNCHANGED <<senderVars, receiverVars>>
<1>0. dataChan \in Seq(Datagrams) /\ ackChan \in Seq(Acks)
  BY DEF NetTypeOK
<1>1. Suffix(ackChan', ackChan) =>
        \A k \in 1 .. Len(ackChan') : \E j \in 1 .. Len(ackChan) : ackChan'[k] = ackChan[j]
  BY DEF Suffix
<1>2. Suffix(dataChan', dataChan) => Named(dataChan') \subseteq Named(dataChan)
  BY NamedSuffix
<1>3. UNCHANGED ackChan => Suffix(ackChan', ackChan)
  BY <1>0, SuffixSame
<1>4. UNCHANGED dataChan => Suffix(dataChan', dataChan)
  BY <1>0, SuffixSame
<1>5. CASE ReorderData
  <2>1. PICK i \in 1 .. (Len(dataChan) - 1) : dataChan' = Swap(dataChan, i)
    BY <1>5 DEF ReorderData
  <2>2. /\ Len(dataChan') = Len(dataChan)
        /\ \A k \in 1 .. Len(dataChan) :
             \E j \in 1 .. Len(dataChan) : dataChan'[k] = dataChan[j]
    BY <1>0, <2>1, NamedSwap
  <2>3. Named(dataChan') \subseteq Named(dataChan)
    BY <2>2 DEF Named
  <2> QED BY <1>1, <1>3, <1>5, <2>3 DEF Network, ReorderData
<1>6. CASE ReorderAcks
  <2>1. PICK i \in 1 .. (Len(ackChan) - 1) : ackChan' = Swap(ackChan, i)
    BY <1>6 DEF ReorderAcks
  <2>2. /\ Len(ackChan') = Len(ackChan)
        /\ \A k \in 1 .. Len(ackChan) :
             \E j \in 1 .. Len(ackChan) : ackChan'[k] = ackChan[j]
    BY <1>0, <2>1, NamedSwap
  <2> QED BY <1>2, <1>4, <1>6, <2>2 DEF Network, ReorderAcks
<1>7. CASE DataRefused(ReceiverGone, SenderGone)
  <2>1. Suffix(dataChan', dataChan) /\ UNCHANGED ackChan
    BY <1>0, <1>7, SuffixTail DEF DataRefused
  <2> QED BY <1>1, <1>2, <1>3, <2>1 DEF Network
<1>8. CASE AckRefused(SenderGone, ReceiverGone)
  <2>1. Suffix(ackChan', ackChan) /\ UNCHANGED dataChan
    BY <1>0, <1>8, SuffixTail DEF AckRefused
  <2> QED BY <1>1, <1>2, <1>4, <2>1 DEF Network
<1> QED BY <1>5, <1>6, <1>7, <1>8 DEF Network

LEMMA NetworkBehind ==
  ASSUME DoneInv, Network
  PROVE  AcksBehind' /\ DoneIsAll' /\ SentFirst'
<1>0. /\ NetTypeOK /\ AcksBehind /\ DoneIsAll /\ SentFirst
  BY DEF DoneInv, IInv, TypeOK
<1>1. /\ Named(dataChan') \subseteq Named(dataChan)
      /\ \A k \in 1 .. Len(ackChan') :
           \E j \in 1 .. Len(ackChan) : ackChan'[k] = ackChan[j]
      /\ UNCHANGED <<senderVars, receiverVars>>
  BY <1>0, NetworkLeaves
<1>2. UNCHANGED <<s_pc, total_reply, s_reply, send_seq_index, lost_queue, reply>>
  BY <1>1 DEF senderVars, receiverVars
<1>3. AcksBehind' /\ DoneIsAll'
  BY <1>0, <1>1, <1>2 DEF AcksBehind, DoneIsAll
<1>4. SentFirst'
  <2>1. /\ reply.main_ack <= send_seq_index
        /\ \A p \in Named(dataChan) : p < send_seq_index
        /\ \A p \in Named(lost_queue) : p < send_seq_index
    BY <1>0, SentFirstNames
  <2> QED BY <1>1, <1>2, <2>1 DEF SentFirst, Named
<1> QED BY <1>3, <1>4

-----------------------------------------------------------------------------
(* The sender ends when it may                                              *)

LEMMA InitDone == Init => DoneInv
<1> SUFFICES ASSUME Init PROVE DoneInv
  OBVIOUS
<1>1. /\ total_reply = NewACK /\ s_reply = NewACK /\ reply = NewACK
      /\ send_seq_index = 0 /\ lost_queue = <<>> /\ dataChan = <<>> /\ ackChan = <<>>
      /\ s_pc # "done"
  BY DEF Init, SenderInit, ReceiverInit, NetInit
<1>2. AcksBehind /\ DoneIsAll
  BY <1>1 DEF AcksBehind, DoneIsAll
<1>3. SentFirst
  BY <1>1 DEF SentFirst, NewACK
<1> QED BY <1>2, <1>3, InitInvariant DEF DoneInv

LEMMA NextDone == DoneInv /\ [Next]_vars => DoneInv'
<1> SUFFICES ASSUME DoneInv, [Next]_vars PROVE DoneInv'
  OBVIOUS
<1>0. IInv /\ AcksBehind /\ DoneIsAll /\ SentFirst
  BY DEF DoneInv
<1>1. IInv'
  BY <1>0, NextInvariant
<1>2. CASE Sender
  <2>1. SenderNext /\ UNCHANGED receiverVars
    BY <1>2 DEF Sender
  <2> QED BY <1>0, <1>1, <2>1, SenderBehind, SenderSentFirst DEF DoneInv
<1>3. CASE Receiver
  BY <1>1, <1>3, ReceiverBehind DEF Receiver, DoneInv
<1>4. CASE Network
  BY <1>1, <1>4, NetworkBehind DEF DoneInv
<1>5. CASE UNCHANGED vars
  <2>1. UNCHANGED <<s_pc, total_reply, s_reply, send_seq_index, lost_queue, reply,
                    dataChan, ackChan>>
    BY <1>5 DEF vars, senderVars, receiverVars, netVars
  <2> QED BY <1>0, <1>1, <2>1 DEF DoneInv, AcksBehind, DoneIsAll, SentFirst
<1> QED BY <1>2, <1>3, <1>4, <1>5 DEF Next

\* The inductive invariant behind SenderDoneSound: every acknowledgement on
\* its way is behind the receiver's record, and names only what was sent.
THEOREM DoneInvariance == Spec => []DoneInv
BY InitDone, NextDone, PTL DEF Spec

\* The sender ends only when the receiver holds every packet of the file.
THEOREM SenderDoneCorrect == Spec => []SenderDoneSound
<1>1. DoneInv => SenderDoneSound
  <2> SUFFICES ASSUME DoneInv, s_pc = "done" PROVE Received(reply) = Packets
    BY DEF SenderDoneSound
  <2>1. total_reply \in Acks /\ reply \in Acks
    BY DEF DoneInv, IInv, TypeOK, SenderTypeOK, ReceiverTypeOK
  <2>2. max_seq_index \in Nat /\ bottom_ack(total_reply) >= max_seq_index
    BY LastPacket DEF DoneInv, DoneIsAll
  <2>3. \A p \in Packets : p \in Nat /\ p < bottom_ack(total_reply)
    BY <2>1, <2>2, AckNumbers DEF Packets
  <2>4. Packets \subseteq Received(reply)
    BY <2>1, <2>3, AckNumbers DEF DoneInv, AcksBehind
  <2>5. Received(reply) \subseteq Packets
    BY <2>1, <2>2, AckNumbers DEF Packets
  <2> QED BY <2>4, <2>5
<1> QED BY DoneInvariance, <1>1, PTL

-----------------------------------------------------------------------------
(* Acknowledgements in order                                                *)

\* What is left of the acknowledgements is in order.
LEMMA SuffixOrder ==
  ASSUME NEW S, NEW chan \in Seq(S), NEW next, Suffix(next, chan), Len(next) \in Nat,
         \A k \in 1 .. Len(chan) : \A j \in 1 .. (k - 1) :
           Received(chan[j]) \subseteq Received(chan[k])
  PROVE  \A k \in 1 .. Len(next) : \A j \in 1 .. (k - 1) :
           Received(next[j]) \subseteq Received(next[k])
<1>1. PICK n \in Nat : \A k \in 1 .. Len(next) :
                         k + n \in 1 .. Len(chan) /\ next[k] = chan[k + n]
  BY DEF Suffix
<1> TAKE k \in 1 .. Len(next)
<1> TAKE j \in 1 .. (k - 1)
<1>2. j \in 1 .. Len(next)
  OBVIOUS
<1>3. j + n \in 1 .. ((k + n) - 1)
  BY <1>1, <1>2
<1> QED BY <1>1, <1>2, <1>3

LEMMA SenderInOrder ==
  ASSUME OrderInv, SenderNext
  PROVE  AcksInOrder'
<1>0. /\ NetTypeOK /\ AcksInOrder /\ ackChan \in Seq(Acks)
      /\ \A k \in 1 .. Len(ackChan) : \A j \in 1 .. (k - 1) :
           Received(ackChan[j]) \subseteq Received(ackChan[k])
  BY DEF OrderInv, DoneInv, IInv, TypeOK, NetTypeOK, AcksInOrder
<1>1. NetTypeOK' /\ Len(ackChan') \in Nat
  <2>1. NetTypeOK'
    BY SenderStep DEF OrderInv, DoneInv, IInv, TypeOK
  <2> QED BY <2>1, LenProperties DEF NetTypeOK
<1>2. UNCHANGED ackChan => Suffix(ackChan', ackChan)
  BY <1>0, SuffixSame
<1>3. ASSUME Suffix(ackChan', ackChan)
      PROVE  \A k \in 1 .. Len(ackChan') : \A j \in 1 .. (k - 1) :
               Received(ackChan'[j]) \subseteq Received(ackChan'[k])
  BY <1>0, <1>1, <1>3, SuffixOrder
<1>4. ASSUME UNCHANGED <<total_reply, s_reply>>, s_pc' \in {s_pc, "loop", "abort"},
             Suffix(ackChan', ackChan)
      PROVE  AcksInOrder'
  <2>1. \A k \in 1 .. Len(ackChan') :
          /\ Received(total_reply') \subseteq Received(ackChan'[k])
          /\ Received(s_reply') \subseteq Received(ackChan'[k])
    BY <1>0, <1>4 DEF Suffix, AcksInOrder
  <2> QED BY <1>0, <1>3, <1>4, <2>1 DEF AcksInOrder
<1>5. CASE RecvAck
  <2>1. /\ Len(ackChan) \in Nat /\ 1 \in 1 .. Len(ackChan)
        /\ s_reply' = ackChan[1] /\ total_reply' = total_reply
        /\ \A k \in 1 .. Len(ackChan') :
             k \in Nat /\ k + 1 \in 1 .. Len(ackChan) /\ ackChan'[k] = ackChan[k + 1]
    BY <1>0, <1>5, RecvAckTakes
  <2>2. Suffix(ackChan', ackChan)
    BY <2>1 DEF Suffix
  <2>3. Received(total_reply') \subseteq Received(s_reply')
    BY <1>0, <2>1 DEF AcksInOrder
  <2>4. ASSUME NEW k \in 1 .. Len(ackChan')
        PROVE  /\ Received(total_reply') \subseteq Received(ackChan'[k])
               /\ Received(s_reply') \subseteq Received(ackChan'[k])
    <3>1. k + 1 \in 1 .. Len(ackChan) /\ ackChan'[k] = ackChan[k + 1]
          /\ 1 \in 1 .. ((k + 1) - 1)
      BY <2>1
    <3> QED BY <1>0, <2>1, <3>1 DEF AcksInOrder
  <2> QED BY <1>3, <2>2, <2>3, <2>4 DEF AcksInOrder
<1>6. CASE TakeReply
  <2>1. Suffix(ackChan', ackChan)
    BY <1>0, <1>2, <1>6, SuffixClosed DEF TakeReply
  <2>2. total_reply' = s_reply /\ s_reply' = NewACK /\ s_pc' # "naks"
    BY <1>6 DEF TakeReply, NextRound
  <2>3. Received(s_reply') = {}
    BY <2>2, NewWellFormed
  <2>4. \A k \in 1 .. Len(ackChan') :
          Received(total_reply') \subseteq Received(ackChan'[k])
    BY <1>0, <2>1, <2>2 DEF Suffix, AcksInOrder
  <2> QED BY <1>3, <2>1, <2>2, <2>3, <2>4 DEF AcksInOrder
<1> QED BY <1>0, <1>2, <1>4, <1>5, <1>6, SenderTakes

\* The acknowledgement that is taken says at least as much as the last one.
LEMMA TakenIsMore ==
  ASSUME OrderInv, s_pc = "naks"
  PROVE  /\ Received(total_reply) \subseteq Received(s_reply)
         /\ total_reply.main_ack <= s_reply.main_ack
         /\ bottom_ack(total_reply) <= bottom_ack(s_reply)
         /\ s_reply.main_ack <= send_seq_index
<1>1. /\ total_reply \in Acks /\ s_reply \in Acks /\ reply \in Acks
      /\ send_seq_index \in Nat
  BY LastPacket DEF OrderInv, DoneInv, IInv, TypeOK, SenderTypeOK, ReceiverTypeOK
<1>2. Received(total_reply) \subseteq Received(s_reply)
  BY DEF OrderInv, AcksInOrder
<1>3. s_reply.main_ack <= reply.main_ack /\ reply.main_ack <= send_seq_index
  BY <1>1, AckMono DEF OrderInv, DoneInv, AcksBehind, SentFirst
<1> QED BY <1>1, <1>2, <1>3, AckMono, AckNumbers

\* HARD_WIND keeps what is sent inside the window when a block is acknowledged.
LEMMA SenderInWindow ==
  ASSUME OrderInv, SenderNext
  PROVE  SenderWindow'
<1>0. /\ SenderWindow /\ total_reply \in Acks /\ s_reply \in Acks
      /\ s_base \in Nat /\ s_edge \in Nat /\ send_seq_index \in Nat /\ index \in Nat
      /\ SLOTS \in Nat /\ SLOTS > 0 /\ HARD_WIND \in Nat /\ HARD_WIND <= SLOTS
      /\ bottom_ack(total_reply) \in Nat /\ bottom_ack(s_reply) \in Nat
      /\ total_reply.main_ack \in Nat /\ s_reply.main_ack \in Nat
      /\ bottom_ack(s_reply) <= s_reply.main_ack
  BY LastPacket, AckNumbers, WindowAssumption, SenderAssumption
     DEF OrderInv, DoneInv, IInv, TypeOK, SenderTypeOK
<1>1. ASSUME UNCHANGED <<total_reply, s_base, s_edge, send_seq_index>>,
             s_pc \in {"loop", "naks"},
             s_pc' = "loop" => total_reply.main_ack <= index'
      PROVE  SenderWindow'
  BY <1>0, <1>1 DEF SenderWindow
<1>2. CASE FixLost
  BY <1>0, <1>1, <1>2 DEF FixLost, LostIsDue, SenderWindow
<1>3. CASE ResendTail
  <2>1. s_pc = "loop" /\ index' = index + 1 /\ total_reply.main_ack <= index
    BY <1>0, <1>3 DEF ResendTail, TailRead, SenderWindow
  <2> QED BY <1>0, <1>1, <1>3, <2>1 DEF ResendTail
<1>4. CASE SendNext
  <2>1. /\ s_pc = "loop" /\ s_pc' = "loop" /\ index' = total_reply.main_ack
        /\ send_seq_index' = send_seq_index + 1
        /\ UNCHANGED <<total_reply, s_base, s_edge>>
        /\ ~(send_seq_index >= bottom_ack(total_reply) + HARD_WIND)
    BY <1>4 DEF SendNext, NextRead, ResendDone, WindowFull, NextRound
  <2> QED BY <1>0, <2>1 DEF SenderWindow
<1>5. CASE Timeout
  <2>1. s_pc = "loop" /\ index' = total_reply.main_ack
    BY <1>5 DEF Timeout, Waiting, ResendDone, NextRound
  <2> QED BY <1>0, <1>1, <1>5, <2>1 DEF Timeout
<1>6. CASE RecvAck
  BY <1>1, <1>6 DEF RecvAck, Waiting, ResendDone
<1>7. CASE ResendNak
  BY <1>1, <1>7 DEF ResendNak, NaksLeft
<1>8. CASE TakeReply
  <2>1. /\ s_pc = "naks" /\ total_reply' = s_reply
        /\ UNCHANGED send_seq_index
        /\ s_pc' = "loop" => index' = s_reply.main_ack
        /\ s_pc' \in {"loop", "done"}
    BY <1>8 DEF TakeReply, NextRound
  <2>2. /\ bottom_ack(total_reply) <= bottom_ack(s_reply)
        /\ s_reply.main_ack <= send_seq_index
    BY <2>1, TakenIsMore
  <2>3. /\ s_edge = s_base + SLOTS
        /\ s_base <= bottom_ack(total_reply) /\ bottom_ack(total_reply) < s_edge
        /\ send_seq_index <= bottom_ack(total_reply) + HARD_WIND
    BY <1>0, <2>1 DEF SenderWindow
  <2>4. CASE bottom_ack(s_reply) >= s_edge
    <3>1. s_base' = s_base + SLOTS /\ s_edge' = s_edge + SLOTS
      BY <1>8, <2>4 DEF TakeReply, Refill
    <3>2. bottom_ack(s_reply) < s_edge + SLOTS
      BY <1>0, <2>2, <2>3
    <3> QED BY <1>0, <2>1, <2>2, <2>3, <2>4, <3>1, <3>2 DEF SenderWindow
  <2>5. CASE ~(bottom_ack(s_reply) >= s_edge)
    <3>1. UNCHANGED <<s_base, s_edge>>
      BY <1>8, <2>5 DEF TakeReply
    <3> QED BY <1>0, <2>1, <2>2, <2>3, <2>5, <3>1 DEF SenderWindow
  <2> QED BY <2>4, <2>5
<1>9. CASE SenderAbort
  BY <1>9 DEF SenderAbort, SenderWindow
<1> QED
  BY <1>2, <1>3, <1>4, <1>5, <1>6, <1>7, <1>8, <1>9
     DEF SenderNext, WindowAssert, SenderRefused

-----------------------------------------------------------------------------
(* Losses are remembered                                                    *)

\* LossRemembered and NaksHeard, with the packets in the queue as a set.
LEMMA LossNames ==
  /\ LossRemembered <=>
       (s_pc \in {"loop", "naks"} =>
          \A p \in 0 .. (total_reply.main_ack - 1) :
            isAcked(total_reply, p) \/ p \in Named(lost_queue))
  /\ NaksHeard <=>
       (s_pc = "naks" =>
          \A i \in Slots :
            /\ i < nak_i /\ s_reply.naks[i] # INACTIVE
            /\ s_reply.naks[i] >= total_reply.main_ack
            => s_reply.naks[i] \in Named(lost_queue))
BY DEF LossRemembered, NaksHeard, Named

\* A record that tells of a loss has its naks looked at, from the first on.
LEMMA ToldOfLoss ==
  ASSUME NEW a \in Acks, total_reply \in Acks, NEW i \in Slots,
         a.naks[i] # INACTIVE, a.naks[i] >= total_reply.main_ack
  PROVE  TellsLoss(a)
<1>1. /\ a.naks[i] \in Nat /\ a.naks[i] + 1 < a.main_ack
      /\ a.main_ack \in Nat /\ a.main_ack <= max_seq_index
      /\ total_reply.main_ack \in Nat
  BY NakBelow, AckNumbers
<1>2. INACTIVE \in Nat /\ max_seq_index \in Nat /\ max_seq_index < INACTIVE
  BY ACKAssumption, LastPacket, FileAssumption
<1> DEFINE d == a.main_ack - 2
           w == INACTIVE + 1
<1>3. d \in 0 .. (w - 1) /\ w \in Nat \ {0} /\ total_reply.main_ack <= d
  BY <1>1, <1>2
<1> HIDE DEF d, w
<1>4. d % w = d
  <2>1. (w * 0 + d) % w = d
    BY <1>3, ModUnique
  <2>2. w * 0 + d = d
    BY <1>3
  <2> QED BY <2>1, <2>2
<1> QED BY <1>3, <1>4 DEF TellsLoss, d, w

LEMMA SenderRemembers ==
  ASSUME OrderInv, SenderNext
  PROVE  LossRemembered' /\ NaksHeard'
<1>0. /\ IInv /\ total_reply \in Acks /\ s_reply \in Acks
      /\ nak_i \in 0 .. NAK_SIZE /\ NAK_SIZE \in Nat
      /\ total_reply.main_ack \in Nat /\ s_reply.main_ack \in Nat
  BY AckNumbers, ACKAssumption DEF OrderInv, DoneInv, IInv, TypeOK, SenderTypeOK
<1>1. /\ s_pc \in {"loop", "naks"} =>
           \A p \in 0 .. (total_reply.main_ack - 1) :
             isAcked(total_reply, p) \/ p \in Named(lost_queue)
      /\ s_pc = "naks" =>
           \A i \in Slots :
             /\ i < nak_i /\ s_reply.naks[i] # INACTIVE
             /\ s_reply.naks[i] >= total_reply.main_ack
             => s_reply.naks[i] \in Named(lost_queue)
  BY LossNames DEF OrderInv
<1>2. /\ LossRemembered' <=>
           (s_pc' \in {"loop", "naks"} =>
              \A p \in 0 .. (total_reply'.main_ack - 1) :
                isAcked(total_reply', p) \/ p \in Named(lost_queue'))
      /\ NaksHeard' <=>
           (s_pc' = "naks" =>
              \A i \in Slots :
                /\ i < nak_i' /\ s_reply'.naks[i] # INACTIVE
                /\ s_reply'.naks[i] >= total_reply'.main_ack
                => s_reply'.naks[i] \in Named(lost_queue'))
  BY DEF LossRemembered, NaksHeard, Named
<1>3. ASSUME s_pc = "loop", s_pc' = "loop", UNCHANGED total_reply,
             \A p \in Named(lost_queue) \ Named(lost_queue') : isAcked(total_reply, p)
      PROVE  LossRemembered' /\ NaksHeard'
  BY <1>1, <1>2, <1>3
<1>4. ASSUME FixLost,
             \/ Named(lost_queue') = Named(lost_queue)
             \/ /\ isAcked(total_reply, Head(lost_queue).seq_index)
                /\ Named(lost_queue)
                     = {Head(lost_queue).seq_index} \union Named(lost_queue')
      PROVE  LossRemembered' /\ NaksHeard'
  BY <1>3, <1>4 DEF FixLost, LostIsDue
<1>5. ASSUME ResendTail, Named(lost_queue') = Named(lost_queue) \union {index}
      PROVE  LossRemembered' /\ NaksHeard'
  BY <1>3, <1>5 DEF ResendTail, TailRead
<1>6. CASE SendNext
  BY <1>3, <1>6 DEF SendNext, NextRead, ResendDone, NextRound
<1>7. CASE Timeout
  BY <1>3, <1>7 DEF Timeout, Waiting, ResendDone, NextRound
<1>8. CASE SenderAbort
  BY <1>8 DEF SenderAbort, LossRemembered, NaksHeard
<1>9. CASE RecvAck
  <2>1. /\ s_pc = "loop" /\ UNCHANGED <<total_reply, lost_queue>>
        /\ s_reply' = Head(ackChan) /\ ackChan # <<>>
        /\ nak_i' = IF TellsLoss(s_reply') THEN 0 ELSE NAK_SIZE
    BY <1>9 DEF RecvAck, Waiting, ResendDone
  <2>2. s_reply' \in Acks
    BY <1>0, <2>1, HeadTailProperties DEF IInv, TypeOK, NetTypeOK
  <2>3. ASSUME NEW i \in Slots, i < nak_i', s_reply'.naks[i] # INACTIVE
        PROVE  ~(s_reply'.naks[i] >= total_reply.main_ack)
    <3>1. ~TellsLoss(s_reply')
      <4>1. i \in Nat
        BY ACKAssumption DEF Slots
      <4> QED BY <2>1, <2>3, <4>1
    <3> QED BY <1>0, <2>2, <2>3, <3>1, ToldOfLoss
  <2> QED BY <1>1, <1>2, <2>1, <2>3
<1>10. ASSUME ResendNak, ~NakRead, UNCHANGED lost_queue
       PROVE  LossRemembered' /\ NaksHeard'
  <2>1. /\ s_pc = "naks" /\ s_pc' = "naks" /\ nak_i' = nak_i + 1
        /\ UNCHANGED <<total_reply, s_reply>>
        /\ ~(s_reply.naks[nak_i] >= total_reply.main_ack)
    BY <1>10 DEF ResendNak, NaksLeft, NakRead
  <2>2. \A i \in Slots : i \in Nat /\ (i < nak_i + 1 => i < nak_i \/ i = nak_i)
    BY <1>0, ACKAssumption DEF Slots
  <2> QED BY <1>1, <1>2, <1>10, <2>1, <2>2
<1>11. ASSUME ResendNak, NakRead,
              Named(lost_queue') = Named(lost_queue) \union {s_reply.naks[nak_i]}
       PROVE  LossRemembered' /\ NaksHeard'
  <2>1. /\ s_pc = "naks" /\ s_pc' = "naks" /\ nak_i' = nak_i + 1
        /\ UNCHANGED <<total_reply, s_reply>>
    BY <1>11 DEF ResendNak, NaksLeft
  <2>2. \A i \in Slots : i \in Nat /\ (i < nak_i + 1 => i < nak_i \/ i = nak_i)
    BY <1>0, ACKAssumption DEF Slots
  <2> QED BY <1>1, <1>2, <1>11, <2>1, <2>2
<1>12. CASE TakeReply
  <2>1. /\ s_pc = "naks" /\ s_pc' # "naks" /\ ~NaksLeft
        /\ total_reply' = s_reply /\ UNCHANGED lost_queue
    BY <1>12 DEF TakeReply, NextRound
  <2>2. /\ Received(total_reply) \subseteq Received(s_reply)
    BY <2>1, TakenIsMore
  <2>3. ASSUME NEW p \in 0 .. (s_reply.main_ack - 1), ~isAcked(s_reply, p)
        PROVE  p \in Named(lost_queue)
    <3>1. CASE p < total_reply.main_ack
      <4>1. p \notin Received(s_reply)
        BY <2>3 DEF Received
      <4>2. p \in 0 .. (total_reply.main_ack - 1) /\ p \notin Received(total_reply)
        BY <1>0, <2>2, <3>1, <4>1
      <4>3. ~isAcked(total_reply, p)
        BY <4>2 DEF Received
      <4> QED BY <1>1, <2>1, <4>2, <4>3
    <3>2. CASE ~(p < total_reply.main_ack)
      <4>1. PICK i \in Slots : s_reply.naks[i] = p
        BY <1>0, <2>3 DEF isAcked
      <4>2. p # INACTIVE /\ p >= total_reply.main_ack
        <5>1. s_reply.main_ack <= INACTIVE /\ INACTIVE \in Nat
          BY <1>0, AckNumbers, ACKAssumption DEF WellFormed, Shape
        <5> QED BY <1>0, <2>3, <3>2, <5>1
      <4>3. i < nak_i
        <5>1. i \in Nat /\ i < NAK_SIZE
          BY ACKAssumption DEF Slots
        <5>2. CASE nak_i = NAK_SIZE
          BY <5>1, <5>2
        <5>3. CASE nak_i < NAK_SIZE
          <6>1. s_reply.naks[nak_i] = INACTIVE /\ nak_i \in Slots
            BY <1>0, <2>1, <5>3 DEF NaksLeft, Slots
          <6>2. ~(nak_i <= i)
            BY <1>0, <4>1, <4>2, <6>1, NakBelow
          <6> QED BY <1>0, <5>1, <6>2
        <5> QED BY <1>0, <5>2, <5>3
      <4> QED BY <1>1, <2>1, <4>1, <4>2, <4>3
    <3> QED BY <3>1, <3>2
  <2> QED BY <1>2, <2>1, <2>3
<1> QED
  BY <1>0, SenderNames, <1>4, <1>5, <1>6, <1>7, <1>8, <1>9, <1>10, <1>11, <1>12

-----------------------------------------------------------------------------
(* The sender's view                                                        *)

LEMMA InitOrder == Init => OrderInv
<1> SUFFICES ASSUME Init PROVE OrderInv
  OBVIOUS
<1>1. /\ total_reply = NewACK /\ s_reply = NewACK /\ ackChan = <<>>
      /\ s_base = 0 /\ s_edge = MinOf(max_seq_index, SLOTS)
      /\ send_seq_index = 0 /\ index = 0
      /\ s_pc = IF Length >= 2 * SLOTS * SINGLE_LENGTH THEN "loop" ELSE "abort"
  BY DEF Init, SenderInit, NetInit
<1>2. AcksInOrder /\ NaksHeard
  BY <1>1 DEF AcksInOrder, NaksHeard
<1>3. SenderWindow
  <2> SUFFICES ASSUME s_pc = "loop" PROVE SenderWindow
    BY <1>1 DEF SenderWindow
  <2>1. max_interval <= max_seq_index
    BY <1>1, TwoBlocks
  <2>2. /\ SLOTS \in Nat \ {0} /\ max_interval = 2 * SLOTS /\ max_seq_index \in Nat
        /\ HARD_WIND \in Nat
    BY IntervalType, LastPacket, SenderAssumption
  <2>3. s_edge = SLOTS
    BY <1>1, <2>1, <2>2 DEF MinOf
  <2>4. bottom_ack(NewACK) = 0 /\ NewACK.main_ack = 0
    BY ACKAssumption DEF bottom_ack, NewACK, Slots
  <2> QED BY <1>1, <2>2, <2>3, <2>4 DEF SenderWindow
<1>4. LossRemembered
  <2>1. 0 .. (NewACK.main_ack - 1) = {}
    BY DEF NewACK
  <2> QED BY <1>1, <2>1 DEF LossRemembered
<1> QED BY <1>2, <1>3, <1>4, InitDone DEF OrderInv

\* No step of the receiver, nor of a network that keeps acknowledgements in
\* order, disturbs what the sender knows.
LEMMA OthersKeepOrder ==
  ASSUME OrderInv, UNCHANGED senderVars
  PROVE  SenderWindow' /\ LossRemembered' /\ NaksHeard'
BY DEF OrderInv, senderVars, SenderWindow, LossRemembered, NaksHeard

LEMMA ReceiverInOrder ==
  ASSUME OrderInv, ReceiverNext(SenderGone), UNCHANGED senderVars
  PROVE  AcksInOrder'
<1>0. /\ IInv /\ AcksInOrder /\ AcksBehind /\ ackChan \in Seq(Acks)
      /\ UNCHANGED <<s_pc, total_reply, s_reply>>
  BY DEF OrderInv, DoneInv, IInv, TypeOK, NetTypeOK, senderVars
<1>1. /\ Received(reply) \subseteq Received(reply') /\ reply' \in Acks
      /\ ackChan' \in {ackChan, Append(ackChan, reply')}
  BY <1>0, ReceiverLeaves
<1>2. CASE ackChan' = ackChan
  BY <1>0, <1>2 DEF AcksInOrder
<1>3. CASE ackChan' = Append(ackChan, reply')
  <2>1. /\ Len(ackChan) \in Nat /\ Len(ackChan') = Len(ackChan) + 1
        /\ \A k \in 1 .. Len(ackChan) : ackChan'[k] = ackChan[k]
        /\ ackChan'[Len(ackChan) + 1] = reply'
    BY <1>0, <1>1, <1>3, AppendProperties, LenProperties
  <2>2. /\ Received(total_reply') \subseteq Received(reply')
        /\ Received(s_reply') \subseteq Received(reply')
        /\ \A j \in 1 .. Len(ackChan) : Received(ackChan'[j]) \subseteq Received(reply')
    BY <1>0, <1>1, <2>1 DEF AcksBehind
  <2>3. ASSUME NEW k \in 1 .. Len(ackChan')
        PROVE  /\ Received(total_reply') \subseteq Received(ackChan'[k])
               /\ Received(s_reply') \subseteq Received(ackChan'[k])
               /\ \A j \in 1 .. (k - 1) : Received(ackChan'[j]) \subseteq Received(ackChan'[k])
    <3>1. CASE k \in 1 .. Len(ackChan)
      <4>1. \A j \in 1 .. (k - 1) : j \in 1 .. Len(ackChan)
        BY <2>1, <3>1
      <4> QED BY <1>0, <2>1, <3>1, <4>1 DEF AcksInOrder
    <3>2. CASE k = Len(ackChan) + 1
      <4>1. 1 .. (k - 1) = 1 .. Len(ackChan)
        BY <2>1, <3>2
      <4> QED BY <2>1, <2>2, <3>2, <4>1
    <3> QED BY <2>1, <3>1, <3>2
  <2> QED BY <1>0, <2>3 DEF AcksInOrder
<1> QED BY <1>1, <1>2, <1>3

LEMMA NetworkInOrder ==
  ASSUME "ack" \notin Reorders, OrderInv, Network
  PROVE  AcksInOrder'
<1>0. /\ NetTypeOK /\ AcksInOrder /\ ackChan \in Seq(Acks)
      /\ \A k \in 1 .. Len(ackChan) : \A j \in 1 .. (k - 1) :
           Received(ackChan[j]) \subseteq Received(ackChan[k])
  BY DEF OrderInv, DoneInv, IInv, TypeOK, NetTypeOK, AcksInOrder
<1>1. Suffix(ackChan', ackChan) /\ UNCHANGED senderVars
  BY <1>0, NetworkLeaves
<1>2. Len(ackChan') \in Nat
  <2>1. NetTypeOK'
    BY <1>0, NetworkType
  <2> QED BY <2>1, LenProperties DEF NetTypeOK
<1>3. \A k \in 1 .. Len(ackChan') : \A j \in 1 .. (k - 1) :
        Received(ackChan'[j]) \subseteq Received(ackChan'[k])
  BY <1>0, <1>1, <1>2, SuffixOrder
<1>4. UNCHANGED <<s_pc, total_reply, s_reply>>
  BY <1>1 DEF senderVars
<1>5. \A k \in 1 .. Len(ackChan') :
        /\ Received(total_reply') \subseteq Received(ackChan'[k])
        /\ Received(s_reply') \subseteq Received(ackChan'[k])
  BY <1>0, <1>1, <1>4 DEF Suffix, AcksInOrder
<1> QED BY <1>0, <1>3, <1>4, <1>5 DEF AcksInOrder

\* What ViewGrows says of one step.
Grown == Received(total_reply) \subseteq Received(total_reply')
           /\ total_reply.main_ack <= total_reply'.main_ack

LEMMA NextOrder ==
  ASSUME "ack" \notin Reorders
  PROVE  OrderInv /\ [Next]_vars => OrderInv' /\ (Grown \/ UNCHANGED vars)
<1> SUFFICES ASSUME OrderInv, [Next]_vars
             PROVE  OrderInv' /\ (Grown \/ UNCHANGED vars)
  OBVIOUS
<1>0. DoneInv /\ AcksInOrder /\ total_reply.main_ack \in Nat
  BY AckNumbers DEF OrderInv, DoneInv, IInv, TypeOK, SenderTypeOK
<1>1. DoneInv'
  BY <1>0, NextDone
<1>2. UNCHANGED senderVars => Grown
  BY <1>0 DEF senderVars, Grown
<1>3. CASE Sender
  <2>1. SenderNext
    BY <1>3 DEF Sender
  <2>2. OrderInv'
    BY <1>1, <2>1, SenderInOrder, SenderInWindow, SenderRemembers DEF OrderInv
  <2>3. Grown
    <3>1. UNCHANGED total_reply \/ RecvAck \/ TakeReply
      BY <1>0, <2>1, SenderTakes DEF DoneInv, IInv, TypeOK
    <3>2. CASE TakeReply
      <4>1. s_pc = "naks" /\ total_reply' = s_reply
        BY <3>2 DEF TakeReply
      <4> QED BY <4>1, TakenIsMore DEF Grown
    <3> QED BY <1>0, <3>1, <3>2 DEF Grown, RecvAck
  <2> QED BY <2>2, <2>3
<1>4. CASE Receiver
  <2>1. ReceiverNext(SenderGone) /\ UNCHANGED senderVars
    BY <1>4 DEF Receiver
  <2> QED BY <1>1, <1>2, <2>1, ReceiverInOrder, OthersKeepOrder DEF OrderInv
<1>5. CASE Network
  <2>1. UNCHANGED senderVars
    BY <1>5 DEF Network
  <2> QED BY <1>1, <1>2, <1>5, <2>1, NetworkInOrder, OthersKeepOrder DEF OrderInv
<1>6. CASE UNCHANGED vars
  <2>1. UNCHANGED senderVars /\ UNCHANGED ackChan
    BY <1>6 DEF vars, netVars
  <2>2. AcksInOrder'
    BY <1>0, <2>1 DEF AcksInOrder, senderVars
  <2> QED BY <1>1, <1>6, <2>1, <2>2, OthersKeepOrder DEF OrderInv
<1> QED BY <1>3, <1>4, <1>5, <1>6 DEF Next

\* The inductive invariant of the sender when acknowledgements keep their
\* order: each one that comes later says at least as much, the window holds
\* what may be sent, and the losses told of are in lost_queue.
THEOREM OrderInvariance ==
  ASSUME "ack" \notin Reorders
  PROVE  Spec => []OrderInv
<1>1. OrderInv /\ [Next]_vars => OrderInv'
  BY NextOrder
<1> QED BY InitOrder, <1>1, PTL DEF Spec

\* The sender's view of what has been received never goes back.
THEOREM ViewGrowsCorrect ==
  ASSUME "ack" \notin Reorders
  PROVE  Spec => ViewGrows
<1>1. OrderInv /\ [Next]_vars =>
        [/\ Received(total_reply) \subseteq Received(total_reply')
         /\ total_reply.main_ack <= total_reply'.main_ack]_vars
  BY NextOrder DEF Grown
<1> QED BY OrderInvariance, <1>1, PTL DEF Spec, ViewGrows

\* Every packet an acknowledgement has told the sender is missing is in
\* lost_queue until it is acknowledged.
THEOREM LossCorrect ==
  ASSUME "ack" \notin Reorders
  PROVE  Spec => []LossRemembered
<1>1. OrderInv => LossRemembered
  BY DEF OrderInv
<1> QED BY OrderInvariance, <1>1, PTL

\* The sender asks its ring only for packets inside the window, so the
\* assertion of operator[] holds, and finds them there.
THEOREM ReadsCorrect ==
  ASSUME "ack" \notin Reorders
  PROVE  Spec => []ReadsInWindow
<1>1. OrderInv => ReadsInWindow
  <2> SUFFICES ASSUME OrderInv, NEW p \in Reads
               PROVE  InWindow(s_base, p) /\ s_data[Slot(p)] = p
    BY DEF ReadsInWindow
  <2>0. /\ total_reply \in Acks /\ s_reply \in Acks
        /\ lost_queue \in Seq(LostPacks) /\ Len(lost_queue) \in Nat
        /\ s_base \in Nat /\ s_edge \in Nat /\ index \in Nat
        /\ send_seq_index \in 0 .. max_seq_index /\ max_seq_index \in Nat
        /\ count \in 0 .. Len(lost_queue)
        /\ SLOTS \in Nat /\ HARD_WIND \in Nat /\ HARD_WIND <= SLOTS
        /\ max_interval = 2 * SLOTS
        /\ bottom_ack(total_reply) \in Nat /\ total_reply.main_ack \in Nat
        /\ bottom_ack(total_reply) <= total_reply.main_ack
        /\ nak_i \in 0 .. NAK_SIZE /\ NAK_SIZE \in Nat
    BY LastPacket, LenProperties, AckNumbers, IntervalType, SenderAssumption,
       ACKAssumption
       DEF OrderInv, DoneInv, IInv, TypeOK, SenderTypeOK
  <2>1. s_pc \in {"loop", "naks"}
    BY DEF Reads, LostRead, LostIsDue, TailRead, NextRead, ResendDone, NakRead, NaksLeft
  <2>2. /\ s_edge = s_base + SLOTS
        /\ s_base <= bottom_ack(total_reply) /\ bottom_ack(total_reply) < s_edge
        /\ send_seq_index <= bottom_ack(total_reply) + HARD_WIND
        /\ s_pc = "loop" => total_reply.main_ack <= index
    BY <2>1 DEF OrderInv, SenderWindow
  \* Below the first missing packet nothing is read, nor above the next one.
  <2>3. /\ p \in Nat /\ bottom_ack(total_reply) <= p
        /\ p <= send_seq_index /\ p < max_seq_index
    <3>1. CASE LostRead /\ p = Head(lost_queue).seq_index
      <4>1. lost_queue # <<>>
        BY <2>0, <3>1, EmptySeq DEF LostRead, LostIsDue
      <4>2. p \in Named(lost_queue)
        BY <2>0, <3>1, <4>1, NamedTail
      <4>3. p \in Nat
        BY <2>0, <4>2, NamedPackets
      <4>4. p < send_seq_index
        BY <4>2, SentFirstNames DEF OrderInv, DoneInv
      <4>5. ~(p < bottom_ack(total_reply))
        <5>1. ~isAcked(total_reply, p)
          BY <3>1 DEF LostRead
        <5>2. p \notin Received(total_reply)
          BY <5>1 DEF Received
        <5> QED BY <2>0, <4>3, <5>2, AckNumbers
      <4> QED BY <2>0, <4>3, <4>4, <4>5
    <3>2. CASE TailRead /\ p = index
      BY <2>0, <2>2, <3>2 DEF TailRead
    <3>3. CASE NextRead /\ p = send_seq_index
      <4>1. send_seq_index < max_seq_index
        BY <2>0, <3>3 DEF NextRead, WindowFull
      <4>2. total_reply.main_ack <= send_seq_index
        <5>1. reply \in Acks /\ reply.main_ack <= send_seq_index
          BY DEF OrderInv, DoneInv, SentFirst, IInv, TypeOK, ReceiverTypeOK
        <5>2. total_reply.main_ack <= reply.main_ack
          BY <2>0, <5>1, AckMono DEF OrderInv, DoneInv, AcksBehind
        <5> QED BY <2>0, <5>1, <5>2, AckNumbers
      <4> QED BY <2>0, <3>3, <4>1, <4>2
    <3>4. CASE NakRead /\ p = s_reply.naks[nak_i]
      <4>1. /\ s_pc = "naks" /\ nak_i \in Slots /\ p # INACTIVE
            /\ p >= total_reply.main_ack
        BY <2>0, <3>4 DEF NakRead, NaksLeft, Slots
      <4>2. p \in Nat /\ p + 1 < s_reply.main_ack
        BY <2>0, <3>4, <4>1, NakBelow
      <4>3. s_reply.main_ack <= send_seq_index /\ s_reply.main_ack \in Nat
        BY <2>0, <4>1, TakenIsMore, AckNumbers
      <4> QED BY <2>0, <4>1, <4>2, <4>3
    <3> QED BY <3>1, <3>2, <3>3, <3>4 DEF Reads
  <2>4. s_base <= p /\ p < s_base + 2 * SLOTS
    BY <2>0, <2>2, <2>3
  <2>5. InWindow(s_base, p)
    BY <2>0, <2>3, <2>4, OffsetEnd
  <2>6. s_data[Slot(p)] = p
    <3>1. offset_end(s_base) \in Int
      BY <2>0 DEF offset_end, MinOf
    <3>2. p \in s_base .. (offset_end(s_base) - 1)
      BY <2>0, <2>3, <2>5, <3>1 DEF InWindow
    <3> QED BY <2>1, <3>2 DEF OrderInv, DoneInv, IInv, SenderRing
  <2> QED BY <2>5, <2>6
<1> QED BY OrderInvariance, <1>1, PTL
=============================================================================
