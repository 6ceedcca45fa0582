--------------------------- MODULE FileUDPProofs ---------------------------
(***************************************************************************)
(* What the receiver of a file has written and acknowledged is right, for  *)
(* every file, every size of window, ring and record, and every behaviour  *)
(* of the network.  The sender's part of the argument is only that its     *)
(* ring holds, inside the window operator[] lets it read, the packets of   *)
(* the file, so a datagram always carries the packet it names.  It follows *)
(* that the transfer is a copy of the file (module FileCopy).              *)
(***************************************************************************)
EXTENDS FileUDP, DatagramACKProofs, SequenceTheorems, TLAPS

-----------------------------------------------------------------------------
(* The ring: which slots packets share, and how many packets a file has     *)

\* Division with remainder.
LEMMA DivMod ==
  ASSUME NEW i \in Nat, NEW w \in Nat \ {0}
  PROVE  i = w * (i \div w) + (i % w) /\ i \div w \in Nat /\ i % w \in 0 .. (w - 1)
OBVIOUS

LEMMA ModUnique ==
  ASSUME NEW q \in Nat, NEW w \in Nat \ {0}, NEW r \in 0 .. (w - 1)
  PROVE  (w * q + r) % w = r /\ (w * q + r) \div w = q
OBVIOUS

LEMMA MulSucc ==
  ASSUME NEW w \in Nat, NEW q \in Nat
  PROVE  w * (q + 1) = w * q + w /\ w * q \in Nat /\ (q + 1) * w = w * q + w
OBVIOUS

LEMMA IntervalType == max_interval \in Nat \ {0} /\ SLOTS \in Nat \ {0} /\ max_interval = 2 * SLOTS
BY WindowAssumption DEF max_interval

\* The slot of a packet is a slot of the ring.
LEMMA SlotType ==
  ASSUME NEW i \in Nat
  PROVE  Slot(i) \in 0 .. (max_interval - 1)
BY IntervalType, DivMod DEF Slot

\* k packets further on, as long as the end of the ring is not passed, ...
LEMMA SlotNear ==
  ASSUME NEW i \in Nat, NEW k \in Nat, Slot(i) + k < max_interval
  PROVE  Slot(i + k) = Slot(i) + k
<1> DEFINE q == i \div max_interval
           r == i % max_interval
<1>1. i = max_interval * q + r /\ q \in Nat /\ r \in 0 .. (max_interval - 1)
  BY IntervalType, DivMod
<1>2. r + k \in 0 .. (max_interval - 1)
  BY <1>1, IntervalType DEF Slot
<1> HIDE DEF q, r
<1>3. (max_interval * q + (r + k)) % max_interval = r + k
  BY <1>1, <1>2, IntervalType, ModUnique
<1>4. max_interval * q \in Nat
  BY <1>1, IntervalType
<1>5. i + k = max_interval * q + (r + k)
  BY <1>1, <1>2, <1>4
<1> QED BY <1>3, <1>5 DEF Slot, r

\* ... and when it is passed.
LEMMA SlotWrap ==
  ASSUME NEW i \in Nat, NEW k \in Nat,
         Slot(i) + k >= max_interval, Slot(i) + k < 2 * max_interval
  PROVE  Slot(i + k) = Slot(i) + k - max_interval
<1> DEFINE q == i \div max_interval
           r == i % max_interval
<1>1. i = max_interval * q + r /\ q \in Nat /\ r \in 0 .. (max_interval - 1)
  BY IntervalType, DivMod
<1> DEFINE s == r + k - max_interval
<1>2. s \in 0 .. (max_interval - 1)
  BY <1>1, IntervalType DEF Slot
<1> HIDE DEF q
<1>3. (max_interval * (q + 1) + s) % max_interval = s
  <2>1. q + 1 \in Nat
    BY <1>1
  <2> HIDE DEF s
  <2> QED BY <2>1, <1>2, IntervalType, ModUnique
<1>4. /\ max_interval * q \in Nat
      /\ max_interval * (q + 1) = max_interval * q + max_interval
  <2>1. max_interval \in Nat /\ q \in Nat
    BY <1>1, IntervalType
  <2> QED BY <2>1, MulSucc
<1>5. i + k = max_interval * (q + 1) + s
  BY <1>1, <1>4, IntervalType
<1>6. s = Slot(i) + k - max_interval
  BY DEF Slot
<1> QED BY <1>3, <1>5, <1>6 DEF Slot

\* Two packets of one window never share a slot.
LEMMA SlotDistinct ==
  ASSUME NEW i \in Nat, NEW j \in Nat, i < j, j < i + max_interval
  PROVE  Slot(i) # Slot(j)
<1> DEFINE k == j - i
<1>1. k \in Nat /\ k > 0 /\ k < max_interval /\ j = i + k
  BY IntervalType
<1>2. Slot(i) \in 0 .. (max_interval - 1)
  BY SlotType
<1> HIDE DEF k
<1>3. CASE Slot(i) + k < max_interval
  <2>1. Slot(j) = Slot(i) + k
    BY <1>1, <1>3, SlotNear
  <2> QED BY <1>1, <1>2, <2>1, IntervalType
<1>4. CASE Slot(i) + k >= max_interval
  <2>1. Slot(j) = Slot(i) + k - max_interval
    BY <1>1, <1>2, <1>4, IntervalType, SlotWrap
  <2> QED BY <1>1, <1>2, <2>1, IntervalType
<1> QED BY <1>1, <1>2, <1>3, <1>4, IntervalType

\* The base of a window stays at the start of one half of the ring.
LEMMA SlotHalf ==
  ASSUME NEW b \in Nat, Slot(b) \in {0, SLOTS}
  PROVE  Slot(b + SLOTS) \in {0, SLOTS} /\ Slot(b + SLOTS) = SLOTS - Slot(b)
<1>1. CASE Slot(b) = 0
  BY <1>1, IntervalType, SlotNear
<1>2. CASE Slot(b) = SLOTS
  <2>1. Slot(b + SLOTS) = Slot(b) + SLOTS - max_interval
    BY <1>2, IntervalType, SlotWrap
  <2> QED BY <1>2, <2>1, IntervalType
<1> QED BY <1>1, <1>2

\* A file has at least one packet; its last byte is in the last packet.
LEMMA LastPacket ==
  /\ max_seq_index \in Nat \ {0}
  /\ (max_seq_index - 1) * SINGLE_LENGTH < Length
  /\ Length <= max_seq_index * SINGLE_LENGTH
<1> DEFINE q == (Length - 1) \div SINGLE_LENGTH
           r == (Length - 1) % SINGLE_LENGTH
<1>1. /\ Length - 1 = SINGLE_LENGTH * q + r /\ q \in Nat
      /\ r \in 0 .. (SINGLE_LENGTH - 1)
  <2>1. Length - 1 \in Nat /\ SINGLE_LENGTH \in Nat \ {0}
    BY WindowAssumption
  <2> QED BY <2>1, DivMod
<1>2. max_seq_index = q + 1
  BY DEF max_seq_index
<1> HIDE DEF q, r
<1>3. /\ max_seq_index * SINGLE_LENGTH = SINGLE_LENGTH * q + SINGLE_LENGTH
      /\ SINGLE_LENGTH * q \in Nat
  BY <1>1, <1>2, WindowAssumption, MulSucc
<1>4. max_seq_index - 1 = q
  BY <1>1, <1>2
<1>5. (max_seq_index - 1) * SINGLE_LENGTH = SINGLE_LENGTH * q
  BY <1>1, <1>4, WindowAssumption
<1>6. max_seq_index \in Nat \ {0}
  BY <1>1, <1>2
<1> DEFINE p == SINGLE_LENGTH * q
           l == (max_seq_index - 1) * SINGLE_LENGTH
           u == max_seq_index * SINGLE_LENGTH
<1>7. /\ Length - 1 = p + r /\ p \in Nat /\ r \in 0 .. (SINGLE_LENGTH - 1)
      /\ l = p /\ u = p + SINGLE_LENGTH
  BY <1>1, <1>3, <1>5
<1> HIDE DEF p, l, u
<1>8. l < Length /\ Length <= u
  BY <1>7, WindowAssumption
<1> QED BY <1>6, <1>8 DEF l, u

\* The last packet of a window, and MinOf.
LEMMA MinType ==
  ASSUME NEW x \in Int, NEW y \in Int
  PROVE  /\ MinOf(x, y) \in {x, y} /\ MinOf(x, y) <= x /\ MinOf(x, y) <= y
         /\ MinOf(x, y) \in Int
BY DEF MinOf

-----------------------------------------------------------------------------
(* Acknowledgements                                                         *)

LEMMA NewIsAck == NewACK \in Acks
BY NewWellFormed, LastPacket DEF Acks, WellFormed, NewACK

\* update makes a record of the receiver from one and a packet of the file.
LEMMA UpdateIsAck ==
  ASSUME NEW a \in Acks, NEW p \in Packets
  PROVE  update(a, p) \in Acks
<1>1. WellFormed(a) /\ a \in ACK /\ a.main_ack \in Nat /\ a.main_ack <= max_seq_index
  BY DEF Acks, ACK
<1>2. p \in Nat /\ p < INACTIVE /\ p + 1 <= max_seq_index
  BY FileAssumption, LastPacket, ACKAssumption DEF Packets
<1>3. WellFormed(update(a, p))
  BY <1>1, <1>2, UpdateCorrect
<1>4. update(a, p).main_ack \in {a.main_ack, p + 1}
  BY <1>1 DEF update, Expand, Shift, ACK
<1> QED BY <1>1, <1>2, <1>3, <1>4 DEF Acks, WellFormed

-----------------------------------------------------------------------------
(* The network                                                              *)

LEMMA FaultType ==
  ASSUME faults \in 0 .. MaxFaults, Fault
  PROVE  faults' \in 0 .. MaxFaults
BY NetworkAssumption DEF Fault

LEMMA AppendType ==
  ASSUME NEW S, NEW chan \in Seq(S), NEW d \in S,
         NEW next, next \in {chan, Append(chan, d)}
  PROVE  next \in Seq(S)
BY AppendProperties

\* Sending keeps the types of the channel.
LEMMA SendDataType ==
  ASSUME NetTypeOK, NEW d \in Datagrams, SendData(d), UNCHANGED <<ackChan, r_err>>
  PROVE  NetTypeOK'
<1>1. dataChan' \in Seq(Datagrams)
  <2>1. dataChan' \in {dataChan, Append(dataChan, d)}
    BY DEF SendData
  <2> QED BY <2>1, AppendType DEF NetTypeOK
<1>2. s_err' \in BOOLEAN
  BY DEF SendData, NetTypeOK
<1>3. faults' \in 0 .. MaxFaults
  BY FaultType DEF SendData, NetTypeOK
<1> QED BY <1>1, <1>2, <1>3 DEF NetTypeOK

LEMMA SendAckType ==
  ASSUME NetTypeOK, NEW a \in Acks, SendAck(a)
  PROVE  ackChan' \in Seq(Acks) /\ faults' \in 0 .. MaxFaults
<1>1. ackChan' \in Seq(Acks)
  <2>1. ackChan' \in {ackChan, Append(ackChan, a)}
    BY DEF SendAck
  <2> QED BY <2>1, AppendType DEF NetTypeOK
<1>2. faults' \in 0 .. MaxFaults
  BY FaultType DEF SendAck, NetTypeOK
<1> QED BY <1>1, <1>2

LEMMA SwapType ==
  ASSUME NEW S, NEW chan \in Seq(S), NEW i \in 1 .. (Len(chan) - 1)
  PROVE  Swap(chan, i) \in Seq(S)
<1>1. i \in 1 .. Len(chan) /\ i + 1 \in 1 .. Len(chan) /\ Len(chan) \in Nat
  BY LenProperties
<1>2. chan[i] \in S /\ chan[i + 1] \in S
  BY <1>1, ElementOfSeq
<1> DEFINE once == [chan EXCEPT ![i] = chan[i + 1]]
<1>3. once \in Seq(S) /\ Len(once) = Len(chan)
  BY <1>1, <1>2, ExceptSeq
<1>4. Swap(chan, i) = [once EXCEPT ![i + 1] = chan[i]]
  BY DEF Swap
<1> HIDE DEF once
<1> QED BY <1>1, <1>2, <1>3, <1>4, ExceptSeq

\* A step of the network.
LEMMA NetworkType ==
  ASSUME NetTypeOK, Network
  PROVE  NetTypeOK'
<1>1. CASE ReorderData
  <2>1. dataChan' \in Seq(Datagrams)
    BY <1>1, SwapType DEF ReorderData, NetTypeOK
  <2> QED BY <1>1, <2>1, FaultType DEF ReorderData, NetTypeOK
<1>2. CASE ReorderAcks
  <2>1. ackChan' \in Seq(Acks)
    BY <1>2, SwapType DEF ReorderAcks, NetTypeOK
  <2> QED BY <1>2, <2>1, FaultType DEF ReorderAcks, NetTypeOK
<1>3. CASE DataRefused(ReceiverGone, SenderGone)
  BY <1>3, HeadTailProperties DEF DataRefused, NetTypeOK
<1>4. CASE AckRefused(SenderGone, ReceiverGone)
  BY <1>4, HeadTailProperties DEF AckRefused, NetTypeOK
<1> QED BY <1>1, <1>2, <1>3, <1>4 DEF Network

-----------------------------------------------------------------------------
(* The sender                                                               *)

\* operator[] finds the packet it is asked for.
LEMMA DatagramIsRight ==
  ASSUME SenderTypeOK, SenderRing, s_pc # "abort",
         NEW seq \in Int, InWindow(s_base, seq)
  PROVE  seq \in Packets /\ Datagram(seq) \in Datagrams
<1>1. s_base \in Nat /\ max_seq_index \in Nat /\ max_interval \in Nat
  BY LastPacket, IntervalType DEF SenderTypeOK
<1>2. offset_end(s_base) <= max_seq_index /\ offset_end(s_base) \in Int
  <2>1. s_base + max_interval \in Int /\ max_seq_index \in Int
    BY <1>1
  <2> QED BY <2>1, MinType DEF offset_end
<1>3. seq \in Packets
  BY <1>1, <1>2 DEF InWindow, Packets
<1>4. s_data[Slot(seq)] = seq
  BY <1>1, <1>2 DEF InWindow, SenderRing
<1> QED BY <1>3, <1>4 DEF Datagram, Datagrams

LEMMA TransmitType ==
  ASSUME SenderTypeOK, NetTypeOK, SenderRing, s_pc # "abort",
         NEW seq \in Int, Transmit(seq)
  PROVE  seq \in Packets /\ NetTypeOK'
BY DatagramIsRight, SendDataType DEF Transmit

\* Dropping what is in a socket buffer.
LEMMA ClosedType ==
  ASSUME NEW S, NEW chan \in Seq(S), NEW next \in Closed(chan)
  PROVE  next \in Seq(S)
BY EmptySeq DEF Closed

LEMMA LostType ==
  ASSUME NEW seq \in Packets, NEW t \in Nat
  PROVE  Lost(seq, t) \in LostPacks
BY DEF Lost, LostPacks

\* The files a sender starts with fill its ring.
LEMMA TwoBlocks ==
  ASSUME Length >= 2 * SLOTS * SINGLE_LENGTH
  PROVE  max_interval <= max_seq_index
<1>1. /\ SLOTS \in Nat /\ SINGLE_LENGTH \in Nat \ {0} /\ max_seq_index \in Nat
      /\ max_interval \in Nat /\ max_interval = 2 * SLOTS /\ Length \in Nat
  BY IntervalType, LastPacket, WindowAssumption
<1>2. \A m, n \in Nat : \A l \in Nat \ {0} : m * l <= n * l => m <= n
  OBVIOUS
<1>3. max_interval * SINGLE_LENGTH <= max_seq_index * SINGLE_LENGTH
  <2>1. max_interval * SINGLE_LENGTH <= Length
    BY <1>1
  <2>2. Length <= max_seq_index * SINGLE_LENGTH
    BY LastPacket
  <2>3. max_interval * SINGLE_LENGTH \in Nat /\ max_seq_index * SINGLE_LENGTH \in Nat
    BY <1>1
  <2> QED BY <1>1, <2>1, <2>2, <2>3
<1> QED BY <1>1, <1>2, <1>3

\* fread puts the next block where the acknowledged one was.
LEMMA RefillRing ==
  ASSUME SenderTypeOK, SenderRing, s_pc # "abort", Refill
  PROVE  /\ s_base' \in Nat /\ s_edge' \in Nat /\ s_fpos' \in Nat
         /\ s_data' \in [Rings -> Nat]
         /\ Slot(s_base') \in {0, SLOTS}
         /\ s_fpos' = offset_end(s_base')
         /\ \A i \in s_base' .. (offset_end(s_base') - 1) : s_data'[Slot(i)] = i
<1> DEFINE first == Slot(s_base)
           n == MinOf(SLOTS, max_seq_index - s_fpos)
<1>1. /\ s_base \in Nat /\ s_edge \in Nat /\ s_fpos \in Nat
      /\ max_seq_index \in Nat /\ SLOTS \in Nat /\ SLOTS > 0
      /\ max_interval = 2 * SLOTS /\ max_interval \in Nat
      /\ s_data \in [Rings -> Nat]
  BY LastPacket, IntervalType DEF SenderTypeOK
<1>2. first \in {0, SLOTS} /\ s_fpos = offset_end(s_base)
  BY DEF SenderRing
<1>3. /\ s_base' = s_base + SLOTS /\ s_edge' = s_edge + SLOTS
      /\ s_fpos' = s_fpos + n
      /\ s_data' = [j \in 0 .. (max_interval - 1) |->
                      IF first <= j /\ j < first + n
                      THEN s_fpos + (j - first)
                      ELSE s_data[j]]
  BY DEF Refill, FreadSlot
<1>4. /\ s_fpos = MinOf(s_base + 2 * SLOTS, max_seq_index)
      /\ s_fpos <= max_seq_index
      /\ n \in 0 .. SLOTS
      /\ s_fpos + n = offset_end(s_base + SLOTS)
      /\ s_fpos + n <= max_seq_index
  BY <1>1, <1>2 DEF offset_end, MinOf
<1> HIDE DEF n
<1>5. s_data' \in [Rings -> Nat]
  <2> DEFINE cell(j) == IF first <= j /\ j < first + n
                        THEN s_fpos + (j - first)
                        ELSE s_data[j]
  <2>1. ASSUME NEW j \in Rings PROVE cell(j) \in Nat
    <3>1. s_data[j] \in Nat
      BY <1>1
    <3>2. first \in Nat /\ j \in Nat
      BY <1>1, <1>2 DEF Rings
    <3>3. first <= j => s_fpos + (j - first) \in Nat
      BY <1>1, <3>2
    <3> QED BY <3>1, <3>3
  <2>2. s_data' = [j \in Rings |-> cell(j)]
    BY <1>3, Zenon DEF Rings
  <2> HIDE DEF cell
  <2> QED BY <2>1, <2>2
<1>6. Slot(s_base') \in {0, SLOTS}
  BY <1>1, <1>2, <1>3, SlotHalf
<1>7. ASSUME NEW i \in s_base' .. (offset_end(s_base') - 1)
      PROVE  s_data'[Slot(i)] = i
  <2>1. i \in Nat /\ s_base + SLOTS <= i /\ i < s_fpos + n
    BY <1>1, <1>3, <1>4
  <2>2. Slot(i) \in 0 .. (max_interval - 1)
    BY <2>1, SlotType
  <2>3. CASE i < s_base + 2 * SLOTS
    <3> DEFINE k == i - (s_base + SLOTS)
    <3>1. k \in Nat /\ k < SLOTS /\ i = s_base + SLOTS + k
      BY <1>1, <2>1, <2>3
    <3>2. Slot(s_base + SLOTS) = SLOTS - first /\ s_base + SLOTS \in Nat
      BY <1>1, <1>2, SlotHalf
    <3> HIDE DEF k
    <3>3. Slot(i) = SLOTS - first + k
      BY <1>1, <1>2, <3>1, <3>2, SlotNear
    <3>4. ~(first <= Slot(i) /\ Slot(i) < first + n)
      BY <1>1, <1>2, <1>4, <3>1, <3>3
    <3>5. s_data'[Slot(i)] = s_data[Slot(i)]
      BY <1>3, <2>2, <3>4
    <3>6. i < offset_end(s_base) /\ s_base <= i
      BY <1>1, <1>2, <1>4, <2>1, <2>3 DEF MinOf
    <3>7. s_data[Slot(i)] = i
      BY <1>1, <1>2, <1>4, <2>1, <3>6 DEF SenderRing
    <3> QED BY <3>5, <3>7
  <2>4. CASE s_base + 2 * SLOTS <= i
    <3> DEFINE k == i - (s_base + 2 * SLOTS)
    <3>1. s_fpos = s_base + 2 * SLOTS
      BY <1>1, <1>4, <2>1, <2>4 DEF MinOf
    <3>2. k \in Nat /\ k < n /\ i = s_base + 2 * SLOTS + k
      BY <1>1, <1>4, <2>1, <2>4, <3>1
    <3> HIDE DEF k
    <3>3. Slot(s_base + 2 * SLOTS) = first
      <4>1. Slot(s_base + max_interval) = first + max_interval - max_interval
        <5>1. /\ first + max_interval >= max_interval
              /\ first + max_interval < 2 * max_interval
          BY <1>1, <1>2
        <5> QED BY <1>1, <5>1, SlotWrap
      <4> QED BY <1>1, <1>2, <4>1
    <3>4. Slot(i) = first + k
      BY <1>1, <1>2, <1>4, <3>2, <3>3, SlotNear
    <3>5. s_data'[Slot(i)] = s_fpos + (Slot(i) - first)
      <4>1. first <= Slot(i) /\ Slot(i) < first + n
        BY <1>1, <1>2, <1>4, <3>2, <3>4
      <4> QED BY <1>3, <2>2, <4>1
    <3>6. s_fpos + ((first + k) - first) = i
      BY <1>1, <1>2, <3>1, <3>2
    <3> QED BY <3>4, <3>5, <3>6
  <2> QED BY <1>1, <2>1, <2>3, <2>4
<1>8. s_fpos' = offset_end(s_base') /\ s_fpos' \in Nat
  BY <1>1, <1>3, <1>4
<1>9. s_base' \in Nat /\ s_edge' \in Nat
  BY <1>1, <1>3
<1> QED BY <1>5, <1>6, <1>7, <1>8, <1>9

\* No step but Refill touches the ring.
LEMMA RingUnchanged ==
  ASSUME SenderRing, UNCHANGED <<s_base, s_fpos, s_data>>,
         s_pc' = "abort" \/ s_pc # "abort"
  PROVE  SenderRing'
BY DEF SenderRing

LEMMA SenderInitType ==
  ASSUME SenderInit
  PROVE  SenderTypeOK /\ SenderRing
<1>1. /\ SLOTS \in Nat \ {0} /\ max_interval = 2 * SLOTS
      /\ max_interval \in Nat \ {0} /\ max_seq_index \in Nat \ {0}
  BY IntervalType, LastPacket
<1>2. SenderTypeOK
  <2>1. s_data \in [Rings -> Nat]
    BY <1>1 DEF SenderInit, Rings
  <2>2. s_edge \in Nat
    BY <1>1 DEF SenderInit, MinOf
  <2>3. lost_queue \in Seq(LostPacks) /\ Len(lost_queue) = 0
    BY EmptySeq DEF SenderInit
  <2>4. /\ total_reply \in Acks /\ s_reply \in Acks
        /\ nak_i \in 0 .. NAK_SIZE
    BY NewIsAck, ACKAssumption DEF SenderInit
  <2>5. s_pc \in {"loop", "naks", "done", "abort"} /\ isTimeout \in BOOLEAN
    BY DEF SenderInit
  <2>6. /\ send_seq_index \in 0 .. max_seq_index
        /\ count = 0 /\ index \in Nat /\ s_base \in Nat /\ s_fpos \in Nat
    BY <1>1 DEF SenderInit
  <2> QED BY <2>1, <2>2, <2>3, <2>4, <2>5, <2>6 DEF SenderTypeOK
<1>3. SenderRing
  <2> SUFFICES ASSUME s_pc # "abort"
               PROVE  /\ Slot(s_base) \in {0, SLOTS}
                      /\ s_fpos = offset_end(s_base)
                      /\ \A i \in s_base .. (offset_end(s_base) - 1) :
                           s_data[Slot(i)] = i
    BY DEF SenderRing
  <2>1. max_interval <= max_seq_index
    BY TwoBlocks DEF SenderInit
  <2>2. s_base = 0 /\ s_fpos = max_interval
    BY DEF SenderInit
  <2>3. offset_end(s_base) = max_interval
    BY <1>1, <2>1, <2>2 DEF offset_end, MinOf
  <2>4. \A i \in 0 .. (max_interval - 1) : Slot(i) = i
    <3>1. Slot(0) = 0
      <4>1. (max_interval * 0 + 0) % max_interval = 0
        BY <1>1, ModUnique
      <4> QED BY <1>1, <4>1 DEF Slot
    <3> QED BY <1>1, <3>1, SlotNear
  <2>5. \A i \in 0 .. (max_interval - 1) : s_data[i] = i
    BY DEF SenderInit
  <2> QED BY <1>1, <2>2, <2>3, <2>4, <2>5
<1> QED BY <1>2, <1>3

\* A step of the sender.
LEMMA SenderStep ==
  ASSUME SenderTypeOK, NetTypeOK, SenderRing, SenderNext
  PROVE  SenderTypeOK' /\ NetTypeOK' /\ SenderRing'
<1>0. /\ lost_queue \in Seq(LostPacks) /\ Len(lost_queue) \in Nat
      /\ total_reply.main_ack \in Nat /\ LOST_GAP \in Nat /\ NAK_SIZE \in Nat
      /\ max_seq_index \in Nat
      /\ \A i \in Slots : s_reply.naks[i] \in Nat
  BY LenProperties, LastPacket, SenderAssumption, ACKAssumption
     DEF SenderTypeOK, Acks, ACK
<1>1. CASE FixLost
  <2> DEFINE seq == Head(lost_queue).seq_index
  <2>1. s_pc # "abort" /\ count > 0 /\ count \in 0 .. Len(lost_queue)
    BY <1>1 DEF FixLost, LostIsDue, SenderTypeOK
  <2>2. lost_queue # <<>>
    BY <1>0, <2>1, EmptySeq
  <2>3. /\ seq \in Packets /\ Tail(lost_queue) \in Seq(LostPacks)
        /\ Len(Tail(lost_queue)) = Len(lost_queue) - 1
    <3>1. /\ Head(lost_queue) \in LostPacks /\ Tail(lost_queue) \in Seq(LostPacks)
          /\ Len(Tail(lost_queue)) = Len(lost_queue) - 1
      BY <1>0, <2>2, HeadTailProperties
    <3> QED BY <3>1 DEF LostPacks
  <2>4. NetTypeOK'
    <3>1. CASE UNCHANGED netVars
      BY <3>1 DEF NetTypeOK, netVars
    <3>2. CASE Transmit(seq)
      BY <2>1, <2>3, <3>2, TransmitType DEF Packets
    <3> QED BY <1>1, <3>1, <3>2 DEF FixLost
  <2>5. /\ lost_queue' \in Seq(LostPacks)
        /\ Len(lost_queue') \in {Len(lost_queue) - 1, Len(lost_queue)}
    <3> DEFINE e == Lost(seq, total_reply.main_ack + LOST_GAP)
    <3>1. e \in LostPacks
      BY <1>0, <2>3, LostType
    <3>2. lost_queue' \in {Tail(lost_queue), Append(Tail(lost_queue), e)}
      BY <1>1 DEF FixLost
    <3> HIDE DEF e
    <3>3. /\ Append(Tail(lost_queue), e) \in Seq(LostPacks)
          /\ Len(Append(Tail(lost_queue), e)) = Len(Tail(lost_queue)) + 1
      BY <2>3, <3>1, AppendProperties
    <3>4. (Len(lost_queue) - 1) + 1 = Len(lost_queue)
      BY <1>0
    <3>5. CASE lost_queue' = Tail(lost_queue)
      BY <2>3, <3>5
    <3>6. CASE lost_queue' = Append(Tail(lost_queue), e)
      BY <2>3, <3>3, <3>4, <3>6
    <3> QED BY <3>2, <3>5, <3>6
  <2>6. count' \in 0 .. Len(lost_queue')
    BY <1>0, <1>1, <2>1, <2>5 DEF FixLost
  <2>7. SenderTypeOK'
    BY <1>1, <2>5, <2>6 DEF FixLost, SenderTypeOK
  <2>8. SenderRing'
    BY <1>1, <2>1, RingUnchanged DEF FixLost
  <2> QED BY <2>4, <2>7, <2>8
<1>2. CASE ResendTail
  <2>1. s_pc # "abort" /\ index \in Nat /\ count \in 0 .. Len(lost_queue)
    BY <1>2 DEF ResendTail, TailRead, SenderTypeOK
  <2>2. index \in Packets /\ NetTypeOK'
    BY <1>2, <2>1, TransmitType DEF ResendTail
  <2>3. /\ lost_queue' \in Seq(LostPacks)
        /\ Len(lost_queue') = Len(lost_queue) + 1
    <3>1. Lost(index, index + LOST_GAP) \in LostPacks
      BY <1>0, <2>1, <2>2, LostType
    <3> QED BY <1>0, <1>2, <3>1, AppendProperties DEF ResendTail
  <2>4. index' \in Nat /\ count' \in 0 .. Len(lost_queue')
    BY <1>0, <1>2, <2>1, <2>3 DEF ResendTail
  <2>5. SenderTypeOK'
    BY <1>2, <2>3, <2>4 DEF ResendTail, SenderTypeOK
  <2>6. SenderRing'
    BY <1>2, <2>1, RingUnchanged DEF ResendTail
  <2> QED BY <2>2, <2>5, <2>6
<1>3. CASE SendNext
  <2>1. s_pc # "abort" /\ send_seq_index \in Nat
    BY <1>3 DEF SendNext, NextRead, ResendDone, SenderTypeOK
  <2>2. send_seq_index \in Packets /\ NetTypeOK'
    BY <1>3, <2>1, TransmitType DEF SendNext
  <2>3. /\ send_seq_index' \in 0 .. max_seq_index
        /\ count' \in 0 .. Len(lost_queue') /\ index' \in Nat
    BY <1>0, <1>3, <2>2 DEF SendNext, NextRound, Packets
  <2>4. SenderTypeOK'
    BY <1>3, <2>3 DEF SendNext, NextRound, SenderTypeOK
  <2>5. SenderRing'
    BY <1>3, <2>1, RingUnchanged DEF SendNext
  <2> QED BY <2>2, <2>4, <2>5
<1>4. CASE SenderAbort
  <2>1. NetTypeOK'
    BY <1>4, ClosedType DEF SenderAbort, NetTypeOK
  <2>2. SenderTypeOK'
    BY <1>4 DEF SenderAbort, SenderTypeOK
  <2>3. SenderRing'
    BY <1>4 DEF SenderAbort, SenderRing
  <2> QED BY <2>1, <2>2, <2>3
<1>5. CASE Timeout
  <2>1. s_pc # "abort"
    BY <1>5 DEF Timeout, Waiting, ResendDone
  <2>2. faults' \in 0 .. MaxFaults
    BY <1>5, FaultType DEF Timeout, NetTypeOK
  <2>3. NetTypeOK'
    BY <1>5, <2>2 DEF Timeout, NetTypeOK
  <2>4. count' \in 0 .. Len(lost_queue') /\ index' \in Nat
    BY <1>0, <1>5 DEF Timeout, NextRound
  <2>5. SenderTypeOK'
    BY <1>5, <2>4 DEF Timeout, NextRound, SenderTypeOK
  <2>6. SenderRing'
    BY <1>5, <2>1, RingUnchanged DEF Timeout
  <2> QED BY <2>3, <2>5, <2>6
<1>6. CASE RecvAck
  <2>1. s_pc # "abort"
    BY <1>6 DEF RecvAck, Waiting, ResendDone
  <2>2. Head(ackChan) \in Acks /\ Tail(ackChan) \in Seq(Acks)
    BY <1>6, HeadTailProperties DEF RecvAck, NetTypeOK
  <2>3. NetTypeOK'
    BY <1>6, <2>2 DEF RecvAck, NetTypeOK
  <2>4. nak_i' \in 0 .. NAK_SIZE
    BY <1>0, <1>6 DEF RecvAck
  <2>5. SenderTypeOK'
    BY <1>6, <2>2, <2>4 DEF RecvAck, SenderTypeOK
  <2>6. SenderRing'
    BY <1>6, <2>1, RingUnchanged DEF RecvAck
  <2> QED BY <2>3, <2>5, <2>6
<1>7. CASE ResendNak
  <2> DEFINE nak == s_reply.naks[nak_i]
  <2>1. s_pc # "abort" /\ nak_i \in Slots /\ nak \in Int
    BY <1>0, <1>7 DEF ResendNak, NaksLeft, SenderTypeOK, Slots
  <2>2. nak_i' \in 0 .. NAK_SIZE
    BY <1>0, <1>7, <2>1 DEF ResendNak, Slots
  <2>3. CASE ~NakRead
    <3>1. UNCHANGED <<lost_queue, netVars>>
      BY <1>7, <2>3 DEF ResendNak
    <3>2. NetTypeOK'
      BY <3>1 DEF NetTypeOK, netVars
    <3>3. SenderTypeOK'
      BY <1>7, <2>2, <3>1 DEF ResendNak, SenderTypeOK
    <3> QED BY <1>7, <2>1, <3>2, <3>3, RingUnchanged DEF ResendNak
  <2>4. CASE NakRead
    <3>1. nak \in Packets /\ NetTypeOK'
      BY <1>7, <2>1, <2>4, TransmitType DEF ResendNak
    <3>2. /\ lost_queue' \in Seq(LostPacks)
          /\ Len(lost_queue') = Len(lost_queue) + 1
      <4>1. Lost(nak, total_reply.main_ack + LOST_GAP) \in LostPacks
        BY <1>0, <3>1, LostType
      <4> QED BY <1>0, <1>7, <2>4, <4>1, AppendProperties DEF ResendNak
    <3>3. count' \in 0 .. Len(lost_queue')
      BY <1>0, <1>7, <3>2 DEF ResendNak, SenderTypeOK
    <3>4. SenderTypeOK'
      BY <1>7, <2>2, <3>2, <3>3 DEF ResendNak, SenderTypeOK
    <3> QED BY <1>7, <2>1, <3>1, <3>4, RingUnchanged DEF ResendNak
  <2> QED BY <2>3, <2>4
<1>8. CASE TakeReply
  <2>1. s_pc # "abort"
    BY <1>8 DEF TakeReply
  <2>2. NetTypeOK'
    BY <1>8, ClosedType DEF TakeReply, NetTypeOK
  <2>3. /\ s_base' \in Nat /\ s_edge' \in Nat /\ s_fpos' \in Nat
        /\ s_data' \in [Rings -> Nat]
        /\ SenderRing'
    <3>1. CASE Refill
      BY <2>1, <3>1, RefillRing DEF SenderRing
    <3>2. CASE UNCHANGED <<s_base, s_edge, s_data, s_fpos>>
      BY <2>1, <3>2, RingUnchanged DEF SenderTypeOK
    <3> QED BY <1>8, <3>1, <3>2 DEF TakeReply
  <2>4. s_reply.main_ack \in Nat
    BY DEF SenderTypeOK, Acks, ACK
  <2>5. count' \in 0 .. Len(lost_queue') /\ index' \in Nat
    BY <1>0, <1>8, <2>4 DEF TakeReply, NextRound, SenderTypeOK
  <2>6. /\ s_pc' \in {"loop", "naks", "done", "abort"}
        /\ total_reply' \in Acks /\ s_reply' \in Acks
        /\ nak_i' \in 0 .. NAK_SIZE
    BY <1>0, <1>8, NewIsAck DEF TakeReply, NextRound, SenderTypeOK
  <2>7. SenderTypeOK'
    BY <1>8, <2>3, <2>5, <2>6 DEF TakeReply, SenderTypeOK
  <2> QED BY <2>2, <2>3, <2>7
<1> QED
  BY <1>1, <1>2, <1>3, <1>4, <1>5, <1>6, <1>7, <1>8
     DEF SenderNext, WindowAssert, SenderRefused

-----------------------------------------------------------------------------
(* What the receiver writes                                                 *)

LEMMA MulMono ==
  ASSUME NEW l \in Nat, NEW m \in Nat, NEW n \in Nat, m < n
  PROVE  m * l + l <= n * l /\ m * l \in Nat /\ n * l \in Nat
<1>1. \E d \in Nat : n = m + 1 + d
  <2>1. n - (m + 1) \in Nat /\ n = m + 1 + (n - (m + 1))
    OBVIOUS
  <2> QED BY <2>1
<1>2. PICK d \in Nat : n = m + 1 + d
  BY <1>1
<1>3. n * l = m * l + l + d * l /\ d * l \in Nat /\ m * l \in Nat
  BY <1>2
<1> QED BY <1>3

\* A prefix of the source file, as FileIsPrefix has it.
Prefix(n) == [k \in 1 .. n |-> k - 1]

LEMMA PrefixType ==
  ASSUME NEW n \in Nat
  PROVE  Prefix(n) \in Seq(Nat) /\ Len(Prefix(n)) = n
BY DEF Prefix

\* Appending the bytes that follow a prefix gives a prefix.
LEMMA PrefixConcat ==
  ASSUME NEW m \in Nat, NEW n \in Nat,
         NEW t, t = [k \in 1 .. n |-> m + (k - 1)]
  PROVE  Prefix(m) \o t = Prefix(m + n)
<1>1. t \in Seq(Nat) /\ Len(t) = n
  OBVIOUS
<1>2. /\ Prefix(m) \in Seq(Nat) /\ Len(Prefix(m)) = m
      /\ Prefix(m + n) \in Seq(Nat) /\ Len(Prefix(m + n)) = m + n
  BY PrefixType
<1> DEFINE c == Prefix(m) \o t
<1>3. /\ c \in Seq(Nat) /\ Len(c) = m + n
      /\ \A i \in 1 .. (m + n) :
           c[i] = IF i <= m THEN Prefix(m)[i] ELSE t[i - m]
  <2>1. /\ c \in Seq(Nat) /\ Len(c) = Len(Prefix(m)) + Len(t)
        /\ \A i \in 1 .. (Len(Prefix(m)) + Len(t)) :
             c[i] = IF i <= Len(Prefix(m)) THEN Prefix(m)[i]
                    ELSE t[i - Len(Prefix(m))]
    BY <1>1, <1>2, ConcatProperties, ZenonT(30)
  <2> HIDE DEF c
  <2> QED BY <1>1, <1>2, <2>1, Zenon
<1> HIDE DEF c
<1>4. ASSUME NEW i \in 1 .. (m + n)
      PROVE  c[i] = Prefix(m + n)[i]
  <2>1. Prefix(m + n)[i] = i - 1
    BY DEF Prefix
  <2>2. CASE i <= m
    BY <1>3, <2>1, <2>2 DEF Prefix
  <2>3. CASE ~(i <= m)
    <3>1. i - m \in 1 .. n
      BY <2>3
    <3>2. t[i - m] = m + ((i - m) - 1)
      BY <3>1
    <3> QED BY <1>3, <2>1, <2>3, <3>2
  <2> QED BY <2>2, <2>3
<1>5. c = Prefix(m + n)
  BY <1>2, <1>3, <1>4, SeqEqual
<1> QED BY <1>5 DEF c

\* A block of the ring that holds the packets of its numbers is the next
\* piece of the file.
LEMMA BlockIsNext ==
  ASSUME ReceiverTypeOK, ReceiverWindow, FileWritten, r_pc = "recv",
         r_edge <= max_seq_index, NEW ring,
         \A p \in r_base .. (r_edge - 1) : ring[Slot(p)] = p
  PROVE  file \o WriteBytes(ring) =
           Prefix(MinOf(Length, (r_base + SLOTS) * SINGLE_LENGTH))
<1> DEFINE B == r_base * SINGLE_LENGTH
           E == r_edge * SINGLE_LENGTH
           F == (r_base + SLOTS) * SINGLE_LENGTH
           M == max_seq_index * SINGLE_LENGTH
           N == (max_seq_index - 1) * SINGLE_LENGTH
<1>1. /\ r_base \in Nat /\ r_edge \in Nat /\ max_seq_index \in Nat
      /\ SLOTS \in Nat /\ SLOTS > 0 /\ max_interval = 2 * SLOTS
      /\ SINGLE_LENGTH \in Nat /\ SINGLE_LENGTH > 0 /\ Length \in Nat
  BY LastPacket, IntervalType, WindowAssumption DEF ReceiverTypeOK
<1>2. /\ r_base < max_seq_index
      /\ \/ r_edge = r_base + SLOTS
         \/ r_edge = max_seq_index /\ max_seq_index <= r_base + SLOTS
  BY <1>1 DEF ReceiverWindow, empty
<1>3. r_base < r_edge /\ r_edge <= r_base + SLOTS
  BY <1>1, <1>2
<1>4. /\ B \in Nat /\ E \in Nat /\ F \in Nat /\ M \in Nat /\ N \in Nat
      /\ B < E
  BY <1>1, <1>2, <1>3, MulMono
<1>5. N < Length /\ Length <= M
  BY LastPacket
<1>6. B <= N
  <2>1. CASE r_base = max_seq_index - 1
    BY <2>1, <1>4
  <2>2. CASE r_base < max_seq_index - 1
    <3>1. r_base * SINGLE_LENGTH + SINGLE_LENGTH
            <= (max_seq_index - 1) * SINGLE_LENGTH
      BY <1>1, <1>2, <2>2, MulMono
    <3> QED BY <1>1, <1>4, <3>1
  <2> QED BY <1>1, <1>2, <2>1, <2>2
<1>7. MinOf(Length, E) = MinOf(Length, F)
  <2>1. CASE r_edge = r_base + SLOTS
    BY <2>1
  <2>2. CASE r_edge = max_seq_index /\ max_seq_index <= r_base + SLOTS
    <3>1. E = M
      BY <2>2
    <3>2. M <= F
      <4>1. CASE max_seq_index = r_base + SLOTS
        BY <4>1, <1>4
      <4>2. CASE max_seq_index < r_base + SLOTS
        <5>1. max_seq_index * SINGLE_LENGTH + SINGLE_LENGTH
                <= (r_base + SLOTS) * SINGLE_LENGTH
          BY <1>1, <4>2, MulMono
        <5> QED BY <1>1, <1>4, <5>1
      <4> QED BY <1>1, <2>2, <4>1, <4>2
    <3> HIDE DEF E, M, F
    <3> QED BY <1>1, <1>4, <1>5, <3>1, <3>2 DEF MinOf
  <2> QED BY <1>2, <2>1, <2>2
<1>8. file = Prefix(B)
  <2>1. file = Prefix(Len(file)) /\ Len(file) = MinOf(Length, B)
    BY DEF FileWritten, FileIsPrefix, Prefix
  <2> HIDE DEF B, N
  <2>2. MinOf(Length, B) = B
    BY <1>1, <1>4, <1>5, <1>6 DEF MinOf
  <2> QED BY <2>1, <2>2
<1> DEFINE L == MinOf(Length, E) - B
<1>9. L \in Nat /\ B + L <= E /\ B + L = MinOf(Length, E)
  <2> HIDE DEF B, E, N
  <2> QED BY <1>1, <1>4, <1>5, <1>6 DEF MinOf
<1>10. WriteBytes(ring) = [k \in 1 .. L |-> B + (k - 1)]
  <2>1. SINGLE_LENGTH * r_edge = E
    BY <1>1
  <2>2. WriteBytes(ring) =
          [k \in 1 .. L |->
             SINGLE_LENGTH * ring[Slot(r_base) + ((k - 1) \div SINGLE_LENGTH)]
               + ((k - 1) % SINGLE_LENGTH)]
    BY <2>1 DEF WriteBytes
  <2>3. ASSUME NEW k \in 1 .. L
        PROVE  SINGLE_LENGTH * ring[Slot(r_base) + ((k - 1) \div SINGLE_LENGTH)]
                 + ((k - 1) % SINGLE_LENGTH) = B + (k - 1)
    <3> DEFINE q == (k - 1) \div SINGLE_LENGTH
               r == (k - 1) % SINGLE_LENGTH
    <3>1. /\ k - 1 = SINGLE_LENGTH * q + r /\ q \in Nat
          /\ r \in 0 .. (SINGLE_LENGTH - 1)
      <4>1. k - 1 \in Nat /\ SINGLE_LENGTH \in Nat \ {0}
        BY <1>1, <1>9
      <4> QED BY <4>1, DivMod
    <3> HIDE DEF q, r
    <3>2. r_base + q < r_edge
      <4> SUFFICES ASSUME r_edge <= r_base + q PROVE FALSE
        BY <1>1, <3>1
      <4>1. E <= (r_base + q) * SINGLE_LENGTH
        <5>1. CASE r_edge = r_base + q
          BY <5>1, <1>4
        <5>2. CASE r_edge < r_base + q
          <6>1. r_edge * SINGLE_LENGTH + SINGLE_LENGTH
                  <= (r_base + q) * SINGLE_LENGTH
            BY <1>1, <3>1, <5>2, MulMono
          <6>2. (r_base + q) * SINGLE_LENGTH \in Nat
            BY <1>1, <3>1
          <6> QED BY <1>1, <1>4, <6>1, <6>2
        <5> QED BY <1>1, <3>1, <5>1, <5>2
      <4>2. (r_base + q) * SINGLE_LENGTH = B + SINGLE_LENGTH * q
        BY <1>1, <3>1
      <4>3. SINGLE_LENGTH * q \in Nat
        BY <1>1, <3>1
      <4> DEFINE Q == SINGLE_LENGTH * q
      <4>4. E <= B + Q /\ Q \in Nat /\ k - 1 = Q + r
        BY <3>1, <4>1, <4>2, <4>3
      <4> HIDE DEF Q, B, E, L
      <4> QED BY <1>1, <1>4, <1>9, <3>1, <4>4
    <3>3. Slot(r_base) + q = Slot(r_base + q)
      <4>1. Slot(r_base) \in {0, SLOTS}
        BY DEF ReceiverWindow
      <4>2. q < SLOTS
        BY <1>1, <1>3, <3>1, <3>2
      <4>3. Slot(r_base) + q < max_interval
        BY <1>1, <3>1, <4>1, <4>2
      <4> QED BY <1>1, <3>1, <4>3, SlotNear
    <3>4. ring[Slot(r_base) + q] = r_base + q
      <4>1. r_base + q \in r_base .. (r_edge - 1)
        BY <1>1, <3>1, <3>2
      <4> QED BY <3>3, <4>1
    <3>5. SINGLE_LENGTH * (r_base + q) = B + SINGLE_LENGTH * q
      BY <1>1, <3>1
    <3>6. SINGLE_LENGTH * (r_base + q) + r = B + (k - 1)
      <4> DEFINE Q == SINGLE_LENGTH * q
      <4>1. Q \in Nat /\ k - 1 = Q + r /\ SINGLE_LENGTH * (r_base + q) = B + Q
        BY <1>1, <3>1, <3>5
      <4> HIDE DEF Q, B
      <4> QED BY <1>1, <1>4, <3>1, <4>1
    <3> QED BY <3>4, <3>6 DEF q, r
  <2> HIDE DEF B, L
  <2> QED BY <2>2, <2>3
<1> HIDE DEF L, B, E, F
<1>11. Prefix(B) \o WriteBytes(ring) = Prefix(B + L)
  BY <1>4, <1>9, <1>10, PrefixConcat
<1>12. Prefix(B + L) = Prefix(MinOf(Length, F))
  BY <1>7, <1>9
<1> QED BY <1>8, <1>11, <1>12 DEF F

-----------------------------------------------------------------------------
(* The receiver                                                             *)

\* The end of a window.
LEMMA OffsetEnd ==
  ASSUME NEW b \in Nat, NEW i \in Int
  PROVE  InWindow(b, i) <=> b <= i /\ i < b + 2 * SLOTS /\ i < max_seq_index
<1>1. max_interval = 2 * SLOTS /\ SLOTS \in Nat /\ max_seq_index \in Nat
  BY IntervalType, LastPacket
<1> QED BY <1>1 DEF InWindow, offset_end, MinOf

\* A packet put into the ring disturbs no other packet of the window.
LEMMA RingStore ==
  ASSUME ReceiverTypeOK, RingHolds, r_pc # "abort",
         NEW p \in Packets, InWindow(r_base, p),
         NEW ring, ring = [r_data EXCEPT ![Slot(p)] = p],
         NEW q \in Received(reply) \union {p}
  PROVE  q < r_base \/ (InWindow(r_base, q) /\ ring[Slot(q)] = q)
<1>1. /\ r_base \in Nat /\ SLOTS \in Nat /\ max_interval = 2 * SLOTS
      /\ max_seq_index \in Nat /\ p \in Nat
  BY IntervalType, LastPacket DEF ReceiverTypeOK, Packets
<1>2. q \in Nat
  BY <1>1 DEF Received, ReceiverTypeOK, Acks, ACK
<1>3. Slot(p) \in Rings
  BY <1>1, SlotType DEF Rings
<1>4. DOMAIN r_data = Rings
  BY DEF ReceiverTypeOK
<1>5. CASE q = p
  BY <1>3, <1>4, <1>5
<1>6. CASE q # p /\ ~(q < r_base)
  <2>1. InWindow(r_base, q) /\ r_data[Slot(q)] = q
    BY <1>6 DEF RingHolds
  <2>2. Slot(q) # Slot(p)
    <3>1. /\ r_base <= q /\ q < r_base + 2 * SLOTS
          /\ r_base <= p /\ p < r_base + 2 * SLOTS
      BY <1>1, <1>2, <2>1, OffsetEnd
    <3>2. CASE q < p
      BY <1>1, <1>2, <3>1, <3>2, SlotDistinct
    <3>3. CASE p < q
      BY <1>1, <1>2, <3>1, <3>3, SlotDistinct
    <3> QED BY <1>1, <1>2, <1>6, <3>2, <3>3
  <2>3. Slot(q) \in Rings
    BY <1>2, SlotType DEF Rings
  <2> QED BY <2>1, <2>2, <2>3, <1>4
<1> QED BY <1>5, <1>6

\* A new packet, and the block it may complete.
LEMMA StoreStep ==
  ASSUME ReceiverTypeOK, ReceiverWindow, FileWritten, RingHolds, r_pc = "recv",
         NEW p \in Packets, InWindow(r_base, p),
         reply' \in Acks, Received(reply') = Received(reply) \union {p},
         isFirstRecv' = FALSE,
         Store(p, p, reply')
  PROVE  ReceiverTypeOK' /\ ReceiverWindow' /\ FileWritten' /\ RingHolds'
<1>1. /\ r_base \in Nat /\ r_edge \in Nat /\ SLOTS \in Nat /\ SLOTS > 0
      /\ max_interval = 2 * SLOTS /\ max_seq_index \in Nat /\ p \in Nat
      /\ SINGLE_LENGTH \in Nat
  BY IntervalType, LastPacket, WindowAssumption DEF ReceiverTypeOK, Packets
<1>2. r_data' = [r_data EXCEPT ![Slot(p)] = p]
  BY DEF Store
<1>3. r_data' \in [Rings -> Packets \union {Blank}]
  BY <1>2 DEF ReceiverTypeOK
<1>4. \A q \in Received(reply') :
        q < r_base \/ (InWindow(r_base, q) /\ r_data'[Slot(q)] = q)
  BY <1>2, RingStore
<1>5. \A q \in Received(reply') : q \in Nat
  BY DEF Received, Acks, ACK
<1>6. CASE ~(bottom_ack(reply') >= r_edge)
  <2>1. UNCHANGED <<r_pc, r_base, r_edge, file>>
    BY <1>6 DEF Store
  <2>2. ReceiverTypeOK'
    BY <1>3, <2>1 DEF ReceiverTypeOK
  <2>3. ReceiverWindow' /\ FileWritten'
    BY <2>1 DEF ReceiverWindow, FileWritten, FileIsPrefix
  <2>4. RingHolds'
    BY <1>4, <2>1 DEF RingHolds
  <2> QED BY <2>2, <2>3, <2>4
<1>7. CASE bottom_ack(reply') >= r_edge
  <2>1. /\ file' = file \o WriteBytes(r_data')
        /\ r_edge' = MinOf(max_seq_index, r_edge + SLOTS)
        /\ r_base' = r_base + SLOTS
        /\ r_pc' = IF empty(r_base') THEN "linger" ELSE "recv"
    BY <1>7 DEF Store
  <2>2. /\ bottom_ack(reply') \in 0 .. max_seq_index
        /\ \A q \in 0 .. (bottom_ack(reply') - 1) : q \in Received(reply')
    <3>1. WellFormed(reply') /\ reply'.main_ack <= max_seq_index
          /\ reply'.main_ack \in Nat
      BY DEF Acks, ACK
    <3>2. /\ bottom_ack(reply') \in 0 .. reply'.main_ack
          /\ \A q \in 0 .. (bottom_ack(reply') - 1) : q \in Received(reply')
      BY <3>1, BottomIsFirstMissing
    <3> QED BY <1>1, <3>1, <3>2
  <2>3. r_edge <= max_seq_index
    BY <1>1, <1>7, <2>2
  <2>4. \A q \in r_base .. (r_edge - 1) : r_data'[Slot(q)] = q
    <3> SUFFICES ASSUME NEW q \in r_base .. (r_edge - 1)
                 PROVE  r_data'[Slot(q)] = q
      OBVIOUS
    <3>1. q \in 0 .. (bottom_ack(reply') - 1)
      BY <1>1, <1>7, <2>2
    <3>2. q \in Received(reply') /\ ~(q < r_base)
      BY <1>1, <2>2, <3>1
    <3> QED BY <1>4, <3>2
  <2>5. file' = Prefix(MinOf(Length, r_base' * SINGLE_LENGTH))
    BY <2>1, <2>3, <2>4, BlockIsNext
  <2> DEFINE n == MinOf(Length, r_base' * SINGLE_LENGTH)
  <2>6. n \in Nat
    <3>1. r_base' * SINGLE_LENGTH \in Nat /\ Length \in Nat
      BY <1>1, <2>1, WindowAssumption
    <3> QED BY <3>1 DEF MinOf
  <2> HIDE DEF n
  <2>7. file' \in Seq(Nat) /\ Len(file') = n /\ file' = Prefix(Len(file'))
    BY <2>5, <2>6, PrefixType DEF n
  <2>8. FileWritten'
    <3>1. Len(file') = MinOf(Length, r_base' * SINGLE_LENGTH)
      BY <2>7 DEF n
    <3>2. FileIsPrefix'
      BY <2>7 DEF FileIsPrefix, Prefix
    <3> QED BY <3>1, <3>2 DEF FileWritten
  <2>9. ReceiverTypeOK'
    <3>1. r_base' \in Nat /\ r_edge' \in Nat
      BY <1>1, <2>1 DEF MinOf
    <3> QED BY <1>3, <2>1, <2>7, <3>1 DEF ReceiverTypeOK
  <2>10. ReceiverWindow'
    <3>1. Slot(r_base') \in {0, SLOTS}
      BY <1>1, <2>1, SlotHalf DEF ReceiverWindow
    <3>2. ASSUME r_pc' = "recv"
          PROVE  /\ ~empty(r_base')
                 /\ \/ r_edge' = r_base' + SLOTS
                    \/ r_edge' = max_seq_index /\ max_seq_index <= r_base' + SLOTS
      <4>1. ~empty(r_base')
        BY <2>1, <3>2
      <4>2. r_base + SLOTS < max_seq_index
        BY <1>1, <2>1, <4>1 DEF empty
      <4>3. r_edge = r_base + SLOTS
        BY <1>1, <4>2 DEF ReceiverWindow
      <4> QED BY <1>1, <2>1, <4>1, <4>3 DEF MinOf
    <3>3. r_pc' \in {"linger", "closed"} => empty(r_base')
      BY <2>1
    <3> QED BY <3>1, <3>2, <3>3 DEF ReceiverWindow
  <2>11. RingHolds'
    <3> SUFFICES ASSUME NEW q \in Received(reply'), ~(q < r_base')
                 PROVE  InWindow(r_base', q) /\ r_data'[Slot(q)] = q
      BY DEF RingHolds
    <3>1. q \in Nat /\ ~(q < r_base)
      BY <1>1, <1>5, <2>1
    <3>2. InWindow(r_base, q) /\ r_data'[Slot(q)] = q
      BY <1>4, <3>1
    <3>3. q < r_base + 2 * SLOTS /\ q < max_seq_index
      BY <1>1, <3>1, <3>2, OffsetEnd
    <3>4. r_base' \in Nat /\ r_base' <= q /\ q < r_base' + 2 * SLOTS
      BY <1>1, <2>1, <3>1, <3>3
    <3>5. InWindow(r_base', q)
      BY <3>1, <3>3, <3>4, OffsetEnd
    <3> QED BY <3>2, <3>5
  <2> QED BY <2>8, <2>9, <2>10, <2>11
<1> QED BY <1>6, <1>7

\* What AcksGrow says of one step.
Grows == Received(reply) \subseteq Received(reply')
           /\ bottom_ack(reply) <= bottom_ack(reply')

LEMMA MoreIsGrowth ==
  ASSUME reply \in Acks, reply' \in Acks,
         Received(reply) \subseteq Received(reply')
  PROVE  Grows
<1>1. /\ bottom_ack(reply) \in 0 .. reply.main_ack /\ reply.main_ack \in Nat
      /\ \A q \in 0 .. (bottom_ack(reply) - 1) : q \in Received(reply)
  BY BottomIsFirstMissing DEF Acks, ACK
<1>2. /\ bottom_ack(reply') \in 0 .. reply'.main_ack /\ reply'.main_ack \in Nat
      /\ bottom_ack(reply') \notin Received(reply')
  BY BottomIsFirstMissing DEF Acks, ACK
<1>3. ~(bottom_ack(reply') < bottom_ack(reply))
  BY <1>1, <1>2
<1> QED BY <1>1, <1>2, <1>3 DEF Grows

\* A step of the receiver.
LEMMA ReceiverStep ==
  ASSUME ReceiverTypeOK, NetTypeOK, ReceiverWindow, FileWritten, RingHolds,
         ReceiverNext(SenderGone)
  PROVE  /\ ReceiverTypeOK' /\ NetTypeOK' /\ ReceiverWindow' /\ FileWritten'
         /\ RingHolds' /\ Grows
<1>1. CASE RecvData
  <2> DEFINE d == Head(dataChan)
             p == d.seq_index
  <2>0. r_pc = "recv" /\ dataChan # <<>> /\ isFirstRecv' = FALSE
    BY <1>1 DEF RecvData
  <2>1. d \in Datagrams /\ Tail(dataChan) \in Seq(Datagrams)
    BY <2>0, HeadTailProperties DEF NetTypeOK
  <2>2. p \in Packets /\ d.data = p
    BY <2>1 DEF Datagrams
  <2>3. reply' = update(reply, p) /\ reply \in Acks
    BY <1>1 DEF RecvData, ReceiverTypeOK
  <2>4. reply' \in Acks
    BY <2>2, <2>3, UpdateIsAck
  <2>5. /\ Received(reply') =
             Received(reply) \union (IF update_returns(reply, p) THEN {p} ELSE {})
        /\ ~update_returns(reply, p) => reply' = reply
    <3>1. p \in Nat /\ p < INACTIVE
      BY <2>2, FileAssumption, LastPacket, ACKAssumption DEF Packets
    <3>2. WellFormed(reply)
      BY <2>3 DEF Acks
    <3> QED BY <2>3, <3>1, <3>2, UpdateCorrect
  <2>6. Grows
    BY <2>3, <2>4, <2>5, MoreIsGrowth
  <2>7. CASE update_returns(reply, p) /\ ~InWindow(r_base, p)
    <3>1. /\ r_pc' = "abort"
          /\ UNCHANGED <<r_base, r_edge, r_data, file, ackChan, faults>>
      BY <1>1, <2>7 DEF RecvData
    <3>2. dataChan' = Tail(dataChan) /\ UNCHANGED <<s_err, r_err>>
      BY <1>1 DEF RecvData
    <3>3. NetTypeOK'
      BY <2>1, <3>1, <3>2 DEF NetTypeOK
    <3>4. ReceiverTypeOK'
      BY <2>0, <2>4, <3>1 DEF ReceiverTypeOK
    <3>5. ReceiverWindow' /\ FileWritten' /\ RingHolds'
      BY <3>1 DEF ReceiverWindow, FileWritten, FileIsPrefix, RingHolds
    <3> QED BY <2>6, <3>3, <3>4, <3>5
  <2>8. CASE ~(update_returns(reply, p) /\ ~InWindow(r_base, p))
    <3>1. SendAck(reply') /\ dataChan' = Tail(dataChan) /\ UNCHANGED <<s_err, r_err>>
      BY <1>1, <2>8 DEF RecvData
    <3>2. NetTypeOK'
      BY <2>1, <2>4, <3>1, SendAckType DEF NetTypeOK
    <3>3. CASE update_returns(reply, p)
      <4>1. Store(p, p, reply')
        BY <1>1, <2>2, <2>8, <3>3 DEF RecvData
      <4>2. ReceiverTypeOK' /\ ReceiverWindow' /\ FileWritten' /\ RingHolds'
        BY <2>0, <2>2, <2>4, <2>5, <2>8, <3>3, <4>1, StoreStep
      <4> QED BY <2>6, <3>2, <4>2
    <3>4. CASE ~update_returns(reply, p)
      <4>1. UNCHANGED <<r_pc, reply, r_base, r_edge, r_data, file>>
        BY <1>1, <2>5, <3>4 DEF RecvData
      <4>2. ReceiverTypeOK'
        BY <2>0, <4>1 DEF ReceiverTypeOK
      <4>3. ReceiverWindow' /\ FileWritten' /\ RingHolds'
        BY <4>1 DEF ReceiverWindow, FileWritten, FileIsPrefix, RingHolds
      <4> QED BY <2>6, <3>2, <4>2, <4>3
    <3> QED BY <3>3, <3>4
  <2> QED BY <2>7, <2>8
<1>2. CASE RecvLinger
  <2>1. /\ SendAck(reply) /\ dataChan # <<>> /\ dataChan' = Tail(dataChan)
        /\ UNCHANGED <<s_err, r_err, receiverVars>>
    BY <1>2 DEF RecvLinger
  <2>2. UNCHANGED <<r_pc, isFirstRecv, reply, r_base, r_edge, r_data, file>>
    BY <2>1 DEF receiverVars
  <2>3. reply \in Acks
    BY DEF ReceiverTypeOK
  <2>4. Tail(dataChan) \in Seq(Datagrams)
    BY <2>1, HeadTailProperties DEF NetTypeOK
  <2>5. NetTypeOK'
    BY <2>1, <2>3, <2>4, SendAckType DEF NetTypeOK
  <2>6. ReceiverTypeOK'
    BY <2>2 DEF ReceiverTypeOK
  <2>7. ReceiverWindow' /\ FileWritten' /\ RingHolds'
    BY <2>2 DEF ReceiverWindow, FileWritten, FileIsPrefix, RingHolds
  <2> QED BY <2>2, <2>3, <2>5, <2>6, <2>7, MoreIsGrowth
<1>3. ASSUME LingerTimeout(SenderGone) \/ ReceiverRefused
      PROVE  /\ ReceiverTypeOK' /\ NetTypeOK' /\ ReceiverWindow' /\ FileWritten'
             /\ RingHolds' /\ Grows
  <2>1. /\ dataChan' \in Closed(dataChan)
        /\ UNCHANGED <<ackChan, s_err, r_err>>
        /\ UNCHANGED <<isFirstRecv, reply, r_base, r_edge, r_data, file>>
    BY <1>3 DEF LingerTimeout, ReceiverRefused
  <2>2. r_pc' = "abort" \/ (r_pc = "linger" /\ r_pc' = "closed")
    BY <1>3 DEF LingerTimeout, ReceiverRefused
  <2>3. faults' \in 0 .. MaxFaults
    BY <1>3, FaultType DEF LingerTimeout, ReceiverRefused, NetTypeOK
  <2>4. dataChan' \in Seq(Datagrams)
    BY <2>1, ClosedType DEF NetTypeOK
  <2>5. NetTypeOK'
    BY <2>1, <2>3, <2>4 DEF NetTypeOK
  <2>6. ReceiverTypeOK'
    BY <2>1, <2>2 DEF ReceiverTypeOK
  <2>7. ReceiverWindow' /\ FileWritten' /\ RingHolds'
    BY <2>1, <2>2 DEF ReceiverWindow, FileWritten, FileIsPrefix, RingHolds
  <2>8. Grows
    BY <2>1, MoreIsGrowth DEF ReceiverTypeOK
  <2> QED BY <2>5, <2>6, <2>7, <2>8
<1> QED BY <1>1, <1>2, <1>3 DEF ReceiverNext

LEMMA ReceiverInitType ==
  ASSUME ReceiverInit
  PROVE  ReceiverTypeOK /\ ReceiverWindow /\ FileWritten /\ RingHolds
<1>1. /\ SLOTS \in Nat \ {0} /\ max_seq_index \in Nat \ {0}
      /\ SINGLE_LENGTH \in Nat /\ Length \in Nat \ {0} /\ max_interval \in Nat \ {0}
  BY IntervalType, LastPacket, WindowAssumption
<1>2. /\ r_pc = "recv" /\ isFirstRecv = TRUE /\ reply = NewACK /\ r_base = 0
      /\ r_edge = SLOTS /\ file = <<>>
      /\ r_data = [j \in 0 .. (max_interval - 1) |-> Blank]
  BY DEF ReceiverInit
<1>3. file \in Seq(Nat) /\ Len(file) = 0
  BY <1>2, EmptySeq
<1>4. ReceiverTypeOK
  <2>1. r_data \in [Rings -> Packets \union {Blank}]
    BY <1>2 DEF Rings
  <2> QED BY <1>1, <1>2, <1>3, <2>1, NewIsAck DEF ReceiverTypeOK
<1>5. ReceiverWindow
  <2>1. Slot(0) = 0
    <3>1. (max_interval * 0 + 0) % max_interval = 0
      BY <1>1, ModUnique
    <3> QED BY <1>1, <3>1 DEF Slot
  <2> QED BY <1>1, <1>2, <2>1 DEF ReceiverWindow, empty
<1>6. FileWritten
  <2>1. file = [k \in 1 .. 0 |-> k - 1]
    <3>1. /\ [k \in 1 .. 0 |-> k - 1] \in Seq(Nat)
          /\ Len([k \in 1 .. 0 |-> k - 1]) = 0
      OBVIOUS
    <3> QED BY <1>3, <3>1, SeqEqual
  <2>2. MinOf(Length, 0 * SINGLE_LENGTH) = 0
    BY <1>1 DEF MinOf
  <2> QED BY <1>2, <1>3, <2>1, <2>2 DEF FileWritten, FileIsPrefix
<1>7. RingHolds
  BY <1>2, NewWellFormed DEF RingHolds
<1> QED BY <1>4, <1>5, <1>6, <1>7

-----------------------------------------------------------------------------
(* The transfer                                                             *)

\* The invariant holds at the start ...
LEMMA InitInvariant == Init => IInv
<1> SUFFICES ASSUME Init PROVE IInv
  OBVIOUS
<1>1. SenderTypeOK /\ SenderRing
  BY SenderInitType DEF Init
<1>2. ReceiverTypeOK /\ ReceiverWindow /\ FileWritten /\ RingHolds
  BY ReceiverInitType DEF Init
<1>3. NetTypeOK
  <2>1. /\ dataChan = <<>> /\ ackChan = <<>>
        /\ s_err = FALSE /\ r_err = FALSE /\ faults = 0
    BY DEF Init, NetInit
  <2>2. <<>> \in Seq(Datagrams) /\ <<>> \in Seq(Acks)
    BY EmptySeq
  <2>3. 0 \in 0 .. MaxFaults
    BY NetworkAssumption
  <2> QED BY <2>1, <2>2, <2>3 DEF NetTypeOK
<1> QED BY <1>1, <1>2, <1>3 DEF IInv, TypeOK

\* ... and is kept by every step, which never takes back an acknowledgement.
LEMMA NextInvariant == IInv /\ [Next]_vars => IInv' /\ (Grows \/ UNCHANGED vars)
<1> SUFFICES ASSUME IInv, [Next]_vars PROVE IInv' /\ (Grows \/ UNCHANGED vars)
  OBVIOUS
<1>0. /\ SenderTypeOK /\ ReceiverTypeOK /\ NetTypeOK
      /\ SenderRing /\ ReceiverWindow /\ FileWritten /\ RingHolds
  BY DEF IInv, TypeOK
<1>1. ASSUME UNCHANGED senderVars
      PROVE  SenderTypeOK' /\ SenderRing'
  BY <1>0, <1>1 DEF senderVars, SenderTypeOK, SenderRing
<1>2. ASSUME UNCHANGED receiverVars
      PROVE  /\ ReceiverTypeOK' /\ ReceiverWindow' /\ FileWritten' /\ RingHolds'
             /\ Grows
  <2>1. UNCHANGED <<r_pc, isFirstRecv, reply, r_base, r_edge, r_data, file>>
    BY <1>2 DEF receiverVars
  <2>2. ReceiverTypeOK' /\ ReceiverWindow' /\ FileWritten' /\ RingHolds'
    BY <1>0, <2>1
       DEF ReceiverTypeOK, ReceiverWindow, FileWritten, FileIsPrefix, RingHolds
  <2>3. Grows
    BY <1>0, <2>1, MoreIsGrowth DEF ReceiverTypeOK
  <2> QED BY <2>2, <2>3
<1>3. CASE Sender
  <2>1. SenderTypeOK' /\ NetTypeOK' /\ SenderRing'
    BY <1>0, <1>3, SenderStep DEF Sender
  <2>2. UNCHANGED receiverVars
    BY <1>3 DEF Sender
  <2> QED BY <1>2, <2>1, <2>2 DEF IInv, TypeOK
<1>4. CASE Receiver
  <2>1. /\ ReceiverTypeOK' /\ NetTypeOK' /\ ReceiverWindow' /\ FileWritten'
        /\ RingHolds' /\ Grows
    BY <1>0, <1>4, ReceiverStep DEF Receiver
  <2>2. UNCHANGED senderVars
    BY <1>4 DEF Receiver
  <2> QED BY <1>1, <2>1, <2>2 DEF IInv, TypeOK
<1>5. CASE Network
  <2>1. NetTypeOK'
    BY <1>0, <1>5, NetworkType
  <2>2. UNCHANGED senderVars /\ UNCHANGED receiverVars
    BY <1>5 DEF Network
  <2> QED BY <1>1, <1>2, <2>1, <2>2 DEF IInv, TypeOK
<1>6. CASE UNCHANGED vars
  <2>1. UNCHANGED senderVars /\ UNCHANGED receiverVars
        /\ UNCHANGED <<dataChan, ackChan, s_err, r_err, faults>>
    BY <1>6 DEF vars, netVars
  <2>2. NetTypeOK'
    BY <1>0, <2>1 DEF NetTypeOK
  <2> QED BY <1>1, <1>2, <1>6, <2>1, <2>2 DEF IInv, TypeOK
<1> QED BY <1>3, <1>4, <1>5, <1>6 DEF Next

\* The inductive invariant of the transfer.
THEOREM Invariance == Spec => []IInv
<1>1. IInv /\ [Next]_vars => IInv'
  BY NextInvariant
<1> QED BY InitInvariant, <1>1, PTL DEF Spec

\* Types: in particular a datagram carries the packet it names and an
\* acknowledgement is a record that update can have made.
THEOREM TypeCorrect == Spec => []TypeOK
<1>1. IInv => TypeOK
  BY DEF IInv
<1> QED BY Invariance, <1>1, PTL

\* What has been written is a prefix of the file.
THEOREM PrefixCorrect == Spec => []FileIsPrefix
<1>1. IInv => FileIsPrefix
  BY DEF IInv, FileWritten
<1> QED BY Invariance, <1>1, PTL

\* What is acknowledged is in the file or in the ring.
THEOREM HeldCorrect == Spec => []AckedIsHeld
<1>1. IInv => AckedIsHeld
  <2> SUFFICES ASSUME IInv, r_pc # "abort", NEW p \in Received(reply)
               PROVE  \/ /\ p < r_base
                         /\ Len(file) >= MinOf(Length, (p + 1) * SINGLE_LENGTH)
                      \/ InWindow(r_base, p) /\ r_data[Slot(p)] = p
    BY DEF AckedIsHeld
  <2>1. p < r_base \/ (InWindow(r_base, p) /\ r_data[Slot(p)] = p)
    BY DEF IInv, RingHolds
  <2>2. /\ p \in Nat /\ r_base \in Nat /\ Length \in Nat /\ SINGLE_LENGTH \in Nat
        /\ Len(file) = MinOf(Length, r_base * SINGLE_LENGTH)
    BY WindowAssumption
       DEF IInv, FileWritten, TypeOK, ReceiverTypeOK, Received, Acks, ACK
  <2>3. ASSUME p < r_base
        PROVE  Len(file) >= MinOf(Length, (p + 1) * SINGLE_LENGTH)
    <3>1. CASE p + 1 = r_base
      <4>1. Len(file) = MinOf(Length, (p + 1) * SINGLE_LENGTH)
        BY <2>2, <3>1
      <4>2. MinOf(Length, (p + 1) * SINGLE_LENGTH) \in Int
        BY <2>2 DEF MinOf
      <4> QED BY <4>1, <4>2
    <3>2. CASE p + 1 < r_base
      <4>1. /\ (p + 1) * SINGLE_LENGTH + SINGLE_LENGTH <= r_base * SINGLE_LENGTH
            /\ (p + 1) * SINGLE_LENGTH \in Nat /\ r_base * SINGLE_LENGTH \in Nat
        BY <2>2, <3>2, MulMono
      <4> QED BY <2>2, <4>1 DEF MinOf
    <3> QED BY <2>2, <2>3, <3>1, <3>2
  <2> QED BY <2>1, <2>3
<1> QED BY Invariance, <1>1, PTL

\* The receiver ends with the whole file.
THEOREM EndCorrect == Spec => []EndsComplete
<1>1. IInv => EndsComplete
  <2> SUFFICES ASSUME IInv, r_pc \in {"linger", "closed"}
               PROVE  Len(file) = Length
    BY DEF EndsComplete
  <2>1. /\ r_base >= max_seq_index /\ r_base \in Nat
        /\ Len(file) = MinOf(Length, r_base * SINGLE_LENGTH)
    BY DEF IInv, ReceiverWindow, FileWritten, empty, TypeOK, ReceiverTypeOK
  <2>2. /\ Length <= max_seq_index * SINGLE_LENGTH /\ max_seq_index \in Nat
        /\ Length \in Nat /\ SINGLE_LENGTH \in Nat
    BY LastPacket, WindowAssumption
  <2>3. Length <= r_base * SINGLE_LENGTH /\ r_base * SINGLE_LENGTH \in Nat
    <3>1. CASE r_base = max_seq_index
      BY <2>2, <3>1
    <3>2. CASE max_seq_index < r_base
      <4>1. /\ max_seq_index * SINGLE_LENGTH + SINGLE_LENGTH
                 <= r_base * SINGLE_LENGTH
            /\ max_seq_index * SINGLE_LENGTH \in Nat
            /\ r_base * SINGLE_LENGTH \in Nat
        BY <2>1, <2>2, <3>2, MulMono
      <4> QED BY <2>2, <4>1
    <3> QED BY <2>1, <2>2, <3>1, <3>2
  <2> QED BY <2>1, <2>2, <2>3 DEF MinOf
<1> QED BY Invariance, <1>1, PTL

\* The receiver never takes back an acknowledgement.
THEOREM AcksGrowCorrect == Spec => AcksGrow
<1>1. IInv /\ [Next]_vars =>
        [/\ Received(reply) \subseteq Received(reply')
         /\ bottom_ack(reply) <= bottom_ack(reply')]_vars
  BY NextInvariant DEF Grows
<1> QED BY Invariance, <1>1, PTL DEF Spec, AcksGrow

-----------------------------------------------------------------------------
(* The transfer is a copy                                                   *)

\* What the user sees of each state of the receiver.
LEMMA CopyStates ==
  /\ r_pc = "recv" => copyState = "copying"
  /\ r_pc = "linger" => copyState = "complete"
  /\ r_pc = "closed" => copyState = "saved"
  /\ r_pc = "abort" => copyState = "failed"
BY DEF copyState

\* A file is whole exactly when the window is past the last packet.
Measured ==
  /\ Len(file) \in Nat /\ r_base \in Nat
  /\ empty(r_base) => Len(file) = Length
  /\ ~empty(r_base) => Len(file) = r_base * SINGLE_LENGTH /\ Len(file) < Length

LEMMA WholeWhenEmpty == IInv => Measured
<1> SUFFICES ASSUME IInv PROVE Measured
  OBVIOUS
<1>1. /\ Len(file) \in Nat /\ r_base \in Nat
      /\ Len(file) = MinOf(Length, r_base * SINGLE_LENGTH)
  BY LenProperties DEF IInv, FileWritten, TypeOK, ReceiverTypeOK
<1>2. /\ max_seq_index \in Nat \ {0} /\ Length \in Nat /\ SINGLE_LENGTH \in Nat
      /\ (max_seq_index - 1) * SINGLE_LENGTH < Length
      /\ Length <= max_seq_index * SINGLE_LENGTH
  BY LastPacket, WindowAssumption
<1>3. CASE empty(r_base)
  <2>1. max_seq_index * SINGLE_LENGTH <= r_base * SINGLE_LENGTH
    <3>1. CASE r_base = max_seq_index
      BY <1>2, <3>1
    <3>2. CASE max_seq_index < r_base
      <4>1. /\ max_seq_index * SINGLE_LENGTH + SINGLE_LENGTH <= r_base * SINGLE_LENGTH
            /\ max_seq_index * SINGLE_LENGTH \in Nat /\ r_base * SINGLE_LENGTH \in Nat
        BY <1>1, <1>2, <3>2, MulMono
      <4> QED BY <1>2, <4>1
    <3> QED BY <1>1, <1>2, <1>3, <3>1, <3>2 DEF empty
  <2>2. max_seq_index * SINGLE_LENGTH \in Nat /\ r_base * SINGLE_LENGTH \in Nat
    BY <1>1, <1>2, MulSucc
  <2> QED BY <1>1, <1>2, <1>3, <2>1, <2>2 DEF MinOf, Measured
<1>4. CASE ~empty(r_base)
  <2>1. r_base * SINGLE_LENGTH <= (max_seq_index - 1) * SINGLE_LENGTH
    <3>1. CASE r_base = max_seq_index - 1
      BY <1>1, <1>2, <3>1, MulSucc
    <3>2. CASE r_base < max_seq_index - 1
      <4>1. /\ r_base * SINGLE_LENGTH + SINGLE_LENGTH <= (max_seq_index - 1) * SINGLE_LENGTH
            /\ (max_seq_index - 1) * SINGLE_LENGTH \in Nat /\ r_base * SINGLE_LENGTH \in Nat
        BY <1>1, <1>2, <3>2, MulMono
      <4> QED BY <1>2, <4>1
    <3> QED BY <1>1, <1>2, <1>4, <3>1, <3>2 DEF empty
  <2>2. (max_seq_index - 1) * SINGLE_LENGTH \in Nat /\ r_base * SINGLE_LENGTH \in Nat
    BY <1>1, <1>2, MulSucc
  <2>3. r_base * SINGLE_LENGTH < Length
    BY <1>2, <2>1, <2>2
  <2> QED BY <1>1, <1>2, <1>4, <2>2, <2>3 DEF MinOf, Measured
<1> QED BY <1>1, <1>3, <1>4 DEF Measured

LEMMA WholeNext == IInv' => Measured'
BY WholeWhenEmpty, PTL

\* A block is written: the copy goes on, and is complete with the last one.
LEMMA BlockIsCopied ==
  ASSUME IInv, IInv', r_pc = "recv",
         r_base' = r_base + SLOTS,
         r_pc' = IF empty(r_base') THEN "linger" ELSE "recv"
  PROVE  Copying!Copy
<1>1. ~empty(r_base)
  BY DEF IInv, ReceiverWindow
<1>2. /\ Len(file) \in Nat /\ r_base \in Nat
      /\ Len(file) = r_base * SINGLE_LENGTH /\ Len(file) < Length
  BY <1>1, WholeWhenEmpty DEF Measured
<1>3. /\ Len(file') \in Nat /\ r_base' \in Nat
      /\ empty(r_base') => Len(file') = Length
      /\ ~empty(r_base') => Len(file') = r_base' * SINGLE_LENGTH /\ Len(file') < Length
  BY WholeNext DEF Measured
<1>4. file' = Copying!Source(Len(file'))
  BY DEF IInv, FileWritten, FileIsPrefix, Copying!Source
<1>5. Len(file') \in (Len(file) + 1) .. Length
  <2>1. Length \in Nat /\ SLOTS \in Nat \ {0} /\ SINGLE_LENGTH \in Nat \ {0}
    BY WindowAssumption
  <2>2. CASE empty(r_base')
    BY <1>2, <1>3, <2>1, <2>2
  <2>3. CASE ~empty(r_base')
    <3>1. r_base < r_base'
      BY <1>2, <2>1
    <3>2. /\ r_base * SINGLE_LENGTH + SINGLE_LENGTH <= r_base' * SINGLE_LENGTH
          /\ r_base * SINGLE_LENGTH \in Nat /\ r_base' * SINGLE_LENGTH \in Nat
      BY <1>2, <1>3, <2>1, <3>1, MulMono
    <3> QED BY <1>2, <1>3, <2>1, <2>3, <3>2
  <2> QED BY <2>2, <2>3
<1>6. copyState = "copying" /\ copyState' = IF Len(file') = Length THEN "complete" ELSE "copying"
  BY <1>2, <1>3 DEF copyState
<1> QED BY <1>4, <1>5, <1>6 DEF Copying!Copy

LEMMA ReceiverCopies ==
  ASSUME IInv, IInv', ReceiverNext(SenderGone)
  PROVE  [Copying!Next]_(Copying!copyVars)
<1>1. CASE RecvData
  <2> DEFINE d == Head(dataChan)
             new == update_returns(reply, d.seq_index)
  <2>1. r_pc = "recv"
    BY <1>1 DEF RecvData
  <2>2. CASE new /\ ~InWindow(r_base, d.seq_index)
    <3>1. r_pc' = "abort" /\ file' = file
      BY <1>1, <2>2 DEF RecvData
    <3> QED BY <2>1, <3>1 DEF copyState, Copying!Next, Copying!Fail
  <2>3. CASE new /\ InWindow(r_base, d.seq_index)
    <3>1. Store(d.seq_index, d.data, reply')
      BY <1>1, <2>3 DEF RecvData
    <3>2. CASE bottom_ack(reply') >= r_edge
      <4>1. r_base' = r_base + SLOTS /\ r_pc' = IF empty(r_base') THEN "linger" ELSE "recv"
        BY <3>1, <3>2 DEF Store
      <4> QED BY <2>1, <4>1, BlockIsCopied DEF Copying!Next
    <3>3. CASE ~(bottom_ack(reply') >= r_edge)
      <4>1. UNCHANGED <<r_pc, file>>
        BY <3>1, <3>3 DEF Store
      <4> QED BY <4>1 DEF copyState, Copying!copyVars
    <3> QED BY <3>2, <3>3
  <2>4. CASE ~new
    <3>1. UNCHANGED <<r_pc, file>>
      BY <1>1, <2>4 DEF RecvData
    <3> QED BY <3>1 DEF copyState, Copying!copyVars
  <2> QED BY <2>2, <2>3, <2>4
<1>2. CASE RecvLinger
  BY <1>2 DEF RecvLinger, receiverVars, copyState, Copying!copyVars
<1>3. CASE LingerTimeout(SenderGone)
  <2>1. r_pc = "linger" /\ r_pc' = "closed" /\ file' = file
    BY <1>3 DEF LingerTimeout
  <2> QED BY <2>1 DEF copyState, Copying!Next, Copying!Save
<1>4. CASE ReceiverRefused
  <2>1. r_pc \in {"recv", "linger"} /\ r_pc' = "abort" /\ file' = file
    BY <1>4 DEF ReceiverRefused
  <2> QED BY <2>1 DEF copyState, Copying!Next, Copying!Fail
<1> QED BY <1>1, <1>2, <1>3, <1>4 DEF ReceiverNext

\* A transfer is a copy of the file: what is in the local file is what comes
\* first in the source, block after block, it is saved only when it is whole,
\* and fails only with its client.  (That it goes on until then is liveness.)
THEOREM CopyCorrect == Spec => Copying!Spec
<1>1. Init => Copying!Init
  BY DEF Init, ReceiverInit, copyState, Copying!Init
<1>2. IInv /\ IInv' /\ [Next]_vars => [Copying!Next]_(Copying!copyVars)
  <2> SUFFICES ASSUME IInv, IInv', [Next]_vars PROVE [Copying!Next]_(Copying!copyVars)
    OBVIOUS
  <2>1. CASE Receiver
    BY <2>1, ReceiverCopies DEF Receiver
  <2>2. CASE Sender \/ Network \/ UNCHANGED vars
    BY <2>2 DEF Sender, Network, vars, receiverVars, copyState, Copying!copyVars
  <2> QED BY <2>1, <2>2 DEF Next
<1> QED BY Invariance, <1>1, <1>2, PTL DEF Spec, Copying!Spec
=============================================================================
