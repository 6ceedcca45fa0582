-------------------------- MODULE DatagramACKProofs --------------------------
(***************************************************************************)
(* What update does to the acknowledgement record, for every size of the   *)
(* array and every packet number: it keeps the record well formed, takes   *)
(* in exactly the packet it returns true for, and forgets none.            *)
(***************************************************************************)
EXTENDS DatagramACK, TLAPS

-----------------------------------------------------------------------------
(* The record                                                               *)

\* A new record is well formed and says that nothing has been taken in.
LEMMA NewWellFormed == WellFormed(NewACK) /\ Received(NewACK) = {}
<1>1. NewACK \in ACK
  BY ACKAssumption DEF NewACK, ACK, Slots
<1>2. Shape(NewACK, 0)
  BY ACKAssumption DEF NewACK, Shape, Slots
<1>3. 0 \in 0 .. NAK_SIZE
  BY ACKAssumption
<1>4. Received(NewACK) = {}
  BY DEF NewACK, Received, isAcked
<1> QED BY <1>1, <1>2, <1>3, <1>4 DEF WellFormed

\* bottom_ack is the first packet that has not been taken in.
LEMMA BottomIsFirstMissing ==
  ASSUME NEW a, WellFormed(a)
  PROVE  /\ bottom_ack(a) \in 0 .. a.main_ack
         /\ bottom_ack(a) \notin Received(a)
         /\ \A p \in 0 .. (bottom_ack(a) - 1) : p \in Received(a)
<1> PICK n \in 0 .. NAK_SIZE : Shape(a, n)
  BY DEF WellFormed
<1>0. a \in ACK /\ NAK_SIZE \in Nat /\ NAK_SIZE > 0 /\ 0 \in Slots
  BY ACKAssumption DEF WellFormed, Slots
<1>1. CASE n = 0
  <2>1. \A i \in Slots : a.naks[i] = INACTIVE
    BY <1>1, <1>0 DEF Shape, Slots
  <2>2. bottom_ack(a) = a.main_ack
    BY <2>1, <1>0 DEF bottom_ack
  <2>3. \A p \in 0 .. (a.main_ack - 1) : isAcked(a, p)
    BY <2>1, <1>0, ACKAssumption DEF isAcked, Shape, ACK
  <2> QED BY <2>2, <2>3, <1>0 DEF Received, ACK
<1>2. CASE n # 0
  <2>1. a.naks[0] + 1 < a.main_ack /\ a.naks[0] \in Nat
    BY <1>2, <1>0 DEF Shape, ACK
  <2>2. a.naks[0] # INACTIVE
    BY <2>1, <1>0, ACKAssumption DEF Shape, ACK
  <2>3. bottom_ack(a) = a.naks[0]
    BY <2>2 DEF bottom_ack
  <2>4. \A i \in Slots : a.naks[i] >= a.naks[0]
    <3> SUFFICES ASSUME NEW i \in Slots PROVE a.naks[i] >= a.naks[0]
      OBVIOUS
    <3>1. CASE i = 0
      BY <3>1, <1>0 DEF ACK
    <3>2. CASE i # 0 /\ i < n
      BY <3>2, <1>0 DEF Shape, Slots, ACK
    <3>3. CASE n <= i
      BY <3>3, <2>1, <1>0, ACKAssumption DEF Shape, Slots, ACK
    <3> QED BY <3>1, <3>2, <3>3 DEF Slots
  <2>5. \A p \in 0 .. (a.naks[0] - 1) : isAcked(a, p)
    BY <2>1, <2>4, <1>0 DEF isAcked, ACK
  <2>6. a.naks[0] \notin Received(a)
    BY <1>0 DEF Received, isAcked
  <2> QED BY <2>1, <2>3, <2>5, <2>6, <1>0 DEF Received, ACK
<1> QED BY <1>1, <1>2

-----------------------------------------------------------------------------
(* update, case by case                                                     *)

\* The next packet in order.
LEMMA UpdateNext ==
  ASSUME NEW a, WellFormed(a), a.main_ack < INACTIVE,
         NEW b, b = [a EXCEPT !.main_ack = a.main_ack + 1]
  PROVE  /\ WellFormed(b)
         /\ Received(b) = Received(a) \union {a.main_ack}
<1> PICK n \in 0 .. NAK_SIZE : Shape(a, n)
  BY DEF WellFormed
<1>0. a \in ACK /\ b \in ACK /\ b.naks = a.naks /\ b.main_ack = a.main_ack + 1
  BY DEF WellFormed, ACK
<1>1. Shape(b, n)
  BY <1>0, ACKAssumption DEF Shape, ACK, Slots
<1>2. \A i \in Slots : a.naks[i] # a.main_ack
  <2> SUFFICES ASSUME NEW i \in Slots PROVE a.naks[i] # a.main_ack
    OBVIOUS
  <2>1. CASE i < n
    BY <2>1, <1>0 DEF Shape, ACK
  <2>2. CASE n <= i
    BY <2>2, <1>0, ACKAssumption DEF Shape, ACK
  <2> QED BY <2>1, <2>2, <1>0 DEF Slots
<1>3. Received(b) = Received(a) \union {a.main_ack}
  BY <1>0, <1>2 DEF Received, isAcked, ACK
<1> QED BY <1>0, <1>1, <1>3 DEF WellFormed

\* The slot from which a packet above main_ack lists what it jumped over is
\* the first unused one, and what it lists fits.
LEMMA RoomIsFree ==
  ASSUME NEW a, NEW n \in 0 .. NAK_SIZE, a \in ACK, Shape(a, n),
         NEW seq \in Nat, seq > a.main_ack,
         NEW i \in Room(a, seq)
  PROVE  i = n /\ n < NAK_SIZE /\ n + (seq - a.main_ack) <= NAK_SIZE
<1>1. i \in Slots /\ a.naks[i] = INACTIVE
  BY DEF Room
<1>2. n <= i
  BY <1>1, ACKAssumption DEF Shape, ACK, Slots
<1>3. i <= n
  <2> SUFFICES ASSUME n < i PROVE FALSE
    BY <1>1, ACKAssumption DEF Slots
  <2>1. n \in 0 .. (i - 1) /\ n \in Slots
    BY <1>1, ACKAssumption DEF Slots
  <2>2. a.naks[n] = INACTIVE
    BY <2>1 DEF Shape
  <2> QED BY <2>1, <2>2 DEF Room
<1>4. a.main_ack + (NAK_SIZE - i) >= seq
  BY DEF Room
<1> QED BY <1>1, <1>2, <1>3, <1>4, ACKAssumption DEF Slots, ACK

\* A packet above main_ack for which there is room.
LEMMA UpdateExpand ==
  ASSUME NEW a, WellFormed(a),
         NEW seq \in Nat, seq > a.main_ack, seq < INACTIVE,
         NEW i \in Room(a, seq),
         NEW b, b = Expand(a, seq, i)
  PROVE  /\ WellFormed(b)
         /\ Received(b) = Received(a) \union {seq}
<1> PICK n \in 0 .. NAK_SIZE : Shape(a, n)
  BY DEF WellFormed
<1> DEFINE m == seq - a.main_ack
<1>0. /\ a \in ACK /\ a.main_ack \in Nat /\ NAK_SIZE \in Nat
      /\ INACTIVE \in Nat /\ m \in Nat /\ m > 0
      /\ \A k \in Slots : a.naks[k] \in Nat
  BY ACKAssumption DEF WellFormed, ACK
<1>1. i = n /\ n < NAK_SIZE /\ n + m <= NAK_SIZE
  BY <1>0, RoomIsFree
<1>2. /\ b.main_ack = seq + 1
      /\ \A k \in Slots :
           b.naks[k] = IF n <= k /\ k < n + m THEN a.main_ack + (k - n)
                                              ELSE a.naks[k]
  BY <1>1 DEF Expand
<1>3. b \in ACK
  <2>1. \A k \in Slots : b.naks[k] \in Nat
    BY <1>0, <1>2 DEF Slots
  <2>2. b = [main_ack |-> seq + 1, naks |-> [k \in Slots |-> b.naks[k]]]
    BY DEF Expand
  <2> QED BY <2>1, <2>2 DEF ACK
<1> HIDE DEF m
<1>m. m = seq - a.main_ack
  BY DEF m
<1>4. \A k \in Slots : k < n => b.naks[k] = a.naks[k] /\ a.naks[k] + 1 < a.main_ack
  BY <1>0, <1>2 DEF Shape, Slots
<1>5. \A k \in Slots : n <= k /\ k < n + m => b.naks[k] = a.main_ack + (k - n)
  BY <1>2
<1>6. \A k \in Slots : n + m <= k => b.naks[k] = INACTIVE
  BY <1>0, <1>2 DEF Shape, Slots
<1>7. Shape(b, n + m)
  <2>1. b.main_ack <= INACTIVE
    BY <1>2, <1>0
  <2>2. \A k \in Slots : k < n + m => b.naks[k] + 1 < b.main_ack
    BY <1>0, <1>2, <1>4, <1>5, <1>m DEF Slots
  <2>3. \A j, k \in Slots : j < k /\ k < n + m => b.naks[j] < b.naks[k]
    <3> SUFFICES ASSUME NEW j \in Slots, NEW k \in Slots, j < k, k < n + m
                 PROVE  b.naks[j] < b.naks[k]
      OBVIOUS
    <3>1. CASE k < n
      <4>1. j < n
        BY <3>1 DEF Slots
      <4>2. a.naks[j] < a.naks[k]
        BY <3>1 DEF Shape
      <4> QED BY <4>1, <4>2, <3>1, <1>4
    <3>2. CASE j < n /\ n <= k
      BY <3>2, <1>0, <1>4, <1>5 DEF Slots
    <3>3. CASE n <= j
      BY <3>3, <1>0, <1>5 DEF Slots
    <3> QED BY <3>1, <3>2, <3>3, <1>0 DEF Slots
  <2> QED BY <2>1, <2>2, <2>3, <1>6 DEF Shape
<1>8. ASSUME NEW p \in 0 .. (a.main_ack - 1)
      PROVE  isAcked(a, p) <=> isAcked(b, p)
  <2>1. ASSUME NEW k \in Slots, a.naks[k] = p PROVE b.naks[k] = p
    <3>1. k < n
      BY <2>1, <1>0 DEF Shape, Slots
    <3> QED BY <3>1, <2>1, <1>4
  <2>2. ASSUME NEW k \in Slots, b.naks[k] = p PROVE a.naks[k] = p
    <3>1. ~(n <= k /\ k < n + m)
      BY <2>2, <1>0, <1>5 DEF Slots
    <3> QED BY <3>1, <2>2, <1>2
  <2> QED BY <2>1, <2>2, <1>0, <1>2 DEF isAcked
<1>9. ASSUME NEW p \in a.main_ack .. (seq - 1)
      PROVE  ~isAcked(b, p)
  <2> DEFINE k == n + (p - a.main_ack)
  <2>1. k \in Slots /\ n <= k /\ k < n + m
    BY <1>0, <1>1, <1>m DEF Slots
  <2>2. b.naks[k] = a.main_ack + (k - n)
    BY <2>1, <1>5
  <2>3. b.naks[k] = p
    BY <2>2, <1>0
  <2> QED BY <2>1, <2>3 DEF isAcked
<1>10. isAcked(b, seq)
  <2>1. \A k \in Slots : b.naks[k] # seq
    BY <1>0, <1>1, <1>2, <1>4, <1>5, <1>6, <1>m DEF Slots
  <2> QED BY <2>1, <1>2 DEF isAcked
<1>11. Received(b) = Received(a) \union {seq}
  <2>1. ASSUME NEW p \in 0 .. seq
        PROVE  isAcked(b, p) <=> p \in Received(a) \/ p = seq
    <3>1. CASE p < a.main_ack
      BY <3>1, <1>8, <1>0 DEF Received
    <3>2. CASE a.main_ack <= p /\ p < seq
      BY <3>2, <1>9, <1>0 DEF Received
    <3>3. CASE p = seq
      BY <3>3, <1>10
    <3> QED BY <3>1, <3>2, <3>3, <1>0
  <2>2. Received(b) = {p \in 0 .. seq : isAcked(b, p)}
    BY <1>2 DEF Received
  <2>3. Received(a) \subseteq 0 .. seq
    BY <1>0 DEF Received
  <2> QED BY <2>1, <2>2, <2>3
<1>12. n + m \in 0 .. NAK_SIZE
  BY <1>0, <1>1
<1> QED BY <1>3, <1>7, <1>11, <1>12 DEF WellFormed

\* A packet below main_ack that is listed as missing.
LEMMA UpdateShift ==
  ASSUME NEW a, WellFormed(a),
         NEW seq \in Nat, seq < a.main_ack,
         NEW i \in Listed(a, seq),
         NEW b, b = Shift(a, i)
  PROVE  /\ WellFormed(b)
         /\ Received(b) = Received(a) \union {seq}
         /\ seq \notin Received(a)
<1> PICK n \in 0 .. NAK_SIZE : Shape(a, n)
  BY DEF WellFormed
<1>0. /\ a \in ACK /\ a.main_ack \in Nat /\ NAK_SIZE \in Nat /\ NAK_SIZE > 0
      /\ INACTIVE \in Nat /\ a.main_ack <= INACTIVE
      /\ \A k \in Slots : a.naks[k] \in Nat
  BY ACKAssumption DEF WellFormed, ACK, Shape
<1>1. i \in Slots /\ a.naks[i] = seq
  BY DEF Listed
<1>2. i < n
  BY <1>0, <1>1 DEF Shape, Slots
<1>3. /\ b.main_ack = a.main_ack
      /\ \A k \in Slots : b.naks[k] = IF k < i THEN a.naks[k]
                                      ELSE IF k + 1 < NAK_SIZE
                                      THEN a.naks[k + 1] ELSE INACTIVE
  BY <1>0 DEF Shift, ACK
<1>4. b \in ACK
  <2>1. \A k \in Slots : b.naks[k] \in Nat
    BY <1>0, <1>3 DEF Slots
  <2>2. b = [main_ack |-> a.main_ack, naks |-> [k \in Slots |-> b.naks[k]]]
    BY <1>0 DEF Shift, ACK
  <2> QED BY <2>1, <2>2, <1>0 DEF ACK
<1>5. Shape(b, n - 1)
  <2>1. \A k \in Slots : k < n - 1 => b.naks[k] + 1 < b.main_ack
    BY <1>0, <1>2, <1>3 DEF Shape, Slots
  <2>2. \A j, k \in Slots : j < k /\ k < n - 1 => b.naks[j] < b.naks[k]
    <3> SUFFICES ASSUME NEW j \in Slots, NEW k \in Slots, j < k, k < n - 1
                 PROVE  b.naks[j] < b.naks[k]
      OBVIOUS
    <3>0. k + 1 \in Slots /\ j + 1 \in Slots /\ k + 1 < n /\ j + 1 < n
      BY <1>0 DEF Slots
    <3>1. CASE k < i
      <4>1. b.naks[k] = a.naks[k] /\ b.naks[j] = a.naks[j]
        BY <3>1, <1>1, <1>3 DEF Slots
      <4> QED BY <4>1, <3>0 DEF Shape, Slots
    <3>2. CASE j < i /\ i <= k
      <4>1. b.naks[k] = a.naks[k + 1] /\ b.naks[j] = a.naks[j]
        BY <3>0, <3>2, <1>0, <1>1, <1>3 DEF Slots
      <4>2. j < k + 1
        BY DEF Slots
      <4> QED BY <4>1, <4>2, <3>0 DEF Shape
    <3>3. CASE i <= j
      <4>1. b.naks[k] = a.naks[k + 1] /\ b.naks[j] = a.naks[j + 1]
        BY <3>0, <3>3, <1>0, <1>1, <1>3 DEF Slots
      <4>2. j + 1 < k + 1
        BY DEF Slots
      <4> QED BY <4>1, <4>2, <3>0 DEF Shape
    <3> QED BY <3>1, <3>2, <3>3, <1>1 DEF Slots
  <2>3. \A k \in Slots : n - 1 <= k => b.naks[k] = INACTIVE
    <3> SUFFICES ASSUME NEW k \in Slots, n - 1 <= k PROVE b.naks[k] = INACTIVE
      OBVIOUS
    <3>1. ~(k < i)
      BY <1>0, <1>1, <1>2 DEF Slots
    <3>2. CASE k + 1 < NAK_SIZE
      <4>1. k + 1 \in Slots /\ n <= k + 1
        BY <3>2, <1>0 DEF Slots
      <4>2. a.naks[k + 1] = INACTIVE
        BY <4>1 DEF Shape
      <4> QED BY <3>1, <3>2, <4>2, <1>3
    <3>3. CASE ~(k + 1 < NAK_SIZE)
      BY <3>1, <3>3, <1>3
    <3> QED BY <3>2, <3>3
  <2> QED BY <2>1, <2>2, <2>3, <1>0, <1>3 DEF Shape
<1>6. \A k \in Slots : k # i => a.naks[k] # seq
  <2> SUFFICES ASSUME NEW k \in Slots, k # i PROVE a.naks[k] # seq
    OBVIOUS
  <2>1. CASE k < i
    BY <2>1, <1>0, <1>1, <1>2 DEF Shape
  <2>2. CASE i < k /\ k < n
    BY <2>2, <1>0, <1>1 DEF Shape
  <2>3. CASE n <= k
    BY <2>3, <1>0 DEF Shape
  <2> QED BY <2>1, <2>2, <2>3, <1>1 DEF Slots
<1>7. isAcked(b, seq)
  <2>1. \A k \in Slots : b.naks[k] # seq
    BY <1>0, <1>1, <1>3, <1>6 DEF Slots
  <2> QED BY <2>1, <1>3 DEF isAcked
<1>8. ASSUME NEW p \in 0 .. (a.main_ack - 1), p # seq
      PROVE  isAcked(a, p) <=> isAcked(b, p)
  <2>1. ASSUME NEW k \in Slots, b.naks[k] = p
        PROVE  \E j \in Slots : a.naks[j] = p
    <3>1. p # INACTIVE
      BY <1>0
    <3>2. CASE k < i
      BY <3>2, <2>1, <1>3
    <3>3. CASE ~(k < i) /\ k + 1 < NAK_SIZE
      <4>1. k + 1 \in Slots
        BY <3>3, <1>0 DEF Slots
      <4> QED BY <4>1, <3>3, <2>1, <1>3
    <3> QED BY <3>1, <3>2, <3>3, <2>1, <1>3
  <2>2. ASSUME NEW k \in Slots, a.naks[k] = p
        PROVE  \E j \in Slots : b.naks[j] = p
    <3>1. k # i
      BY <2>2, <1>1, <1>8
    <3>2. CASE k < i
      BY <3>2, <2>2, <1>3
    <3>3. CASE i < k
      <4>1. k - 1 \in Slots /\ ~(k - 1 < i) /\ (k - 1) + 1 = k /\ k < NAK_SIZE
        BY <3>3, <1>0, <1>1 DEF Slots
      <4>2. b.naks[k - 1] = a.naks[k]
        BY <4>1, <1>3
      <4> QED BY <4>1, <4>2, <2>2
    <3> QED BY <3>1, <3>2, <3>3, <1>1 DEF Slots
  <2> QED BY <2>1, <2>2, <1>3 DEF isAcked
<1>9. Received(b) = Received(a) \union {seq}
  BY <1>0, <1>3, <1>7, <1>8 DEF Received
<1>10. seq \notin Received(a)
  BY <1>1 DEF Received, isAcked
<1>11. n - 1 \in 0 .. NAK_SIZE
  BY <1>0, <1>1, <1>2 DEF Slots
<1> QED BY <1>4, <1>5, <1>9, <1>10, <1>11 DEF WellFormed

-----------------------------------------------------------------------------
(* update                                                                   *)

\* Whatever packet comes, update keeps the record well formed, takes in the
\* packet if and only if it returns true, never one that it has, forgets
\* none, and leaves the record alone when it returns false.
THEOREM UpdateCorrect ==
  ASSUME NEW a, WellFormed(a), NEW seq \in Nat, seq < INACTIVE
  PROVE  /\ WellFormed(update(a, seq))
         /\ Received(update(a, seq)) =
              Received(a) \union (IF update_returns(a, seq) THEN {seq} ELSE {})
         /\ update_returns(a, seq) => seq \notin Received(a)
         /\ ~update_returns(a, seq) => update(a, seq) = a
<1>0. a \in ACK /\ a.main_ack \in Nat
  BY DEF WellFormed, ACK
<1>1. CASE seq = a.main_ack
  <2>1. update(a, seq) = [a EXCEPT !.main_ack = a.main_ack + 1]
    BY <1>1 DEF update
  <2>2. update_returns(a, seq)
    BY <1>1 DEF update_returns
  <2>3. seq \notin Received(a)
    BY <1>0, <1>1 DEF Received
  <2>4. /\ WellFormed(update(a, seq))
        /\ Received(update(a, seq)) = Received(a) \union {a.main_ack}
    BY <1>1, <2>1, UpdateNext
  <2> QED BY <1>1, <2>2, <2>3, <2>4
<1>2. CASE seq > a.main_ack /\ Room(a, seq) # {}
  <2> DEFINE i == CHOOSE i \in Room(a, seq) : TRUE
  <2>1. i \in Room(a, seq)
    BY <1>2
  <2>2. update(a, seq) = Expand(a, seq, i)
    BY <1>0, <1>2 DEF update
  <2>3. update_returns(a, seq)
    BY <1>2 DEF update_returns
  <2>4. seq \notin Received(a)
    BY <1>0, <1>2 DEF Received
  <2> HIDE DEF i
  <2>5. /\ WellFormed(update(a, seq))
        /\ Received(update(a, seq)) = Received(a) \union {seq}
    BY <1>2, <2>1, <2>2, UpdateExpand
  <2> QED BY <2>3, <2>4, <2>5
<1>3. CASE seq < a.main_ack /\ Listed(a, seq) # {}
  <2> DEFINE i == CHOOSE i \in Listed(a, seq) : TRUE
  <2>1. i \in Listed(a, seq)
    BY <1>3
  <2>2. update(a, seq) = Shift(a, i)
    BY <1>0, <1>3 DEF update
  <2>3. update_returns(a, seq)
    BY <1>3 DEF update_returns
  <2> HIDE DEF i
  <2>4. /\ WellFormed(update(a, seq))
        /\ Received(update(a, seq)) = Received(a) \union {seq}
        /\ seq \notin Received(a)
    BY <1>3, <2>1, <2>2, UpdateShift
  <2> QED BY <2>3, <2>4
<1>4. CASE ~update_returns(a, seq)
  <2>1. update(a, seq) = a
    BY <1>4 DEF update, update_returns
  <2> QED BY <1>4, <2>1
<1> QED BY <1>1, <1>2, <1>3, <1>4 DEF update_returns
=============================================================================
