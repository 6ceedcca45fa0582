------------------------ MODULE DatagramACKLoopProofs ------------------------
(***************************************************************************)
(* The loops of DatagramACK::update compute its closed form, for every     *)
(* size of the array and every packet: what module DatagramACKProofs shows *)
(* of the operator update holds of the code's statements.                  *)
(***************************************************************************)
EXTENDS DatagramACKLoop, DatagramACKProofs

-----------------------------------------------------------------------------
(* The operators                                                            *)

LEMMA SlotIsNat ==
  /\ NAK_SIZE \in Nat /\ NAK_SIZE > 0 /\ INACTIVE \in Nat
  /\ \A k \in Slots : k \in Nat /\ k < NAK_SIZE
  /\ \A k \in Nat : k < NAK_SIZE => k \in Slots
BY ACKAssumption DEF Slots

\* The used entries of a record come first and are below main_ack.
LEMMA UsedFirst ==
  ASSUME NEW a, WellFormed(a)
  PROVE  /\ a \in ACK /\ a.main_ack \in Nat
         /\ a.naks \in [Slots -> Nat]
         /\ \A k \in Slots : a.naks[k] # INACTIVE => a.naks[k] + 1 < a.main_ack
         /\ \A j, k \in Slots : j <= k /\ a.naks[j] = INACTIVE => a.naks[k] = INACTIVE
<1>0. a \in ACK /\ a.main_ack \in Nat /\ a.naks \in [Slots -> Nat]
  BY DEF WellFormed, ACK
<1>1. PICK n \in 0 .. NAK_SIZE : Shape(a, n)
  BY DEF WellFormed
<1>2. ASSUME NEW k \in Slots, a.naks[k] # INACTIVE
      PROVE  k < n /\ a.naks[k] + 1 < a.main_ack
  BY <1>1, <1>2, SlotIsNat DEF Shape
<1>3. ASSUME NEW j \in Slots, NEW k \in Slots, j <= k, a.naks[j] = INACTIVE
      PROVE  a.naks[k] = INACTIVE
  <2>1. ~(j < n)
    <3>1. j < n => a.naks[j] + 1 < a.main_ack /\ a.main_ack <= INACTIVE
      BY <1>1 DEF Shape
    <3> QED BY <1>0, <1>3, <3>1, SlotIsNat
  <2> QED BY <1>1, <1>3, <2>1, SlotIsNat DEF Shape
<1> QED BY <1>0, <1>2, <1>3

\* There is one slot at most at which the list may start ...
LEMMA RoomIsOne ==
  ASSUME NEW a, NEW p, NEW first \in Room(a, p)
  PROVE  (CHOOSE k \in Room(a, p) : TRUE) = first
<1>1. ASSUME NEW j \in Room(a, p), NEW k \in Room(a, p), j < k
      PROVE  FALSE
  <2>1. j \in 0 .. (k - 1) /\ a.naks[j] = INACTIVE
    BY <1>1, SlotIsNat DEF Room
  <2> QED BY <1>1, <2>1 DEF Room
<1>2. \A j, k \in Room(a, p) : j = k
  BY <1>1, SlotIsNat DEF Room
<1> QED BY <1>2

\* ... and one at most that is the first to list a packet.
LEMMA ListedIsOne ==
  ASSUME NEW a, NEW p, NEW at \in Listed(a, p)
  PROVE  (CHOOSE k \in Listed(a, p) : TRUE) = at
<1>1. ASSUME NEW j \in Listed(a, p), NEW k \in Listed(a, p), j < k
      PROVE  FALSE
  <2>1. j \in 0 .. (k - 1) /\ a.naks[j] = p
    BY <1>1, SlotIsNat DEF Listed
  <2> QED BY <1>1, <2>1 DEF Listed
<1>2. \A j, k \in Listed(a, p) : j = k
  BY <1>1, SlotIsNat DEF Listed
<1> QED BY <1>2

\* Two records with the same fields are the same.
LEMMA SameRecord ==
  ASSUME NEW a \in ACK, NEW b \in ACK, a.main_ack = b.main_ack, a.naks = b.naks
  PROVE  a = b
BY DEF ACK

-----------------------------------------------------------------------------
(* One turn                                                                 *)

\* What a return must show.
LEMMA ReturnAgrees ==
  ASSUME WellFormed(before), seq \in 0 .. MaxIndex, UNCHANGED <<before, seq>>,
         i' \in 0 .. NAK_SIZE,
         pc' = "returned", ack' = update(before, seq), ret' = update_returns(before, seq)
  PROVE  LInv'
<1>1. seq \in Nat /\ seq < INACTIVE
  BY LoopAssumption, SlotIsNat
<1>2. WellFormed(update(before, seq))
  BY <1>1, UpdateCorrect
<1> QED BY <1>2 DEF LInv, LoopWellFormed, LoopAgrees, Expanding, Filling, Shifting

\* Nothing is listed for a packet above main_ack, and no room for one below.
LEMMA CallStep ==
  ASSUME LInv, Call
  PROVE  LInv'
<1>1. /\ pc = "idle" /\ WellFormed(ack) /\ before' = ack /\ i' = 0
      /\ seq' \in 0 .. MaxIndex
  BY DEF Call, LInv, LoopWellFormed
<1>2. ack \in ACK /\ ack.main_ack \in Nat /\ seq' \in Nat /\ seq' < INACTIVE
  BY <1>1, UsedFirst, LoopAssumption, SlotIsNat
<1>3. CASE ack.main_ack = seq'
  <2>1. /\ ack' = [ack EXCEPT !.main_ack = ack.main_ack + 1]
        /\ pc' = "returned" /\ ret' = TRUE
    BY <1>3 DEF Call, Return
  <2>2. ack' = update(before', seq') /\ ret' = update_returns(before', seq')
    BY <1>1, <1>3, <2>1 DEF update, update_returns
  <2>3. WellFormed(ack')
    BY <1>1, <1>2, <2>2, UpdateCorrect
  <2> QED
    BY <1>1, <2>1, <2>2, <2>3, SlotIsNat
       DEF LInv, LoopWellFormed, LoopAgrees, Expanding, Filling, Shifting
<1>4. CASE ack.main_ack # seq'
  <2>1. /\ pc' = IF ack.main_ack < seq' THEN "expand" ELSE "fill"
        /\ ack' = ack
    BY <1>4 DEF Call
  <2>2. \A j \in Slots : ~(j < 0)
    BY SlotIsNat
  <2>3. Expanding'
    BY <1>1, <2>1, <2>2 DEF Expanding
  <2>4. Filling'
    <3>1. pc' = "fill" => seq' < ack.main_ack
      BY <1>2, <1>4, <2>1
    <3> QED BY <1>1, <2>1, <2>2, <3>1 DEF Filling
  <2>5. LoopWellFormed' /\ LoopAgrees' /\ Shifting'
    BY <2>1 DEF LoopWellFormed, LoopAgrees, Shifting
  <2> QED BY <1>1, <2>1, <2>3, <2>4, <2>5, SlotIsNat DEF LInv
<1> QED BY <1>3, <1>4

\* No room: the array has an unused entry, but too few, or none at all.
LEMMA NoRoomReturns ==
  ASSUME WellFormed(before), seq \in Nat, before.main_ack < seq,
         i \in 0 .. NAK_SIZE,
         \A j \in Slots : j < i => before.naks[j] # INACTIVE,
         i < NAK_SIZE => /\ before.naks[i] = INACTIVE
                         /\ before.main_ack + (NAK_SIZE - i) < seq
  PROVE  update(before, seq) = before /\ update_returns(before, seq) = FALSE
<1>0. before.main_ack \in Nat /\ NAK_SIZE \in Nat /\ i \in Nat
  BY UsedFirst, SlotIsNat
<1>1. ASSUME NEW k \in Room(before, seq) PROVE FALSE
  <2>1. /\ k \in Slots /\ k \in Nat /\ k < NAK_SIZE /\ before.naks[k] = INACTIVE
        /\ \A j \in 0 .. (k - 1) : before.naks[j] # INACTIVE
        /\ before.main_ack + (NAK_SIZE - k) >= seq
    BY SlotIsNat DEF Room
  <2>2. ~(k < i)
    BY <2>1
  <2>3. i < NAK_SIZE
    BY <1>0, <2>1, <2>2
  <2>4. ~(i < k)
    BY <1>0, <2>1, <2>3
  <2>5. k = i
    BY <1>0, <2>1, <2>2, <2>4
  <2> QED BY <1>0, <2>1, <2>3, <2>5
<1>2. Room(before, seq) = {} /\ ~(seq < before.main_ack) /\ seq # before.main_ack
  BY <1>0, <1>1
<1> QED BY <1>2 DEF update, update_returns

LEMMA ExpandStep ==
  ASSUME LInv, ExpandTurn
  PROVE  LInv'
<1>0. /\ pc = "expand" /\ i \in 0 .. NAK_SIZE /\ i < NAK_SIZE /\ i \in Nat /\ i \in Slots
      /\ WellFormed(before) /\ seq \in 0 .. MaxIndex /\ seq \in Nat
      /\ before.main_ack < seq /\ before.main_ack \in Nat /\ before \in ACK
      /\ before.naks \in [Slots -> Nat] /\ NAK_SIZE \in Nat
      /\ UNCHANGED <<before, seq>>
  BY UsedFirst, SlotIsNat, LoopAssumption DEF LInv, ExpandTurn, Expanding
<1>r. ASSUME ack' = update(before, seq), ret' = update_returns(before, seq),
             pc' = "returned", i' = i
      PROVE  LInv'
  BY <1>0, <1>r, ReturnAgrees
<1>s. ASSUME Expanding', pc' = "expand", i' = i + 1
      PROVE  LInv'
  <2>1. i' \in 0 .. NAK_SIZE
    BY <1>0, <1>s
  <2> QED
    BY <1>0, <1>s, <2>1 DEF LInv, LoopWellFormed, LoopAgrees, Filling, Shifting
\* The list is written from first on, and this turn adds main_ack to it.
<1>1. ASSUME NEW first \in Room(before, seq), first <= i,
             ack.main_ack = before.main_ack + (i - first), ack.main_ack < seq,
             ack.naks = [k \in Slots |-> IF first <= k /\ k < i
                                         THEN before.main_ack + (k - first)
                                         ELSE before.naks[k]]
      PROVE  LInv'
  <2>0. /\ first \in Slots /\ first \in Nat /\ before.naks[first] = INACTIVE
        /\ before.main_ack + (NAK_SIZE - first) >= seq
    BY SlotIsNat DEF Room
  <2>1. ack.naks[i] = INACTIVE
    <3>1. before.naks[i] = INACTIVE
      BY <1>0, <1>1, <2>0, UsedFirst
    <3> QED BY <1>0, <1>1, <3>1
  <2>2. ~NoRoom
    BY <1>0, <1>1, <2>0 DEF NoRoom
  <2> DEFINE listed == [ack.naks EXCEPT ![i] = ack.main_ack]
  <2>3. listed = [k \in Slots |-> IF first <= k /\ k < i + 1
                                  THEN before.main_ack + (k - first)
                                  ELSE before.naks[k]]
    <3>1. DOMAIN ack.naks = Slots
      BY <1>1
    <3>2. listed = [k \in Slots |-> IF k = i THEN ack.main_ack ELSE ack.naks[k]]
      BY <3>1
    <3>3. ASSUME NEW k \in Slots PROVE k < i + 1 <=> k < i \/ k = i
      <4>1. k \in Nat
        BY SlotIsNat
      <4> QED BY <1>0, <4>1
    <3>4. ASSUME NEW k \in Slots
          PROVE  (IF k = i THEN ack.main_ack ELSE ack.naks[k])
                   = IF first <= k /\ k < i + 1
                     THEN before.main_ack + (k - first)
                     ELSE before.naks[k]
      <4>1. CASE k = i
        BY <1>0, <1>1, <3>3, <4>1
      <4>2. CASE k # i
        BY <1>1, <3>3, <4>2
      <4> QED BY <4>1, <4>2
    <3> HIDE DEF listed
    <3> QED BY <3>2, <3>4
  <2> HIDE DEF listed
  <2>4. CASE ack.main_ack + 1 = seq
    <3>1. /\ ack' = [main_ack |-> seq + 1, naks |-> listed]
          /\ pc' = "returned" /\ ret' = TRUE /\ i' = i
      BY <1>0, <2>1, <2>2, <2>4 DEF ExpandTurn, Return, listed
    <3>2. /\ update(before, seq) = Expand(before, seq, first)
          /\ update_returns(before, seq) = TRUE
      <4>1. (CHOOSE k \in Room(before, seq) : TRUE) = first
        BY RoomIsOne
      <4>2. seq > before.main_ack /\ seq # before.main_ack /\ Room(before, seq) # {}
        BY <1>0
      <4>3. update(before, seq)
              = Expand(before, seq, CHOOSE k \in Room(before, seq) : TRUE)
        BY <4>2 DEF update
      <4>4. update_returns(before, seq) = TRUE
        BY <4>2 DEF update_returns
      <4> QED BY <4>1, <4>3, <4>4
    <3>3. Expand(before, seq, first) = [main_ack |-> seq + 1, naks |-> listed]
      <4>1. i + 1 = first + (seq - before.main_ack)
        BY <1>0, <1>1, <2>0, <2>4
      <4> QED BY <2>3, <4>1 DEF Expand
    <3> QED BY <1>r, <3>1, <3>2, <3>3
  <2>5. CASE ack.main_ack + 1 # seq
    <3>1. /\ ack' = [main_ack |-> ack.main_ack + 1, naks |-> listed]
          /\ i' = i + 1 /\ pc' = "expand"
      BY <1>0, <2>1, <2>2, <2>5 DEF ExpandTurn, listed
    <3>2. /\ first < i' /\ ack'.main_ack = before.main_ack + (i' - first)
          /\ ack'.main_ack < seq
      BY <1>0, <1>1, <2>0, <2>5, <3>1
    <3>3. ack' = [main_ack |-> before.main_ack + (i' - first),
                  naks |-> [k \in Slots |-> IF first <= k /\ k < i'
                                            THEN before.main_ack + (k - first)
                                            ELSE before.naks[k]]]
      BY <1>1, <2>3, <3>1, <3>2
    <3>4. Expanding'
      BY <1>0, <3>2, <3>3 DEF Expanding
    <3> QED BY <1>s, <3>1, <3>4
  <2> QED BY <2>4, <2>5
\* Still looking for the first unused slot.
<1>2. ASSUME ack = before,
             \A j \in Slots : j < i => before.naks[j] \notin {INACTIVE, seq}
      PROVE  LInv'
  <2>1. CASE ack.naks[i] = INACTIVE /\ NoRoom
    <3>1. ack' = before /\ pc' = "returned" /\ ret' = FALSE /\ i' = i
      BY <1>2, <2>1 DEF ExpandTurn, Return
    <3>2. update(before, seq) = before /\ update_returns(before, seq) = FALSE
      BY <1>0, <1>2, <2>1, NoRoomReturns DEF NoRoom
    <3> QED BY <1>r, <3>1, <3>2
  <2>2. CASE ack.naks[i] = INACTIVE /\ ~NoRoom
    <3>1. i \in Room(before, seq)
      <4>1. \A j \in 0 .. (i - 1) : j \in Slots /\ j < i
        BY <1>0, SlotIsNat
      <4>2. before.main_ack + (NAK_SIZE - i) >= seq
        BY <1>0, <1>2, <2>2 DEF NoRoom
      <4> QED BY <1>0, <1>2, <2>2, <4>1, <4>2 DEF Room
    <3>2. ack.naks = [k \in Slots |-> IF i <= k /\ k < i
                                      THEN before.main_ack + (k - i)
                                      ELSE before.naks[k]]
      <4>1. \A k \in Slots : ~(i <= k /\ k < i)
        BY <1>0, SlotIsNat
      <4> QED BY <1>0, <1>2, <4>1
    <3>3. ack.main_ack = before.main_ack + (i - i) /\ ack.main_ack < seq /\ i <= i
      BY <1>0, <1>2
    <3> QED BY <1>0, <1>1, <1>2, <3>1, <3>2, <3>3
  <2>3. CASE ack.naks[i] # INACTIVE
    <3>1. ack.naks[i] + 1 < before.main_ack /\ ack.naks[i] \in Nat
      BY <1>0, <1>2, <2>3, UsedFirst
    <3>2. ack.naks[i] # seq
      BY <1>0, <3>1
    <3>3. i' = i + 1 /\ pc' = "expand" /\ ack' = ack
      BY <1>0, <2>3, <3>2 DEF ExpandTurn
    <3>4. \A j \in Slots : j < i' => j < i \/ j = i
      BY <1>0, <3>3, SlotIsNat
    <3>5. Expanding'
      BY <1>0, <1>2, <2>3, <3>2, <3>3, <3>4 DEF Expanding
    <3> QED BY <1>s, <3>3, <3>5
  <2> QED BY <2>1, <2>2, <2>3
<1> QED
  <2>1. \A first \in Room(before, seq) : first \in Nat
    BY SlotIsNat DEF Room
  <2>2. ASSUME NEW first \in Room(before, seq), first < i,
               before.main_ack + (i - first) < seq,
               ack = [main_ack |-> before.main_ack + (i - first),
                      naks |-> [k \in Slots |-> IF first <= k /\ k < i
                                                THEN before.main_ack + (k - first)
                                                ELSE before.naks[k]]]
        PROVE  LInv'
    <3>1. first <= i
      BY <1>0, <2>1, <2>2
    <3> QED BY <1>1, <2>2, <3>1
  <2> QED BY <1>0, <1>2, <2>2 DEF LInv, Expanding

LEMMA FillStep ==
  ASSUME LInv, FillTurn
  PROVE  LInv'
<1>0. /\ pc = "fill" /\ i < NAK_SIZE /\ i \in Nat /\ NAK_SIZE \in Nat /\ i \in Slots
      /\ i' = i + 1 /\ UNCHANGED <<ack, before, seq, ret>>
      /\ pc' = IF ack.naks[i] = seq THEN "shift" ELSE "fill"
      /\ seq < before.main_ack /\ ack = before
      /\ \A j \in Slots : j < i => before.naks[j] # seq
  BY SlotIsNat DEF LInv, FillTurn, Filling
<1>1. before \in ACK /\ before.naks \in [Slots -> Nat]
  BY UsedFirst DEF LInv
<1>2. Filling'
  <2>1. \A j \in Slots : j < i + 1 => j < i \/ j = i
    BY <1>0, SlotIsNat
  <2> QED BY <1>0, <2>1 DEF Filling
<1>3. Shifting'
  <2> SUFFICES ASSUME ack.naks[i] = seq PROVE Shifting'
    BY <1>0 DEF Shifting
  <2>1. i \in Listed(before, seq)
    <3>1. \A j \in 0 .. (i - 1) : j \in Slots /\ j < i
      BY <1>0, SlotIsNat
    <3> QED BY <1>0, <3>1 DEF Listed
  <2>2. before.naks = [k \in Slots |-> IF i <= k /\ k + 1 < i'
                                       THEN before.naks[k + 1]
                                       ELSE before.naks[k]]
    <3>1. \A k \in Slots : ~(i <= k /\ k + 1 < i + 1)
      BY <1>0, SlotIsNat
    <3> QED BY <1>0, <1>1, <3>1
  <2>3. before = [before EXCEPT !.naks = before.naks]
    BY <1>1 DEF ACK
  <2>4. i < i' /\ ack' = before
    BY <1>0
  <2> QED BY <1>0, <2>1, <2>2, <2>3, <2>4 DEF Shifting
<1>4. i' \in 0 .. NAK_SIZE
  BY <1>0
<1> QED
  BY <1>0, <1>2, <1>3, <1>4 DEF LInv, LoopWellFormed, LoopAgrees, Expanding

LEMMA ShiftStep ==
  ASSUME LInv, ShiftTurn
  PROVE  LInv'
<1>0. /\ pc = "shift" /\ i \in 0 .. NAK_SIZE /\ NAK_SIZE \in Nat /\ NAK_SIZE > 0
      /\ i \in Nat /\ UNCHANGED <<before, seq>>
      /\ seq < before.main_ack /\ seq \in Nat /\ seq \in 0 .. MaxIndex
      /\ WellFormed(before) /\ before \in ACK
      /\ before.main_ack \in Nat /\ before.naks \in [Slots -> Nat]
  BY UsedFirst, SlotIsNat, LoopAssumption DEF LInv, ShiftTurn, Shifting
<1>1. PICK at \in Listed(before, seq) :
        /\ at < i
        /\ ack = [before EXCEPT !.naks = [k \in Slots |-> IF at <= k /\ k + 1 < i
                                                          THEN before.naks[k + 1]
                                                          ELSE before.naks[k]]]
  BY <1>0 DEF LInv, Shifting
<1> DEFINE moved(n) == [k \in Slots |-> IF at <= k /\ k + 1 < n
                                        THEN before.naks[k + 1]
                                        ELSE before.naks[k]]
<1>2. at \in Slots /\ at \in Nat
  BY <1>1, SlotIsNat DEF Listed
<1>3. ack = [before EXCEPT !.naks = moved(i)]
  BY <1>1
\* The entry above the free one moves into it, or the last one is freed.
<1>4. \A v : [ack EXCEPT !.naks[i - 1] = v]
               = [before EXCEPT !.naks = [moved(i) EXCEPT ![i - 1] = v]]
  BY <1>0, <1>3 DEF ACK
<1>5. i - 1 \in Slots /\ ack.naks = moved(i)
  BY <1>0, <1>1, <1>2, <1>3, SlotIsNat DEF ACK
<1>6. CASE i < NAK_SIZE
  <2>1. /\ ack' = [before EXCEPT !.naks = [moved(i) EXCEPT ![i - 1] = ack.naks[i]]]
        /\ i' = i + 1 /\ pc' = "shift"
    BY <1>0, <1>4, <1>6 DEF ShiftTurn
  <2>2. i \in Slots /\ ack.naks[i] = before.naks[i]
    BY <1>0, <1>5, <1>6, SlotIsNat
  <2>3. [moved(i) EXCEPT ![i - 1] = before.naks[i]] = moved(i + 1)
    <3>1. ASSUME NEW k \in Slots
          PROVE  (IF k = i - 1 THEN before.naks[i] ELSE moved(i)[k]) = moved(i + 1)[k]
      <4>1. k \in Nat
        BY SlotIsNat
      <4>2. CASE k = i - 1
        BY <1>0, <1>1, <1>2, <4>1, <4>2
      <4>3. CASE k # i - 1
        BY <1>0, <1>2, <4>1, <4>3
      <4> QED BY <4>2, <4>3
    <3> QED BY <3>1
  <2>4. Shifting'
    <3>1. at < i'
      BY <1>0, <1>1, <1>2, <2>1
    <3>2. ack' = [before EXCEPT !.naks = moved(i')]
      BY <2>1, <2>2, <2>3
    <3>3. \E from \in Listed(before, seq) :
            /\ from < i'
            /\ ack' = [before EXCEPT !.naks = [k \in Slots |-> IF from <= k /\ k + 1 < i'
                                                               THEN before.naks[k + 1]
                                                               ELSE before.naks[k]]]
      BY <3>1, <3>2
    <3> HIDE DEF moved
    <3> QED BY <1>0, <2>1, <3>3 DEF Shifting
  <2>5. i' \in 0 .. NAK_SIZE
    BY <1>0, <1>6, <2>1
  <2> QED
    BY <1>0, <2>1, <2>4, <2>5
       DEF LInv, LoopWellFormed, LoopAgrees, Expanding, Filling
<1>7. CASE ~(i < NAK_SIZE)
  <2>1. /\ ack' = [ack EXCEPT !.naks[NAK_SIZE - 1] = INACTIVE]
        /\ pc' = "returned" /\ ret' = TRUE /\ i' = i /\ i = NAK_SIZE
    BY <1>0, <1>7 DEF ShiftTurn, Return
  <2>2. ack' = [before EXCEPT !.naks = [moved(i) EXCEPT ![i - 1] = INACTIVE]]
    BY <1>4, <2>1
  <2>3. Shift(before, at) = [before EXCEPT !.naks = [moved(i) EXCEPT ![i - 1] = INACTIVE]]
    <3>1. ASSUME NEW k \in Slots
          PROVE  (IF k = i - 1 THEN INACTIVE ELSE moved(i)[k])
                   = IF k < at THEN before.naks[k]
                     ELSE IF k + 1 < NAK_SIZE THEN before.naks[k + 1]
                     ELSE INACTIVE
      <4>1. k \in Nat /\ k < NAK_SIZE
        BY SlotIsNat
      <4>2. CASE k = i - 1
        BY <1>0, <1>1, <1>2, <2>1, <4>1, <4>2
      <4>3. CASE k # i - 1
        BY <1>0, <1>2, <2>1, <4>1, <4>3
      <4> QED BY <4>2, <4>3
    <3>2. [moved(i) EXCEPT ![i - 1] = INACTIVE]
            = [k \in Slots |-> IF k < at THEN before.naks[k]
                               ELSE IF k + 1 < NAK_SIZE THEN before.naks[k + 1]
                               ELSE INACTIVE]
      BY <3>1
    <3> QED BY <3>2 DEF Shift
  <2>4. update(before, seq) = Shift(before, at) /\ update_returns(before, seq) = TRUE
    <3>1. (CHOOSE k \in Listed(before, seq) : TRUE) = at
      BY ListedIsOne
    <3>2. /\ seq < before.main_ack /\ seq # before.main_ack /\ ~(seq > before.main_ack)
          /\ Listed(before, seq) # {}
      BY <1>0
    <3>3. update(before, seq) = Shift(before, CHOOSE k \in Listed(before, seq) : TRUE)
      BY <3>2 DEF update
    <3>4. update_returns(before, seq) = TRUE
      BY <3>2 DEF update_returns
    <3> QED BY <3>1, <3>3, <3>4
  <2> QED BY <1>0, <2>1, <2>2, <2>3, <2>4, ReturnAgrees
<1> QED BY <1>6, <1>7

\* Neither loop has found a place for the packet.
LEMMA FallThroughStep ==
  ASSUME LInv, FallThrough
  PROVE  LInv'
<1>0. /\ pc \in {"expand", "fill"} /\ i = NAK_SIZE /\ i \in 0 .. NAK_SIZE
      /\ UNCHANGED <<ack, before, seq, i>> /\ pc' = "returned" /\ ret' = FALSE
      /\ WellFormed(before) /\ seq \in 0 .. MaxIndex /\ seq \in Nat
      /\ before.main_ack \in Nat /\ NAK_SIZE \in Nat
  BY UsedFirst, SlotIsNat, LoopAssumption DEF LInv, FallThrough, Return
<1>1. ack = before /\ update(before, seq) = before /\ update_returns(before, seq) = FALSE
  <2>1. CASE pc = "expand"
    <3>1. before.main_ack < seq
      BY <2>1 DEF LInv, Expanding
    <3>2. CASE ack = before /\ \A j \in Slots : j < i => before.naks[j] \notin {INACTIVE, seq}
      <4>1. \A j \in Slots : j < i => before.naks[j] # INACTIVE
        BY <3>2
      <4>2. ~(i < NAK_SIZE)
        BY <1>0
      <4> QED BY <1>0, <3>1, <3>2, <4>1, <4>2, NoRoomReturns
    <3>3. ASSUME NEW first \in Room(before, seq),
                 before.main_ack + (i - first) < seq
          PROVE  FALSE
      <4>1. first \in Nat /\ before.main_ack + (NAK_SIZE - first) >= seq
        BY SlotIsNat DEF Room
      <4> QED BY <1>0, <3>3, <4>1
    <3>4. \/ ack = before /\ \A j \in Slots : j < i => before.naks[j] \notin {INACTIVE, seq}
          \/ \E first \in Room(before, seq) : before.main_ack + (i - first) < seq
      BY <2>1 DEF LInv, Expanding
    <3> QED BY <3>2, <3>3, <3>4
  <2>2. CASE pc = "fill"
    <3>1. seq < before.main_ack /\ ack = before /\ \A j \in Slots : before.naks[j] # seq
      BY <1>0, <2>2, SlotIsNat DEF LInv, Filling
    <3>2. Listed(before, seq) = {} /\ ~(seq > before.main_ack) /\ seq # before.main_ack
      BY <1>0, <3>1 DEF Listed
    <3> QED BY <3>1, <3>2 DEF update, update_returns
  <2> QED BY <1>0, <2>1, <2>2
<1> QED BY <1>0, <1>1, ReturnAgrees

-----------------------------------------------------------------------------
(* The loops                                                                *)

LEMMA LoopInitInv == LoopInit => LInv
<1> SUFFICES ASSUME LoopInit PROVE LInv
  OBVIOUS
<1>1. /\ pc = "idle" /\ ack = NewACK /\ before = NewACK /\ seq = 0 /\ i = 0
  BY DEF LoopInit
<1>2. 0 \in 0 .. MaxIndex /\ 0 \in 0 .. NAK_SIZE
  BY LoopAssumption, SlotIsNat
<1> QED
  BY <1>1, <1>2, NewWellFormed
     DEF LInv, LoopWellFormed, LoopAgrees, Expanding, Filling, Shifting

LEMMA LoopNextInv == LInv /\ [LoopNext]_loopVars => LInv'
<1> SUFFICES ASSUME LInv, [LoopNext]_loopVars PROVE LInv'
  OBVIOUS
<1>1. CASE Again
  BY <1>1 DEF Again, LInv, LoopWellFormed, LoopAgrees, Expanding, Filling, Shifting
<1>2. CASE UNCHANGED loopVars
  BY <1>2
     DEF loopVars, LInv, LoopWellFormed, LoopAgrees, Expanding, Filling, Shifting
<1> QED
  BY <1>1, <1>2, CallStep, ExpandStep, FillStep, ShiftStep, FallThroughStep
     DEF LoopNext

\* The inductive invariant of the loops: what each has done so far.
THEOREM LoopInvariance == LoopSpec => []LInv
BY LoopInitInv, LoopNextInv, PTL DEF LoopSpec

\* The loops leave in the record, and return, what the closed form does.
THEOREM LoopCorrect == LoopSpec => []LoopAgrees
<1>1. LInv => LoopAgrees
  BY DEF LInv
<1> QED BY LoopInvariance, <1>1, PTL

\* The loops take in the packet they return true for and no other, never
\* twice, and forget none.
THEOREM TakesOneCorrect == LoopSpec => []TakesOne
<1>1. LInv => TakesOne
  <2> SUFFICES ASSUME LInv, pc = "returned" PROVE TakesOne
    BY DEF TakesOne
  <2>1. ack = update(before, seq) /\ ret = update_returns(before, seq)
    BY DEF LInv, LoopAgrees
  <2>2. WellFormed(before) /\ seq \in Nat /\ seq < INACTIVE
    BY LoopAssumption, SlotIsNat DEF LInv
  <2>3. /\ Received(ack) = Received(before) \union (IF ret THEN {seq} ELSE {})
        /\ ret => seq \notin Received(before)
        /\ ~ret => ack = before
    BY <2>1, <2>2, UpdateCorrect
  <2> QED BY <2>3 DEF TakesOne
<1> QED BY LoopInvariance, <1>1, PTL

\* The record is well formed whenever update is not running.
THEOREM LoopShapeCorrect == LoopSpec => []LoopWellFormed
<1>1. LInv => LoopWellFormed
  BY DEF LInv
<1> QED BY LoopInvariance, <1>1, PTL
=============================================================================
