----------------------------- MODULE DatagramACK -----------------------------
(***************************************************************************)
(* The acknowledgement record of the UDP file transfer: struct DatagramACK *)
(* of protocol/file_udp.cpp.  main_ack is one more than the highest packet *)
(* taken in so far and naks lists, in a fixed array, the packets below it  *)
(* that are still missing.  The loops of the source over the array are     *)
(* written here as what they leave in it; module DatagramACKLoop walks the *)
(* array as the source does and is compared with this module by TLC.       *)
(***************************************************************************)
EXTENDS Integers

CONSTANTS
  NAK_SIZE,   \* entries of the array naks (16 in the source)
  INACTIVE    \* the value of an unused entry, the largest unsigned int

ASSUME ACKAssumption ==
  /\ NAK_SIZE \in Nat \ {0}
  /\ INACTIVE \in Nat \ {0}

Slots == 0 .. (NAK_SIZE - 1)

ACK == [main_ack : Nat, naks : [Slots -> Nat]]

NewACK == [main_ack |-> 0, naks |-> [i \in Slots |-> INACTIVE]]

\* Defective: the packets listed as missing are not looked at.
bottomNoNaks(a) == a.main_ack

bottom_ack(a) == IF a.naks[0] = INACTIVE THEN a.main_ack ELSE a.naks[0]

isAcked(a, seq) ==
  /\ seq < a.main_ack
  /\ \A i \in Slots : a.naks[i] # seq

-----------------------------------------------------------------------------
(* update(seq_index)                                                        *)

\* Defective: room for one packet more than the array has.
RoomOneMore(a, seq) ==
  {i \in Slots :
     /\ a.naks[i] = INACTIVE
     /\ \A j \in 0 .. (i - 1) : a.naks[j] \notin {INACTIVE, seq}
     /\ a.main_ack + (NAK_SIZE - i) + 1 >= seq}

\* The slot at which a packet above main_ack starts to list the packets it
\* has jumped over: the first unused one, if the array has room for all.
Room(a, seq) ==
  {i \in Slots :
     /\ a.naks[i] = INACTIVE
     /\ \A j \in 0 .. (i - 1) : a.naks[j] \notin {INACTIVE, seq}
     /\ a.main_ack + (NAK_SIZE - i) >= seq}

\* The slot that lists a packet below main_ack as missing.
Listed(a, seq) ==
  {i \in Slots :
     /\ a.naks[i] = seq
     /\ \A j \in 0 .. (i - 1) : a.naks[j] # seq}

\* Defective: the list starts one packet too early.
ExpandEarly(a, seq, i) ==
  [main_ack |-> seq + 1,
   naks |-> [k \in Slots |->
               IF i <= k /\ k < i + (seq - a.main_ack)
               THEN a.main_ack + (k - i) - 1
               ELSE a.naks[k]]]

\* The packets main_ack .. seq-1 become missing, listed from slot i on.
Expand(a, seq, i) ==
  [main_ack |-> seq + 1,
   naks |-> [k \in Slots |->
               IF i <= k /\ k < i + (seq - a.main_ack)
               THEN a.main_ack + (k - i)
               ELSE a.naks[k]]]

\* The entry at slot i is removed and the ones behind it move up.
Shift(a, i) ==
  [a EXCEPT !.naks = [k \in Slots |->
                        IF k < i THEN a.naks[k]
                        ELSE IF k + 1 < NAK_SIZE THEN a.naks[k + 1]
                        ELSE INACTIVE]]

\* What update returns: seq was not taken in before and is now.
update_returns(a, seq) ==
  \/ seq = a.main_ack
  \/ seq > a.main_ack /\ Room(a, seq) # {}
  \/ seq < a.main_ack /\ Listed(a, seq) # {}

\* What update leaves in the record.
update(a, seq) ==
  IF seq = a.main_ack
  THEN [a EXCEPT !.main_ack = seq + 1]
  ELSE IF seq > a.main_ack /\ Room(a, seq) # {}
  THEN Expand(a, seq, CHOOSE i \in Room(a, seq) : TRUE)
  ELSE IF seq < a.main_ack /\ Listed(a, seq) # {}
  THEN Shift(a, CHOOSE i \in Listed(a, seq) : TRUE)
  ELSE a

-----------------------------------------------------------------------------
(* What the record means                                                    *)

\* The packets the record says have been taken in.
Received(a) == {seq \in 0 .. (a.main_ack - 1) : isAcked(a, seq)}

\* The shape every record of the program has: the first n entries are in
\* use, strictly increasing and below the last packet taken in; the others
\* are unused.
Shape(a, n) ==
  /\ a.main_ack <= INACTIVE
  /\ \A i \in Slots : i < n => a.naks[i] + 1 < a.main_ack
  /\ \A i, j \in Slots : i < j /\ j < n => a.naks[i] < a.naks[j]
  /\ \A i \in Slots : n <= i => a.naks[i] = INACTIVE

WellFormed(a) == a \in ACK /\ \E n \in 0 .. NAK_SIZE : Shape(a, n)
=============================================================================
