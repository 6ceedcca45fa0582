--------------------------- MODULE DatagramACKLoop ---------------------------
(***************************************************************************)
(* DatagramACK::update of protocol/file_udp.cpp statement by statement:    *)
(* one step per turn of its loops over naks.  Successive calls are made    *)
(* with arbitrary packet numbers, as a receiver sees them when the network *)
(* loses, repeats and reorders datagrams.  The closed form of module       *)
(* DatagramACK, which the protocol model uses, must agree with it.         *)
(***************************************************************************)
EXTENDS DatagramACK

CONSTANT MaxIndex   \* packet numbers are 0 .. MaxIndex

\* The largest unsigned int is not the number of a packet.
ASSUME LoopAssumption == MaxIndex \in Nat /\ MaxIndex < INACTIVE

VARIABLES
  pc,     \* "idle", "expand", "fill", "shift" or "returned"
  ack,    \* the record, changed in place
  before, \* the record when update was called
  seq,    \* the argument of the call
  i,      \* the loop variable
  ret     \* the value returned

loopVars == <<pc, ack, before, seq, i, ret>>

LoopInit ==
  /\ pc = "idle"
  /\ ack = NewACK /\ before = NewACK
  /\ seq = 0 /\ i = 0
  /\ ret = FALSE

Return(value) == pc' = "returned" /\ ret' = value

\* The three cases of update.
Call ==
  /\ pc = "idle"
  /\ \E s \in 0 .. MaxIndex :
       /\ seq' = s
       /\ IF ack.main_ack = s
          THEN ack' = [ack EXCEPT !.main_ack = @ + 1] /\ Return(TRUE)
          ELSE /\ pc' = IF ack.main_ack < s THEN "expand" ELSE "fill"
               /\ UNCHANGED <<ack, ret>>
  /\ before' = ack
  /\ i' = 0

\* Defective: naks are listed although the array cannot hold them all.
NoRoomIgnored == FALSE

\* Defective: a packet that would just fit is refused.
NoRoomStrict == ack.main_ack + (NAK_SIZE - i) <= seq

\* "avoid fake expand": seq is too far above main_ack to list what is missing.
NoRoom == ack.main_ack + (NAK_SIZE - i) < seq

\* One turn of the loop for a packet above main_ack.
ExpandTurn ==
  /\ pc = "expand" /\ i < NAK_SIZE
  /\ IF ack.naks[i] = INACTIVE
     THEN IF NoRoom
          THEN Return(FALSE) /\ UNCHANGED <<ack, i>>
          ELSE LET next == ack.main_ack + 1 IN
               IF next = seq
               THEN /\ ack' = [main_ack |-> next + 1,
                               naks |-> [ack.naks EXCEPT ![i] = ack.main_ack]]
                    /\ Return(TRUE) /\ UNCHANGED i
               ELSE /\ ack' = [main_ack |-> next,
                               naks |-> [ack.naks EXCEPT ![i] = ack.main_ack]]
                    /\ i' = i + 1 /\ UNCHANGED <<pc, ret>>
     ELSE IF ack.naks[i] = seq
          THEN Return(FALSE) /\ UNCHANGED <<ack, i>>
          ELSE i' = i + 1 /\ UNCHANGED <<pc, ret, ack>>
  /\ UNCHANGED <<before, seq>>

\* One turn of the loop for a packet below main_ack.
FillTurn ==
  /\ pc = "fill" /\ i < NAK_SIZE
  /\ i' = i + 1
  /\ pc' = IF ack.naks[i] = seq THEN "shift" ELSE "fill"
  /\ UNCHANGED <<ack, before, seq, ret>>

\* Defective: the entry left free at the end keeps its value.
ShiftTurnKeepsLast ==
  /\ pc = "shift"
  /\ IF i < NAK_SIZE
     THEN /\ ack' = [ack EXCEPT !.naks[i - 1] = ack.naks[i]]
          /\ i' = i + 1 /\ UNCHANGED <<pc, ret>>
     ELSE Return(TRUE) /\ UNCHANGED <<ack, i>>
  /\ UNCHANGED <<before, seq>>

\* One turn of the inner loop that moves the entries behind it up.
ShiftTurn ==
  /\ pc = "shift"
  /\ IF i < NAK_SIZE
     THEN /\ ack' = [ack EXCEPT !.naks[i - 1] = ack.naks[i]]
          /\ i' = i + 1 /\ UNCHANGED <<pc, ret>>
     ELSE /\ ack' = [ack EXCEPT !.naks[NAK_SIZE - 1] = INACTIVE]
          /\ Return(TRUE) /\ UNCHANGED i
  /\ UNCHANGED <<before, seq>>

\* The loops end without having found a place.
FallThrough ==
  /\ pc \in {"expand", "fill"} /\ i = NAK_SIZE
  /\ Return(FALSE)
  /\ UNCHANGED <<ack, before, seq, i>>

\* The caller goes on to the next datagram.
Again ==
  /\ pc = "returned"
  /\ pc' = "idle"
  /\ UNCHANGED <<ack, before, seq, i, ret>>

LoopNext ==
  \/ Call \/ ExpandTurn \/ FillTurn \/ ShiftTurn \/ FallThrough \/ Again

LoopSpec == LoopInit /\ [][LoopNext]_loopVars

-----------------------------------------------------------------------------
\* The closed form computes what the loops compute: the record they leave
\* and the value they return.
LoopAgrees ==
  pc = "returned" => /\ ack = update(before, seq)
                     /\ ret = update_returns(before, seq)

\* update takes in exactly the packet it returns true for, never twice, and
\* forgets none; a call that returns false leaves the record alone although
\* it has walked the array ("avoid fake expand", file_udp.cpp).
TakesOne ==
  pc = "returned" =>
    /\ Received(ack) = Received(before) \union (IF ret THEN {seq} ELSE {})
    /\ ret => seq \notin Received(before)
    /\ ~ret => ack = before

\* Between calls the record is well formed.
LoopWellFormed == pc \in {"idle", "returned"} => WellFormed(ack)

-----------------------------------------------------------------------------
(* Why the loops agree: an inductive invariant                              *)

\* Where the loop for a packet above main_ack is: it has met only entries in
\* use, or it has listed, from the first unused slot on, the packets between
\* the old main_ack and the present one.
Expanding ==
  pc = "expand" =>
    /\ before.main_ack < seq
    /\ \/ /\ ack = before
          /\ \A j \in Slots : j < i => before.naks[j] \notin {INACTIVE, seq}
       \/ \E first \in Room(before, seq) :
            /\ first < i /\ before.main_ack + (i - first) < seq
            /\ ack = [main_ack |-> before.main_ack + (i - first),
                      naks |-> [k \in Slots |-> IF first <= k /\ k < i
                                                THEN before.main_ack + (k - first)
                                                ELSE before.naks[k]]]

\* The loop for a packet below main_ack has not met it yet.
Filling ==
  pc = "fill" =>
    /\ seq < before.main_ack /\ ack = before
    /\ \A j \in Slots : j < i => before.naks[j] # seq

\* The entries behind the one that is removed have moved up as far as i.
Shifting ==
  pc = "shift" =>
    /\ seq < before.main_ack
    /\ \E at \in Listed(before, seq) :
         /\ at < i
         /\ ack = [before EXCEPT !.naks = [k \in Slots |-> IF at <= k /\ k + 1 < i
                                                           THEN before.naks[k + 1]
                                                           ELSE before.naks[k]]]

\* The inductive invariant: LoopAgrees is part of it, TakesOne and
\* LoopWellFormed follow from it and what update does.
LInv ==
  /\ pc \in {"idle", "expand", "fill", "shift", "returned"}
  /\ seq \in 0 .. MaxIndex /\ i \in 0 .. NAK_SIZE
  /\ WellFormed(before)
  /\ LoopWellFormed /\ LoopAgrees
  /\ Expanding /\ Filling /\ Shifting
=============================================================================
