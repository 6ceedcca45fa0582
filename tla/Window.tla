------------------------------- MODULE Window -------------------------------
(***************************************************************************)
(* class Window of protocol/file_udp.cpp, the ring of packet slots that    *)
(* sender and receiver index by absolute packet number, and the sizes both *)
(* ends derive from the length of the file.  A window is its base; limit   *)
(* is max_seq_index for both ends.                                         *)
(***************************************************************************)
EXTENDS Integers

CONSTANTS
  SLOTS,          \* packets moved between file and ring at a time (2048)
  SINGLE_LENGTH,  \* bytes of file in a datagram (1464)
  Length          \* length of the file in bytes, at least 1

ASSUME WindowAssumption ==
  /\ SLOTS \in Nat \ {0}
  /\ SINGLE_LENGTH \in Nat \ {0}
  /\ Length \in Nat \ {0}

MinOf(x, y) == IF x <= y THEN x ELSE y

max_interval == 2 * SLOTS

max_seq_index == (Length - 1) \div SINGLE_LENGTH + 1

offset_end(base) == MinOf(base + max_interval, max_seq_index)

\* The assertion of operator[].
InWindow(base, i) == base <= i /\ i < offset_end(base)

Slot(i) == i % max_interval

\* Defective: a block too early.
emptyEarly(base) == base + SLOTS >= max_seq_index

empty(base) == base >= max_seq_index
=============================================================================
