------------------------------ MODULE FileCopy ------------------------------
(***************************************************************************)
(* What a file transfer promises to the user who accepted it, with no      *)
(* datagrams: the local file grows by blocks of the source file, in order; *)
(* it is saved only when it is whole; and unless the client dies the       *)
(* transfer goes on until it is.                                           *)
(***************************************************************************)
EXTENDS Integers, Sequences

CONSTANT Length   \* bytes in the source file

VARIABLES
  out,    \* the local file, each byte as its offset in the source
  state   \* "copying", "complete", "saved" or "failed"

copyVars == <<out, state>>

Source(n) == [k \in 1 .. n |-> k - 1]

Init == out = <<>> /\ state = "copying"

Copy ==
  /\ state = "copying"
  /\ \E n \in (Len(out) + 1) .. Length :
       /\ out' = Source(n)
       /\ state' = IF n = Length THEN "complete" ELSE "copying"

Save ==
  /\ state = "complete"
  /\ state' = "saved"
  /\ UNCHANGED out

\* The client ends before the file is saved.
Fail ==
  /\ state \in {"copying", "complete"}
  /\ state' = "failed"
  /\ UNCHANGED out

Next == Copy \/ Save \/ Fail

Spec == Init /\ [][Next]_copyVars

FairSpec == Spec /\ WF_copyVars(Copy) /\ WF_copyVars(Save)
=============================================================================
