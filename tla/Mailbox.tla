------------------------------- MODULE Mailbox -------------------------------
(***************************************************************************)
(* What the chat service promises of messages, with no connections: each   *)
(* account has a box, where messages for it are kept while it is away.     *)
(* An account that comes is handed its box from the first message to the   *)
(* last before it gets any other; what it gets then it gets at once.  It   *)
(* goes with an empty box.  Only when the service stops may the box be     *)
(* handed over again from its beginning.                                   *)
(***************************************************************************)
EXTENDS Integers, Sequences

CONSTANTS Accounts, Texts

VARIABLES
  present,  \* accounts that are there
  box,      \* what is kept for an account
  shown,    \* how much of its box an account has been handed
  handed    \* what an account has been given

mailVars == <<present, box, shown, handed>>

Init ==
  /\ present = {}
  /\ box = [a \in Accounts |-> <<>>]
  /\ shown = [a \in Accounts |-> 0]
  /\ handed = [a \in Accounts |-> <<>>]

Come(a) ==
  /\ a \notin present
  /\ present' = present \union {a}
  /\ UNCHANGED <<box, shown, handed>>

Go(a) ==
  /\ a \in present /\ box[a] = <<>>
  /\ present' = present \ {a}
  /\ UNCHANGED <<box, shown, handed>>

Keep(a, m) ==
  /\ a \notin present
  /\ box' = [box EXCEPT ![a] = Append(@, m)]
  /\ UNCHANGED <<present, shown, handed>>

Pass(a, m) ==
  /\ a \in present /\ box[a] = <<>>
  /\ handed' = [handed EXCEPT ![a] = Append(@, m)]
  /\ UNCHANGED <<present, box, shown>>

Hand(a) ==
  /\ a \in present /\ shown[a] < Len(box[a])
  /\ handed' = [handed EXCEPT ![a] = Append(@, box[a][shown[a] + 1])]
  /\ shown' = [shown EXCEPT ![a] = @ + 1]
  /\ UNCHANGED <<present, box>>

Clear(a) ==
  /\ a \in present /\ shown[a] = Len(box[a])
  /\ box' = [box EXCEPT ![a] = <<>>]
  /\ shown' = [shown EXCEPT ![a] = 0]
  /\ UNCHANGED <<present, handed>>

Stop ==
  /\ present' = {}
  /\ shown' = [a \in Accounts |-> 0]
  /\ UNCHANGED <<box, handed>>

Next ==
  \/ \E a \in Accounts :
       \/ Come(a) \/ Go(a) \/ Hand(a) \/ Clear(a)
       \/ \E m \in Texts : Keep(a, m) \/ Pass(a, m)
  \/ Stop

Spec == Init /\ [][Next]_mailVars
=============================================================================
