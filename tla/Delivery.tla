------------------------------- MODULE Delivery -------------------------------
(***************************************************************************)
(* What the network promises the applications of its clients: a message is *)
(* handed over, and later it is answered, once.  The answer is the message *)
(* itself at its addressee, an echo, or the notice that the addressee is   *)
(* not in the network.                                                     *)
(***************************************************************************)
EXTENDS Naturals

CONSTANTS Clients,  \* the clients of the network
          MaxOwed   \* messages of a client that may be under way at a time

VARIABLE owed       \* messages of each client that are not answered

Init == owed = [c \in Clients |-> 0]

Submit(c) == /\ owed[c] < MaxOwed
             /\ owed' = [owed EXCEPT ![c] = @ + 1]

Answer(c) == /\ owed[c] > 0
             /\ owed' = [owed EXCEPT ![c] = @ - 1]

Next == \E c \in Clients : Submit(c) \/ Answer(c)

Spec == Init /\ [][Next]_owed /\ \A c \in Clients : WF_owed(Answer(c))
=============================================================================
