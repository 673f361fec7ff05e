---------------------------- MODULE SlotRegistry ----------------------------
(***************************************************************************)
(* What joining the network promises, whatever the table behind it: every  *)
(* device that is admitted receives an interval of transmit slots of its   *)
(* own, above the slots the server keeps for itself, and keeps it.         *)
(* DeviceTable is shown to implement this specification.                   *)
(***************************************************************************)
EXTENDS Naturals

CONSTANTS Macs,      \* the MAC addresses of the devices
          Reserved,  \* slots 1 .. Reserved belong to the server
          LastSlot   \* the largest slot number a frame can carry

VARIABLE grants      \* the intervals handed out so far

Grant == [mac : Macs, first : 1 .. LastSlot, last : 1 .. LastSlot]

Overlap(g, h) == g.first <= h.last /\ h.first <= g.last

Init == grants = {}

(* Admit one device: a proper interval, free of every other grant. *)
Admit(g) == /\ Reserved < g.first
            /\ g.first <= g.last
            /\ \A h \in grants : ~Overlap(g, h) /\ h.mac # g.mac
            /\ grants' = grants \cup {g}

Next == \E g \in Grant : Admit(g)

Spec == Init /\ [][Next]_grants
=============================================================================
