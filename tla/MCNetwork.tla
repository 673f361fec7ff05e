------------------------------ MODULE MCNetwork ------------------------------
(* Small instances of Network for TLC: addresses of one octet. *)
EXTENDS Network

(* The two clients; a third address is what half-received frames leave.     *)
TwoClients == {<<1>>, <<2>>}
AndTorn    == {<<1>>, <<2>>, <<9>>}
First      == <<1>>
Second     == <<2>>
=============================================================================
