--------------------------- MODULE MCDeviceTable ---------------------------
(* Small instances of DeviceTable for TLC. *)
EXTENDS DeviceTable

(* Addresses of three octets: two equal up to a zero octet, one that       *)
(* begins with a zero octet (taken for a free row) and two ordinary ones.   *)
MacsWithZeros == {<<1, 0, 1>>, <<1, 0, 2>>, <<0, 1, 1>>, <<1, 1, 1>>, <<2, 1, 1>>}
=============================================================================
