----------------------------- MODULE MCServerFsm -----------------------------
(* Small instances of ServerFsm for TLC. *)
EXTENDS ServerFsm

(* Addresses of one octet. *)
TwoDevices  == {<<1>>, <<2>>}
OneDevice   == {<<1>>}

(* Addresses of two octets that begin alike; one of them has a zero octet.  *)
TwoWithZero == {<<1, 0>>, <<1, 1>>}
=============================================================================
