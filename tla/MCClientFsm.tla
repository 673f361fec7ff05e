----------------------------- MODULE MCClientFsm -----------------------------
(* Small instances of ClientFsm for TLC. *)
EXTENDS ClientFsm
=============================================================================
