------------------------------ MODULE MCClient ------------------------------
(* The instances of IpcClient that TLC checks. *)
EXTENDS IpcClient

\* A structure of two fields that differs from a new pool in both.
OneMessage == {<<1, 1>>}
=============================================================================
