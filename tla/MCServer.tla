------------------------------ MODULE MCServer ------------------------------
(* The instances of IpcServer that TLC checks. *)
EXTENDS IpcServer, TLC

Symmetry == Permutations(Conns)
=============================================================================
