------------------------------ MODULE MCSystem ------------------------------
(* The instances of IpcSystem that TLC checks. *)
EXTENDS IpcSystem, TLC

\* Two structures that differ from each other, and from a new pool, in every field.
TwoStructures == << <<1, 1>>, <<2, 2>> >>
=============================================================================
