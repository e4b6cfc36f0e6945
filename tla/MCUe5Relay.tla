------------------------------ MODULE MCUe5Relay ------------------------------
(* Ue5Relay for TLC. *)
EXTENDS Ue5Relay, TLC

Symmetry == Permutations(Conn)
===============================================================================
