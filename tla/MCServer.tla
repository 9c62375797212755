------------------------------- MODULE MCServer -------------------------------
(* Instances of Server for TLC. *)
EXTENDS Server, TLC

(* Addresses are only compared for equality. *)
Symmetry == Permutations(Addr)

=============================================================================
