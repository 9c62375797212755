------------------------------- MODULE MCClient -------------------------------
(* Instances of Client for TLC. *)
EXTENDS Client

(* Servers are only compared for equality. *)
Symmetry == Permutations(Servers)

=============================================================================
