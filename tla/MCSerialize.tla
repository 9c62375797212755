------------------------------ MODULE MCSerialize ------------------------------
(* An instance of Serialize for TLC. *)
EXTENDS Serialize

CONSTANTS
    MaxWrites,  \* bound: writes per value
    MaxWrite    \* bound: bytes per write

MCValues == UNION {[1..n -> 0..MaxWrite] : n \in 0..MaxWrites}

=============================================================================
