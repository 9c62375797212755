------------------------------ MODULE MCTransfer ------------------------------
(* Instances of Transfer for TLC. *)
EXTENDS Transfer

(* Every packet fits in one datagram. *)
OnePart == [id \in PacketId |-> 1]

(* Every packet needs two datagrams. *)
TwoParts == [id \in PacketId |-> 2]

(* Packet 1 fits in one datagram, every further one needs two. *)
OneAndTwoParts == [id \in PacketId |-> IF id = 1 THEN 1 ELSE 2]

=============================================================================
