------------------------------ MODULE MCReceiver ------------------------------
(* Instances of Receiver for TLC. *)
EXTENDS Receiver

(* Packet 1 has five parts, so that with DrainUnit = 2 its received chunks *)
(* are drained twice; every further packet fits in one datagram.           *)
FivePartsAndOne == [id \in PacketId |-> IF id = 1 THEN 5 ELSE 1]

=============================================================================
