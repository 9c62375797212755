------------------------------ MODULE Datagrams ------------------------------
(***************************************************************************)
(* The datagrams that make up one reliable packet (src/packet.rs).         *)
(*                                                                         *)
(* A reliable packet is named by a PacketId (a version 4 UUID) and cut     *)
(* into NumParts[id] parts, numbered from 0; the highest one is sent with  *)
(* the kind LastPart, the others with the kind Part.  The receiver answers *)
(* every part with an Ack, and the sender closes the exchange with a Done. *)
(* Payload bytes are abstracted to the number of the part that carries     *)
(* them.                                                                   *)
(***************************************************************************)
EXTENDS Integers, Sequences, SequencesExt, FiniteSets, FiniteSetsExt

CONSTANTS
    PacketId,   \* the ids drawn by the sender; ordered, because both ends keep BTreeMaps
    NumParts,   \* how many parts each packet is serialized into
    Capacity    \* how many datagrams fit into the network in one direction

ASSUME PacketIdAssumption ==
    PacketId \subseteq Nat \ {0} /\ PacketId # {} /\ IsFiniteSet(PacketId)

ASSUME NumPartsAssumption == NumParts \in [PacketId -> Nat \ {0}]

ASSUME CapacityAssumption == Capacity \in Nat

(* Rust's Option::None for the optional numbers of the model. *)
None == -1

Parts(id) == 0..(NumParts[id] - 1)

LastPart(id) == NumParts[id] - 1

PartDatagram(id, seq) ==
    [kind |-> IF seq = LastPart(id) THEN "LastPart" ELSE "Part", id |-> id, seq |-> seq]

AckDatagram(id, seq) == [kind |-> "Ack", id |-> id, seq |-> seq]

DoneDatagram(id) == [kind |-> "Done", id |-> id]

(* The socket took these datagrams: those that no longer fit are dropped.  *)
Transmit(channel, datagrams) ==
    LET all == channel \o datagrams
    IN  SubSeq(all, 1, Min({Len(all), Capacity}))

(* The function f with k mapped to v; the insert of a map. *)
Insert(f, k, v) == [x \in DOMAIN f \cup {k} |-> IF x = k THEN v ELSE f[x]]

(* The function f without the keys K. *)
Without(f, K) == [x \in DOMAIN f \ K |-> f[x]]

(* Elapsed times grow by one per tick and are only compared with a limit,  *)
(* so they stop growing at the limit.                                      *)
Older(age, limit) == IF age < limit THEN age + 1 ELSE age

=============================================================================
