------------------------------- MODULE Receiver -------------------------------
(***************************************************************************)
(* The receiving end of reliable packets: ReceivePacketBuffer              *)
(* (src/packet.rs) and ReassembledPacket (src/packet/receive.rs).          *)
(*                                                                         *)
(* The environment of this specification is any UDP network: every well    *)
(* formed part or Done of every packet may arrive at any time, in any      *)
(* order and any number of times.                                          *)
(***************************************************************************)
EXTENDS Datagrams

CONSTANTS
    ReceiveTimeout,  \* ConnectionConfig::receive_timeout in ticks, or None
    DrainUnit,       \* received_chunks is drained in multiples of this (256 in the code)
    AckResults,      \* what sending an ack may return: "sent", "blocked" or "error"
    DeliveredMax     \* deliveries of one packet are counted up to here

ASSUME ReceiveTimeoutAssumption == ReceiveTimeout \in Nat \cup {None}

ASSUME DrainUnitAssumption == DrainUnit \in Nat \ {0}

ASSUME AckResultsAssumption == AckResults \subseteq {"sent", "blocked", "error"}

ASSUME DeliveredMaxAssumption == DeliveredMax \in Nat \ {0}

VARIABLES
    incoming,   \* ReceivePacketBuffer::packets, a map from known ids to PacketIn
    toSender,   \* acks on their way back
    delivered,  \* how often the payload of each packet was handed to the application
    handed,     \* the payloads handed over, each as the set of its written chunks
    arrived,    \* every part that was ever handled
    failed,     \* history: the packets that were complete when their ack failed
    panicked    \* the receiving program died

receiverVars == <<incoming, toSender, delivered, handed, arrived, failed, panicked>>

-----------------------------------------------------------------------------
(* ReassembledPacket                                                       *)

(* An entry of the map.  `single` stands for `packet: None`, the entry of  *)
(* a packet that fits in one datagram; received_chunks holds the numbers   *)
(* of the bits that are set and not drained yet; `age` is the time elapsed *)
(* since last_receive, and payload the chunks seen so far: the only one of *)
(* such a packet, or those written to ReassembledPacket::payload.          *)
NewPacketIn(single) ==
    [single |-> single, age |-> 0, received_chunks |-> {}, first_pending |-> 0,
     received_count |-> 0, max_index |-> None, payload |-> IF single THEN {0} ELSE {}]

(* The lowest chunk that is not set in the bits that start at `start`.     *)
FirstZero(chunks, start) ==
    CHOOSE c \in start..(start + Cardinality(chunks)) :
        c \notin chunks /\ \A d \in start..(c - 1) : d \in chunks

(* Mutant: rounded up instead of down. *)
DrainBoundaryRoundedUp(chunks, start) ==
    ((FirstZero(chunks, start) - start + DrainUnit - 1) \div DrainUnit) * DrainUnit

(* How many leading bits are drained: whole units only. *)
DrainBoundary(chunks, start) ==
    ((FirstZero(chunks, start) - start) \div DrainUnit) * DrainUnit

(* Mutant: every part is taken for the last one. *)
MaxIndexOfAnyPart(e, last, seq) == seq

MaxIndex(e, last, seq) == IF last THEN seq ELSE e.max_index

(* Mutant: the part that arrives is counted already. *)
CompletesOneEarly(e, max_index) == e.received_count + 1 = max_index

(* The part that arrives is the only one not counted yet. *)
Completes(e, max_index) == e.received_count = max_index

(* A chunk below first_pending makes `chunk_index - first_pending` wrap    *)
(* around: the subtraction panics in a checked build and the resize of the *)
(* bit vector does in an unchecked one.                                    *)
Reassemble(e, last, seq) ==
    LET max_index == MaxIndex(e, last, seq)
        chunks    == e.received_chunks \cup {seq}
        pending   == e.first_pending + DrainBoundary(chunks, e.first_pending)
        complete  == Completes(e, max_index)
    IN  IF seq < e.first_pending
        THEN [entry |-> e, result |-> "Panic"]
        ELSE IF seq \in e.received_chunks
        THEN [entry |-> [e EXCEPT !.max_index = max_index], result |-> "Duplicate"]
        ELSE [entry  |-> [e EXCEPT !.max_index = max_index,
                                   !.first_pending = pending,
                                   !.received_chunks = {c \in chunks : c >= pending},
                                   !.payload = @ \cup {seq},
                                   !.received_count = IF complete THEN @ ELSE @ + 1],
              result |-> IF complete THEN "Reassembled" ELSE "Pending"]

(* Mutant: the entry is replaced without looking whether there is one. *)
ReceiveOnlyPartAnew(id) == [entry |-> NewPacketIn(TRUE), result |-> "Reassembled"]

(* The only part of a packet.  The entry keeps its last_receive when a     *)
(* duplicate arrives.                                                      *)
ReceiveOnlyPart(id) ==
    IF id \notin DOMAIN incoming
    THEN [entry |-> NewPacketIn(TRUE), result |-> "Reassembled"]
    ELSE [entry  |-> incoming[id],
          result |-> IF incoming[id].single THEN "Duplicate" ELSE "Mismatch"]

(* ReceivePacketBuffer::receive up to its ack: the entry it leaves in the  *)
(* map and what it found.                                                  *)
Receive(last, id, seq) ==
    LET e == IF id \in DOMAIN incoming
             THEN [incoming[id] EXCEPT !.age = 0]
             ELSE NewPacketIn(FALSE)
    IN  IF last /\ seq = 0
        THEN ReceiveOnlyPart(id)
        ELSE IF e.single
             THEN [entry |-> e, result |-> "Mismatch"]
             ELSE Reassemble(e, last, seq)

(* Mutant: a packet whose ack would block is not returned either. *)
DeliversIfAcked(result, ack) == result = "Reassembled" /\ ack = "sent"

(* The payload is returned to the caller unless sending the ack failed. *)
Delivers(result, ack) == result = "Reassembled" /\ ack # "error"

-----------------------------------------------------------------------------
ReceiverInit ==
    /\ incoming = [id \in {} |-> NewPacketIn(TRUE)]
    /\ toSender = <<>>
    /\ delivered = [id \in PacketId |-> 0]
    /\ handed = [id \in PacketId |-> {}]
    /\ arrived = [id \in PacketId |-> {}]
    /\ failed = {}
    /\ panicked = FALSE

(* A Part or LastPart arrives.  The ack goes out before the result is      *)
(* returned: when the socket reports an error the result is lost with it,  *)
(* when the socket would block only the ack is.                            *)
HandlePart(id, seq, ack) ==
    LET got == Receive(seq = LastPart(id), id, seq)
        ok  == got.result \notin {"Panic", "Mismatch"}
    IN  /\ ~panicked
        /\ incoming' = Insert(incoming, id, got.entry)
        /\ panicked' = (got.result = "Panic")
        /\ toSender' = IF ok /\ ack = "sent"
                       THEN Transmit(toSender, <<AckDatagram(id, seq)>>)
                       ELSE toSender
        /\ arrived' = IF ok THEN [arrived EXCEPT ![id] = @ \cup {seq}] ELSE arrived
        /\ IF Delivers(got.result, ack)
           THEN /\ delivered' = [delivered EXCEPT ![id] = Older(@, DeliveredMax)]
                /\ handed' = [handed EXCEPT ![id] = @ \cup {got.entry.payload}]
           ELSE UNCHANGED <<delivered, handed>>
        /\ failed' = IF got.result = "Reassembled" /\ ack = "error"
                     THEN failed \cup {id} ELSE failed

(* A Done arrives: the id is forgotten, known or not. *)
HandleDone(id) ==
    /\ ~panicked
    /\ incoming' = Without(incoming, {id})
    /\ UNCHANGED <<toSender, delivered, handed, arrived, failed, panicked>>

(* Mutant: every packet times out when there is no timeout. *)
StaleWithoutTimeout == {id \in DOMAIN incoming : incoming[id].age >= ReceiveTimeout}

(* The receiver's part of PacketBuffers::update. *)
Stale == {id \in DOMAIN incoming : ReceiveTimeout # None /\ incoming[id].age >= ReceiveTimeout}

TimeoutIncoming ==
    /\ ~panicked
    /\ incoming' = Without(incoming, Stale)
    /\ UNCHANGED <<toSender, delivered, handed, arrived, failed, panicked>>

(* Time passes for the receiver. *)
AgedIncoming ==
    [id \in DOMAIN incoming |-> [incoming[id] EXCEPT !.age = Older(@, ReceiveTimeout)]]

TickIncoming ==
    /\ incoming' = AgedIncoming
    /\ UNCHANGED <<toSender, delivered, handed, arrived, failed, panicked>>

(* The network takes an ack, to deliver it or to lose it. *)
TakeAck(i) ==
    /\ toSender' = RemoveAt(toSender, i)
    /\ UNCHANGED <<incoming, delivered, handed, arrived, failed, panicked>>

ReceiverNext ==
    \/ \E id \in PacketId : \E seq \in Parts(id), ack \in AckResults : HandlePart(id, seq, ack)
    \/ \E id \in PacketId : HandleDone(id)
    \/ TimeoutIncoming
    \/ TickIncoming
    \/ \E i \in DOMAIN toSender : TakeAck(i)

ReceiverSpec == ReceiverInit /\ [][ReceiverNext]_receiverVars

-----------------------------------------------------------------------------
(* Properties                                                              *)

Entry(id) ==
    [single : BOOLEAN, age : Nat, received_chunks : SUBSET Parts(id),
     first_pending : 0..NumParts[id], received_count : Nat,
     max_index : {None, LastPart(id)}, payload : SUBSET Parts(id)]

(* Type correctness of the receiver's state: the map holds entries of      *)
(* known packets, and acks are the only datagrams on the way back.         *)
ReceiverTypeOK ==
    /\ DOMAIN incoming \subseteq PacketId
    /\ \A id \in DOMAIN incoming : incoming[id] \in Entry(id)
    /\ toSender \in Seq([kind : {"Ack"}, id : PacketId, seq : Nat])
    /\ delivered \in [PacketId -> 0..DeliveredMax]
    /\ \A id \in PacketId : handed[id] \subseteq SUBSET Parts(id)
    /\ \A id \in PacketId : arrived[id] \subseteq Parts(id)
    /\ DOMAIN handed = PacketId /\ DOMAIN arrived = PacketId
    /\ failed \subseteq PacketId
    /\ panicked \in BOOLEAN

(* Every chunk that has been written into the payload of an entry. *)
Complete(id) == incoming[id].payload = Parts(id)

(* ReassembledPacket::receive returns Reassembled only for a payload in    *)
(* which every chunk was written, whatever order the parts came in and     *)
(* however often each of them came.                                        *)
ReassembledIntact == \A id \in PacketId : handed[id] \subseteq {Parts(id)}

(* An id that is remembered with all of its parts was handed to the        *)
(* application, whatever order the parts came in: no packet is received in *)
(* full and then dropped, unless the socket failed to send the ack of the  *)
(* part that completed it (ReceivePacketBuffer::receive returns that error *)
(* in place of the packet).                                                *)
CompleteIsDelivered ==
    \A id \in DOMAIN incoming : Complete(id) => delivered[id] > 0 \/ id \in failed

(* As long as the receiver remembers an id, a packet it has reassembled is *)
(* not handed to the application again (ReceivedPacket::Duplicate).        *)
OncePerEntry ==
    [][\A id \in DOMAIN incoming :
          Complete(id) => /\ delivered'[id] = delivered[id]
                          /\ handed'[id] = handed[id]]_receiverVars

(* The chunks that were drained from received_chunks or are set in it are  *)
(* the written ones; received_count counts them without the one that       *)
(* completes the packet, and max_index is set once that one is written.    *)
Tracked(id, e) ==
    /\ e.single <=> NumParts[id] = 1
    /\ e.single => e.payload = Parts(id)
    /\ ~e.single =>
         /\ e.payload = 0..(e.first_pending - 1) \cup e.received_chunks
         /\ \A c \in e.received_chunks : c >= e.first_pending
         /\ Cardinality(e.payload) =
              IF e.payload = Parts(id) THEN e.received_count + 1 ELSE e.received_count
         /\ e.max_index # None <=> LastPart(id) \in e.payload

(* The bookkeeping of ReassembledPacket is consistent however the parts    *)
(* arrive and however often received_chunks is drained.                    *)
ChunksAreTracked == \A id \in DOMAIN incoming : Tracked(id, incoming[id])

=============================================================================
