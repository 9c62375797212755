-------------------------------- MODULE Sender --------------------------------
(***************************************************************************)
(* The sending end of reliable packets: SendPacketBuffer (src/packet.rs)   *)
(* and PacketOut with its PacketQueue (src/packet/send.rs).                *)
(***************************************************************************)
EXTENDS Datagrams

CONSTANTS
    ResendDelay,          \* ConnectionConfig::resend_delay in ticks
    MaxMissedAcks,        \* ConnectionConfig::max_missed_acks, or None
    InitialBatchSize,     \* ConnectionConfig::initial_send_batch_size
    BatchSizeMax,         \* the largest BatchSize (u16::MAX in the code)
    BackgroundThreshold,  \* ConnectionConfig::background_serialization_threshold
    SocketFaults,         \* what a send may return besides success: "blocked", "error"
    MissedAcksMax         \* missed_acks is counted up to here

ASSUME ResendDelayAssumption == ResendDelay \in Nat

ASSUME MaxMissedAcksAssumption == MaxMissedAcks \in Nat \cup {None}

ASSUME BatchSizeAssumption ==
    /\ BatchSizeMax \in Nat \ {0}
    /\ InitialBatchSize \in 1..BatchSizeMax

ASSUME BackgroundThresholdAssumption == BackgroundThreshold \in Nat

ASSUME SocketFaultsAssumption == SocketFaults \subseteq {"blocked", "error"}

ASSUME MissedAcksMaxAssumption == MissedAcksMax \in Nat /\ MissedAcksMax > MaxMissedAcks

VARIABLES
    outgoing,    \* SendPacketBuffer::packets, a map from ids to PacketOut
    batch_size,  \* SendPacketBuffer::batch_size, given to new packets
    drawn,       \* the ids PacketId::new has returned so far
    blocked,     \* history: the packets whose first batch would have blocked
    toReceiver   \* parts and Dones on their way

senderVars == <<outgoing, batch_size, drawn, blocked, toReceiver>>

-----------------------------------------------------------------------------
(* PacketQueue                                                             *)

UnackedPart(seq) == [seq |-> seq, acked |-> FALSE]

(* A packet of more than BackgroundThreshold parts is produced by a thread *)
(* that hands over one part at a time; rx is the number of parts it still  *)
(* has, and `next` the number that the serializer gives to the next one.   *)
NewPacketQueue(n) ==
    IF n <= BackgroundThreshold
    THEN [packets |-> [i \in 1..n |-> UnackedPart(i - 1)], first_unacked |-> 0,
          rx |-> 0, next |-> n]
    ELSE [packets |-> <<>>, first_unacked |-> 0, rx |-> n, next |-> 0]

(* The parts that are not acked, in order. *)
Unacked(packets) ==
    LET upTo[n \in 0..Len(packets)] ==
            IF n = 0 THEN <<>>
            ELSE IF packets[n].acked THEN upTo[n - 1] ELSE Append(upTo[n - 1], packets[n])
    IN  upTo[Len(packets)]

(* Mutant: a part is taken from the thread before the range ends the zip. *)
PullOneTooMany(q, count) ==
    LET existing == Min({count, Len(Unacked(q.packets))})
        n        == Min({count - existing, q.rx})
        pulled   == Min({n + 1, q.rx})
    IN  [q EXCEPT !.packets = @ \o [i \in 1..n |-> UnackedPart(q.next + i - 1)],
                  !.rx = @ - pulled, !.next = @ + pulled]

(* PacketQueue::unacked pulls parts from the thread until `count` unacked  *)
(* ones are in the queue or the thread is done.                            *)
Pull(q, count) ==
    LET existing == Min({count, Len(Unacked(q.packets))})
        n        == Min({count - existing, q.rx})
    IN  [q EXCEPT !.packets = @ \o [i \in 1..n |-> UnackedPart(q.next + i - 1)],
                  !.rx = @ - n, !.next = @ + n]

(* Mutant: one part less than the batch size. *)
BatchOneShort(q, count) ==
    LET unacked == Unacked(q.packets)
    IN  [i \in 1..Min({count - 1, Len(unacked)}) |-> unacked[i].seq]

(* The numbers of the parts that PacketQueue::send_unacked sends. *)
Batch(q, count) ==
    LET unacked == Unacked(q.packets)
    IN  [i \in 1..Min({count, Len(unacked)}) |-> unacked[i].seq]

(* PacketQueue::ack takes the part at position seq_index of what is left   *)
(* of the queue, and drops the acked parts at its front.                   *)
Acked(q, seq) ==
    LET packets == [q.packets EXCEPT ![seq + 1].acked = TRUE]
        n       == Min({i - 1 : i \in {j \in DOMAIN packets : ~packets[j].acked}}
                       \cup {Len(packets)})
    IN  [q EXCEPT !.packets = SubSeq(packets, n + 1, Len(packets)), !.first_unacked = @ + n]

-----------------------------------------------------------------------------
(* PacketOut                                                               *)

(* Twice the last batch when all of it was acked, but never less than      *)
(* before; half of the old size otherwise, but never less than one.        *)
BalanceBatchSize(old, acks, last) ==
    IF acks >= last
    THEN Max({old, Min({2 * last, BatchSizeMax})})
    ELSE Max({old \div 2, 1})

(* The time since last_send, which is None for a packet that is to be      *)
(* given up with a Done.                                                   *)
Canceled(p) == p.last_send = None

Due(p) == ~Canceled(p) /\ p.last_send >= ResendDelay

(* The packet as send_pending has changed it when it starts sending. *)
Prepared(p) ==
    IF Due(p)
    THEN LET size == BalanceBatchSize(p.batch_size, p.last_batch_acks, p.last_batch_size)
         IN  [p EXCEPT !.batch_size = size, !.queue = Pull(@, size)]
    ELSE p

(* What send_pending offers to the socket. *)
Pending(id, p) ==
    LET batch == Batch(Prepared(p).queue, Prepared(p).batch_size)
    IN  IF Canceled(p) \/ (Due(p) /\ batch = <<>>)
        THEN <<DoneDatagram(id)>>
        ELSE IF Due(p) THEN [i \in DOMAIN batch |-> PartDatagram(id, batch[i])] ELSE <<>>

IsDone(datagrams) == Len(datagrams) = 1 /\ datagrams[1].kind = "Done"

(* Mutant: missed acks are not counted. *)
ResentUncounted(p, count) ==
    [Prepared(p) EXCEPT !.last_batch_size = count, !.last_batch_acks = 0, !.last_send = 0]

(* The packet after the socket took the first `count` datagrams. *)
Resent(p, count) ==
    LET missed == p.last_batch_size - Min({p.last_batch_size, p.last_batch_acks})
    IN  [Prepared(p) EXCEPT !.missed_acks = Min({@ + missed, MissedAcksMax}),
                            !.last_batch_size = count,
                            !.last_batch_acks = 0,
                            !.last_send = 0]

(* PacketOut::send_pending, for a packet that stays in the map. *)
SentPending(id, p, count) ==
    IF IsDone(Pending(id, p)) \/ ~Due(p) THEN Prepared(p) ELSE Resent(p, count)

-----------------------------------------------------------------------------
(* SendPacketBuffer                                                        *)

(* How a run of n sends on the socket may go: all succeed, or one would    *)
(* block or fail and the rest is not attempted.                            *)
SocketRuns(n) ==
    {[count |-> n, result |-> "ok"]} \cup
    {[count |-> k, result |-> fault] : k \in 0..(n - 1), fault \in SocketFaults}

SenderInit ==
    /\ outgoing = [id \in {} |-> None]
    /\ batch_size = InitialBatchSize
    /\ drawn = {}
    /\ blocked = {}
    /\ toReceiver = <<>>

(* SendPacketBuffer::send with a new id.  A send that would block leaves   *)
(* last_send at None; one that fails leaves no packet.                     *)
Send(id) ==
    LET queue == Pull(NewPacketQueue(NumParts[id]), batch_size)
        batch == Batch(queue, batch_size)
    IN  /\ id \notin drawn
        /\ drawn' = drawn \cup {id}
        /\ \E run \in SocketRuns(Len(batch)) :
            /\ toReceiver' = Transmit(toReceiver,
                                      [i \in 1..run.count |-> PartDatagram(id, batch[i])])
            /\ outgoing' =
                 IF run.result = "error" THEN outgoing
                 ELSE Insert(outgoing, id,
                        [queue |-> queue, missed_acks |-> 0, batch_size |-> batch_size,
                         last_send |-> IF run.result = "ok" THEN 0 ELSE None,
                         last_batch_size |-> run.count, last_batch_acks |-> 0])
            /\ blocked' = IF run.result = "blocked" THEN blocked \cup {id} ELSE blocked
        /\ UNCHANGED batch_size

(* PacketOut::ack: missed_acks is reset before the part is looked up. *)
AckedPacket(p, seq) ==
    LET heard == [p EXCEPT !.missed_acks = 0]
    IN  IF seq + 1 \notin DOMAIN p.queue.packets \/ p.queue.packets[seq + 1].acked
        THEN heard
        ELSE [heard EXCEPT !.queue = Acked(@, seq),
                           !.last_batch_acks = Min({@ + 1, BatchSizeMax})]

(* Mutant: the id of the ack is not looked at. *)
HandleAckOfAnyPacket(id, seq) ==
    /\ outgoing' = [k \in DOMAIN outgoing |-> AckedPacket(outgoing[k], seq)]
    /\ UNCHANGED <<batch_size, drawn, blocked, toReceiver>>

(* An ack of an unknown packet is an error that changes nothing. *)
HandleAck(id, seq) ==
    /\ outgoing' = IF id \in DOMAIN outgoing
                   THEN [outgoing EXCEPT ![id] = AckedPacket(@, seq)]
                   ELSE outgoing
    /\ UNCHANGED <<batch_size, drawn, blocked, toReceiver>>

(* Mutant: no limit is taken for a limit of none. *)
KeptWithoutLimit == {id \in DOMAIN outgoing : outgoing[id].missed_acks <= MaxMissedAcks}

(* The sender's part of PacketBuffers::update: drop the packets that       *)
(* missed too many acks, then send what is pending, in the order of the    *)
(* ids, until a send fails.  The owner of the buffers drops them after a   *)
(* failure; the next connection starts with new ones.                      *)
Kept == {id \in DOMAIN outgoing :
            MaxMissedAcks = None \/ outgoing[id].missed_acks <= MaxMissedAcks}

(* Mutant: packets that were dropped are counted, too. *)
MeanBatchSizeOfAll ==
    IF Kept = {} THEN batch_size
    ELSE MapThenSumSet(LAMBDA id : outgoing[id].batch_size, Kept)
             \div Cardinality(DOMAIN outgoing)

(* New packets start with the mean batch size of those being sent, as it   *)
(* was before they are sent again.                                         *)
MeanBatchSize ==
    IF Kept = {} THEN batch_size
    ELSE MapThenSumSet(LAMBDA id : outgoing[id].batch_size, Kept) \div Cardinality(Kept)

(* The datagrams taken from the packets up to and including `upTo`. *)
Taken(run, upTo) ==
    FlattenSeq([id \in 1..upTo |->
        IF id \in Kept THEN SubSeq(Pending(id, outgoing[id]), 1, run[id].count) ELSE <<>>])

UpdateOutgoing(run) ==
    LET done == {id \in Kept : IsDone(Pending(id, outgoing[id])) /\ run[id].count = 1}
    IN  /\ \A id \in Kept : run[id].result # "error"
        /\ toReceiver' = Transmit(toReceiver, Taken(run, Max(PacketId)))
        /\ outgoing' = [id \in Kept \ done |-> SentPending(id, outgoing[id], run[id].count)]
        /\ batch_size' = MeanBatchSize
        /\ UNCHANGED <<drawn, blocked>>

UpdateFails(run) ==
    \E id \in Kept :
        /\ run[id].result = "error"
        /\ \A other \in Kept : other < id => run[other].result # "error"
        /\ toReceiver' = Transmit(toReceiver, Taken(run, id))
        /\ outgoing' = [i \in {} |-> None]
        /\ batch_size' = InitialBatchSize
        /\ UNCHANGED <<drawn, blocked>>

UpdateRuns ==
    {run \in [Kept -> UNION {SocketRuns(Len(Pending(id, outgoing[id]))) : id \in Kept}] :
        \A id \in Kept : run[id] \in SocketRuns(Len(Pending(id, outgoing[id])))}

(* Time passes for the sender. *)
AgedOutgoing ==
    [id \in DOMAIN outgoing |->
        [outgoing[id] EXCEPT !.last_send = IF @ = None THEN None ELSE Older(@, ResendDelay)]]

-----------------------------------------------------------------------------
(* Types and what is said about queues                                     *)

OutPart == [seq : Nat, acked : BOOLEAN]

PacketOut ==
    [queue : [packets : Seq(OutPart), first_unacked : Nat, rx : Nat, next : Nat],
     last_send : Nat \cup {None}, missed_acks : 0..MissedAcksMax,
     batch_size : 1..BatchSizeMax, last_batch_size : 0..BatchSizeMax,
     last_batch_acks : 0..BatchSizeMax]

(* Every part of the packet, in order: those that were dropped from the    *)
(* front, those in the queue and those that the thread still has.          *)
Contiguous(id, q) ==
    /\ q.first_unacked + Len(q.packets) = q.next /\ q.next + q.rx = NumParts[id]
    /\ \A i \in DOMAIN q.packets : q.packets[i].seq = q.first_unacked + i - 1
    /\ q.packets # <<>> => ~q.packets[1].acked

(* The parts that the sender will not send again. *)
Settled(q) ==
    0..(q.first_unacked - 1) \cup
    {q.packets[i].seq : i \in {j \in DOMAIN q.packets : q.packets[j].acked}}

=============================================================================
