------------------------------- MODULE Serialize -------------------------------
(***************************************************************************)
(* How a packet is cut into parts: serialize_packet with its two           *)
(* serializers (src/packet/serialize.rs), the PacketBuffer that they fill  *)
(* and the PacketQueue that takes the parts (src/packet/send.rs).          *)
(*                                                                         *)
(* A packet of few parts is serialized by the caller.  If it turns out to  *)
(* have more, a thread is spawned that hands over the parts that are       *)
(* finished, serializes the packet once more, skips what was handed over   *)
(* and offers the rest, one part at a time.  Serializing a value is a      *)
(* sequence of writes, the same each time; bytes are numbered from 1, and  *)
(* 0 stands for a byte of a buffer that was skipped and never written.     *)
(***************************************************************************)
EXTENDS Integers, Sequences, FiniteSets, FiniteSetsExt

CONSTANTS
    Values,       \* the values, as sequences of the lengths of their writes
    Thresholds,   \* values of ConnectionConfig::background_serialization_threshold
    PayloadSize,  \* PACKET_BUFFER_SIZE - HEADER_LEN
    MaxBatch      \* bound: parts that are missing for a batch

ASSUME ValuesAssumption == Values \subseteq Seq(Nat)

ASSUME SizesAssumption == Thresholds \subseteq Nat /\ PayloadSize \in Nat \ {0} /\ MaxBatch \in Nat

VARIABLES
    value,      \* the value to send
    threshold,  \* background_serialization_threshold
    control,    \* who serializes, and how far it is
    writes,     \* what is left of the writes; the first one is going on
    pos,        \* how many bytes of the value were taken
    buf,        \* VecPacketSerializer::buf, then already_serialized
    part,       \* ChannelPacketSerializer::buf
    skip,       \* ChannelPacketSerializer::skip
    packets,    \* every part that PacketQueue::packets got
    want,       \* how many parts PacketQueue::unacked waits for
    dropped     \* the receiver of the channel is gone

thread == <<writes, pos, part, skip>>
vars == <<value, threshold, control, thread, buf, packets, want, dropped>>

-----------------------------------------------------------------------------
(* PacketBuffer                                                            *)

EmptyPart(seq) == [kind |-> "Part", seq |-> seq, data |-> <<>>]

MarkLast(b) == [b EXCEPT !.kind = "LastPart"]

Full(b) == Len(b.data) = PayloadSize

(* Mutant: the space that is left is not looked at. *)
FittingAnyway(b) == writes[1]

(* How much of the current write fits into the buffer. *)
Fitting(b) == Min({writes[1], PayloadSize - Len(b.data)})

AppendTo(b) == [b EXCEPT !.data = @ \o [i \in 1..Fitting(b) |-> pos + i]]

SkipIn(b) == [b EXCEPT !.data = @ \o [i \in 1..Fitting(b) |-> 0]]

(* PacketBuffer::next and PacketBuffer::new_next. *)
NextPart(b) == EmptyPart(b.seq + 1)

-----------------------------------------------------------------------------
(* Without a threshold, nothing is serialized before the thread. *)
Init ==
    /\ value \in Values
    /\ threshold \in Thresholds
    /\ control = IF threshold = 0 THEN "handing" ELSE "vec"
    /\ writes = value
    /\ pos = 0
    /\ buf = IF threshold = 0 THEN <<>> ELSE <<EmptyPart(0)>>
    /\ part = EmptyPart(0)
    /\ skip = 0
    /\ packets = <<>>
    /\ want = 0
    /\ dropped = FALSE

-----------------------------------------------------------------------------
(* The loop in `write`: one action per way through its body                *)

Writing == writes # <<>> /\ writes[1] > 0

(* As much of the write as fits goes into the buffer b. *)
Consume(b) ==
    /\ Writing /\ ~Full(b)
    /\ writes' = [writes EXCEPT ![1] = @ - Fitting(b)]
    /\ pos' = pos + Fitting(b)

EndOfWrite ==
    /\ control \in {"vec", "writing"}
    /\ writes # <<>> /\ writes[1] = 0
    /\ writes' = Tail(writes)
    /\ UNCHANGED <<value, threshold, control, pos, buf, part, skip, packets, want, dropped>>

LastBuf == buf[Len(buf)]

(* VecPacketSerializer::write *)
VecAppend ==
    /\ control = "vec"
    /\ Consume(LastBuf)
    /\ buf' = [buf EXCEPT ![Len(buf)] = AppendTo(@)]
    /\ UNCHANGED <<value, threshold, control, part, skip, packets, want, dropped>>

VecNext ==
    /\ control = "vec" /\ Writing /\ Full(LastBuf)
    /\ Len(buf) # threshold
    /\ buf' = Append(buf, NextPart(LastBuf))
    /\ UNCHANGED <<value, threshold, control, thread, packets, want, dropped>>

(* Mutants: one part too few or too many is skipped. *)
SkipOneLess == Len(buf) - 1
SkipOneMore == Len(buf) + 1

(* already_serialized.len(): the parts that the thread need not repeat. *)
SkipCount == Len(buf)

(* Mutant: the thread is spawned as soon as the last part is full. *)
VecLimitWhenFull ==
    /\ control = "vec" /\ Full(LastBuf)
    /\ Len(buf) = threshold
    /\ control' = "handing"
    /\ skip' = SkipCount
    /\ writes' = value
    /\ pos' = 0
    /\ UNCHANGED <<value, threshold, buf, part, packets, want, dropped>>

(* There are more bytes than the parts up to the threshold can hold: the   *)
(* thread is spawned and starts over.                                      *)
VecLimit ==
    /\ control = "vec" /\ Writing /\ Full(LastBuf)
    /\ Len(buf) = threshold
    /\ control' = "handing"
    /\ skip' = SkipCount
    /\ writes' = value
    /\ pos' = 0
    /\ UNCHANGED <<value, threshold, buf, part, packets, want, dropped>>

(* serialize_packet returns SerializedPacket::Vec. *)
VecDone ==
    /\ control = "vec" /\ writes = <<>>
    /\ control' = "returned"
    /\ packets' = [buf EXCEPT ![Len(buf)] = MarkLast(@)]
    /\ UNCHANGED <<value, threshold, thread, buf, want, dropped>>

-----------------------------------------------------------------------------
(* The thread.  A send on the rendezvous channel happens together with the *)
(* receive, or fails once the receiver was dropped.                        *)

HandOver(b) ==
    /\ want > 0
    /\ want' = want - 1
    /\ packets' = Append(packets, b)

HandSerialized ==
    /\ control = "handing" /\ buf # <<>>
    /\ HandOver(Head(buf))
    /\ buf' = Tail(buf)
    /\ UNCHANGED <<value, threshold, control, thread, dropped>>

StartChannel ==
    /\ control = "handing" /\ buf = <<>>
    /\ control' = "writing"
    /\ UNCHANGED <<value, threshold, thread, buf, packets, want, dropped>>

(* ChannelPacketSerializer::write *)
ChannelAppend ==
    /\ control = "writing"
    /\ Consume(part)
    /\ part' = IF skip > 0 THEN SkipIn(part) ELSE AppendTo(part)
    /\ UNCHANGED <<value, threshold, control, buf, skip, packets, want, dropped>>

ChannelSkip ==
    /\ control = "writing" /\ Writing /\ Full(part)
    /\ skip > 0
    /\ skip' = skip - 1
    /\ part' = NextPart(part)
    /\ UNCHANGED <<value, threshold, control, writes, pos, buf, packets, want, dropped>>

ChannelSend ==
    /\ control = "writing" /\ Writing /\ Full(part)
    /\ skip = 0
    /\ HandOver(part)
    /\ part' = NextPart(part)
    /\ UNCHANGED <<value, threshold, control, writes, pos, buf, skip, dropped>>

(* Serialized; the thread panics if parts are still to be skipped. *)
ChannelDone ==
    /\ control = "writing" /\ writes = <<>>
    /\ IF skip # 0
       THEN control' = "panicked" /\ UNCHANGED part
       ELSE control' = "last" /\ part' = MarkLast(part)
    /\ UNCHANGED <<value, threshold, writes, pos, buf, skip, packets, want, dropped>>

SendLast ==
    /\ control = "last"
    /\ HandOver(part)
    /\ control' = "ended"
    /\ UNCHANGED <<value, threshold, thread, buf, dropped>>

(* The thread is at a call of send. *)
AtSend ==
    \/ control = "handing" /\ buf # <<>>
    \/ control = "writing" /\ Writing /\ Full(part) /\ skip = 0
    \/ control = "last"

(* Mutant: the send is tried again. *)
ReceiverDroppedRetry == AtSend /\ dropped /\ UNCHANGED vars

ReceiverDropped ==
    /\ AtSend /\ dropped
    /\ control' = "ended"
    /\ UNCHANGED <<value, threshold, thread, buf, packets, want, dropped>>

Thread ==
    \/ HandSerialized
    \/ StartChannel
    \/ ChannelAppend
    \/ ChannelSkip
    \/ ChannelSend
    \/ ChannelDone
    \/ SendLast
    \/ ReceiverDropped

-----------------------------------------------------------------------------
(* PacketQueue                                                             *)

HasChannel == control \notin {"vec", "returned"} /\ ~dropped

(* PacketQueue::unacked needs n more parts for its batch, and blocks. *)
Pull(n) ==
    /\ HasChannel /\ want = 0
    /\ want' = n
    /\ UNCHANGED <<value, threshold, control, thread, buf, packets, dropped>>

(* Mutant: another sender keeps the channel open. *)
PullEndsNever == want > 0 /\ control = "panicked" /\ UNCHANGED vars

(* The iterator over the channel ends with the thread. *)
PullEnds ==
    /\ want > 0
    /\ control \in {"ended", "panicked"}
    /\ want' = 0
    /\ UNCHANGED <<value, threshold, control, thread, buf, packets, dropped>>

(* The packet is done, given up, or dropped with its buffers. *)
DropPacket ==
    /\ HasChannel /\ want = 0
    /\ dropped' = TRUE
    /\ UNCHANGED <<value, threshold, control, thread, buf, packets, want>>

Next ==
    \/ EndOfWrite
    \/ VecAppend
    \/ VecNext
    \/ VecLimit
    \/ VecDone
    \/ Thread
    \/ \E n \in 1..MaxBatch : Pull(n)
    \/ PullEnds
    \/ DropPacket

Spec == Init /\ [][Next]_vars

(* The serializing thread is scheduled, and so is the program. *)
FairSpec == Spec /\ WF_vars(Thread) /\ WF_vars(EndOfWrite) /\ WF_vars(PullEnds)

-----------------------------------------------------------------------------
(* Properties                                                              *)

PartType ==
    [kind : {"Part", "LastPart"}, seq : Nat, data : Seq(Nat)]

(* Type correctness; a buffer never holds more than fits. *)
TypeOK ==
    /\ control \in {"vec", "returned", "handing", "writing", "last", "ended", "panicked"}
    /\ writes \in Seq(Nat)
    /\ pos \in Nat
    /\ buf \in Seq(PartType) /\ \A i \in DOMAIN buf : Len(buf[i].data) <= PayloadSize
    /\ part \in PartType /\ Len(part.data) <= PayloadSize
    /\ skip \in Nat
    /\ packets \in Seq(PartType)
    /\ want \in Nat
    /\ dropped \in BOOLEAN

(* The bytes of writes w: the j-th one of the i-th write. *)
Bytes(w) == UNION {{i} \X (1..w[i]) : i \in DOMAIN w}

(* The reference: bytes 1..n cut into parts of PayloadSize, at least one. *)
Total == Cardinality(Bytes(value))

NumberOfParts == Max({1, (Total + PayloadSize - 1) \div PayloadSize})

ReferencePart(i) ==
    [kind |-> IF i = NumberOfParts THEN "LastPart" ELSE "Part",
     seq  |-> i - 1,
     data |-> [k \in 1..Min({PayloadSize, Total - (i - 1) * PayloadSize}) |->
                 (i - 1) * PayloadSize + k]]

(* The queue gets the parts of the packet in order, whole and with the     *)
(* right numbers, across the change from the caller to the thread, and all *)
(* of them unless it stops taking them.                                    *)
PartsAreExact ==
    /\ Len(packets) <= NumberOfParts
    /\ \A i \in DOMAIN packets : packets[i] = ReferencePart(i)
    /\ control \in {"returned", "ended"} /\ ~dropped => Len(packets) = NumberOfParts

(* The caller serializes the packets of up to threshold parts itself, and  *)
(* no others: "Serializes up to `background_serialization_threshold`       *)
(* packets into a Vec".                                                    *)
ThresholdIsExact ==
    /\ control = "returned" => NumberOfParts <= threshold
    /\ control \notin {"vec", "returned"} => NumberOfParts > threshold

(* The second serialization comes as far as the first one did: when it is  *)
(* over, the thread's assertion that nothing is left to be skipped holds.  *)
NoPanic == control # "panicked"

(* PacketQueue::unacked blocks the program only until the thread has made  *)
(* the parts, or has no more of them.                                      *)
PullReturns == want > 0 ~> want = 0

(* A packet that is dropped early does not leave its thread behind. *)
ThreadEnds == dropped ~> control = "ended"

=============================================================================
