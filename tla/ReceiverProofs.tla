---------------------------- MODULE ReceiverProofs ----------------------------
(***************************************************************************)
(* Proofs about the Receiver, for every set of packets of any sizes, every *)
(* DrainUnit and every timeout.  The inductive invariant is                *)
(* ReceiverTypeOK /\ ChunksAreTracked.                                     *)
(***************************************************************************)
EXTENDS Receiver, LibraryFacts, FiniteSetTheorems, TLAPS

-----------------------------------------------------------------------------
(* Helpers                                                                 *)

(* Rounding down to a multiple does not make a number negative or larger.  *)
LEMMA RoundedDown ==
    ASSUME NEW n \in Nat, NEW u \in Nat \ {0}
    PROVE  (n \div u) * u \in 0..n
  BY SMT

(* The lowest missing chunk exists, and everything below it is there.      *)
LEMMA FirstZeroFound ==
    ASSUME NEW chunks \in SUBSET Nat, IsFiniteSet(chunks), NEW start \in Nat
    PROVE  /\ FirstZero(chunks, start) \in Nat
           /\ FirstZero(chunks, start) >= start
           /\ \A d \in start..(FirstZero(chunks, start) - 1) : d \in chunks
<1> DEFINE range == start..(start + Cardinality(chunks))
           holes == {c \in range : c \notin chunks}
<1>1. Cardinality(chunks) \in Nat
  BY FS_CardinalityType
<1>2. holes # {}
  <2>1. SUFFICES ASSUME holes = {} PROVE FALSE
    OBVIOUS
  <2>2. range \in SUBSET chunks
    BY <2>1
  <2>3. Cardinality(range) <= Cardinality(chunks)
    BY <2>2, FS_Subset
  <2>4. Cardinality(range) = Cardinality(chunks) + 1
    BY <1>1, FS_Interval
  <2> QED
    BY <1>1, <2>3, <2>4
<1>3. holes \subseteq Nat
  BY <1>1
<1>4. PICK c \in holes : \A d \in holes : ~(<<d, c>> \in OpToRel(<, Nat))
  BY <1>2, <1>3, WFMin, NatLessThanWellFounded
<1>5. \A d \in start..(c - 1) : d \in chunks
  <2> SUFFICES ASSUME NEW d \in start..(c - 1), d \notin chunks PROVE FALSE
    OBVIOUS
  <2>1. d \in holes /\ d < c /\ d \in Nat /\ c \in Nat
    BY <1>1
  <2>2. <<d, c>> \in OpToRel(<, Nat)
    BY <2>1 DEF OpToRel
  <2> QED
    BY <1>4, <2>1, <2>2
<1>6. \E x \in range : x \notin chunks /\ \A d \in start..(x - 1) : d \in chunks
  BY <1>5
<1>7. FirstZero(chunks, start) \in range /\ \A d \in start..(FirstZero(chunks, start) - 1) : d \in chunks
  BY <1>6 DEF FirstZero
<1> QED
  BY <1>1, <1>7

(* The parts of a packet form a finite set. *)
LEMMA PartsFinite ==
    ASSUME NEW id \in PacketId
    PROVE  /\ NumParts[id] \in Nat \ {0}
           /\ IsFiniteSet(Parts(id))
           /\ Cardinality(Parts(id)) = NumParts[id]
<1>1. NumParts[id] \in Nat \ {0}
  BY NumPartsAssumption
<1>2. 0 \in Int /\ NumParts[id] - 1 \in Int /\ NumParts[id] - 1 >= 0
  BY <1>1
<1>3. /\ IsFiniteSet(0..(NumParts[id] - 1))
      /\ Cardinality(0..(NumParts[id] - 1)) = NumParts[id] - 1 - 0 + 1
  BY <1>2, FS_Interval
<1> QED
  BY <1>1, <1>3 DEF Parts

(* What is drained was received. *)
LEMMA DrainedWereReceived ==
    ASSUME NEW id \in PacketId, NEW chunks \in SUBSET Parts(id), NEW start \in 0..NumParts[id]
    PROVE  /\ DrainBoundary(chunks, start) \in 0..(NumParts[id] - start)
           /\ start..(start + DrainBoundary(chunks, start) - 1) \subseteq chunks
<1> DEFINE zero == FirstZero(chunks, start)
<1>1. NumParts[id] \in Nat /\ start \in Nat /\ chunks \in SUBSET Nat /\ IsFiniteSet(chunks)
  <2>1. NumParts[id] \in Nat /\ IsFiniteSet(Parts(id))
    BY PartsFinite
  <2>2. IsFiniteSet(chunks)
    BY <2>1, FS_Subset
  <2> QED
    BY <2>1, <2>2 DEF Parts
<1>2. /\ zero \in Nat
      /\ zero >= start
      /\ \A d \in start..(zero - 1) : d \in chunks
  BY <1>1, FirstZeroFound
<1>3. zero <= NumParts[id]
  <2>1. CASE zero = start
    BY <2>1, <1>1
  <2>2. CASE zero > start
    <3>1. zero - 1 \in chunks
      BY <1>1, <1>2, <2>2
    <3> QED
      BY <1>1, <1>2, <3>1 DEF Parts
  <2> QED
    BY <1>1, <1>2, <2>1, <2>2
<1>4. DrainBoundary(chunks, start) \in 0..(zero - start)
  <2> zero - start \in Nat
    BY <1>1, <1>2
  <2> QED
    BY DrainUnitAssumption, RoundedDown DEF DrainBoundary
<1> HIDE DEF zero
<1> QED
  BY <1>1, <1>2, <1>3, <1>4

-----------------------------------------------------------------------------
(* ReassembledPacket::receive                                              *)

(* A part that is new to the entry of a packet that is not complete.  The  *)
(* result is Reassembled exactly when the part was the last missing one.   *)
LEMMA ReassembleCorrect ==
    ASSUME NEW id \in PacketId, NEW seq \in Parts(id), NEW e \in Entry(id),
           ~e.single, Tracked(id, e)
    PROVE  LET r == Reassemble(e, seq = LastPart(id), seq)
           IN  /\ r.result \in {"Panic", "Duplicate", "Reassembled", "Pending"}
               /\ r.entry \in Entry(id)
               /\ Tracked(id, r.entry)
               /\ r.entry.payload = IF r.result \in {"Panic", "Duplicate"}
                                    THEN e.payload ELSE e.payload \cup {seq}
               /\ r.result \in {"Reassembled", "Pending"} => e.payload # Parts(id)
               /\ r.result = "Reassembled" <=>
                    r.result \notin {"Panic", "Duplicate"} /\ r.entry.payload = Parts(id)
<1> DEFINE last      == seq = LastPart(id)
           r         == Reassemble(e, last, seq)
           max_index == IF last THEN seq ELSE e.max_index
           chunks    == e.received_chunks \cup {seq}
           pending   == e.first_pending + DrainBoundary(chunks, e.first_pending)
           complete  == e.received_count = max_index
<1> USE DEF None
<1>1. /\ NumParts[id] \in Nat \ {0}
      /\ IsFiniteSet(Parts(id))
      /\ Cardinality(Parts(id)) = NumParts[id]
  BY PartsFinite
<1>2. /\ e.received_chunks \subseteq Parts(id) /\ e.payload \subseteq Parts(id)
      /\ e.first_pending \in 0..NumParts[id]
      /\ e.received_count \in Nat
      /\ e.max_index \in {None, LastPart(id)}
      /\ e.age \in Nat
  BY DEF Entry
<1>3. max_index \in {None, LastPart(id)}
  BY <1>2
<1>4. CASE seq < e.first_pending
  <2>1. r = [entry |-> e, result |-> "Panic"]
    BY <1>4 DEF Reassemble, MaxIndex, Completes
  <2> QED
    BY <2>1
<1>5. CASE ~(seq < e.first_pending) /\ seq \in e.received_chunks
  <2>1. r = [entry |-> [e EXCEPT !.max_index = max_index], result |-> "Duplicate"]
    BY <1>5 DEF Reassemble, MaxIndex, Completes
  <2>2. r.entry \in Entry(id)
    BY <2>1, <1>3 DEF Entry
  <2>3. max_index # None <=> LastPart(id) \in e.payload
    BY <1>1, <1>2, <1>5 DEF Tracked, LastPart
  <2>4. Tracked(id, r.entry)
    BY <2>1, <2>3 DEF Tracked, Entry
  <2> QED
    BY <2>1, <2>2, <2>4 DEF Entry
<1>6. CASE ~(seq < e.first_pending) /\ seq \notin e.received_chunks
  <2> DEFINE new == [e EXCEPT !.max_index = max_index,
                              !.first_pending = pending,
                              !.received_chunks = {c \in chunks : c >= pending},
                              !.payload = @ \cup {seq},
                              !.received_count = IF complete THEN @ ELSE @ + 1]
  <2>1. r = [entry |-> new, result |-> IF complete THEN "Reassembled" ELSE "Pending"]
    BY <1>6 DEF Reassemble, MaxIndex, Completes
  <2>2. seq \notin e.payload
    BY <1>2, <1>6 DEF Tracked, Parts
  <2>3. e.payload # Parts(id) /\ Cardinality(e.payload) = e.received_count
    BY <2>2 DEF Tracked
  <2>4. Cardinality(e.payload \cup {seq}) = e.received_count + 1
    BY <1>1, <1>2, <2>2, <2>3, FS_Subset, FS_AddElement
  <2>5. e.payload \cup {seq} = Parts(id) <=> e.received_count = LastPart(id)
    <3>1. e.payload \cup {seq} \in SUBSET Parts(id)
      BY <1>2
    <3>2. Cardinality(Parts(id)) = Cardinality(e.payload \cup {seq})
            => Parts(id) = e.payload \cup {seq}
      BY <1>1, <3>1, FS_Subset
    <3>3. LastPart(id) \in Nat /\ Cardinality(Parts(id)) = LastPart(id) + 1
      BY <1>1 DEF LastPart
    <3> QED
      BY <1>2, <2>4, <3>2, <3>3
  <2>6. max_index # None <=> LastPart(id) \in e.payload \cup {seq}
    BY <1>1, <1>2 DEF Tracked, LastPart
  <2>7. complete <=> e.payload \cup {seq} = Parts(id)
    BY <1>1, <1>2, <1>3, <2>5, <2>6 DEF LastPart, Parts
  <2>8. /\ pending \in e.first_pending..NumParts[id]
        /\ e.first_pending..(pending - 1) \subseteq chunks
    <3>1. chunks \in SUBSET Parts(id) /\ e.first_pending \in 0..NumParts[id]
      BY <1>2
    <3> HIDE DEF chunks
    <3>2. DrainBoundary(chunks, e.first_pending) \in 0..(NumParts[id] - e.first_pending)
      BY <3>1, DrainedWereReceived
    <3>3. e.first_pending..(pending - 1) \subseteq chunks
      BY <3>1, DrainedWereReceived
    <3> QED
      BY <1>1, <3>1, <3>2, <3>3
  <2> HIDE DEF pending, complete, max_index
  <2>9. new \in Entry(id)
    <3>1. {c \in chunks : c >= pending} \subseteq Parts(id)
      BY <1>2
    <3>2. pending \in 0..NumParts[id]
      BY <1>1, <1>2, <2>8
    <3>3. e.payload \cup {seq} \subseteq Parts(id)
      BY <1>2
    <3>4. (IF complete THEN e.received_count ELSE e.received_count + 1) \in Nat
      BY <1>2
    <3> QED
      BY <1>3, <3>1, <3>2, <3>3, <3>4 DEF Entry
  <2>10. new.payload = 0..(new.first_pending - 1) \cup new.received_chunks
    <3>1. e.payload \cup {seq} = 0..(e.first_pending - 1) \cup chunks
      BY DEF Tracked
    <3>2. 0..(e.first_pending - 1) \cup chunks = 0..(pending - 1) \cup {c \in chunks : c >= pending}
      BY <1>1, <1>2, <2>8 DEF Parts
    <3> QED
      BY <3>1, <3>2 DEF Entry
  <2>11. Tracked(id, new)
    <3> HIDE DEF chunks
    <3> USE DEF Entry
    <3>1. new.single = e.single /\ new.max_index = max_index /\ new.payload = e.payload \cup {seq}
      OBVIOUS
    <3>2. \A c \in new.received_chunks : c >= new.first_pending
      OBVIOUS
    <3>3. new.received_count = IF complete THEN e.received_count ELSE e.received_count + 1
      OBVIOUS
    <3> QED
      BY <3>1, <3>2, <3>3, <2>10, <2>4, <2>6, <2>7 DEF Tracked
  <2>12. new.payload = e.payload \cup {seq}
    BY DEF Entry
  <2> HIDE DEF new
  <2> QED
    BY <2>1, <2>3, <2>7, <2>9, <2>11, <2>12
<1> HIDE DEF r, last
<1> QED
  BY <1>4, <1>5, <1>6 DEF r, last

-----------------------------------------------------------------------------
(* ReceivePacketBuffer::receive                                            *)

IInv == ReceiverTypeOK /\ ChunksAreTracked

(* What handling a part leaves in the map and reports: the entry is well   *)
(* formed, nothing is lost from its payload, and the packet is reassembled *)
(* exactly when the part was the last missing one.                         *)
LEMMA ReceiveCorrect ==
    ASSUME IInv, NEW id \in PacketId, NEW seq \in Parts(id)
    PROVE  LET r      == Receive(seq = LastPart(id), id, seq)
               before == IF id \in DOMAIN incoming THEN incoming[id].payload ELSE {}
           IN  /\ r.result \in {"Panic", "Duplicate", "Reassembled", "Pending"}
               /\ r.entry \in Entry(id)
               /\ Tracked(id, r.entry)
               /\ r.result \in {"Panic", "Duplicate"} => r.entry.payload = before
               /\ r.result \in {"Reassembled", "Pending"} => before # Parts(id)
               /\ r.result = "Reassembled" => r.entry.payload = Parts(id)
               /\ r.result = "Pending" => r.entry.payload # Parts(id)
<1> DEFINE last   == seq = LastPart(id)
           r      == Receive(last, id, seq)
           before == IF id \in DOMAIN incoming THEN incoming[id].payload ELSE {}
           e      == IF id \in DOMAIN incoming THEN [incoming[id] EXCEPT !.age = 0]
                                                ELSE NewPacketIn(FALSE)
<1>1. NumParts[id] \in Nat \ {0} /\ seq \in Nat /\ (last /\ seq = 0 <=> NumParts[id] = 1)
  <2>1. NumParts[id] \in Nat \ {0}
    BY PartsFinite
  <2> QED
    BY <2>1 DEF Parts, LastPart
<1>2. id \in DOMAIN incoming => incoming[id] \in Entry(id) /\ Tracked(id, incoming[id])
  BY DEF IInv, ReceiverTypeOK, ChunksAreTracked
<1>3. CASE NumParts[id] = 1
  <2>1. Parts(id) = {0} /\ LastPart(id) = 0
    BY <1>3 DEF Parts, LastPart
  <2>2. CASE id \notin DOMAIN incoming
    <3> DEFINE new == NewPacketIn(TRUE)
    <3>1. r = [entry |-> new, result |-> "Reassembled"]
      BY <1>1, <1>3, <2>2 DEF Receive, ReceiveOnlyPart
    <3>2. new \in Entry(id) /\ new.payload = {0} /\ new.single
      BY <2>1, <1>3 DEF Entry, NewPacketIn
    <3>3. Tracked(id, new)
      BY <1>3, <2>1, <3>2 DEF Tracked
    <3> HIDE DEF new
    <3> QED
      BY <2>1, <2>2, <3>1, <3>2, <3>3
  <2>3. CASE id \in DOMAIN incoming
    <3>1. incoming[id].single
      BY <1>2, <1>3, <2>3 DEF Tracked
    <3>2. r = [entry |-> incoming[id], result |-> "Duplicate"]
      BY <1>1, <1>3, <2>3, <3>1 DEF Receive, ReceiveOnlyPart
    <3> QED
      BY <1>2, <2>3, <3>2
  <2> QED
    BY <2>2, <2>3
<1>4. CASE NumParts[id] # 1
  <2>1. e \in Entry(id) /\ ~e.single /\ Tracked(id, e) /\ e.payload = before
    <3>1. CASE id \in DOMAIN incoming
      <4>1. ~incoming[id].single
        BY <1>2, <1>4, <3>1 DEF Tracked
      <4> QED
        BY <1>2, <3>1, <4>1 DEF Entry, Tracked
    <3>2. CASE id \notin DOMAIN incoming
      <4> DEFINE new == NewPacketIn(FALSE)
      <4>1. /\ new.payload = {} /\ new.received_chunks = {} /\ new.first_pending = 0
            /\ new.received_count = 0 /\ new.max_index = None /\ ~new.single
        BY DEF NewPacketIn
      <4>2. new \in Entry(id)
        BY <1>1 DEF NewPacketIn, Entry
      <4>3. Parts(id) # {} /\ 0..(0 - 1) = {}
        BY <1>1 DEF Parts
      <4>4. Tracked(id, new)
        BY <1>4, <4>1, <4>3, FS_EmptySet DEF Tracked
      <4> QED
        BY <3>2, <4>1, <4>2, <4>4
    <3> QED
      BY <3>1, <3>2
  <2>2. r = Reassemble(e, last, seq)
    BY <1>1, <1>4, <2>1 DEF Receive, ReceiveOnlyPart
  <2> HIDE DEF e, r, before
  <2>3. /\ r.result \in {"Panic", "Duplicate", "Reassembled", "Pending"}
        /\ r.entry \in Entry(id)
        /\ Tracked(id, r.entry)
        /\ r.entry.payload = IF r.result \in {"Panic", "Duplicate"}
                             THEN e.payload ELSE e.payload \cup {seq}
        /\ r.result \in {"Reassembled", "Pending"} => e.payload # Parts(id)
        /\ r.result = "Reassembled" <=>
             r.result \notin {"Panic", "Duplicate"} /\ r.entry.payload = Parts(id)
    BY <2>1, <2>2, ReassembleCorrect
  <2> QED
    BY <2>1, <2>3 DEF r, before
<1> HIDE DEF r, before
<1> QED
  BY <1>1, <1>3, <1>4 DEF r, before

-----------------------------------------------------------------------------
(* The network                                                             *)

Acks == [kind : {"Ack"}, id : PacketId, seq : Nat]

(* Sending an ack appends it, or drops it when the network is full.        *)
LEMMA TransmitType ==
    ASSUME NEW channel \in Seq(Acks), NEW ack \in Acks
    PROVE  Transmit(channel, <<ack>>) \in Seq(Acks)
<1> DEFINE all == channel \o <<ack>>
           len == Min({Len(all), Capacity})
<1>1. all \in Seq(Acks) /\ Len(all) \in Nat
  OBVIOUS
<1> HIDE DEF all
<1>2. len \in Nat /\ len <= Len(all)
  <2>1. \E x \in {Len(all), Capacity} : \A y \in {Len(all), Capacity} : x <= y
    BY <1>1, CapacityAssumption
  <2> QED
    BY <1>1, <2>1, CapacityAssumption DEF Min
<1> HIDE DEF len
<1>3. SubSeq(all, 1, len) \in Seq(Acks)
  BY <1>1, <1>2
<1> QED
  BY <1>3 DEF Transmit, all, len

-----------------------------------------------------------------------------
(* The inductive invariant                                                 *)

(* The receiver starts with an empty map.                                  *)
LEMMA InitInv == ReceiverInit => IInv
<1> SUFFICES ASSUME ReceiverInit PROVE IInv
  OBVIOUS
<1> USE DEF ReceiverInit
<1>1. DOMAIN incoming = {} /\ toSender \in Seq(Acks)
  OBVIOUS
<1>2. 0 \in 0..DeliveredMax
  BY DeliveredMaxAssumption
<1>3. /\ delivered \in [PacketId -> 0..DeliveredMax]
      /\ DOMAIN handed = PacketId /\ DOMAIN arrived = PacketId
      /\ \A id \in PacketId : handed[id] = {} /\ arrived[id] = {}
      /\ failed = {}
      /\ panicked \in BOOLEAN
  BY <1>2
<1> QED
  BY <1>1, <1>3 DEF IInv, ReceiverTypeOK, ChunksAreTracked, Acks

(* Handling a part keeps the invariant: the entry it leaves is correct by  *)
(* ReceiveCorrect and no other entry changes.                              *)
LEMMA HandlePartInv ==
    ASSUME IInv, NEW id \in PacketId, NEW seq \in Parts(id), NEW ack \in AckResults,
           HandlePart(id, seq, ack)
    PROVE  IInv'
<1> DEFINE got == Receive(seq = LastPart(id), id, seq)
<1>1. /\ got.entry \in Entry(id) /\ Tracked(id, got.entry)
      /\ got.result \notin {"Mismatch"}
  BY ReceiveCorrect
<1>2. seq \in Nat
  BY PartsFinite DEF Parts
<1>3. /\ incoming' = Insert(incoming, id, got.entry)
      /\ panicked' = (got.result = "Panic")
      /\ toSender' \in {toSender, Transmit(toSender, <<AckDatagram(id, seq)>>)}
      /\ arrived' \in {arrived, [arrived EXCEPT ![id] = @ \cup {seq}]}
      /\ delivered' \in {delivered, [delivered EXCEPT ![id] = Older(@, DeliveredMax)]}
      /\ handed' \in {handed, [handed EXCEPT ![id] = @ \cup {got.entry.payload}]}
      /\ failed' \in {failed, failed \cup {id}}
  BY DEF HandlePart, Delivers
<1> HIDE DEF got
<1>4. /\ DOMAIN incoming' = DOMAIN incoming \cup {id}
      /\ \A k \in DOMAIN incoming' : incoming'[k] = IF k = id THEN got.entry ELSE incoming[k]
  BY <1>3 DEF Insert
<1>5. /\ DOMAIN incoming' \subseteq PacketId
      /\ \A k \in DOMAIN incoming' : incoming'[k] \in Entry(k)
      /\ ChunksAreTracked'
  BY <1>1, <1>4 DEF IInv, ReceiverTypeOK, ChunksAreTracked
<1>6. toSender' \in Seq(Acks)
  <2>1. AckDatagram(id, seq) \in Acks
    BY <1>2 DEF AckDatagram, Acks
  <2>2. toSender \in Seq(Acks)
    BY DEF IInv, ReceiverTypeOK, Acks
  <2>3. Transmit(toSender, <<AckDatagram(id, seq)>>) \in Seq(Acks)
    BY <2>1, <2>2, TransmitType
  <2> QED
    BY <1>3, <2>2, <2>3
<1>7. delivered' \in [PacketId -> 0..DeliveredMax]
  <2>1. \A n \in 0..DeliveredMax : Older(n, DeliveredMax) \in 0..DeliveredMax
    BY DeliveredMaxAssumption DEF Older
  <2>2. delivered \in [PacketId -> 0..DeliveredMax]
    BY DEF IInv, ReceiverTypeOK
  <2>3. Older(delivered[id], DeliveredMax) \in 0..DeliveredMax
    BY <2>1, <2>2
  <2>4. [delivered EXCEPT ![id] = Older(@, DeliveredMax)] \in [PacketId -> 0..DeliveredMax]
    BY <2>2, <2>3
  <2> QED
    BY <1>3, <2>2, <2>4
<1>8. /\ DOMAIN handed' = PacketId /\ DOMAIN arrived' = PacketId
      /\ \A k \in PacketId : arrived'[k] \subseteq Parts(k)
  BY <1>3 DEF IInv, ReceiverTypeOK
<1>9. \A k \in PacketId : handed'[k] \subseteq SUBSET Parts(k)
  <2>1. got.entry.payload \in SUBSET Parts(id)
    BY <1>1 DEF Entry
  <2>2. DOMAIN handed = PacketId /\ \A k \in PacketId : handed[k] \subseteq SUBSET Parts(k)
    BY DEF IInv, ReceiverTypeOK
  <2>3. CASE handed' = handed
    BY <2>2, <2>3
  <2>4. CASE handed' = [handed EXCEPT ![id] = @ \cup {got.entry.payload}]
    <3>1. handed'[id] = handed[id] \cup {got.entry.payload}
      BY <2>2, <2>4
    <3>2. \A k \in PacketId : k # id => handed'[k] = handed[k]
      BY <2>2, <2>4
    <3>3. handed'[id] \subseteq SUBSET Parts(id)
      BY <2>1, <2>2, <3>1, Zenon
    <3> QED
      BY <2>2, <3>2, <3>3
  <2> QED
    BY <1>3, <2>3, <2>4
<1>10. panicked' \in BOOLEAN
  BY <1>3
<1>11. failed' \subseteq PacketId
  BY <1>3, Zenon DEF IInv, ReceiverTypeOK
<1> QED
  BY <1>5, <1>6, <1>7, <1>8, <1>9, <1>10, <1>11 DEF IInv, ReceiverTypeOK, Acks

(* Forgetting ids keeps the invariant.                                     *)
LEMMA ForgetInv ==
    ASSUME IInv, NEW K, incoming' = Without(incoming, K),
           UNCHANGED <<toSender, delivered, handed, arrived, failed, panicked>>
    PROVE  IInv'
<1>1. /\ DOMAIN incoming' = DOMAIN incoming \ K
      /\ \A k \in DOMAIN incoming' : incoming'[k] = incoming[k]
  BY DEF Without
<1> QED
  BY <1>1 DEF IInv, ReceiverTypeOK, ChunksAreTracked

(* The passing of time only changes ages.                                  *)
LEMMA TickInv ==
    ASSUME IInv, TickIncoming
    PROVE  IInv'
<1>1. \A n \in Nat : Older(n, ReceiveTimeout) \in Nat
  BY ReceiveTimeoutAssumption DEF Older
<1>2. /\ DOMAIN incoming' = DOMAIN incoming
      /\ \A k \in DOMAIN incoming :
           incoming'[k] = [incoming[k] EXCEPT !.age = Older(@, ReceiveTimeout)]
  BY DEF TickIncoming, AgedIncoming
<1>3. ASSUME NEW k \in DOMAIN incoming
      PROVE  incoming'[k] \in Entry(k) /\ Tracked(k, incoming'[k])
  <2>1. incoming[k] \in Entry(k) /\ Tracked(k, incoming[k])
    BY DEF IInv, ReceiverTypeOK, ChunksAreTracked
  <2> QED
    BY <1>1, <1>2, <2>1 DEF Entry, Tracked
<1> QED
  BY <1>2, <1>3 DEF IInv, ReceiverTypeOK, ChunksAreTracked, TickIncoming

(* Every step of the receiver keeps its invariant.                         *)
LEMMA NextInv == IInv /\ [ReceiverNext]_receiverVars => IInv'
<1> SUFFICES ASSUME IInv, [ReceiverNext]_receiverVars PROVE IInv'
  OBVIOUS
<1>1. ASSUME NEW id \in PacketId, NEW seq \in Parts(id), NEW ack \in AckResults,
             HandlePart(id, seq, ack)
      PROVE  IInv'
  BY <1>1, HandlePartInv
<1>2. ASSUME NEW id \in PacketId, HandleDone(id)
      PROVE  IInv'
  BY <1>2, ForgetInv DEF HandleDone
<1>3. CASE TimeoutIncoming
  BY <1>3, ForgetInv DEF TimeoutIncoming
<1>4. CASE TickIncoming
  BY <1>4, TickInv
<1>5. ASSUME NEW i \in DOMAIN toSender, TakeAck(i)
      PROVE  IInv'
  <2>1. toSender' \in Seq(Acks)
    BY <1>5, RemoveAtFacts DEF TakeAck, IInv, ReceiverTypeOK, Acks
  <2> QED
    BY <1>5, <2>1 DEF TakeAck, IInv, ReceiverTypeOK, ChunksAreTracked, Acks
<1>6. CASE UNCHANGED receiverVars
  BY <1>6 DEF receiverVars, IInv, ReceiverTypeOK, ChunksAreTracked
<1> QED
  BY <1>1, <1>2, <1>3, <1>4, <1>5, <1>6 DEF ReceiverNext

-----------------------------------------------------------------------------
(* The theorems                                                            *)

(* The state of the receiver is always well typed: in particular a map     *)
(* entry never refers to chunks outside of its packet and first_pending    *)
(* never passes the end of the packet.                                     *)
THEOREM ReceiverTypeCorrect == ReceiverSpec => []ReceiverTypeOK
<1>1. IInv => ReceiverTypeOK
  BY DEF IInv
<1> QED
  BY InitInv, NextInv, <1>1, PTL DEF ReceiverSpec

(* The bookkeeping of ReassembledPacket stays consistent for packets of    *)
(* any size and for every order, repetition and loss of datagrams.         *)
THEOREM BookkeepingIsConsistent == ReceiverSpec => []ChunksAreTracked
<1>1. IInv => ChunksAreTracked
  BY DEF IInv
<1> QED
  BY InitInv, NextInv, <1>1, PTL DEF ReceiverSpec

(* A packet is only handed to the application when every one of its chunks *)
(* was written, for packets of any size.                                   *)
THEOREM PacketsAreIntact == ReceiverSpec => []ReassembledIntact
<1>1. ReceiverInit => ReassembledIntact
  BY DEF ReceiverInit, ReassembledIntact
<1>2. IInv /\ ReassembledIntact /\ [ReceiverNext]_receiverVars => ReassembledIntact'
  <2> SUFFICES ASSUME IInv, ReassembledIntact, [ReceiverNext]_receiverVars
               PROVE  ReassembledIntact'
    OBVIOUS
  <2>1. ASSUME NEW id \in PacketId, NEW seq \in Parts(id), NEW ack \in AckResults,
               HandlePart(id, seq, ack)
        PROVE  ReassembledIntact'
    <3> DEFINE got == Receive(seq = LastPart(id), id, seq)
    <3>1. got.result = "Reassembled" => got.entry.payload = Parts(id)
      BY ReceiveCorrect
    <3>2. \/ handed' = handed
          \/ got.result = "Reassembled"
             /\ handed' = [handed EXCEPT ![id] = @ \cup {got.entry.payload}]
      BY <2>1 DEF HandlePart, Delivers
    <3> HIDE DEF got
    <3>3. DOMAIN handed = PacketId
      BY DEF IInv, ReceiverTypeOK
    <3> QED
      BY <3>1, <3>2, <3>3 DEF ReassembledIntact
  <2>2. ASSUME handed' = handed
        PROVE  ReassembledIntact'
    BY <2>2 DEF ReassembledIntact
  <2> QED
    BY <2>1, <2>2 DEF ReceiverNext, HandleDone, TimeoutIncoming, TickIncoming, TakeAck, receiverVars
<1> QED
  BY InitInv, NextInv, <1>1, <1>2, PTL DEF ReceiverSpec

(* While the receiver remembers a complete packet, its payload is not      *)
(* handed over again, however often its parts are repeated.                *)
THEOREM DeliveredOncePerEntry == ReceiverSpec => OncePerEntry
<1> DEFINE Step == \A id \in DOMAIN incoming :
                      Complete(id) => /\ delivered'[id] = delivered[id]
                                      /\ handed'[id] = handed[id]
<1>1. IInv /\ [ReceiverNext]_receiverVars => [Step]_receiverVars
  <2> SUFFICES ASSUME IInv, ReceiverNext PROVE Step
    OBVIOUS
  <2>1. ASSUME NEW id \in PacketId, NEW seq \in Parts(id), NEW ack \in AckResults,
               HandlePart(id, seq, ack)
        PROVE  Step
    <3> DEFINE got == Receive(seq = LastPart(id), id, seq)
    <3>1. got.result = "Reassembled" => ~(id \in DOMAIN incoming /\ Complete(id))
      BY ReceiveCorrect DEF Complete
    <3>2. \/ delivered' = delivered /\ handed' = handed
          \/ /\ got.result = "Reassembled"
             /\ delivered' = [delivered EXCEPT ![id] = Older(@, DeliveredMax)]
             /\ handed' = [handed EXCEPT ![id] = @ \cup {got.entry.payload}]
      BY <2>1 DEF HandlePart, Delivers
    <3> HIDE DEF got
    <3>3. DOMAIN handed = PacketId /\ DOMAIN delivered = PacketId /\ DOMAIN incoming \subseteq PacketId
      BY DEF IInv, ReceiverTypeOK
    <3> QED
      BY <3>1, <3>2, <3>3
  <2>2. ASSUME handed' = handed, delivered' = delivered
        PROVE  Step
    BY <2>2
  <2> QED
    BY <2>1, <2>2 DEF ReceiverNext, HandleDone, TimeoutIncoming, TickIncoming, TakeAck
<1> QED
  BY InitInv, NextInv, <1>1, PTL DEF ReceiverSpec, OncePerEntry

(* No packet is received in full and then dropped, for packets of any size *)
(* and every order of their parts: a complete entry was handed to the      *)
(* application, or the ack of its last missing part failed.                *)
THEOREM CompletePacketsAreDelivered == ReceiverSpec => []CompleteIsDelivered
<1>1. ReceiverInit => CompleteIsDelivered
  BY DEF ReceiverInit, CompleteIsDelivered
<1>2. IInv /\ CompleteIsDelivered /\ [ReceiverNext]_receiverVars => CompleteIsDelivered'
  <2> SUFFICES ASSUME IInv, CompleteIsDelivered, [ReceiverNext]_receiverVars
               PROVE  CompleteIsDelivered'
    OBVIOUS
  <2> USE DEF CompleteIsDelivered, Complete
  <2>1. ASSUME NEW id \in PacketId, NEW seq \in Parts(id), NEW ack \in AckResults,
               HandlePart(id, seq, ack)
        PROVE  CompleteIsDelivered'
    <3> DEFINE got == Receive(seq = LastPart(id), id, seq)
    <3>1. /\ DOMAIN incoming' = DOMAIN incoming \cup {id}
          /\ incoming'[id] = got.entry
          /\ \A k \in DOMAIN incoming' : k # id => incoming'[k] = incoming[k]
      BY <2>1 DEF HandlePart, Delivers, Insert
    <3>2. delivered \in [PacketId -> 0..DeliveredMax] /\ DOMAIN incoming' \subseteq PacketId
      BY <3>1 DEF IInv, ReceiverTypeOK
    <3>3. CASE got.result = "Reassembled" /\ ack = "error"
      <4>1. delivered' = delivered /\ failed' = failed \cup {id}
        BY <2>1, <3>3 DEF HandlePart, Delivers
      <4> HIDE DEF got
      <4> QED
        BY <3>1, <4>1
    <3>4. CASE got.result = "Reassembled" /\ ack # "error"
      <4>0. failed' = failed
        BY <2>1, <3>4 DEF HandlePart
      <4>1. delivered' = [delivered EXCEPT ![id] = Older(@, DeliveredMax)]
        BY <2>1, <3>4 DEF HandlePart, Delivers
      <4>2. Older(delivered[id], DeliveredMax) > 0
        BY <3>2, DeliveredMaxAssumption DEF Older
      <4> QED
        BY <3>1, <3>2, <4>0, <4>1, <4>2
    <3>5. CASE got.result # "Reassembled"
      <4>1. delivered' = delivered /\ failed' = failed
        BY <2>1, <3>5 DEF HandlePart, Delivers
      <4>2. got.entry.payload = Parts(id) => id \in DOMAIN incoming /\ incoming[id].payload = Parts(id)
        <5>1. Parts(id) # {}
          BY PartsFinite DEF Parts
        <5> QED
          BY <3>5, <5>1, ReceiveCorrect
      <4> HIDE DEF got
      <4> QED
        BY <3>1, <4>1, <4>2
    <3> QED
      BY <3>3, <3>4, <3>5
  <2>2. ASSUME NEW K, incoming' = Without(incoming, K), UNCHANGED <<delivered, failed>>
        PROVE  CompleteIsDelivered'
    BY <2>2 DEF Without
  <2>3. CASE TickIncoming
    <3>1. /\ DOMAIN incoming' = DOMAIN incoming /\ UNCHANGED <<delivered, failed>>
          /\ \A k \in DOMAIN incoming :
               incoming'[k] = [incoming[k] EXCEPT !.age = Older(@, ReceiveTimeout)]
      BY <2>3 DEF TickIncoming, AgedIncoming
    <3>2. \A k \in DOMAIN incoming : incoming[k] \in Entry(k)
      BY DEF IInv, ReceiverTypeOK
    <3>3. \A k \in DOMAIN incoming : incoming'[k].payload = incoming[k].payload
      BY <3>1, <3>2 DEF Entry
    <3> QED
      BY <3>1, <3>3
  <2>4. ASSUME NEW i \in DOMAIN toSender, TakeAck(i)
        PROVE  CompleteIsDelivered'
    BY <2>4 DEF TakeAck
  <2>5. CASE UNCHANGED receiverVars
    BY <2>5 DEF receiverVars
  <2> QED
    BY <2>1, <2>2, <2>3, <2>4, <2>5 DEF ReceiverNext, HandleDone, TimeoutIncoming
<1> QED
  BY InitInv, NextInv, <1>1, <1>2, PTL DEF ReceiverSpec

=============================================================================
