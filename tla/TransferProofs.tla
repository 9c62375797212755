---------------------------- MODULE TransferProofs ----------------------------
(***************************************************************************)
(* Proofs about Transfer, for every set of packets of any sizes, every     *)
(* capacity of the network, and every configuration of both ends.  What is *)
(* known of the Receiver and of the operators of the Sender comes from     *)
(* their own proofs.                                                       *)
(***************************************************************************)
EXTENDS Transfer, SenderProofs, ReceiverProofs

(* The sender's half of the inductive invariant: all packets in the map    *)
(* are known and in one piece, and only their datagrams are on the way.    *)
SendingInv ==
    /\ OutgoingFits
    /\ DOMAIN outgoing \subseteq drawn /\ drawn \subseteq PacketId /\ blocked \subseteq drawn
    /\ batch_size \in 1..BatchSizeMax
    /\ toReceiver \in Seq(AnyOf(drawn)) /\ Len(toReceiver) <= Capacity

ForgottenOK == forgotten \in [PacketId -> SUBSET {"done", "timeout"}]

(* The inductive invariant of Transfer.  IInv is the receiver's.           *)
TransferInv == SendingInv /\ IInv /\ Len(toSender) <= Capacity /\ ForgottenOK

-----------------------------------------------------------------------------
(* What the sender's operations do                                         *)

(* A packet that stays in the map keeps its parts: none becomes settled,   *)
(* and it is not given up.                                                 *)
Stays(id) ==
    /\ id \in DOMAIN outgoing /\ Fits(id, outgoing'[id])
    /\ Settled(outgoing'[id].queue) = Settled(outgoing[id].queue)
    /\ outgoing[id].last_send # None => outgoing'[id].last_send # None

(* A packet that was just added: it is to be given up if it would block.   *)
IsNew(id) ==
    /\ Fits(id, outgoing'[id]) /\ Settled(outgoing'[id].queue) = {}
    /\ outgoing'[id].last_send = None => id \in blocked'

(* The parts of a new packet are sent, and the packet is added to the map  *)
(* unless the socket fails.                                                *)
LEMMA SendEffect ==
    ASSUME SendingInv, NEW id \in PacketId, Send(id)
    PROVE  /\ id \notin drawn /\ drawn' = drawn \cup {id} /\ batch_size' = batch_size
           /\ blocked \subseteq blocked' /\ blocked' \subseteq blocked \cup {id}
           /\ \E sent \in Seq(PartsOf(id)) : toReceiver' = Transmit(toReceiver, sent)
           /\ DOMAIN outgoing \subseteq DOMAIN outgoing'
           /\ DOMAIN outgoing' \subseteq DOMAIN outgoing \cup {id}
           /\ \A k \in DOMAIN outgoing' : IF k = id THEN IsNew(k) ELSE outgoing'[k] = outgoing[k]
<1> DEFINE queue == Pull(NewPacketQueue(NumParts[id]), batch_size)
           batch == Batch(queue, batch_size)
           new(run) == [queue |-> queue, missed_acks |-> 0, batch_size |-> batch_size,
                        last_send |-> IF run.result = "ok" THEN 0 ELSE None,
                        last_batch_size |-> run.count, last_batch_acks |-> 0]
<1>1. batch_size \in 1..BatchSizeMax
  BY DEF SendingInv
<1>2. /\ WellQueued(id, queue) /\ Settled(queue) = {} /\ batch \in Seq(Parts(id))
      /\ Len(batch) \in 0..BatchSizeMax
      /\ \A last \in {0, None}, count \in 0..Len(batch) :
           Fits(id, [queue |-> queue, missed_acks |-> 0, batch_size |-> batch_size,
                     last_send |-> last, last_batch_size |-> count, last_batch_acks |-> 0])
  BY <1>1, NewPacketFacts
<1>3. PICK run \in SocketRuns(Len(batch)) :
        /\ toReceiver' = Transmit(toReceiver, [i \in 1..run.count |-> PartDatagram(id, batch[i])])
        /\ outgoing' = IF run.result = "error" THEN outgoing ELSE Insert(outgoing, id, new(run))
        /\ blocked' = IF run.result = "blocked" THEN blocked \cup {id} ELSE blocked
  BY DEF Send
<1>4. id \notin drawn /\ drawn' = drawn \cup {id} /\ batch_size' = batch_size
  BY DEF Send
<1> HIDE DEF queue, batch
<1>5. Len(batch) \in Nat /\ DOMAIN batch = 1..Len(batch) /\ \A i \in DOMAIN batch : batch[i] \in Parts(id)
  BY <1>2
<1>6. /\ run.count \in 0..Len(batch) /\ (run.result # "ok" => run.result \in SocketFaults)
  BY <1>5 DEF SocketRuns
<1>7. [i \in 1..run.count |-> PartDatagram(id, batch[i])] \in Seq(PartsOf(id))
  <2>1. \A i \in 1..run.count : PartDatagram(id, batch[i]) \in PartsOf(id)
    <3> SUFFICES ASSUME NEW i \in 1..run.count PROVE PartDatagram(id, batch[i]) \in PartsOf(id)
      OBVIOUS
    <3>1. i \in 1..Len(batch)
      BY <1>5, <1>6
    <3>2. batch[i] \in Parts(id)
      BY <1>5, <3>1
    <3> QED
      BY <3>2 DEF PartsOf
  <2>2. run.count \in Nat
    BY <1>5, <1>6
  <2> QED
    BY <2>1, <2>2
<1>8. /\ DOMAIN outgoing \subseteq DOMAIN outgoing'
      /\ DOMAIN outgoing' \subseteq DOMAIN outgoing \cup {id}
  BY <1>3 DEF Insert
<1>9. ASSUME NEW k \in DOMAIN outgoing'
      PROVE  IF k = id THEN IsNew(k) ELSE outgoing'[k] = outgoing[k]
  <2>1. id \notin DOMAIN outgoing
    BY <1>4 DEF SendingInv
  <2>2. CASE k # id
    BY <1>3, <2>2 DEF Insert
  <2>3. CASE k = id
    <3>1. run.result # "error" /\ outgoing'[k] = new(run)
      BY <1>3, <2>1, <2>3 DEF Insert
    <3>2. Fits(id, new(run))
      <4>1. (IF run.result = "ok" THEN 0 ELSE None) \in {0, None}
        OBVIOUS
      <4> QED
        BY <1>2, <1>6, <4>1, Zenon
    <3>3. new(run).queue = queue /\ (run.result = "ok" => new(run).last_send # None)
      BY DEF None
    <3>4. run.result # "ok" => id \in blocked'
      <4>1. run.result # "ok" => run.result = "blocked"
        BY <1>6, <3>1, SocketFaultsAssumption
      <4> QED
        BY <1>3, <4>1
    <3> HIDE DEF new
    <3> QED
      BY <1>2, <2>3, <3>1, <3>2, <3>3, <3>4 DEF IsNew
  <2> QED
    BY <2>2, <2>3
<1>10. blocked \subseteq blocked' /\ blocked' \subseteq blocked \cup {id}
  BY <1>3
<1> QED
  BY <1>3, <1>4, <1>7, <1>8, <1>9, <1>10

(* The largest id is one of the ids.                                       *)
LEMMA MaxPacketId == Max(PacketId) \in Nat \ {0}
<1>1. PacketId \in SUBSET Nat /\ PacketId # {} /\ IsFiniteSet(PacketId)
  BY PacketIdAssumption
<1>2. PICK n \in Nat : \A x \in PacketId : x <= n
  BY <1>1, FiniteIsBounded
<1>3. Max(PacketId) \in PacketId
  BY <1>1, <1>2, MaxFound
<1> QED
  BY <1>3, PacketIdAssumption

(* The sender is finished with a packet: it leaves the map with its Done.  *)
IsFinished(id) ==
    /\ id \notin DOMAIN outgoing'
    /\ Canceled(outgoing[id]) \/ Settled(outgoing[id].queue) = Parts(id)

(* What update sends: parts of packets in the map, and the Dones of those  *)
(* it is finished with, each after everything else of its packet.          *)
Updates(sent) ==
    /\ sent \in Seq(AnyOf(DOMAIN outgoing))
    /\ \A p \in DOMAIN sent : \E id \in DOMAIN outgoing :
         /\ sent[p].id = id
         /\ \/ sent[p] \in PartsOf(id)
            \/ /\ sent[p] = DoneDatagram(id) /\ IsFinished(id)
               /\ \A q \in DOMAIN sent : p < q => sent[q].id # id

(* An update, whether it succeeds or a send fails.                         *)
LEMMA UpdateEffect ==
    ASSUME SendingInv, NEW run \in UpdateRuns, UpdateOutgoing(run) \/ UpdateFails(run)
    PROVE  /\ drawn' = drawn /\ blocked' = blocked /\ batch_size' \in 1..BatchSizeMax
           /\ \E sent : Updates(sent) /\ toReceiver' = Transmit(toReceiver, sent)
           /\ \A id \in DOMAIN outgoing' : Stays(id)
<1>1. OutgoingFits /\ batch_size \in 1..BatchSizeMax
  BY DEF SendingInv
<1>2. Kept \subseteq DOMAIN outgoing
  BY DEF Kept
<1>3. ASSUME NEW upTo \in Nat \ {0},
             \A id \in Kept : IsDone(Pending(id, outgoing[id])) /\ run[id].count = 1
                                => id \notin DOMAIN outgoing'
      PROVE  Updates(Taken(run, upTo))
  <2> DEFINE sent == Taken(run, upTo)
  <2>1. /\ sent \in Seq(AnyOf(Kept))
        /\ \A p \in DOMAIN sent : \E id \in Kept :
             /\ sent[p].id = id
             /\ \/ sent[p] \in PartsOf(id)
                \/ /\ sent[p] = DoneDatagram(id)
                   /\ IsDone(Pending(id, outgoing[id])) /\ run[id].count = 1
                   /\ \A q \in DOMAIN sent : p < q => sent[q].id # id
    BY <1>1, TakenFacts
  <2> HIDE DEF sent
  <2>2. sent \in Seq(AnyOf(DOMAIN outgoing))
    <3>1. AnyOf(Kept) \subseteq AnyOf(DOMAIN outgoing)
      BY <1>2 DEF AnyOf
    <3> QED
      BY <2>1, <3>1
  <2>3. ASSUME NEW p \in DOMAIN sent
        PROVE  \E id \in DOMAIN outgoing :
                 /\ sent[p].id = id
                 /\ \/ sent[p] \in PartsOf(id)
                    \/ /\ sent[p] = DoneDatagram(id) /\ IsFinished(id)
                       /\ \A q \in DOMAIN sent : p < q => sent[q].id # id
    <3>1. PICK id \in Kept :
             /\ sent[p].id = id
             /\ \/ sent[p] \in PartsOf(id)
                \/ /\ sent[p] = DoneDatagram(id)
                   /\ IsDone(Pending(id, outgoing[id])) /\ run[id].count = 1
                   /\ \A q \in DOMAIN sent : p < q => sent[q].id # id
      BY <2>1
    <3>2. IsDone(Pending(id, outgoing[id])) /\ run[id].count = 1 => IsFinished(id)
      <4> SUFFICES ASSUME IsDone(Pending(id, outgoing[id])), run[id].count = 1
                   PROVE  IsFinished(id)
        OBVIOUS
      <4>1. id \in PacketId /\ Fits(id, outgoing[id])
        BY <1>1, RunFacts
      <4>2. Canceled(outgoing[id]) \/ Settled(outgoing[id].queue) = Parts(id)
        BY <4>1, PendingFacts, Zenon
      <4> QED
        BY <1>3, <4>2 DEF IsFinished
    <3> QED
      BY <1>2, <3>1, <3>2, Zenon
  <2> QED
    BY <2>2, <2>3 DEF Updates, sent
<1>4. CASE UpdateOutgoing(run)
  <2> DEFINE done == {id \in Kept : IsDone(Pending(id, outgoing[id])) /\ run[id].count = 1}
  <2>1. /\ toReceiver' = Transmit(toReceiver, Taken(run, Max(PacketId)))
        /\ outgoing' = [id \in Kept \ done |-> SentPending(id, outgoing[id], run[id].count)]
        /\ batch_size' = MeanBatchSize /\ drawn' = drawn /\ blocked' = blocked
    BY <1>4 DEF UpdateOutgoing
  <2>2. batch_size' \in 1..BatchSizeMax
    BY <1>1, <2>1, MeanFacts
  <2>3. \A id \in Kept : IsDone(Pending(id, outgoing[id])) /\ run[id].count = 1
                           => id \notin DOMAIN outgoing'
    BY <2>1
  <2>4. Updates(Taken(run, Max(PacketId)))
    BY <1>3, <2>3, MaxPacketId, Zenon
  <2>5. ASSUME NEW id \in DOMAIN outgoing'
        PROVE  Stays(id)
    <3>1. id \in Kept /\ outgoing'[id] = SentPending(id, outgoing[id], run[id].count)
      BY <2>1
    <3>2. /\ id \in PacketId /\ Fits(id, outgoing[id])
          /\ run[id].count \in 0..Len(Pending(id, outgoing[id]))
      BY <1>1, <3>1, RunFacts
    <3>3. /\ Fits(id, outgoing'[id])
          /\ Settled(outgoing'[id].queue) = Settled(outgoing[id].queue)
          /\ outgoing[id].last_send # None => outgoing'[id].last_send # None
      BY <3>1, <3>2, SentPendingFacts, Zenon
    <3> QED
      BY <1>2, <3>1, <3>3 DEF Stays
  <2> QED
    BY <2>1, <2>2, <2>4, <2>5, Zenon
<1>5. CASE UpdateFails(run)
  <2>1. PICK id \in Kept :
          /\ toReceiver' = Transmit(toReceiver, Taken(run, id))
          /\ outgoing' = [i \in {} |-> None]
          /\ batch_size' = InitialBatchSize /\ drawn' = drawn /\ blocked' = blocked
    BY <1>5 DEF UpdateFails
  <2>2. DOMAIN outgoing' = {}
    BY <2>1
  <2>3. batch_size' \in 1..BatchSizeMax
    BY <2>1, BatchSizeAssumption
  <2>4. id \in Nat \ {0}
    BY <1>1, <1>2, PacketIdAssumption DEF OutgoingFits
  <2>5. Updates(Taken(run, id))
    BY <1>3, <2>2, <2>4, Zenon
  <2> QED
    BY <2>1, <2>2, <2>3, <2>5, Zenon
<1> QED
  BY <1>4, <1>5

(* A packet that hears an ack: at most the part at the position of the ack *)
(* becomes settled.                                                        *)
Hears(id, seq) ==
    /\ id \in DOMAIN outgoing /\ Fits(id, outgoing[id]) /\ Fits(id, outgoing'[id])
    /\ outgoing'[id].last_send = outgoing[id].last_send
    /\ outgoing[id].queue.first_unacked + seq + 1 <= NumParts[id]
    /\ Settled(outgoing'[id].queue)
         \subseteq Settled(outgoing[id].queue) \cup {outgoing[id].queue.first_unacked + seq}

(* An ack reaches the packet it names and no other one.                    *)
LEMMA AckEffect ==
    ASSUME SendingInv, NEW id \in PacketId, NEW seq \in Nat, HandleAck(id, seq)
    PROVE  /\ DOMAIN outgoing' = DOMAIN outgoing
           /\ \A k \in DOMAIN outgoing' : Stays(k) \/ (k = id /\ Hears(k, seq))
<1>1. OutgoingFits
  BY DEF SendingInv
<1>2. DOMAIN outgoing' = DOMAIN outgoing
  BY DEF HandleAck
<1>3. ASSUME NEW k \in DOMAIN outgoing', k # id
      PROVE  Stays(k)
  <2>1. outgoing'[k] = outgoing[k] /\ k \in DOMAIN outgoing
    BY <1>2, <1>3 DEF HandleAck
  <2>2. Fits(k, outgoing[k])
    BY <1>1, <2>1 DEF OutgoingFits
  <2> QED
    BY <2>1, <2>2 DEF Stays
<1>4. ASSUME NEW k \in DOMAIN outgoing', k = id
      PROVE  Stays(k) \/ Hears(k, seq)
  <2>1. outgoing'[id] = AckedPacket(outgoing[id], seq) /\ id \in DOMAIN outgoing
    BY <1>2, <1>4 DEF HandleAck
  <2>2. Fits(id, outgoing[id])
    BY <1>1, <2>1 DEF OutgoingFits
  <2>3. /\ Fits(id, outgoing'[id]) /\ outgoing'[id].last_send = outgoing[id].last_send
        /\ \/ Settled(outgoing'[id].queue) = Settled(outgoing[id].queue)
           \/ /\ outgoing[id].queue.first_unacked + seq + 1 <= NumParts[id]
              /\ Settled(outgoing'[id].queue)
                   \subseteq Settled(outgoing[id].queue) \cup {outgoing[id].queue.first_unacked + seq}
    BY <2>1, <2>2, AckedPacketFacts, Zenon
  <2> QED
    BY <1>4, <2>1, <2>2, <2>3, Zenon DEF Stays, Hears
<1> QED
  BY <1>2, <1>3, <1>4

(* The passing of time changes ages only.                                  *)
LEMMA AgingEffect ==
    ASSUME SendingInv, outgoing' = AgedOutgoing
    PROVE  DOMAIN outgoing' = DOMAIN outgoing /\ \A id \in DOMAIN outgoing' : Stays(id)
<1>1. DOMAIN outgoing' = DOMAIN outgoing
  BY DEF AgedOutgoing
<1>2. ASSUME NEW id \in DOMAIN outgoing'
      PROVE  Stays(id)
  <2> DEFINE p == outgoing[id]
             r == outgoing'[id]
             age == IF p.last_send = None THEN None ELSE Older(p.last_send, ResendDelay)
  <2>1. r = [p EXCEPT !.last_send = age]
    BY <1>1 DEF AgedOutgoing
  <2>2. Fits(id, p)
    BY <1>1 DEF SendingInv, OutgoingFits
  <2>3. p.last_send \in Nat \cup {None}
    BY <2>2, FitsFacts, Zenon
  <2>4. age \in Nat \cup {None} /\ (p.last_send # None => age # None)
    BY <2>3, ResendDelayAssumption DEF Older, None
  <2> HIDE DEF age, p, r
  <2>5. r \in PacketOut /\ r.queue = p.queue /\ r.last_send = age
    BY <2>1, <2>2, <2>4 DEF Fits, PacketOut
  <2>6. Fits(id, r)
    BY <2>2, <2>5 DEF Fits
  <2> QED
    BY <1>1, <2>4, <2>5, <2>6 DEF Stays, p, r
<1> QED
  BY <1>1, <1>2

-----------------------------------------------------------------------------
(* The inductive invariant                                                 *)

(* Datagrams go to the end of the channel.                                 *)
LEMMA ChannelFacts ==
    ASSUME SendingInv, NEW K, drawn \subseteq K, NEW sent \in Seq(AnyOf(K)),
           NEW channel, channel = Transmit(toReceiver, sent)
    PROVE  /\ channel \in Seq(AnyOf(K)) /\ Len(channel) <= Capacity
           /\ DOMAIN channel = 1..Len(channel) /\ DOMAIN toReceiver = 1..Len(toReceiver)
           /\ Len(toReceiver) \in Nat /\ Len(channel) \in Nat
           /\ \A j \in DOMAIN channel :
                \/ j \in DOMAIN toReceiver /\ channel[j] = toReceiver[j]
                \/ /\ j > Len(toReceiver) /\ j - Len(toReceiver) \in DOMAIN sent
                   /\ channel[j] = sent[j - Len(toReceiver)]
<1>1. AnyOf(drawn) \subseteq AnyOf(K)
  BY DEF AnyOf
<1>2. toReceiver \in Seq(AnyOf(K))
  BY <1>1 DEF SendingInv
<1> QED
  BY <1>2, TransmitFacts

(* Sending a packet.                                                       *)
LEMMA SendInv ==
    ASSUME SendingInv, NEW id \in PacketId, Send(id)
    PROVE  SendingInv'
<1>1. /\ id \notin drawn /\ drawn' = drawn \cup {id} /\ batch_size' = batch_size
      /\ blocked' \subseteq blocked \cup {id}
      /\ DOMAIN outgoing' \subseteq DOMAIN outgoing \cup {id}
      /\ \A k \in DOMAIN outgoing' : IF k = id THEN IsNew(k) ELSE outgoing'[k] = outgoing[k]
  BY SendEffect
<1>2. PICK sent \in Seq(PartsOf(id)) : toReceiver' = Transmit(toReceiver, sent)
  BY SendEffect
<1>3. sent \in Seq(AnyOf(drawn'))
  <2>1. PartsOf(id) \subseteq AnyOf(drawn')
    BY <1>1 DEF AnyOf, DatagramsOf
  <2> QED
    BY <2>1
<1>4. toReceiver' \in Seq(AnyOf(drawn')) /\ Len(toReceiver') <= Capacity
  <2>1. drawn \subseteq drawn'
    BY <1>1
  <2> QED
    BY <1>2, <1>3, <2>1, ChannelFacts
<1>5. /\ DOMAIN outgoing' \subseteq drawn' /\ drawn' \subseteq PacketId /\ blocked' \subseteq drawn'
      /\ batch_size' \in 1..BatchSizeMax
  BY <1>1 DEF SendingInv
<1>6. \A k \in DOMAIN outgoing' : Fits(k, outgoing'[k])
  BY <1>1 DEF SendingInv, OutgoingFits, IsNew
<1> QED
  BY <1>4, <1>5, <1>6 DEF SendingInv, OutgoingFits

(* Updating the packets being sent.                                        *)
LEMMA UpdateInv ==
    ASSUME SendingInv, NEW run \in UpdateRuns, UpdateOutgoing(run) \/ UpdateFails(run)
    PROVE  SendingInv'
<1>1. /\ drawn' = drawn /\ blocked' = blocked /\ batch_size' \in 1..BatchSizeMax
      /\ \A id \in DOMAIN outgoing' : Stays(id)
  BY UpdateEffect
<1>2. PICK sent : Updates(sent) /\ toReceiver' = Transmit(toReceiver, sent)
  BY UpdateEffect
<1>3. sent \in Seq(AnyOf(drawn'))
  <2>1. AnyOf(DOMAIN outgoing) \subseteq AnyOf(drawn')
    BY <1>1 DEF AnyOf, SendingInv
  <2>2. sent \in Seq(AnyOf(DOMAIN outgoing))
    BY <1>2 DEF Updates
  <2> QED
    BY <2>1, <2>2
<1>4. toReceiver' \in Seq(AnyOf(drawn')) /\ Len(toReceiver') <= Capacity
  <2>1. drawn \subseteq drawn'
    BY <1>1
  <2> QED
    BY <1>2, <1>3, <2>1, ChannelFacts
<1> QED
  BY <1>1, <1>4 DEF SendingInv, OutgoingFits, Stays

(* Steps that leave the sender's map alone and take a datagram out of the  *)
(* network or repeat one.                                                  *)
LEMMA NetworkInv ==
    ASSUME SendingInv, UNCHANGED <<outgoing, batch_size, drawn, blocked>>,
           NEW i \in DOMAIN toReceiver,
           \/ toReceiver' = RemoveAt(toReceiver, i)
           \/ Len(toReceiver) < Capacity /\ toReceiver' = Duplicated(toReceiver, i)
    PROVE  SendingInv'
<1>1. toReceiver \in Seq(AnyOf(drawn)) /\ Len(toReceiver) <= Capacity /\ Capacity \in Nat
  BY CapacityAssumption DEF SendingInv
<1>2. Len(toReceiver) \in Nat
  BY <1>1
<1>3. toReceiver' \in Seq(AnyOf(drawn)) /\ Len(toReceiver') <= Capacity
  <2>1. CASE toReceiver' = RemoveAt(toReceiver, i)
    <3>1. toReceiver' \in Seq(AnyOf(drawn)) /\ Len(toReceiver') = Len(toReceiver) - 1
      BY <1>1, <2>1, RemoveAtFacts
    <3> QED
      BY <1>1, <1>2, <3>1
  <2>2. CASE Len(toReceiver) < Capacity /\ toReceiver' = Duplicated(toReceiver, i)
    <3>1. toReceiver' \in Seq(AnyOf(drawn)) /\ Len(toReceiver') = Len(toReceiver) + 1
      BY <1>1, <2>2, InsertAtFacts DEF Duplicated
    <3> QED
      BY <1>1, <1>2, <2>2, <3>1
  <2> QED
    BY <2>1, <2>2
<1> QED
  BY <1>3 DEF SendingInv, OutgoingFits

(* Steps that leave the network to the receiver alone.                     *)
LEMMA QuietInv ==
    ASSUME SendingInv, UNCHANGED <<batch_size, drawn, blocked, toReceiver>>,
           DOMAIN outgoing' = DOMAIN outgoing,
           \A id \in DOMAIN outgoing' : Fits(id, outgoing'[id])
    PROVE  SendingInv'
  BY DEF SendingInv, OutgoingFits

(* A datagram on its way belongs to a packet that was sent.                *)
LEMMA OnTheWay ==
    ASSUME SendingInv, NEW i \in DOMAIN toReceiver
    PROVE  LET d == toReceiver[i]
           IN  /\ d.id \in drawn /\ d.id \in PacketId
               /\ \/ d = DoneDatagram(d.id) /\ d.kind = "Done"
                  \/ d \in PartsOf(d.id) /\ d.kind # "Done" /\ d.seq \in Parts(d.id)
                     /\ d = PartDatagram(d.id, d.seq)
<1> DEFINE d == toReceiver[i]
<1>1. d \in AnyOf(drawn)
  BY DEF SendingInv
<1>2. PICK id \in drawn : d \in DatagramsOf(id)
  BY <1>1 DEF AnyOf
<1>3. id \in PacketId
  BY DEF SendingInv
<1> HIDE DEF d
<1>4. d.id = id /\ \/ d = DoneDatagram(id) /\ d.kind = "Done"
                   \/ d \in PartsOf(id) /\ d.kind # "Done" /\ d.seq \in Parts(id)
                      /\ d = PartDatagram(id, d.seq)
  BY <1>2, <1>3, DatagramFacts DEF DatagramsOf
<1> QED
  BY <1>2, <1>3, <1>4 DEF d

(* An ack on its way.                                                      *)
LEMMA AckOnTheWay ==
    ASSUME IInv, NEW i \in DOMAIN toSender
    PROVE  toSender[i].id \in PacketId /\ toSender[i].seq \in Nat
<1>1. toSender \in Seq(Acks)
  BY DEF IInv, ReceiverTypeOK, Acks
<1>2. toSender[i] \in Acks
  BY <1>1
<1> QED
  BY <1>2 DEF Acks

(* The acks in the network.                                                *)
LEMMA AcksFacts ==
    ASSUME IInv, Len(toSender) <= Capacity
    PROVE  /\ toSender \in Seq(Acks) /\ Len(toSender) \in Nat /\ Capacity \in Nat
           /\ \A i \in DOMAIN toSender :
                /\ RemoveAt(toSender, i) \in Seq(Acks) /\ Len(RemoveAt(toSender, i)) <= Capacity
                /\ \A j \in DOMAIN RemoveAt(toSender, i) :
                     \E k \in DOMAIN toSender : RemoveAt(toSender, i)[j] = toSender[k]
                /\ Duplicated(toSender, i) \in Seq(Acks)
                /\ Len(toSender) < Capacity => Len(Duplicated(toSender, i)) <= Capacity
                /\ \A j \in DOMAIN Duplicated(toSender, i) :
                     \E k \in DOMAIN toSender : Duplicated(toSender, i)[j] = toSender[k]
<1>1. toSender \in Seq(Acks)
  BY DEF IInv, ReceiverTypeOK, Acks
<1> DEFINE len == Len(toSender)
<1>2. len \in Nat /\ DOMAIN toSender = 1..len /\ Capacity \in Nat /\ len <= Capacity
  BY <1>1, CapacityAssumption
<1> HIDE DEF len
<1>3. ASSUME NEW i \in DOMAIN toSender
      PROVE  /\ RemoveAt(toSender, i) \in Seq(Acks) /\ Len(RemoveAt(toSender, i)) <= Capacity
             /\ \A j \in DOMAIN RemoveAt(toSender, i) :
                  \E k \in DOMAIN toSender : RemoveAt(toSender, i)[j] = toSender[k]
  <2> DEFINE r == RemoveAt(toSender, i)
  <2>1. /\ r \in Seq(Acks) /\ Len(r) = len - 1
        /\ \A j \in 1..(len - 1) : r[j] = IF j < i THEN toSender[j] ELSE toSender[j + 1]
    BY <1>1, RemoveAtFacts DEF len
  <2> HIDE DEF r
  <2>2. DOMAIN r = 1..(len - 1)
    BY <2>1
  <2>3. \A j \in 1..(len - 1) : j \in 1..len /\ j + 1 \in 1..len
    BY <1>2
  <2>4. Len(r) <= Capacity
    BY <1>2, <2>1
  <2> QED
    BY <1>2, <2>1, <2>2, <2>3, <2>4 DEF r
<1>4. ASSUME NEW i \in DOMAIN toSender
      PROVE  /\ Duplicated(toSender, i) \in Seq(Acks)
             /\ len < Capacity => Len(Duplicated(toSender, i)) <= Capacity
             /\ \A j \in DOMAIN Duplicated(toSender, i) :
                  \E k \in DOMAIN toSender : Duplicated(toSender, i)[j] = toSender[k]
  <2> DEFINE r == Duplicated(toSender, i)
  <2>1. /\ r \in Seq(Acks) /\ Len(r) = len + 1
        /\ \A j \in 1..(len + 1) : r[j] = IF j <= i THEN toSender[j] ELSE toSender[j - 1]
    BY <1>1, InsertAtFacts DEF len, Duplicated
  <2> HIDE DEF r
  <2>2. DOMAIN r = 1..(len + 1)
    BY <2>1
  <2>3. \A j \in 1..(len + 1) : IF j <= i THEN j \in 1..len ELSE j - 1 \in 1..len
    BY <1>2
  <2>4. len < Capacity => Len(r) <= Capacity
    BY <1>2, <2>1
  <2> QED
    BY <1>2, <2>1, <2>2, <2>3, <2>4 DEF r
<1> QED
  BY <1>1, <1>2, <1>3, <1>4 DEF len

(* Only the acks of the receiver change.                                   *)
LEMMA AcksChangeInv ==
    ASSUME IInv, toSender' \in Seq(Acks), UNCHANGED <<incoming, delivered, handed, arrived, failed, panicked>>
    PROVE  IInv'
  BY DEF IInv, ReceiverTypeOK, ChunksAreTracked, Acks

(* The receiver's invariant holds in the presence of the sender, because   *)
(* the network only delivers parts that exist.                             *)
LEMMA ReceivingInv ==
    ASSUME TransferInv, Next
    PROVE  IInv' /\ Len(toSender') <= Capacity
<1>1. SendingInv /\ IInv /\ Len(toSender) <= Capacity
  BY DEF TransferInv
<1>2. ASSUME UNCHANGED receiverVars
      PROVE  IInv' /\ Len(toSender') <= Capacity
  <2>1. IInv'
    BY <1>1, <1>2, NextInv
  <2> QED
    BY <1>1, <1>2, <2>1 DEF receiverVars
<1>3. ASSUME ReceiverNext, toSender' = toSender
      PROVE  IInv' /\ Len(toSender') <= Capacity
  BY <1>1, <1>3, NextInv
<1>4. ASSUME NEW i \in DOMAIN toSender, TakeAck(i)
      PROVE  IInv' /\ Len(toSender') <= Capacity
  BY <1>1, <1>4, AcksFacts, AcksChangeInv DEF TakeAck
<1>5. ASSUME NEW i \in DOMAIN toReceiver, NEW ack \in AckResults, ReceiveDatagram(i, ack)
      PROVE  IInv' /\ Len(toSender') <= Capacity
  <2> DEFINE d == toReceiver[i]
  <2>1. d.id \in PacketId /\ (d.kind # "Done" => d.seq \in Parts(d.id))
    BY <1>1, OnTheWay
  <2>2. CASE d.kind = "Done"
    <3>1. HandleDone(d.id)
      BY <1>5, <2>2 DEF ReceiveDatagram
    <3> QED
      BY <1>3, <2>1, <3>1 DEF ReceiverNext, HandleDone
  <2>3. CASE d.kind # "Done"
    <3>1. HandlePart(d.id, d.seq, ack)
      BY <1>5, <2>3 DEF ReceiveDatagram
    <3> HIDE DEF d
    <3>2. IInv'
      BY <1>1, <2>1, <2>3, <3>1, HandlePartInv
    <3>3. toSender' = toSender \/ toSender' = Transmit(toSender, <<AckDatagram(d.id, d.seq)>>)
      BY <3>1 DEF HandlePart
    <3>4. Len(Transmit(toSender, <<AckDatagram(d.id, d.seq)>>)) <= Capacity
      <4>1. toSender \in Seq(Acks)
        BY <1>1, AcksFacts
      <4>2. AckDatagram(d.id, d.seq) \in Acks
        <5>1. d.seq \in Nat
          BY <2>1, <2>3, PartsFinite DEF Parts
        <5> QED
          BY <2>1, <5>1 DEF AckDatagram, Acks
      <4>3. <<AckDatagram(d.id, d.seq)>> \in Seq(Acks)
        BY <4>2
      <4> QED
        BY <4>1, <4>3, TransmitFacts
    <3> QED
      BY <1>1, <3>2, <3>3, <3>4
  <2> QED
    BY <2>2, <2>3
<1>6. CASE Lose
  BY <1>2, <1>4, <1>6 DEF Lose
<1>7. CASE Duplicate
  <2>1. CASE UNCHANGED receiverVars
    BY <1>2, <2>1
  <2>2. ASSUME NEW i \in DOMAIN toSender, Len(toSender) < Capacity,
               toSender' = Duplicated(toSender, i),
               UNCHANGED <<incoming, delivered, handed, arrived, failed, panicked>>
        PROVE  IInv' /\ Len(toSender') <= Capacity
    BY <1>1, <2>2, AcksFacts, AcksChangeInv
  <2> QED
    BY <1>7, <2>1, <2>2 DEF Duplicate
<1>8. CASE Tick
  BY <1>3, <1>8 DEF Tick, ReceiverNext, TickIncoming
<1>9. CASE UpdateReceiver
  BY <1>3, <1>9 DEF UpdateReceiver, ReceiverNext, TimeoutIncoming
<1> QED
  BY <1>2, <1>4, <1>5, <1>6, <1>7, <1>8, <1>9
  DEF Next, SendPacket, UpdateSender, FailSender, ReceiveAck

(* Every step of either end or of the network keeps the sender's half.     *)
LEMMA SendingNextInv ==
    ASSUME TransferInv, Next
    PROVE  SendingInv'
<1>1. SendingInv /\ IInv
  BY DEF TransferInv
<1>2. ASSUME UNCHANGED senderVars
      PROVE  SendingInv'
  BY <1>1, <1>2 DEF senderVars, SendingInv, OutgoingFits
<1>3. ASSUME NEW id \in PacketId, SendPacket(id)
      PROVE  SendingInv'
  BY <1>1, <1>3, SendInv DEF SendPacket
<1>4. ASSUME NEW run \in UpdateRuns, UpdateSender(run) \/ FailSender(run)
      PROVE  SendingInv'
  BY <1>1, <1>4, UpdateInv DEF UpdateSender, FailSender
<1>5. ASSUME NEW i \in DOMAIN toReceiver, NEW ack \in AckResults, ReceiveDatagram(i, ack)
      PROVE  SendingInv'
  BY <1>1, <1>5, NetworkInv DEF ReceiveDatagram
<1>6. ASSUME NEW i \in DOMAIN toSender, ReceiveAck(i)
      PROVE  SendingInv'
  <2>1. toSender[i].id \in PacketId /\ toSender[i].seq \in Nat
    BY <1>1, AckOnTheWay
  <2>2. HandleAck(toSender[i].id, toSender[i].seq)
    BY <1>6 DEF ReceiveAck
  <2>3. /\ DOMAIN outgoing' = DOMAIN outgoing
        /\ \A k \in DOMAIN outgoing' : Fits(k, outgoing'[k])
    BY <1>1, <2>1, <2>2, AckEffect DEF Stays, Hears
  <2>4. UNCHANGED <<batch_size, drawn, blocked, toReceiver>>
    BY <2>2 DEF HandleAck
  <2> QED
    BY <1>1, <2>3, <2>4, QuietInv
<1>7. CASE Lose
  BY <1>1, <1>2, <1>7, NetworkInv DEF Lose
<1>8. CASE Duplicate
  BY <1>1, <1>2, <1>8, NetworkInv DEF Duplicate
<1>9. CASE Tick
  <2>1. DOMAIN outgoing' = DOMAIN outgoing /\ \A id \in DOMAIN outgoing' : Fits(id, outgoing'[id])
    BY <1>1, <1>9, AgingEffect DEF Tick, Stays
  <2> QED
    BY <1>1, <1>9, <2>1, QuietInv DEF Tick
<1>10. CASE UpdateReceiver
  BY <1>2, <1>10 DEF UpdateReceiver
<1> QED
  BY <1>3, <1>4, <1>5, <1>6, <1>7, <1>8, <1>9, <1>10 DEF Next

(* What is remembered of the forgotten packets.                            *)
LEMMA ForgottenNextOK ==
    ASSUME TransferInv, Next
    PROVE  ForgottenOK'
<1>1. SendingInv /\ ForgottenOK
  BY DEF TransferInv
<1>2. ASSUME NEW i \in DOMAIN toReceiver, NEW ack \in AckResults, ReceiveDatagram(i, ack)
      PROVE  ForgottenOK'
  <2>1. \/ forgotten' = [forgotten EXCEPT ![toReceiver[i].id] = @ \cup {"done"}]
        \/ forgotten' = [forgotten EXCEPT ![toReceiver[i].id] = {}]
        \/ forgotten' = forgotten
    BY <1>2 DEF ReceiveDatagram
  <2> QED
    BY <1>1, <2>1 DEF ForgottenOK
<1>3. CASE UpdateReceiver
  BY <1>1, <1>3 DEF UpdateReceiver, ForgottenOK
<1>4. \/ \E i \in DOMAIN toReceiver, ack \in AckResults : ReceiveDatagram(i, ack)
      \/ UpdateReceiver
      \/ forgotten' = forgotten
  BY DEF Next, SendPacket, UpdateSender, FailSender, ReceiveAck, Lose, Duplicate, Tick
<1> QED
  BY <1>1, <1>2, <1>3, <1>4 DEF ForgottenOK

(* The invariant holds at the start.                                       *)
LEMMA TransferInitInv == Init => TransferInv
<1> SUFFICES ASSUME Init PROVE TransferInv
  OBVIOUS
<1>1. /\ DOMAIN outgoing = {} /\ drawn = {} /\ blocked = {} /\ batch_size = InitialBatchSize
      /\ toReceiver = <<>>
  BY DEF Init, SenderInit
<1>2. IInv /\ toSender = <<>>
  BY InitInv DEF Init, ReceiverInit
<1>3. Len(<<>>) <= Capacity /\ <<>> \in Seq(AnyOf({}))
  BY CapacityAssumption
<1>4. SendingInv
  BY <1>1, <1>3, BatchSizeAssumption DEF SendingInv, OutgoingFits
<1>5. ForgottenOK
  BY DEF Init, ForgottenOK
<1> QED
  BY <1>2, <1>3, <1>4, <1>5 DEF TransferInv

(* And every step keeps it.                                                *)
LEMMA TransferNextInv == TransferInv /\ [Next]_vars => TransferInv'
<1> SUFFICES ASSUME TransferInv, [Next]_vars PROVE TransferInv'
  OBVIOUS
<1>1. CASE Next
  BY <1>1, ReceivingInv, SendingNextInv, ForgottenNextOK DEF TransferInv
<1>2. CASE UNCHANGED vars
  BY <1>2
  DEF vars, TransferInv, SendingInv, OutgoingFits, IInv, ReceiverTypeOK, ChunksAreTracked, ForgottenOK
<1> QED
  BY <1>1, <1>2

-----------------------------------------------------------------------------
(* The theorems                                                            *)

(* Both ends and the network are always well typed: in particular no batch *)
(* size becomes zero or exceeds its u16, and only datagrams of packets     *)
(* that were sent are on the way.                                          *)
THEOREM TransferTypeCorrect == Spec => []TypeOK
<1>1. TransferInv => TypeOK
  <2> SUFFICES ASSUME TransferInv PROVE TypeOK
    OBVIOUS
  <2>1. SendingInv /\ ReceiverTypeOK /\ Len(toSender) <= Capacity /\ ForgottenOK
    BY DEF TransferInv, IInv
  <2>2. \A id \in DOMAIN outgoing : outgoing[id] \in PacketOut
    BY <2>1 DEF SendingInv, OutgoingFits, Fits
  <2>3. ASSUME NEW i \in DOMAIN toReceiver
        PROVE  LET d == toReceiver[i]
               IN  \/ d.id \in drawn /\ d = DoneDatagram(d.id)
                   \/ d.id \in drawn /\ d.seq \in Parts(d.id) /\ d = PartDatagram(d.id, d.seq)
    BY <2>1, OnTheWay
  <2> QED
    BY <2>1, <2>2, <2>3 DEF TypeOK, SendingInv, ForgottenOK
<1> QED
  BY TransferInitInv, TransferNextInv, <1>1, PTL DEF Spec

(* The queue of a packet loses and repeats no part, whatever acks arrive,  *)
(* however often parts are pulled from the serializing thread, and for     *)
(* packets of any size.                                                    *)
THEOREM QueuesAreContiguous == Spec => []QueueIsContiguous
<1>1. TransferInv => QueueIsContiguous
  BY DEF TransferInv, SendingInv, OutgoingFits, Fits, QueueIsContiguous
<1> QED
  BY TransferInitInv, TransferNextInv, <1>1, PTL DEF Spec

-----------------------------------------------------------------------------
(* What acks say                                                           *)

(* How a packet in the map comes out of a step.                            *)
LEMMA OutgoingSteps ==
    ASSUME TransferInv, Next
    PROVE  \A k \in DOMAIN outgoing' :
             \/ Stays(k) \/ IsNew(k)
             \/ \E i \in DOMAIN toSender : toSender[i].id = k /\ Hears(k, toSender[i].seq)
<1>1. SendingInv /\ IInv
  BY DEF TransferInv
<1>2. ASSUME NEW k \in DOMAIN outgoing', k \in DOMAIN outgoing, outgoing'[k] = outgoing[k]
      PROVE  Stays(k)
  BY <1>1, <1>2 DEF SendingInv, OutgoingFits, Stays
<1>3. ASSUME outgoing' = outgoing
      PROVE  \A k \in DOMAIN outgoing' : Stays(k)
  BY <1>2, <1>3
<1>4. ASSUME NEW id \in PacketId, SendPacket(id)
      PROVE  \A k \in DOMAIN outgoing' : Stays(k) \/ IsNew(k)
  <2>1. /\ DOMAIN outgoing' \subseteq DOMAIN outgoing \cup {id}
        /\ \A k \in DOMAIN outgoing' : IF k = id THEN IsNew(k) ELSE outgoing'[k] = outgoing[k]
    BY <1>1, <1>4, SendEffect DEF SendPacket
  <2> QED
    BY <1>2, <2>1
<1>5. ASSUME NEW run \in UpdateRuns, UpdateSender(run) \/ FailSender(run)
      PROVE  \A k \in DOMAIN outgoing' : Stays(k)
  BY <1>1, <1>5, UpdateEffect DEF UpdateSender, FailSender
<1>6. ASSUME NEW i \in DOMAIN toSender, ReceiveAck(i)
      PROVE  \A k \in DOMAIN outgoing' :
               Stays(k) \/ (toSender[i].id = k /\ Hears(k, toSender[i].seq))
  <2>1. toSender[i].id \in PacketId /\ toSender[i].seq \in Nat
    BY <1>1, AckOnTheWay
  <2>2. HandleAck(toSender[i].id, toSender[i].seq)
    BY <1>6 DEF ReceiveAck
  <2> QED
    BY <1>1, <2>1, <2>2, AckEffect, Zenon
<1>7. CASE Tick
  BY <1>1, <1>7, AgingEffect DEF Tick
<1>8. outgoing' = outgoing \/ ~(Lose \/ Duplicate \/ UpdateReceiver)
  BY DEF Lose, Duplicate, UpdateReceiver, senderVars
<1>9. ASSUME NEW i \in DOMAIN toReceiver, NEW ack \in AckResults, ReceiveDatagram(i, ack)
      PROVE  outgoing' = outgoing
  BY <1>9 DEF ReceiveDatagram
<1> QED
  BY <1>3, <1>4, <1>5, <1>6, <1>7, <1>8, <1>9 DEF Next

(* Parts that have arrived stay arrived, and an ack says that its part has *)
(* arrived.                                                                *)
LEMMA AckSteps ==
    ASSUME TransferInv, Next
    PROVE  /\ \A id \in PacketId : arrived[id] \subseteq arrived'[id]
           /\ \A j \in DOMAIN toSender' :
                \/ \E k \in DOMAIN toSender : toSender'[j] = toSender[k]
                \/ toSender'[j].seq \in arrived'[toSender'[j].id]
<1>1. SendingInv /\ IInv /\ Len(toSender) <= Capacity
  BY DEF TransferInv
<1>2. ASSUME arrived' = arrived,
             \/ toSender' = toSender
             \/ \E i \in DOMAIN toSender : toSender' = RemoveAt(toSender, i)
             \/ \E i \in DOMAIN toSender : toSender' = Duplicated(toSender, i)
      PROVE  /\ \A id \in PacketId : arrived[id] \subseteq arrived'[id]
             /\ \A j \in DOMAIN toSender' : \E k \in DOMAIN toSender : toSender'[j] = toSender[k]
  <2>1. \A id \in PacketId : arrived[id] \subseteq arrived'[id]
    BY <1>2
  <2>2. \A j \in DOMAIN toSender' : \E k \in DOMAIN toSender : toSender'[j] = toSender[k]
    BY <1>1, <1>2, AcksFacts
  <2> QED
    BY <2>1, <2>2
<1>3. ASSUME NEW id \in PacketId, NEW seq \in Parts(id), NEW ack \in AckResults,
             HandlePart(id, seq, ack)
      PROVE  /\ \A k \in PacketId : arrived[k] \subseteq arrived'[k]
             /\ \A j \in DOMAIN toSender' :
                  \/ \E k \in DOMAIN toSender : toSender'[j] = toSender[k]
                  \/ toSender'[j].seq \in arrived'[toSender'[j].id]
  <2>1. DOMAIN arrived = PacketId
    BY <1>1 DEF IInv, ReceiverTypeOK
  <2>2. \/ arrived' = arrived /\ toSender' = toSender
        \/ /\ arrived' = [arrived EXCEPT ![id] = @ \cup {seq}]
           /\ toSender' \in {toSender, Transmit(toSender, <<AckDatagram(id, seq)>>)}
    BY <1>3 DEF HandlePart
  <2>3. CASE arrived' = arrived /\ toSender' = toSender
    BY <1>2, <2>3
  <2>4. CASE /\ arrived' = [arrived EXCEPT ![id] = @ \cup {seq}]
             /\ toSender' \in {toSender, Transmit(toSender, <<AckDatagram(id, seq)>>)}
    <3>1. seq \in arrived'[id] /\ \A k \in PacketId : arrived[k] \subseteq arrived'[k]
      BY <2>1, <2>4
    <3>2. CASE toSender' = toSender
      BY <3>1, <3>2
    <3>3. CASE toSender' = Transmit(toSender, <<AckDatagram(id, seq)>>)
      <4> DEFINE a == AckDatagram(id, seq)
      <4>1. a \in Acks /\ a.id = id /\ a.seq = seq
        BY PartsFinite DEF AckDatagram, Acks, Parts
      <4> HIDE DEF a
      <4>2. <<a>> \in Seq(Acks) /\ DOMAIN <<a>> = {1} /\ <<a>>[1] = a
        BY <4>1
      <4>3. toSender \in Seq(Acks)
        BY <1>1, AcksFacts
      <4>4. \A j \in DOMAIN toSender' :
              \/ j \in DOMAIN toSender /\ toSender'[j] = toSender[j]
              \/ j - Len(toSender) \in DOMAIN <<a>> /\ toSender'[j] = <<a>>[j - Len(toSender)]
        <5> DEFINE sent == <<a>>
        <5>1. sent \in Seq(Acks) /\ toSender' = Transmit(toSender, sent)
          BY <3>3, <4>2 DEF a
        <5> HIDE DEF sent
        <5>2. \A j \in DOMAIN toSender' :
                \/ j \in DOMAIN toSender /\ toSender'[j] = toSender[j]
                \/ /\ j > Len(toSender) /\ j - Len(toSender) \in DOMAIN sent
                   /\ toSender'[j] = sent[j - Len(toSender)]
          BY <4>3, <5>1, TransmitFacts
        <5> QED
          BY <5>2 DEF sent
      <4>5. \A j \in DOMAIN toSender' :
              \/ j \in DOMAIN toSender /\ toSender'[j] = toSender[j]
              \/ toSender'[j] = a
        BY <4>2, <4>4
      <4> QED
        BY <3>1, <4>1, <4>5
    <3> QED
      BY <2>4, <3>2, <3>3
  <2> QED
    BY <2>2, <2>3, <2>4
<1>4. ASSUME NEW i \in DOMAIN toReceiver, NEW ack \in AckResults, ReceiveDatagram(i, ack)
      PROVE  /\ \A k \in PacketId : arrived[k] \subseteq arrived'[k]
             /\ \A j \in DOMAIN toSender' :
                  \/ \E k \in DOMAIN toSender : toSender'[j] = toSender[k]
                  \/ toSender'[j].seq \in arrived'[toSender'[j].id]
  <2> DEFINE d == toReceiver[i]
  <2>1. d.id \in PacketId /\ (d.kind # "Done" => d.seq \in Parts(d.id))
    BY <1>1, OnTheWay
  <2>2. CASE d.kind = "Done"
    <3>1. HandleDone(d.id)
      BY <1>4, <2>2 DEF ReceiveDatagram
    <3>2. arrived' = arrived /\ toSender' = toSender
      BY <3>1 DEF HandleDone
    <3> QED
      BY <1>2, <3>2
  <2>3. CASE d.kind # "Done"
    <3>1. HandlePart(d.id, d.seq, ack)
      BY <1>4, <2>3 DEF ReceiveDatagram
    <3> HIDE DEF d
    <3> QED
      BY <1>3, <2>1, <2>3, <3>1
  <2> QED
    BY <2>2, <2>3
<1>5. \/ \E i \in DOMAIN toReceiver, ack \in AckResults : ReceiveDatagram(i, ack)
      \/ /\ arrived' = arrived
         /\ \/ toSender' = toSender
            \/ \E i \in DOMAIN toSender : toSender' = RemoveAt(toSender, i)
            \/ \E i \in DOMAIN toSender : toSender' = Duplicated(toSender, i)
  BY DEF Next, SendPacket, UpdateSender, FailSender, UpdateReceiver, ReceiveAck, Lose,
         Duplicate, Tick, receiverVars, TimeoutIncoming, TickIncoming, TakeAck
<1> QED
  BY <1>2, <1>4, <1>5

SinglePart == \A id \in PacketId : NumParts[id] = 1

AcksArrived == \A i \in DOMAIN toSender : toSender[i].seq \in arrived[toSender[i].id]

(* The inductive step: with one part per packet, the position that an ack  *)
(* is applied to is the part that it acknowledges.                         *)
LEMMA ArrivedStep ==
    ASSUME SinglePart, TransferInv, AckedPartsArrived, AcksArrived, Next
    PROVE  AckedPartsArrived' /\ AcksArrived'
<1>1. IInv /\ SendingInv
  BY DEF TransferInv
<1>2. TransferInv'
  BY TransferNextInv
<1>3. DOMAIN outgoing' \subseteq PacketId
  BY <1>2 DEF TransferInv, SendingInv, OutgoingFits
<1>4. \A id \in PacketId : arrived[id] \subseteq arrived'[id]
  BY AckSteps
<1>5. ASSUME NEW j \in DOMAIN toSender'
      PROVE  toSender'[j].seq \in arrived'[toSender'[j].id]
  <2>1. CASE toSender'[j].seq \in arrived'[toSender'[j].id]
    BY <2>1
  <2>2. ASSUME NEW k \in DOMAIN toSender, toSender'[j] = toSender[k]
        PROVE  toSender'[j].seq \in arrived'[toSender'[j].id]
    BY <1>1, <1>4, <2>2, AckOnTheWay DEF AcksArrived
  <2> QED
    BY <2>1, <2>2, AckSteps
<1>6. ASSUME NEW id \in DOMAIN outgoing'
      PROVE  Settled(outgoing'[id].queue) \subseteq arrived'[id]
  <2>1. id \in PacketId
    BY <1>3
  <2>2. CASE Stays(id)
    BY <1>4, <2>1, <2>2 DEF Stays, AckedPartsArrived
  <2>3. CASE IsNew(id)
    BY <2>3 DEF IsNew
  <2>4. ASSUME NEW i \in DOMAIN toSender, toSender[i].id = id, Hears(id, toSender[i].seq)
        PROVE  Settled(outgoing'[id].queue) \subseteq arrived'[id]
    <3> DEFINE seq == toSender[i].seq
               first == outgoing[id].queue.first_unacked
    <3>1. seq \in Nat /\ seq \in arrived[id]
      BY <1>1, <2>4, AckOnTheWay DEF AcksArrived
    <3>2. first \in Nat
      <4>1. WellQueued(id, outgoing[id].queue)
        BY <2>4, FitsFacts, Zenon DEF Hears
      <4> QED
        BY <4>1 DEF WellQueued, Queue
    <3>3. first + seq + 1 <= 1
      BY <2>1, <2>4 DEF Hears, SinglePart
    <3>4. Settled(outgoing'[id].queue) \subseteq Settled(outgoing[id].queue) \cup {first + seq}
          /\ id \in DOMAIN outgoing
      BY <2>4 DEF Hears
    <3> HIDE DEF seq, first
    <3>5. first + seq = seq
      BY <3>1, <3>2, <3>3
    <3>6. Settled(outgoing[id].queue) \subseteq arrived[id]
      BY <3>4 DEF AckedPartsArrived
    <3> QED
      BY <1>4, <2>1, <3>1, <3>4, <3>5, <3>6
  <2> QED
    BY <2>2, <2>3, <2>4, OutgoingSteps
<1> QED
  BY <1>5, <1>6 DEF AckedPartsArrived, AcksArrived

(* If every packet fits in one datagram, a part that the sender takes for  *)
(* acked was received, however datagrams and acks are lost, repeated and   *)
(* reordered.  With two parts it is not so: PacketQueue::ack does not      *)
(* subtract first_unacked, and a repeated ack of the first part is         *)
(* credited to the second one.                                             *)
THEOREM AckedMeansArrived ==
    ASSUME SinglePart
    PROVE  Spec => []AckedPartsArrived
<1> DEFINE AInv == TransferInv /\ AckedPartsArrived /\ AcksArrived
<1>1. Init => AInv
  <2> SUFFICES ASSUME Init PROVE AInv
    OBVIOUS
  <2>1. DOMAIN outgoing = {} /\ DOMAIN toSender = {}
    BY DEF Init, SenderInit, ReceiverInit
  <2> QED
    BY <2>1, TransferInitInv DEF AckedPartsArrived, AcksArrived
<1>2. AInv /\ [Next]_vars => AInv'
  <2> SUFFICES ASSUME AInv, [Next]_vars PROVE AInv'
    OBVIOUS
  <2>1. CASE Next
    BY <2>1, ArrivedStep, TransferNextInv
  <2>2. CASE UNCHANGED vars
    BY <2>2, TransferNextInv DEF vars, AckedPartsArrived, AcksArrived
  <2> QED
    BY <2>1, <2>2
<1> QED
  BY <1>1, <1>2, PTL DEF Spec

-----------------------------------------------------------------------------
(* The channel to the receiver                                             *)

(* The network may drop a datagram and may repeat one right behind itself, *)
(* but what is left keeps its order.                                       *)
InOrder(m) ==
    \A j \in DOMAIN toReceiver' :
        /\ m[j] \in DOMAIN toReceiver /\ toReceiver'[j] = toReceiver[m[j]]
        /\ j \in Nat /\ m[j] \in Nat
        /\ \A k \in DOMAIN toReceiver' : j < k => m[j] <= m[k]

(* Taking a datagram out of the channel, or repeating it.                  *)
LEMMA NetworkSteps ==
    ASSUME SendingInv, NEW i \in DOMAIN toReceiver,
           toReceiver' = RemoveAt(toReceiver, i) \/ toReceiver' = Duplicated(toReceiver, i)
    PROVE  /\ \E m : InOrder(m)
           /\ i = 1 /\ toReceiver' = RemoveAt(toReceiver, i) =>
                \A j \in DOMAIN toReceiver' :
                  /\ j + 1 \in DOMAIN toReceiver /\ toReceiver'[j] = toReceiver[j + 1]
                  /\ 1 < j + 1
<1> DEFINE len == Len(toReceiver)
<1>1. toReceiver \in Seq(AnyOf(drawn))
  BY DEF SendingInv
<1>2. len \in Nat /\ DOMAIN toReceiver = 1..len /\ i \in 1..len
  BY <1>1
<1>3. CASE toReceiver' = RemoveAt(toReceiver, i)
  <2> DEFINE m == [j \in 1..(len - 1) |-> IF j < i THEN j ELSE j + 1]
  <2>1. /\ toReceiver' \in Seq(AnyOf(drawn)) /\ Len(toReceiver') = len - 1
        /\ \A j \in 1..(len - 1) : toReceiver'[j] = IF j < i THEN toReceiver[j] ELSE toReceiver[j + 1]
    BY <1>1, <1>3, RemoveAtFacts
  <2>2. DOMAIN toReceiver' = 1..(len - 1)
    BY <2>1
  <2> HIDE DEF len
  <2>3. ASSUME NEW j \in 1..(len - 1)
        PROVE  /\ m[j] \in 1..len /\ m[j] \in Nat /\ j \in Nat
               /\ toReceiver'[j] = toReceiver[m[j]]
               /\ \A k \in 1..(len - 1) : j < k => m[j] <= m[k]
    <3>1. toReceiver'[j] = toReceiver[m[j]]
      BY <2>1
    <3>2. m[j] \in 1..len /\ m[j] \in Nat /\ j \in Nat
      BY <1>2
    <3>3. \A k \in 1..(len - 1) : j < k => m[j] <= m[k]
      BY <1>2
    <3> QED
      BY <3>1, <3>2, <3>3
  <2> HIDE DEF m
  <2>4. InOrder(m)
    BY <1>2, <2>2, <2>3 DEF InOrder
  <2>5. ASSUME i = 1, NEW j \in DOMAIN toReceiver'
        PROVE  j + 1 \in DOMAIN toReceiver /\ toReceiver'[j] = toReceiver[j + 1] /\ 1 < j + 1
    <3>1. j \in 1..(len - 1) /\ ~(j < i) /\ j + 1 \in 1..len /\ 1 < j + 1
      BY <1>2, <2>2, <2>5
    <3> QED
      BY <1>2, <2>1, <3>1
  <2> QED
    BY <2>4, <2>5
<1>4. CASE toReceiver' = Duplicated(toReceiver, i)
  <2> DEFINE m == [j \in 1..(len + 1) |-> IF j <= i THEN j ELSE j - 1]
  <2>1. /\ toReceiver' \in Seq(AnyOf(drawn)) /\ Len(toReceiver') = len + 1
        /\ \A j \in 1..(len + 1) : toReceiver'[j] = IF j <= i THEN toReceiver[j] ELSE toReceiver[j - 1]
    BY <1>1, <1>4, InsertAtFacts DEF Duplicated
  <2>2. DOMAIN toReceiver' = 1..(len + 1)
    BY <2>1
  <2>3. toReceiver' # RemoveAt(toReceiver, i)
    <3>1. Len(RemoveAt(toReceiver, i)) = len - 1
      BY <1>1, RemoveAtFacts
    <3>2. len \in Nat
      BY <1>2
    <3> HIDE DEF len
    <3>3. len + 1 # len - 1
      BY <3>2
    <3> QED
      BY <2>1, <3>1, <3>3
  <2> HIDE DEF len
  <2>4. ASSUME NEW j \in 1..(len + 1)
        PROVE  /\ m[j] \in 1..len /\ m[j] \in Nat /\ j \in Nat
               /\ toReceiver'[j] = toReceiver[m[j]]
               /\ \A k \in 1..(len + 1) : j < k => m[j] <= m[k]
    <3>1. toReceiver'[j] = toReceiver[m[j]]
      BY <2>1
    <3>2. m[j] \in 1..len /\ m[j] \in Nat /\ j \in Nat
      BY <1>2
    <3>3. \A k \in 1..(len + 1) : j < k => m[j] <= m[k]
      BY <1>2
    <3> QED
      BY <3>1, <3>2, <3>3
  <2> HIDE DEF m
  <2>5. InOrder(m)
    BY <1>2, <2>2, <2>4 DEF InOrder
  <2> QED
    BY <2>3, <2>5
<1> QED
  BY <1>3, <1>4

(* How the channel to the receiver comes out of a step.                    *)
LEMMA ChannelSteps ==
    ASSUME TransferInv, Next
    PROVE  \/ (\E m : InOrder(m)) /\ DOMAIN outgoing' = DOMAIN outgoing /\ drawn' = drawn
           \/ /\ UNCHANGED receiverVars
              /\ \E id \in PacketId \ drawn :
                   /\ drawn' = drawn \cup {id} /\ DOMAIN outgoing \subseteq DOMAIN outgoing'
                   /\ DOMAIN outgoing' \subseteq DOMAIN outgoing \cup {id}
                   /\ \E sent \in Seq(PartsOf(id)) : toReceiver' = Transmit(toReceiver, sent)
           \/ /\ UNCHANGED receiverVars /\ drawn' = drawn
              /\ DOMAIN outgoing' \subseteq DOMAIN outgoing
              /\ \E sent : Updates(sent) /\ toReceiver' = Transmit(toReceiver, sent)
<1>1. SendingInv /\ IInv
  BY DEF TransferInv
<1>2. ASSUME toReceiver' = toReceiver
      PROVE  \E m : InOrder(m)
  <2> DEFINE m == [j \in DOMAIN toReceiver |-> j]
  <2>1. DOMAIN toReceiver \subseteq Nat
    <3>1. toReceiver \in Seq(AnyOf(drawn))
      BY <1>1 DEF SendingInv
    <3> QED
      BY <3>1
  <2>2. InOrder(m)
    BY <1>2, <2>1 DEF InOrder
  <2> QED
    BY <2>2
<1>3. ASSUME NEW id \in PacketId, SendPacket(id)
      PROVE  /\ UNCHANGED receiverVars
             /\ \E k \in PacketId \ drawn :
                  /\ drawn' = drawn \cup {k} /\ DOMAIN outgoing \subseteq DOMAIN outgoing'
                  /\ DOMAIN outgoing' \subseteq DOMAIN outgoing \cup {k}
                  /\ \E sent \in Seq(PartsOf(k)) : toReceiver' = Transmit(toReceiver, sent)
  <2>1. /\ UNCHANGED receiverVars /\ id \notin drawn
        /\ drawn' = drawn \cup {id} /\ DOMAIN outgoing \subseteq DOMAIN outgoing'
        /\ DOMAIN outgoing' \subseteq DOMAIN outgoing \cup {id}
        /\ \E sent \in Seq(PartsOf(id)) : toReceiver' = Transmit(toReceiver, sent)
    BY <1>1, <1>3, SendEffect DEF SendPacket
  <2> QED
    BY <2>1, Zenon
<1>4. ASSUME NEW run \in UpdateRuns, UpdateSender(run) \/ FailSender(run)
      PROVE  /\ UNCHANGED receiverVars /\ drawn' = drawn
             /\ DOMAIN outgoing' \subseteq DOMAIN outgoing
             /\ \E sent : Updates(sent) /\ toReceiver' = Transmit(toReceiver, sent)
  <2>1. UNCHANGED receiverVars /\ (UpdateOutgoing(run) \/ UpdateFails(run))
    BY <1>4 DEF UpdateSender, FailSender
  <2>2. /\ drawn' = drawn /\ \A id \in DOMAIN outgoing' : Stays(id)
        /\ \E sent : Updates(sent) /\ toReceiver' = Transmit(toReceiver, sent)
    BY <1>1, <2>1, UpdateEffect, Zenon
  <2>3. DOMAIN outgoing' \subseteq DOMAIN outgoing
    BY <2>2 DEF Stays
  <2> QED
    BY <2>1, <2>2, <2>3, Zenon
<1>5. ASSUME NEW i \in DOMAIN toReceiver, NEW ack \in AckResults, ReceiveDatagram(i, ack)
      PROVE  (\E m : InOrder(m)) /\ DOMAIN outgoing' = DOMAIN outgoing /\ drawn' = drawn
  BY <1>1, <1>5, NetworkSteps DEF ReceiveDatagram
<1>6. ASSUME NEW i \in DOMAIN toSender, ReceiveAck(i)
      PROVE  (\E m : InOrder(m)) /\ DOMAIN outgoing' = DOMAIN outgoing /\ drawn' = drawn
  BY <1>2, <1>6 DEF ReceiveAck, HandleAck
<1>7. CASE Tick
  BY <1>2, <1>7 DEF Tick, AgedOutgoing
<1>8. CASE UpdateReceiver
  BY <1>2, <1>8 DEF UpdateReceiver, senderVars
<1>9. CASE Lose
  BY <1>1, <1>2, <1>9, NetworkSteps DEF Lose, senderVars
<1>10. CASE Duplicate
  BY <1>1, <1>2, <1>10, NetworkSteps DEF Duplicate, senderVars
<1> QED
  BY <1>3, <1>4, <1>5, <1>6, <1>7, <1>8, <1>9, <1>10 DEF Next

(* It is not forgotten that a packet would have blocked.                   *)
LEMMA BlockedSteps ==
    ASSUME TransferInv, Next
    PROVE  blocked \subseteq blocked'
<1>1. SendingInv
  BY DEF TransferInv
<1>2. ASSUME NEW id \in PacketId, SendPacket(id)
      PROVE  blocked \subseteq blocked'
  BY <1>1, <1>2, SendEffect DEF SendPacket
<1>3. (\E id \in PacketId : SendPacket(id)) \/ blocked' = blocked
  BY DEF Next, UpdateSender, UpdateOutgoing, FailSender, UpdateFails, UpdateReceiver,
         ReceiveDatagram, ReceiveAck, HandleAck, Lose, Duplicate, Tick, senderVars
<1> QED
  BY <1>2, <1>3

(* The packets to be given up are those that would have blocked.           *)
GivenUpWasBlocked == \A id \in DOMAIN outgoing : Canceled(outgoing[id]) => id \in blocked

(* A Done is sent when every part is settled, and every settled part has   *)
(* arrived, or when the packet is given up.                                *)
LEMMA DoneStep ==
    ASSUME TransferInv, AckedPartsArrived, GivenUpWasBlocked, DoneMeansReceived, Next
    PROVE  DoneMeansReceived' /\ GivenUpWasBlocked'
<1>0. blocked \subseteq blocked'
  BY BlockedSteps
<1>1. SendingInv /\ IInv
  BY DEF TransferInv
<1>2. GivenUpWasBlocked'
  BY <1>0, OutgoingSteps DEF GivenUpWasBlocked, Canceled, Stays, IsNew, Hears
<1>3. TransferInv'
  BY TransferNextInv
<1>4. \A id \in PacketId : arrived[id] \subseteq arrived'[id] /\ arrived'[id] \subseteq Parts(id)
  BY <1>3, AckSteps DEF TransferInv, IInv, ReceiverTypeOK
<1>5. ASSUME NEW id \in PacketId, arrived[id] = Parts(id)
      PROVE  arrived'[id] = Parts(id)
  BY <1>4, <1>5
<1>6. ASSUME NEW i \in DOMAIN toReceiver, toReceiver[i].kind = "Done"
      PROVE  arrived'[toReceiver[i].id] = Parts(toReceiver[i].id) \/ toReceiver[i].id \in blocked'
  BY <1>0, <1>1, <1>5, <1>6, OnTheWay DEF DoneMeansReceived
<1>7. ASSUME NEW m, InOrder(m)
      PROVE  DoneMeansReceived'
  BY <1>6, <1>7 DEF DoneMeansReceived, InOrder
<1>8. ASSUME NEW id \in PacketId, drawn' = drawn \cup {id},
             NEW sent \in Seq(PartsOf(id)), toReceiver' = Transmit(toReceiver, sent)
      PROVE  DoneMeansReceived'
  <2>1. sent \in Seq(AnyOf(drawn')) /\ drawn \subseteq drawn'
    <3>1. PartsOf(id) \subseteq AnyOf(drawn') /\ drawn \subseteq drawn'
      BY <1>8 DEF AnyOf, DatagramsOf
    <3> QED
      BY <3>1
  <2>2. \A j \in DOMAIN toReceiver' :
          \/ j \in DOMAIN toReceiver /\ toReceiver'[j] = toReceiver[j]
          \/ /\ j > Len(toReceiver) /\ j - Len(toReceiver) \in DOMAIN sent
             /\ toReceiver'[j] = sent[j - Len(toReceiver)]
    BY <1>1, <1>8, <2>1, ChannelFacts
  <2>3. \A p \in DOMAIN sent : sent[p].kind # "Done"
    BY DatagramFacts
  <2> QED
    BY <1>6, <2>2, <2>3 DEF DoneMeansReceived
<1>9. ASSUME drawn' = drawn, NEW sent, Updates(sent), toReceiver' = Transmit(toReceiver, sent)
      PROVE  DoneMeansReceived'
  <2>1. sent \in Seq(AnyOf(drawn))
    <3>1. AnyOf(DOMAIN outgoing) \subseteq AnyOf(drawn)
      BY <1>1 DEF AnyOf, SendingInv
    <3> QED
      BY <1>9, <3>1 DEF Updates
  <2>2. \A j \in DOMAIN toReceiver' :
          \/ j \in DOMAIN toReceiver /\ toReceiver'[j] = toReceiver[j]
          \/ /\ j > Len(toReceiver) /\ j - Len(toReceiver) \in DOMAIN sent
             /\ toReceiver'[j] = sent[j - Len(toReceiver)]
    BY <1>1, <1>9, <2>1, ChannelFacts
  <2>3. ASSUME NEW p \in DOMAIN sent, sent[p].kind = "Done"
        PROVE  arrived'[sent[p].id] = Parts(sent[p].id) \/ sent[p].id \in blocked'
    <3>1. PICK id \in DOMAIN outgoing :
             sent[p].id = id /\ (sent[p] \in PartsOf(id) \/ IsFinished(id))
      BY <1>9 DEF Updates
    <3>2. id \in PacketId
      BY <1>1 DEF SendingInv, OutgoingFits
    <3>3. IsFinished(id)
      BY <2>3, <3>1, <3>2, DatagramFacts
    <3>4. CASE Canceled(outgoing[id])
      BY <1>0, <3>1, <3>4 DEF GivenUpWasBlocked
    <3>5. CASE Settled(outgoing[id].queue) = Parts(id)
      <4>1. Parts(id) \subseteq arrived[id]
        BY <3>5 DEF AckedPartsArrived
      <4>2. arrived'[id] = Parts(id)
        BY <1>4, <3>2, <4>1
      <4> QED
        BY <3>1, <4>2
    <3> QED
      BY <3>3, <3>4, <3>5 DEF IsFinished
  <2> QED
    BY <1>6, <2>2, <2>3 DEF DoneMeansReceived
<1>10. DoneMeansReceived'
  BY <1>7, <1>8, <1>9, ChannelSteps
<1> QED
  BY <1>2, <1>10

(* "Confirms that all acks of a reliable packet were received by the       *)
(* sender": if every packet fits in one datagram, a Done on its way is for *)
(* a packet of which every part was received, or for one whose first send  *)
(* would have blocked, which is given up with a Done.                      *)
THEOREM DoneMeansEverythingArrived ==
    ASSUME SinglePart
    PROVE  Spec => []DoneMeansReceived
<1> DEFINE AInv == /\ TransferInv /\ AckedPartsArrived /\ AcksArrived
                   /\ GivenUpWasBlocked /\ DoneMeansReceived
<1>1. Init => AInv
  <2> SUFFICES ASSUME Init PROVE AInv
    OBVIOUS
  <2>1. DOMAIN outgoing = {} /\ DOMAIN toSender = {} /\ DOMAIN toReceiver = {}
    BY DEF Init, SenderInit, ReceiverInit
  <2> QED
    BY <2>1, TransferInitInv
    DEF AckedPartsArrived, AcksArrived, GivenUpWasBlocked, DoneMeansReceived
<1>2. AInv /\ [Next]_vars => AInv'
  <2> SUFFICES ASSUME AInv, [Next]_vars PROVE AInv'
    OBVIOUS
  <2>1. CASE Next
    BY <2>1, ArrivedStep, DoneStep, TransferNextInv
  <2>2. CASE UNCHANGED vars
    BY <2>2, TransferNextInv
    DEF vars, AckedPartsArrived, AcksArrived, GivenUpWasBlocked, DoneMeansReceived, Canceled
  <2> QED
    BY <2>1, <2>2
<1> QED
  BY <1>1, <1>2, PTL DEF Spec

-----------------------------------------------------------------------------
(* At most once                                                            *)

(* Nothing but Dones of a packet is on the way.                            *)
OnlyDones(id) ==
    \A i \in DOMAIN toReceiver : toReceiver[i].id = id => toReceiver[i].kind = "Done"

(* The sender is finished with a packet and no part of it is on the way.   *)
Over(id) == id \notin DOMAIN outgoing /\ OnlyDones(id)

(* A Done on its way is the last word about its packet.                    *)
DoneIsLast ==
    \A i \in DOMAIN toReceiver : toReceiver[i].kind = "Done" =>
        /\ toReceiver[i].id \notin DOMAIN outgoing
        /\ \A j \in DOMAIN toReceiver :
             i < j /\ toReceiver[j].id = toReceiver[i].id => toReceiver[j].kind = "Done"

(* The receiver has all of a packet and knows that it does, or it forgot   *)
(* the packet: too early, or when no part of it could come any more.       *)
Remembered(id) ==
    \/ id \in DOMAIN incoming /\ Complete(id)
    \/ "timeout" \in forgotten[id]
    \/ "done" \in forgotten[id] /\ ("reorder" \in NetworkFaults \/ Over(id))

(* What keeps a packet from being delivered twice.                         *)
DeliveredIsRemembered ==
    /\ DOMAIN incoming \subseteq drawn
    /\ \A id \in PacketId : delivered[id] > 0 => id \in drawn /\ Remembered(id)

(* What an update sends is found behind what was there.                    *)
LEMMA UpdateChannel ==
    ASSUME SendingInv, drawn' = drawn, NEW sent, Updates(sent),
           toReceiver' = Transmit(toReceiver, sent)
    PROVE  /\ Len(toReceiver) \in Nat /\ DOMAIN toReceiver = 1..Len(toReceiver)
           /\ DOMAIN toReceiver' \subseteq Nat
           /\ \A j \in DOMAIN toReceiver' :
                \/ j \in DOMAIN toReceiver /\ toReceiver'[j] = toReceiver[j]
                \/ /\ j > Len(toReceiver) /\ j - Len(toReceiver) \in DOMAIN sent
                   /\ toReceiver'[j] = sent[j - Len(toReceiver)]
<1>1. sent \in Seq(AnyOf(drawn))
  <2>1. AnyOf(DOMAIN outgoing) \subseteq AnyOf(drawn)
    BY DEF AnyOf, SendingInv
  <2> QED
    BY <2>1 DEF Updates
<1>2. /\ Len(toReceiver) \in Nat /\ DOMAIN toReceiver = 1..Len(toReceiver)
      /\ Len(toReceiver') \in Nat /\ DOMAIN toReceiver' = 1..Len(toReceiver')
      /\ \A j \in DOMAIN toReceiver' :
           \/ j \in DOMAIN toReceiver /\ toReceiver'[j] = toReceiver[j]
           \/ /\ j > Len(toReceiver) /\ j - Len(toReceiver) \in DOMAIN sent
              /\ toReceiver'[j] = sent[j - Len(toReceiver)]
  BY <1>1, ChannelFacts
<1>3. DOMAIN toReceiver' \subseteq Nat
  BY <1>2
<1> QED
  BY <1>2, <1>3, Zenon

(* So are the parts of a new packet.                                       *)
LEMMA SendChannel ==
    ASSUME SendingInv, NEW id \in PacketId, drawn' = drawn \cup {id},
           NEW sent \in Seq(PartsOf(id)), toReceiver' = Transmit(toReceiver, sent)
    PROVE  \A j \in DOMAIN toReceiver' :
             \/ j \in DOMAIN toReceiver /\ toReceiver'[j] = toReceiver[j]
             \/ toReceiver'[j].id = id /\ toReceiver'[j].kind # "Done"
<1>1. sent \in Seq(AnyOf(drawn')) /\ drawn \subseteq drawn'
  <2>1. PartsOf(id) \subseteq AnyOf(drawn')
    BY DEF AnyOf, DatagramsOf
  <2>2. drawn \subseteq drawn'
    OBVIOUS
  <2> DEFINE from == PartsOf(id)
             to == AnyOf(drawn')
  <2>3. sent \in Seq(from) /\ from \subseteq to
    BY <2>1
  <2> HIDE DEF from, to
  <2>4. sent \in Seq(to)
    BY <2>3
  <2> QED
    BY <2>2, <2>4 DEF to
<1>2. \A j \in DOMAIN toReceiver' :
        \/ j \in DOMAIN toReceiver /\ toReceiver'[j] = toReceiver[j]
        \/ /\ j > Len(toReceiver) /\ j - Len(toReceiver) \in DOMAIN sent
           /\ toReceiver'[j] = sent[j - Len(toReceiver)]
  BY <1>1, ChannelFacts
<1>3. \A p \in DOMAIN sent : sent[p].kind # "Done" /\ sent[p].id = id
  BY DatagramFacts
<1> QED
  BY <1>2, <1>3

(* Nothing is sent of a packet that is over.                               *)
LEMMA OverStep ==
    ASSUME TransferInv, Next, NEW id \in drawn, Over(id)
    PROVE  Over(id)'
<1>1. SendingInv
  BY DEF TransferInv
<1>2. ASSUME NEW m, InOrder(m), DOMAIN outgoing' = DOMAIN outgoing
      PROVE  Over(id)'
  BY <1>2 DEF Over, OnlyDones, InOrder
<1>3. ASSUME NEW k \in PacketId \ drawn, drawn' = drawn \cup {k},
             DOMAIN outgoing' \subseteq DOMAIN outgoing \cup {k},
             NEW sent \in Seq(PartsOf(k)), toReceiver' = Transmit(toReceiver, sent)
      PROVE  Over(id)'
  <2>1. \A j \in DOMAIN toReceiver' :
          \/ j \in DOMAIN toReceiver /\ toReceiver'[j] = toReceiver[j]
          \/ toReceiver'[j].id = k /\ toReceiver'[j].kind # "Done"
    BY <1>1, <1>3, SendChannel
  <2> QED
    BY <1>3, <2>1 DEF Over, OnlyDones
<1>4. ASSUME drawn' = drawn, DOMAIN outgoing' \subseteq DOMAIN outgoing,
             NEW sent, Updates(sent), toReceiver' = Transmit(toReceiver, sent)
      PROVE  Over(id)'
  <2>1. \A j \in DOMAIN toReceiver' :
          \/ j \in DOMAIN toReceiver /\ toReceiver'[j] = toReceiver[j]
          \/ \E p \in DOMAIN sent : toReceiver'[j] = sent[p]
    BY <1>1, <1>4, UpdateChannel
  <2>2. \A p \in DOMAIN sent : sent[p].id \in DOMAIN outgoing
    BY <1>4 DEF Updates
  <2> QED
    BY <1>4, <2>1, <2>2 DEF Over, OnlyDones
<1> QED
  BY <1>2, <1>3, <1>4, ChannelSteps

(* A Done remains the last word: the sender is finished with its packet,   *)
(* and the network does not move datagrams past each other.                *)
LEMMA DoneIsLastStep ==
    ASSUME TransferInv, DoneIsLast, Next
    PROVE  DoneIsLast'
<1>1. SendingInv
  BY DEF TransferInv
<1>2. \A i \in DOMAIN toReceiver : toReceiver[i].id \in drawn
  BY <1>1, OnTheWay
<1>3. ASSUME NEW m, InOrder(m), DOMAIN outgoing' = DOMAIN outgoing
      PROVE  DoneIsLast'
  <2> SUFFICES ASSUME NEW i \in DOMAIN toReceiver', toReceiver'[i].kind = "Done"
               PROVE  /\ toReceiver'[i].id \notin DOMAIN outgoing'
                      /\ \A j \in DOMAIN toReceiver' :
                           i < j /\ toReceiver'[j].id = toReceiver'[i].id
                             => toReceiver'[j].kind = "Done"
    BY DEF DoneIsLast
  <2>1. m[i] \in DOMAIN toReceiver /\ toReceiver'[i] = toReceiver[m[i]] /\ m[i] \in Nat
    BY <1>3 DEF InOrder
  <2>2. ASSUME NEW j \in DOMAIN toReceiver', i < j, toReceiver'[j].id = toReceiver'[i].id
        PROVE  toReceiver'[j].kind = "Done"
    <3>1. m[j] \in DOMAIN toReceiver /\ toReceiver'[j] = toReceiver[m[j]] /\ m[j] \in Nat
      BY <1>3 DEF InOrder
    <3>2. m[i] <= m[j]
      BY <1>3, <2>2 DEF InOrder
    <3>3. CASE m[i] = m[j]
      BY <2>1, <3>1, <3>3
    <3>4. CASE m[i] < m[j]
      BY <2>1, <2>2, <3>1, <3>4 DEF DoneIsLast
    <3> QED
      BY <2>1, <3>1, <3>2, <3>3, <3>4
  <2> QED
    BY <1>3, <2>1, <2>2 DEF DoneIsLast
<1>4. ASSUME NEW k \in PacketId \ drawn, drawn' = drawn \cup {k},
             DOMAIN outgoing' \subseteq DOMAIN outgoing \cup {k},
             NEW sent \in Seq(PartsOf(k)), toReceiver' = Transmit(toReceiver, sent)
      PROVE  DoneIsLast'
  <2>1. \A j \in DOMAIN toReceiver' :
          \/ j \in DOMAIN toReceiver /\ toReceiver'[j] = toReceiver[j]
          \/ toReceiver'[j].id = k /\ toReceiver'[j].kind # "Done"
    BY <1>1, <1>4, SendChannel
  <2> QED
    BY <1>2, <1>4, <2>1 DEF DoneIsLast
<1>5. ASSUME drawn' = drawn, DOMAIN outgoing' \subseteq DOMAIN outgoing,
             NEW sent, Updates(sent), toReceiver' = Transmit(toReceiver, sent)
      PROVE  DoneIsLast'
  <2> DEFINE len == Len(toReceiver)
  <2>1. /\ len \in Nat /\ DOMAIN toReceiver = 1..len /\ DOMAIN toReceiver' \subseteq Nat
        /\ \A j \in DOMAIN toReceiver' :
             \/ j \in DOMAIN toReceiver /\ toReceiver'[j] = toReceiver[j]
             \/ j > len /\ j - len \in DOMAIN sent /\ toReceiver'[j] = sent[j - len]
    BY <1>1, <1>5, UpdateChannel
  <2> HIDE DEF len
  <2> SUFFICES ASSUME NEW i \in DOMAIN toReceiver', toReceiver'[i].kind = "Done"
               PROVE  /\ toReceiver'[i].id \notin DOMAIN outgoing'
                      /\ \A j \in DOMAIN toReceiver' :
                           i < j /\ toReceiver'[j].id = toReceiver'[i].id
                             => toReceiver'[j].kind = "Done"
    BY DEF DoneIsLast
  <2>2. \A p \in DOMAIN sent : sent[p].id \in DOMAIN outgoing
    BY <1>5 DEF Updates
  <2>3. CASE i \in DOMAIN toReceiver /\ toReceiver'[i] = toReceiver[i]
    <3>1. toReceiver[i].id \notin DOMAIN outgoing
      BY <2>3 DEF DoneIsLast
    <3>2. ASSUME NEW j \in DOMAIN toReceiver', i < j, toReceiver'[j].id = toReceiver'[i].id
          PROVE  toReceiver'[j].kind = "Done"
      <4>1. j \in DOMAIN toReceiver /\ toReceiver'[j] = toReceiver[j]
        BY <2>1, <2>2, <2>3, <3>1, <3>2
      <4> QED
        BY <2>3, <3>2, <4>1 DEF DoneIsLast
    <3> QED
      BY <1>5, <2>3, <3>1, <3>2
  <2>4. CASE i > len /\ i - len \in DOMAIN sent /\ toReceiver'[i] = sent[i - len]
    <3> DEFINE p == i - len
    <3>1. PICK id \in DOMAIN outgoing :
             /\ sent[p].id = id
             /\ \/ sent[p] \in PartsOf(id)
                \/ /\ sent[p] = DoneDatagram(id) /\ IsFinished(id)
                   /\ \A q \in DOMAIN sent : p < q => sent[q].id # id
      BY <1>5, <2>4 DEF Updates
    <3>2. id \in PacketId
      BY <1>1 DEF SendingInv, OutgoingFits
    <3>3. IsFinished(id) /\ \A q \in DOMAIN sent : p < q => sent[q].id # id
      BY <2>4, <3>1, <3>2, DatagramFacts
    <3>4. toReceiver'[i].id = id /\ id \notin DOMAIN outgoing'
      BY <2>4, <3>1, <3>3 DEF IsFinished
    <3>5. ASSUME NEW j \in DOMAIN toReceiver', i < j, toReceiver'[j].id = id
          PROVE  FALSE
      <4>1. i \in Nat /\ j \in Nat
        BY <2>1
      <4>2. ~(j \in DOMAIN toReceiver)
        BY <2>1, <2>4, <3>5, <4>1
      <4>3. j - len \in DOMAIN sent /\ toReceiver'[j] = sent[j - len]
        BY <2>1, <4>2
      <4>4. p < j - len
        BY <2>1, <3>5, <4>1
      <4> QED
        BY <3>3, <3>5, <4>3, <4>4
    <3> QED
      BY <3>4, <3>5
  <2> QED
    BY <2>1, <2>3, <2>4
<1> QED
  BY <1>3, <1>4, <1>5, ChannelSteps

(* What stays remembered of a packet while its entry keeps its payload.    *)
LEMMA RememberedStays ==
    ASSUME TransferInv, Next, NEW id \in drawn, Remembered(id),
           forgotten[id] \subseteq forgotten'[id],
           id \in DOMAIN incoming /\ Complete(id) => id \in DOMAIN incoming' /\ Complete(id)'
    PROVE  Remembered(id)'
<1>1. CASE Over(id)
  <2>1. Over(id)'
    BY <1>1, OverStep
  <2> QED
    BY <2>1 DEF Remembered
<1>2. CASE ~Over(id)
  BY <1>2 DEF Remembered
<1> QED
  BY <1>1, <1>2

(* A step that delivers nothing and forgets nothing: it offers a packet,   *)
(* or the sender finishes some packets, if any.                            *)
LEMMA QuietStep ==
    ASSUME TransferInv, DeliveredIsRemembered, Next, UNCHANGED <<delivered, forgotten>>,
           DOMAIN incoming' = DOMAIN incoming,
           \A id \in DOMAIN incoming : incoming'[id].payload = incoming[id].payload
    PROVE  DeliveredIsRemembered' /\ [D!Next]_(D!vars)
<1>1. SendingInv
  BY DEF TransferInv
<1>2. drawn \subseteq drawn'
  BY ChannelSteps
<1>3. ASSUME NEW id \in PacketId, delivered'[id] > 0
      PROVE  id \in drawn' /\ Remembered(id)'
  <2>1. id \in drawn /\ Remembered(id)
    BY <1>3 DEF DeliveredIsRemembered
  <2>2. id \in DOMAIN incoming /\ Complete(id) => id \in DOMAIN incoming' /\ Complete(id)'
    BY DEF Complete
  <2>3. Remembered(id)'
    BY <2>1, <2>2, RememberedStays
  <2> QED
    BY <1>2, <2>1, <2>3
<1>4. DeliveredIsRemembered'
  BY <1>2, <1>3 DEF DeliveredIsRemembered
<1>5. ASSUME drawn' = drawn, DOMAIN outgoing' \subseteq DOMAIN outgoing
      PROVE  D!Next
  <2> DEFINE P == DOMAIN outgoing \ DOMAIN outgoing'
  <2>1. P \in SUBSET PacketId /\ P \subseteq drawn
    BY <1>1 DEF SendingInv
  <2>2. drawn' \ DOMAIN outgoing' = (drawn \ DOMAIN outgoing) \cup P
    BY <1>1, <1>5 DEF SendingInv
  <2>3. D!Finish(P)
    BY <1>5, <2>1, <2>2 DEF D!Finish
  <2> QED
    BY <2>1, <2>3 DEF D!Next
<1>6. ASSUME NEW k \in PacketId \ drawn, drawn' = drawn \cup {k},
             DOMAIN outgoing \subseteq DOMAIN outgoing',
             DOMAIN outgoing' \subseteq DOMAIN outgoing \cup {k}
      PROVE  D!Next
  <2>1. drawn' \ DOMAIN outgoing'
          \in {drawn \ DOMAIN outgoing, (drawn \ DOMAIN outgoing) \cup {k}}
    <3>1. k \notin DOMAIN outgoing
      BY <1>1 DEF SendingInv
    <3>2. CASE k \in DOMAIN outgoing'
      <4>1. drawn' \ DOMAIN outgoing' = drawn \ DOMAIN outgoing
        BY <1>6, <3>1, <3>2
      <4> QED
        BY <4>1
    <3>3. CASE k \notin DOMAIN outgoing'
      <4>1. drawn' \ DOMAIN outgoing' = (drawn \ DOMAIN outgoing) \cup {k}
        BY <1>6, <3>1, <3>3
      <4> QED
        BY <4>1
    <3> QED
      BY <3>2, <3>3
  <2>2. D!Offer(k)
    BY <1>6, <2>1 DEF D!Offer
  <2> QED
    BY <2>2 DEF D!Next
<1>7. D!Next
  BY <1>5, <1>6, ChannelSteps
<1> QED
  BY <1>4, <1>7

(* A Done arrives: its packet is finished.  When it arrives first in line, *)
(* no part of its packet is behind it.                                     *)
LEMMA DoneArrives ==
    ASSUME TransferInv, DoneIsLast, DeliveredIsRemembered, Next,
           NEW i \in DOMAIN toReceiver, NEW ack \in AckResults, ReceiveDatagram(i, ack),
           toReceiver[i].kind = "Done"
    PROVE  DeliveredIsRemembered' /\ [D!Next]_(D!vars)
<1>0. PICK done : done = toReceiver[i].id
  OBVIOUS
<1>1. SendingInv /\ ForgottenOK
  BY DEF TransferInv
<1>2. /\ i \in Deliverable(toReceiver) /\ toReceiver' = RemoveAt(toReceiver, i)
      /\ HandleDone(done) /\ drawn' = drawn /\ outgoing' = outgoing
      /\ forgotten' = [forgotten EXCEPT ![done] = @ \cup {"done"}]
  BY <1>0 DEF ReceiveDatagram
<1>3. /\ delivered' = delivered /\ DOMAIN incoming' = DOMAIN incoming \ {done}
      /\ \A id \in DOMAIN incoming' : incoming'[id] = incoming[id]
  BY <1>2 DEF HandleDone, Without
<1>4. done \in drawn /\ done \in PacketId /\ done \notin DOMAIN outgoing
  BY <1>0, <1>1, OnTheWay DEF DoneIsLast
<1>5. /\ "done" \in forgotten'[done]
      /\ \A id \in PacketId : forgotten[id] \subseteq forgotten'[id]
  BY <1>1, <1>2, <1>4 DEF ForgottenOK
<1>6. "reorder" \in NetworkFaults \/ Over(done)'
  <2> SUFFICES ASSUME "reorder" \notin NetworkFaults PROVE Over(done)'
    OBVIOUS
  <2>1. i = 1
    BY <1>2 DEF Deliverable
  <2>2. ASSUME NEW j \in DOMAIN toReceiver', toReceiver'[j].id = done
        PROVE  toReceiver'[j].kind = "Done"
    <3>1. j + 1 \in DOMAIN toReceiver /\ toReceiver'[j] = toReceiver[j + 1] /\ 1 < j + 1
      BY <1>1, <1>2, <2>1, NetworkSteps
    <3>2. i < j + 1 /\ toReceiver[j + 1].id = toReceiver[i].id
      BY <1>0, <2>1, <2>2, <3>1
    <3> QED
      BY <3>1, <3>2 DEF DoneIsLast
  <2> QED
    BY <1>2, <1>4, <2>2 DEF Over, OnlyDones
<1>7. ASSUME NEW id \in PacketId, delivered'[id] > 0
      PROVE  id \in drawn' /\ Remembered(id)'
  <2>1. id \in drawn /\ Remembered(id)
    BY <1>3, <1>7 DEF DeliveredIsRemembered
  <2>2. CASE id = done
    BY <1>2, <1>4, <1>5, <1>6, <2>2 DEF Remembered
  <2>3. CASE id # done
    <3>1. id \in DOMAIN incoming /\ Complete(id) => id \in DOMAIN incoming' /\ Complete(id)'
      BY <1>3, <2>3 DEF Complete
    <3> QED
      BY <1>2, <1>5, <2>1, <3>1, RememberedStays
  <2> QED
    BY <2>2, <2>3
<1>8. DeliveredIsRemembered'
  BY <1>2, <1>3, <1>7 DEF DeliveredIsRemembered
<1>9. D!Forget(done)
  BY <1>2, <1>3, <1>4 DEF D!Forget
<1> QED
  BY <1>4, <1>8, <1>9 DEF D!Next

(* A part of a delivered packet finds it complete, unless the packet was   *)
(* forgotten too early.                                                    *)
LEMMA PartArrives ==
    ASSUME TransferInv, DeliveredIsRemembered, Next,
           NEW i \in DOMAIN toReceiver, NEW ack \in AckResults, ReceiveDatagram(i, ack),
           toReceiver[i].kind # "Done"
    PROVE  DeliveredIsRemembered' /\ [D!Next]_(D!vars)
<1>0. PICK id, seq : id = toReceiver[i].id /\ seq = toReceiver[i].seq
  OBVIOUS
<1> DEFINE got == Receive(seq = LastPart(id), id, seq)
           before == IF id \in DOMAIN incoming THEN incoming[id].payload ELSE {}
<1>1. SendingInv /\ IInv /\ ForgottenOK
  BY DEF TransferInv
<1>2. id \in drawn /\ id \in PacketId /\ seq \in Parts(id)
  BY <1>0, <1>1, OnTheWay
<1>3. (toReceiver[i].kind = "LastPart") = (seq = LastPart(id))
  <2>1. toReceiver[i] = PartDatagram(id, seq)
    BY <1>0, <1>1, OnTheWay
  <2>2. toReceiver[i].kind = IF seq = LastPart(id) THEN "LastPart" ELSE "Part"
    BY <2>1 DEF PartDatagram
  <2> QED
    BY <2>2
<1>4. /\ HandlePart(id, seq, ack) /\ drawn' = drawn /\ outgoing' = outgoing
      /\ forgotten' = IF Delivers(Receive(toReceiver[i].kind = "LastPart", id, seq).result, ack)
                      THEN [forgotten EXCEPT ![id] = {}] ELSE forgotten
  BY <1>0 DEF ReceiveDatagram
<1>5. ~Over(id)
  BY <1>0 DEF Over, OnlyDones
<1>6. /\ got.result \in {"Panic", "Duplicate", "Reassembled", "Pending"}
      /\ got.result \in {"Panic", "Duplicate"} => got.entry.payload = before
      /\ got.result \in {"Reassembled", "Pending"} => before # Parts(id)
      /\ got.result = "Reassembled" => got.entry.payload = Parts(id)
  BY <1>1, <1>2, ReceiveCorrect
<1>7. /\ DOMAIN incoming' = DOMAIN incoming \cup {id} /\ incoming'[id] = got.entry
      /\ \A k \in DOMAIN incoming' : k # id => incoming'[k] = incoming[k]
  BY <1>4 DEF HandlePart, Insert
<1>8. \/ delivered' = delivered /\ forgotten' = forgotten
      \/ /\ got.result = "Reassembled"
         /\ delivered' = [delivered EXCEPT ![id] = Older(@, DeliveredMax)]
         /\ forgotten' = [forgotten EXCEPT ![id] = {}]
  BY <1>3, <1>4 DEF HandlePart, Delivers
<1> HIDE DEF got
<1>9. delivered \in [PacketId -> 0..DeliveredMax]
  BY <1>1 DEF IInv, ReceiverTypeOK
<1>10. id \in DOMAIN incoming /\ Complete(id) => got.result \in {"Panic", "Duplicate"}
  <2> SUFFICES ASSUME id \in DOMAIN incoming, Complete(id)
               PROVE  got.result \in {"Panic", "Duplicate"}
    OBVIOUS
  <2>1. before = Parts(id)
    BY DEF Complete
  <2> HIDE DEF before
  <2> QED
    BY <1>6, <2>1
<1>11. id \in DOMAIN incoming /\ Complete(id) => id \in DOMAIN incoming' /\ Complete(id)'
  <2> SUFFICES ASSUME id \in DOMAIN incoming, Complete(id)
               PROVE  id \in DOMAIN incoming' /\ Complete(id)'
    OBVIOUS
  <2>1. before = Parts(id)
    BY DEF Complete
  <2>2. incoming'[id].payload = before
    BY <1>6, <1>7, <1>10
  <2> HIDE DEF before
  <2> QED
    BY <1>7, <2>1, <2>2 DEF Complete
<1>12. CASE delivered' = delivered /\ forgotten' = forgotten
  <2>1. ASSUME NEW k \in PacketId, delivered'[k] > 0
        PROVE  k \in drawn' /\ Remembered(k)'
    <3>1. k \in drawn /\ Remembered(k)
      BY <1>12, <2>1 DEF DeliveredIsRemembered
    <3>2. k \in DOMAIN incoming /\ Complete(k) => k \in DOMAIN incoming' /\ Complete(k)'
      BY <1>7, <1>11 DEF Complete
    <3> QED
      BY <1>4, <1>12, <3>1, <3>2, RememberedStays
  <2>2. DeliveredIsRemembered'
    BY <1>2, <1>4, <1>7, <2>1 DEF DeliveredIsRemembered
  <2>3. UNCHANGED D!vars
    BY <1>4, <1>12 DEF D!vars
  <2> QED
    BY <2>2, <2>3
<1>13. CASE /\ got.result = "Reassembled"
            /\ delivered' = [delivered EXCEPT ![id] = Older(@, DeliveredMax)]
            /\ forgotten' = [forgotten EXCEPT ![id] = {}]
  <2>1. ~(id \in DOMAIN incoming /\ Complete(id))
    BY <1>10, <1>13
  <2>2. ASSUME NEW k \in PacketId, delivered'[k] > 0
        PROVE  k \in drawn' /\ Remembered(k)'
    <3>1. CASE k = id
      <4>1. k \in DOMAIN incoming' /\ Complete(k)'
        BY <1>6, <1>7, <1>13, <3>1 DEF Complete
      <4> QED
        BY <1>2, <1>4, <3>1, <4>1 DEF Remembered
    <3>2. CASE k # id
      <4>1. delivered'[k] = delivered[k] /\ forgotten'[k] = forgotten[k]
        BY <1>1, <1>9, <1>13, <3>2 DEF ForgottenOK
      <4>2. k \in drawn /\ Remembered(k)
        BY <2>2, <4>1 DEF DeliveredIsRemembered
      <4>3. k \in DOMAIN incoming /\ Complete(k) => k \in DOMAIN incoming' /\ Complete(k)'
        BY <1>7, <3>2 DEF Complete
      <4> QED
        BY <1>4, <4>1, <4>2, <4>3, RememberedStays
    <3> QED
      BY <3>1, <3>2
  <2>3. DeliveredIsRemembered'
    BY <1>2, <1>4, <1>7, <2>2 DEF DeliveredIsRemembered
  <2>4. D!MayDeliver(id)
    <3>1. CASE delivered[id] = 0
      BY <3>1 DEF D!MayDeliver
    <3>2. CASE delivered[id] # 0
      <4>1. delivered[id] > 0
        BY <1>2, <1>9, <3>2, DeliveredMaxAssumption
      <4>2. Remembered(id)
        BY <1>2, <4>1 DEF DeliveredIsRemembered
      <4> QED
        BY <1>5, <2>1, <4>2 DEF Remembered, D!MayDeliver
    <3> QED
      BY <3>1, <3>2
  <2>5. D!Deliver(id)
    BY <1>2, <1>4, <1>13, <2>4 DEF D!Deliver, Older
  <2> QED
    BY <1>2, <2>3, <2>5 DEF D!Next
<1> QED
  BY <1>8, <1>12, <1>13

(* The receiver forgets the packets it has not heard of for too long.      *)
LEMMA PacketsExpire ==
    ASSUME TransferInv, DeliveredIsRemembered, Next, UpdateReceiver
    PROVE  DeliveredIsRemembered' /\ [D!Next]_(D!vars)
<1>1. ForgottenOK
  BY DEF TransferInv
<1>2. /\ delivered' = delivered /\ drawn' = drawn /\ outgoing' = outgoing
      /\ DOMAIN incoming' = DOMAIN incoming \ Stale
      /\ \A id \in DOMAIN incoming' : incoming'[id] = incoming[id]
      /\ forgotten' = [id \in PacketId |->
                         IF id \in Stale THEN forgotten[id] \cup {"timeout"} ELSE forgotten[id]]
  BY DEF UpdateReceiver, TimeoutIncoming, Without, senderVars
<1>3. Stale \subseteq drawn /\ Stale \in SUBSET PacketId /\ (Stale # {} => ReceiveTimeout # None)
  BY DEF Stale, DeliveredIsRemembered, TransferInv, SendingInv
<1> HIDE DEF Stale
<1>4. ASSUME NEW id \in PacketId, delivered'[id] > 0
      PROVE  id \in drawn' /\ Remembered(id)'
  <2>1. id \in drawn /\ Remembered(id)
    BY <1>2, <1>4 DEF DeliveredIsRemembered
  <2>2. CASE id \in Stale
    <3>1. "timeout" \in forgotten'[id]
      BY <1>2, <2>2
    <3> QED
      BY <1>2, <2>1, <3>1 DEF Remembered
  <2>3. CASE id \notin Stale
    <3>1. id \in DOMAIN incoming /\ Complete(id) => id \in DOMAIN incoming' /\ Complete(id)'
      BY <1>2, <2>3 DEF Complete
    <3>2. forgotten[id] \subseteq forgotten'[id]
      BY <1>2, <2>3
    <3> QED
      BY <1>2, <2>1, <3>1, <3>2, RememberedStays
  <2> QED
    BY <2>2, <2>3
<1>5. DeliveredIsRemembered'
  BY <1>2, <1>4 DEF DeliveredIsRemembered
<1>6. CASE ReceiveTimeout # None
  <2>1. D!Expire(Stale)
    BY <1>2, <1>3, <1>6 DEF D!Expire
  <2> QED
    BY <1>3, <1>5, <2>1 DEF D!Next
<1>7. CASE ReceiveTimeout = None
  <2>1. Stale = {}
    BY <1>3, <1>7
  <2>2. forgotten' = forgotten
    BY <1>1, <1>2, <2>1 DEF ForgottenOK
  <2>3. UNCHANGED D!vars
    BY <1>2, <2>2 DEF D!vars
  <2> QED
    BY <1>5, <2>3
<1> QED
  BY <1>6, <1>7

(* Every step is one of Delivery, and keeps what makes the next one so.    *)
LEMMA DeliveryStep ==
    ASSUME TransferInv, DoneIsLast, DeliveredIsRemembered, Next
    PROVE  DeliveredIsRemembered' /\ [D!Next]_(D!vars)
<1>1. IInv
  BY DEF TransferInv
<1>2. ASSUME UNCHANGED <<delivered, forgotten, incoming>>
      PROVE  DeliveredIsRemembered' /\ [D!Next]_(D!vars)
  BY <1>2, QuietStep
<1>3. CASE Tick
  <2>1. /\ UNCHANGED <<delivered, forgotten>> /\ DOMAIN incoming' = DOMAIN incoming
        /\ \A k \in DOMAIN incoming :
             incoming'[k] = [incoming[k] EXCEPT !.age = Older(@, ReceiveTimeout)]
    BY <1>3 DEF Tick, TickIncoming, AgedIncoming
  <2>2. \A k \in DOMAIN incoming : incoming[k] \in Entry(k)
    BY <1>1 DEF IInv, ReceiverTypeOK
  <2>3. \A k \in DOMAIN incoming : incoming'[k].payload = incoming[k].payload
    BY <2>1, <2>2 DEF Entry
  <2> QED
    BY <2>1, <2>3, QuietStep
<1>4. CASE UpdateReceiver
  BY <1>4, PacketsExpire
<1>5. ASSUME NEW i \in DOMAIN toReceiver, NEW ack \in AckResults, ReceiveDatagram(i, ack)
      PROVE  DeliveredIsRemembered' /\ [D!Next]_(D!vars)
  BY <1>5, DoneArrives, PartArrives
<1>6. \/ Tick \/ UpdateReceiver
      \/ \E i \in DOMAIN toReceiver, ack \in AckResults : ReceiveDatagram(i, ack)
      \/ UNCHANGED <<delivered, forgotten, incoming>>
  BY DEF Next, SendPacket, UpdateSender, FailSender, ReceiveAck, Lose, Duplicate,
         receiverVars, TakeAck
<1> QED
  BY <1>2, <1>3, <1>4, <1>5, <1>6

(* Transfer implements Delivery, whatever the network and the sockets do   *)
(* and for packets of any number of parts: no packet is delivered that was *)
(* not sent, and none again unless the receiver forgot it in the meantime, *)
(* because its timeout passed or because the Done of a finished packet     *)
(* arrived.  In the second case the network must have moved the Done past  *)
(* a part; on a network that keeps the order and with no timeout, every    *)
(* packet is delivered at most once.                                       *)
THEOREM TransferImplementsDelivery == Spec => DeliverySpec
<1> DEFINE DInv == TransferInv /\ DoneIsLast /\ DeliveredIsRemembered
<1>1. Init => DInv /\ D!Init
  <2> SUFFICES ASSUME Init PROVE DInv /\ D!Init
    OBVIOUS
  <2>1. /\ DOMAIN toReceiver = {} /\ drawn = {} /\ delivered = [id \in PacketId |-> 0]
        /\ DOMAIN incoming = {} /\ forgotten = [id \in PacketId |-> {}]
    BY DEF Init, SenderInit, ReceiverInit
  <2>2. DoneIsLast /\ DeliveredIsRemembered
    BY <2>1 DEF DoneIsLast, DeliveredIsRemembered
  <2> QED
    BY <2>1, <2>2, TransferInitInv DEF D!Init
<1>2. DInv /\ [Next]_vars => DInv' /\ [D!Next]_(D!vars)
  <2> SUFFICES ASSUME DInv, [Next]_vars PROVE DInv' /\ [D!Next]_(D!vars)
    OBVIOUS
  <2>1. CASE Next
    BY <2>1, TransferNextInv, DoneIsLastStep, DeliveryStep
  <2>2. CASE UNCHANGED vars
    <3>1. DoneIsLast' /\ DeliveredIsRemembered'
      BY <2>2 DEF vars, DoneIsLast, DeliveredIsRemembered, Remembered, Complete, Over, OnlyDones
    <3>2. UNCHANGED D!vars
      BY <2>2 DEF vars, D!vars
    <3> QED
      BY <3>1, <3>2, TransferNextInv
  <2> QED
    BY <2>1, <2>2
<1> HIDE DEF DInv
<1> QED
  BY <1>1, <1>2, PTL DEF Spec, DeliverySpec, D!Spec

=============================================================================
