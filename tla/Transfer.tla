------------------------------- MODULE Transfer -------------------------------
(***************************************************************************)
(* Reliable packets from one peer to the other: the Sender and the         *)
(* Receiver joined by a UDP network.  Each end is driven by the update     *)
(* loop of the program it lives in (Server::update or Client::update),     *)
(* which updates the buffers and then handles the datagrams that have      *)
(* arrived; the two loops are not synchronized with each other.            *)
(***************************************************************************)
EXTENDS Sender, Receiver

CONSTANT NetworkFaults  \* what the network may do: "lose", "duplicate", "reorder"

ASSUME NetworkFaultsAssumption == NetworkFaults \subseteq {"lose", "duplicate", "reorder"}

VARIABLE forgotten  \* history: how each packet was forgotten since its last delivery

vars == <<outgoing, batch_size, drawn, blocked, toReceiver,
          incoming, toSender, delivered, handed, arrived, failed, panicked, forgotten>>

Init == SenderInit /\ ReceiverInit /\ forgotten = [id \in PacketId |-> {}]

-----------------------------------------------------------------------------
(* The programs                                                            *)

SendPacket(id) == Send(id) /\ UNCHANGED <<receiverVars, forgotten>>

UpdateSender(run) == UpdateOutgoing(run) /\ UNCHANGED <<receiverVars, forgotten>>

FailSender(run) == UpdateFails(run) /\ UNCHANGED <<receiverVars, forgotten>>

UpdateReceiver ==
    /\ TimeoutIncoming
    /\ forgotten' = [id \in PacketId |->
                       IF id \in Stale THEN forgotten[id] \cup {"timeout"} ELSE forgotten[id]]
    /\ UNCHANGED senderVars

(* The datagrams of a channel that may be received next. *)
Deliverable(channel) ==
    IF "reorder" \in NetworkFaults THEN DOMAIN channel ELSE DOMAIN channel \cap {1}

(* ReceivePacketBuffer::handle. *)
ReceiveDatagram(i, ack) ==
    LET d == toReceiver[i]
    IN  /\ i \in Deliverable(toReceiver)
        /\ \/ /\ d.kind = "Done"
              /\ HandleDone(d.id)
              /\ forgotten' = [forgotten EXCEPT ![d.id] = @ \cup {"done"}]
           \/ /\ d.kind # "Done"
              /\ HandlePart(d.id, d.seq, ack)
              /\ forgotten' = IF Delivers(Receive(d.kind = "LastPart", d.id, d.seq).result, ack)
                              THEN [forgotten EXCEPT ![d.id] = {}] ELSE forgotten
        /\ toReceiver' = RemoveAt(toReceiver, i)
        /\ UNCHANGED <<outgoing, batch_size, drawn, blocked>>

(* SendPacketBuffer::handle. *)
ReceiveAck(i) ==
    LET d == toSender[i]
    IN  /\ i \in Deliverable(toSender)
        /\ HandleAck(d.id, d.seq)
        /\ TakeAck(i)
        /\ UNCHANGED forgotten

-----------------------------------------------------------------------------
(* The environment                                                         *)

Lose ==
    /\ "lose" \in NetworkFaults
    /\ \/ /\ \E i \in DOMAIN toReceiver : toReceiver' = RemoveAt(toReceiver, i)
          /\ UNCHANGED <<outgoing, batch_size, drawn, blocked, receiverVars>>
       \/ /\ \E i \in DOMAIN toSender : TakeAck(i)
          /\ UNCHANGED senderVars
    /\ UNCHANGED forgotten

Duplicated(channel, i) == InsertAt(channel, i, channel[i])

Duplicate ==
    /\ "duplicate" \in NetworkFaults
    /\ \/ /\ Len(toReceiver) < Capacity
          /\ \E i \in DOMAIN toReceiver : toReceiver' = Duplicated(toReceiver, i)
          /\ UNCHANGED <<outgoing, batch_size, drawn, blocked, receiverVars>>
       \/ /\ Len(toSender) < Capacity
          /\ \E i \in DOMAIN toSender : toSender' = Duplicated(toSender, i)
          /\ UNCHANGED <<senderVars, incoming, delivered, handed, arrived, failed, panicked>>
    /\ UNCHANGED forgotten

Tick ==
    /\ outgoing' = AgedOutgoing
    /\ TickIncoming
    /\ UNCHANGED <<batch_size, drawn, blocked, toReceiver, forgotten>>

-----------------------------------------------------------------------------
Next ==
    \/ \E id \in PacketId : SendPacket(id)
    \/ \E run \in UpdateRuns : UpdateSender(run)
    \/ \E run \in UpdateRuns : FailSender(run)
    \/ UpdateReceiver
    \/ \E i \in DOMAIN toReceiver, ack \in AckResults : ReceiveDatagram(i, ack)
    \/ \E i \in DOMAIN toSender : ReceiveAck(i)
    \/ Lose
    \/ Duplicate
    \/ Tick

Spec == Init /\ [][Next]_vars

(* Both programs keep calling update and time keeps passing.  A network    *)
(* that loses datagrams does not lose all of them: a kind of datagram that *)
(* is sent over and over is received over and over.                        *)
Fairness ==
    /\ WF_vars(\E run \in UpdateRuns : UpdateSender(run))
    /\ WF_vars(Tick)
    /\ \A id \in PacketId :
         SF_vars(\E i \in DOMAIN toReceiver :
                    toReceiver[i].id = id /\ ReceiveDatagram(i, "sent"))
    /\ \A id \in PacketId :
         SF_vars(\E i \in DOMAIN toSender : toSender[i].id = id /\ ReceiveAck(i))

FairSpec == Spec /\ Fairness

(* The same sender with a network and a peer that may do nothing at all.   *)
LonelySpec ==
    /\ Spec
    /\ WF_vars(\E run \in UpdateRuns : UpdateSender(run))
    /\ WF_vars(Tick)

-----------------------------------------------------------------------------
(* Properties                                                              *)

(* Type correctness of both ends and of the network.  For the sender it    *)
(* says that no batch size becomes zero or exceeds its u16.                *)
TypeOK ==
    /\ ReceiverTypeOK
    /\ DOMAIN outgoing \subseteq drawn
    /\ \A id \in DOMAIN outgoing : outgoing[id] \in PacketOut
    /\ batch_size \in 1..BatchSizeMax
    /\ drawn \subseteq PacketId /\ blocked \subseteq drawn
    /\ forgotten \in [PacketId -> SUBSET {"done", "timeout"}]
    /\ \A i \in DOMAIN toReceiver :
         LET d == toReceiver[i]
         IN  \/ d.id \in drawn /\ d = DoneDatagram(d.id)
             \/ d.id \in drawn /\ d.seq \in Parts(d.id) /\ d = PartDatagram(d.id, d.seq)
    /\ Len(toReceiver) <= Capacity /\ Len(toSender) <= Capacity

(* The queue of a packet loses and repeats no part: what was dropped from  *)
(* its front, what it holds and what the serializing thread still has are  *)
(* all parts of the packet, in order, and the front is not acked.          *)
QueueIsContiguous ==
    \A id \in DOMAIN outgoing : Contiguous(id, outgoing[id].queue)

(* A part that the sender takes for acked was received. *)
AckedPartsArrived ==
    \A id \in DOMAIN outgoing : Settled(outgoing[id].queue) \subseteq arrived[id]

(* Done "confirms that all acks of a reliable packet were received by the  *)
(* sender" (PacketKind::Done): a Done on its way is for a packet of which  *)
(* every part was received, or for one whose first batch would have        *)
(* blocked, which is not sent again.                                       *)
DoneMeansReceived ==
    \A i \in DOMAIN toReceiver :
        LET id == toReceiver[i].id
        IN  toReceiver[i].kind = "Done" => arrived[id] = Parts(id) \/ id \in blocked

(* No datagram makes the receiving program panic. *)
NoPanic == ~panicked

(* The abstract specification of delivery. *)
D == INSTANCE Delivery WITH
        Packet <- PacketId, CountMax <- DeliveredMax,
        Reorders <- "reorder" \in NetworkFaults, Expires <- ReceiveTimeout # None,
        offered <- drawn, finished <- drawn \ DOMAIN outgoing, count <- delivered

(* A packet is handed to the application again only after its receiver     *)
(* forgot it too early: receive_timeout passed, or the Done of a finished  *)
(* packet overtook a part of it.                                           *)
DeliverySpec == D!Spec

(* Every packet that was sent is delivered, once, while the network keeps  *)
(* letting some datagrams through and the sender does not give up.         *)
ReliableDelivery == D!LiveSpec

(* The sender does not keep a packet forever: it sees all acks and sends   *)
(* Done, or it gives up after max_missed_acks.                             *)
SentIsSettled ==
    \A id \in PacketId : id \in DOMAIN outgoing ~> id \notin DOMAIN outgoing

=============================================================================
