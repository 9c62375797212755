# Verification of ultinet

ultinet (`src/`) is a client-server networking library on non-blocking UDP
sockets. A packet of any size is cut into parts of one datagram each, parts are
acked and resent, and the receiver puts the packet together again. A server
keeps a list of listeners (peers that may ask for its status or connect) and a
list of connected clients, which it pings. A client keeps a list of servers it
listens to and is connected to at most one of them. There is no test suite in the
repository; the documentation is the doc comments, `README.md` and the drawing
`doc/packets.excalidraw`.

## Inventory

| part | state | operations | interacts with |
|---|---|---|---|
| `ReassembledPacket` (`packet/receive.rs`) | payload, bit vector of received chunks, `first_pending`, `received_count`, `max_index` | `receive` | called by `ReceivePacketBuffer` |
| `ReceivePacketBuffer` (`packet.rs`) | map from packet id to `PacketIn` | `handle` (Part, LastPart, Done), `timeout_packets` | sends acks on the socket, returns packets to server or client |
| `PacketOut`, `PacketQueue` (`packet/send.rs`) | queue of parts, `first_unacked`, channel to a serializing thread, `last_send`, `missed_acks`, batch sizes | `send`, `ack`, `send_pending`, `cancel` (never called) | called by `SendPacketBuffer` |
| `SendPacketBuffer` (`packet.rs`) | map from packet id to `PacketOut`, batch size for new packets | `send`, `handle` (Ack), `send_pending`, `timeout_packets` | sends parts and Dones on the socket |
| `PacketBuffers` (`packet.rs`) | one of each buffer per peer | `send`, `update`, `handle` | owned by a listener or a client entry |
| serializers (`packet/serialize.rs`) | buffers being filled, thread with a rendezvous channel | `serialize_packet` | feeds `PacketQueue` |
| `Server` (`net/server.rs`) | `listeners` (address to buffers), `clients` (slots with buffers, active ping, `last_pong`, `missed_pongs`) | `update` (buffers, datagrams, pings), `unlisten`, `unlisten_all`, `Client::send` | handler callbacks, one socket |
| `Client` (`net/client.rs`) | `listeners` (servers with their compatibility, last version query or last interaction), connection state | `listen`, `forget`, `forget_all`, `refresh_all`, `query`, `connect`, `disconnect`, `send`, `update` | handler callbacks, one socket |
| sockets (`net.rs`) | none | `send`, `recv` | results: sent, would block, error |
| configuration (`config.rs`) | delays, timeouts, limits | none | read by all of the above |

Everything of one peer runs on one thread, in the loop that calls `update`; the
exceptions are the serializing threads. What makes the code hard to test is
what happens between two peers: datagrams are lost, repeated and reordered,
timeouts of one end race retries of the other, sends block or fail in the middle
of an operation, and bookkeeping that spans several handlers (acks by position
in a moving queue, bits drained from the front of a vector, clients moving
between two lists) has to stay consistent through all of it.
`PROJECT.json` lists these hazards by line.

What makes the parts correct:

* reassembly: a packet is handed over when every chunk was written, once, and
  no packet is acked in full and then dropped;
* sending: the sender takes for acked only what arrived, sends Done only for
  packets that arrived or that it gave up, and does not keep a packet forever;
* both together: a packet is delivered again only if the receiver forgot it too
  early, and it is delivered in the end while the network lets something through;
* server: each peer has one set of buffers, clients keep their slots and slots
  are reused, and a client is timed out if and only if it earned it;
* client: one listener per server, a session stays with the server it was made
  with, and no call finds a connection without a compatible listener, unless the
  program itself has reset it;
* client and server together: both keep to the life cycle of a session, and
  neither stays connected to a peer that has left;
* serializing: the parts are the same whoever makes them, the caller or the
  thread, and neither waits for the other forever.

## Modules

| module | models |
|---|---|
| `Datagrams` | the datagrams of one reliable packet: parts, acks, Done; helpers for maps and elapsed times |
| `Receiver` | `ReceivePacketBuffer` with `ReassembledPacket`, against an arbitrary network |
| `Sender` | `SendPacketBuffer` with `PacketOut` and `PacketQueue` |
| `Transfer` | a `Sender` and a `Receiver` joined by a network, each updated by its own loop |
| `Delivery` | the abstract specification that `Transfer` implements |
| `Server` | `Server` with its listeners, slots, pings and the phases of `update` |
| `Client` | `Client` with its listeners, its connection and the parts of `update`, against servers that may send anything |
| `Connection` | one `Client` and one `Server` joined by a network (`INSTANCE` of both) |
| `Session` | the abstract life cycle that `Connection` implements |
| `Serialize` | `serialize_packet`, its two serializers, `PacketBuffer` and the channel to `PacketQueue` |
| `ReceiverProofs`, `ServerProofs`, `ClientProofs`, `SerializeProofs` | theorems about `Receiver`, `Server`, `Client` and `Serialize` |
| `SenderProofs` | lemmas about the operators of `Sender` |
| `TransferProofs` | theorems about `Transfer`, from `SenderProofs` and `ReceiverProofs` |
| `ConnectionProofs` | theorems about `Connection`, from `ClientProofs` and `ServerProofs` |
| `LibraryFacts` | lemmas about minima, sequences, sums and recursive functions that the proofs share |
| `MCReceiver`, `MCTransfer`, `MCServer`, `MCClient`, `MCConnection`, `MCSerialize` | inputs and symmetry for TLC |

### Reliable packets

A part is represented by its number; the payload of a packet is the set of
parts written to it. `incoming` and `outgoing` are the two `BTreeMap`s. An entry
of `incoming` has the fields of `PacketIn` and `ReassembledPacket` (`single`
stands for `packet: None`, the entry of a packet that fits in one datagram). An
entry of `outgoing` has the fields of `PacketOut`; its queue has the fields of
`PacketQueue`, with the channel as the number of parts the thread still has (`rx`) and
the counter with which the thread numbers them (`next`), which the queue does not know.
`last_send` and `age` are elapsed times in ticks, capped at the limit they are
compared with.

`HandlePart` is `ReceivePacketBuffer::handle` with `receive`, the reassembly and
the ack; the result of sending the ack is a parameter, because the code loses the
result of `receive` when the ack fails. `Send` is `SendPacketBuffer::send` with
the first batch; `UpdateOutgoing` is `PacketBuffers::update` for all packets of
the sender, with one choice per packet of how far the socket gets (`SocketRuns`).
After a send error the owner of the buffers drops them (`UpdateFails`).
`delivered`, `handed` and `arrived` record history for the properties, and so do
three sets of packets for which the code gives up what it promises: `failed` (the
ack of the completing part failed), `blocked` (the first batch would have blocked)
and `forgotten` (what made the receiver forget a packet since its last delivery).

`Delivery` says when a packet may be handed to the application: if it was offered,
and the first time, or after the receiver forgot it too early. It forgets a packet
when `receive_timeout` has passed, or when the sender is finished with it and its
Done arrives; the latter allows another delivery only on a network that reorders.
On one that keeps the order and without a timeout this is delivery at most once.

### Server

`clients` is the vector of slots, `listeners` the keys of the map. The buffers of
a peer are abstracted to membership in `pending`: the server has sent a packet
with them that is not completed or given up. `phase` makes the three steps of
`update` atomic actions of their own, with one action per handled datagram.
Datagrams of every kind may come from every address at any time, so that repeated
Connects, Disconnects and version requests are included; those that change
nothing are left out. Pings and pongs carry ids; one of each per peer is on its
way at a time, and a pong may be delivered twice. A new ping has an id that no ping or
pong on its way has. `unanswered` counts the pings
sent to a client since its last valid pong, independently of the server's own
count.

### Client

`listeners` is the vector of listeners, in order, because the code takes the first
one for the connection. A listener has its address, its compatibility and one
age: the time since its last version query (`None` if the query blocked) or since
the last interaction. `phase` and `cursor` follow `update`: the listeners are
visited one by one (`retain_mut`; the first one that is visited may end the
connection), then datagrams are handled one per action, then the listeners are
visited again to time them out. The program's calls happen between updates, in
any order; the result of a send is a parameter. `peer` and `audible` model the
socket: `connect` connects it to one server, after which the system drops what
others send except for what is queued already. `panicked` is a phase that nothing
leaves. `refreshed` records that `refresh_all` has reset a listener in the session that
goes on; it may be called at any time.

### Connection

`Connection` instantiates `Client` for one server and `Server` for one address and
joins each call or handler with the packets it sends. The network holds whole
reliable packets by kind. A packet may stay after it was received, which stands
for the copies that were resent or repeated by the network and are no longer
known as duplicates (this happens, see below), and it may be lost. Acks are
packets, because they restart the client's timeout. `history` records how far the
client has ever come; it is the state of `Session` that neither end has. `refresh_all` is
called at any time here, too; `query` is not, because its answer changes nothing but the
client's timeout.

`Session` says that the server admits only a client that asked, that a client is
in only after it was admitted, and that each end may leave on its own. The
refinement mapping takes the client's `state` and whether the server has a slot
for the client. It promises less than one might expect (for example, not that
both are in at the same time), and that is what the code provides: a Connect that
is received twice makes the server drop the client it has just accepted
(`server.rs:205`), and the client learns of it by its timeout only.

### Serialize

A value is the sequence of the lengths of its writes. The bytes are numbered, so
that a part shows which bytes it holds; a byte that was skipped and never written
is 0. Each way through the loops of the two `write` functions is an action. A send
on the rendezvous channel is one step of the thread and the program together. The
queue asks for parts in batches (`Pull`), blocks until it has them, and may be
dropped in between.

## Runs

Passing runs:

| run | shows | bounds |
|---|---|---|
| `receiver` | reassembly is intact, complete packets are delivered, the bookkeeping is consistent, nothing is handed over twice while it is remembered | a five-part packet with `DrainUnit = 2`, so that chunks are drained twice and one remains, and a one-part packet; receive timeout of 2 ticks; one ack on its way; acks that are sent, block or fail |
| `transfer_single` | acked parts arrived, Done means received or blocked, a packet is delivered again only if it was forgotten too early (`DeliverySpec`), batch sizes stay within their type | two one-part packets, two datagrams in each direction, all network faults, sends that block or fail, receive timeout of one tick, no missed ack allowed |
| `transfer_fifo` | the queue is contiguous; `DeliverySpec`, which is at-most-once delivery here | a one-part and a two-part packet, the latter from a thread with batches of one, network that loses and repeats but keeps the order, sends and acks that block or fail, no receive timeout |
| `transfer_live` | every packet is delivered | one one-part packet, lossy network, no limit on missed acks |
| `transfer_giveup` | no packet is kept forever | one one-part packet, limit of one missed ack, network and peer without fairness |
| `server` | one home per address, stable and reused slots, timeouts are earned | two addresses (symmetric), ping delay of one tick, one missed pong allowed, all results of sends |
| `client` | one listener per server; a connected client has a compatible first listener; a session keeps its server | three servers (symmetric), timeout and resend delay of one tick, all results of sends, `refresh_all` at any time |
| `connection` | both ends implement `Session`; with one server a call panics only after `refresh_all` in the same session; a silent client is dropped, and each end notices in the end that the other has left | one packet on its way in each direction besides pings, a ping in each update, one missed pong or one tick without a packet ends the connection, sends succeed or fail, pings may also block |
| `serialize` | the parts are those of the reference definition; the threshold is exact; no assertion fails; neither side waits forever | all values of up to three writes of 0 to 5 bytes, parts of two bytes, thresholds 0 to 3, batches of up to two |

`DrainUnit` is 256 in the code; 2 makes draining happen after two parts instead
of 256, and the theorems cover every unit. Two peers are enough for the slots:
one moves while the other should not. The counters of deliveries, missed acks
and missed pongs are capped above the limits they are compared with
(`DeliveredMax`, `MissedAcksMax`, `MissedPongsMax`), `Capacity` bounds the network.
Three servers are enough for the client's list: `swap_remove` and `retain_mut` tell
apart the first, the removed and the last entry. In `connection` a full network
drops what is sent, which it may do anyway; a ping and its pong are gone before the
next ping is sent (late pongs are in `server`), and the buffers of both ends are
settled by the update that follows (that they may take longer is in `client` and
`server`). Values of up to fifteen bytes give up to eight parts of two bytes:
thresholds below, at and above the number of parts, and writes that end in the
middle and at the end of a part.

Fairness: both programs keep calling `update` and time passes (weak fairness). The
network may lose any datagram but not all of a kind that is sent over and over
(strong fairness of receiving). `transfer_giveup` needs the first assumption only.
In `connection` the loops over datagrams end, nothing stays on its way to the
client forever, and the server's socket does not block all pings (strong fairness
of a ping that is sent); that any packet arrives is not assumed. `ClientNotices` has
a condition: from some time on no packet of the client is on its way, because acks
of its packets keep a half-open connection alive; and it says nothing of a client that
has reset its listener and waits for a version instead of the timeout. In `serialize` the thread is scheduled.
The code has nothing that would break these assumptions by itself, except that
`handle_packets` and `Client::update` have no bound on how many datagrams they
handle.

### Where the code and its documentation disagree

Each of these runs checks one property that a comment or the drawing states, and
TLC finds it violated; `PROJECT.json` quotes the line.

| run | what happens |
|---|---|
| `ack_livelock` | `PacketQueue::ack` ignores `first_unacked`: with a perfect network, two parts acked in order leave the second one unacked, and it is resent forever |
| `late_part_panic` | a repeated part below `first_pending` makes the receiver panic |
| `connection_entry` | a client that listens to two servers and connects to the second one takes the first one for its connection: it ignores the Accept, and would send its packets to the wrong server |

Seen in the code while modelling it, and part of the model, without a run of
their own:

* a packet whose first send would block is taken for canceled: only its Done is
  sent (`send.rs:58`, against `send.rs:27` and `packet.rs:793`); this is why
  `DoneMeansReceived` excepts the packets in `blocked`;
* a part that arrives after the Done of its packet is delivered as a new packet
  (`packet.rs:669`, against `packet.rs:795`), and so is one that arrives after the
  receive timeout; `Delivery` allows these two repetitions and no other;
* `update_buffers` updates the buffers of clients only: replies to listeners are
  neither resent nor settled (`server.rs:112`, against `doc/packets.excalidraw`);
* `refresh_all` while connected makes the next `send` or `disconnect` panic
  (`client.rs:121`, 201, 229); this is why `ConnectedIsCompatible`, `SessionKeepsServer`
  and `PanicIsEarned` except sessions with `refreshed`. With several servers there is
  another panic, a consequence of `connection_entry`: the listener that `connect` was called
  for is forgotten, the first one fails while the client is `Connecting`, and
  `forget_all` drains an empty list (`client.rs:115`);
* the timeout of any compatible listener ends the connection (`client.rs:447`;
  the comment at `client.rs:761` says that it does not matter for others);
* once `connect` was called, the socket drops what other servers send, even if
  `connect` fails; their listeners then time out (`client.rs:153`, against
  `client.rs:514`);
* a version query that blocks when a listener is added is never sent again
  (`client.rs:698`, against `client.rs:84` and 685);
* `Disconnecting` does not end with the server's ack (`client.rs:502`) but with
  the timeout that follows when the server stops pinging; if the Disconnect never
  arrives, it does not end at all;
* the same lookup credits acks to parts that never arrived: with two parts a
  repeated ack of the first one settles the second one (`AckedPartsArrived` fails
  with `NumParts <- TwoParts`);
* `missed_acks` grows by the number of parts missed, not by one per resend
  (`send.rs:102`, documented otherwise at `send.rs:29` and `config.rs:14`);
* an error while sending an ack loses the result of `receive` for good
  (`packet.rs:626` and `652`); this is why `CompleteIsDelivered` excepts the packets in
  `failed`;
* a repeated one-part packet does not refresh its timeout (`packet.rs:630`,
  documented otherwise in `doc/packets.excalidraw`);
* `ServerConfig::listener_timeout` is never read (documented at `server.rs:34`).

The passing runs do not stay clear of these: what the code gives up is an exception
that the property names, and TLC looks for every other way to violate it. The one
bound of this kind is one-part packets for the properties about acks and for
liveness, because of `ack_livelock`: multi-part packets are not delivered reliably
by this code.

## Proofs

Every invariant, every action property and both refinements that the runs check
are theorems, for all values of the constants that the stated assumptions allow:
any packets of any numbers of parts, any addresses and servers, any delays,
timeouts and limits, any values to serialize. The assumptions are those stated
with the constants; TLC evaluates them in every run.

| theorem | property | condition |
|---|---|---|
| `ReceiverTypeCorrect`, `BookkeepingIsConsistent`, `PacketsAreIntact`, `DeliveredOncePerEntry` | `ReceiverTypeOK`, `ChunksAreTracked`, `ReassembledIntact`, `OncePerEntry` | |
| `CompletePacketsAreDelivered` | `CompleteIsDelivered` | |
| `TransferTypeCorrect`, `QueuesAreContiguous` | `TypeOK`, `QueueIsContiguous` | |
| `AckedMeansArrived`, `DoneMeansEverythingArrived` | `AckedPartsArrived`, `DoneMeansReceived` | one-part packets |
| `TransferImplementsDelivery` | `DeliverySpec` | |
| `ServerTypeCorrect`, `PeersHaveOneHome`, `ClientsKeepTheirSlots`, `SlotsAreBounded`, `TimeoutsAreEarned` | `TypeOK`, `OneHome`, `SlotsAreStable`, `SlotsAreReused`, `TimeoutIsEarned` | |
| `ClientTypeCorrect`, `ServersHaveOneListener` | `TypeOK`, `OneListener` | |
| `ConnectionsAreCompatible`, `SessionsKeepTheirServer` | `ConnectedIsCompatible`, `SessionKeepsServer` | no `refresh_all` in the same session (part of the property) |
| `PanicsAreEarned`, `ConnectionImplementsSession` | `PanicIsEarned`, `SessionSpec` | one client, one server (part of the model) |
| `SerializeTypeCorrect`, `SerializedPartsAreExact`, `ThresholdsAreExact`, `SerializingNeverPanics` | `TypeOK`, `PartsAreExact`, `ThresholdIsExact`, `NoPanic` | |

The conditions are needed: TLC finds the property violated without each of them
(see the list above).

**Receiver.** The inductive invariant is `ReceiverTypeOK /\ ChunksAreTracked`: that a
packet is complete when `received_count` equals `max_index` says nothing about its
chunks unless the count is known to be the number of written chunks, and that in
turn needs to know that the drained bits were all set. The central lemma is
`ReassembleCorrect`: one call of `ReassembledPacket::receive` keeps an entry
consistent and returns `Reassembled` exactly if the part was the last missing one.
It rests on `FirstZeroFound` and `DrainedWereReceived`.

**Sender and Transfer.** `SenderProofs` describes each operator of `PacketQueue`,
`PacketOut` and `SendPacketBuffer`: what `Unacked` yields and pulls from the
channel, what `Acked` drains, that balancing and averaging keep a batch size in its
range, what a run of sends puts into the network. `TransferProofs` needs three
invariants on top of one another.

* `TransferInv` joins the receiver's invariant with the sender's: every packet in
  `outgoing` is drawn and in one piece (`OutgoingFits`: the parts of its queue and of
  its channel follow one another and end with the last one) and only datagrams of
  drawn packets are on their way. It holds for packets of any size.
* `AcksArrived` (an ack on its way is of a part that arrived) makes
  `AckedPartsArrived` inductive for one-part packets; `GivenUpWasBlocked` (a packet
  that waits for its Done without having been sent would have blocked) leads from
  it to `DoneMeansReceived`.
* Delivery is a race of a late part with what makes the receiver forget. `DoneIsLast`
  says that behind a Done in the network there is nothing else of its packet, which
  the sender no longer has, so that the packet is finished when the Done arrives;
  `DeliveredIsRemembered` that a delivered packet is remembered as complete, or was
  forgotten by a timeout, or by a Done after which a part of it can come only if the
  network reorders. The refinement needs both: `DeliveredIsRemembered` is not
  inductive alone.

**Server.** `TypeOK /\ OneHome` is inductive; `NextInv` shows for every action that it
keeps the invariant and moves nobody who stays connected. `UpdateBuffersSlots`
shows that cutting off slots loses no client, `PutClientType` that a new client
disturbs no other. `SlotsAreReused` needs `OneHome`: a slot is added only when all are
occupied, and then `FullSlots` maps the slots one to one into the addresses other
than the new one. `TimeoutIsEarned` compares the server's counter with an independent
one, `unanswered`; `CountedRight` says how they are related (`missed_pongs`, plus one
while a ping is active without a pong) and that a pong implies an active ping and no
missed ones. This needs both, because a pong that arrives after the ping it belongs
to was given up must not reset the count.

**Client.** `OneListener` is inductive with the type. `ConnectedIsCompatible` is not:
listeners fail and time out in the middle of an update. `ConnectionPassed` adds that
the update has passed the first listener when it visits the others, so that one
that fails later is not the connection, and `FirstVisit` that the visit which may end
the connection is at the first one. `SwapRemoveFacts` shows which listeners
`Vec::swap_remove` moves.

**Connection.** `ConnectionProofs` instantiates `ClientProofs` and `ServerProofs` and
uses their lemmas for the two ends. What it adds is that a client which is not
disconnected, and in whose session `refresh_all` was not called, has its one listener, a
compatible one (`AtServer`; the steps that lose the listener end the connection with
it), from which `PanicIsEarned` follows, and what is known of the packets on their way:
a Connect only after the client asked, an Accept only after it was admitted
(`NetworkInv`). The refinement follows because a client is admitted by a Connect
only and is in by an Accept only; `GoodStep` is the form in which every action is
shown to keep the invariant and to take a step of `Session` or none.

**Serialize.** The invariant says what every stage of the work has: `VecFills` the
caller's buffers and that the last one was begun for a write that was not over,
`ThreadHands` which parts are handed over, `ThreadFills` that the parts to skip and
the part in progress add up, `NothingLost` that what is written and what is left of
the writes make up the value. `PartsAreExact` and `ThresholdIsExact` are parts of it.
That the thread begins a new part only for a byte that belongs there is what makes
the two serializers agree on the number of parts when a write ends at the end of a
part.

**Induction over data.** The induction theorems of the library have an operator as a
parameter and cannot be used with the installed provers. What the proofs need of
sums, concatenations and `Unacked` (a recursive function) is shown in `LibraryFacts`
and `SenderProofs` from the well-ordering of the naturals instead: `MinFound` picks
a smallest counterexample, `RecursionExists` shows that a recursive function exists
and satisfies its equation.

What the proofs changed in the model: `Pinged` of `Server` was a `CASE` with
overlapping guards, which says less than the nested conditions of the code, and is an
`IF` now; `Unacked` of `Sender` is a recursive function instead of a recursive operator;
`PacketId` is assumed not to be empty, and `Connection` states what it assumes of its
constants; with fewer than three ids there would not always be a fresh one for a ping.

Only model-checked: the liveness properties `ReliableDelivery`, `SentIsSettled`,
`SilentIsDropped`, `ServerNotices`, `ClientNotices`, `PullReturns` and `ThreadEnds`.
Fairness, and the `ENABLED` it is defined by, is out of the reach of the proof system.

## Not modelled

* Which bytes rkyv writes. Both serializers answer 0 to `pos()`, which rkyv uses
  to place relative pointers; what that means for values with pointers is a
  question about rkyv.
* The bytes of datagrams, rkyv's serialization and validation, the version
  packets' contents. Malformed datagrams are refused before any state changes.
* Update packets and `PacketOut::cancel`: declared, never used. `Kick` is handled by
  the client (in `Client`) but never sent by the server.
* Several clients and servers in one composition: `client` and `server` have several
  peers that behave arbitrarily, `connection` has one of each. Which of several
  listeners is the connection is the question of `connection_entry`.
* Statistics, logging, the examples, feature gates.

## Plan

The model is complete as far as the code goes, and what the runs check and the
proof system can express is proved. What is left:

1. What else the invariants give: from `ChunksAreTracked`, for which packets
   `late_part_panic` cannot happen (few enough parts that nothing is drained
   before the packet is complete); from `CInv`, that a client whose last ping was
   answered is not timed out by the next update.
2. For the liveness properties, the safety part of their arguments: the measure
   that decreases while a packet is unacked, or while a client does not answer,
   as action properties.
