-------------------------------- MODULE Server --------------------------------
(***************************************************************************)
(* The server's list of peers (src/net/server.rs).                         *)
(*                                                                         *)
(* Server::update runs three phases: it updates the buffers of every       *)
(* client, handles datagrams until the socket has no more of them, and     *)
(* pings the clients that are due.  The program calls its other methods    *)
(* between updates.  Datagrams of every kind may come from every address   *)
(* at any time; those that change nothing (packets the server reports as   *)
(* unexpected, parts that complete no packet) are not modelled.            *)
(*                                                                         *)
(* The PacketBuffers of a peer are abstracted to whether the server has    *)
(* sent packets with them that are not settled yet; module Transfer has    *)
(* the rest.                                                               *)
(***************************************************************************)
EXTENDS Integers, Sequences, FiniteSets, FiniteSetsExt

CONSTANTS
    Addr,            \* the addresses of the peers
    NoOne,           \* the "address" of a vacant slot
    PingId,          \* ids of pings (version 4 UUIDs)
    PingDelay,       \* ServerConfig::ping_delay in ticks
    MaxMissedPongs,  \* ServerConfig::max_missed_pongs, or None
    MissedPongsMax,  \* missed_pongs is counted up to here
    SendResults      \* what a send may return: "sent", "blocked" or "error"

(* Rust's Option::None for the optional numbers of the model. *)
None == -1

ASSUME AddrAssumption == NoOne \notin Addr /\ IsFiniteSet(Addr)

(* A new ping must differ from those on their way in each direction. *)
ASSUME PingIdAssumption == PingId \subseteq Nat /\ IsFiniteSet(PingId) /\ Cardinality(PingId) > 2

ASSUME PingAssumption ==
    /\ PingDelay \in Nat
    /\ MaxMissedPongs \in Nat \cup {None}
    /\ MissedPongsMax \in Nat /\ MissedPongsMax > MaxMissedPongs

ASSUME SendResultsAssumption == SendResults \subseteq {"sent", "blocked", "error"}

VARIABLES
    listeners,   \* Server::listeners, the addresses that are listened to
    clients,     \* Server::clients, a sequence of slots
    pending,     \* the listeners and clients with packets in their send buffers
    phase,       \* what the server is doing
    pings,       \* the ping on its way to each peer, or None
    pongs,       \* the pong on its way from each peer, or None
    timedOut,    \* the timeouts reported to the handler by the last send_pings
    unanswered   \* pings in a row that were sent to a client without a valid pong

peers == <<listeners, clients, pending>>
vars == <<listeners, clients, pending, phase, pings, pongs, timedOut, unanswered>>

-----------------------------------------------------------------------------
(* Slots                                                                   *)

(* ClientConnection::new; active_ping is the id of the ping and ping_age   *)
(* the time since it was sent, last_pong is TRUE for Some.                 *)
NewClient(a) ==
    [addr |-> a, active_ping |-> None, ping_age |-> 0, last_pong |-> FALSE, missed_pongs |-> 0]

Vacant == NewClient(NoOne)

Occupied == {i \in DOMAIN clients : clients[i].addr # NoOne}

Connected == {clients[i].addr : i \in Occupied}

SlotOf(a) == CHOOSE i \in Occupied : clients[i].addr = a

(* Mutant: a new client always gets a new slot. *)
FreeSlotAtTheEnd == Len(clients) + 1

(* Server::get_or_add_free_slot: the first vacant slot, or one more. *)
FreeSlot == Min({i \in DOMAIN clients : clients[i].addr = NoOne} \cup {Len(clients) + 1})

PutClient(a) ==
    [i \in 1..Max({Len(clients), FreeSlot}) |-> IF i = FreeSlot THEN NewClient(a) ELSE clients[i]]

(* The slots without those of the addresses A. *)
Vacated(A) == [i \in DOMAIN clients |-> IF clients[i].addr \in A THEN Vacant ELSE clients[i]]

-----------------------------------------------------------------------------
Init ==
    /\ listeners = {}
    /\ clients = <<>>
    /\ pending = {}
    /\ phase = "idle"
    /\ pings = [a \in Addr |-> None]
    /\ pongs = [a \in Addr |-> None]
    /\ timedOut = {}
    /\ unanswered = [a \in Addr |-> 0]

-----------------------------------------------------------------------------
(* Calls of the program between updates                                    *)

Unlisten(a) ==
    /\ phase = "idle"
    /\ a \in listeners
    /\ listeners' = listeners \ {a}
    /\ pending' = pending \ {a}
    /\ UNCHANGED <<clients, phase, pings, pongs, timedOut, unanswered>>

UnlistenAll ==
    /\ phase = "idle"
    /\ listeners' = {}
    /\ pending' = pending \ listeners
    /\ UNCHANGED <<clients, phase, pings, pongs, timedOut, unanswered>>

(* Client::send: an error is returned to the program, and nothing else. *)
SendUser(a, result) ==
    /\ phase = "idle"
    /\ a \in Connected
    /\ pending' = IF result = "error" THEN pending ELSE pending \cup {a}
    /\ UNCHANGED <<listeners, clients, phase, pings, pongs, timedOut, unanswered>>

-----------------------------------------------------------------------------
(* Mutant: vacant slots are removed. *)
RemainingCompacted(failed) == SelectSeq(Vacated(failed), LAMBDA c : c.addr # NoOne)

(* The slots after the last one that was occupied are cut off. *)
Remaining(failed) == SubSeq(Vacated(failed), 1, Max(Occupied \cup {0}))

(* Server::update_buffers: the buffers of every client are updated.  Those *)
(* of the addresses in `failed` return an error, which drops the client;   *)
(* all packets of those in `settled` are done or given up.                 *)
UpdateBuffers(failed, settled) ==
    /\ phase = "idle"
    /\ failed # {} => "error" \in SendResults
    /\ phase' = "packets"
    /\ clients' = Remaining(failed)
    /\ pending' = pending \ (settled \cup failed)
    /\ timedOut' = {}
    /\ UNCHANGED <<listeners, pings, pongs, unanswered>>

-----------------------------------------------------------------------------
(* Server::handle_packets, one action per datagram that changes something  *)

(* Mutant: the clients are not looked at. *)
HandleVersionRequestOfAnyone(a, result) ==
    /\ phase = "packets"
    /\ result = "sent" /\ a \notin listeners
    /\ listeners' = listeners \cup {a}
    /\ UNCHANGED <<clients, pending, phase, pings, pongs, timedOut, unanswered>>

(* An empty datagram: the peer is listened to once its answer was sent. *)
HandleVersionRequest(a, result) ==
    /\ phase = "packets"
    /\ result = "sent" /\ a \notin listeners /\ a \notin Connected
    /\ listeners' = listeners \cup {a}
    /\ UNCHANGED <<clients, pending, phase, pings, pongs, timedOut, unanswered>>

(* Mutants: missed_pongs is taken down by one, or left as it is. *)
AnsweredOnce(c) == [c EXCEPT !.last_pong = TRUE, !.missed_pongs = @ - 1]
AnsweredWithoutReset(c) == [c EXCEPT !.last_pong = TRUE]

Answered(c) == [c EXCEPT !.last_pong = TRUE, !.missed_pongs = 0]

(* A pong counts if it answers the active ping.  The network may have      *)
(* another copy of it.                                                     *)
HandlePong(a, again) ==
    LET i == SlotOf(a)
    IN  /\ phase = "packets"
        /\ pongs[a] # None
        /\ pongs' = IF again THEN pongs ELSE [pongs EXCEPT ![a] = None]
        /\ IF a \in Connected /\ clients[i].active_ping = pongs[a]
           THEN /\ clients' = [clients EXCEPT ![i] = Answered(@)]
                /\ unanswered' = [unanswered EXCEPT ![a] = 0]
           ELSE UNCHANGED <<clients, unanswered>>
        /\ UNCHANGED <<listeners, pending, phase, pings, timedOut>>

(* The client's buffers move back to the listeners. *)
Disconnect(a) ==
    /\ clients' = Vacated({a})
    /\ listeners' = listeners \cup {a}

HandleQuery(a, result) ==
    /\ phase = "packets"
    /\ a \in Connected \cup listeners
    /\ pending' = IF result = "error" THEN pending ELSE pending \cup {a}
    /\ IF a \in Connected /\ result = "error"
       THEN Disconnect(a)
       ELSE UNCHANGED <<listeners, clients>>
    /\ UNCHANGED <<phase, pings, pongs, timedOut, unanswered>>

(* A client that is connected already is disconnected. *)
HandleConnectAgain(a) ==
    /\ phase = "packets"
    /\ a \in Connected
    /\ Disconnect(a)
    /\ UNCHANGED <<pending, phase, pings, pongs, timedOut, unanswered>>

(* The handler accepts the listener: it becomes a client if the Accept did *)
(* not fail to send.                                                       *)
HandleConnectAccept(a, result) ==
    /\ phase = "packets"
    /\ a \in listeners /\ a \notin Connected
    /\ result # "error"
    /\ pending' = pending \cup {a}
    /\ clients' = PutClient(a)
    /\ listeners' = listeners \ {a}
    /\ unanswered' = [unanswered EXCEPT ![a] = 0]
    /\ UNCHANGED <<phase, pings, pongs, timedOut>>

HandleConnectReject(a, result) ==
    /\ phase = "packets"
    /\ a \in listeners /\ a \notin Connected
    /\ result # "error"
    /\ pending' = pending \cup {a}
    /\ UNCHANGED <<listeners, clients, phase, pings, pongs, timedOut, unanswered>>

HandleDisconnect(a) ==
    /\ phase = "packets"
    /\ a \in Connected
    /\ Disconnect(a)
    /\ UNCHANGED <<pending, phase, pings, pongs, timedOut, unanswered>>

(* recv returns None: the loop ends. *)
NoMorePackets ==
    /\ phase = "packets"
    /\ phase' = "pings"
    /\ UNCHANGED <<listeners, clients, pending, pings, pongs, timedOut, unanswered>>

-----------------------------------------------------------------------------
(* Server::send_pings                                                      *)

PingDue(c) == c.addr # NoOne /\ (c.active_ping = None \/ c.ping_age >= PingDelay)

(* Mutant: a missed pong is not counted. *)
CountedNever(c) == [c EXCEPT !.active_ping = None, !.ping_age = 0, !.last_pong = FALSE]

(* The client after its active ping was taken. *)
Counted(c) ==
    LET missed == c.active_ping # None /\ ~c.last_pong
    IN  [c EXCEPT !.active_ping = None, !.ping_age = 0, !.last_pong = FALSE,
                  !.missed_pongs = IF missed THEN Min({@ + 1, MissedPongsMax}) ELSE @]

TimesOut(c) ==
    /\ PingDue(c)
    /\ c.active_ping # None /\ ~c.last_pong
    /\ MaxMissedPongs # None /\ Counted(c).missed_pongs > MaxMissedPongs

(* Uuid::new_v4: none that could still be answered has this id.  That of   *)
(* the ping it replaces is free again once no copy of it is on its way.    *)
FreshPing(c) == CHOOSE id \in PingId : id \notin {pings[c.addr], pongs[c.addr]}

(* A client is dropped when it times out or its ping cannot be sent; a     *)
(* ping that would block is tried again in the next update.                *)
Pinged(c, result) ==
    IF ~PingDue(c) THEN c
    ELSE IF TimesOut(c) \/ result = "error" THEN Vacant
    ELSE IF result = "sent" THEN [Counted(c) EXCEPT !.active_ping = FreshPing(c)]
    ELSE Counted(c)

SendPings(result) ==
    LET SentTo(a) == \E i \in Occupied :
            /\ clients[i].addr = a /\ result[a] = "sent"
            /\ PingDue(clients[i]) /\ ~TimesOut(clients[i])
        SlotAfter(c) == IF c.addr = NoOne THEN c ELSE Pinged(c, result[c.addr])
        clientsAfter == [i \in DOMAIN clients |-> SlotAfter(clients[i])]
        gone == Connected \ {clientsAfter[i].addr : i \in DOMAIN clients}
    IN  /\ phase = "pings"
        /\ phase' = "idle"
        /\ clients' = clientsAfter
        /\ timedOut' = {clients[i].addr : i \in {j \in Occupied : TimesOut(clients[j])}}
        /\ pending' = pending \ gone
        /\ pings' = [a \in Addr |-> IF SentTo(a) THEN FreshPing(clients[SlotOf(a)]) ELSE pings[a]]
        /\ unanswered' = [a \in Addr |-> IF SentTo(a)
                                         THEN Min({unanswered[a] + 1, MissedPongsMax + 1})
                                         ELSE unanswered[a]]
        /\ UNCHANGED <<listeners, pongs>>

-----------------------------------------------------------------------------
(* The environment                                                         *)

(* A client sends the ping back as it is. *)
AnswerPing(a) ==
    /\ pings[a] # None
    /\ pongs' = [pongs EXCEPT ![a] = pings[a]]
    /\ pings' = [pings EXCEPT ![a] = None]
    /\ UNCHANGED <<listeners, clients, pending, phase, timedOut, unanswered>>

LosePing(a) ==
    /\ pings[a] # None
    /\ pings' = [pings EXCEPT ![a] = None]
    /\ UNCHANGED <<listeners, clients, pending, phase, pongs, timedOut, unanswered>>

LosePong(a) ==
    /\ pongs[a] # None
    /\ pongs' = [pongs EXCEPT ![a] = None]
    /\ UNCHANGED <<listeners, clients, pending, phase, pings, timedOut, unanswered>>

Tick ==
    /\ clients' = [i \in DOMAIN clients |->
                     IF clients[i].active_ping # None /\ clients[i].ping_age < PingDelay
                     THEN [clients[i] EXCEPT !.ping_age = @ + 1]
                     ELSE clients[i]]
    /\ UNCHANGED <<listeners, pending, phase, pings, pongs, timedOut, unanswered>>

-----------------------------------------------------------------------------
Next ==
    \/ \E a \in Addr : Unlisten(a)
    \/ UnlistenAll
    \/ \E a \in Addr, result \in SendResults : SendUser(a, result)
    \/ \E failed \in SUBSET Connected, settled \in SUBSET Connected :
         UpdateBuffers(failed, settled)
    \/ \E a \in Addr, result \in SendResults : HandleVersionRequest(a, result)
    \/ \E a \in Addr, again \in BOOLEAN : HandlePong(a, again)
    \/ \E a \in Addr, result \in SendResults : HandleQuery(a, result)
    \/ \E a \in Addr : HandleConnectAgain(a)
    \/ \E a \in Addr, result \in SendResults : HandleConnectAccept(a, result)
    \/ \E a \in Addr, result \in SendResults : HandleConnectReject(a, result)
    \/ \E a \in Addr : HandleDisconnect(a)
    \/ NoMorePackets
    \/ \E result \in [Connected -> SendResults] : SendPings(result)
    \/ \E a \in Addr : AnswerPing(a)
    \/ \E a \in Addr : LosePing(a)
    \/ \E a \in Addr : LosePong(a)
    \/ Tick

Spec == Init /\ [][Next]_vars

-----------------------------------------------------------------------------
(* Properties                                                              *)

Slot ==
    [addr : Addr \cup {NoOne}, active_ping : PingId \cup {None}, ping_age : 0..PingDelay,
     last_pong : BOOLEAN, missed_pongs : 0..MissedPongsMax]

(* Type correctness of the server's state and of the pings on their way.   *)
TypeOK ==
    /\ listeners \subseteq Addr
    /\ clients \in Seq(Slot)
    /\ pending \subseteq Addr
    /\ phase \in {"idle", "packets", "pings"}
    /\ pings \in [Addr -> PingId \cup {None}]
    /\ pongs \in [Addr -> PingId \cup {None}]
    /\ timedOut \subseteq Addr
    /\ unanswered \in [Addr -> 0..(MissedPongsMax + 1)]

(* Every address has at most one set of buffers: it is listened to         *)
(* ("excluding the ones that are connected") or has one slot, and packets  *)
(* wait for known peers only.                                              *)
OneHome ==
    /\ listeners \cap Connected = {}
    /\ \A i, j \in Occupied : clients[i].addr = clients[j].addr => i = j
    /\ pending \subseteq listeners \cup Connected

(* "Connected clients cannot move position": a client that stays connected *)
(* keeps its slot when others come and go and slots are cut off.           *)
SlotsAreStable ==
    [][\A i \in Occupied :
          clients[i].addr \in Connected' =>
             i \in DOMAIN clients' /\ clients'[i].addr = clients[i].addr]_vars

(* Slots "can be reused by new clients": there are never more of them than *)
(* addresses, however often clients come and go.                           *)
SlotsAreReused == Len(clients) <= Cardinality(Addr)

(* A client is timed out for max_missed_pongs + 1 pings in a row that were *)
(* sent to it and not answered in time, no more and no less ("the 4th      *)
(* missed pong causes a timeout").                                         *)
TimeoutIsEarned ==
    \A a \in timedOut : unanswered[a] = MaxMissedPongs + 1

(* A client that stops answering does not stay connected. *)
SilentIsDropped ==
    \A a \in Addr : unanswered[a] > 0 ~> (unanswered[a] = 0 \/ a \notin Connected)

=============================================================================
