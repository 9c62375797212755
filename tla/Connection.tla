------------------------------ MODULE Connection ------------------------------
(***************************************************************************)
(* A client and a server joined by a network: one client that knows one    *)
(* server, with the state machines of modules Client and Server.           *)
(*                                                                         *)
(* The network holds whole packets of the reliable layer, by kind.  A      *)
(* packet may be lost, overtake others, and be received again: what is     *)
(* still in the network stands for the copies that were resent and for     *)
(* those that the receiver no longer knows as duplicates (module           *)
(* Transfer).  A packet whose first send blocks is never sent.             *)
(* Pings and pongs are those of module Server.                             *)
(***************************************************************************)
EXTENDS Integers, Sequences, FiniteSets

CONSTANTS
    TheClient, TheServer, NoOne, NoServer,
    PingId, PingDelay, MaxMissedPongs, MissedPongsMax,
    ResendDelay, Timeout, SendResults,
    Capacity  \* bound: packets on their way in each direction

VARIABLES
    state, servers, sending, step, cursor, peer, audible, refreshed,         \* the client
    listeners, clients, pending, phase, pings, pongs, timedOut, unanswered,  \* the server
    toServer,  \* packets on their way to the server
    toClient,  \* packets on their way to the client
    history    \* how far the client has ever come: "new", "asked" or "admitted"

clientVars == <<state, servers, sending, step, cursor, peer, audible, refreshed>>
serverVars == <<listeners, clients, pending, phase, pings, pongs, timedOut, unanswered>>
network == <<toServer, toClient, history>>
vars == <<clientVars, serverVars, network>>

C == INSTANCE Client WITH
        Servers <- {TheServer}, listeners <- servers, pending <- sending, phase <- step

S == INSTANCE Server WITH Addr <- {TheClient}

(* What the assumptions of Client and Server become. *)
ASSUME NamesAssumption == TheClient # NoOne /\ TheServer # NoServer

ASSUME PingsAssumption ==
    /\ PingId \subseteq Nat /\ IsFiniteSet(PingId) /\ Cardinality(PingId) > 2
    /\ PingDelay \in Nat
    /\ MaxMissedPongs \in Nat \cup {S!None}
    /\ MissedPongsMax \in Nat /\ MissedPongsMax > MaxMissedPongs

ASSUME DelaysAssumption == ResendDelay \in Nat /\ Timeout \in Nat \cup {C!None}

ASSUME SendsAssumption == SendResults \subseteq {"sent", "blocked", "error"} /\ Capacity \in Nat

Init == C!Init /\ S!Init /\ toServer = {} /\ toClient = {} /\ history = "new"

-----------------------------------------------------------------------------
(* The network                                                             *)

PacketsToServer == {"VersionRequest", "Connect", "Disconnect", "User"}
PacketsToClient == {"Version", "Accept", "Reject", "Ack"}

(* The packet k was handled; another copy of it may follow. *)
Taken(packets, k, again) == IF again THEN packets ELSE packets \ {k}

(* The packet k goes out if the call that sends it got that far; a full    *)
(* network drops it.                                                       *)
Put(packets, k, sent) ==
    IF sent /\ Cardinality(packets) < Capacity THEN packets \cup {k} ELSE packets

LoseToServer(k) ==
    /\ k \in toServer
    /\ toServer' = toServer \ {k}
    /\ UNCHANGED <<clientVars, serverVars, toClient, history>>

LoseToClient(k) ==
    /\ k \in toClient
    /\ toClient' = toClient \ {k}
    /\ UNCHANGED <<clientVars, serverVars, toServer, history>>

LosePing == (S!LosePing(TheClient) \/ S!LosePong(TheClient)) /\ UNCHANGED <<clientVars, network>>

-----------------------------------------------------------------------------
(* Calls of the client's program                                           *)

Compatible == C!HasState(TheServer, "Compatible")

Listen(result) ==
    /\ C!Listen(TheServer, result)
    /\ toServer' = Put(toServer, "VersionRequest", TheServer \notin C!Known /\ result = "sent")
    /\ UNCHANGED <<serverVars, toClient, history>>

Forget == (C!Forget(TheServer) \/ C!ForgetAll) /\ UNCHANGED <<serverVars, network>>

Refresh(n, result) ==
    /\ C!RefreshAll(n, result)
    /\ toServer' = Put(toServer, "VersionRequest", n = 1 /\ result[1] = "sent")
    /\ UNCHANGED <<serverVars, toClient, history>>

Connect(result) ==
    /\ C!Connect(TheServer, result)
    /\ toServer' = IF Compatible
                   THEN Put(toServer, "Connect", result = "sent")
                   ELSE Put(toServer, "VersionRequest", TheServer \notin C!Known /\ result = "sent")
    /\ history' = IF Compatible /\ result # "error" /\ history = "new" THEN "asked" ELSE history
    /\ UNCHANGED <<serverVars, toClient>>

Disconnect(result) ==
    /\ C!Disconnect(result)
    /\ toServer' = Put(toServer, "Disconnect", result = "sent" /\ step' # "panicked")
    /\ UNCHANGED <<serverVars, toClient, history>>

Send(result) ==
    /\ C!Send(result)
    /\ toServer' = Put(toServer, "User", result = "sent" /\ step' # "panicked")
    /\ UNCHANGED <<serverVars, toClient, history>>

-----------------------------------------------------------------------------
(* The client's update                                                     *)

(* Bound: packets that do not fail with the next update never do. *)
ClientUpdateListener(result) ==
    /\ C!UpdateListener(result, TRUE)
    /\ toServer' = Put(toServer, "VersionRequest", C!QueryDue(C!Visited) /\ result = "sent")
    /\ UNCHANGED <<serverVars, toClient, history>>

ClientLoop ==
    \/ \E result \in SendResults : ClientUpdateListener(result)
    \/ /\ \/ C!StartUpdate
          \/ C!UpdateListenerFails
          \/ C!StartPackets
          \/ C!NoMorePackets(FALSE)
          \/ C!TimeoutListener
          \/ C!FinishUpdate
       /\ UNCHANGED <<serverVars, network>>

(* What the client does with a packet that it does not expect. *)
Unexpected == step = "packets" /\ IF Compatible THEN C!HandleOther(TheServer) ELSE UNCHANGED clientVars

OnConnection(states) == Compatible /\ C!IsConnection(TheServer) /\ state \in states

ClientReceives(k, again) ==
    /\ k \in toClient
    /\ CASE k = "Version" /\ C!HasState(TheServer, "PendingVersion") ->
                \E compatible \in BOOLEAN : C!HandleVersion(TheServer, compatible)
         [] k = "Accept" /\ OnConnection({"Connecting"}) -> C!HandleAccept(TheServer)
         [] k = "Reject" /\ OnConnection({"Connecting"}) -> C!HandleReject(TheServer)
         [] OTHER -> Unexpected
    /\ toClient' = Taken(toClient, k, again)
    /\ UNCHANGED <<serverVars, toServer, history>>

(* Mutant: the ping is always answered. *)
ClientReceivesPingAlways(result) ==
    /\ pings[TheClient] # S!None
    /\ Unexpected
    /\ S!AnswerPing(TheClient)
    /\ UNCHANGED network

(* The ping is answered, or dropped if the client is not connected. *)
ClientReceivesPing(result) ==
    /\ pings[TheClient] # S!None
    /\ IF OnConnection({"Connecting", "Connected", "Disconnecting"})
       THEN C!HandlePing(TheServer, result) ELSE Unexpected
    /\ IF OnConnection({"Connecting", "Connected", "Disconnecting"}) /\ result = "sent"
       THEN S!AnswerPing(TheClient) ELSE S!LosePing(TheClient)
    /\ UNCHANGED network

-----------------------------------------------------------------------------
(* The server's update                                                     *)

ServerKnows == TheClient \in listeners \cup S!Connected

(* Bound: a ping and its pong are gone before the next ping is sent.  For  *)
(* the other packets, one that blocks is as good as one that is lost.      *)
ServerPings(result) ==
    /\ pings[TheClient] = S!None /\ pongs[TheClient] = S!None
    /\ S!SendPings([a \in S!Connected |-> result])
    /\ UNCHANGED <<clientVars, network>>

ServerLoop ==
    \/ /\ \/ \E failed \in SUBSET S!Connected : S!UpdateBuffers(failed, S!Connected)
          \/ S!NoMorePackets
       /\ UNCHANGED <<clientVars, network>>
    \/ \E result \in SendResults \cup {"blocked"} : ServerPings(result)

Unlisten == S!Unlisten(TheClient) /\ UNCHANGED <<clientVars, network>>

ServerReceivesPong(again) == S!HandlePong(TheClient, again) /\ UNCHANGED <<clientVars, network>>

ServerReceivesVersionRequest(result, again) ==
    /\ phase = "packets" /\ "VersionRequest" \in toServer
    /\ IF result = "sent" /\ ~ServerKnows
       THEN S!HandleVersionRequest(TheClient, result) ELSE UNCHANGED serverVars
    /\ toServer' = Taken(toServer, "VersionRequest", again)
    /\ toClient' = Put(toClient, "Version", result = "sent")
    /\ UNCHANGED <<clientVars, history>>

(* A known client's packets are acked; the others are dropped.  If the     *)
(* answer of the handler cannot be sent, nothing but the ack remains.      *)
ServerReceivesConnect(result, again) ==
    /\ phase = "packets" /\ "Connect" \in toServer
    /\ \/ /\ S!HandleConnectAgain(TheClient)
          /\ toClient' = Put(toClient, "Ack", TRUE)
          /\ UNCHANGED history
       \/ /\ S!HandleConnectAccept(TheClient, result)
          /\ toClient' = Put(Put(toClient, "Accept", result = "sent"), "Ack", TRUE)
          /\ history' = "admitted"
       \/ /\ S!HandleConnectReject(TheClient, result)
          /\ toClient' = Put(Put(toClient, "Reject", result = "sent"), "Ack", TRUE)
          /\ UNCHANGED history
       \/ /\ result = "error" /\ TheClient \in listeners
          /\ toClient' = Put(toClient, "Ack", TRUE)
          /\ UNCHANGED <<serverVars, history>>
       \/ /\ ~ServerKnows
          /\ UNCHANGED <<serverVars, toClient, history>>
    /\ toServer' = Taken(toServer, "Connect", again)
    /\ UNCHANGED clientVars

ServerReceives(k, again) ==
    /\ phase = "packets" /\ k \in toServer \cap {"Disconnect", "User"}
    /\ IF k = "Disconnect" /\ TheClient \in S!Connected
       THEN S!HandleDisconnect(TheClient) ELSE UNCHANGED serverVars
    /\ toServer' = Taken(toServer, k, again)
    /\ toClient' = Put(toClient, "Ack", ServerKnows)
    /\ UNCHANGED <<clientVars, history>>

-----------------------------------------------------------------------------
Tick == C!Tick /\ S!Tick /\ UNCHANGED network

Calls ==
    \/ \E result \in SendResults : Listen(result)
    \/ Forget
    \/ \E n \in 0..Len(servers) :
         \E result \in [1..n -> SendResults \ {"error"}] : Refresh(n, result)
    \/ \E result \in SendResults : Connect(result)
    \/ \E result \in SendResults : Disconnect(result)
    \/ \E result \in SendResults : Send(result)

ClientHandles ==
    \/ \E k \in toClient, again \in BOOLEAN : ClientReceives(k, again)
    \/ \E result \in SendResults : ClientReceivesPing(result)

ServerHandles ==
    \/ \E again \in BOOLEAN : ServerReceivesPong(again)
    \/ \E result \in SendResults, again \in BOOLEAN : ServerReceivesVersionRequest(result, again)
    \/ \E result \in SendResults, again \in BOOLEAN : ServerReceivesConnect(result, again)
    \/ \E k \in toServer, again \in BOOLEAN : ServerReceives(k, again)

Next ==
    \/ Calls
    \/ ClientLoop
    \/ ClientHandles
    \/ ServerLoop
    \/ ServerHandles
    \/ Unlisten
    \/ \E k \in toServer : LoseToServer(k)
    \/ \E k \in toClient : LoseToClient(k)
    \/ LosePing
    \/ Tick

Spec == Init /\ [][Next]_vars

(* Both programs keep calling update, datagrams do not arrive faster than  *)
(* they are handled, time passes, and nothing stays in the network on the  *)
(* way to the client forever.  That any packet arrives is not assumed.     *)
Fairness ==
    /\ WF_vars(ClientLoop)
    /\ WF_vars(ServerLoop)
    /\ SF_vars(TheClient \in S!Connected /\ ServerPings("sent"))
    /\ WF_vars(\E k \in toClient : LoseToClient(k))
    /\ WF_vars(LosePing)
    /\ WF_vars(Tick)

FairSpec == Spec /\ Fairness

-----------------------------------------------------------------------------
(* Properties                                                              *)

(* No call of the program panics ("connected server should be compatible", *)
(* and Vec::drain in forget_all), whatever the server answers and whatever *)
(* the network does.  The one exception is refresh_all, called in the same *)
(* session: it resets the listener that the connection needs.              *)
PanicIsEarned == step = "panicked" => refreshed

ClientEnd ==
    CASE state = "Disconnected" -> "out"
      [] state = "Connecting" -> "asking"
      [] state = "Connected" -> "in"
      [] state = "Disconnecting" -> "leaving"

ServerEnd == IF TheClient \in S!Connected THEN "in" ELSE "out"

Promise == INSTANCE Session WITH client <- ClientEnd, server <- ServerEnd

(* Both ends keep to the life cycle of a session. *)
SessionSpec == Promise!Spec

(* A client that stops answering does not stay connected. *)
SilentIsDropped == S!SilentIsDropped

(* A client that left without the server noticing does not stay connected  *)
(* there: its pings are no longer answered.                                *)
ServerNotices ==
    state = "Disconnected" /\ TheClient \in S!Connected ~>
        state # "Disconnected" \/ TheClient \notin S!Connected

(* A client that waits for a server that does not have it (any more) times *)
(* out, once its own packets have stopped: their acks keep it waiting.  A  *)
(* client that has reset its listener waits for a version instead.         *)
ClientNotices ==
    <>[](toServer = {}) =>
        (state # "Disconnected" /\ ~refreshed /\ TheClient \notin S!Connected ~>
            state = "Disconnected" \/ refreshed \/ TheClient \in S!Connected)

=============================================================================
