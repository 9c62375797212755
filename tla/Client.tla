-------------------------------- MODULE Client --------------------------------
(***************************************************************************)
(* The client's list of servers and its connection (src/net/client.rs).    *)
(*                                                                         *)
(* Client::update visits every listener, handles datagrams until the       *)
(* socket has no more of them, and visits every listener once more to      *)
(* time it out.  The program calls the other methods between updates.      *)
(* Any server may send any datagram at any time; those that change nothing *)
(* (from unknown or incompatible servers, malformed versions) are not      *)
(* modelled.                                                               *)
(*                                                                         *)
(* The socket is one of a connected UDP peer once connect was called: the  *)
(* system drops what other servers send from then on, but hands out what   *)
(* was queued before.                                                      *)
(***************************************************************************)
EXTENDS Integers, Sequences, SequencesExt, FiniteSets

CONSTANTS
    Servers,          \* the addresses of the servers
    NoServer,         \* the "peer" of a socket that was never connected
    ResendDelay,      \* ConnectionConfig::resend_delay in ticks
    Timeout,          \* ClientConfig::timeout in ticks, or None
    SendResults       \* what a send may return: "sent", "blocked" or "error"

(* Rust's Option::None for the optional numbers of the model. *)
None == -1

ASSUME ServersAssumption == NoServer \notin Servers /\ IsFiniteSet(Servers)

ASSUME DelayAssumption == ResendDelay \in Nat /\ Timeout \in Nat \cup {None}

ASSUME ResultsAssumption == SendResults \subseteq {"sent", "blocked", "error"}

VARIABLES
    state,      \* Client::state
    listeners,  \* Client::listeners
    pending,    \* the servers with packets in the send buffers of their listener
    phase,      \* what the client is doing
    cursor,     \* the listener that is visited next
    peer,       \* the server that the socket is connected to
    audible,    \* the servers that may have datagrams in the socket's queue
    refreshed   \* history: refresh_all reset a listener in the session that goes on

session == <<state, listeners, pending>>
vars == <<state, listeners, pending, phase, cursor, peer, audible, refreshed>>

-----------------------------------------------------------------------------
(* Listeners: `age` is the time since the last version query that was sent *)
(* (PendingVersion; None if there is none) or since the last interaction   *)
(* (Compatible).                                                           *)

Known == {listeners[i].addr : i \in DOMAIN listeners}

IndexOf(a) ==
    CHOOSE i \in DOMAIN listeners :
        listeners[i].addr = a /\ \A j \in 1..(i - 1) : listeners[j].addr # a

HasState(a, s) == a \in Known /\ listeners[IndexOf(a)].state = s

(* ServerListener::new, with the result of its version query. *)
NewListener(a, result) ==
    [addr |-> a, state |-> "PendingVersion", age |-> IF result = "sent" THEN 0 ELSE None]

(* ServerState::compatible and ServerState::incompatible. *)
Judged(l, compatible) ==
    [l EXCEPT !.state = IF compatible THEN "Compatible" ELSE "Incompatible", !.age = 0]

(* Vec::swap_remove: the last element takes the place of the removed one. *)
SwapRemove(s, i) == [j \in 1..(Len(s) - 1) |-> IF j = i THEN s[Len(s)] ELSE s[j]]

(* Mutant: the server is not looked for. *)
WithListenerAgain(a, result) == Append(listeners, NewListener(a, result))

(* Client::get_or_add_listener. *)
WithListener(a, result) ==
    IF a \in Known \/ result = "error" THEN listeners ELSE Append(listeners, NewListener(a, result))

-----------------------------------------------------------------------------
Init ==
    /\ state = "Disconnected"
    /\ listeners = <<>>
    /\ pending = {}
    /\ phase = "idle"
    /\ cursor = 1
    /\ peer = NoServer
    /\ audible = Servers
    /\ refreshed = FALSE

-----------------------------------------------------------------------------
(* Calls of the program between updates                                    *)

Listen(a, result) ==
    /\ phase = "idle"
    /\ listeners' = WithListener(a, result)
    /\ UNCHANGED <<state, pending, phase, cursor, peer, audible, refreshed>>

(* Mutant: the listener of the connection is forgotten like any other. *)
ForgettableAnyway(a) == a \in Known

Forgettable(a) == a \in Known /\ (IndexOf(a) = 1 => state = "Disconnected")

Forget(a) ==
    /\ phase = "idle"
    /\ Forgettable(a)
    /\ listeners' = SwapRemove(listeners, IndexOf(a))
    /\ pending' = pending \ {a}
    /\ UNCHANGED <<state, phase, cursor, peer, audible, refreshed>>

(* Without a first listener to keep, Vec::drain(1..) panics. *)
ForgetAll ==
    /\ phase = "idle"
    /\ IF state # "Disconnected" /\ listeners = <<>>
       THEN phase' = "panicked" /\ UNCHANGED session
       ELSE /\ listeners' = IF state = "Disconnected" THEN <<>> ELSE <<listeners[1]>>
            /\ pending' = pending \cap {listeners'[i].addr : i \in DOMAIN listeners'}
            /\ UNCHANGED <<state, phase>>
    /\ UNCHANGED <<cursor, peer, audible, refreshed>>

(* Client::refresh_all starts over with the first n listeners; if there    *)
(* are more, the version query of the next one failed.  It may be called   *)
(* while connected, and then resets the listener of the connection, too.   *)
RefreshAll(n, result) ==
    /\ phase = "idle"
    /\ n < Len(listeners) => "error" \in SendResults
    /\ listeners' = [i \in DOMAIN listeners |->
                       IF i <= n THEN NewListener(listeners[i].addr, result[i]) ELSE listeners[i]]
    /\ pending' = pending \ {listeners[i].addr : i \in 1..n}
    /\ refreshed' = (refreshed \/ (n > 0 /\ state # "Disconnected"))
    /\ UNCHANGED <<state, phase, cursor, peer, audible>>

(* A query to an unknown server only starts listening to it. *)
Query(a, result) ==
    /\ phase = "idle"
    /\ listeners' = WithListener(a, result)
    /\ pending' = IF HasState(a, "Compatible") /\ result # "error" THEN pending \cup {a} ELSE pending
    /\ UNCHANGED <<state, phase, cursor, peer, audible, refreshed>>

(* The socket is connected before anything else is looked at.  If that     *)
(* fails nothing changes; if peer_addr does, what is left is what an error *)
(* of the first send leaves.                                               *)
Connect(a, result) ==
    /\ phase = "idle"
    /\ state = "Disconnected"
    /\ peer' = a
    /\ audible' = audible \cup {a}
    /\ listeners' = WithListener(a, result)
    /\ IF HasState(a, "Compatible") /\ result # "error"
       THEN state' = "Connecting" /\ pending' = pending \cup {a}
       ELSE UNCHANGED <<state, pending>>
    /\ UNCHANGED <<phase, cursor, refreshed>>

(* Client::disconnect (to Disconnecting) and Client::send (stays           *)
(* Connected) use the first listener, whichever that is, and drop it if    *)
(* the packet cannot be sent.  They panic if it is not compatible.         *)
SendOnConnection(result, next) ==
    /\ phase = "idle"
    /\ state = "Connected"
    /\ IF listeners = <<>> \/ listeners[1].state # "Compatible"
       THEN phase' = "panicked" /\ UNCHANGED session
       ELSE /\ UNCHANGED phase
            /\ IF result = "error"
               THEN /\ state' = "Disconnected"
                    /\ listeners' = SwapRemove(listeners, 1)
                    /\ pending' = pending \ {listeners[1].addr}
               ELSE /\ state' = next
                    /\ pending' = pending \cup {listeners[1].addr}
                    /\ UNCHANGED listeners
    /\ refreshed' = (refreshed /\ state' # "Disconnected")
    /\ UNCHANGED <<cursor, peer, audible>>

Disconnect(result) == SendOnConnection(result, "Disconnecting")

Send(result) == SendOnConnection(result, "Connected")

-----------------------------------------------------------------------------
(* Client::update, first part: ServerListener::update of every listener.   *)
(* The first one that is visited may end the connection.                   *)

StartUpdate ==
    /\ phase = "idle"
    /\ phase' = "first"
    /\ cursor' = 1
    /\ UNCHANGED <<state, listeners, pending, peer, audible, refreshed>>

Visited == listeners[cursor]

(* The version query is due again. *)
QueryDue(l) == l.state = "PendingVersion" /\ l.age # None /\ l.age >= ResendDelay

(* The listener is kept; `settled` if its packets are done or given up. *)
UpdateListener(result, settled) ==
    /\ phase \in {"first", "rest"} /\ cursor \in DOMAIN listeners
    /\ result # "error"
    /\ phase' = "rest"
    /\ cursor' = cursor + 1
    /\ listeners' = IF QueryDue(Visited) /\ result = "sent"
                    THEN [listeners EXCEPT ![cursor].age = 0] ELSE listeners
    /\ pending' = IF settled THEN pending \ {Visited.addr} ELSE pending
    /\ UNCHANGED <<state, peer, audible, refreshed>>

(* Mutant: the connection is not ended. *)
StateAfterFailureKept == state

StateAfterFailure ==
    IF phase = "first" /\ Visited.state = "Compatible" THEN "Disconnected" ELSE state

(* Mutant: the index is taken back for the listener that was removed. *)
CursorTakenBack == cursor - 1

(* Vec::retain_mut goes on with the listener that follows the removed one. *)
CursorAfterRemoval == cursor

(* A version query or a packet cannot be sent: the listener is removed. *)
UpdateListenerFails ==
    /\ phase \in {"first", "rest"} /\ cursor \in DOMAIN listeners
    /\ "error" \in SendResults
    /\ QueryDue(Visited) \/ Visited.addr \in pending
    /\ phase' = "rest"
    /\ state' = StateAfterFailure
    /\ listeners' = RemoveAt(listeners, cursor)
    /\ pending' = pending \ {Visited.addr}
    /\ cursor' = CursorAfterRemoval
    /\ refreshed' = (refreshed /\ state' # "Disconnected")
    /\ UNCHANGED <<peer, audible>>

StartPackets ==
    /\ phase \in {"first", "rest"} /\ cursor \notin DOMAIN listeners
    /\ phase' = "packets"
    /\ UNCHANGED <<state, listeners, pending, cursor, peer, audible, refreshed>>

-----------------------------------------------------------------------------
(* Client::update, second part: one action per datagram                    *)

Receives(a) == phase = "packets" /\ a \in audible /\ a \in Known

(* "if there is a connection, the first entry is the connected server" *)
IsConnection(a) == IndexOf(a) = 1 /\ state # "Disconnected"

(* last_interaction is set for whatever a compatible server sends. *)
Heard(a) == [listeners EXCEPT ![IndexOf(a)].age = 0]

(* A Version; the handler decides about compatibility. *)
HandleVersion(a, compatible) ==
    /\ Receives(a) /\ HasState(a, "PendingVersion")
    /\ listeners' = [listeners EXCEPT ![IndexOf(a)] = Judged(@, compatible)]
    /\ UNCHANGED <<state, pending, phase, cursor, peer, audible, refreshed>>

(* A ping of the connected server is sent back. *)
HandlePing(a, result) ==
    /\ Receives(a) /\ HasState(a, "Compatible") /\ IsConnection(a)
    /\ listeners' = Heard(a)
    /\ state' = IF result = "error" THEN "Disconnected" ELSE state
    /\ refreshed' = (refreshed /\ state' # "Disconnected")
    /\ UNCHANGED <<pending, phase, cursor, peer, audible>>

HandleAccept(a) ==
    /\ Receives(a) /\ HasState(a, "Compatible") /\ IsConnection(a)
    /\ state = "Connecting"
    /\ listeners' = Heard(a)
    /\ state' = "Connected"
    /\ UNCHANGED <<pending, phase, cursor, peer, audible, refreshed>>

(* Mutant: a Reject is taken for an Accept. *)
HandleRejectAsAccept(a) == HandleAccept(a)

HandleReject(a) ==
    /\ Receives(a) /\ HasState(a, "Compatible") /\ IsConnection(a)
    /\ state = "Connecting"
    /\ listeners' = Heard(a)
    /\ state' = "Disconnected"
    /\ refreshed' = (refreshed /\ state' # "Disconnected")
    /\ UNCHANGED <<pending, phase, cursor, peer, audible>>

HandleKick(a) ==
    /\ Receives(a) /\ HasState(a, "Compatible") /\ IsConnection(a)
    /\ state = "Connected"
    /\ listeners' = Heard(a)
    /\ state' = "Disconnected"
    /\ refreshed' = (refreshed /\ state' # "Disconnected")
    /\ UNCHANGED <<pending, phase, cursor, peer, audible>>

(* Parts, acks, user packets and everything unexpected. *)
HandleOther(a) ==
    /\ Receives(a) /\ HasState(a, "Compatible")
    /\ listeners' = Heard(a)
    /\ UNCHANGED <<state, pending, phase, cursor, peer, audible, refreshed>>

(* recv returns None.  Unless it failed, the queue was empty: what comes   *)
(* later passes the filter of a connected socket.                          *)
NoMorePackets(failed) ==
    /\ phase = "packets"
    /\ phase' = "timeouts"
    /\ cursor' = 1
    /\ audible' = IF failed \/ peer = NoServer THEN audible ELSE {peer}
    /\ UNCHANGED <<state, listeners, pending, peer, refreshed>>

-----------------------------------------------------------------------------
(* Client::update, third part: Client::timeout_connection                  *)

TimedOut(l) == l.state = "Compatible" /\ Timeout # None /\ l.age > Timeout

(* Mutant: the listener goes without ending the connection. *)
StateAfterTimeoutKept == state

(* Any listener that times out ends the connection. *)
StateAfterTimeout == "Disconnected"

TimeoutListener ==
    /\ phase = "timeouts" /\ cursor \in DOMAIN listeners
    /\ IF TimedOut(Visited)
       THEN /\ state' = StateAfterTimeout
            /\ listeners' = RemoveAt(listeners, cursor)
            /\ pending' = pending \ {Visited.addr}
            /\ cursor' = CursorAfterRemoval
       ELSE /\ cursor' = cursor + 1
            /\ UNCHANGED session
    /\ refreshed' = (refreshed /\ state' # "Disconnected")
    /\ UNCHANGED <<phase, peer, audible>>

FinishUpdate ==
    /\ phase = "timeouts" /\ cursor \notin DOMAIN listeners
    /\ phase' = "idle"
    /\ UNCHANGED <<state, listeners, pending, cursor, peer, audible, refreshed>>

-----------------------------------------------------------------------------
(* Ages are counted up to the limit that they are compared with. *)
AgeLimit(l) ==
    CASE l.state = "PendingVersion" -> ResendDelay
      [] l.state = "Compatible" /\ Timeout # None -> Timeout + 1
      [] OTHER -> 0

Aged(l) == IF l.age # None /\ l.age < AgeLimit(l) THEN [l EXCEPT !.age = @ + 1] ELSE l

Tick ==
    /\ listeners' = [i \in DOMAIN listeners |-> Aged(listeners[i])]
    /\ UNCHANGED <<state, pending, phase, cursor, peer, audible, refreshed>>

-----------------------------------------------------------------------------
Calls ==
    \/ \E a \in Servers, result \in SendResults : Listen(a, result)
    \/ \E a \in Servers : Forget(a)
    \/ ForgetAll
    \/ \E n \in 0..Len(listeners) :
         \E result \in [1..n -> SendResults \ {"error"}] : RefreshAll(n, result)
    \/ \E a \in Servers, result \in SendResults : Query(a, result)
    \/ \E a \in Servers, result \in SendResults : Connect(a, result)
    \/ \E result \in SendResults : Disconnect(result)
    \/ \E result \in SendResults : Send(result)

Handle ==
    \/ \E a \in Servers, compatible \in BOOLEAN : HandleVersion(a, compatible)
    \/ \E a \in Servers, result \in SendResults : HandlePing(a, result)
    \/ \E a \in Servers : HandleAccept(a)
    \/ \E a \in Servers : HandleReject(a)
    \/ \E a \in Servers : HandleKick(a)
    \/ \E a \in Servers : HandleOther(a)

Update ==
    \/ StartUpdate
    \/ \E result \in SendResults, settled \in BOOLEAN : UpdateListener(result, settled)
    \/ UpdateListenerFails
    \/ StartPackets
    \/ \E failed \in BOOLEAN : NoMorePackets(failed)
    \/ TimeoutListener
    \/ FinishUpdate

Next == Calls \/ Update \/ Handle \/ Tick

Spec == Init /\ [][Next]_vars

-----------------------------------------------------------------------------
(* Properties                                                              *)

Listener ==
    [addr : Servers, state : {"PendingVersion", "Compatible", "Incompatible"}, age : Nat \cup {None}]

(* Type correctness of the client's state.  The cursor is a position, but  *)
(* there need not be a listener: between updates it is where the last one  *)
(* ended.                                                                  *)
TypeOK ==
    /\ state \in {"Disconnected", "Connecting", "Connected", "Disconnecting"}
    /\ listeners \in Seq(Listener)
    /\ pending \subseteq Servers
    /\ phase \in {"idle", "first", "rest", "packets", "timeouts", "panicked"}
    /\ cursor \in Nat \ {0}
    /\ peer \in Servers \cup {NoServer}
    /\ audible \subseteq Servers
    /\ refreshed \in BOOLEAN

(* "Should never contain duplicate server addresses", and only compatible  *)
(* servers have buffers with packets in them.                              *)
OneListener ==
    /\ \A i, j \in DOMAIN listeners : listeners[i].addr = listeners[j].addr => i = j
    /\ \A a \in pending : HasState(a, "Compatible")

(* A client in a session has a compatible first listener, however other    *)
(* listeners come, go, fail and change places: disconnect and send need    *)
(* not panic ("connected server should be compatible").  The one exception *)
(* is refresh_all, called in the same session.                             *)
ConnectedIsCompatible ==
    state \in {"Connected", "Disconnecting"} /\ ~refreshed =>
        listeners # <<>> /\ listeners[1].state = "Compatible"

(* The server that a session is with (server_addr) never changes: neither  *)
(* forgetting nor failing nor timing out puts another one in its place,    *)
(* unless refresh_all was called in the same session.                      *)
SessionKeepsServer ==
    [][{state, state'} \subseteq {"Connected", "Disconnecting"} /\ ~refreshed =>
          listeners # <<>> /\ listeners' # <<>> /\ listeners'[1].addr = listeners[1].addr]_vars

(* "Unless state is set to Disconnected, the first entry contains the      *)
(* connection to the server that the client is currently connected to":    *)
(* the one that connect was called for.                                    *)
FirstIsConnection ==
    state # "Disconnected" => listeners # <<>> /\ listeners[1].addr = peer

=============================================================================
