--------------------------- MODULE ConnectionProofs ---------------------------
(***************************************************************************)
(* Proofs about the Connection of a client and a server, and that it       *)
(* implements Session: whatever the network loses, repeats and reorders.   *)
(* What each end keeps to itself comes from ClientProofs and ServerProofs. *)
(***************************************************************************)
EXTENDS Connection, FiniteSetTheorems, TLAPS

CP == INSTANCE ClientProofs WITH
        Servers <- {TheServer}, listeners <- servers, pending <- sending, phase <- step

SP == INSTANCE ServerProofs WITH Addr <- {TheClient}

-----------------------------------------------------------------------------
(* The ends are instances of the modules with the proofs                   *)

(* The assumptions of Server hold.                                         *)
LEMMA ServerConstants ==
    /\ NoOne \notin {TheClient} /\ SP!IsFiniteSet({TheClient})
    /\ PingId \subseteq Nat /\ SP!IsFiniteSet(PingId) /\ SP!Cardinality(PingId) > 2
    /\ PingDelay \in Nat
    /\ MaxMissedPongs \in Nat \cup {SP!None}
    /\ MissedPongsMax \in Nat /\ MissedPongsMax > MaxMissedPongs
    /\ SendResults \subseteq {"sent", "blocked", "error"}
<1>1. IsFiniteSet({TheClient})
  BY FS_Singleton
<1>2. SP!IsFiniteSet({TheClient}) /\ SP!IsFiniteSet(PingId)
  BY <1>1, PingsAssumption DEF IsFiniteSet, SP!IsFiniteSet
<1>3. SP!Cardinality(PingId) = Cardinality(PingId)
  BY DEF Cardinality, SP!Cardinality
<1> QED
  BY <1>2, <1>3, NamesAssumption, PingsAssumption, SendsAssumption DEF SP!None, S!None

(* The assumptions of Client hold.                                         *)
LEMMA ClientConstants ==
    /\ NoServer \notin {TheServer} /\ CP!IsFiniteSet({TheServer})
    /\ ResendDelay \in Nat /\ Timeout \in Nat \cup {CP!None}
    /\ SendResults \subseteq {"sent", "blocked", "error"}
<1>1. IsFiniteSet({TheServer})
  BY FS_Singleton
<1>2. CP!IsFiniteSet({TheServer})
  BY <1>1 DEF IsFiniteSet, CP!IsFiniteSet
<1> QED
  BY <1>2, NamesAssumption, DelaysAssumption, SendsAssumption DEF CP!None, C!None

(* The clients of the server are the same ones.                            *)
LEMMA SameConnected == SP!Connected = S!Connected /\ (SP!Connected = S!Connected)'
  BY DEF SP!Connected, S!Connected, SP!Occupied, S!Occupied

(* The steps of the server, other than admitting the client.               *)
LEMMA ServerStep ==
    ASSUME SP!Inv,
           \/ S!Unlisten(TheClient)
           \/ S!NoMorePackets
           \/ \E again \in BOOLEAN : S!HandlePong(TheClient, again)
           \/ \E result \in SendResults : S!HandleVersionRequest(TheClient, result)
           \/ S!HandleConnectAgain(TheClient)
           \/ \E result \in SendResults : S!HandleConnectReject(TheClient, result)
           \/ S!HandleDisconnect(TheClient)
           \/ S!AnswerPing(TheClient) \/ S!LosePing(TheClient) \/ S!LosePong(TheClient)
           \/ S!Tick
    PROVE  SP!Inv' /\ SP!NobodyNew
<1> USE ServerConstants
<1>1. CASE S!Unlisten(TheClient)
  <2>1. SP!Unlisten(TheClient)
    BY <1>1 DEF S!Unlisten, SP!Unlisten
  <2> QED
    BY <2>1, SP!UnlistenInv
<1>2. CASE S!NoMorePackets
  <2>1. SP!NoMorePackets
    BY <1>2 DEF S!NoMorePackets, SP!NoMorePackets
  <2> QED
    BY <2>1, SP!NoMorePacketsInv
<1>3. ASSUME NEW again \in BOOLEAN, S!HandlePong(TheClient, again)
      PROVE  SP!Inv' /\ SP!NobodyNew
  <2>1. SP!HandlePong(TheClient, again)
    BY <1>3 DEF S!HandlePong, SP!HandlePong, S!SlotOf, SP!SlotOf, S!Occupied, SP!Occupied,
                S!Connected, SP!Connected, S!Answered, SP!Answered, S!None, SP!None
  <2> QED
    BY <2>1, SP!HandlePongInv
<1>4. ASSUME NEW result \in SendResults, S!HandleVersionRequest(TheClient, result)
      PROVE  SP!Inv' /\ SP!NobodyNew
  <2>1. SP!HandleVersionRequest(TheClient, result)
    BY <1>4, SameConnected DEF S!HandleVersionRequest, SP!HandleVersionRequest
  <2> QED
    BY <2>1, SP!HandleVersionRequestInv
<1>5. CASE S!HandleConnectAgain(TheClient) \/ S!HandleDisconnect(TheClient)
  <2>1. SP!Disconnect(TheClient)
    BY <1>5 DEF S!HandleConnectAgain, S!HandleDisconnect, S!Disconnect, SP!Disconnect,
                S!Vacated, SP!Vacated, S!Vacant, SP!Vacant, S!NewClient, SP!NewClient,
                S!None, SP!None
  <2>2. TheClient \in SP!Connected /\ UNCHANGED <<pending, phase, pings, pongs, timedOut, unanswered>>
    BY <1>5, SameConnected DEF S!HandleConnectAgain, S!HandleDisconnect
  <2> QED
    BY <2>1, <2>2, SP!DisconnectInv
<1>6. ASSUME NEW result \in SendResults, S!HandleConnectReject(TheClient, result)
      PROVE  SP!Inv' /\ SP!NobodyNew
  <2>1. SP!HandleConnectReject(TheClient, result)
    BY <1>6, SameConnected DEF S!HandleConnectReject, SP!HandleConnectReject
  <2> QED
    BY <2>1, SP!HandleConnectRejectInv
<1>7. CASE S!AnswerPing(TheClient) \/ S!LosePing(TheClient) \/ S!LosePong(TheClient)
  <2>1. SP!AnswerPing(TheClient) \/ SP!LosePing(TheClient) \/ SP!LosePong(TheClient)
    BY <1>7 DEF S!AnswerPing, S!LosePing, S!LosePong, SP!AnswerPing, SP!LosePing, SP!LosePong,
                S!None, SP!None
  <2> QED
    BY <2>1, SP!EnvironmentInv
<1>8. CASE S!Tick
  <2>1. SP!Tick
    BY <1>8 DEF S!Tick, SP!Tick, S!None, SP!None
  <2> QED
    BY <2>1, SP!TickInv
<1> QED
  BY <1>1, <1>2, <1>3, <1>4, <1>5, <1>6, <1>7, <1>8

(* The server's updates of its buffers and its pings.                      *)
LEMMA ServerLoopStep ==
    ASSUME SP!Inv,
           \/ \E failed \in SUBSET S!Connected : S!UpdateBuffers(failed, S!Connected)
           \/ \E result : S!SendPings(result)
    PROVE  SP!Inv' /\ SP!NobodyNew
<1> USE ServerConstants
<1>1. ASSUME NEW failed \in SUBSET S!Connected, S!UpdateBuffers(failed, S!Connected)
      PROVE  SP!Inv' /\ SP!NobodyNew
  <2>1. SP!Remaining(failed) = S!Remaining(failed)
    BY DEF SP!Remaining, S!Remaining, SP!Max, S!Max, SP!Vacated, S!Vacated, SP!Vacant, S!Vacant,
           SP!NewClient, S!NewClient, SP!Occupied, S!Occupied, SP!None, S!None
  <2>2. SP!UpdateBuffers(failed, SP!Connected)
    BY <1>1, <2>1, SameConnected DEF S!UpdateBuffers, SP!UpdateBuffers
  <2>3. failed \in SUBSET SP!Connected /\ SP!Connected \in SUBSET SP!Connected
    BY SameConnected
  <2> QED
    BY <2>2, <2>3, SP!UpdateBuffersInv
<1>2. ASSUME NEW result, S!SendPings(result)
      PROVE  SP!Inv' /\ SP!NobodyNew
  <2>1. SP!SendPings(result)
    BY <1>2 DEF S!SendPings, SP!SendPings, SP!Occupied, S!Occupied, SP!Connected, S!Connected,
           SP!PingDue, S!PingDue, SP!TimesOut, S!TimesOut, SP!Counted, S!Counted,
           SP!FreshPing, S!FreshPing, SP!Pinged, S!Pinged, SP!SlotOf, S!SlotOf,
           SP!Vacant, S!Vacant, SP!NewClient, S!NewClient, SP!Min, S!Min, SP!None, S!None
  <2> QED
    BY <2>1, SP!SendPingsInv
<1> QED
  BY <1>1, <1>2

(* The server admits the client.                                           *)
LEMMA AcceptStep ==
    ASSUME SP!Inv, NEW result \in SendResults, S!HandleConnectAccept(TheClient, result)
    PROVE  SP!Inv' /\ SP!Connected' = SP!Connected \cup {TheClient}
<1> USE ServerConstants
<1>1. SP!PutClient(TheClient) = S!PutClient(TheClient)
  BY DEF SP!PutClient, S!PutClient, SP!FreeSlot, S!FreeSlot, SP!Min, S!Min, SP!Max, S!Max,
         SP!NewClient, S!NewClient, SP!None, S!None
<1>2. SP!HandleConnectAccept(TheClient, result)
  BY <1>1, SameConnected DEF SP!HandleConnectAccept, S!HandleConnectAccept
<1> QED
  BY <1>2, SP!AcceptInv

-----------------------------------------------------------------------------
(* The client, which knows at most one server                              *)

(* The client's operators are the same ones.                               *)
LEMMA SameClient ==
    /\ CP!Known = C!Known
    /\ \A a : CP!IndexOf(a) = C!IndexOf(a)
    /\ \A a, s : CP!HasState(a, s) <=> C!HasState(a, s)
    /\ \A a, r : CP!NewListener(a, r) = C!NewListener(a, r)
    /\ \A a, r : CP!WithListener(a, r) = C!WithListener(a, r)
<1>1. CP!Known = C!Known
  BY DEF CP!Known, C!Known
<1>2. \A a : CP!IndexOf(a) = C!IndexOf(a)
  BY DEF CP!IndexOf, C!IndexOf
<1>3. \A a, s : CP!HasState(a, s) <=> C!HasState(a, s)
  BY <1>1, <1>2 DEF CP!HasState, C!HasState
<1>4. \A a, r : CP!NewListener(a, r) = C!NewListener(a, r)
  BY DEF CP!NewListener, C!NewListener, CP!None, C!None
<1>5. \A a, r : CP!WithListener(a, r) = C!WithListener(a, r)
  BY <1>1, <1>4 DEF CP!WithListener, C!WithListener
<1> QED
  BY <1>1, <1>2, <1>3, <1>4, <1>5

(* A client with a session has a compatible listener at its server, which  *)
(* an update visits first, unless refresh_all has reset it.                *)
AtServer ==
    state # "Disconnected" /\ ~refreshed =>
        /\ servers # <<>> /\ servers[1].state = "Compatible"
        /\ step = "rest" => cursor > 1

ClientInv == CP!IInv /\ AtServer /\ PanicIsEarned

(* The only listener is the first one.                                     *)
LEMMA OneServer ==
    ASSUME CP!IInv
    PROVE  /\ servers \in Seq(CP!Listener) /\ Len(servers) \in Nat
           /\ servers # <<>> => /\ Len(servers) = 1 /\ DOMAIN servers = {1}
                                /\ servers[1] \in CP!Listener /\ servers[1].addr = TheServer
           /\ C!Known = IF servers = <<>> THEN {} ELSE {TheServer}
           /\ servers # <<>> => C!IndexOf(TheServer) = 1
           /\ \A s : C!HasState(TheServer, s) <=> servers # <<>> /\ servers[1].state = s
<1>1. CP!TypeOK /\ CP!Distinct
  BY DEF CP!IInv
<1>2. /\ servers \in Seq(CP!Listener) /\ DOMAIN servers = 1..Len(servers) /\ Len(servers) \in Nat
      /\ \A i \in DOMAIN servers : servers[i] \in CP!Listener /\ servers[i].addr = TheServer
  BY <1>1, ClientConstants, CP!ListenersType
<1>3. \A i, j \in DOMAIN servers : i = j
  BY <1>1, <1>2 DEF CP!Distinct
<1>4. servers # <<>> => 1 \in DOMAIN servers /\ Len(servers) \in DOMAIN servers
  BY <1>2
<1>5. servers # <<>> => Len(servers) = 1 /\ DOMAIN servers = {1}
  BY <1>2, <1>3, <1>4
<1>6. C!Known = IF servers = <<>> THEN {} ELSE {TheServer}
  BY <1>2, <1>5 DEF C!Known
<1>7. servers # <<>> => C!IndexOf(TheServer) = 1
  BY <1>2, <1>5 DEF C!IndexOf
<1>8. \A s : C!HasState(TheServer, s) <=> servers # <<>> /\ servers[1].state = s
  BY <1>6, <1>7 DEF C!HasState
<1> QED
  BY <1>2, <1>5, <1>6, <1>7, <1>8

(* Nothing changes for a client with a session but its place in an update. *)
LEMMA SessionKept ==
    ASSUME ClientInv, CP!IInv', step' # "panicked",
           state' \in {state, "Disconnected"},
           state' # "Disconnected" => refreshed' = refreshed,
           state' # "Disconnected" /\ ~refreshed =>
               /\ servers' # <<>> /\ servers'[1].state = servers[1].state
               /\ step' = "rest" => cursor' > 1
    PROVE  ClientInv'
  BY DEF ClientInv, AtServer, PanicIsEarned

(* listen adds a listener for an unknown server.                           *)
LEMMA ListenStep ==
    ASSUME ClientInv, NEW result, C!Listen(TheServer, result)
    PROVE  ClientInv' /\ state' = state
<1>1. CP!Listen(TheServer, result)
  BY SameClient DEF C!Listen, CP!Listen
<1>2. CP!IInv'
  BY <1>1, ClientConstants, CP!ListenInv DEF ClientInv
<1>3. servers # <<>> => servers' = servers
  BY OneServer DEF ClientInv, C!Listen, C!WithListener
<1>4. UNCHANGED <<state, step, cursor, refreshed>>
  BY DEF C!Listen
<1>5. ClientInv'
  BY <1>2, <1>3, <1>4 DEF ClientInv, AtServer, PanicIsEarned
<1> QED
  BY <1>4, <1>5

(* forget and forget_all leave the listener of a session alone.            *)
LEMMA ForgetStep ==
    ASSUME ClientInv, C!Forget(TheServer) \/ C!ForgetAll
    PROVE  ClientInv' /\ state' = state
<1>1. CASE C!Forget(TheServer)
  <2>1. CP!Forget(TheServer)
    BY <1>1, SameClient DEF C!Forget, CP!Forget, C!Forgettable, CP!Forgettable,
                            C!SwapRemove, CP!SwapRemove
  <2>2. CP!IInv'
    BY <2>1, ClientConstants, CP!ForgetInv DEF ClientInv
  <2>3. state = "Disconnected" /\ UNCHANGED <<state, step, refreshed>>
    BY <1>1, OneServer DEF ClientInv, C!Forget, C!Forgettable
  <2> QED
    BY <2>2, <2>3 DEF ClientInv, AtServer, PanicIsEarned
<1>2. CASE C!ForgetAll
  <2>1. CP!ForgetAll
    BY <1>2 DEF C!ForgetAll, CP!ForgetAll, C!session, CP!session
  <2>2. CP!IInv'
    BY <2>1, ClientConstants, CP!ForgetAllInv DEF ClientInv
  <2>3. UNCHANGED <<state, cursor, refreshed>>
    BY <1>2 DEF C!ForgetAll, C!session
  <2>4. CASE state # "Disconnected" /\ servers = <<>>
    <3>1. refreshed
      BY <2>4 DEF ClientInv, AtServer
    <3> QED
      BY <2>2, <2>3, <3>1 DEF ClientInv, AtServer, PanicIsEarned
  <2>5. CASE ~(state # "Disconnected" /\ servers = <<>>)
    <3>1. /\ step' = step
          /\ state # "Disconnected" => servers' = <<servers[1]>>
      BY <1>2, <2>5 DEF C!ForgetAll
    <3>2. state # "Disconnected" => servers' # <<>> /\ servers'[1] = servers[1]
      BY <3>1
    <3> QED
      BY <2>2, <2>3, <3>1, <3>2 DEF ClientInv, AtServer, PanicIsEarned
  <2> QED
    BY <2>4, <2>5
<1> QED
  BY <1>1, <1>2

(* refresh_all resets the listener of a session, and is remembered.        *)
LEMMA RefreshStep ==
    ASSUME ClientInv, NEW n \in 0..Len(servers), NEW result, C!RefreshAll(n, result)
    PROVE  ClientInv' /\ state' = state
<1>1. CP!RefreshAll(n, result)
  BY SameClient DEF C!RefreshAll, CP!RefreshAll
<1>2. CP!IInv'
  BY <1>1, ClientConstants, CP!RefreshAllInv DEF ClientInv
<1>3. /\ UNCHANGED <<state, step, cursor>>
      /\ refreshed' = (refreshed \/ (n > 0 /\ state # "Disconnected"))
  BY DEF C!RefreshAll
<1>4. CASE n > 0
  <2>1. state # "Disconnected" => refreshed'
    BY <1>3, <1>4
  <2>2. refreshed => refreshed'
    BY <1>3
  <2> QED
    BY <1>2, <1>3, <2>1, <2>2 DEF ClientInv, AtServer, PanicIsEarned
<1>5. CASE ~(n > 0)
  <2>1. n = 0 /\ servers \in Seq(CP!Listener)
    BY <1>5, OneServer DEF ClientInv
  <2>2. servers' = [i \in DOMAIN servers |-> servers[i]]
    BY <2>1 DEF C!RefreshAll
  <2>3. servers' = servers
    BY <2>1, <2>2
  <2>4. refreshed' <=> refreshed
    BY <1>3, <1>5, Zenon
  <2> QED
    BY <1>2, <1>3, <2>3, <2>4 DEF ClientInv, AtServer, PanicIsEarned
<1> QED
  BY <1>3, <1>4, <1>5

(* connect begins a session with a server that is known as compatible.     *)
LEMMA ConnectStep ==
    ASSUME ClientInv, NEW result, C!Connect(TheServer, result)
    PROVE  /\ ClientInv' /\ state = "Disconnected"
           /\ state' = IF Compatible /\ result # "error" THEN "Connecting" ELSE "Disconnected"
<1>1. CP!Connect(TheServer, result)
  BY SameClient DEF C!Connect, CP!Connect
<1>2. CP!IInv'
  BY <1>1, ClientConstants, CP!ConnectInv DEF ClientInv
<1>3. /\ state = "Disconnected" /\ step' = "idle" /\ step = "idle"
      /\ state' = IF Compatible /\ result # "error" THEN "Connecting" ELSE "Disconnected"
  BY DEF C!Connect, Compatible
<1>4. Compatible => servers # <<>> /\ servers[1].state = "Compatible"
  BY OneServer DEF ClientInv, Compatible
<1>5. servers # <<>> => servers' = servers
  BY OneServer DEF ClientInv, C!Connect, C!WithListener
<1> QED
  BY <1>2, <1>3, <1>4, <1>5 DEF ClientInv, AtServer, PanicIsEarned

(* disconnect and send find the listener of the session, or panic.         *)
LEMMA SendStep ==
    ASSUME ClientInv, NEW result, NEW next \in {"Connected", "Disconnecting"},
           C!SendOnConnection(result, next)
    PROVE  ClientInv' /\ state = "Connected" /\ state' \in {state, next, "Disconnected"}
<1>1. CP!SendOnConnection(result, next)
  BY DEF C!SendOnConnection, CP!SendOnConnection, C!session, CP!session, C!SwapRemove, CP!SwapRemove
<1>2. CP!IInv'
  BY <1>1, ClientConstants, CP!SendOnConnectionInv DEF ClientInv
<1>3. /\ state = "Connected" /\ step = "idle"
      /\ refreshed' = (refreshed /\ state' # "Disconnected")
  BY DEF C!SendOnConnection
<1>4. CASE servers = <<>> \/ servers[1].state # "Compatible"
  <2>1. state' = state
    BY <1>4 DEF C!SendOnConnection, C!session
  <2>2. refreshed
    BY <1>3, <1>4 DEF ClientInv, AtServer
  <2>3. refreshed'
    BY <1>3, <2>1, <2>2
  <2> QED
    BY <1>2, <1>3, <2>1, <2>3 DEF ClientInv, AtServer, PanicIsEarned
<1>5. CASE ~(servers = <<>> \/ servers[1].state # "Compatible")
  <2>1. /\ step' = step
        /\ \/ state' = "Disconnected"
           \/ state' = next /\ servers' = servers
    BY <1>5 DEF C!SendOnConnection
  <2> QED
    BY <1>2, <1>3, <1>5, <2>1 DEF ClientInv, AtServer, PanicIsEarned
<1> QED
  BY <1>4, <1>5

(* The update goes on without a change for the session.                    *)
LEMMA PhaseStep ==
    ASSUME ClientInv, C!StartUpdate \/ C!StartPackets \/ C!NoMorePackets(FALSE) \/ C!FinishUpdate
    PROVE  ClientInv' /\ state' = state
<1>1. /\ UNCHANGED <<state, servers, refreshed>>
      /\ step' \in {"first", "packets", "timeouts", "idle"}
  BY DEF C!StartUpdate, C!StartPackets, C!NoMorePackets, C!FinishUpdate
<1>2. CP!IInv'
  <2>1. CASE C!StartUpdate
    <3>1. CP!StartUpdate
      BY <2>1 DEF C!StartUpdate, CP!StartUpdate
    <3> QED
      BY <3>1, ClientConstants, CP!StartUpdateInv DEF ClientInv
  <2>2. CASE C!StartPackets \/ C!NoMorePackets(FALSE) \/ C!FinishUpdate
    <3>1. CP!StartPackets \/ (\E failed \in BOOLEAN : CP!NoMorePackets(failed)) \/ CP!FinishUpdate
      BY <2>2 DEF C!StartPackets, CP!StartPackets, C!NoMorePackets, CP!NoMorePackets,
                  C!FinishUpdate, CP!FinishUpdate
    <3> QED
      BY <3>1, ClientConstants, CP!PhaseInv DEF ClientInv
  <2> QED
    BY <2>1, <2>2
<1> QED
  BY <1>1, <1>2 DEF ClientInv, AtServer, PanicIsEarned

(* A listener is visited and stays.                                        *)
LEMMA UpdateListenerStep ==
    ASSUME ClientInv, NEW result, C!UpdateListener(result, TRUE)
    PROVE  ClientInv' /\ state' = state
<1>1. CP!UpdateListener(result, TRUE)
  BY DEF C!UpdateListener, CP!UpdateListener, C!QueryDue, CP!QueryDue, C!Visited, CP!Visited,
         C!None, CP!None
<1>2. CP!IInv'
  BY <1>1, ClientConstants, CP!UpdateListenerInv DEF ClientInv
<1>3. /\ UNCHANGED <<state, refreshed>> /\ step' = "rest" /\ cursor' = cursor + 1
      /\ cursor \in DOMAIN servers
      /\ servers' = servers \/ servers' = [servers EXCEPT ![cursor].age = 0]
  BY DEF C!UpdateListener
<1>4. DOMAIN servers = {1} /\ servers # <<>> /\ servers[1] \in CP!Listener
  BY <1>3, OneServer DEF ClientInv
<1>5. cursor = 1
  BY <1>3, <1>4
<1>6. servers'[1].state = servers[1].state /\ servers' # <<>>
  <2>1. CASE servers' = servers
    BY <1>4, <2>1
  <2>2. CASE servers' = [servers EXCEPT ![cursor].age = 0]
    <3>1. DOMAIN servers' = {1} /\ servers'[1] = [servers[1] EXCEPT !.age = 0]
      BY <1>4, <1>5, <2>2
    <3>2. servers'[1].state = servers[1].state
      BY <1>4, <3>1 DEF CP!Listener
    <3>3. servers' # <<>>
      BY <3>1
    <3> QED
      BY <3>2, <3>3
  <2> QED
    BY <1>3, <2>1, <2>2
<1>7. cursor' > 1 /\ step' # "panicked"
  BY <1>3, <1>5
<1> QED
  BY <1>2, <1>3, <1>6, <1>7, SessionKept

(* A listener that fails ends the session, and so does one that times out. *)
LEMMA RemovalStep ==
    ASSUME ClientInv, C!UpdateListenerFails \/ C!TimeoutListener
    PROVE  ClientInv' /\ state' \in {state, "Disconnected"}
<1>1. CASE C!UpdateListenerFails
  <2>1. CP!UpdateListenerFails
    BY <1>1 DEF C!UpdateListenerFails, CP!UpdateListenerFails, C!QueryDue, CP!QueryDue,
                C!Visited, CP!Visited, C!StateAfterFailure, CP!StateAfterFailure,
                C!CursorAfterRemoval, CP!CursorAfterRemoval, C!RemoveAt, CP!RemoveAt,
                C!None, CP!None
  <2>2. CP!IInv'
    BY <2>1, ClientConstants, CP!UpdateListenerFailsInv DEF ClientInv
  <2>3. /\ step \in {"first", "rest"} /\ cursor \in DOMAIN servers /\ step' = "rest"
        /\ state' = IF step = "first" /\ servers[cursor].state = "Compatible"
                    THEN "Disconnected" ELSE state
        /\ refreshed' = (refreshed /\ state' # "Disconnected")
    BY <1>1 DEF C!UpdateListenerFails, C!StateAfterFailure, C!Visited
  <2>4. servers # <<>> /\ DOMAIN servers = {1}
    BY <2>3, OneServer DEF ClientInv
  <2>5. cursor = 1
    BY <2>3, <2>4
  <2>6. state' = "Disconnected" \/ (state' = state /\ refreshed)
    <3>1. CASE state = "Disconnected" \/ refreshed
      BY <2>3, <3>1
    <3>2. CASE ~(state = "Disconnected" \/ refreshed)
      <4>1. servers[1].state = "Compatible" /\ step # "rest"
        BY <2>5, <3>2 DEF ClientInv, AtServer
      <4> QED
        BY <2>3, <2>5, <4>1
    <3> QED
      BY <3>1, <3>2
  <2>7. CASE state' = "Disconnected"
    BY <2>2, <2>3, <2>7, SessionKept
  <2>8. CASE state' # "Disconnected"
    <3>1. state' = state /\ refreshed'
      BY <2>3, <2>6, <2>8
    <3> QED
      BY <2>2, <2>3, <3>1 DEF ClientInv, AtServer, PanicIsEarned
  <2> QED
    BY <2>7, <2>8
<1>2. CASE C!TimeoutListener
  <2>1. CP!TimeoutListener
    BY <1>2 DEF C!TimeoutListener, CP!TimeoutListener, C!TimedOut, CP!TimedOut,
                C!Visited, CP!Visited, C!StateAfterTimeout, CP!StateAfterTimeout,
                C!CursorAfterRemoval, CP!CursorAfterRemoval, C!RemoveAt, CP!RemoveAt,
                C!session, CP!session, C!None, CP!None
  <2>2. CP!IInv'
    BY <2>1, ClientConstants, CP!TimeoutListenerInv DEF ClientInv
  <2>3. /\ step = "timeouts" /\ step' = step
        /\ \/ state' = "Disconnected"
           \/ state' = state /\ servers' = servers
        /\ refreshed' = (refreshed /\ state' # "Disconnected")
    BY <1>2 DEF C!TimeoutListener, C!StateAfterTimeout, C!session
  <2>4. state' # "Disconnected" => refreshed' = refreshed
    BY <2>1, <2>3, CP!HistoryKept, ClientConstants DEF ClientInv, CP!IInv
  <2> QED
    BY <2>2, <2>3, <2>4, SessionKept DEF ClientInv, AtServer
<1> QED
  BY <1>1, <1>2

(* A version is for a listener that waits for it: a session's does so only *)
(* after refresh_all.                                                      *)
LEMMA VersionStep ==
    ASSUME ClientInv, NEW compatible \in BOOLEAN, C!HandleVersion(TheServer, compatible)
    PROVE  ClientInv' /\ state' = state
<1>1. CP!HandleVersion(TheServer, compatible)
  BY SameClient DEF C!HandleVersion, CP!HandleVersion, C!Receives, CP!Receives, C!Judged, CP!Judged
<1>2. CP!IInv'
  BY <1>1, ClientConstants, CP!HandleVersionInv DEF ClientInv
<1>3. UNCHANGED <<state, step, refreshed>> /\ servers[1].state = "PendingVersion"
  BY OneServer DEF ClientInv, C!HandleVersion
<1>4. state = "Disconnected" \/ refreshed
  BY <1>3 DEF ClientInv, AtServer
<1> QED
  BY <1>2, <1>3, <1>4 DEF ClientInv, AtServer, PanicIsEarned

(* What the client hears from a compatible server.                         *)
LEMMA HeardStep ==
    ASSUME ClientInv,
           \/ \E result \in SendResults : C!HandlePing(TheServer, result)
           \/ C!HandleAccept(TheServer)
           \/ C!HandleReject(TheServer)
           \/ C!HandleOther(TheServer)
    PROVE  ClientInv'
<1>1. \/ \E result \in SendResults : CP!HandlePing(TheServer, result)
      \/ CP!HandleAccept(TheServer) \/ CP!HandleReject(TheServer)
      \/ CP!HandleKick(TheServer) \/ CP!HandleOther(TheServer)
  BY SameClient DEF C!HandlePing, CP!HandlePing, C!HandleAccept, CP!HandleAccept,
         C!HandleReject, CP!HandleReject, C!HandleOther, CP!HandleOther, C!Receives, CP!Receives,
         C!IsConnection, CP!IsConnection, C!Heard, CP!Heard
<1>2. CP!IInv'
  BY <1>1, ClientConstants, CP!HandleInv DEF ClientInv
<1>3. /\ C!HasState(TheServer, "Compatible") /\ servers' = C!Heard(TheServer)
      /\ step = "packets" /\ step' = step
      /\ state = "Disconnected" => state' = "Disconnected"
      /\ refreshed' = (refreshed /\ state' # "Disconnected") \/ UNCHANGED refreshed
  BY DEF C!HandlePing, C!HandleAccept, C!HandleReject, C!HandleOther, C!Receives
<1>4. /\ servers # <<>> /\ DOMAIN servers = {1} /\ servers[1] \in CP!Listener
      /\ C!IndexOf(TheServer) = 1 /\ servers[1].state = "Compatible"
  BY <1>3, OneServer DEF ClientInv
<1>5. servers' = [servers EXCEPT ![1].age = 0]
  BY <1>3, <1>4 DEF C!Heard
<1>6. DOMAIN servers' = {1} /\ servers'[1] = [servers[1] EXCEPT !.age = 0]
  BY <1>4, <1>5
<1>7. servers'[1].state = "Compatible" /\ servers' # <<>>
  <2>1. servers'[1].state = servers[1].state
    BY <1>4, <1>6 DEF CP!Listener
  <2> QED
    BY <1>4, <1>6, <2>1
<1> QED
  BY <1>2, <1>3, <1>7 DEF ClientInv, AtServer, PanicIsEarned

(* Time passes for the client.                                             *)
LEMMA ClientTick ==
    ASSUME ClientInv, C!Tick
    PROVE  ClientInv' /\ state' = state
<1>1. CP!Tick
  BY DEF C!Tick, CP!Tick, C!Aged, CP!Aged, C!AgeLimit, CP!AgeLimit, C!None, CP!None
<1>2. CP!IInv'
  BY <1>1, ClientConstants, CP!TickInv DEF ClientInv
<1>3. UNCHANGED <<state, step, cursor, refreshed>>
  BY DEF C!Tick
<1>4. ASSUME servers # <<>>
      PROVE  servers' # <<>> /\ servers'[1].state = servers[1].state
  <2>1. DOMAIN servers = {1} /\ servers[1] \in CP!Listener
    BY <1>4, OneServer DEF ClientInv
  <2>2. DOMAIN servers' = {1} /\ servers'[1] = C!Aged(servers[1])
    BY <2>1 DEF C!Tick
  <2>3. C!Aged(servers[1]).state = servers[1].state
    BY <2>1 DEF C!Aged, CP!Listener
  <2>4. servers' # <<>>
    BY <2>2
  <2> QED
    BY <2>2, <2>3, <2>4
<1> QED
  BY <1>2, <1>3, <1>4 DEF ClientInv, AtServer, PanicIsEarned

-----------------------------------------------------------------------------
(* The inductive invariant                                                 *)

(* A Connect is on its way only after the client asked, and an Accept only *)
(* after the server admitted it, however old these packets are.            *)
NetworkInv ==
    /\ toServer \subseteq PacketsToServer /\ toClient \subseteq PacketsToClient
    /\ history \in {"new", "asked", "admitted"}
    /\ "Connect" \in toServer => history # "new"
    /\ "Accept" \in toClient => history = "admitted"

IInv == ClientInv /\ SP!Inv /\ NetworkInv

(* A step that keeps the invariant and is one of Session, or none of it. *)
GoodStep == IInv' /\ [Promise!Next]_(Promise!vars)

(* What a call puts into the network.                                      *)
LEMMA PutFacts ==
    ASSUME NEW packets, NEW k, NEW sent
    PROVE  /\ Put(packets, k, sent) \subseteq packets \cup {k}
           /\ \A again : Taken(packets, k, again) \subseteq packets
  BY DEF Put, Taken

(* Neither a Connect nor an Accept is added.                               *)
LEMMA NetworkKept ==
    ASSUME NetworkInv, toServer' \subseteq toServer \cup (PacketsToServer \ {"Connect"}),
           toClient' \subseteq toClient \cup (PacketsToClient \ {"Accept"}), history' = history
    PROVE  NetworkInv'
  BY DEF NetworkInv

(* The server does nothing.                                                *)
LEMMA ServerQuiet ==
    ASSUME SP!Inv, UNCHANGED serverVars
    PROVE  SP!Inv' /\ ServerEnd' = ServerEnd
<1>1. UNCHANGED SP!vars
  BY DEF SP!vars, serverVars
<1>2. SP!Inv'
  BY <1>1, ServerConstants, SP!NextInv
<1>3. ServerEnd' = ServerEnd
  BY DEF serverVars, ServerEnd, S!Connected, S!Occupied
<1> QED
  BY <1>2, <1>3

(* The client does nothing.                                                *)
LEMMA ClientQuiet ==
    ASSUME ClientInv, UNCHANGED clientVars
    PROVE  ClientInv' /\ ClientEnd' = ClientEnd
<1>1. UNCHANGED CP!vars
  BY DEF CP!vars, clientVars
<1>2. CP!IInv'
  BY <1>1, ClientConstants, CP!NextInv DEF ClientInv
<1> QED
  BY <1>2 DEF clientVars, ClientEnd, ClientInv, AtServer, PanicIsEarned

(* The client's end of the session.                                        *)
LEMMA ClientEnds ==
    ASSUME CP!IInv
    PROVE  /\ state \in {"Disconnected", "Connecting", "Connected", "Disconnecting"}
           /\ state = "Disconnected" => ClientEnd = "out"
           /\ state = "Connecting" => ClientEnd = "asking"
           /\ state = "Connected" => ClientEnd = "in"
           /\ state = "Disconnecting" => ClientEnd = "leaving"
<1>1. state \in {"Disconnected", "Connecting", "Connected", "Disconnecting"}
  BY DEF CP!IInv, CP!TypeOK
<1> QED
  BY <1>1 DEF ClientEnd

(* The client leaves, or stays where it is.                                *)
LEMMA ClientLeaves ==
    ASSUME IInv, ClientInv', SP!Inv', NetworkInv', UNCHANGED <<clients, history>>,
           state' \in {state, "Disconnected"}
    PROVE  GoodStep
<1>1. ServerEnd' = ServerEnd
  BY DEF ServerEnd, S!Connected, S!Occupied
<1>2. CP!IInv /\ CP!IInv'
  BY DEF IInv, ClientInv
<1>3. /\ state \in {"Disconnected", "Connecting", "Connected", "Disconnecting"}
      /\ state = "Disconnected" => ClientEnd = "out"
      /\ state \in {"Connecting", "Connected", "Disconnecting"} => ClientEnd # "out"
  BY <1>2, ClientEnds
<1>4. state' = "Disconnected" => ClientEnd' = "out"
  BY Zenon DEF ClientEnd
<1>5. state' = state => ClientEnd' = ClientEnd
  BY DEF ClientEnd
<1>6. Promise!Leave \/ UNCHANGED Promise!vars
  BY <1>1, <1>3, <1>4, <1>5 DEF Promise!Leave, Promise!vars
<1> QED
  BY <1>6 DEF GoodStep, IInv, Promise!Next

(* The client asks, enters or says goodbye.                                *)
LEMMA ClientMoves ==
    ASSUME IInv, ClientInv', NetworkInv', UNCHANGED serverVars,
           \/ /\ state = "Disconnected" /\ state' = "Connecting"
              /\ history' = IF history = "new" THEN "asked" ELSE history
           \/ /\ state = "Connecting" /\ state' = "Connected"
              /\ history = "admitted" /\ history' = history
           \/ state = "Connected" /\ state' = "Disconnecting" /\ history' = history
    PROVE  GoodStep
<1>1. SP!Inv' /\ ServerEnd' = ServerEnd
  BY ServerQuiet DEF IInv
<1>2. CP!IInv /\ CP!IInv'
  BY DEF IInv, ClientInv
<1>3. /\ state = "Disconnected" => ClientEnd = "out"
      /\ state = "Connecting" => ClientEnd = "asking"
      /\ state = "Connected" => ClientEnd = "in"
  BY <1>2, ClientEnds
<1>4. /\ state' = "Connecting" => ClientEnd' = "asking"
      /\ state' = "Connected" => ClientEnd' = "in"
      /\ state' = "Disconnecting" => ClientEnd' = "leaving"
  <2>1. state' = "Connecting" => ClientEnd' = "asking"
    BY Zenon DEF ClientEnd
  <2>2. state' = "Connected" => ClientEnd' = "in"
    BY Zenon DEF ClientEnd
  <2>3. state' = "Disconnecting" => ClientEnd' = "leaving"
    BY Zenon DEF ClientEnd
  <2> QED
    BY <2>1, <2>2, <2>3
<1>5. Promise!Ask \/ Promise!Enter \/ Promise!SayGoodbye
  BY <1>1, <1>3, <1>4 DEF Promise!Ask, Promise!Enter, Promise!SayGoodbye
<1> QED
  BY <1>1, <1>5 DEF GoodStep, IInv, Promise!Next

(* The server drops the client, or does not.                               *)
LEMMA ServerDrops ==
    ASSUME IInv, ClientInv', state' = state, SP!Inv', SP!NobodyNew, NetworkInv', history' = history
    PROVE  GoodStep
<1>1. ClientEnd' = ClientEnd
  BY DEF ClientEnd
<1>2. S!Connected' \subseteq S!Connected
  BY SameConnected DEF SP!NobodyNew
<1>3. Promise!Drop \/ UNCHANGED Promise!vars
  BY <1>1, <1>2 DEF Promise!Drop, Promise!vars, ServerEnd
<1> QED
  BY <1>3 DEF GoodStep, IInv, Promise!Next

(* The server admits a client that asked.                                  *)
LEMMA ServerAdmits ==
    ASSUME IInv, UNCHANGED clientVars, SP!Inv', SP!Connected' = SP!Connected \cup {TheClient},
           TheClient \notin S!Connected, history # "new", NetworkInv', history' = "admitted"
    PROVE  GoodStep
<1>1. ClientInv' /\ ClientEnd' = ClientEnd
  BY ClientQuiet DEF IInv
<1>2. TheClient \in S!Connected'
  BY SameConnected
<1>3. Promise!Admit
  BY <1>1, <1>2 DEF Promise!Admit, ServerEnd
<1> QED
  BY <1>1, <1>3 DEF GoodStep, IInv, Promise!Next

-----------------------------------------------------------------------------
(* Every step is a good one                                                *)

(* The client keeps its end, and sends no Connect.                         *)
LEMMA ClientStays ==
    ASSUME IInv, ClientInv', state' \in {state, "Disconnected"}, UNCHANGED serverVars,
           toServer' \subseteq toServer \cup (PacketsToServer \ {"Connect"}),
           toClient' \subseteq toClient, history' = history
    PROVE  GoodStep
<1>1. NetworkInv'
  BY NetworkKept DEF IInv
<1>2. SP!Inv'
  BY ServerQuiet DEF IInv
<1> QED
  BY <1>1, <1>2, ClientLeaves DEF serverVars

(* The program of the client calls one of its methods.                     *)
LEMMA CallsGood ==
    ASSUME IInv, Calls
    PROVE  GoodStep
<1>1. ClientInv
  BY DEF IInv
<1>2. ASSUME NEW result \in SendResults, Listen(result)
      PROVE  GoodStep
  <2>1. ClientInv' /\ state' = state
    BY <1>1, <1>2, ListenStep DEF Listen
  <2>2. toServer' \subseteq toServer \cup {"VersionRequest"}
    BY <1>2, PutFacts DEF Listen
  <2> QED
    BY <1>2, <2>1, <2>2, ClientStays DEF Listen, PacketsToServer
<1>3. ASSUME Forget
      PROVE  GoodStep
  <2>1. ClientInv' /\ state' = state
    BY <1>1, <1>3, ForgetStep DEF Forget
  <2> QED
    BY <1>3, <2>1, ClientStays DEF Forget, network
<1>4. ASSUME NEW n \in 0..Len(servers), NEW result, Refresh(n, result)
      PROVE  GoodStep
  <2>1. ClientInv' /\ state' = state
    BY <1>1, <1>4, RefreshStep DEF Refresh
  <2>2. toServer' \subseteq toServer \cup {"VersionRequest"}
    BY <1>4, PutFacts DEF Refresh
  <2> QED
    BY <1>4, <2>1, <2>2, ClientStays DEF Refresh, PacketsToServer
<1>5. ASSUME NEW result \in SendResults, Connect(result)
      PROVE  GoodStep
  <2>1. /\ ClientInv' /\ state = "Disconnected"
        /\ state' = IF Compatible /\ result # "error" THEN "Connecting" ELSE "Disconnected"
    BY <1>1, <1>5, ConnectStep DEF Connect
  <2>2. CASE Compatible /\ result # "error"
    <3>1. /\ toServer' \subseteq toServer \cup {"Connect"} /\ toClient' = toClient
          /\ history' = IF history = "new" THEN "asked" ELSE history
      BY <1>5, <2>2, PutFacts DEF Connect
    <3>2. NetworkInv'
      BY <3>1 DEF IInv, NetworkInv, PacketsToServer
    <3> QED
      BY <1>5, <2>1, <2>2, <3>1, <3>2, ClientMoves DEF Connect
  <2>3. CASE ~(Compatible /\ result # "error")
    <3>1. toServer' \subseteq toServer \cup {"VersionRequest"}
      BY <1>5, <2>3, PutFacts DEF Connect, Put
    <3> QED
      BY <1>5, <2>1, <2>3, <3>1, ClientStays DEF Connect, PacketsToServer
  <2> QED
    BY <2>2, <2>3
<1>6. ASSUME NEW result \in SendResults, Disconnect(result)
      PROVE  GoodStep
  <2>1. ClientInv' /\ state = "Connected" /\ state' \in {state, "Disconnecting", "Disconnected"}
    BY <1>1, <1>6, SendStep DEF Disconnect, C!Disconnect
  <2>2. toServer' \subseteq toServer \cup {"Disconnect"}
    BY <1>6, PutFacts DEF Disconnect
  <2>3. UNCHANGED <<serverVars, toClient, history>>
    BY <1>6 DEF Disconnect
  <2>4. NetworkInv'
    BY <2>2, <2>3, NetworkKept DEF IInv, PacketsToServer
  <2>5. CASE state' = "Disconnecting"
    BY <2>1, <2>3, <2>4, <2>5, ClientMoves
  <2>6. CASE state' \in {state, "Disconnected"}
    BY <2>1, <2>2, <2>3, <2>6, ClientStays DEF PacketsToServer
  <2> QED
    BY <2>1, <2>5, <2>6
<1>7. ASSUME NEW result \in SendResults, Send(result)
      PROVE  GoodStep
  <2>1. ClientInv' /\ state' \in {state, "Disconnected"}
    BY <1>1, <1>7, SendStep DEF Send, C!Send
  <2>2. toServer' \subseteq toServer \cup {"User"}
    BY <1>7, PutFacts DEF Send
  <2> QED
    BY <1>7, <2>1, <2>2, ClientStays DEF Send, PacketsToServer
<1> QED
  BY <1>2, <1>3, <1>4, <1>5, <1>6, <1>7 DEF Calls

(* The client's own part of its update.                                    *)
LEMMA ClientLoopGood ==
    ASSUME IInv, ClientLoop
    PROVE  GoodStep
<1>1. ClientInv
  BY DEF IInv
<1>2. ASSUME NEW result \in SendResults, ClientUpdateListener(result)
      PROVE  GoodStep
  <2>1. ClientInv' /\ state' = state
    BY <1>1, <1>2, UpdateListenerStep DEF ClientUpdateListener
  <2>2. toServer' \subseteq toServer \cup {"VersionRequest"}
    BY <1>2, PutFacts DEF ClientUpdateListener
  <2> QED
    BY <1>2, <2>1, <2>2, ClientStays DEF ClientUpdateListener, PacketsToServer
<1>3. ASSUME C!StartUpdate \/ C!StartPackets \/ C!NoMorePackets(FALSE) \/ C!FinishUpdate,
             UNCHANGED <<serverVars, network>>
      PROVE  GoodStep
  <2>1. ClientInv' /\ state' = state
    BY <1>1, <1>3, PhaseStep
  <2> QED
    BY <1>3, <2>1, ClientStays DEF network
<1>4. ASSUME C!UpdateListenerFails \/ C!TimeoutListener, UNCHANGED <<serverVars, network>>
      PROVE  GoodStep
  <2>1. ClientInv' /\ state' \in {state, "Disconnected"}
    BY <1>1, <1>4, RemovalStep
  <2> QED
    BY <1>4, <2>1, ClientStays DEF network
<1> QED
  BY <1>2, <1>3, <1>4 DEF ClientLoop

(* A packet that is not expected does not change the client's state.       *)
LEMMA UnexpectedStep ==
    ASSUME ClientInv, Unexpected
    PROVE  ClientInv' /\ state' = state
<1>1. CASE Compatible
  <2>1. C!HandleOther(TheServer)
    BY <1>1 DEF Unexpected
  <2> QED
    BY <2>1, HeardStep DEF C!HandleOther
<1>2. CASE ~Compatible
  <2>1. UNCHANGED clientVars
    BY <1>2 DEF Unexpected
  <2> QED
    BY <2>1, ClientQuiet DEF clientVars
<1> QED
  BY <1>1, <1>2

(* The client gets a packet.  An Accept is of use to one that was admitted *)
(* only, since nothing else puts it into the network.                      *)
LEMMA ClientReceivesGood ==
    ASSUME IInv, NEW k \in toClient, NEW again \in BOOLEAN, ClientReceives(k, again)
    PROVE  GoodStep
<1>1. ClientInv /\ NetworkInv
  BY DEF IInv
<1>2. UNCHANGED <<serverVars, toServer, history>> /\ toClient' \subseteq toClient
  BY PutFacts DEF ClientReceives
<1>3. NetworkInv'
  BY <1>1, <1>2, NetworkKept
<1>4. \/ \E compatible \in BOOLEAN : C!HandleVersion(TheServer, compatible)
      \/ k = "Accept" /\ C!HandleAccept(TheServer)
      \/ C!HandleReject(TheServer)
      \/ Unexpected
  BY Zenon DEF ClientReceives
<1>5. ASSUME NEW compatible \in BOOLEAN, C!HandleVersion(TheServer, compatible)
      PROVE  GoodStep
  BY <1>1, <1>2, <1>5, VersionStep, ClientStays
<1>6. ASSUME k = "Accept", C!HandleAccept(TheServer)
      PROVE  GoodStep
  <2>1. ClientInv'
    BY <1>1, <1>6, HeardStep
  <2>2. state = "Connecting" /\ state' = "Connected"
    BY <1>6 DEF C!HandleAccept
  <2>3. history = "admitted"
    BY <1>1, <1>6 DEF NetworkInv
  <2> QED
    BY <1>2, <1>3, <2>1, <2>2, <2>3, ClientMoves
<1>7. ASSUME C!HandleReject(TheServer)
      PROVE  GoodStep
  <2>1. ClientInv' /\ state' = "Disconnected"
    BY <1>1, <1>7, HeardStep DEF C!HandleReject
  <2> QED
    BY <1>2, <2>1, ClientStays
<1>8. ASSUME Unexpected
      PROVE  GoodStep
  BY <1>1, <1>2, <1>8, UnexpectedStep, ClientStays
<1> QED
  BY <1>4, <1>5, <1>6, <1>7, <1>8

(* The client gets a ping, and answers it if it is connected.              *)
LEMMA ClientReceivesPingGood ==
    ASSUME IInv, NEW result \in SendResults, ClientReceivesPing(result)
    PROVE  GoodStep
<1>1. ClientInv /\ SP!Inv
  BY DEF IInv
<1>2. C!HandlePing(TheServer, result) \/ Unexpected
  BY DEF ClientReceivesPing
<1>3. ClientInv' /\ state' \in {state, "Disconnected"}
  <2>1. CASE C!HandlePing(TheServer, result)
    BY <1>1, <2>1, HeardStep DEF C!HandlePing
  <2>2. CASE Unexpected
    BY <1>1, <2>2, UnexpectedStep
  <2> QED
    BY <1>2, <2>1, <2>2
<1>4. S!AnswerPing(TheClient) \/ S!LosePing(TheClient)
  BY DEF ClientReceivesPing
<1>5. SP!Inv' /\ clients' = clients
  BY <1>1, <1>4, ServerStep DEF S!AnswerPing, S!LosePing
<1>6. NetworkInv' /\ history' = history
  BY NetworkKept DEF IInv, ClientReceivesPing, network
<1> QED
  BY <1>3, <1>5, <1>6, ClientLeaves

(* The server admits nobody and sends no Accept.                           *)
LEMMA ServerStays ==
    ASSUME IInv, UNCHANGED clientVars, SP!Inv', SP!NobodyNew,
           toServer' \subseteq toServer,
           toClient' \subseteq toClient \cup (PacketsToClient \ {"Accept"}), history' = history
    PROVE  GoodStep
<1>1. ClientInv' /\ state' = state
  BY ClientQuiet DEF IInv, clientVars
<1>2. NetworkInv'
  BY NetworkKept DEF IInv
<1> QED
  BY <1>1, <1>2, ServerDrops

(* A server that does nothing admits nobody.                               *)
LEMMA ServerIdle ==
    ASSUME SP!Inv, UNCHANGED serverVars
    PROVE  SP!Inv' /\ SP!NobodyNew
<1>1. SP!Connected' = SP!Connected
  BY DEF serverVars, SP!Connected, SP!Occupied
<1> QED
  BY <1>1, ServerQuiet DEF SP!NobodyNew

(* The server's update, and a call of unlisten.                            *)
LEMMA ServerLoopGood ==
    ASSUME IInv, ServerLoop \/ Unlisten
    PROVE  GoodStep
<1>1. UNCHANGED <<clientVars, network>>
  BY DEF ServerLoop, Unlisten, ServerPings
<1>2. SP!Inv
  BY DEF IInv
<1>3. \/ S!Unlisten(TheClient) \/ S!NoMorePackets
      \/ \E failed \in SUBSET S!Connected : S!UpdateBuffers(failed, S!Connected)
      \/ \E result : S!SendPings(result)
  BY Zenon DEF ServerLoop, Unlisten, ServerPings
<1>4. SP!Inv' /\ SP!NobodyNew
  <2>1. CASE S!Unlisten(TheClient) \/ S!NoMorePackets
    BY <1>2, <2>1, ServerStep
  <2>2. CASE \/ \E failed \in SUBSET S!Connected : S!UpdateBuffers(failed, S!Connected)
             \/ \E result : S!SendPings(result)
    BY <1>2, <2>2, ServerLoopStep
  <2> QED
    BY <1>3, <2>1, <2>2
<1> QED
  BY <1>1, <1>4, ServerStays DEF network

(* The server gets a pong.                                                 *)
LEMMA ServerReceivesPongGood ==
    ASSUME IInv, NEW again \in BOOLEAN, ServerReceivesPong(again)
    PROVE  GoodStep
<1>1. SP!Inv' /\ SP!NobodyNew
  BY ServerStep DEF IInv, ServerReceivesPong
<1> QED
  BY <1>1, ServerStays DEF ServerReceivesPong, network

(* The server gets a version request.                                      *)
LEMMA ServerReceivesVersionRequestGood ==
    ASSUME IInv, NEW result \in SendResults, NEW again \in BOOLEAN,
           ServerReceivesVersionRequest(result, again)
    PROVE  GoodStep
<1>1. S!HandleVersionRequest(TheClient, result) \/ UNCHANGED serverVars
  BY DEF ServerReceivesVersionRequest
<1>2. SP!Inv' /\ SP!NobodyNew
  BY <1>1, ServerStep, ServerIdle DEF IInv
<1>3. toServer' \subseteq toServer /\ toClient' \subseteq toClient \cup {"Version"}
  BY PutFacts DEF ServerReceivesVersionRequest
<1> QED
  BY <1>2, <1>3, ServerStays DEF ServerReceivesVersionRequest, PacketsToClient

(* The server gets a Connect, which only a client that asked has sent.     *)
LEMMA ServerReceivesConnectGood ==
    ASSUME IInv, NEW result \in SendResults, NEW again \in BOOLEAN,
           ServerReceivesConnect(result, again)
    PROVE  GoodStep
<1>1. SP!Inv /\ NetworkInv
  BY DEF IInv
<1>2. UNCHANGED clientVars /\ toServer' \subseteq toServer /\ history # "new"
  BY <1>1, PutFacts DEF ServerReceivesConnect, NetworkInv
<1>3. ASSUME S!HandleConnectAccept(TheClient, result),
             toClient' = Put(Put(toClient, "Accept", result = "sent"), "Ack", TRUE),
             history' = "admitted"
      PROVE  GoodStep
  <2>1. SP!Inv' /\ SP!Connected' = SP!Connected \cup {TheClient}
    BY <1>1, <1>3, AcceptStep
  <2>2. TheClient \notin S!Connected
    BY <1>3 DEF S!HandleConnectAccept
  <2>3. toClient' \subseteq toClient \cup {"Accept", "Ack"}
    BY <1>3 DEF Put
  <2>4. NetworkInv'
    BY <1>1, <1>2, <1>3, <2>3 DEF NetworkInv, PacketsToClient
  <2> QED
    BY <1>2, <1>3, <2>1, <2>2, <2>4, ServerAdmits
<1>4. ASSUME S!HandleConnectAgain(TheClient) \/ S!HandleConnectReject(TheClient, result),
             toClient' \subseteq toClient \cup {"Reject", "Ack"}, history' = history
      PROVE  GoodStep
  <2>1. SP!Inv' /\ SP!NobodyNew
    BY <1>1, <1>4, ServerStep
  <2> QED
    BY <1>2, <1>4, <2>1, ServerStays DEF PacketsToClient
<1>5. ASSUME UNCHANGED <<serverVars, toClient, history>>
      PROVE  GoodStep
  BY <1>1, <1>2, <1>5, ServerIdle, ServerStays
<1>6. CASE /\ S!HandleConnectAgain(TheClient)
           /\ toClient' = Put(toClient, "Ack", TRUE) /\ UNCHANGED history
  BY <1>4, <1>6, PutFacts
<1>7. CASE /\ S!HandleConnectReject(TheClient, result)
           /\ toClient' = Put(Put(toClient, "Reject", result = "sent"), "Ack", TRUE)
           /\ UNCHANGED history
  <2>1. toClient' \subseteq toClient \cup {"Reject", "Ack"}
    BY <1>7 DEF Put
  <2> QED
    BY <1>4, <1>7, <2>1
<1>8. CASE UNCHANGED <<serverVars, history>> /\ toClient' = Put(toClient, "Ack", TRUE)
  <2>1. toClient' \subseteq toClient \cup {"Ack"}
    BY <1>8, PutFacts
  <2> QED
    BY <1>1, <1>2, <1>8, <2>1, ServerIdle, ServerStays DEF PacketsToClient
<1> QED
  BY <1>3, <1>5, <1>6, <1>7, <1>8, Zenon DEF ServerReceivesConnect

(* The server gets a Disconnect or a packet of the program's.              *)
LEMMA ServerReceivesGood ==
    ASSUME IInv, NEW k, NEW again \in BOOLEAN, ServerReceives(k, again)
    PROVE  GoodStep
<1>1. S!HandleDisconnect(TheClient) \/ UNCHANGED serverVars
  BY DEF ServerReceives
<1>2. SP!Inv' /\ SP!NobodyNew
  BY <1>1, ServerStep, ServerIdle DEF IInv
<1>3. toServer' \subseteq toServer /\ toClient' \subseteq toClient \cup {"Ack"}
  BY PutFacts DEF ServerReceives
<1> QED
  BY <1>2, <1>3, ServerStays DEF ServerReceives, PacketsToClient

(* The network loses something.                                            *)
LEMMA LossGood ==
    ASSUME IInv,
           \/ \E k \in toServer : LoseToServer(k)
           \/ \E k \in toClient : LoseToClient(k)
           \/ LosePing
    PROVE  GoodStep
<1>1. /\ UNCHANGED clientVars /\ history' = history
      /\ toServer' \subseteq toServer /\ toClient' \subseteq toClient
  BY DEF LoseToServer, LoseToClient, LosePing, network
<1>2. S!LosePing(TheClient) \/ S!LosePong(TheClient) \/ UNCHANGED serverVars
  BY DEF LoseToServer, LoseToClient, LosePing
<1>3. SP!Inv' /\ SP!NobodyNew
  BY <1>2, ServerStep, ServerIdle DEF IInv
<1> QED
  BY <1>1, <1>3, ServerStays

(* Time passes for both ends.                                              *)
LEMMA TickGood ==
    ASSUME IInv, Tick
    PROVE  GoodStep
<1>1. ClientInv' /\ state' = state
  BY ClientTick DEF IInv, Tick
<1>2. SP!Inv' /\ SP!NobodyNew
  BY ServerStep DEF IInv, Tick
<1>3. NetworkInv' /\ history' = history
  BY NetworkKept DEF IInv, Tick, network
<1> QED
  BY <1>1, <1>2, <1>3, ServerDrops

(* Every step keeps the invariant, and is one of Session or none of it.    *)
LEMMA NextGood ==
    ASSUME IInv, [Next]_vars
    PROVE  GoodStep
<1>1. CASE UNCHANGED vars
  <2>1. UNCHANGED clientVars /\ UNCHANGED serverVars /\ UNCHANGED network
    BY <1>1 DEF vars
  <2> QED
    BY <2>1, ServerIdle, ServerStays DEF IInv, network
<1>2. CASE ClientHandles
  BY <1>2, ClientReceivesGood, ClientReceivesPingGood DEF ClientHandles
<1>3. CASE ServerHandles
  BY <1>3, ServerReceivesPongGood, ServerReceivesVersionRequestGood, ServerReceivesConnectGood,
     ServerReceivesGood DEF ServerHandles
<1> QED
  BY <1>1, <1>2, <1>3, CallsGood, ClientLoopGood, ServerLoopGood, LossGood, TickGood DEF Next

(* The first state.                                                        *)
LEMMA InitInv ==
    ASSUME Init
    PROVE  IInv /\ Promise!Init
<1>1. C!Init /\ S!Init
  BY DEF Init
<1>2. CP!Init
  BY <1>1 DEF C!Init, CP!Init
<1>3. CP!IInv
  BY <1>2, ClientConstants, CP!InitInv
<1>4. SP!Init
  BY <1>1 DEF S!Init, SP!Init, S!None, SP!None
<1>5. SP!Inv
  BY <1>4, ServerConstants, SP!InitInv
<1>6. state = "Disconnected" /\ step = "idle" /\ clients = <<>>
  BY <1>1 DEF C!Init, S!Init
<1>7. ClientInv
  BY <1>3, <1>6 DEF ClientInv, AtServer, PanicIsEarned
<1>8. NetworkInv
  BY DEF Init, NetworkInv
<1>9. ClientEnd = "out"
  BY <1>3, <1>6, ClientEnds
<1>10. ServerEnd = "out"
  <2>1. DOMAIN clients = {}
    BY <1>6
  <2> QED
    BY <2>1 DEF ServerEnd, S!Connected, S!Occupied
<1> QED
  BY <1>5, <1>7, <1>8, <1>9, <1>10 DEF Init, IInv, Promise!Init

-----------------------------------------------------------------------------
(* Theorems                                                                *)

(* The invariant holds in every reachable state.                           *)
LEMMA AlwaysIInv == Spec => []IInv
<1>1. Init => IInv
  BY InitInv
<1>2. IInv /\ [Next]_vars => IInv'
  BY NextGood DEF GoodStep
<1> QED
  BY <1>1, <1>2, PTL DEF Spec

(* disconnect, send and forget_all panic only after refresh_all has reset  *)
(* the listener of the session that goes on: nothing that the server and   *)
(* the network do makes them find it without a compatible first listener.  *)
THEOREM PanicsAreEarned == Spec => []PanicIsEarned
<1>1. IInv => PanicIsEarned
  BY DEF IInv, ClientInv
<1> QED
  BY <1>1, AlwaysIInv, PTL

(* A client and a server joined by a lossy network implement Session: the  *)
(* server admits a client that asked only, the client enters only after it *)
(* was admitted, and otherwise each end only ever leaves.                  *)
THEOREM ConnectionImplementsSession == Spec => SessionSpec
<1>1. Init => IInv /\ Promise!Init
  BY InitInv
<1>2. IInv /\ [Next]_vars => [Promise!Next]_(Promise!vars)
  BY NextGood DEF GoodStep
<1> QED
  BY <1>1, <1>2, AlwaysIInv, PTL DEF Spec, SessionSpec, Promise!Spec
=============================================================================
