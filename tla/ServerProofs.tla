----------------------------- MODULE ServerProofs -----------------------------
(***************************************************************************)
(* Proofs about the Server, for every set of addresses, every ping delay   *)
(* and every limit on missed pongs.                                        *)
(***************************************************************************)
EXTENDS Server, LibraryFacts, FiniteSetTheorems, TLAPS

-----------------------------------------------------------------------------
(* Slots                                                                   *)

(* A function on 1..n with slots for values is a sequence of slots.        *)
LEMMA SlotSequence ==
    ASSUME NEW n \in Nat, NEW f, DOMAIN f = 1..n, f = [i \in 1..n |-> f[i]],
           \A i \in 1..n : f[i] \in Slot
    PROVE  f \in Seq(Slot) /\ Len(f) = n
<1>1. f \in [1..n -> Slot]
  OBVIOUS
<1> QED
  BY <1>1

(* A vacant slot and the slot of a new client are slots.                   *)
LEMMA NewClientType ==
    ASSUME NEW a \in Addr \cup {NoOne}
    PROVE  NewClient(a) \in Slot /\ NewClient(a).addr = a
  BY PingAssumption DEF NewClient, Slot, None

(* Vacating slots keeps the others as they are.                            *)
LEMMA VacatedType ==
    ASSUME clients \in Seq(Slot), NEW A
    PROVE  /\ Vacated(A) \in Seq(Slot) /\ Len(Vacated(A)) = Len(clients)
           /\ \A i \in DOMAIN clients :
                Vacated(A)[i] = IF clients[i].addr \in A THEN Vacant ELSE clients[i]
<1>1. DOMAIN clients = 1..Len(clients) /\ Len(clients) \in Nat
  OBVIOUS
<1>2. \A i \in DOMAIN clients : clients[i] \in Slot
  OBVIOUS
<1>3. Vacant \in Slot
  BY NewClientType DEF Vacant
<1>4. \A i \in 1..Len(clients) : Vacated(A)[i] \in Slot
  BY <1>1, <1>2, <1>3 DEF Vacated
<1>5. DOMAIN Vacated(A) = 1..Len(clients)
      /\ Vacated(A) = [i \in 1..Len(clients) |-> Vacated(A)[i]]
  BY <1>1 DEF Vacated
<1>6. Vacated(A) \in Seq(Slot) /\ Len(Vacated(A)) = Len(clients)
  BY <1>1, <1>4, <1>5, SlotSequence
<1> QED
  BY <1>6 DEF Vacated

(* The first free slot is vacant or just after the end, and all slots      *)
(* before it are occupied.                                                 *)
LEMMA FreeSlotFound ==
    ASSUME clients \in Seq(Slot)
    PROVE  /\ FreeSlot \in 1..(Len(clients) + 1)
           /\ FreeSlot \in DOMAIN clients => clients[FreeSlot].addr = NoOne
           /\ FreeSlot \notin DOMAIN clients => Occupied = DOMAIN clients
<1> DEFINE S == {i \in DOMAIN clients : clients[i].addr = NoOne} \cup {Len(clients) + 1}
<1>1. DOMAIN clients = 1..Len(clients) /\ Len(clients) \in Nat
  OBVIOUS
<1>2. S \in SUBSET Nat /\ S # {}
  BY <1>1
<1>3. FreeSlot \in S /\ \A i \in S : FreeSlot <= i
  <2> HIDE DEF S
  <2>1. Min(S) \in S /\ \A i \in S : Min(S) <= i
    BY <1>2, MinFound
  <2> QED
    BY <2>1 DEF FreeSlot, S
<1> QED
  BY <1>1, <1>3 DEF Occupied

(* PutClient uses the free slot and leaves all others as they are.         *)
LEMMA PutClientType ==
    ASSUME clients \in Seq(Slot), NEW a \in Addr
    PROVE  /\ PutClient(a) \in Seq(Slot)
           /\ FreeSlot \in DOMAIN PutClient(a)
           /\ DOMAIN PutClient(a) = DOMAIN clients \cup {FreeSlot}
           /\ Len(PutClient(a)) = IF FreeSlot \in DOMAIN clients THEN Len(clients) ELSE Len(clients) + 1
           /\ PutClient(a)[FreeSlot] = NewClient(a)
           /\ \A i \in DOMAIN clients : i # FreeSlot => PutClient(a)[i] = clients[i]
<1> DEFINE n == Max({Len(clients), FreeSlot})
<1>1. DOMAIN clients = 1..Len(clients) /\ Len(clients) \in Nat
  OBVIOUS
<1>2. FreeSlot \in 1..(Len(clients) + 1)
  BY FreeSlotFound
<1>3. n = IF FreeSlot \in DOMAIN clients THEN Len(clients) ELSE Len(clients) + 1
  BY <1>1, <1>2, MaxOfTwo
<1>4. PutClient(a) = [i \in 1..n |-> IF i = FreeSlot THEN NewClient(a) ELSE clients[i]]
  BY DEF PutClient
<1> HIDE DEF n
<1>5. n \in Nat /\ 1..n = DOMAIN clients \cup {FreeSlot}
  BY <1>1, <1>2, <1>3
<1>6. \A i \in DOMAIN clients : clients[i] \in Slot
  OBVIOUS
<1>7. \A i \in 1..n : PutClient(a)[i] \in Slot
  BY <1>4, <1>5, <1>6, NewClientType
<1>8. PutClient(a) \in Seq(Slot) /\ Len(PutClient(a)) = n
  <2>1. DOMAIN PutClient(a) = 1..n /\ PutClient(a) = [i \in 1..n |-> PutClient(a)[i]]
    BY <1>4
  <2> QED
    BY <1>5, <1>7, <2>1, SlotSequence
<1> QED
  BY <1>3, <1>4, <1>5, <1>8

-----------------------------------------------------------------------------
(* Pings                                                                   *)

(* Adding an element adds at most one to the size of a set.                *)
LEMMA OneMore ==
    ASSUME NEW S, IsFiniteSet(S), NEW n \in Nat, Cardinality(S) <= n, NEW x
    PROVE  IsFiniteSet(S \cup {x}) /\ Cardinality(S \cup {x}) <= n + 1
<1>1. Cardinality(S) \in Nat
  BY FS_CardinalityType
<1>2. /\ IsFiniteSet(S \cup {x})
      /\ Cardinality(S \cup {x}) = IF x \in S THEN Cardinality(S) ELSE Cardinality(S) + 1
  BY FS_AddElement
<1> QED
  BY <1>1, <1>2

(* There is always an id that no ping or pong on its way has.              *)
LEMMA FreshPingFound ==
    ASSUME NEW c
    PROVE  FreshPing(c) \in PingId
<1> DEFINE y == pings[c.addr]
           z == pongs[c.addr]
<1>1. \E id \in PingId : id \notin {y, z}
  <2> SUFFICES ASSUME PingId \subseteq {y, z} PROVE FALSE
    OBVIOUS
  <2> HIDE DEF y, z
  <2> DEFINE R == {} \cup {y}
             T == R \cup {z}
  <2>1. IsFiniteSet({}) /\ Cardinality({}) <= 0
    BY FS_EmptySet
  <2>2. IsFiniteSet(R) /\ Cardinality(R) <= 0 + 1
    BY <2>1, OneMore
  <2>3. IsFiniteSet(T) /\ Cardinality(T) <= 1 + 1 /\ Cardinality(T) \in Nat
    <3> HIDE DEF R
    <3>1. IsFiniteSet(R) /\ Cardinality(R) <= 1
      BY <2>2
    <3>2. IsFiniteSet(T) /\ Cardinality(T) <= 1 + 1
      BY <3>1, OneMore
    <3> HIDE DEF T
    <3> QED
      BY <3>2, FS_CardinalityType
  <2>4. PingId \in SUBSET T
    OBVIOUS
  <2> HIDE DEF T
  <2>5. Cardinality(PingId) <= Cardinality(T)
    BY <2>3, <2>4, FS_Subset
  <2>6. Cardinality(PingId) \in Nat /\ Cardinality(PingId) > 2
    BY PingIdAssumption, FS_CardinalityType
  <2> QED
    BY <2>3, <2>5, <2>6
<1> QED
  BY <1>1 DEF FreshPing

(* What send_pings does to the slot of a client.                           *)
LEMMA PingedType ==
    ASSUME NEW c \in Slot, NEW result
    PROVE  /\ Counted(c) \in Slot /\ Counted(c).addr = c.addr
           /\ Pinged(c, result) \in Slot
           /\ Pinged(c, result).addr \in {c.addr, NoOne}
<1>1. c.missed_pongs \in 0..MissedPongsMax /\ MissedPongsMax \in Nat
  BY PingAssumption DEF Slot
<1>2. Min({c.missed_pongs + 1, MissedPongsMax}) \in 0..MissedPongsMax
  BY <1>1, MinOfTwo
<1>3. Counted(c) \in Slot /\ Counted(c).addr = c.addr
  <2> DEFINE n == IF c.active_ping # None /\ ~c.last_pong
                  THEN Min({c.missed_pongs + 1, MissedPongsMax}) ELSE c.missed_pongs
  <2>1. n \in 0..MissedPongsMax
    BY <1>1, <1>2
  <2>2. Counted(c) = [c EXCEPT !.active_ping = None, !.ping_age = 0, !.last_pong = FALSE,
                               !.missed_pongs = n]
    BY DEF Counted, Slot
  <2> HIDE DEF n
  <2>3. 0 \in 0..PingDelay
    BY PingAssumption
  <2> QED
    BY <2>1, <2>2, <2>3 DEF Slot
<1>4. Vacant \in Slot /\ Vacant.addr = NoOne
  BY NewClientType DEF Vacant
<1>5. FreshPing(c) \in PingId
  BY FreshPingFound
<1>6. /\ [Counted(c) EXCEPT !.active_ping = FreshPing(c)] \in Slot
      /\ [Counted(c) EXCEPT !.active_ping = FreshPing(c)].addr = c.addr
  BY <1>3, <1>5 DEF Slot
<1> QED
  BY <1>3, <1>4, <1>6 DEF Pinged

-----------------------------------------------------------------------------
(* The inductive invariant                                                 *)

Inv == TypeOK /\ OneHome

(* A client that stays connected keeps its slot in this step. *)
Stays ==
    \A i \in Occupied :
       clients[i].addr \in Connected' =>
          i \in DOMAIN clients' /\ clients'[i].addr = clients[i].addr

(* No client is added in this step. *)
NobodyNew == Connected' \subseteq Connected

(* Vacating and cutting off slots moves nobody.                            *)
LEMMA ShrunkSlots ==
    ASSUME clients \in Seq(Slot), clients' \in Seq(Slot),
           \A i, j \in Occupied : clients[i].addr = clients[j].addr => i = j,
           DOMAIN clients' \subseteq DOMAIN clients,
           \A i \in DOMAIN clients' : clients'[i].addr \in {clients[i].addr, NoOne}
    PROVE  /\ Connected' \subseteq Connected
           /\ \A i, j \in Occupied' : clients'[i].addr = clients'[j].addr => i = j
           /\ \A i \in Occupied : clients[i].addr \in Connected' =>
                i \in DOMAIN clients' /\ clients'[i].addr = clients[i].addr
<1>1. \A i \in Occupied' : i \in Occupied /\ clients'[i].addr = clients[i].addr
  BY DEF Occupied
<1> QED
  BY <1>1 DEF Connected, Occupied

(* The connected clients have addresses. *)
LEMMA ConnectedAddr ==
    ASSUME clients \in Seq(Slot)
    PROVE  Connected \subseteq Addr
<1>1. \A i \in DOMAIN clients : clients[i] \in Slot
  OBVIOUS
<1> QED
  BY <1>1 DEF Connected, Occupied, Slot

(* The slot of a connected client.                                         *)
LEMMA SlotOfFound ==
    ASSUME NEW a \in Connected
    PROVE  SlotOf(a) \in Occupied /\ clients[SlotOf(a)].addr = a
  BY DEF Connected, SlotOf

(* Vacating the slots of A disconnects exactly the addresses in A.         *)
LEMMA VacatedConnected ==
    ASSUME TypeOK, NEW A \in SUBSET Addr, clients' = Vacated(A)
    PROVE  Connected' = Connected \ A
<1>1. /\ DOMAIN clients' = DOMAIN clients
      /\ \A i \in DOMAIN clients :
           clients'[i] = IF clients[i].addr \in A THEN Vacant ELSE clients[i]
  BY DEF Vacated
<1>2. Vacant.addr = NoOne /\ NoOne \notin A
  BY NewClientType, AddrAssumption DEF Vacant
<1>3. Occupied' = {i \in Occupied : clients[i].addr \notin A}
  BY <1>1, <1>2 DEF Occupied
<1>4. \A i \in Occupied' : clients'[i].addr = clients[i].addr
  BY <1>1, <1>3 DEF Occupied
<1> QED
  BY <1>3, <1>4 DEF Connected

(* The initial state satisfies the invariant.                              *)
LEMMA InitInv == Init => Inv
<1> SUFFICES ASSUME Init PROVE Inv
  OBVIOUS
<1> USE DEF Init
<1>1. clients \in Seq(Slot) /\ DOMAIN clients = {}
  OBVIOUS
<1>2. 0 \in 0..(MissedPongsMax + 1)
  BY PingAssumption
<1>3. TypeOK
  BY <1>1, <1>2 DEF TypeOK
<1>4. OneHome
  BY <1>1 DEF OneHome, Occupied, Connected
<1> QED
  BY <1>3, <1>4 DEF Inv

(* update_buffers keeps every slot of a client it does not drop.           *)
LEMMA UpdateBuffersSlots ==
    ASSUME Inv, NEW failed \in SUBSET Connected, NEW settled \in SUBSET Connected,
           UpdateBuffers(failed, settled)
    PROVE  /\ clients' \in Seq(Slot) /\ DOMAIN clients' \subseteq DOMAIN clients
           /\ \A i \in DOMAIN clients' : clients'[i].addr \in {clients[i].addr, NoOne}
           /\ Connected \ failed \subseteq Connected'
<1> DEFINE all == Vacated(failed)
           len == Max(Occupied \cup {0})
<1>1. clients \in Seq(Slot) /\ DOMAIN clients = 1..Len(clients) /\ Len(clients) \in Nat
  BY DEF Inv, TypeOK
<1>2. /\ all \in Seq(Slot) /\ Len(all) = Len(clients)
      /\ \A i \in DOMAIN clients :
           all[i] = IF clients[i].addr \in failed THEN Vacant ELSE clients[i]
  BY <1>1, VacatedType
<1>3. Vacant.addr = NoOne
  BY NewClientType DEF Vacant
<1>4. len \in Occupied \cup {0} /\ \A i \in Occupied \cup {0} : i <= len
  <2>1. Occupied \cup {0} \in SUBSET Nat /\ \A i \in Occupied \cup {0} : i <= Len(clients)
    BY <1>1 DEF Occupied
  <2> QED
    BY <1>1, <2>1, MaxFound
<1>5. clients' = SubSeq(all, 1, len)
  BY DEF UpdateBuffers, Remaining
<1> HIDE DEF all, len
<1>6. len \in 0..Len(all)
  BY <1>1, <1>2, <1>4 DEF Occupied
<1>7. /\ clients' \in Seq(Slot) /\ DOMAIN clients' = 1..len
      /\ \A i \in 1..len : clients'[i] = all[i]
  BY <1>2, <1>5, <1>6
<1>8. DOMAIN clients' \subseteq DOMAIN clients
  BY <1>1, <1>2, <1>6, <1>7
<1>9. \A i \in DOMAIN clients' : clients'[i].addr \in {clients[i].addr, NoOne}
  BY <1>2, <1>3, <1>7, <1>8
<1>10. ASSUME NEW i \in Occupied, clients[i].addr \notin failed
       PROVE  clients[i].addr \in Connected'
  <2>1. i \in 1..len
    BY <1>1, <1>4, <1>6 DEF Occupied
  <2>2. clients'[i] = clients[i] /\ i \in DOMAIN clients'
    BY <1>2, <1>7, <1>10, <2>1 DEF Occupied
  <2> QED
    BY <2>2 DEF Connected, Occupied
<1> QED
  BY <1>7, <1>8, <1>9, <1>10 DEF Connected

(* A step that fills no slot needs to keep only the types and the homes.   *)
LEMMA ShrunkInv ==
    ASSUME Inv, TypeOK', DOMAIN clients' \subseteq DOMAIN clients,
           \A i \in DOMAIN clients' : clients'[i].addr \in {clients[i].addr, NoOne},
           listeners' \cap Connected' = {}, pending' \subseteq listeners' \cup Connected'
    PROVE  Inv' /\ Stays /\ NobodyNew
<1>1. clients \in Seq(Slot) /\ clients' \in Seq(Slot)
  BY DEF Inv, TypeOK
<1>2. \A i, j \in Occupied : clients[i].addr = clients[j].addr => i = j
  BY DEF Inv, OneHome
<1>3. /\ \A i, j \in Occupied' : clients'[i].addr = clients'[j].addr => i = j
      /\ Stays /\ NobodyNew
  BY <1>1, <1>2, ShrunkSlots DEF Stays, NobodyNew
<1> QED
  BY <1>3 DEF Inv, OneHome

(* A step that moves nobody connects and disconnects nobody.               *)
LEMMA SameSlots ==
    ASSUME DOMAIN clients' = DOMAIN clients,
           \A i \in DOMAIN clients : clients'[i].addr = clients[i].addr
    PROVE  Occupied' = Occupied /\ Connected' = Connected
<1>1. Occupied' = Occupied
  BY DEF Occupied
<1> QED
  BY <1>1 DEF Connected, Occupied

(* A step that leaves the addresses in their slots.                        *)
LEMMA SameInv ==
    ASSUME Inv, TypeOK', DOMAIN clients' = DOMAIN clients,
           \A i \in DOMAIN clients : clients'[i].addr = clients[i].addr,
           listeners' \cap Connected = {}, pending' \subseteq listeners' \cup Connected
    PROVE  Inv' /\ Stays /\ NobodyNew
<1>1. Connected' = Connected
  BY SameSlots
<1> QED
  BY <1>1, ShrunkInv

(* A step that leaves the slots as they are.                               *)
LEMMA UnchangedSlots ==
    ASSUME Inv, TypeOK', clients' = clients,
           listeners' \cap Connected = {}, pending' \subseteq listeners' \cup Connected
    PROVE  Inv' /\ Stays /\ NobodyNew
  BY SameInv

(* A client that leaves its slot for the listeners.                        *)
LEMMA DisconnectInv ==
    ASSUME Inv, NEW a \in Connected, Disconnect(a), pending' \in SUBSET (pending \cup {a}),
           UNCHANGED <<phase, pings, pongs, timedOut, unanswered>>
    PROVE  Inv' /\ Stays /\ NobodyNew
<1>1. TypeOK /\ OneHome /\ clients \in Seq(Slot) /\ a \in Addr
  BY ConnectedAddr DEF Inv, TypeOK
<1>2. clients' = Vacated({a}) /\ listeners' = listeners \cup {a}
  BY DEF Disconnect
<1>3. Connected' = Connected \ {a}
  BY <1>1, <1>2, VacatedConnected
<1>4. /\ clients' \in Seq(Slot) /\ DOMAIN clients' = DOMAIN clients
      /\ \A i \in DOMAIN clients' : clients'[i].addr \in {clients[i].addr, NoOne}
  <2>1. /\ Vacated({a}) \in Seq(Slot) /\ DOMAIN Vacated({a}) = DOMAIN clients
        /\ \A i \in DOMAIN clients :
             Vacated({a})[i] = IF clients[i].addr \in {a} THEN Vacant ELSE clients[i]
    BY <1>1, VacatedType DEF Vacated
  <2>2. Vacant.addr = NoOne
    BY NewClientType DEF Vacant
  <2> QED
    BY <1>2, <2>1, <2>2
<1>5. listeners' \cap Connected' = {} /\ pending' \subseteq listeners' \cup Connected'
  BY <1>1, <1>2, <1>3 DEF OneHome
<1>6. TypeOK'
  BY <1>1, <1>2, <1>4 DEF TypeOK
<1> QED
  BY <1>4, <1>5, <1>6, ShrunkInv

-----------------------------------------------------------------------------
(* The actions, one by one                                                 *)

(* The program forgets a listener. *)
LEMMA UnlistenInv ==
    ASSUME Inv, NEW a \in Addr, Unlisten(a)
    PROVE  Inv' /\ Stays /\ NobodyNew
<1>1. TypeOK /\ OneHome
  BY DEF Inv
<1>2. TypeOK'
  BY <1>1 DEF TypeOK, Unlisten
<1>3. listeners' \cap Connected = {} /\ pending' \subseteq listeners' \cup Connected
  BY <1>1 DEF OneHome, Unlisten
<1> QED
  BY <1>2, <1>3, UnchangedSlots DEF Unlisten

(* The program forgets all listeners. *)
LEMMA UnlistenAllInv ==
    ASSUME Inv, UnlistenAll
    PROVE  Inv' /\ Stays /\ NobodyNew
<1>1. TypeOK /\ OneHome
  BY DEF Inv
<1>2. TypeOK'
  BY <1>1 DEF TypeOK, UnlistenAll
<1>3. listeners' \cap Connected = {} /\ pending' \subseteq listeners' \cup Connected
  BY <1>1 DEF OneHome, UnlistenAll
<1> QED
  BY <1>2, <1>3, UnchangedSlots DEF UnlistenAll

(* The program sends a packet to a client. *)
LEMMA SendUserInv ==
    ASSUME Inv, NEW a \in Addr, NEW result \in SendResults, SendUser(a, result)
    PROVE  Inv' /\ Stays /\ NobodyNew
<1>1. TypeOK /\ OneHome
  BY DEF Inv
<1>2. TypeOK'
  BY <1>1 DEF TypeOK, SendUser
<1>3. listeners' \cap Connected = {} /\ pending' \subseteq listeners' \cup Connected
  BY <1>1 DEF OneHome, SendUser
<1> QED
  BY <1>2, <1>3, UnchangedSlots DEF SendUser

(* The first phase of an update. *)
LEMMA UpdateBuffersInv ==
    ASSUME Inv, NEW failed \in SUBSET Connected, NEW settled \in SUBSET Connected,
           UpdateBuffers(failed, settled)
    PROVE  Inv' /\ Stays /\ NobodyNew
<1>1. TypeOK /\ OneHome
  BY DEF Inv
<1>2. /\ clients' \in Seq(Slot) /\ DOMAIN clients' \subseteq DOMAIN clients
      /\ \A i \in DOMAIN clients' : clients'[i].addr \in {clients[i].addr, NoOne}
      /\ Connected \ failed \subseteq Connected'
  BY UpdateBuffersSlots
<1>3. TypeOK'
  BY <1>1, <1>2 DEF TypeOK, UpdateBuffers
<1>4. Connected' \subseteq Connected
  <2>1. clients \in Seq(Slot) /\ \A i, j \in Occupied : clients[i].addr = clients[j].addr => i = j
    BY <1>1 DEF TypeOK, OneHome
  <2> QED
    BY <1>2, <2>1, ShrunkSlots
<1>5. listeners' \cap Connected' = {} /\ pending' \subseteq listeners' \cup Connected'
  BY <1>1, <1>2, <1>4 DEF OneHome, UpdateBuffers
<1> QED
  BY <1>2, <1>3, <1>5, ShrunkInv

(* A peer becomes a listener. *)
LEMMA HandleVersionRequestInv ==
    ASSUME Inv, NEW a \in Addr, NEW result \in SendResults, HandleVersionRequest(a, result)
    PROVE  Inv' /\ Stays /\ NobodyNew
<1>1. TypeOK /\ OneHome
  BY DEF Inv
<1>2. TypeOK'
  BY <1>1 DEF TypeOK, HandleVersionRequest
<1>3. listeners' \cap Connected = {} /\ pending' \subseteq listeners' \cup Connected
  BY <1>1 DEF OneHome, HandleVersionRequest
<1> QED
  BY <1>2, <1>3, UnchangedSlots DEF HandleVersionRequest

(* A listener is rejected. *)
LEMMA HandleConnectRejectInv ==
    ASSUME Inv, NEW a \in Addr, NEW result \in SendResults, HandleConnectReject(a, result)
    PROVE  Inv' /\ Stays /\ NobodyNew
<1>1. TypeOK /\ OneHome
  BY DEF Inv
<1>2. TypeOK'
  BY <1>1 DEF TypeOK, HandleConnectReject
<1>3. listeners' \cap Connected = {} /\ pending' \subseteq listeners' \cup Connected
  BY <1>1 DEF OneHome, HandleConnectReject
<1> QED
  BY <1>2, <1>3, UnchangedSlots DEF HandleConnectReject

(* The second phase of an update ends. *)
LEMMA NoMorePacketsInv ==
    ASSUME Inv, NoMorePackets
    PROVE  Inv' /\ Stays /\ NobodyNew
<1>1. TypeOK /\ OneHome
  BY DEF Inv
<1>2. TypeOK'
  BY <1>1 DEF TypeOK, NoMorePackets
<1>3. listeners' \cap Connected = {} /\ pending' \subseteq listeners' \cup Connected
  BY <1>1 DEF OneHome, NoMorePackets
<1> QED
  BY <1>2, <1>3, UnchangedSlots DEF NoMorePackets

(* A pong changes the ping's bookkeeping of one client. *)
LEMMA HandlePongInv ==
    ASSUME Inv, NEW a \in Addr, NEW again \in BOOLEAN, HandlePong(a, again)
    PROVE  Inv' /\ Stays /\ NobodyNew
<1> DEFINE i == SlotOf(a)
<1>1. TypeOK /\ OneHome /\ clients \in Seq(Slot)
  BY DEF Inv, TypeOK
<1>2. CASE a \in Connected /\ clients[i].active_ping = pongs[a]
  <2>1. i \in DOMAIN clients
    BY <1>2, SlotOfFound DEF Occupied
  <2>2. clients[i] \in Slot
    BY <1>1, <2>1
  <2> HIDE DEF i
  <2> DEFINE c == [clients[i] EXCEPT !.last_pong = TRUE, !.missed_pongs = 0]
  <2>3. c \in Slot /\ c.addr = clients[i].addr
    <3>1. 0 \in 0..MissedPongsMax
      BY PingAssumption
    <3> QED
      BY <2>2, <3>1 DEF Slot
  <2>4. clients' = [clients EXCEPT ![i] = c]
    BY <1>2, <2>1, <2>2 DEF HandlePong, Answered, i
  <2> HIDE DEF c
  <2>5. clients' \in Seq(Slot) /\ DOMAIN clients' = DOMAIN clients
    BY <1>1, <2>1, <2>3, <2>4
  <2>6. \A j \in DOMAIN clients : clients'[j].addr = clients[j].addr
    BY <2>1, <2>3, <2>4
  <2>7. unanswered' \in [Addr -> 0..(MissedPongsMax + 1)]
    <3>1. unanswered' = [unanswered EXCEPT ![a] = 0]
      BY <1>2 DEF HandlePong, i
    <3> QED
      BY <1>1, <3>1, PingAssumption DEF TypeOK
  <2>8. TypeOK'
    BY <1>1, <2>5, <2>7 DEF TypeOK, HandlePong
  <2> QED
    BY <1>1, <2>5, <2>6, <2>8, SameInv DEF HandlePong, OneHome
<1>3. CASE ~(a \in Connected /\ clients[i].active_ping = pongs[a])
  <2>1. clients' = clients /\ unanswered' = unanswered
    BY <1>3 DEF HandlePong
  <2>2. TypeOK'
    BY <1>1, <2>1 DEF TypeOK, HandlePong
  <2> QED
    BY <1>1, <2>1, <2>2, UnchangedSlots DEF HandlePong, OneHome
<1> QED
  BY <1>2, <1>3

(* A query disconnects a client if its answer cannot be sent. *)
LEMMA HandleQueryInv ==
    ASSUME Inv, NEW a \in Addr, NEW result \in SendResults, HandleQuery(a, result)
    PROVE  Inv' /\ Stays /\ NobodyNew
<1>1. CASE a \in Connected /\ result = "error"
  BY <1>1, DisconnectInv DEF HandleQuery
<1>2. CASE ~(a \in Connected /\ result = "error")
  <2>1. TypeOK /\ OneHome
    BY DEF Inv
  <2>2. TypeOK'
    BY <1>2, <2>1 DEF TypeOK, HandleQuery
  <2>3. listeners' \cap Connected = {} /\ pending' \subseteq listeners' \cup Connected
    BY <1>2, <2>1 DEF OneHome, HandleQuery
  <2> QED
    BY <1>2, <2>2, <2>3, UnchangedSlots DEF HandleQuery
<1> QED
  BY <1>1, <1>2

(* A listener becomes a client: its slot was free, and the others stay.    *)
LEMMA AcceptInv ==
    ASSUME Inv, NEW a \in Addr, NEW result \in SendResults, HandleConnectAccept(a, result)
    PROVE  Inv' /\ Stays /\ Connected' = Connected \cup {a}
<1>1. TypeOK /\ OneHome /\ clients \in Seq(Slot) /\ a \notin Connected
  BY DEF Inv, TypeOK, HandleConnectAccept
<1>2. clients' = PutClient(a)
  BY DEF HandleConnectAccept
<1>3. /\ clients' \in Seq(Slot)
      /\ FreeSlot \in DOMAIN clients' /\ DOMAIN clients' = DOMAIN clients \cup {FreeSlot}
      /\ clients'[FreeSlot].addr = a
      /\ \A i \in DOMAIN clients : i # FreeSlot => clients'[i] = clients[i]
  <2>1. NewClient(a).addr = a
    BY NewClientType
  <2> QED
    BY <1>1, <1>2, <2>1, PutClientType
<1>4. FreeSlot \notin Occupied
  BY <1>1, FreeSlotFound DEF Occupied
<1>5. Occupied' = Occupied \cup {FreeSlot}
  BY <1>3, <1>4, AddrAssumption DEF Occupied
<1>6. \A i \in Occupied : clients'[i] = clients[i] /\ i # FreeSlot
  BY <1>3, <1>4 DEF Occupied
<1>7. Connected' = Connected \cup {a}
  BY <1>3, <1>5, <1>6 DEF Connected
<1>8. \A i, j \in Occupied' : clients'[i].addr = clients'[j].addr => i = j
  BY <1>1, <1>3, <1>5, <1>6 DEF OneHome, Connected
<1>9. Stays
  BY <1>3, <1>6 DEF Stays, Occupied
<1>10. unanswered' \in [Addr -> 0..(MissedPongsMax + 1)]
  BY <1>1, PingAssumption DEF TypeOK, HandleConnectAccept
<1>11. TypeOK'
  BY <1>1, <1>3, <1>10 DEF TypeOK, HandleConnectAccept
<1>12. listeners' \cap Connected' = {} /\ pending' \subseteq listeners' \cup Connected'
  BY <1>1, <1>7 DEF OneHome, HandleConnectAccept
<1> QED
  BY <1>7, <1>8, <1>9, <1>11, <1>12 DEF Inv, OneHome

(* The environment. *)
LEMMA EnvironmentInv ==
    ASSUME Inv, NEW a \in Addr, AnswerPing(a) \/ LosePing(a) \/ LosePong(a)
    PROVE  Inv' /\ Stays /\ NobodyNew
<1>1. TypeOK /\ OneHome
  BY DEF Inv
<1>2. TypeOK'
  BY <1>1 DEF TypeOK, AnswerPing, LosePing, LosePong
<1>3. clients' = clients /\ listeners' = listeners /\ pending' = pending
  BY DEF AnswerPing, LosePing, LosePong
<1> QED
  BY <1>1, <1>2, <1>3, UnchangedSlots DEF OneHome

(* Time passes. *)
LEMMA TickInv ==
    ASSUME Inv, Tick
    PROVE  Inv' /\ Stays /\ NobodyNew
<1>1. TypeOK /\ OneHome /\ clients \in Seq(Slot)
  BY DEF Inv, TypeOK
<1>2. DOMAIN clients = 1..Len(clients) /\ Len(clients) \in Nat
  BY <1>1
<1>3. ASSUME NEW i \in DOMAIN clients
      PROVE  clients'[i] \in Slot /\ clients'[i].addr = clients[i].addr
  <2>1. clients[i] \in Slot
    BY <1>1
  <2>2. CASE clients[i].active_ping # None /\ clients[i].ping_age < PingDelay
    <3>1. clients'[i] = [clients[i] EXCEPT !.ping_age = clients[i].ping_age + 1]
      BY <2>1, <2>2 DEF Tick, Slot
    <3>2. clients[i].ping_age + 1 \in 0..PingDelay
      BY <2>1, <2>2, PingAssumption DEF Slot
    <3> QED
      BY <2>1, <3>1, <3>2 DEF Slot
  <2>3. CASE ~(clients[i].active_ping # None /\ clients[i].ping_age < PingDelay)
    BY <2>1, <2>3 DEF Tick
  <2> QED
    BY <2>2, <2>3
<1>4. DOMAIN clients' = 1..Len(clients) /\ clients' = [i \in 1..Len(clients) |-> clients'[i]]
  BY <1>2 DEF Tick
<1>5. clients' \in Seq(Slot)
  BY <1>2, <1>3, <1>4, SlotSequence
<1>6. TypeOK'
  BY <1>1, <1>5 DEF TypeOK, Tick
<1> QED
  BY <1>1, <1>2, <1>3, <1>4, <1>6, SameInv DEF OneHome, Tick

(* send_pings moves nobody: a client keeps its slot or loses it.           *)
LEMMA SendPingsInv ==
    ASSUME Inv, NEW result, SendPings(result)
    PROVE  Inv' /\ Stays /\ NobodyNew
<1>1. TypeOK /\ OneHome /\ clients \in Seq(Slot)
  BY DEF Inv, TypeOK
<1>2. DOMAIN clients = 1..Len(clients) /\ Len(clients) \in Nat
  BY <1>1
<1>3. clients' = [i \in DOMAIN clients |->
                    IF clients[i].addr = NoOne THEN clients[i]
                    ELSE Pinged(clients[i], result[clients[i].addr])]
  BY DEF SendPings
<1>4. ASSUME NEW i \in DOMAIN clients
      PROVE  clients'[i] \in Slot /\ clients'[i].addr \in {clients[i].addr, NoOne}
  <2>1. clients[i] \in Slot
    BY <1>1
  <2> QED
    BY <1>3, <2>1, PingedType
<1>5. DOMAIN clients' = 1..Len(clients) /\ clients' = [i \in 1..Len(clients) |-> clients'[i]]
  BY <1>2, <1>3
<1>6. clients' \in Seq(Slot)
  BY <1>2, <1>4, <1>5, SlotSequence
<1>7. pings' \in [Addr -> PingId \cup {None}]
  <2>1. \A a \in Addr : pings'[a] \in PingId \cup {None}
    BY <1>1, FreshPingFound DEF SendPings, TypeOK
  <2>2. pings' = [a \in Addr |-> pings'[a]]
    BY DEF SendPings
  <2> QED
    BY <2>1, <2>2
<1>8. unanswered' \in [Addr -> 0..(MissedPongsMax + 1)]
  <2>1. ASSUME NEW a \in Addr
        PROVE  unanswered'[a] \in 0..(MissedPongsMax + 1)
    <3>1. unanswered[a] \in 0..(MissedPongsMax + 1) /\ MissedPongsMax \in Nat
      BY <1>1, PingAssumption DEF TypeOK
    <3>2. Min({unanswered[a] + 1, MissedPongsMax + 1}) \in 0..(MissedPongsMax + 1)
      BY <3>1, MinOfTwo
    <3>3. unanswered'[a] \in {Min({unanswered[a] + 1, MissedPongsMax + 1}), unanswered[a]}
      BY DEF SendPings
    <3> QED
      BY <3>1, <3>2, <3>3
  <2>2. unanswered' = [a \in Addr |-> unanswered'[a]]
    BY DEF SendPings
  <2> QED
    BY <2>1, <2>2
<1>9. timedOut' \subseteq Addr
  <2>1. timedOut' \subseteq Connected
    BY DEF SendPings, Connected
  <2> QED
    BY <1>1, <2>1, ConnectedAddr
<1>10. TypeOK'
  BY <1>1, <1>6, <1>7, <1>8, <1>9 DEF TypeOK, SendPings
<1>11. Connected' = Connected \cap {clients'[i].addr : i \in DOMAIN clients}
  <2>1. Connected' \subseteq Connected
    <3>1. \A i, j \in Occupied : clients[i].addr = clients[j].addr => i = j
      BY <1>1 DEF OneHome
    <3> QED
      BY <1>1, <1>2, <1>4, <1>5, <1>6, <3>1, ShrunkSlots
  <2>2. Connected' = {clients'[i].addr : i \in DOMAIN clients} \ {NoOne}
    BY <1>2, <1>5 DEF Connected, Occupied
  <2>3. NoOne \notin Connected
    BY DEF Connected, Occupied
  <2> QED
    BY <2>1, <2>2, <2>3
<1>12. pending' = pending \ (Connected \ Connected')
  <2>1. pending' = pending \ (Connected \ {clients'[i].addr : i \in DOMAIN clients})
    BY DEF SendPings
  <2> QED
    BY <1>11, <2>1
<1>13. listeners' \cap Connected' = {} /\ pending' \subseteq listeners' \cup Connected'
  BY <1>1, <1>11, <1>12 DEF OneHome, SendPings
<1> QED
  BY <1>2, <1>4, <1>5, <1>10, <1>13, ShrunkInv

-----------------------------------------------------------------------------
(* The theorems                                                            *)

(* Every step keeps the invariant and the slots of those who stay.         *)
LEMMA NextInv ==
    ASSUME Inv, [Next]_vars
    PROVE  Inv' /\ Stays
<1>1. CASE UNCHANGED vars
  <2>1. TypeOK' /\ OneHome'
    BY <1>1 DEF Inv, TypeOK, OneHome, Occupied, Connected, vars
  <2> QED
    BY <1>1, <2>1, UnchangedSlots DEF Inv, OneHome, vars
<1>2. CASE \E a \in Addr : Unlisten(a)
  BY <1>2, UnlistenInv
<1>3. CASE UnlistenAll
  BY <1>3, UnlistenAllInv
<1>4. CASE \E a \in Addr, result \in SendResults : SendUser(a, result)
  BY <1>4, SendUserInv
<1>5. CASE \E failed \in SUBSET Connected, settled \in SUBSET Connected :
              UpdateBuffers(failed, settled)
  BY <1>5, UpdateBuffersInv
<1>6. CASE \E a \in Addr, result \in SendResults : HandleVersionRequest(a, result)
  BY <1>6, HandleVersionRequestInv
<1>7. CASE \E a \in Addr, again \in BOOLEAN : HandlePong(a, again)
  BY <1>7, HandlePongInv
<1>8. CASE \E a \in Addr, result \in SendResults : HandleQuery(a, result)
  BY <1>8, HandleQueryInv
<1>9. CASE \E a \in Addr : HandleConnectAgain(a)
  BY <1>9, DisconnectInv DEF HandleConnectAgain
<1>10. CASE \E a \in Addr, result \in SendResults : HandleConnectAccept(a, result)
  BY <1>10, AcceptInv
<1>11. CASE \E a \in Addr, result \in SendResults : HandleConnectReject(a, result)
  BY <1>11, HandleConnectRejectInv
<1>12. CASE \E a \in Addr : HandleDisconnect(a)
  BY <1>12, DisconnectInv DEF HandleDisconnect
<1>13. CASE NoMorePackets
  BY <1>13, NoMorePacketsInv
<1>14. CASE \E result \in [Connected -> SendResults] : SendPings(result)
  BY <1>14, SendPingsInv
<1>15. CASE \E a \in Addr : AnswerPing(a) \/ LosePing(a) \/ LosePong(a)
  BY <1>15, EnvironmentInv
<1>16. CASE Tick
  BY <1>16, TickInv
<1> QED
  BY <1>1, <1>2, <1>3, <1>4, <1>5, <1>6, <1>7, <1>8, <1>9, <1>10, <1>11, <1>12, <1>13,
     <1>14, <1>15, <1>16 DEF Next

(* The server's state keeps its type.                                      *)
THEOREM ServerTypeCorrect == Spec => []TypeOK
<1>1. Inv /\ [Next]_vars => Inv'
  BY NextInv
<1>2. Inv => TypeOK
  BY DEF Inv
<1> QED
  BY <1>1, <1>2, InitInv, PTL DEF Spec

(* The listeners and the clients of the server never share an address, no  *)
(* client has two slots, and packets wait in the buffers of known peers    *)
(* only, whatever datagrams arrive and however sends fail.                 *)
THEOREM PeersHaveOneHome == Spec => []OneHome
<1>1. Inv /\ [Next]_vars => Inv'
  BY NextInv
<1>2. Inv => OneHome
  BY DEF Inv
<1> QED
  BY <1>1, <1>2, InitInv, PTL DEF Spec

(* No client is moved to another slot while it stays connected, although   *)
(* slots are vacated, reused and cut off around it.                        *)
THEOREM ClientsKeepTheirSlots == Spec => SlotsAreStable
<1>1. Inv /\ [Next]_vars => Inv'
  BY NextInv
<1>2. Inv /\ [Next]_vars => [Stays]_vars
  BY NextInv
<1> QED
  BY <1>1, <1>2, InitInv, PTL DEF Spec, SlotsAreStable, Stays

-----------------------------------------------------------------------------
(* The number of slots                                                     *)

(* If all slots are occupied and an address has none, there are fewer      *)
(* slots than addresses: the slots hold different addresses.               *)
LEMMA FullSlots ==
    ASSUME Inv, Occupied = DOMAIN clients, NEW a \in Addr, a \notin Connected
    PROVE  Len(clients) + 1 <= Cardinality(Addr)
<1> DEFINE n == Len(clients)
           T == Addr \ {a}
           f == [i \in 1..n |-> clients[i].addr]
<1>1. clients \in Seq(Slot) /\ DOMAIN clients = 1..n /\ n \in Nat
  BY DEF Inv, TypeOK
<1>2. \A i \in 1..n : clients[i].addr \in T
  <2>1. Connected \subseteq Addr
    BY <1>1, ConnectedAddr
  <2> QED
    BY <1>1, <2>1 DEF Connected
<1>3. \A i, j \in 1..n : clients[i].addr = clients[j].addr => i = j
  BY <1>1 DEF Inv, OneHome
<1>4. f \in Injection(1..n, T)
  BY <1>2, <1>3 DEF Injection, IsInjective
<1>5. IsFiniteSet(Addr) /\ Cardinality(Addr) \in Nat
  BY AddrAssumption, FS_CardinalityType
<1>6. IsFiniteSet(T) /\ Cardinality(T) = Cardinality(Addr) - 1
  BY <1>5, FS_RemoveElement
<1>7. Cardinality(1..n) <= Cardinality(T)
  <2> HIDE DEF f, T, n
  <2> QED
    BY <1>4, <1>6, FS_Injection
<1>8. Cardinality(1..n) = n
  BY <1>1, FS_Interval
<1> QED
  BY <1>5, <1>6, <1>7, <1>8

(* Slots are added for a new client only, when all others are occupied.    *)
LEMMA LengthNext ==
    ASSUME Inv, SlotsAreReused, [Next]_vars
    PROVE  SlotsAreReused'
<1>1. Inv'
  BY NextInv
<1>2. /\ clients \in Seq(Slot) /\ DOMAIN clients = 1..Len(clients) /\ Len(clients) \in Nat
      /\ clients' \in Seq(Slot) /\ DOMAIN clients' = 1..Len(clients') /\ Len(clients') \in Nat
      /\ Cardinality(Addr) \in Nat
  BY <1>1, AddrAssumption, FS_CardinalityType DEF Inv, TypeOK
<1>3. CASE DOMAIN clients' \subseteq DOMAIN clients
  <2>1. Len(clients') <= Len(clients)
    BY <1>2, <1>3
  <2> QED
    BY <1>2, <2>1 DEF SlotsAreReused
<1>4. ASSUME NEW a \in Addr, NEW result \in SendResults, HandleConnectAccept(a, result)
      PROVE  SlotsAreReused'
  <2>1. clients' = PutClient(a) /\ a \notin Connected
    BY <1>4 DEF HandleConnectAccept
  <2>2. Len(clients') = IF FreeSlot \in DOMAIN clients THEN Len(clients) ELSE Len(clients) + 1
    BY <1>2, <2>1, PutClientType
  <2>3. FreeSlot \notin DOMAIN clients => Len(clients) + 1 <= Cardinality(Addr)
    BY <1>2, <2>1, FreeSlotFound, FullSlots
  <2> QED
    BY <2>2, <2>3 DEF SlotsAreReused
<1>5. ASSUME NEW failed \in SUBSET Connected, NEW settled \in SUBSET Connected,
             UpdateBuffers(failed, settled)
      PROVE  DOMAIN clients' \subseteq DOMAIN clients
  BY <1>5, UpdateBuffersSlots
<1>6. ASSUME NEW a, Disconnect(a)
      PROVE  DOMAIN clients' \subseteq DOMAIN clients
  BY <1>6 DEF Disconnect, Vacated
<1>7. (\E a \in Addr, result \in SendResults : HandleQuery(a, result))
        => DOMAIN clients' \subseteq DOMAIN clients
  BY <1>6 DEF HandleQuery
<1>8. (\E a \in Addr : HandleConnectAgain(a) \/ HandleDisconnect(a))
        => DOMAIN clients' \subseteq DOMAIN clients
  BY <1>6 DEF HandleConnectAgain, HandleDisconnect
<1>9. (\E a \in Addr, again \in BOOLEAN : HandlePong(a, again))
        => DOMAIN clients' \subseteq DOMAIN clients
  BY DEF HandlePong
<1>10. (\E result \in [Connected -> SendResults] : SendPings(result))
         => DOMAIN clients' \subseteq DOMAIN clients
  BY DEF SendPings
<1>11. Tick => DOMAIN clients' \subseteq DOMAIN clients
  BY DEF Tick
<1>12. UNCHANGED clients => DOMAIN clients' \subseteq DOMAIN clients
  OBVIOUS
<1>13. (UNCHANGED vars \/ UnlistenAll \/ NoMorePackets) => UNCHANGED clients
  BY DEF vars, UnlistenAll, NoMorePackets
<1>14. (\E a \in Addr : Unlisten(a) \/ AnswerPing(a) \/ LosePing(a) \/ LosePong(a))
         => UNCHANGED clients
  BY DEF Unlisten, AnswerPing, LosePing, LosePong
<1>15. (\E a \in Addr, result \in SendResults :
          \/ SendUser(a, result)
          \/ HandleVersionRequest(a, result)
          \/ HandleConnectReject(a, result)) => UNCHANGED clients
  BY DEF SendUser, HandleVersionRequest, HandleConnectReject
<1> QED
  BY <1>3, <1>4, <1>5, <1>7, <1>8, <1>9, <1>10, <1>11, <1>12, <1>13, <1>14, <1>15 DEF Next

(* There are never more slots than addresses.                              *)
THEOREM SlotsAreBounded == Spec => []SlotsAreReused
<1>1. Init => SlotsAreReused
  <2> SUFFICES ASSUME Init PROVE SlotsAreReused
    OBVIOUS
  <2>1. Len(clients) = 0
    BY DEF Init
  <2>2. Cardinality(Addr) \in Nat
    BY AddrAssumption, FS_CardinalityType
  <2> QED
    BY <2>1, <2>2 DEF SlotsAreReused
<1>2. Inv /\ [Next]_vars => Inv'
  BY NextInv
<1>3. Inv /\ SlotsAreReused /\ [Next]_vars => SlotsAreReused'
  BY LengthNext
<1> QED
  BY <1>1, <1>2, <1>3, InitInv, PTL DEF Spec

-----------------------------------------------------------------------------
(* Timeouts                                                                *)

(* The counters of a client c, to whom u pings were sent in a row without  *)
(* a valid pong: all but an active one were counted as missed.             *)
CountedRight(c, u) ==
    /\ c.missed_pongs <= MaxMissedPongs
    /\ c.last_pong => c.active_ping # None /\ c.missed_pongs = 0
    /\ u = c.missed_pongs + (IF c.active_ping # None /\ ~c.last_pong THEN 1 ELSE 0)

Counts ==
    MaxMissedPongs # None =>
        \A i \in Occupied : CountedRight(clients[i], unanswered[clients[i].addr])

(* Timeouts are reported at the end of an update. *)
Reported == phase # "idle" => timedOut = {}

CInv == Inv /\ Counts /\ Reported /\ TimeoutIsEarned

(* The slots that stay occupied are left alone, and no pings are counted.  *)
LEMMA CountsKept ==
    ASSUME Counts, unanswered' = unanswered,
           \A i \in Occupied' : i \in Occupied /\ clients'[i] = clients[i]
    PROVE  Counts'
  BY DEF Counts

(* No pings are counted, and no timeouts are reported or withdrawn.        *)
LEMMA EarnedKept ==
    ASSUME Reported, TimeoutIsEarned, unanswered' = unanswered,
           timedOut' = timedOut, phase' # "idle" => phase # "idle"
    PROVE  Reported' /\ TimeoutIsEarned'
  BY DEF Reported, TimeoutIsEarned

(* Nothing is reported, and nothing was.                                   *)
LEMMA EarnedTrivially ==
    ASSUME timedOut' = {}
    PROVE  Reported' /\ TimeoutIsEarned'
  BY DEF Reported, TimeoutIsEarned

(* Vacating slots keeps the counters of the others.                        *)
LEMMA VacatedCounts ==
    ASSUME CInv, NEW A, clients' = Vacated(A), unanswered' = unanswered
    PROVE  Counts'
<1>1. Vacant.addr = NoOne
  BY NewClientType DEF Vacant
<1>2. \A i \in Occupied' : i \in Occupied /\ clients'[i] = clients[i]
  BY <1>1 DEF Occupied, Vacated
<1> QED
  BY <1>2, CountsKept DEF CInv

(* update_buffers drops clients and keeps the counters of the others.      *)
LEMMA UpdateBuffersCounts ==
    ASSUME CInv, NEW failed \in SUBSET Connected, NEW settled \in SUBSET Connected,
           UpdateBuffers(failed, settled)
    PROVE  Counts' /\ Reported' /\ TimeoutIsEarned'
<1> DEFINE all == Vacated(failed)
           len == Max(Occupied \cup {0})
<1>1. clients \in Seq(Slot) /\ DOMAIN clients = 1..Len(clients) /\ Len(clients) \in Nat
  BY DEF CInv, Inv, TypeOK
<1>2. /\ all \in Seq(Slot) /\ Len(all) = Len(clients)
      /\ \A i \in DOMAIN clients :
           all[i] = IF clients[i].addr \in failed THEN Vacant ELSE clients[i]
  BY <1>1, VacatedType
<1>3. DOMAIN clients' \subseteq DOMAIN clients
  BY UpdateBuffersSlots DEF CInv
<1>4. clients' = SubSeq(all, 1, len)
  BY DEF UpdateBuffers, Remaining
<1>5. len \in Nat /\ len <= Len(all)
  <2>1. Occupied \cup {0} \in SUBSET Nat /\ \A i \in Occupied \cup {0} : i <= Len(clients)
    BY <1>1 DEF Occupied
  <2>2. len \in Occupied \cup {0}
    BY <1>1, <2>1, MaxFound
  <2> QED
    BY <1>2, <2>1, <2>2
<1> HIDE DEF all, len
<1>6. DOMAIN clients' = 1..len /\ \A i \in 1..len : clients'[i] = all[i]
  BY <1>2, <1>4, <1>5
<1>7. Vacant.addr = NoOne
  BY NewClientType DEF Vacant
<1>8. \A i \in Occupied' : i \in Occupied /\ clients'[i] = clients[i]
  BY <1>2, <1>3, <1>6, <1>7 DEF Occupied
<1>9. Counts'
  BY <1>8, CountsKept DEF CInv, UpdateBuffers
<1> QED
  BY <1>9, EarnedTrivially DEF UpdateBuffers

(* A valid pong resets the counters of its client, and only of that one.   *)
LEMMA HandlePongCounts ==
    ASSUME CInv, NEW a \in Addr, NEW again \in BOOLEAN, HandlePong(a, again)
    PROVE  Counts' /\ Reported' /\ TimeoutIsEarned'
<1> DEFINE i == SlotOf(a)
<1>1. TypeOK /\ OneHome /\ clients \in Seq(Slot) /\ Counts /\ unanswered \in [Addr -> 0..(MissedPongsMax + 1)]
  BY DEF CInv, Inv, TypeOK
<1>2. timedOut' = {} /\ pongs[a] # None
  BY DEF HandlePong, CInv, Reported
<1>3. CASE a \in Connected /\ clients[i].active_ping = pongs[a]
  <2>1. /\ clients' = [clients EXCEPT ![i] = Answered(clients[i])]
        /\ unanswered' = [unanswered EXCEPT ![a] = 0]
    BY <1>3 DEF HandlePong
  <2>2. i \in Occupied /\ clients[i].addr = a /\ i \in DOMAIN clients
    BY <1>3, SlotOfFound DEF Occupied
  <2>3. /\ Answered(clients[i]).addr = a /\ Answered(clients[i]).active_ping # None
        /\ Answered(clients[i]).last_pong = TRUE /\ Answered(clients[i]).missed_pongs = 0
    <3>1. clients[i] \in Slot
      BY <1>1, <2>2
    <3> QED
      BY <1>2, <1>3, <2>2, <3>1 DEF Answered, Slot
  <2> HIDE DEF i
  <2>4. /\ DOMAIN clients' = DOMAIN clients /\ clients'[i] = Answered(clients[i])
        /\ \A j \in DOMAIN clients : j # i => clients'[j] = clients[j]
    BY <2>1, <2>2
  <2>5. Occupied' = Occupied
    BY <2>2, <2>3, <2>4 DEF Occupied
  <2>6. ASSUME MaxMissedPongs # None, NEW j \in Occupied
        PROVE  CountedRight(clients'[j], unanswered'[clients'[j].addr])
    <3>1. CASE j = i
      <4>1. clients'[j] = Answered(clients[i]) /\ clients'[j].addr = a
        BY <2>3, <2>4, <3>1
      <4>2. unanswered'[a] = 0
        BY <1>1, <2>1
      <4>3. MaxMissedPongs \in Nat
        BY <2>6, PingAssumption
      <4> QED
        BY <2>3, <4>1, <4>2, <4>3 DEF CountedRight
    <3>2. CASE j # i
      <4>1. j \in DOMAIN clients /\ clients'[j] = clients[j]
        BY <2>4, <3>2 DEF Occupied
      <4>2. clients[j].addr # a
        BY <1>1, <2>2, <3>2 DEF OneHome
      <4>3. clients[j].addr \in Addr
        <5>1. clients[j] \in Slot
          BY <1>1, <4>1
        <5> QED
          BY <5>1 DEF Slot, Occupied
      <4>4. unanswered'[clients[j].addr] = unanswered[clients[j].addr]
        BY <1>1, <2>1, <4>2, <4>3
      <4> QED
        BY <1>1, <2>6, <4>1, <4>4 DEF Counts
    <3> QED
      BY <3>1, <3>2
  <2>7. Counts'
    BY <2>5, <2>6 DEF Counts
  <2> QED
    BY <1>2, <2>7, EarnedTrivially
<1>4. CASE ~(a \in Connected /\ clients[i].active_ping = pongs[a])
  <2>1. clients' = clients /\ unanswered' = unanswered
    BY <1>4 DEF HandlePong
  <2>2. Counts'
    BY <1>1, <2>1 DEF Counts, Occupied
  <2> QED
    BY <1>2, <2>2, EarnedTrivially
<1> QED
  BY <1>3, <1>4

(* A new client starts with nothing to answer for.                         *)
LEMMA AcceptCounts ==
    ASSUME CInv, NEW a \in Addr, NEW result \in SendResults, HandleConnectAccept(a, result)
    PROVE  Counts' /\ Reported' /\ TimeoutIsEarned'
<1>1. /\ TypeOK /\ clients \in Seq(Slot) /\ Counts /\ a \notin Connected
      /\ unanswered \in [Addr -> 0..(MissedPongsMax + 1)]
  BY DEF CInv, Inv, TypeOK, HandleConnectAccept
<1>2. clients' = PutClient(a) /\ unanswered' = [unanswered EXCEPT ![a] = 0]
  BY DEF HandleConnectAccept
<1>3. timedOut' = {}
  BY DEF HandleConnectAccept, CInv, Reported
<1>4. /\ DOMAIN clients' = DOMAIN clients \cup {FreeSlot} /\ clients'[FreeSlot] = NewClient(a)
      /\ \A i \in DOMAIN clients : i # FreeSlot => clients'[i] = clients[i]
  BY <1>1, <1>2, PutClientType
<1>5. ASSUME MaxMissedPongs # None, NEW i \in Occupied'
      PROVE  CountedRight(clients'[i], unanswered'[clients'[i].addr])
  <2>1. CASE i = FreeSlot
    <3>1. unanswered'[a] = 0 /\ clients'[i] = NewClient(a) /\ MaxMissedPongs \in Nat
      BY <1>1, <1>2, <1>4, <1>5, <2>1, PingAssumption
    <3> QED
      BY <3>1 DEF CountedRight, NewClient
  <2>2. CASE i # FreeSlot
    <3>1. i \in Occupied /\ clients'[i] = clients[i] /\ i \in DOMAIN clients
      BY <1>4, <2>2 DEF Occupied
    <3>2. clients[i].addr # a /\ clients[i].addr \in Addr
      BY <1>1, <3>1, ConnectedAddr DEF Connected
    <3>3. unanswered'[clients[i].addr] = unanswered[clients[i].addr]
      BY <1>1, <1>2, <3>2
    <3> QED
      BY <1>1, <1>5, <3>1, <3>3 DEF Counts
  <2> QED
    BY <2>1, <2>2
<1>6. Counts'
  BY <1>5 DEF Counts
<1> QED
  BY <1>3, <1>6, EarnedTrivially

(* Time does not count.                                                    *)
LEMMA TickCounts ==
    ASSUME CInv, Tick
    PROVE  Counts' /\ Reported' /\ TimeoutIsEarned'
<1>1. clients \in Seq(Slot) /\ Counts
  BY DEF CInv, Inv, TypeOK
<1>2. ASSUME NEW i \in DOMAIN clients
      PROVE  /\ clients'[i].addr = clients[i].addr /\ clients'[i].active_ping = clients[i].active_ping
             /\ clients'[i].last_pong = clients[i].last_pong
             /\ clients'[i].missed_pongs = clients[i].missed_pongs
  <2>1. clients[i] \in Slot
    BY <1>1
  <2>2. clients'[i] = clients[i] \/ clients'[i] = [clients[i] EXCEPT !.ping_age = clients[i].ping_age + 1]
    BY <2>1 DEF Tick, Slot
  <2> QED
    BY <2>1, <2>2 DEF Slot
<1>3. DOMAIN clients' = DOMAIN clients
  BY DEF Tick
<1>4. Occupied' = Occupied
  BY <1>2, <1>3, SameSlots
<1>5. unanswered' = unanswered /\ timedOut' = timedOut /\ phase' = phase
  BY DEF Tick
<1>6. ASSUME MaxMissedPongs # None, NEW i \in Occupied
      PROVE  CountedRight(clients'[i], unanswered'[clients'[i].addr])
  <2>1. CountedRight(clients[i], unanswered[clients[i].addr]) /\ i \in DOMAIN clients
    BY <1>1, <1>6 DEF Counts, Occupied
  <2> QED
    BY <1>2, <1>5, <2>1 DEF CountedRight
<1>7. Counts'
  BY <1>4, <1>6 DEF Counts
<1> QED
  BY <1>5, <1>7, EarnedKept DEF CInv

(* A ping that is taken is counted unless it was answered.                 *)
LEMMA CountedFacts ==
    ASSUME MaxMissedPongs # None, NEW c \in Slot, NEW u, CountedRight(c, u), PingDue(c)
    PROVE  /\ Counted(c).active_ping = None /\ Counted(c).last_pong = FALSE
           /\ Counted(c).missed_pongs = u /\ u \in Nat
           /\ ~TimesOut(c) => u <= MaxMissedPongs
           /\ TimesOut(c) => u = MaxMissedPongs + 1
<1> DEFINE missed == c.active_ping # None /\ ~c.last_pong
           n == IF missed THEN Min({c.missed_pongs + 1, MissedPongsMax}) ELSE c.missed_pongs
<1>1. /\ MaxMissedPongs \in Nat /\ MissedPongsMax \in Nat /\ MaxMissedPongs < MissedPongsMax
      /\ c.missed_pongs \in Nat
  BY PingAssumption DEF Slot
<1>2. /\ c.missed_pongs <= MaxMissedPongs
      /\ u = c.missed_pongs + (IF missed THEN 1 ELSE 0)
  BY DEF CountedRight
<1>3. Min({c.missed_pongs + 1, MissedPongsMax}) = c.missed_pongs + 1
  BY <1>1, <1>2, MinOfTwo
<1>4. n = u /\ u \in Nat
  BY <1>1, <1>2, <1>3
<1>5. /\ Counted(c).active_ping = None /\ Counted(c).last_pong = FALSE
      /\ Counted(c).missed_pongs = n
  <2>1. Counted(c) = [c EXCEPT !.active_ping = None, !.ping_age = 0, !.last_pong = FALSE,
                               !.missed_pongs = n]
    BY DEF Counted, Slot
  <2> HIDE DEF n
  <2> QED
    BY <2>1 DEF Slot
<1>6. TimesOut(c) <=> missed /\ u > MaxMissedPongs
  BY <1>4, <1>5 DEF TimesOut
<1> HIDE DEF n, missed
<1>7. ~missed => u <= MaxMissedPongs
  BY <1>1, <1>2
<1>8. missed => u <= MaxMissedPongs + 1
  BY <1>1, <1>2
<1> QED
  BY <1>1, <1>4, <1>5, <1>6, <1>7, <1>8

(* send_pings counts what it sends, and times out those who missed one     *)
(* ping more than they may.                                                *)
LEMMA SendPingsCounts ==
    ASSUME CInv, NEW result \in [Connected -> SendResults], SendPings(result)
    PROVE  Counts' /\ Reported' /\ TimeoutIsEarned'
<1> DEFINE Sent(c) == result[c.addr] = "sent" /\ PingDue(c) /\ ~TimesOut(c)
<1>1. /\ TypeOK /\ OneHome /\ clients \in Seq(Slot) /\ Counts /\ phase' = "idle"
      /\ unanswered \in [Addr -> 0..(MissedPongsMax + 1)]
  BY DEF CInv, Inv, TypeOK, SendPings
<1>2. clients' = [i \in DOMAIN clients |->
                    IF clients[i].addr = NoOne THEN clients[i]
                    ELSE Pinged(clients[i], result[clients[i].addr])]
  BY DEF SendPings
<1>3. \A i \in Occupied : i \in DOMAIN clients /\ clients[i] \in Slot /\ clients[i].addr \in Addr
  <2>1. \A i \in DOMAIN clients : clients[i] \in Slot
    BY <1>1
  <2> QED
    BY <2>1 DEF Occupied, Slot
<1>4. ASSUME NEW i \in Occupied
      PROVE  unanswered'[clients[i].addr]
               = IF Sent(clients[i]) THEN Min({unanswered[clients[i].addr] + 1, MissedPongsMax + 1})
                                     ELSE unanswered[clients[i].addr]
  <2> DEFINE a == clients[i].addr
             SentTo == \E j \in Occupied :
                          /\ clients[j].addr = a /\ result[a] = "sent"
                          /\ PingDue(clients[j]) /\ ~TimesOut(clients[j])
  <2>1. unanswered'[a] = IF SentTo THEN Min({unanswered[a] + 1, MissedPongsMax + 1}) ELSE unanswered[a]
    BY <1>3 DEF SendPings
  <2>2. SentTo <=> Sent(clients[i])
    BY <1>1 DEF OneHome
  <2> QED
    BY <2>1, <2>2
<1>5. ASSUME MaxMissedPongs # None, NEW i \in Occupied
      PROVE  /\ TimesOut(clients[i]) => unanswered'[clients[i].addr] = MaxMissedPongs + 1
             /\ i \in Occupied' =>
                  CountedRight(clients'[i], unanswered'[clients'[i].addr])
  <2> DEFINE c == clients[i]
             u == unanswered[c.addr]
             v == unanswered'[c.addr]
  <2>1. c \in Slot /\ c.addr \in Addr /\ i \in DOMAIN clients /\ c.addr # NoOne
    BY <1>3 DEF Occupied
  <2>2. CountedRight(c, u)
    BY <1>1, <1>5 DEF Counts
  <2>3. v = IF Sent(c) THEN Min({u + 1, MissedPongsMax + 1}) ELSE u
    BY <1>4
  <2>4. clients'[i] = Pinged(c, result[c.addr])
    BY <1>2, <2>1
  <2>5. MaxMissedPongs \in Nat /\ MissedPongsMax \in Nat /\ MaxMissedPongs < MissedPongsMax
    BY <1>5, PingAssumption
  <2>6. Vacant.addr = NoOne
    BY NewClientType DEF Vacant
  <2>7. i \in Occupied' => clients'[i].addr = c.addr /\ clients'[i] # Vacant
    <3>1. Pinged(c, result[c.addr]).addr \in {c.addr, NoOne}
      BY <2>1, PingedType
    <3> QED
      BY <2>4, <2>6, <3>1 DEF Occupied
  <2> HIDE DEF c, u, v
  <2>8. CASE ~PingDue(c)
    <3>1. clients'[i] = c /\ v = u /\ ~TimesOut(c)
      BY <2>3, <2>4, <2>8 DEF Pinged, TimesOut
    <3> QED
      BY <2>2, <2>7, <3>1 DEF c, v
  <2>9. CASE PingDue(c) /\ TimesOut(c)
    <3>1. clients'[i] = Vacant /\ v = u
      BY <2>3, <2>4, <2>9 DEF Pinged
    <3>2. u = MaxMissedPongs + 1
      BY <1>5, <2>1, <2>2, <2>9, CountedFacts
    <3> QED
      BY <2>7, <3>1, <3>2 DEF c, v
  <2>10. CASE PingDue(c) /\ ~TimesOut(c)
    <3>1. /\ Counted(c).active_ping = None /\ Counted(c).last_pong = FALSE
          /\ Counted(c).missed_pongs = u /\ u \in Nat /\ u <= MaxMissedPongs
      BY <1>5, <2>1, <2>2, <2>10, CountedFacts
    <3>2. CASE result[c.addr] = "sent"
      <4>1. clients'[i] = [Counted(c) EXCEPT !.active_ping = FreshPing(c)]
        BY <2>4, <2>10, <3>2 DEF Pinged
      <4>2. FreshPing(c) # None
        BY FreshPingFound, PingIdAssumption DEF None
      <4>3. Counted(c) \in Slot
        BY <2>1, PingedType
      <4>4. /\ clients'[i].active_ping # None /\ clients'[i].last_pong = FALSE
            /\ clients'[i].missed_pongs = u
        BY <3>1, <4>1, <4>2, <4>3 DEF Slot
      <4>5. Min({u + 1, MissedPongsMax + 1}) = u + 1
        BY <2>5, <3>1, MinOfTwo
      <4>6. v = u + 1
        BY <2>3, <2>10, <3>2, <4>5
      <4>7. CountedRight(clients'[i], v)
        BY <3>1, <4>4, <4>6 DEF CountedRight
      <4> QED
        BY <2>7, <2>10, <4>7 DEF c, v
    <3>3. CASE result[c.addr] # "sent"
      <4>1. clients'[i] = Vacant \/ clients'[i] = Counted(c)
        BY <2>4, <2>10, <3>3 DEF Pinged
      <4>2. v = u
        BY <2>3, <3>3
      <4>3. CountedRight(Counted(c), u)
        BY <3>1 DEF CountedRight
      <4> QED
        BY <2>7, <2>10, <4>1, <4>2, <4>3 DEF c, v
    <3> QED
      BY <3>2, <3>3
  <2> QED
    BY <2>8, <2>9, <2>10
<1>6. \A i \in Occupied' : i \in Occupied
  BY <1>2 DEF Occupied
<1>7. Counts'
  BY <1>5, <1>6 DEF Counts
<1>8. TimeoutIsEarned'
  <2>1. ASSUME NEW a \in timedOut'
        PROVE  unanswered'[a] = MaxMissedPongs + 1
    <3>1. PICK i \in Occupied : TimesOut(clients[i]) /\ clients[i].addr = a
      BY DEF SendPings
    <3>2. MaxMissedPongs # None
      BY <3>1 DEF TimesOut
    <3> QED
      BY <1>5, <3>1, <3>2
  <2> QED
    BY <2>1 DEF TimeoutIsEarned
<1>9. Reported'
  BY <1>1 DEF Reported
<1> QED
  BY <1>7, <1>8, <1>9

(* Every step counts right.                                                *)
LEMMA CountsNext ==
    ASSUME CInv, [Next]_vars
    PROVE  CInv'
<1>1. Inv'
  BY NextInv DEF CInv
<1> DEFINE Goal == Counts' /\ Reported' /\ TimeoutIsEarned'
<1>2. ASSUME UNCHANGED <<clients, unanswered, timedOut>>, phase' # "idle" => phase # "idle"
      PROVE  Goal
  <2>1. Counts'
    BY <1>2 DEF CInv, Counts, Occupied
  <2> QED
    BY <1>2, <2>1, EarnedKept DEF CInv
<1>3. ASSUME NEW a \in Addr, NEW result \in SendResults,
             \/ SendUser(a, result)
             \/ HandleVersionRequest(a, result)
             \/ HandleConnectReject(a, result)
      PROVE  Goal
  <2>1. UNCHANGED <<clients, unanswered, timedOut, phase>>
    BY <1>3 DEF SendUser, HandleVersionRequest, HandleConnectReject
  <2> QED
    BY <1>2, <2>1
<1>4. ASSUME NEW a \in Addr, Unlisten(a) \/ AnswerPing(a) \/ LosePing(a) \/ LosePong(a)
      PROVE  Goal
  <2>1. UNCHANGED <<clients, unanswered, timedOut, phase>>
    BY <1>4 DEF Unlisten, AnswerPing, LosePing, LosePong
  <2> QED
    BY <1>2, <2>1
<1>5. ASSUME UnlistenAll \/ UNCHANGED vars
      PROVE  Goal
  <2>1. UNCHANGED <<clients, unanswered, timedOut, phase>>
    BY <1>5 DEF UnlistenAll, vars
  <2> QED
    BY <1>2, <2>1
<1>6. ASSUME NoMorePackets
      PROVE  Goal
  <2>1. UNCHANGED <<clients, unanswered, timedOut>> /\ phase = "packets"
    BY <1>6 DEF NoMorePackets
  <2> QED
    BY <1>2, <2>1
<1>7. ASSUME NEW a, Disconnect(a), phase = "packets",
             UNCHANGED <<unanswered, timedOut, phase>>
      PROVE  Goal
  <2>1. Counts'
    BY <1>7, VacatedCounts DEF Disconnect
  <2> QED
    BY <1>7, <2>1, EarnedKept DEF CInv
<1>8. ASSUME NEW a \in Addr, NEW result \in SendResults, HandleQuery(a, result)
      PROVE  Goal
  <2>1. CASE a \in Connected /\ result = "error"
    <3>1. Disconnect(a) /\ phase = "packets" /\ UNCHANGED <<unanswered, timedOut, phase>>
      BY <1>8, <2>1 DEF HandleQuery
    <3> QED
      BY <1>7, <3>1
  <2>2. CASE ~(a \in Connected /\ result = "error")
    <3>1. UNCHANGED <<clients, unanswered, timedOut, phase>>
      BY <1>8, <2>2 DEF HandleQuery
    <3> QED
      BY <1>2, <3>1
  <2> QED
    BY <2>1, <2>2
<1>9. ASSUME NEW a \in Addr, HandleConnectAgain(a) \/ HandleDisconnect(a)
      PROVE  Goal
  <2>1. Disconnect(a) /\ phase = "packets" /\ UNCHANGED <<unanswered, timedOut, phase>>
    BY <1>9 DEF HandleConnectAgain, HandleDisconnect
  <2> QED
    BY <1>7, <2>1
<1>10. ASSUME NEW failed \in SUBSET Connected, NEW settled \in SUBSET Connected,
              UpdateBuffers(failed, settled)
       PROVE  Goal
  BY <1>10, UpdateBuffersCounts
<1>11. ASSUME NEW a \in Addr, NEW again \in BOOLEAN, HandlePong(a, again)
       PROVE  Goal
  BY <1>11, HandlePongCounts
<1>12. ASSUME NEW a \in Addr, NEW result \in SendResults, HandleConnectAccept(a, result)
       PROVE  Goal
  BY <1>12, AcceptCounts
<1>13. ASSUME NEW result \in [Connected -> SendResults], SendPings(result)
       PROVE  Goal
  BY <1>13, SendPingsCounts
<1>14. ASSUME Tick
       PROVE  Goal
  BY <1>14, TickCounts
<1> HIDE DEF Goal
<1>15. Goal
  BY <1>3, <1>4, <1>5, <1>6, <1>8, <1>9, <1>10, <1>11, <1>12, <1>13, <1>14 DEF Next
<1> QED
  BY <1>1, <1>15 DEF CInv, Goal

(* Server::send_pings reports a timeout for exactly max_missed_pongs + 1   *)
(* pings in a row that got no valid pong: pings that block, late, lost and *)
(* repeated pongs, and clients that leave and come back, never make it one *)
(* more or one less.                                                       *)
THEOREM TimeoutsAreEarned == Spec => []TimeoutIsEarned
<1>1. Init => CInv
  <2> SUFFICES ASSUME Init PROVE CInv
    OBVIOUS
  <2>1. Occupied = {} /\ timedOut = {} /\ phase = "idle"
    BY DEF Init, Occupied
  <2> QED
    BY <2>1, InitInv DEF CInv, Counts, Reported, TimeoutIsEarned
<1>2. CInv /\ [Next]_vars => CInv'
  BY CountsNext
<1>3. CInv => TimeoutIsEarned
  BY DEF CInv
<1> QED
  BY <1>1, <1>2, <1>3, PTL DEF Spec

=============================================================================
