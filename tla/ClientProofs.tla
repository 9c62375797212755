----------------------------- MODULE ClientProofs -----------------------------
(***************************************************************************)
(* Proofs about the Client, for every set of servers, every delay, every   *)
(* timeout and every way in which sends may fail.                          *)
(***************************************************************************)
EXTENDS Client, LibraryFacts, TLAPS

-----------------------------------------------------------------------------
(* Taking elements out of the list                                         *)

(* Vec::swap_remove puts the last element into the gap.                    *)
LEMMA SwapRemoveFacts ==
    ASSUME NEW S, NEW s \in Seq(S), NEW i \in DOMAIN s
    PROVE  /\ SwapRemove(s, i) \in Seq(S) /\ Len(SwapRemove(s, i)) = Len(s) - 1
           /\ \A j \in 1..(Len(s) - 1) : SwapRemove(s, i)[j] = IF j = i THEN s[Len(s)] ELSE s[j]
<1>1. i \in 1..Len(s) /\ Len(s) \in Nat /\ Len(s) - 1 \in Nat
  OBVIOUS
<1>2. \A j \in 1..Len(s) : s[j] \in S
  OBVIOUS
<1>3. \A j \in 1..(Len(s) - 1) : (IF j = i THEN s[Len(s)] ELSE s[j]) \in S
  BY <1>1, <1>2
<1>4. SwapRemove(s, i) \in [1..(Len(s) - 1) -> S]
  BY <1>3 DEF SwapRemove
<1> QED
  BY <1>1, <1>4 DEF SwapRemove

-----------------------------------------------------------------------------
(* The inductive invariant                                                 *)

(* "Should never contain duplicate server addresses". *)
Distinct == \A i, j \in DOMAIN listeners : listeners[i].addr = listeners[j].addr => i = j

(* Packets wait in the buffers of compatible listeners. *)
Buffered ==
    \A a \in pending : \E i \in DOMAIN listeners :
        listeners[i].addr = a /\ listeners[i].state = "Compatible"

(* The listener of the connection is first, and the update has passed it   *)
(* when it is at the others: one that fails or times out later is another. *)
ConnectionPassed ==
    state \in {"Connected", "Disconnecting"} /\ ~refreshed =>
        /\ listeners # <<>> /\ listeners[1].state = "Compatible"
        /\ phase = "rest" => cursor > 1

(* Only the first listener may end the connection by failing. *)
FirstVisit == phase = "first" => cursor = 1

IInv == TypeOK /\ Distinct /\ Buffered /\ ConnectionPassed /\ FirstVisit

(* The sequence of listeners.                                              *)
LEMMA ListenersType ==
    ASSUME TypeOK
    PROVE  /\ listeners \in Seq(Listener)
           /\ DOMAIN listeners = 1..Len(listeners) /\ Len(listeners) \in Nat
           /\ \A i \in DOMAIN listeners :
                /\ listeners[i] \in Listener /\ listeners[i].addr \in Servers
                /\ listeners[i].state \in {"PendingVersion", "Compatible", "Incompatible"}
                /\ listeners[i].age \in Nat \cup {None}
<1>1. /\ listeners \in Seq(Listener)
      /\ DOMAIN listeners = 1..Len(listeners) /\ Len(listeners) \in Nat
      /\ \A i \in DOMAIN listeners : listeners[i] \in Listener
  BY DEF TypeOK
<1> QED
  BY <1>1 DEF Listener

(* Without duplicates there is one listener to find.                       *)
LEMMA IndexFound ==
    ASSUME TypeOK, Distinct, NEW a \in Known
    PROVE  /\ IndexOf(a) \in DOMAIN listeners /\ listeners[IndexOf(a)].addr = a
           /\ \A i \in DOMAIN listeners : listeners[i].addr = a => i = IndexOf(a)
<1>1. PICK i \in DOMAIN listeners : listeners[i].addr = a
  BY DEF Known
<1>2. \A j \in 1..(i - 1) : j \in DOMAIN listeners /\ j # i
  BY <1>1, ListenersType
<1>3. \A j \in 1..(i - 1) : listeners[j].addr # a
  BY <1>1, <1>2 DEF Distinct
<1>4. IndexOf(a) \in DOMAIN listeners /\ listeners[IndexOf(a)].addr = a
  BY <1>1, <1>3 DEF IndexOf
<1> QED
  BY <1>4 DEF Distinct

(* The state of the listener for an address.                               *)
LEMMA StateFound ==
    ASSUME TypeOK, Distinct, NEW a, NEW s
    PROVE  HasState(a, s) <=>
             \E i \in DOMAIN listeners : listeners[i].addr = a /\ listeners[i].state = s
<1>1. ASSUME HasState(a, s)
      PROVE  \E i \in DOMAIN listeners : listeners[i].addr = a /\ listeners[i].state = s
  BY <1>1, IndexFound DEF HasState
<1>2. ASSUME NEW i \in DOMAIN listeners, listeners[i].addr = a, listeners[i].state = s
      PROVE  HasState(a, s)
  <2>1. a \in Known
    BY <1>2 DEF Known
  <2>2. IndexOf(a) = i
    BY <1>2, <2>1, IndexFound
  <2> QED
    BY <1>2, <2>1, <2>2 DEF HasState
<1> QED
  BY <1>1, <1>2

-----------------------------------------------------------------------------
(* The ways in which the list of listeners changes                         *)

(* A server that is removed takes its buffers with it, and the others keep *)
(* theirs.                                                                 *)
LEMMA Removed ==
    ASSUME TypeOK, Distinct, Buffered, NEW i \in DOMAIN listeners,
           listeners' = RemoveAt(listeners, i) \/ listeners' = SwapRemove(listeners, i),
           pending' = pending \ {listeners[i].addr}
    PROVE  /\ listeners' \in Seq(Listener) /\ pending' \subseteq Servers
           /\ Distinct' /\ Buffered'
           /\ i # 1 => listeners' # <<>> /\ listeners'[1] = listeners[1]
<1> DEFINE n == Len(listeners)
<1>1. /\ listeners \in Seq(Listener) /\ DOMAIN listeners = 1..n /\ n \in Nat /\ i \in 1..n
  BY ListenersType
<1>2. listeners' \in Seq(Listener) /\ Len(listeners') = n - 1
  <2>1. CASE listeners' = RemoveAt(listeners, i)
    BY <1>1, <2>1, RemoveAtFacts
  <2>2. CASE listeners' = SwapRemove(listeners, i)
    BY <1>1, <2>2, SwapRemoveFacts
  <2> QED
    BY <2>1, <2>2
<1>3. PICK from \in [1..(n - 1) -> 1..n] :
        /\ \A j \in 1..(n - 1) : listeners'[j] = listeners[from[j]] /\ from[j] # i
        /\ \A j, k \in 1..(n - 1) : from[j] = from[k] => j = k
        /\ \A k \in (1..n) \ {i} : \E j \in 1..(n - 1) : from[j] = k
        /\ i # 1 => from[1] = 1
  <2>1. CASE listeners' = RemoveAt(listeners, i)
    <3> DEFINE from == [j \in 1..(n - 1) |-> IF j < i THEN j ELSE j + 1]
    <3>1. \A j \in 1..(n - 1) : listeners'[j] = IF j < i THEN listeners[j] ELSE listeners[j + 1]
      BY <1>1, <2>1, RemoveAtFacts
    <3>2. from \in [1..(n - 1) -> 1..n]
      BY <1>1
    <3>3. /\ \A j \in 1..(n - 1) : listeners'[j] = listeners[from[j]] /\ from[j] # i
          /\ \A j, k \in 1..(n - 1) : from[j] = from[k] => j = k
          /\ i # 1 => from[1] = 1
      BY <1>1, <3>1
    <3>4. ASSUME NEW k \in (1..n) \ {i}
          PROVE  \E j \in 1..(n - 1) : from[j] = k
      <4>1. CASE k < i
        BY <1>1, <4>1
      <4>2. CASE k > i
        <5>1. k - 1 \in 1..(n - 1) /\ from[k - 1] = k
          BY <1>1, <4>2
        <5> QED
          BY <5>1
      <4> QED
        BY <1>1, <4>1, <4>2
    <3> HIDE DEF from
    <3> QED
      BY <3>2, <3>3, <3>4
  <2>2. CASE listeners' = SwapRemove(listeners, i)
    <3> DEFINE from == [j \in 1..(n - 1) |-> IF j = i THEN n ELSE j]
    <3>1. \A j \in 1..(n - 1) : listeners'[j] = IF j = i THEN listeners[n] ELSE listeners[j]
      BY <1>1, <2>2, SwapRemoveFacts
    <3>2. from \in [1..(n - 1) -> 1..n]
      BY <1>1
    <3>3. /\ \A j \in 1..(n - 1) : listeners'[j] = listeners[from[j]] /\ from[j] # i
          /\ \A j, k \in 1..(n - 1) : from[j] = from[k] => j = k
          /\ i # 1 => from[1] = 1
      BY <1>1, <3>1
    <3>4. ASSUME NEW k \in (1..n) \ {i}
          PROVE  \E j \in 1..(n - 1) : from[j] = k
      <4>1. CASE k = n
        <5>1. i \in 1..(n - 1) /\ from[i] = k
          BY <1>1, <4>1
        <5> QED
          BY <5>1
      <4>2. CASE k # n
        <5> HIDE DEF n, from
        <5>1. k \in 1..(n - 1)
          BY <1>1, <4>2
        <5>2. k # i
          OBVIOUS
        <5> QED
          BY <5>1, <5>2 DEF from
      <4> QED
        BY <4>1, <4>2
    <3> HIDE DEF from
    <3> QED
      BY <3>2, <3>3, <3>4
  <2> QED
    BY <2>1, <2>2
<1>4. DOMAIN listeners' = 1..(n - 1)
  BY <1>2
<1> HIDE DEF n
<1>5. Distinct'
  <2> SUFFICES ASSUME NEW j \in DOMAIN listeners', NEW k \in DOMAIN listeners',
                      listeners'[j].addr = listeners'[k].addr
               PROVE  j = k
    BY Zenon DEF Distinct
  <2>1. listeners[from[j]].addr = listeners[from[k]].addr
        /\ from[j] \in DOMAIN listeners /\ from[k] \in DOMAIN listeners
    BY <1>1, <1>3, <1>4
  <2> QED
    BY <1>3, <1>4, <2>1 DEF Distinct
<1>6. Buffered'
  <2> SUFFICES ASSUME NEW a \in pending'
               PROVE  \E j \in DOMAIN listeners' :
                        listeners'[j].addr = a /\ listeners'[j].state = "Compatible"
    BY Zenon DEF Buffered
  <2>1. PICK k \in DOMAIN listeners : listeners[k].addr = a /\ listeners[k].state = "Compatible"
    BY DEF Buffered
  <2>2. k # i
    BY <2>1
  <2>3. PICK j \in 1..(n - 1) : from[j] = k
    BY <1>1, <1>3, <2>1, <2>2
  <2> QED
    BY <1>3, <1>4, <2>1, <2>3
<1>7. i # 1 => listeners' # <<>> /\ listeners'[1] = listeners[1]
  <2> SUFFICES ASSUME i # 1 PROVE listeners' # <<>> /\ listeners'[1] = listeners[1]
    OBVIOUS
  <2>1. 1 \in 1..(n - 1)
    BY <1>1
  <2> QED
    BY <1>2, <1>3, <2>1
<1> QED
  BY <1>2, <1>5, <1>6, <1>7 DEF TypeOK

(* Starting to listen leaves the listeners that are there alone.           *)
LEMMA Added ==
    ASSUME TypeOK, Distinct, NEW a \in Servers, NEW result,
           listeners' = WithListener(a, result)
    PROVE  /\ listeners' \in Seq(Listener) /\ Distinct'
           /\ \A i \in DOMAIN listeners : i \in DOMAIN listeners' /\ listeners'[i] = listeners[i]
<1> DEFINE n == Len(listeners)
           l == NewListener(a, result)
<1>1. listeners \in Seq(Listener) /\ DOMAIN listeners = 1..n /\ n \in Nat
  BY ListenersType
<1>2. l \in Listener /\ l.addr = a
  BY DEF NewListener, Listener, None
<1>3. CASE a \in Known \/ result = "error"
  BY <1>1, <1>3 DEF WithListener, Distinct
<1>4. CASE ~(a \in Known \/ result = "error")
  <2> HIDE DEF l
  <2>1. listeners' = Append(listeners, l)
    BY <1>4 DEF WithListener, l
  <2>2. /\ listeners' \in Seq(Listener) /\ DOMAIN listeners' = 1..(n + 1)
        /\ listeners'[n + 1] = l /\ \A i \in 1..n : listeners'[i] = listeners[i]
    BY <1>1, <1>2, <2>1
  <2>3. \A i \in 1..n : listeners[i].addr # a
    BY <1>1, <1>4 DEF Known
  <2>4. \A i \in 1..(n + 1) : i \in 1..n \/ i = n + 1
    BY <1>1
  <2> HIDE DEF n
  <2>5. Distinct'
    <3> SUFFICES ASSUME NEW j \in 1..(n + 1), NEW k \in 1..(n + 1),
                        listeners'[j].addr = listeners'[k].addr
                 PROVE  j = k
      BY <2>2, Zenon DEF Distinct
    <3>1. CASE j \in 1..n /\ k \in 1..n
      BY <1>1, <2>2, <3>1 DEF Distinct
    <3>2. CASE j = n + 1 \/ k = n + 1
      BY <1>2, <2>2, <2>3, <2>4, <3>2
    <3> QED
      BY <2>4, <3>1, <3>2
  <2> QED
    BY <1>1, <2>2, <2>5
<1> QED
  BY <1>3, <1>4

(* Listeners that stay where they are keep the addresses distinct.         *)
LEMMA InPlace ==
    ASSUME Distinct, DOMAIN listeners' = DOMAIN listeners,
           \A i \in DOMAIN listeners : listeners'[i].addr = listeners[i].addr
    PROVE  Distinct'
  BY DEF Distinct

(* Buffers stay with listeners that stay compatible.                       *)
LEMMA StillBuffered ==
    ASSUME Buffered, pending' \subseteq pending,
           \A i \in DOMAIN listeners :
              listeners[i].addr \in pending' /\ listeners[i].state = "Compatible" =>
                 \E j \in DOMAIN listeners' :
                    listeners'[j].addr = listeners[i].addr /\ listeners'[j].state = "Compatible"
    PROVE  Buffered'
<1> SUFFICES ASSUME NEW a \in pending'
             PROVE  \E j \in DOMAIN listeners' :
                      listeners'[j].addr = a /\ listeners'[j].state = "Compatible"
  BY Zenon DEF Buffered
<1>1. PICK i \in DOMAIN listeners : listeners[i].addr = a /\ listeners[i].state = "Compatible"
  BY DEF Buffered
<1> QED
  BY <1>1

-----------------------------------------------------------------------------
(* Every step keeps the invariant                                          *)

(* A client starts without listeners.                                      *)
LEMMA InitInv == Init => IInv
<1> SUFFICES ASSUME Init PROVE IInv
  OBVIOUS
<1>1. TypeOK
  <2>1. refreshed \in BOOLEAN
    BY Zenon DEF Init
  <2> QED
    BY <2>1 DEF Init, TypeOK
<1>2. DOMAIN listeners = {}
  BY DEF Init
<1> QED
  BY <1>1, <1>2 DEF Init, IInv, Distinct, Buffered, ConnectionPassed, FirstVisit

(* A listener is added.                                                    *)
LEMMA ListenInv ==
    ASSUME IInv, NEW a \in Servers, NEW result, Listen(a, result)
    PROVE  IInv'
<1> USE DEF IInv
<1>1. /\ listeners' \in Seq(Listener) /\ Distinct'
      /\ \A i \in DOMAIN listeners : i \in DOMAIN listeners' /\ listeners'[i] = listeners[i]
  BY Added DEF Listen
<1>2. TypeOK' /\ FirstVisit'
  BY <1>1 DEF Listen, TypeOK, FirstVisit
<1>3. Buffered'
  BY <1>1, StillBuffered DEF Listen
<1>4. ConnectionPassed'
  BY <1>1, ListenersType DEF Listen, ConnectionPassed
<1> QED
  BY <1>1, <1>2, <1>3, <1>4

(* A listener is removed, but not that of the connection.                  *)
LEMMA ForgetInv ==
    ASSUME IInv, NEW a \in Servers, Forget(a)
    PROVE  IInv'
<1> USE DEF IInv
<1> DEFINE i == IndexOf(a)
<1>1. /\ i \in DOMAIN listeners /\ listeners[i].addr = a
      /\ i = 1 => state = "Disconnected"
  BY IndexFound DEF Forget, Forgettable
<1>2. /\ listeners' = SwapRemove(listeners, i) /\ pending' = pending \ {a}
      /\ UNCHANGED <<state, phase, cursor, peer, audible, refreshed>>
  BY DEF Forget
<1> HIDE DEF i
<1>3. /\ listeners' \in Seq(Listener) /\ pending' \subseteq Servers /\ Distinct' /\ Buffered'
      /\ i # 1 => listeners' # <<>> /\ listeners'[1] = listeners[1]
  BY <1>1, <1>2, Removed
<1>4. TypeOK' /\ FirstVisit'
  BY <1>2, <1>3 DEF TypeOK, FirstVisit
<1>5. ConnectionPassed'
  BY <1>1, <1>2, <1>3 DEF ConnectionPassed
<1> QED
  BY <1>3, <1>4, <1>5

(* All listeners are removed, but not that of the connection.              *)
LEMMA ForgetAllInv ==
    ASSUME IInv, ForgetAll
    PROVE  IInv'
<1> USE DEF IInv
<1>1. CASE state # "Disconnected" /\ listeners = <<>>
  <2>1. phase' = "panicked" /\ UNCHANGED <<state, listeners, pending, cursor, peer, audible, refreshed>>
    BY <1>1 DEF ForgetAll, session
  <2> QED
    BY <2>1 DEF TypeOK, Distinct, Buffered, ConnectionPassed, FirstVisit
<1>2. CASE state = "Disconnected"
  <2>1. /\ listeners' = <<>> /\ UNCHANGED <<state, phase, cursor, peer, audible, refreshed>>
        /\ pending' = pending \cap {listeners'[i].addr : i \in DOMAIN listeners'}
    BY <1>2 DEF ForgetAll
  <2>2. DOMAIN listeners' = {} /\ pending' = {}
    BY <2>1
  <2> QED
    BY <1>2, <2>1, <2>2 DEF TypeOK, Distinct, Buffered, ConnectionPassed, FirstVisit
<1>3. CASE state # "Disconnected" /\ listeners # <<>>
  <2>1. /\ listeners' = <<listeners[1]>> /\ UNCHANGED <<state, phase, cursor, peer, audible, refreshed>>
        /\ pending' = pending \cap {listeners'[i].addr : i \in DOMAIN listeners'}
    BY <1>3 DEF ForgetAll
  <2>2. 1 \in DOMAIN listeners /\ listeners[1] \in Listener
    BY <1>3, ListenersType
  <2>3. /\ listeners' \in Seq(Listener) /\ listeners' # <<>>
        /\ DOMAIN listeners' = {1} /\ listeners'[1] = listeners[1]
    BY <2>1, <2>2
  <2>4. pending' \subseteq pending /\ \A a \in pending' : a = listeners[1].addr
    BY <2>1, <2>3
  <2>5. Buffered'
    BY <2>2, <2>3, <2>4, StillBuffered DEF Distinct
  <2> QED
    BY <2>1, <2>3, <2>4, <2>5 DEF TypeOK, Distinct, ConnectionPassed, FirstVisit
<1> QED
  BY <1>1, <1>2, <1>3

(* The first n listeners start over.                                       *)
LEMMA RefreshAllInv ==
    ASSUME IInv, NEW n \in 0..Len(listeners), NEW result, RefreshAll(n, result)
    PROVE  IInv'
<1> USE DEF IInv
<1> DEFINE len == Len(listeners)
<1>1. /\ DOMAIN listeners = 1..len /\ len \in Nat
      /\ \A i \in 1..len : listeners[i] \in Listener /\ listeners[i].addr \in Servers
  BY ListenersType
<1>2. /\ listeners' = [i \in 1..len |->
                         IF i <= n THEN NewListener(listeners[i].addr, result[i]) ELSE listeners[i]]
      /\ pending' = pending \ {listeners[i].addr : i \in 1..n}
      /\ UNCHANGED <<state, phase, cursor, peer, audible>>
  BY <1>1 DEF RefreshAll
<1>3. \A a \in Servers : \A r : NewListener(a, r) \in Listener /\ NewListener(a, r).addr = a
  BY DEF NewListener, Listener, None
<1> HIDE DEF len
<1>4. \A i \in 1..len : listeners'[i] \in Listener /\ listeners'[i].addr = listeners[i].addr
  BY <1>1, <1>2, <1>3
<1>5. listeners' \in [1..len -> Listener]
  BY <1>2, <1>4
<1>6. listeners' \in Seq(Listener) /\ DOMAIN listeners' = 1..len
  BY <1>1, <1>5
<1>7. Distinct'
  BY <1>1, <1>4, <1>6, InPlace
<1>8. Buffered'
  <2>1. \A i \in 1..len : listeners[i].addr \in pending' => ~(i <= n)
    BY <1>1, <1>2
  <2>2. \A i \in 1..len : listeners[i].addr \in pending' => listeners'[i] = listeners[i]
    BY <1>2, <2>1
  <2> QED
    BY <1>1, <1>2, <1>6, <2>2, StillBuffered
<1>9. refreshed' = (refreshed \/ (n > 0 /\ state # "Disconnected"))
  BY Zenon DEF RefreshAll
<1>10. refreshed' \in BOOLEAN
  BY <1>9, Zenon DEF TypeOK
<1>11. TypeOK' /\ FirstVisit'
  BY <1>2, <1>6, <1>10 DEF TypeOK, FirstVisit
<1>12. ConnectionPassed'
  <2> SUFFICES ASSUME state' \in {"Connected", "Disconnecting"}, ~refreshed'
               PROVE  /\ listeners' # <<>> /\ listeners'[1].state = "Compatible"
                      /\ phase' = "rest" => cursor' > 1
    BY DEF ConnectionPassed
  <2>1. state # "Disconnected"
    BY <1>2
  <2>2. ~refreshed /\ ~(n > 0)
    BY <1>9, <2>1, Zenon
  <2>3. n = 0
    BY <2>2
  <2>4. listeners # <<>> /\ listeners[1].state = "Compatible" /\ (phase = "rest" => cursor > 1)
    BY <1>2, <2>2 DEF ConnectionPassed
  <2>5. 1 \in 1..len /\ listeners'[1] = listeners[1]
    BY <1>1, <1>2, <2>3, <2>4, ListenersType DEF len
  <2> QED
    BY <1>2, <1>6, <2>4, <2>5
<1> QED
  BY <1>7, <1>8, <1>11, <1>12

(* The packets of a query or a Connect go into the buffers of a compatible *)
(* listener.                                                               *)
LEMMA BufferedToo ==
    ASSUME TypeOK, Distinct, Buffered, NEW a,
           pending' = pending \/ (pending' = pending \cup {a} /\ HasState(a, "Compatible")),
           \A i \in DOMAIN listeners : i \in DOMAIN listeners' /\ listeners'[i] = listeners[i]
    PROVE  Buffered'
<1> SUFFICES ASSUME NEW b \in pending'
             PROVE  \E i \in DOMAIN listeners' :
                      listeners'[i].addr = b /\ listeners'[i].state = "Compatible"
  BY Zenon DEF Buffered
<1>1. \E i \in DOMAIN listeners : listeners[i].addr = b /\ listeners[i].state = "Compatible"
  BY StateFound DEF Buffered
<1> QED
  BY <1>1

(* A query may add a listener or a packet.                                 *)
LEMMA QueryInv ==
    ASSUME IInv, NEW a \in Servers, NEW result, Query(a, result)
    PROVE  IInv'
<1> USE DEF IInv
<1>1. /\ listeners' \in Seq(Listener) /\ Distinct'
      /\ \A i \in DOMAIN listeners : i \in DOMAIN listeners' /\ listeners'[i] = listeners[i]
  BY Added DEF Query
<1>2. pending' = pending \/ (pending' = pending \cup {a} /\ HasState(a, "Compatible"))
  BY DEF Query
<1>3. TypeOK' /\ FirstVisit'
  BY <1>1, <1>2 DEF Query, TypeOK, FirstVisit
<1>4. Buffered'
  BY <1>1, <1>2, BufferedToo
<1>5. ConnectionPassed'
  BY <1>1, ListenersType DEF Query, ConnectionPassed
<1> QED
  BY <1>1, <1>3, <1>4, <1>5

(* So may connect, which a client calls when it is disconnected.           *)
LEMMA ConnectInv ==
    ASSUME IInv, NEW a \in Servers, NEW result, Connect(a, result)
    PROVE  IInv'
<1> USE DEF IInv
<1>1. /\ listeners' \in Seq(Listener) /\ Distinct'
      /\ \A i \in DOMAIN listeners : i \in DOMAIN listeners' /\ listeners'[i] = listeners[i]
  BY Added DEF Connect
<1>2. pending' = pending \/ (pending' = pending \cup {a} /\ HasState(a, "Compatible"))
  BY DEF Connect
<1>3. state' \in {"Disconnected", "Connecting"} /\ UNCHANGED <<phase, cursor>>
  BY DEF Connect
<1>4. TypeOK' /\ FirstVisit'
  BY <1>1, <1>2, <1>3 DEF Connect, TypeOK, FirstVisit
<1>5. Buffered'
  BY <1>1, <1>2, BufferedToo
<1>6. ConnectionPassed'
  BY <1>3 DEF ConnectionPassed
<1> QED
  BY <1>1, <1>4, <1>5, <1>6

(* The session that goes on keeps its history.                             *)
LEMMA HistoryKept ==
    ASSUME TypeOK,
           refreshed' = (refreshed /\ state' # "Disconnected") \/ UNCHANGED refreshed
    PROVE  refreshed' \in BOOLEAN /\ (state' # "Disconnected" => refreshed' = refreshed)
<1>1. refreshed \in BOOLEAN
  BY DEF TypeOK
<1> QED
  BY <1>1, Zenon

(* disconnect and send drop the first listener together with the           *)
(* connection, or leave it where it is.                                    *)
LEMMA SendOnConnectionInv ==
    ASSUME IInv, NEW result, NEW next \in {"Connected", "Disconnecting"},
           SendOnConnection(result, next)
    PROVE  IInv'
<1> USE DEF IInv
<1>0. refreshed' \in BOOLEAN /\ (state' # "Disconnected" => refreshed' = refreshed)
  BY HistoryKept DEF SendOnConnection
<1>1. phase = "idle" /\ UNCHANGED <<cursor, peer, audible>>
  BY DEF SendOnConnection
<1>2. CASE listeners = <<>> \/ listeners[1].state # "Compatible"
  <2>1. phase' = "panicked" /\ UNCHANGED <<state, listeners, pending>>
    BY <1>2 DEF SendOnConnection, session
  <2> QED
    BY <1>0, <1>1, <2>1 DEF TypeOK, Distinct, Buffered, ConnectionPassed, FirstVisit
<1>3. CASE ~(listeners = <<>> \/ listeners[1].state # "Compatible") /\ result = "error"
  <2>1. /\ state' = "Disconnected" /\ listeners' = SwapRemove(listeners, 1)
        /\ pending' = pending \ {listeners[1].addr} /\ UNCHANGED phase
    BY <1>3 DEF SendOnConnection
  <2>2. 1 \in DOMAIN listeners
    BY <1>3, ListenersType
  <2>3. listeners' \in Seq(Listener) /\ pending' \subseteq Servers /\ Distinct' /\ Buffered'
    BY <2>1, <2>2, Removed
  <2> QED
    BY <1>0, <1>1, <2>1, <2>3 DEF TypeOK, ConnectionPassed, FirstVisit
<1>4. CASE ~(listeners = <<>> \/ listeners[1].state # "Compatible") /\ result # "error"
  <2>1. /\ state' = next /\ pending' = pending \cup {listeners[1].addr}
        /\ UNCHANGED <<phase, listeners>>
    BY <1>4 DEF SendOnConnection
  <2>2. 1 \in DOMAIN listeners /\ listeners[1].addr \in Servers
    BY <1>4, ListenersType
  <2>3. HasState(listeners[1].addr, "Compatible")
    BY <1>4, <2>2, StateFound
  <2>4. Buffered'
    BY <2>1, <2>3, BufferedToo
  <2> QED
    BY <1>0, <1>1, <1>4, <2>1, <2>2, <2>4 DEF TypeOK, Distinct, ConnectionPassed, FirstVisit
<1> QED
  BY <1>2, <1>3, <1>4

(* One listener is updated in place.                                       *)
LEMMA Replaced ==
    ASSUME TypeOK, Distinct, NEW i \in DOMAIN listeners, NEW l \in Listener,
           l.addr = listeners[i].addr, listeners' = [listeners EXCEPT ![i] = l]
    PROVE  /\ listeners' \in Seq(Listener) /\ Distinct'
           /\ DOMAIN listeners' = DOMAIN listeners
           /\ listeners # <<>> => listeners' # <<>>
           /\ listeners'[i] = l
           /\ \A j \in DOMAIN listeners : j # i => listeners'[j] = listeners[j]
<1>1. listeners \in Seq(Listener) /\ DOMAIN listeners = 1..Len(listeners)
  BY ListenersType
<1>2. /\ listeners' \in Seq(Listener) /\ DOMAIN listeners' = DOMAIN listeners
      /\ listeners # <<>> => listeners' # <<>>
      /\ \A j \in DOMAIN listeners : listeners'[j] = IF j = i THEN l ELSE listeners[j]
  BY <1>1
<1>3. \A j \in DOMAIN listeners : listeners'[j].addr = listeners[j].addr
  BY <1>2
<1> QED
  BY <1>2, <1>3, InPlace

(* An update begins with the first listener.                               *)
LEMMA StartUpdateInv ==
    ASSUME IInv, StartUpdate
    PROVE  IInv'
  BY DEF IInv, StartUpdate, TypeOK, Distinct, Buffered, ConnectionPassed, FirstVisit

(* A listener that is kept stays where it is.                              *)
LEMMA UpdateListenerInv ==
    ASSUME IInv, NEW result, NEW settled, UpdateListener(result, settled)
    PROVE  IInv'
<1> USE DEF IInv
<1>1. /\ cursor \in DOMAIN listeners /\ cursor' = cursor + 1 /\ phase' = "rest"
      /\ pending' \subseteq pending /\ UNCHANGED <<state, peer, audible, refreshed>>
      /\ listeners' = [listeners EXCEPT ![cursor].age = 0] \/ UNCHANGED listeners
  BY DEF UpdateListener
<1>2. cursor \in Nat \ {0}
  BY DEF TypeOK
<1>3. /\ listeners' \in Seq(Listener) /\ Distinct' /\ DOMAIN listeners' = DOMAIN listeners
      /\ listeners # <<>> => listeners' # <<>>
      /\ \A i \in DOMAIN listeners :
           listeners'[i].addr = listeners[i].addr /\ listeners'[i].state = listeners[i].state
  <2>1. CASE UNCHANGED listeners
    BY <2>1, ListenersType DEF Distinct
  <2>2. CASE listeners' = [listeners EXCEPT ![cursor].age = 0]
    <3> DEFINE l == [listeners[cursor] EXCEPT !.age = 0]
    <3>1. /\ l \in Listener /\ l.addr = listeners[cursor].addr
          /\ l.state = listeners[cursor].state
      BY <1>1, ListenersType DEF Listener
    <3>2. listeners' = [listeners EXCEPT ![cursor] = l]
      BY <2>2
    <3> HIDE DEF l
    <3> QED
      BY <1>1, <3>1, <3>2, Replaced
  <2> QED
    BY <1>1, <2>1, <2>2
<1>4. TypeOK' /\ FirstVisit'
  BY <1>1, <1>2, <1>3 DEF TypeOK, FirstVisit
<1>5. Buffered'
  BY <1>1, <1>3, StillBuffered
<1>6. ConnectionPassed'
  BY <1>1, <1>2, <1>3, ListenersType DEF ConnectionPassed
<1> QED
  BY <1>3, <1>4, <1>5, <1>6

(* A listener that fails is removed, and ends the connection if it was     *)
(* that of the connection.                                                 *)
LEMMA UpdateListenerFailsInv ==
    ASSUME IInv, UpdateListenerFails
    PROVE  IInv'
<1> USE DEF IInv
<1>0. refreshed' \in BOOLEAN /\ (state' # "Disconnected" => refreshed' = refreshed)
  BY HistoryKept DEF UpdateListenerFails
<1>1. /\ phase \in {"first", "rest"} /\ cursor \in DOMAIN listeners /\ phase' = "rest"
      /\ listeners' = RemoveAt(listeners, cursor) /\ cursor' = cursor
      /\ pending' = pending \ {listeners[cursor].addr} /\ UNCHANGED <<peer, audible>>
  BY DEF UpdateListenerFails, Visited, CursorAfterRemoval
<1>2. state' = IF phase = "first" /\ listeners[cursor].state = "Compatible"
               THEN "Disconnected" ELSE state
  BY DEF UpdateListenerFails, StateAfterFailure, Visited
<1>3. /\ listeners' \in Seq(Listener) /\ pending' \subseteq Servers /\ Distinct' /\ Buffered'
      /\ cursor # 1 => listeners' # <<>> /\ listeners'[1] = listeners[1]
  BY <1>1, Removed
<1>4. TypeOK' /\ FirstVisit'
  BY <1>0, <1>1, <1>2, <1>3 DEF TypeOK, FirstVisit
<1>5. ConnectionPassed'
  <2> SUFFICES ASSUME ~refreshed', state' \in {"Connected", "Disconnecting"}
               PROVE  listeners' # <<>> /\ listeners'[1].state = "Compatible" /\ cursor > 1
    BY <1>1 DEF ConnectionPassed
  <2>1. /\ state \in {"Connected", "Disconnecting"} /\ ~refreshed
        /\ ~(phase = "first" /\ listeners[cursor].state = "Compatible")
    BY <1>0, <1>1, <1>2
  <2>2. listeners[1].state = "Compatible" /\ (phase = "rest" => cursor > 1)
    BY <2>1 DEF ConnectionPassed
  <2>3. phase # "first"
    BY <2>1, <2>2 DEF FirstVisit
  <2>4. cursor > 1
    BY <1>1, <2>2, <2>3
  <2> QED
    BY <1>3, <2>2, <2>4
<1> QED
  BY <1>3, <1>4, <1>5

(* The parts of an update follow each other.                               *)
LEMMA PhaseInv ==
    ASSUME IInv,
           StartPackets \/ (\E failed \in BOOLEAN : NoMorePackets(failed)) \/ FinishUpdate
    PROVE  IInv'
<1> USE DEF IInv
<1>1. /\ UNCHANGED <<state, listeners, pending, peer, refreshed>> /\ cursor' \in {cursor, 1}
      /\ phase' \in {"packets", "timeouts", "idle"}
      /\ audible' \in {audible, {peer}} /\ (peer = NoServer => audible' = audible)
  BY DEF StartPackets, NoMorePackets, FinishUpdate
<1>2. TypeOK'
  BY <1>1 DEF TypeOK
<1> QED
  BY <1>1, <1>2 DEF Distinct, Buffered, ConnectionPassed, FirstVisit

(* A server that times out ends the connection, whichever it is.           *)
LEMMA TimeoutListenerInv ==
    ASSUME IInv, TimeoutListener
    PROVE  IInv'
<1> USE DEF IInv
<1>0. refreshed' \in BOOLEAN /\ (state' # "Disconnected" => refreshed' = refreshed)
  BY HistoryKept DEF TimeoutListener
<1>1. /\ phase = "timeouts" /\ cursor \in DOMAIN listeners /\ cursor \in Nat \ {0}
      /\ UNCHANGED <<phase, peer, audible>>
  BY DEF TimeoutListener, TypeOK
<1>2. CASE TimedOut(Visited)
  <2>1. /\ state' = "Disconnected" /\ listeners' = RemoveAt(listeners, cursor)
        /\ cursor' = cursor /\ pending' = pending \ {listeners[cursor].addr}
    BY <1>2 DEF TimeoutListener, Visited, CursorAfterRemoval, StateAfterTimeout
  <2>2. listeners' \in Seq(Listener) /\ pending' \subseteq Servers /\ Distinct' /\ Buffered'
    BY <1>1, <2>1, Removed
  <2> QED
    BY <1>0, <1>1, <2>1, <2>2 DEF TypeOK, ConnectionPassed, FirstVisit
<1>3. CASE ~TimedOut(Visited)
  <2>1. cursor' = cursor + 1 /\ UNCHANGED <<state, listeners, pending>>
    BY <1>3 DEF TimeoutListener, session
  <2> QED
    BY <1>0, <1>1, <2>1 DEF TypeOK, Distinct, Buffered, ConnectionPassed, FirstVisit
<1> QED
  BY <1>2, <1>3

(* The Version decides about a listener that had none, so not about one    *)
(* with buffers or a connection.                                           *)
LEMMA HandleVersionInv ==
    ASSUME IInv, NEW a \in Servers, NEW compatible \in BOOLEAN, HandleVersion(a, compatible)
    PROVE  IInv'
<1> USE DEF IInv
<1> DEFINE i == IndexOf(a)
           l == Judged(listeners[i], compatible)
<1>1. /\ i \in DOMAIN listeners /\ listeners[i].addr = a
      /\ listeners[i].state = "PendingVersion"
  BY IndexFound DEF HandleVersion, HasState
<1>2. l \in Listener /\ l.addr = listeners[i].addr
  <2>1. listeners[i] \in Listener
    BY <1>1, ListenersType
  <2> QED
    BY <2>1 DEF Judged, Listener
<1>3. /\ listeners' = [listeners EXCEPT ![i] = l]
      /\ UNCHANGED <<state, pending, phase, cursor, peer, audible, refreshed>>
  BY DEF HandleVersion
<1> HIDE DEF i, l
<1>4. /\ listeners' \in Seq(Listener) /\ Distinct' /\ DOMAIN listeners' = DOMAIN listeners
      /\ listeners # <<>> => listeners' # <<>>
      /\ \A j \in DOMAIN listeners : j # i => listeners'[j] = listeners[j]
  BY <1>1, <1>2, <1>3, Replaced
<1>5. TypeOK' /\ FirstVisit'
  BY <1>3, <1>4 DEF TypeOK, FirstVisit
<1>6. \A j \in DOMAIN listeners :
        listeners[j].state = "Compatible" => listeners'[j] = listeners[j]
  BY <1>1, <1>4
<1>7. Buffered'
  BY <1>3, <1>4, <1>6, StillBuffered
<1>8. ConnectionPassed'
  BY <1>3, <1>4, <1>6, ListenersType DEF ConnectionPassed
<1> QED
  BY <1>4, <1>5, <1>7, <1>8

(* What a compatible server sends is noted with its listener.              *)
LEMMA HeardFacts ==
    ASSUME IInv, NEW a, HasState(a, "Compatible"), listeners' = Heard(a)
    PROVE  /\ listeners' \in Seq(Listener) /\ Distinct' /\ DOMAIN listeners' = DOMAIN listeners
           /\ listeners # <<>> /\ listeners' # <<>>
           /\ \A i \in DOMAIN listeners :
                /\ listeners'[i].addr = listeners[i].addr
                /\ listeners'[i].state = listeners[i].state
           /\ IndexOf(a) = 1 => listeners[1].state = "Compatible"
<1> USE DEF IInv
<1> DEFINE i == IndexOf(a)
           l == [listeners[i] EXCEPT !.age = 0]
<1>1. i \in DOMAIN listeners /\ listeners[i].state = "Compatible" /\ listeners[i].addr = a
  BY IndexFound DEF HasState
<1>2. l \in Listener /\ l.addr = listeners[i].addr /\ l.state = listeners[i].state
  BY <1>1, ListenersType DEF Listener
<1>3. listeners' = [listeners EXCEPT ![i] = l]
  BY DEF Heard
<1> HIDE DEF l, i
<1>4. /\ listeners' \in Seq(Listener) /\ Distinct' /\ DOMAIN listeners' = DOMAIN listeners
      /\ listeners # <<>> => listeners' # <<>> /\ listeners'[i] = l
      /\ \A j \in DOMAIN listeners : j # i => listeners'[j] = listeners[j]
  BY <1>1, <1>2, <1>3, Replaced
<1>5. listeners # <<>>
  BY <1>1, ListenersType
<1> QED
  BY <1>1, <1>2, <1>4, <1>5 DEF i

(* A compatible server is heard: only an Accept of the first listener      *)
(* makes the client connected.                                             *)
LEMMA HeardInv ==
    ASSUME IInv, NEW a, HasState(a, "Compatible"), phase = "packets", listeners' = Heard(a),
           \/ state' \in {state, "Disconnected"}
           \/ state' = "Connected" /\ IndexOf(a) = 1,
           refreshed' \in BOOLEAN, state' # "Disconnected" => refreshed' = refreshed,
           UNCHANGED <<pending, phase, cursor, peer, audible>>
    PROVE  IInv'
<1>1. /\ listeners' \in Seq(Listener) /\ Distinct' /\ DOMAIN listeners' = DOMAIN listeners
      /\ listeners # <<>> /\ listeners' # <<>>
      /\ \A i \in DOMAIN listeners :
           listeners'[i].addr = listeners[i].addr /\ listeners'[i].state = listeners[i].state
      /\ IndexOf(a) = 1 => listeners[1].state = "Compatible"
  BY HeardFacts
<1> USE DEF IInv
<1>2. TypeOK' /\ FirstVisit'
  BY <1>1 DEF TypeOK, FirstVisit
<1>3. Buffered'
  BY <1>1, StillBuffered
<1>4. 1 \in DOMAIN listeners
  BY <1>1, ListenersType
<1>5. ConnectionPassed'
  BY <1>1, <1>4 DEF ConnectionPassed
<1> QED
  BY <1>1, <1>2, <1>3, <1>5

(* The datagrams of compatible servers.                                    *)
LEMMA HandleInv ==
    ASSUME IInv, NEW a \in Servers,
           \/ \E result \in SendResults : HandlePing(a, result)
           \/ HandleAccept(a) \/ HandleReject(a) \/ HandleKick(a) \/ HandleOther(a)
    PROVE  IInv'
<1>1. /\ HasState(a, "Compatible") /\ phase = "packets" /\ listeners' = Heard(a)
      /\ \/ state' \in {state, "Disconnected"}
         \/ state' = "Connected" /\ IndexOf(a) = 1
      /\ UNCHANGED <<pending, phase, cursor, peer, audible>>
  BY DEF HandlePing, HandleAccept, HandleReject, HandleKick, HandleOther, Receives, IsConnection
<1>2. refreshed' = (refreshed /\ state' # "Disconnected") \/ UNCHANGED refreshed
  BY DEF HandlePing, HandleAccept, HandleReject, HandleKick, HandleOther
<1>3. refreshed' \in BOOLEAN /\ (state' # "Disconnected" => refreshed' = refreshed)
  BY <1>2, HistoryKept DEF IInv
<1> QED
  BY <1>1, <1>3, HeardInv

(* Time passes for all listeners.                                          *)
LEMMA TickFacts ==
    ASSUME TypeOK, Distinct, Tick
    PROVE  /\ listeners' \in Seq(Listener) /\ Distinct' /\ DOMAIN listeners' = DOMAIN listeners
           /\ listeners # <<>> => listeners' # <<>>
           /\ \A i \in DOMAIN listeners :
                /\ listeners'[i].addr = listeners[i].addr
                /\ listeners'[i].state = listeners[i].state
<1>1. /\ DOMAIN listeners = 1..Len(listeners) /\ Len(listeners) \in Nat
      /\ \A i \in DOMAIN listeners :
           listeners[i] \in Listener /\ listeners[i].age \in Nat \cup {None}
  BY ListenersType
<1>2. \A l \in Listener : Aged(l) \in Listener /\ Aged(l).addr = l.addr /\ Aged(l).state = l.state
  <2> SUFFICES ASSUME NEW l \in Listener
               PROVE  Aged(l) \in Listener /\ Aged(l).addr = l.addr /\ Aged(l).state = l.state
    OBVIOUS
  <2>1. CASE Aged(l) = l
    BY <2>1
  <2>2. CASE Aged(l) = [l EXCEPT !.age = @ + 1] /\ l.age # None
    <3>1. l.age \in Nat
      BY <2>2 DEF Listener
    <3>2. l.age + 1 \in Nat
      BY <3>1
    <3> QED
      BY <2>2, <3>2 DEF Listener
  <2> QED
    BY <2>1, <2>2 DEF Aged
<1>3. listeners' = [i \in 1..Len(listeners) |-> Aged(listeners[i])]
  BY <1>1 DEF Tick
<1>4. listeners' \in [1..Len(listeners) -> Listener]
  BY <1>1, <1>2, <1>3
<1>5. listeners' \in Seq(Listener) /\ DOMAIN listeners' = DOMAIN listeners
  BY <1>1, <1>4
<1>6. \A i \in DOMAIN listeners :
        listeners'[i].addr = listeners[i].addr /\ listeners'[i].state = listeners[i].state
  BY <1>1, <1>2, <1>3
<1>7. listeners # <<>> => listeners' # <<>>
  BY <1>1, <1>5
<1> QED
  BY <1>5, <1>6, <1>7, InPlace

(* Time changes nothing else.                                              *)
LEMMA TickInv ==
    ASSUME IInv, Tick
    PROVE  IInv'
<1> USE DEF IInv
<1>1. /\ listeners' \in Seq(Listener) /\ Distinct' /\ DOMAIN listeners' = DOMAIN listeners
      /\ listeners # <<>> => listeners' # <<>>
      /\ \A i \in DOMAIN listeners :
           listeners'[i].addr = listeners[i].addr /\ listeners'[i].state = listeners[i].state
  BY TickFacts
<1>2. UNCHANGED <<state, pending, phase, cursor, peer, audible, refreshed>>
  BY DEF Tick
<1>3. TypeOK' /\ FirstVisit'
  BY <1>1, <1>2 DEF TypeOK, FirstVisit
<1>4. Buffered'
  BY <1>1, <1>2, StillBuffered
<1>5. ConnectionPassed'
  BY <1>1, <1>2, ListenersType DEF ConnectionPassed
<1> QED
  BY <1>1, <1>3, <1>4, <1>5

(* The invariant is inductive.                                             *)
LEMMA NextInv == IInv /\ [Next]_vars => IInv'
<1> SUFFICES ASSUME IInv, [Next]_vars PROVE IInv'
  OBVIOUS
<1>1. CASE Calls
  <2>1. CASE \E result \in SendResults : Disconnect(result) \/ Send(result)
    BY <2>1, SendOnConnectionInv DEF Disconnect, Send
  <2> QED
    BY <1>1, <2>1, ListenInv, ForgetInv, ForgetAllInv, RefreshAllInv, QueryInv, ConnectInv
       DEF Calls
<1>2. CASE Update
  BY <1>2, StartUpdateInv, UpdateListenerInv, UpdateListenerFailsInv, PhaseInv,
     TimeoutListenerInv DEF Update
<1>3. CASE Handle
  BY <1>3, HandleVersionInv, HandleInv DEF Handle
<1>4. CASE Tick
  BY <1>4, TickInv
<1>5. CASE UNCHANGED vars
  BY <1>5 DEF IInv, TypeOK, Distinct, Buffered, ConnectionPassed, FirstVisit, vars
<1> QED
  BY <1>1, <1>2, <1>3, <1>4, <1>5 DEF Next

-----------------------------------------------------------------------------
(* Theorems                                                                *)

(* The inductive invariant always holds.                                   *)
LEMMA AlwaysInv == Spec => []IInv
  BY InitInv, NextInv, PTL DEF Spec

(* The client's variables keep their types.                                *)
THEOREM ClientTypeCorrect == Spec => []TypeOK
<1>1. IInv => TypeOK
  BY DEF IInv
<1> QED
  BY <1>1, AlwaysInv, PTL

(* However listeners are added, forgotten, swapped, refreshed and timed    *)
(* out, no server has two, and only compatible ones have packets waiting.  *)
THEOREM ServersHaveOneListener == Spec => []OneListener
<1>1. IInv => OneListener
  <2> SUFFICES ASSUME IInv PROVE OneListener
    OBVIOUS
  <2>1. \A a \in pending : HasState(a, "Compatible")
    BY StateFound DEF IInv, Buffered
  <2> QED
    BY <2>1 DEF IInv, Distinct, OneListener
<1> QED
  BY <1>1, AlwaysInv, PTL

(* A connected client that is not refreshed has a compatible first         *)
(* listener, for any number of servers and whatever fails.                 *)
THEOREM ConnectionsAreCompatible == Spec => []ConnectedIsCompatible
<1>1. IInv => ConnectedIsCompatible
  BY DEF IInv, ConnectionPassed, ConnectedIsCompatible
<1> QED
  BY <1>1, AlwaysInv, PTL

(* The first listener stays with its server while the client is connected. *)
LEMMA FirstKept ==
    ASSUME IInv, [Next]_vars, ~refreshed, state \in {"Connected", "Disconnecting"},
           state' \in {"Connected", "Disconnecting"}
    PROVE  listeners # <<>> /\ listeners' # <<>> /\ listeners'[1].addr = listeners[1].addr
<1> DEFINE Kept == listeners' # <<>> /\ listeners'[1].addr = listeners[1].addr
<1> USE DEF IInv
<1>1. /\ listeners # <<>> /\ listeners[1].state = "Compatible" /\ 1 \in DOMAIN listeners
      /\ phase = "rest" => cursor > 1
  BY ListenersType DEF ConnectionPassed
<1>2. ASSUME NEW a \in Servers, NEW result, listeners' = WithListener(a, result)
      PROVE  Kept
  <2>1. listeners' \in Seq(Listener) /\ 1 \in DOMAIN listeners' /\ listeners'[1] = listeners[1]
    BY <1>1, <1>2, Added
  <2> QED
    BY <2>1
<1>3. ASSUME NEW a \in Servers, Forget(a)
      PROVE  Kept
  <2>1. /\ IndexOf(a) \in DOMAIN listeners /\ IndexOf(a) # 1
        /\ listeners[IndexOf(a)].addr = a
    BY <1>3, IndexFound DEF Forget, Forgettable
  <2>2. listeners' = SwapRemove(listeners, IndexOf(a)) /\ pending' = pending \ {a}
    BY <1>3 DEF Forget
  <2> QED
    BY <2>1, <2>2, Removed
<1>4. ForgetAll => Kept
  BY <1>1 DEF ForgetAll
<1>5. ASSUME NEW result, NEW next, SendOnConnection(result, next)
      PROVE  Kept
  <2>1. UNCHANGED listeners
    BY <1>1, <1>5 DEF SendOnConnection
  <2> QED
    BY <1>1, <2>1
<1>6. ASSUME NEW result, NEW settled, UpdateListener(result, settled)
      PROVE  Kept
  <2>1. listeners' = [listeners EXCEPT ![cursor].age = 0] \/ UNCHANGED listeners
    BY <1>6 DEF UpdateListener
  <2>2. listeners \in Seq(Listener) /\ listeners[1] \in Listener
    BY <1>1, ListenersType
  <2> QED
    BY <1>1, <2>1, <2>2 DEF Listener
<1>7. UpdateListenerFails => Kept
  <2> SUFFICES ASSUME UpdateListenerFails PROVE Kept
    OBVIOUS
  <2>1. /\ phase \in {"first", "rest"} /\ cursor \in DOMAIN listeners
        /\ listeners' = RemoveAt(listeners, cursor)
        /\ pending' = pending \ {listeners[cursor].addr}
    BY DEF UpdateListenerFails, Visited
  <2>2. ~(phase = "first" /\ listeners[cursor].state = "Compatible")
    BY DEF UpdateListenerFails, StateAfterFailure, Visited
  <2>3. cursor # 1
    BY <1>1, <2>1, <2>2 DEF TypeOK, FirstVisit
  <2> QED
    BY <2>1, <2>3, Removed
<1>8. TimeoutListener => Kept
  BY <1>1 DEF TimeoutListener, StateAfterTimeout, session
<1>9. ASSUME NEW a, NEW compatible, HandleVersion(a, compatible)
      PROVE  Kept
  <2>1. IndexOf(a) \in DOMAIN listeners /\ listeners[IndexOf(a)].state = "PendingVersion"
    BY <1>9, IndexFound DEF HandleVersion, HasState
  <2>2. listeners' = [listeners EXCEPT ![IndexOf(a)] = Judged(listeners[IndexOf(a)], compatible)]
    BY <1>9 DEF HandleVersion
  <2>3. IndexOf(a) # 1 /\ listeners \in Seq(Listener)
    BY <1>1, <2>1, ListenersType
  <2> QED
    BY <1>1, <2>2, <2>3
<1>10. ASSUME NEW a, HasState(a, "Compatible"), listeners' = Heard(a)
       PROVE  Kept
  BY <1>1, <1>10, HeardFacts
<1>11. Tick => Kept
  BY <1>1, TickFacts
<1>12. UNCHANGED listeners => Kept
  BY <1>1
<1> HIDE DEF IInv
<1>13. CASE Calls
  <2>1. ASSUME NEW n \in 0..Len(listeners), NEW result, RefreshAll(n, result)
        PROVE  Kept
    <3>1. /\ DOMAIN listeners' = DOMAIN listeners
          /\ listeners'[1].addr = IF 1 <= n THEN NewListener(listeners[1].addr, result[1]).addr
                                  ELSE listeners[1].addr
      BY <1>1, <2>1 DEF RefreshAll
    <3>2. listeners' # <<>>
      BY <1>1, <3>1
    <3> QED
      BY <3>1, <3>2 DEF NewListener
  <2>2. ASSUME NEW a \in Servers, NEW result \in SendResults,
               Listen(a, result) \/ Query(a, result) \/ Connect(a, result)
        PROVE  Kept
    BY <1>2, <2>2 DEF Listen, Query, Connect
  <2>3. ASSUME NEW result \in SendResults, Disconnect(result) \/ Send(result)
        PROVE  Kept
    BY <1>5, <2>3 DEF Disconnect, Send
  <2> QED
    BY <1>1, <1>3, <1>4, <1>13, <2>1, <2>2, <2>3, Zenon DEF Calls
<1>14. CASE Update
  <2>1. (StartUpdate \/ StartPackets \/ FinishUpdate) => UNCHANGED listeners
    BY DEF StartUpdate, StartPackets, FinishUpdate
  <2>2. \A failed : NoMorePackets(failed) => UNCHANGED listeners
    BY DEF NoMorePackets
  <2> QED
    BY <1>1, <1>6, <1>7, <1>8, <1>12, <1>14, <2>1, <2>2, Zenon DEF Update
<1>15. CASE Handle
  <2>1. \A a, result : HandlePing(a, result) => HasState(a, "Compatible") /\ listeners' = Heard(a)
    BY DEF HandlePing
  <2>2. \A a : HandleAccept(a) \/ HandleReject(a) \/ HandleKick(a) \/ HandleOther(a)
                 => HasState(a, "Compatible") /\ listeners' = Heard(a)
    BY DEF HandleAccept, HandleReject, HandleKick, HandleOther
  <2> QED
    BY <1>1, <1>9, <1>10, <1>15, <2>1, <2>2, Zenon DEF Handle
<1>16. CASE UNCHANGED vars
  BY <1>12, <1>16 DEF vars
<1> QED
  BY <1>1, <1>11, <1>13, <1>14, <1>15, <1>16 DEF Next

(* The server of a session never changes: no step puts another listener in *)
(* the first place while the client is connected.                          *)
THEOREM SessionsKeepTheirServer == Spec => SessionKeepsServer
<1>1. IInv /\ [Next]_vars =>
        [{state, state'} \subseteq {"Connected", "Disconnecting"} /\ ~refreshed =>
            listeners # <<>> /\ listeners' # <<>> /\ listeners'[1].addr = listeners[1].addr]_vars
  BY FirstKept
<1> QED
  BY <1>1, AlwaysInv, PTL DEF Spec, SessionKeepsServer

=============================================================================
