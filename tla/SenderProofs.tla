----------------------------- MODULE SenderProofs -----------------------------
(***************************************************************************)
(* Lemmas about the operators of Sender, for packets of any size.          *)
(***************************************************************************)
EXTENDS Sender, LibraryFacts

Queue == [packets : Seq(OutPart), first_unacked : Nat, rx : Nat, next : Nat]

-----------------------------------------------------------------------------
(* PacketQueue                                                             *)

(* Unacked keeps the parts that are not acked, and only these.             *)
LEMMA UnackedFacts ==
    ASSUME NEW packets \in Seq(OutPart)
    PROVE  /\ Unacked(packets) \in Seq(OutPart)
           /\ \A j \in DOMAIN Unacked(packets) :
                \E i \in DOMAIN packets : ~packets[i].acked /\ Unacked(packets)[j] = packets[i]
           /\ (\E i \in DOMAIN packets : ~packets[i].acked) => Unacked(packets) # <<>>
<1> DEFINE n == Len(packets)
           V == Seq(OutPart)
           Selects(f) == f = [i \in 0..n |->
               IF i = 0 THEN <<>>
               ELSE IF packets[i].acked THEN f[i - 1] ELSE Append(f[i - 1], packets[i])]
<1>1. n \in Nat /\ DOMAIN packets = 1..n /\ \A i \in 1..n : packets[i] \in OutPart
  OBVIOUS
<1>2. \E f : Selects(f)
  <2> DEFINE step == [i \in 1..n |-> [v \in V |->
                        IF packets[i].acked THEN v ELSE Append(v, packets[i])]]
  <2>1. step \in [1..n -> [V -> V]]
    BY <1>1
  <2>2. \A i \in 1..n, v \in V :
          step[i][v] = IF packets[i].acked THEN v ELSE Append(v, packets[i])
    OBVIOUS
  <2>3. <<>> \in V
    OBVIOUS
  <2> HIDE DEF step, n, V
  <2>4. PICK g \in [0..n -> V] : g[0] = <<>> /\ \A i \in 1..n : g[i] = step[i][g[i - 1]]
    <3>1. n \in Nat
      BY <1>1
    <3>2. \E g : Recursion(g, V, n, <<>>, step)
      BY <2>1, <2>3, <3>1, RecursionExists, Zenon
    <3> QED
      BY <3>2 DEF Recursion
  <2>5. ASSUME NEW i \in 0..n
        PROVE  g[i] = IF i = 0 THEN <<>>
                      ELSE IF packets[i].acked THEN g[i - 1] ELSE Append(g[i - 1], packets[i])
    <3>1. CASE i = 0
      BY <2>4, <3>1
    <3>2. CASE i # 0
      <4>1. i \in 1..n /\ i - 1 \in 0..n
        BY <1>1, <3>2
      <4>2. g[i] = step[i][g[i - 1]] /\ g[i - 1] \in V
        BY <2>4, <4>1
      <4>3. step[i][g[i - 1]] = IF packets[i].acked THEN g[i - 1] ELSE Append(g[i - 1], packets[i])
        BY <2>2, <4>1, <4>2, Zenon
      <4> QED
        BY <3>2, <4>2, <4>3, Zenon
    <3> QED
      BY <3>1, <3>2
  <2>6. g = [i \in 0..n |->
               IF i = 0 THEN <<>>
               ELSE IF packets[i].acked THEN g[i - 1] ELSE Append(g[i - 1], packets[i])]
    BY <2>4, <2>5
  <2> QED
    BY <2>6 DEF n
<1> DEFINE F == CHOOSE f : Selects(f)
<1>3. Unacked(packets) = F[n]
  BY DEF Unacked
<1>4. Selects(F)
  BY <1>2
<1> HIDE DEF F
<1>5. \A i \in 0..n : F[i] = IF i = 0 THEN <<>>
                             ELSE IF packets[i].acked THEN F[i - 1] ELSE Append(F[i - 1], packets[i])
  BY <1>4
<1> DEFINE Good(m) == /\ F[m] \in V
                      /\ \A j \in DOMAIN F[m] : \E i \in 1..m : ~packets[i].acked /\ F[m][j] = packets[i]
                      /\ (\E i \in 1..m : ~packets[i].acked) => F[m] # <<>>
           bad == {m \in 0..n : ~Good(m)}
           m == Min(bad)
<1>6. bad = {}
  <2> SUFFICES ASSUME bad # {} PROVE FALSE
    OBVIOUS
  <2>1. m \in bad /\ \A x \in bad : m <= x
    <3>1. bad \in SUBSET Nat
      OBVIOUS
    <3> HIDE DEF bad
    <3> QED
      BY <3>1, MinFound
  <2> HIDE DEF m
  <2>2. m \in 0..n /\ ~Good(m) /\ m \in Nat
    BY <2>1
  <2>3. CASE m = 0
    <3>1. F[m] = <<>>
      BY <1>5, <2>2, <2>3
    <3>2. DOMAIN F[m] = {} /\ F[m] \in V /\ 1..m = {}
      BY <2>3, <3>1
    <3> QED
      BY <2>2, <3>2
  <2>4. CASE m # 0
    <3>1. m - 1 \in 0..n /\ ~(m <= m - 1) /\ m \in 1..n
      BY <2>2, <2>4
    <3>2. Good(m - 1)
      <4> HIDE DEF Good
      <4> QED
        BY <2>1, <3>1
    <3>3. F[m] = IF packets[m].acked THEN F[m - 1] ELSE Append(F[m - 1], packets[m])
      BY <1>5, <2>2, <2>4
    <3>4. \A i \in 1..m : i = m \/ i \in 1..(m - 1)
      BY <2>2
    <3>5. CASE packets[m].acked
      <4>1. F[m] = F[m - 1]
        BY <3>3, <3>5
      <4>2. 1..(m - 1) \subseteq 1..m
        BY <2>2
      <4>3. Good(m)
        BY <3>2, <3>4, <3>5, <4>1, <4>2
      <4> QED
        BY <2>2, <4>3
    <3>6. CASE ~packets[m].acked
      <4> DEFINE s == F[m - 1]
      <4>1. F[m] = Append(s, packets[m]) /\ s \in V /\ packets[m] \in OutPart
        BY <1>1, <3>1, <3>2, <3>3, <3>6
      <4>2. /\ F[m] \in V /\ F[m] # <<>> /\ DOMAIN F[m] = 1..(Len(s) + 1) /\ Len(s) \in Nat
            /\ F[m][Len(s) + 1] = packets[m] /\ DOMAIN s = 1..Len(s)
            /\ \A j \in 1..Len(s) : F[m][j] = s[j]
        <5> HIDE DEF s
        <5> QED
          BY <4>1, AppendFacts
      <4>3. \A j \in DOMAIN F[m] : j = Len(s) + 1 \/ j \in DOMAIN s
        BY <4>2
      <4>4. 1..(m - 1) \subseteq 1..m /\ m \in 1..m
        BY <2>2, <3>1
      <4>5. ASSUME NEW j \in DOMAIN F[m]
            PROVE  \E i \in 1..m : ~packets[i].acked /\ F[m][j] = packets[i]
        <5>1. CASE j = Len(s) + 1
          BY <3>6, <4>2, <4>4, <5>1
        <5>2. CASE j \in DOMAIN s
          <6>1. PICK i \in 1..(m - 1) : ~packets[i].acked /\ s[j] = packets[i]
            BY <3>2, <5>2
          <6>2. F[m][j] = s[j] /\ i \in 1..m
            BY <4>2, <4>4, <5>2
          <6> QED
            BY <6>1, <6>2
        <5> QED
          BY <4>3, <5>1, <5>2
      <4>6. Good(m)
        BY <4>2, <4>5
      <4> QED
        BY <2>2, <4>6
    <3> QED
      BY <3>5, <3>6
  <2> QED
    BY <2>3, <2>4
<1>7. Good(n)
  <2>1. n \in 0..n
    BY <1>1
  <2> HIDE DEF Good
  <2> QED
    BY <1>6, <2>1
<1> QED
  BY <1>1, <1>3, <1>7

WellQueued(id, q) == q \in Queue /\ Contiguous(id, q)

(* A new queue holds the whole packet, or leaves it to the thread.         *)
LEMMA NewQueueFacts ==
    ASSUME NEW id \in PacketId
    PROVE  /\ WellQueued(id, NewPacketQueue(NumParts[id]))
           /\ Settled(NewPacketQueue(NumParts[id])) = {}
<1> DEFINE n == NumParts[id]
           q == NewPacketQueue(n)
<1>1. n \in Nat \ {0} /\ BackgroundThreshold \in Nat
  BY NumPartsAssumption, BackgroundThresholdAssumption
<1> HIDE DEF n
<1>2. CASE n <= BackgroundThreshold
  <2> DEFINE all == [i \in 1..n |-> UnackedPart(i - 1)]
  <2>1. q = [packets |-> all, first_unacked |-> 0, rx |-> 0, next |-> n]
    BY <1>2 DEF NewPacketQueue
  <2>2. \A i \in 1..n : UnackedPart(i - 1) \in OutPart
    BY <1>1 DEF UnackedPart, OutPart
  <2>3. all \in Seq(OutPart) /\ Len(all) = n /\ DOMAIN all = 1..n
    BY <1>1, <2>2
  <2>4. \A i \in 1..n : all[i].seq = i - 1 /\ ~all[i].acked
    BY <1>1 DEF UnackedPart
  <2> HIDE DEF all, q
  <2>5. q.packets = all /\ q.first_unacked = 0 /\ q.rx = 0 /\ q.next = n /\ q \in Queue
    BY <1>1, <2>1, <2>3 DEF Queue
  <2>6. Contiguous(id, q)
    BY <1>1, <2>3, <2>4, <2>5 DEF Contiguous, n
  <2>7. Settled(q) = {}
    BY <2>3, <2>4, <2>5 DEF Settled
  <2> QED
    BY <2>5, <2>6, <2>7 DEF WellQueued, q, n
<1>3. CASE ~(n <= BackgroundThreshold)
  <2>1. q = [packets |-> <<>>, first_unacked |-> 0, rx |-> n, next |-> 0]
    BY <1>3 DEF NewPacketQueue
  <2> HIDE DEF q
  <2>2. q.packets = <<>> /\ q.first_unacked = 0 /\ q.rx = n /\ q.next = 0 /\ q \in Queue
    BY <1>1, <2>1 DEF Queue
  <2>3. DOMAIN q.packets = {} /\ Len(q.packets) = 0
    BY <2>2
  <2>4. Contiguous(id, q)
    BY <1>1, <2>2, <2>3 DEF Contiguous, n
  <2>5. Settled(q) = {}
    BY <2>2, <2>3 DEF Settled
  <2> QED
    BY <2>2, <2>4, <2>5 DEF WellQueued, q, n
<1> QED
  BY <1>2, <1>3

(* Pulling parts from the thread keeps the packet in one piece, and leaves *)
(* something to send while the thread has parts.                           *)
LEMMA PullFacts ==
    ASSUME NEW id \in PacketId, NEW q, WellQueued(id, q), NEW count \in Nat
    PROVE  /\ WellQueued(id, Pull(q, count)) /\ Settled(Pull(q, count)) = Settled(q)
           /\ count > 0 /\ Unacked(Pull(q, count).packets) = <<>> => Pull(q, count).rx = 0
<1> DEFINE existing == Min({count, Len(Unacked(q.packets))})
           n    == Min({count - existing, q.rx})
           next == q.next
           more == [i \in 1..n |-> UnackedPart(next + i - 1)]
           r    == Pull(q, count)
<1>1. /\ q.packets \in Seq(OutPart) /\ q.first_unacked \in Nat /\ q.rx \in Nat
      /\ Len(q.packets) \in Nat /\ next \in Nat
  BY DEF WellQueued, Queue
<1>2. Unacked(q.packets) \in Seq(OutPart) /\ Len(Unacked(q.packets)) \in Nat
  BY <1>1, UnackedFacts
<1>3. existing \in Nat /\ existing <= count /\ count - existing \in Nat
      /\ (existing = IF count <= Len(Unacked(q.packets)) THEN count ELSE Len(Unacked(q.packets)))
  BY <1>2, MinOfTwo
<1> HIDE DEF existing
<1>4. n \in Nat /\ n <= q.rx /\ (n = IF count - existing <= q.rx THEN count - existing ELSE q.rx)
  BY <1>1, <1>3, MinOfTwo
<1> HIDE DEF n, next
<1>5. \A i \in 1..n : UnackedPart(next + i - 1) \in OutPart
  BY <1>1, <1>4 DEF UnackedPart, OutPart
<1>6. more \in Seq(OutPart) /\ Len(more) = n
  BY <1>4, <1>5
<1>7. \A i \in 1..n : more[i].seq = next + i - 1 /\ ~more[i].acked
  BY <1>4 DEF UnackedPart
<1>8. r = [q EXCEPT !.packets = q.packets \o more, !.rx = q.rx - n, !.next = next + n]
  BY DEF Pull, existing, n, next
<1> HIDE DEF more, r
<1>9. r \in Queue /\ r.packets = q.packets \o more /\ r.rx = q.rx - n
      /\ r.first_unacked = q.first_unacked /\ r.next = next + n
  <2>1. q.packets \o more \in Seq(OutPart) /\ q.rx - n \in Nat /\ next + n \in Nat
    BY <1>1, <1>4, <1>6
  <2> QED
    BY <1>8, <2>1 DEF WellQueued, Queue
<1> DEFINE len == Len(q.packets)
<1>10. /\ DOMAIN q.packets = 1..len /\ DOMAIN r.packets = 1..(len + n) /\ Len(r.packets) = len + n
       /\ \A j \in 1..(len + n) : r.packets[j] = IF j <= len THEN q.packets[j] ELSE more[j - len]
  <2>1. /\ Len(q.packets \o more) = len + Len(more) /\ DOMAIN (q.packets \o more) = 1..(len + Len(more))
        /\ DOMAIN q.packets = 1..len
        /\ \A j \in 1..(len + Len(more)) :
             (q.packets \o more)[j] = IF j <= len THEN q.packets[j] ELSE more[j - len]
    <3> HIDE DEF len
    <3>1. len = Len(q.packets)
      BY DEF len
    <3>2. /\ Len(q.packets \o more) = Len(q.packets) + Len(more)
          /\ DOMAIN (q.packets \o more) = 1..(Len(q.packets) + Len(more))
          /\ DOMAIN q.packets = 1..Len(q.packets)
          /\ \A j \in 1..(Len(q.packets) + Len(more)) :
               (q.packets \o more)[j] = IF j <= Len(q.packets) THEN q.packets[j]
                                        ELSE more[j - Len(q.packets)]
      <4>1. q.packets \in Seq(OutPart) /\ more \in Seq(OutPart)
        BY <1>1, <1>6
      <4> QED
        BY <4>1, ConcatFacts
    <3> QED
      BY <3>1, <3>2, Zenon
  <2> QED
    BY <1>6, <1>9, <2>1, Zenon
<1>11. len \in Nat /\ next = q.first_unacked + len
  BY <1>1 DEF next, WellQueued, Contiguous
<1> HIDE DEF len
<1>12. /\ next + q.rx = NumParts[id]
       /\ \A i \in 1..len : q.packets[i].seq = q.first_unacked + i - 1
       /\ len # 0 => ~q.packets[1].acked
  <2>1. len # 0 => q.packets # <<>>
    BY DEF len
  <2> QED
    BY <1>10, <2>1 DEF WellQueued, Contiguous, len, next
<1>13. \A j \in 1..(len + n) : ~(j <= len) => j - len \in 1..n
  BY <1>4, <1>11
<1>14. Contiguous(id, r)
  <2>1. r.first_unacked + Len(r.packets) = r.next /\ r.next + r.rx = NumParts[id]
    <3>1. /\ Len(r.packets) = len + n /\ r.rx = q.rx - n /\ r.first_unacked = q.first_unacked
          /\ r.next = next + n
      BY <1>9, <1>10
    <3>2. q.first_unacked \in Nat /\ q.rx \in Nat /\ n \in Nat /\ len \in Nat /\ next \in Nat
      BY <1>1, <1>4, <1>11
    <3>3. next = q.first_unacked + len /\ next + q.rx = NumParts[id]
      BY <1>11, <1>12
    <3> QED
      BY <3>1, <3>2, <3>3
  <2>2. ASSUME NEW i \in DOMAIN r.packets
        PROVE  r.packets[i].seq = r.first_unacked + i - 1
    <3>1. CASE i <= len
      BY <1>9, <1>10, <1>11, <1>12, <3>1
    <3>2. CASE ~(i <= len)
      <4>1. r.packets[i] = more[i - len] /\ i - len \in 1..n
        BY <1>10, <1>13, <3>2
      <4> QED
        <5>1. r.packets[i].seq = next + (i - len) - 1 /\ r.first_unacked = q.first_unacked
          BY <1>7, <1>9, <4>1
        <5>2. i \in Nat
          <6>1. i \in 1..(len + n)
            BY <1>10
          <6> QED
            BY <1>4, <1>11, <6>1
        <5>3. q.first_unacked \in Nat
          BY <1>1
        <5> QED
          BY <1>11, <5>1, <5>2, <5>3
    <3> QED
      BY <3>1, <3>2
  <2>3. ASSUME r.packets # <<>>
        PROVE  ~r.packets[1].acked
    <3>1. len + n # 0
      <4>1. r.packets \in Seq(OutPart) /\ Len(r.packets) = len + n
        BY <1>9, <1>10 DEF Queue
      <4> QED
        BY <2>3, <4>1
    <3>2. CASE len # 0
      <4>1. 1 \in 1..(len + n) /\ 1 <= len
        BY <1>4, <1>11, <3>2
      <4> QED
        BY <1>10, <1>12, <3>2, <4>1
    <3>3. CASE len = 0
      <4>1. r.packets[1] = more[1] /\ 1 \in 1..n
        BY <1>4, <1>10, <3>1, <3>3
      <4> QED
        BY <1>7, <4>1
    <3> QED
      BY <3>2, <3>3
  <2> QED
    BY <2>1, <2>2, <2>3 DEF Contiguous
<1>15. Settled(r) = Settled(q)
  <2>1. {r.packets[i].seq : i \in {j \in DOMAIN r.packets : r.packets[j].acked}}
          = {q.packets[i].seq : i \in {j \in DOMAIN q.packets : q.packets[j].acked}}
    <3>1. \A j \in DOMAIN r.packets : r.packets[j].acked => j \in DOMAIN q.packets
      <4> SUFFICES ASSUME NEW j \in DOMAIN r.packets, ~(j <= len) PROVE ~r.packets[j].acked
        BY <1>10
      <4> QED
        BY <1>7, <1>10, <1>13
    <3>2. \A j \in DOMAIN q.packets : j \in DOMAIN r.packets /\ r.packets[j] = q.packets[j]
      BY <1>4, <1>10, <1>11
    <3> QED
      BY <3>1, <3>2
  <2> QED
    BY <1>9, <2>1 DEF Settled
<1>16. ASSUME count > 0, Unacked(r.packets) = <<>>
       PROVE  r.rx = 0
  <2>1. \A i \in DOMAIN r.packets : r.packets[i].acked
    BY <1>9, <1>16, UnackedFacts DEF Queue
  <2>2. n = 0
    <3> SUFFICES ASSUME n # 0 PROVE FALSE
      OBVIOUS
    <3>1. len + 1 \in DOMAIN r.packets /\ r.packets[len + 1] = more[1] /\ 1 \in 1..n
      BY <1>4, <1>10, <1>11
    <3> QED
      BY <1>7, <2>1, <3>1
  <2>3. len = 0
    BY <1>10, <1>11, <1>12, <2>1, <2>2
  <2>4. Unacked(q.packets) = <<>>
    <3> SUFFICES ASSUME Unacked(q.packets) # <<>> PROVE FALSE
      OBVIOUS
    <3>1. 1 \in DOMAIN Unacked(q.packets)
      BY <1>2
    <3>2. \E i \in DOMAIN q.packets : TRUE
      BY <1>1, <3>1, UnackedFacts
    <3> QED
      BY <1>10, <2>3, <3>2
  <2>5. existing = 0
    <3>1. Len(Unacked(q.packets)) = 0
      BY <2>4
    <3> QED
      BY <1>3, <1>16, <3>1
  <2> QED
    BY <1>1, <1>4, <1>9, <1>16, <2>2, <2>5
<1> QED
  BY <1>9, <1>14, <1>15, <1>16 DEF WellQueued, r

(* A batch holds parts of the packet, no more than asked for, and at least *)
(* one if there is one that is not acked.                                  *)
LEMMA BatchFacts ==
    ASSUME NEW id \in PacketId, NEW q, WellQueued(id, q), NEW count \in Nat
    PROVE  /\ Batch(q, count) \in Seq(Parts(id)) /\ Len(Batch(q, count)) <= count
           /\ count > 0 /\ Batch(q, count) = <<>> => Unacked(q.packets) = <<>>
<1> DEFINE unacked == Unacked(q.packets)
           n == Min({count, Len(unacked)})
           b == Batch(q, count)
<1>1. q.packets \in Seq(OutPart) /\ q.first_unacked \in Nat /\ q.rx \in Nat
  BY DEF WellQueued, Queue
<1>2. /\ unacked \in Seq(OutPart) /\ Len(unacked) \in Nat /\ DOMAIN unacked = 1..Len(unacked)
      /\ \A j \in DOMAIN unacked : \E i \in DOMAIN q.packets : unacked[j] = q.packets[i]
  BY <1>1, UnackedFacts
<1>3. n \in Nat /\ n <= count /\ n <= Len(unacked)
      /\ (n = IF count <= Len(unacked) THEN count ELSE Len(unacked))
  BY <1>2, MinOfTwo
<1>4. b = [i \in 1..n |-> unacked[i].seq]
  BY DEF Batch
<1> HIDE DEF n, b
<1>5. ASSUME NEW i \in DOMAIN q.packets
      PROVE  q.packets[i].seq \in Parts(id)
  <2>1. q.packets[i].seq = q.first_unacked + i - 1
    BY DEF WellQueued, Contiguous
  <2>2. q.first_unacked + Len(q.packets) + q.rx = NumParts[id]
    BY DEF WellQueued, Contiguous
  <2>3. i \in 1..Len(q.packets) /\ Len(q.packets) \in Nat
    BY <1>1
  <2> QED
    BY <1>1, <2>1, <2>2, <2>3 DEF Parts
<1>6. \A j \in 1..n : unacked[j].seq \in Parts(id)
  <2> HIDE DEF unacked
  <2>1. \A j \in 1..n : j \in 1..Len(unacked)
    <3>1. Len(unacked) \in Nat
      BY <1>2
    <3> QED
      BY <1>3, <3>1
  <2>2. \A j \in 1..n : j \in DOMAIN unacked
    BY <1>2, <2>1
  <2> QED
    BY <1>2, <1>5, <2>2
<1>7. b \in Seq(Parts(id)) /\ Len(b) = n
  BY <1>3, <1>4, <1>6
<1>8. ASSUME count > 0, b = <<>>
      PROVE  unacked = <<>>
  <2>1. n = 0
    BY <1>7, <1>8
  <2>2. Len(unacked) = 0
    BY <1>2, <1>3, <1>8, <2>1
  <2> QED
    BY <1>2, <2>2
<1> QED
  BY <1>3, <1>7, <1>8 DEF b

(* An ack marks the part at its position, and drops acked parts from the   *)
(* front.  Nothing else becomes settled.                                   *)
LEMMA AckedFacts ==
    ASSUME NEW id \in PacketId, NEW q, WellQueued(id, q), NEW seq \in Nat,
           seq + 1 \in DOMAIN q.packets
    PROVE  /\ WellQueued(id, Acked(q, seq))
           /\ Settled(Acked(q, seq)) \subseteq Settled(q) \cup {q.first_unacked + seq}
<1> DEFINE marked == [q.packets EXCEPT ![seq + 1].acked = TRUE]
           len == Len(q.packets)
           fronts == {i - 1 : i \in {j \in DOMAIN marked : ~marked[j].acked}} \cup {Len(marked)}
           n == Min(fronts)
           r == Acked(q, seq)
<1>1. /\ q.packets \in Seq(OutPart) /\ q.first_unacked \in Nat /\ q.rx \in Nat
      /\ len \in Nat /\ DOMAIN q.packets = 1..len
  BY DEF WellQueued, Queue
<1>2. /\ q.first_unacked + len = q.next /\ q.next + q.rx = NumParts[id]
      /\ \A i \in 1..len : q.packets[i].seq = q.first_unacked + i - 1
      /\ \A i \in 1..len : q.packets[i] \in OutPart
  <2>1. \A i \in 1..len : q.packets[i] \in OutPart
    BY <1>1
  <2>2. /\ q.first_unacked + len = q.next /\ q.next + q.rx = NumParts[id]
        /\ \A i \in DOMAIN q.packets : q.packets[i].seq = q.first_unacked + i - 1
    BY DEF WellQueued, Contiguous
  <2> QED
    BY <1>1, <2>1, <2>2, Zenon
<1>3. /\ marked \in Seq(OutPart) /\ Len(marked) = len /\ DOMAIN marked = 1..len
      /\ \A i \in 1..len : /\ marked[i].seq = q.packets[i].seq
                           /\ marked[i].acked <=> i = seq + 1 \/ q.packets[i].acked
  <2>1. [q.packets[seq + 1] EXCEPT !.acked = TRUE] \in OutPart
    BY <1>1, <1>2 DEF OutPart
  <2>2. marked = [q.packets EXCEPT ![seq + 1] = [q.packets[seq + 1] EXCEPT !.acked = TRUE]]
    OBVIOUS
  <2>3. marked \in Seq(OutPart) /\ Len(marked) = len /\ DOMAIN marked = 1..len
    BY <1>1, <2>1, <2>2
  <2>4. ASSUME NEW i \in 1..len
        PROVE  /\ marked[i].seq = q.packets[i].seq
               /\ marked[i].acked <=> i = seq + 1 \/ q.packets[i].acked
    <3>1. q.packets[i] \in OutPart
      BY <1>2
    <3>2. CASE i = seq + 1
      <4>1. marked[i] = [q.packets[i] EXCEPT !.acked = TRUE]
        BY <1>1, <3>2
      <4> QED
        BY <3>1, <3>2, <4>1 DEF OutPart
    <3>3. CASE i # seq + 1
      <4>1. marked[i] = q.packets[i]
        BY <1>1, <3>3
      <4> QED
        BY <3>3, <4>1
    <3> QED
      BY <3>2, <3>3
  <2> QED
    BY <2>3, <2>4
<1> HIDE DEF marked, len
<1>4. /\ n \in Nat /\ n <= len /\ n \in fronts
      /\ \A i \in 1..len : ~marked[i].acked => n <= i - 1
  <2>1. fronts \in SUBSET Nat /\ fronts # {} /\ len \in fronts
    BY <1>1, <1>3
  <2>2. \A i \in 1..len : ~marked[i].acked => i - 1 \in fronts
    BY <1>3
  <2> HIDE DEF fronts
  <2>3. n \in fronts /\ \A x \in fronts : n <= x
    BY <2>1, MinFound
  <2> QED
    BY <2>1, <2>2, <2>3
<1>5. n # len => n + 1 \in 1..len /\ ~marked[n + 1].acked
  BY <1>1, <1>3, <1>4
<1> HIDE DEF n
<1>6. \A i \in 1..n : i \in 1..len /\ marked[i].acked
  BY <1>1, <1>4
<1> DEFINE rest == SubSeq(marked, n + 1, len)
<1>7. /\ rest \in Seq(OutPart) /\ Len(rest) = len - n /\ DOMAIN rest = 1..(len - n)
      /\ \A j \in 1..(len - n) : rest[j] = marked[n + j] /\ n + j \in 1..len
  BY <1>1, <1>3, <1>4
<1>8. r = [q EXCEPT !.packets = rest, !.first_unacked = q.first_unacked + n]
  BY <1>3 DEF Acked, n, marked
<1> HIDE DEF rest, r
<1>9. /\ r \in Queue /\ r.packets = rest /\ r.rx = q.rx /\ r.next = q.next
      /\ r.first_unacked = q.first_unacked + n
  <2>1. q.first_unacked + n \in Nat /\ rest \in Seq(OutPart)
    BY <1>1, <1>4, <1>7
  <2> QED
    BY <1>8, <2>1 DEF WellQueued, Queue
<1>10. Contiguous(id, r)
  <2>1. r.first_unacked + Len(r.packets) = r.next /\ r.next + r.rx = NumParts[id]
    <3>1. /\ Len(r.packets) = len - n /\ r.first_unacked = q.first_unacked + n
          /\ r.rx = q.rx /\ r.next = q.next
      BY <1>7, <1>9
    <3>2. len \in Nat /\ q.first_unacked \in Nat /\ q.rx \in Nat /\ n \in Nat
      BY <1>1, <1>4
    <3> QED
      BY <1>2, <3>1, <3>2
  <2>2. ASSUME NEW i \in DOMAIN r.packets
        PROVE  r.packets[i].seq = r.first_unacked + i - 1
    <3>1. i \in 1..(len - n) /\ r.packets[i] = marked[n + i] /\ n + i \in 1..len
      BY <1>7, <1>9
    <3>2. marked[n + i].seq = q.first_unacked + (n + i) - 1
      BY <1>2, <1>3, <3>1
    <3>3. len \in Nat /\ q.first_unacked \in Nat /\ n \in Nat /\ r.first_unacked = q.first_unacked + n
      BY <1>1, <1>4, <1>9
    <3> QED
      BY <3>1, <3>2, <3>3
  <2>3. ASSUME r.packets # <<>>
        PROVE  ~r.packets[1].acked
    <3>1. n # len
      <4>1. rest \in Seq(OutPart) /\ Len(rest) = len - n /\ rest # <<>>
        BY <1>7, <1>9, <2>3
      <4>2. Len(rest) # 0
        BY <4>1
      <4>3. n \in Nat /\ len \in Nat /\ Len(rest) = len - n
        BY <1>1, <1>4, <4>1
      <4> HIDE DEF rest
      <4> QED
        BY <4>2, <4>3
    <3>2. 1 \in 1..(len - n)
      BY <1>1, <1>4, <3>1
    <3>3. r.packets[1] = marked[n + 1]
      BY <1>7, <1>9, <3>2
    <3> QED
      BY <1>5, <3>1, <3>3
  <2> QED
    BY <2>1, <2>2, <2>3 DEF Contiguous
<1>11. ASSUME NEW i \in 1..len, marked[i].acked
       PROVE  marked[i].seq \in Settled(q) \cup {q.first_unacked + seq}
  <2>1. CASE i = seq + 1
    <3>1. marked[i].seq = q.first_unacked + i - 1
      BY <1>2, <1>3
    <3>2. q.first_unacked \in Nat
      BY <1>1
    <3> QED
      BY <2>1, <3>1, <3>2
  <2>2. CASE i # seq + 1
    <3>1. q.packets[i].acked /\ i \in DOMAIN q.packets /\ marked[i].seq = q.packets[i].seq
      BY <1>1, <1>3, <1>11, <2>2
    <3> QED
      BY <3>1 DEF Settled
  <2> QED
    BY <2>1, <2>2
<1>12. ASSUME NEW x \in Settled(r)
       PROVE  x \in Settled(q) \cup {q.first_unacked + seq}
  <2>1. CASE x \in 0..(r.first_unacked - 1)
    <3>1. q.first_unacked \in Nat /\ n \in Nat /\ r.first_unacked = q.first_unacked + n
      BY <1>1, <1>4, <1>9
    <3>2. CASE x < q.first_unacked
      <4>1. x \in 0..(q.first_unacked - 1)
        BY <2>1, <3>1, <3>2
      <4> QED
        BY <4>1 DEF Settled
    <3>3. CASE ~(x < q.first_unacked)
      <4> DEFINE i == x - q.first_unacked + 1
      <4>1. i \in 1..n
        BY <2>1, <3>1, <3>3
      <4>2. i \in 1..len /\ marked[i].acked
        BY <1>6, <4>1
      <4>3. marked[i].seq = q.first_unacked + i - 1
        BY <1>2, <1>3, <4>2
      <4>4. marked[i].seq = x
        BY <2>1, <3>1, <4>3
      <4> QED
        BY <1>11, <4>2, <4>4
    <3> QED
      BY <3>2, <3>3
  <2>2. CASE x \notin 0..(r.first_unacked - 1)
    <3>1. PICK i \in DOMAIN r.packets : r.packets[i].acked /\ x = r.packets[i].seq
      BY <2>2 DEF Settled
    <3>2. r.packets[i] = marked[n + i] /\ n + i \in 1..len
      BY <1>7, <1>9
    <3> QED
      BY <1>11, <3>1, <3>2
  <2> QED
    BY <2>1, <2>2
<1> QED
  BY <1>9, <1>10, <1>12 DEF WellQueued, r

-----------------------------------------------------------------------------
(* PacketOut                                                               *)

(* A packet of the right type, with all of its parts.                      *)
Fits(id, p) == p \in PacketOut /\ Contiguous(id, p.queue)

(* Batch sizes stay between one and the largest one.                       *)
LEMMA BalancedFacts ==
    ASSUME NEW old \in 1..BatchSizeMax, NEW acks \in Nat, NEW last \in Nat
    PROVE  BalanceBatchSize(old, acks, last) \in 1..BatchSizeMax
<1>1. BatchSizeMax \in Nat \ {0} /\ old \in Nat /\ 2 * last \in Nat /\ old \div 2 \in 0..old
  BY BatchSizeAssumption
<1> DEFINE twice == Min({2 * last, BatchSizeMax})
<1>2. twice \in 0..BatchSizeMax
  BY <1>1, MinOfTwo
<1> HIDE DEF twice
<1>3. Max({old, twice}) \in 1..BatchSizeMax
  BY <1>1, <1>2, MaxOfTwo
<1>4. Max({old \div 2, 1}) \in 1..BatchSizeMax
  BY <1>1, MaxOfTwo
<1> QED
  BY <1>3, <1>4 DEF BalanceBatchSize, twice

(* The parts of a packet that fits.                                        *)
LEMMA FitsFacts ==
    ASSUME NEW id, NEW p, Fits(id, p)
    PROVE  /\ WellQueued(id, p.queue) /\ p.last_send \in Nat \cup {None}
           /\ p.missed_acks \in 0..MissedAcksMax /\ p.batch_size \in 1..BatchSizeMax
           /\ p.last_batch_size \in 0..BatchSizeMax /\ p.last_batch_acks \in 0..BatchSizeMax
           /\ p.last_batch_size \in Nat /\ p.last_batch_acks \in Nat /\ p.batch_size \in Nat
  BY BatchSizeAssumption DEF Fits, PacketOut, WellQueued, Queue

(* What send_pending does before it sends.                                 *)
LEMMA PreparedFacts ==
    ASSUME NEW id \in PacketId, NEW p, Fits(id, p)
    PROVE  /\ Fits(id, Prepared(p)) /\ Settled(Prepared(p).queue) = Settled(p.queue)
           /\ Prepared(p).last_send = p.last_send
           /\ Due(p) /\ Unacked(Prepared(p).queue.packets) = <<>> => Prepared(p).queue.rx = 0
<1>1. CASE Due(p)
  <2> DEFINE size == BalanceBatchSize(p.batch_size, p.last_batch_acks, p.last_batch_size)
             queue == Pull(p.queue, size)
  <2>1. size \in 1..BatchSizeMax /\ size \in Nat /\ size > 0
    <3>1. p.batch_size \in 1..BatchSizeMax /\ p.last_batch_acks \in Nat /\ p.last_batch_size \in Nat
      BY FitsFacts, Zenon
    <3>2. size \in 1..BatchSizeMax
      BY <3>1, BalancedFacts, Zenon
    <3> HIDE DEF size
    <3> QED
      BY <3>2, BatchSizeAssumption
  <2> HIDE DEF size
  <2>2. /\ WellQueued(id, queue) /\ Settled(queue) = Settled(p.queue)
        /\ Unacked(queue.packets) = <<>> => queue.rx = 0
    BY <2>1, FitsFacts, PullFacts
  <2> HIDE DEF queue
  <2>3. Prepared(p) = [p EXCEPT !.batch_size = size, !.queue = queue]
    BY <1>1 DEF Prepared, size, queue
  <2>4. /\ Prepared(p) \in PacketOut /\ Prepared(p).queue = queue
        /\ Prepared(p).last_send = p.last_send
    BY <2>1, <2>2, <2>3 DEF Fits, PacketOut, WellQueued, Queue
  <2> QED
    BY <2>2, <2>4 DEF Fits, WellQueued
<1>2. CASE ~Due(p)
  BY <1>2 DEF Prepared
<1> QED
  BY <1>1, <1>2

(* Once nothing is left to send and nothing is left to pull, every part of *)
(* the packet is settled.                                                  *)
LEMMA AllSettled ==
    ASSUME NEW id \in PacketId, NEW q, WellQueued(id, q), Unacked(q.packets) = <<>>, q.rx = 0
    PROVE  Settled(q) = Parts(id)
<1>1. q.packets \in Seq(OutPart) /\ q.first_unacked \in Nat
  BY DEF WellQueued, Queue
<1>2. \A i \in DOMAIN q.packets : q.packets[i].acked
  BY <1>1, UnackedFacts
<1>3. q.packets = <<>>
  <2> SUFFICES ASSUME q.packets # <<>> PROVE FALSE
    OBVIOUS
  <2>1. ~q.packets[1].acked
    BY DEF WellQueued, Contiguous
  <2>2. 1 \in DOMAIN q.packets
    BY <1>1
  <2> QED
    BY <1>2, <2>1, <2>2
<1>4. Len(q.packets) = 0 /\ DOMAIN q.packets = {}
  BY <1>3
<1>5. q.first_unacked + Len(q.packets) + q.rx = NumParts[id]
  BY DEF WellQueued, Contiguous
<1>6. q.first_unacked = NumParts[id]
  BY <1>1, <1>4, <1>5
<1>7. Settled(q) = 0..(q.first_unacked - 1)
  BY <1>4 DEF Settled
<1> QED
  BY <1>6, <1>7 DEF Parts

PartsOf(id) == {PartDatagram(id, seq) : seq \in Parts(id)}

DatagramsOf(id) == {DoneDatagram(id)} \cup PartsOf(id)

(* A part is not a Done.                                                   *)
LEMMA DatagramFacts ==
    ASSUME NEW id \in PacketId
    PROVE  /\ DoneDatagram(id).kind = "Done" /\ DoneDatagram(id).id = id
           /\ \A d \in PartsOf(id) : d.kind # "Done" /\ d.id = id
                                     /\ d.seq \in Parts(id) /\ d = PartDatagram(id, d.seq)
  BY DEF DoneDatagram, PartsOf, PartDatagram

(* send_pending sends nothing, parts of the packet, or a single Done.  The *)
(* latter only if the packet is given up or all of its parts are settled.  *)
LEMMA PendingFacts ==
    ASSUME NEW id \in PacketId, NEW p, Fits(id, p)
    PROVE  /\ Pending(id, p) \in Seq(DatagramsOf(id)) /\ Len(Pending(id, p)) \in 0..BatchSizeMax
           /\ IsDone(Pending(id, p)) => /\ Pending(id, p) = <<DoneDatagram(id)>>
                                        /\ Canceled(p) \/ Settled(p.queue) = Parts(id)
           /\ ~IsDone(Pending(id, p)) => Pending(id, p) \in Seq(PartsOf(id))
<1> DEFINE queue == Prepared(p).queue
           size  == Prepared(p).batch_size
           batch == Batch(queue, size)
<1>1. Fits(id, Prepared(p)) /\ Settled(queue) = Settled(p.queue)
      /\ (Due(p) /\ Unacked(queue.packets) = <<>> => queue.rx = 0)
  BY PreparedFacts
<1>2. WellQueued(id, queue) /\ size \in 1..BatchSizeMax /\ size \in Nat
  BY <1>1, FitsFacts, Zenon
<1>3. BatchSizeMax \in Nat \ {0}
  BY BatchSizeAssumption
<1> HIDE DEF queue, size
<1>4. /\ batch \in Seq(Parts(id)) /\ Len(batch) <= size
      /\ size > 0 /\ batch = <<>> => Unacked(queue.packets) = <<>>
  BY <1>2, BatchFacts, Zenon
<1> HIDE DEF batch
<1>5. CASE Canceled(p) \/ (Due(p) /\ batch = <<>>)
  <2>1. Pending(id, p) = <<DoneDatagram(id)>>
    BY <1>5 DEF Pending, batch, queue, size
  <2>2. Pending(id, p) \in Seq(DatagramsOf(id)) /\ Len(Pending(id, p)) = 1
    BY <2>1 DEF DatagramsOf
  <2>3. IsDone(Pending(id, p))
    BY <2>1, DatagramFacts DEF IsDone
  <2>4. Canceled(p) \/ Settled(p.queue) = Parts(id)
    <3> SUFFICES ASSUME Due(p), batch = <<>> PROVE Settled(p.queue) = Parts(id)
      BY <1>5
    <3>1. size > 0
      BY <1>2, <1>3
    <3>2. Unacked(queue.packets) = <<>>
      BY <1>4, <3>1
    <3>3. queue.rx = 0
      BY <1>1, <3>2
    <3>4. Settled(queue) = Parts(id)
      BY <1>2, <3>2, <3>3, AllSettled, Zenon
    <3> QED
      BY <1>1, <3>4
  <2>5. 1 \in 0..BatchSizeMax
    BY <1>3
  <2> QED
    BY <2>1, <2>2, <2>3, <2>4, <2>5, Zenon
<1>6. CASE ~(Canceled(p) \/ (Due(p) /\ batch = <<>>)) /\ Due(p)
  <2> DEFINE sent == [i \in DOMAIN batch |-> PartDatagram(id, batch[i])]
  <2>1. Pending(id, p) = sent
    BY <1>6 DEF Pending, batch, queue, size
  <2>2. DOMAIN batch = 1..Len(batch) /\ Len(batch) \in Nat /\ \A i \in DOMAIN batch : batch[i] \in Parts(id)
    BY <1>4
  <2>3. \A i \in DOMAIN batch : PartDatagram(id, batch[i]) \in PartsOf(id)
    BY <2>2 DEF PartsOf
  <2>4. sent \in Seq(PartsOf(id)) /\ Len(sent) = Len(batch)
    BY <2>2, <2>3
  <2> HIDE DEF sent
  <2>5. sent \in Seq(DatagramsOf(id))
    BY <2>4 DEF DatagramsOf
  <2>6. ~IsDone(sent)
    <3> SUFFICES ASSUME Len(sent) = 1 PROVE sent[1].kind # "Done"
      BY DEF IsDone
    <3>1. sent[1] \in PartsOf(id)
      BY <2>4
    <3> QED
      BY <3>1, DatagramFacts
  <2>7. Len(sent) \in 0..BatchSizeMax
    <3>1. Len(sent) \in Nat /\ Len(sent) <= size
      BY <1>4, <2>2, <2>4
    <3> HIDE DEF sent
    <3> QED
      BY <1>2, <1>3, <3>1
  <2> QED
    BY <2>1, <2>4, <2>5, <2>6, <2>7
<1>7. CASE ~(Canceled(p) \/ (Due(p) /\ batch = <<>>)) /\ ~Due(p)
  <2>1. Pending(id, p) = <<>>
    BY <1>7 DEF Pending, batch, queue, size
  <2>2. ~IsDone(Pending(id, p)) /\ Len(Pending(id, p)) = 0
    BY <2>1 DEF IsDone
  <2>3. <<>> \in Seq(DatagramsOf(id)) /\ <<>> \in Seq(PartsOf(id)) /\ 0 \in 0..BatchSizeMax
    BY <1>3
  <2> QED
    BY <2>1, <2>2, <2>3
<1> QED
  BY <1>5, <1>6, <1>7

(* Sending what is pending settles nothing, and does not give the packet   *)
(* up.                                                                     *)
LEMMA SentPendingFacts ==
    ASSUME NEW id \in PacketId, NEW p, Fits(id, p), NEW count \in 0..Len(Pending(id, p))
    PROVE  /\ Fits(id, SentPending(id, p, count))
           /\ Settled(SentPending(id, p, count).queue) = Settled(p.queue)
           /\ p.last_send # None => SentPending(id, p, count).last_send # None
<1>1. /\ Fits(id, Prepared(p)) /\ Settled(Prepared(p).queue) = Settled(p.queue)
      /\ Prepared(p).last_send = p.last_send
  BY PreparedFacts
<1>2. CASE IsDone(Pending(id, p)) \/ ~Due(p)
  BY <1>1, <1>2 DEF SentPending
<1>3. CASE ~(IsDone(Pending(id, p)) \/ ~Due(p))
  <2> DEFINE missed == p.last_batch_size - Min({p.last_batch_size, p.last_batch_acks})
             total  == Min({Prepared(p).missed_acks + missed, MissedAcksMax})
             r      == SentPending(id, p, count)
  <2>1. p.last_batch_size \in Nat /\ p.last_batch_acks \in Nat
    BY FitsFacts, Zenon
  <2>2. missed \in Nat
    BY <2>1, MinOfTwo
  <2>3. MissedAcksMax \in Nat /\ Prepared(p).missed_acks \in 0..MissedAcksMax
    BY <1>1, FitsFacts, MissedAcksMaxAssumption
  <2>4. r = [Prepared(p) EXCEPT !.missed_acks = total, !.last_batch_size = count,
                                !.last_batch_acks = 0, !.last_send = 0]
    BY <1>3 DEF SentPending, Resent
  <2> HIDE DEF missed
  <2>5. total \in 0..MissedAcksMax
    <3>1. Prepared(p).missed_acks + missed \in Nat
      BY <2>2, <2>3
    <3> QED
      BY <2>3, <3>1, MinOfTwo
  <2>6. count \in 0..BatchSizeMax /\ 0 \in 0..BatchSizeMax
    <3>1. Len(Pending(id, p)) \in 0..BatchSizeMax
      BY PendingFacts, Zenon
    <3> DEFINE len == Len(Pending(id, p))
    <3>2. len \in 0..BatchSizeMax /\ count \in 0..len
      BY <3>1
    <3> HIDE DEF len
    <3> QED
      BY <3>2, BatchSizeAssumption
  <2> HIDE DEF total, r
  <2>7. r \in PacketOut /\ r.queue = Prepared(p).queue /\ r.last_send = 0
    BY <1>1, <2>4, <2>5, <2>6 DEF Fits, PacketOut
  <2> QED
    BY <1>1, <2>7 DEF Fits, None, r
<1> QED
  BY <1>2, <1>3

(* An ack settles at most the part at its position of the queue.           *)
LEMMA AckedPacketFacts ==
    ASSUME NEW id \in PacketId, NEW p, Fits(id, p), NEW seq \in Nat
    PROVE  /\ Fits(id, AckedPacket(p, seq)) /\ AckedPacket(p, seq).last_send = p.last_send
           /\ \/ Settled(AckedPacket(p, seq).queue) = Settled(p.queue)
              \/ /\ p.queue.first_unacked + seq + 1 <= NumParts[id]
                 /\ Settled(AckedPacket(p, seq).queue)
                      \subseteq Settled(p.queue) \cup {p.queue.first_unacked + seq}
<1> DEFINE heard == [p EXCEPT !.missed_acks = 0]
           r     == AckedPacket(p, seq)
<1>1. 0 \in 0..MissedAcksMax
  BY MissedAcksMaxAssumption
<1>2. /\ heard \in PacketOut /\ heard.queue = p.queue /\ heard.last_send = p.last_send
      /\ heard.last_batch_acks = p.last_batch_acks
  BY <1>1 DEF Fits, PacketOut
<1>3. CASE seq + 1 \notin DOMAIN p.queue.packets \/ p.queue.packets[seq + 1].acked
  <2>1. r = heard
    BY <1>3 DEF AckedPacket
  <2> HIDE DEF heard
  <2> QED
    BY <1>2, <2>1 DEF Fits
<1>4. CASE ~(seq + 1 \notin DOMAIN p.queue.packets \/ p.queue.packets[seq + 1].acked)
  <2> DEFINE queue == Acked(p.queue, seq)
             acks  == Min({p.last_batch_acks + 1, BatchSizeMax})
  <2>1. r = [heard EXCEPT !.queue = Acked(@, seq), !.last_batch_acks = Min({@ + 1, BatchSizeMax})]
    BY <1>4 DEF AckedPacket
  <2>2. r = [heard EXCEPT !.queue = queue, !.last_batch_acks = acks]
    BY <1>2, <2>1
  <2>3. WellQueued(id, p.queue) /\ p.last_batch_acks \in Nat /\ seq + 1 \in DOMAIN p.queue.packets
    BY <1>4, FitsFacts, Zenon
  <2>4. /\ WellQueued(id, queue)
        /\ Settled(queue) \subseteq Settled(p.queue) \cup {p.queue.first_unacked + seq}
    BY <2>3, AckedFacts, Zenon
  <2>5. acks \in 0..BatchSizeMax
    BY <2>3, MinOfTwo, BatchSizeAssumption
  <2>6. p.queue.first_unacked + seq + 1 <= NumParts[id]
    <3>1. /\ p.queue.packets \in Seq(OutPart) /\ p.queue.first_unacked \in Nat /\ p.queue.rx \in Nat
          /\ p.queue.first_unacked + Len(p.queue.packets) + p.queue.rx = NumParts[id]
      BY <2>3 DEF WellQueued, Queue, Contiguous
    <3>2. seq + 1 <= Len(p.queue.packets) /\ Len(p.queue.packets) \in Nat
      BY <2>3, <3>1
    <3> QED
      BY <3>1, <3>2
  <2> HIDE DEF heard, queue, acks, r
  <2>7. r \in PacketOut /\ r.queue = queue /\ r.last_send = p.last_send
    BY <1>2, <2>2, <2>4, <2>5 DEF PacketOut, WellQueued, Queue
  <2> QED
    BY <2>4, <2>6, <2>7 DEF Fits, WellQueued, r
<1> QED
  BY <1>3, <1>4

(* The packet that SendPacketBuffer::send leaves in the map, and the       *)
(* numbers of the parts that it sends.                                     *)
LEMMA NewPacketFacts ==
    ASSUME NEW id \in PacketId, NEW size \in 1..BatchSizeMax,
           NEW queue, queue = Pull(NewPacketQueue(NumParts[id]), size)
    PROVE  /\ WellQueued(id, queue) /\ Settled(queue) = {}
           /\ Batch(queue, size) \in Seq(Parts(id)) /\ Len(Batch(queue, size)) \in 0..BatchSizeMax
           /\ \A last \in {0, None}, count \in 0..Len(Batch(queue, size)) :
                Fits(id, [queue |-> queue, missed_acks |-> 0, batch_size |-> size,
                          last_send |-> last, last_batch_size |-> count, last_batch_acks |-> 0])
<1>1. size \in Nat /\ BatchSizeMax \in Nat
  BY BatchSizeAssumption
<1>2. WellQueued(id, NewPacketQueue(NumParts[id])) /\ Settled(NewPacketQueue(NumParts[id])) = {}
  BY NewQueueFacts
<1>3. WellQueued(id, queue) /\ Settled(queue) = {}
  BY <1>1, <1>2, PullFacts, Zenon
<1> DEFINE batch == Batch(queue, size)
           len == Len(batch)
<1>4. batch \in Seq(Parts(id)) /\ len <= size
  BY <1>1, <1>3, BatchFacts, Zenon
<1>5. len \in Nat
  BY <1>4
<1> HIDE DEF batch, len
<1>6. len \in 0..BatchSizeMax
  BY <1>1, <1>4, <1>5
<1>7. ASSUME NEW last \in {0, None}, NEW count \in 0..len
      PROVE  Fits(id, [queue |-> queue, missed_acks |-> 0, batch_size |-> size,
                       last_send |-> last, last_batch_size |-> count, last_batch_acks |-> 0])
  <2>1. 0 \in 0..MissedAcksMax /\ 0 \in 0..BatchSizeMax /\ count \in 0..BatchSizeMax
    BY <1>1, <1>6, MissedAcksMaxAssumption
  <2>2. last \in Nat \cup {None} /\ queue \in Queue /\ Contiguous(id, queue)
    BY <1>3 DEF WellQueued
  <2> QED
    BY <2>1, <2>2 DEF Fits, PacketOut, Queue
<1> QED
  BY <1>3, <1>4, <1>6, <1>7 DEF batch, len

-----------------------------------------------------------------------------
(* SendPacketBuffer                                                        *)

(* The map holds packets of known ids that fit.                            *)
OutgoingFits ==
    /\ DOMAIN outgoing \subseteq PacketId
    /\ \A id \in DOMAIN outgoing : Fits(id, outgoing[id])

(* The mean of the batch sizes is a batch size.                            *)
LEMMA MeanFacts ==
    ASSUME OutgoingFits, batch_size \in 1..BatchSizeMax
    PROVE  MeanBatchSize \in 1..BatchSizeMax
<1>1. CASE Kept = {}
  BY <1>1 DEF MeanBatchSize
<1>2. CASE Kept # {}
  <2> DEFINE g == [id \in Kept |-> outgoing[id].batch_size]
             pick(s) == CHOOSE x \in s : TRUE
             Iterates(f) == f = [s \in SUBSET Kept |->
                                   IF s = {} THEN 0
                                   ELSE outgoing[pick(s)].batch_size + f[s \ {pick(s)}]]
             sum == CHOOSE f : Iterates(f)
  <2>1. BatchSizeMax \in Nat
    BY BatchSizeAssumption
  <2>2. Kept \subseteq DOMAIN outgoing /\ Kept \subseteq PacketId
    BY DEF Kept, OutgoingFits
  <2>3. IsFiniteSet(Kept) /\ Cardinality(Kept) \in Nat \ {0}
    BY <1>2, <2>2, PacketIdAssumption, FS_Subset, FS_CardinalityType, FS_EmptySet
  <2>4. \A id \in Kept : outgoing[id].batch_size \in 1..BatchSizeMax
    <3> SUFFICES ASSUME NEW id \in Kept PROVE outgoing[id].batch_size \in 1..BatchSizeMax
      OBVIOUS
    <3>1. Fits(id, outgoing[id])
      BY <2>2 DEF OutgoingFits
    <3> QED
      BY <3>1, FitsFacts, Zenon
  <2>5. g \in [Kept -> 1..BatchSizeMax] /\ g \in [Kept -> Nat]
    BY <2>1, <2>4
  <2>6. \A s \in SUBSET Kept : s # {} => pick(s) \in s /\ g[pick(s)] = outgoing[pick(s)].batch_size
    OBVIOUS
  <2>7. ASSUME NEW f
        PROVE  Iterates(f) <=> AddsUp(f, Kept, g)
    <3>1. ASSUME NEW s \in SUBSET Kept
          PROVE  (IF s = {} THEN 0 ELSE outgoing[pick(s)].batch_size + f[s \ {pick(s)}])
                   = (IF s = {} THEN 0 ELSE g[pick(s)] + f[s \ {pick(s)}])
      <4> HIDE DEF pick, g
      <4>1. s # {} => g[pick(s)] = outgoing[pick(s)].batch_size
        BY <2>6, Zenon
      <4> QED
        BY <4>1
    <3> HIDE DEF pick, g
    <3>2. [s \in SUBSET Kept |->
             IF s = {} THEN 0 ELSE outgoing[pick(s)].batch_size + f[s \ {pick(s)}]]
            = [s \in SUBSET Kept |-> IF s = {} THEN 0 ELSE g[pick(s)] + f[s \ {pick(s)}]]
      BY <3>1, Zenon
    <3>3. AddsUp(f, Kept, g) <=>
            f = [s \in SUBSET Kept |-> IF s = {} THEN 0 ELSE g[pick(s)] + f[s \ {pick(s)}]]
      BY DEF AddsUp, pick
    <3> QED
      BY <3>2, <3>3
  <2>8. MapThenSumSet(LAMBDA id : outgoing[id].batch_size, Kept) = sum[Kept]
    BY DEF MapThenSumSet, MapThenFoldSet
  <2> HIDE DEF g, Iterates
  <2>9. \E f : AddsUp(f, Kept, g)
    BY <2>3, <2>5, SumExists, Zenon
  <2>10. AddsUp(sum, Kept, g)
    <3>1. \E f : Iterates(f)
      BY <2>7, <2>9
    <3>2. Iterates(sum)
      BY <3>1
    <3> HIDE DEF sum
    <3> QED
      BY <2>7, <3>2
  <2> HIDE DEF sum
  <2>11. sum[Kept] \in Nat /\ sum[Kept] >= Cardinality(Kept) /\ sum[Kept] <= BatchSizeMax * Cardinality(Kept)
    BY <2>1, <2>3, <2>5, <2>10, SumBounds, Zenon
  <2>12. sum[Kept] \div Cardinality(Kept) \in 1..BatchSizeMax
    BY <2>1, <2>3, <2>11, MeanBounds, Zenon
  <2> QED
    BY <1>2, <2>8, <2>12 DEF MeanBatchSize
<1> QED
  BY <1>1, <1>2

(* What the socket took goes to the end of the channel, as far as it fits. *)
LEMMA TransmitFacts ==
    ASSUME NEW S, NEW channel \in Seq(S), NEW sent \in Seq(S)
    PROVE  LET r == Transmit(channel, sent)
           IN  /\ r \in Seq(S) /\ Len(r) \in Nat /\ Len(r) <= Capacity
               /\ DOMAIN r = 1..Len(r) /\ DOMAIN channel = 1..Len(channel) /\ Len(channel) \in Nat
               /\ \A j \in DOMAIN r : \/ j \in DOMAIN channel /\ r[j] = channel[j]
                                      \/ /\ j > Len(channel) /\ j - Len(channel) \in DOMAIN sent
                                         /\ r[j] = sent[j - Len(channel)]
<1> DEFINE all == channel \o sent
           n == Min({Len(all), Capacity})
           r == SubSeq(all, 1, n)
           c == Len(channel)
           d == Len(sent)
<1>1. /\ all \in Seq(S) /\ Len(all) = c + d /\ c \in Nat /\ d \in Nat
      /\ DOMAIN channel = 1..c /\ DOMAIN sent = 1..d
      /\ \A j \in 1..(c + d) : all[j] = IF j <= c THEN channel[j] ELSE sent[j - c]
  BY ConcatFacts
<1> HIDE DEF all, c, d
<1>2. n \in Nat /\ n <= Capacity /\ n <= c + d
  <2>1. Len(all) \in Nat /\ Capacity \in Nat
    BY <1>1, CapacityAssumption
  <2>2. n = IF Len(all) <= Capacity THEN Len(all) ELSE Capacity
    BY <2>1, MinOfTwo
  <2> HIDE DEF n
  <2> QED
    BY <1>1, <2>1, <2>2
<1> HIDE DEF n
<1>3. r \in Seq(S) /\ Len(r) = n /\ DOMAIN r = 1..n /\ \A j \in 1..n : r[j] = all[j]
  <2>1. n <= Len(all) /\ all \in Seq(S)
    BY <1>1, <1>2
  <2> QED
    BY <1>2, <2>1
<1> HIDE DEF r
<1>4. ASSUME NEW j \in DOMAIN r
      PROVE  \/ j \in DOMAIN channel /\ r[j] = channel[j]
             \/ j > c /\ j - c \in DOMAIN sent /\ r[j] = sent[j - c]
  <2>1. j \in 1..n /\ j \in 1..(c + d)
    <3>1. j \in 1..n
      BY <1>3
    <3>2. c \in Nat /\ d \in Nat
      BY <1>1
    <3> QED
      BY <1>2, <3>1, <3>2
  <2>2. r[j] = IF j <= c THEN channel[j] ELSE sent[j - c]
    BY <1>1, <1>3, <2>1
  <2>3. c \in Nat /\ d \in Nat
    BY <1>1
  <2>4. j <= c => j \in 1..c
    BY <2>1, <2>3
  <2>5. ~(j <= c) => j > c /\ j - c \in 1..d
    BY <2>1, <2>3
  <2> QED
    BY <1>1, <2>2, <2>4, <2>5
<1>5. Transmit(channel, sent) = r
  BY DEF Transmit, r, n, all
<1> QED
  BY <1>1, <1>2, <1>3, <1>4, <1>5 DEF c

(* A run sends no more than what is pending.                               *)
LEMMA RunFacts ==
    ASSUME OutgoingFits, NEW run \in UpdateRuns, NEW id \in Kept
    PROVE  /\ id \in PacketId /\ id \in DOMAIN outgoing /\ Fits(id, outgoing[id])
           /\ run[id].count \in 0..Len(Pending(id, outgoing[id]))
<1> DEFINE n == Len(Pending(id, outgoing[id]))
<1>1. id \in PacketId /\ id \in DOMAIN outgoing /\ Fits(id, outgoing[id])
  BY DEF Kept, OutgoingFits
<1>2. run[id] \in SocketRuns(n)
  BY DEF UpdateRuns
<1>3. n \in Nat
  <2>1. n \in 0..BatchSizeMax
    BY <1>1, PendingFacts, Zenon
  <2> HIDE DEF n
  <2> QED
    BY <2>1, BatchSizeAssumption
<1> HIDE DEF n
<1>4. run[id].count \in 0..n
  BY <1>2, <1>3 DEF SocketRuns
<1> QED
  BY <1>1, <1>4 DEF n

AnyOf(K) == UNION {DatagramsOf(id) : id \in K}

(* What update sends are parts of packets in the map, and single Dones of  *)
(* packets that send_pending is done with; nothing of a packet follows its *)
(* Done.                                                                   *)
LEMMA TakenFacts ==
    ASSUME OutgoingFits, NEW run \in UpdateRuns, NEW upTo \in Nat \ {0}
    PROVE  LET sent == Taken(run, upTo)
           IN  /\ sent \in Seq(AnyOf(Kept))
               /\ \A p \in DOMAIN sent : \E id \in Kept :
                    /\ sent[p].id = id
                    /\ \/ sent[p] \in PartsOf(id)
                       \/ /\ sent[p] = DoneDatagram(id)
                          /\ IsDone(Pending(id, outgoing[id])) /\ run[id].count = 1
                          /\ \A q \in DOMAIN sent : p < q => sent[q].id # id
<1> DEFINE S == AnyOf(Kept)
           part(id) == SubSeq(Pending(id, outgoing[id]), 1, run[id].count)
           seqs == [id \in 1..upTo |-> IF id \in Kept THEN part(id) ELSE <<>>]
           sent == Taken(run, upTo)
<1>1. ASSUME NEW id \in Kept
      PROVE  /\ part(id) \in Seq(DatagramsOf(id)) /\ id \in PacketId
             /\ IsDone(Pending(id, outgoing[id])) =>
                  \A k \in DOMAIN part(id) :
                    k = 1 /\ run[id].count = 1 /\ part(id)[k] = DoneDatagram(id)
             /\ ~IsDone(Pending(id, outgoing[id])) => \A k \in DOMAIN part(id) : part(id)[k] \in PartsOf(id)
  <2> DEFINE all == Pending(id, outgoing[id])
             n   == run[id].count
  <2>1. id \in PacketId /\ Fits(id, outgoing[id]) /\ n \in 0..Len(all)
    BY RunFacts
  <2>2. all \in Seq(DatagramsOf(id)) /\ (IsDone(all) => all = <<DoneDatagram(id)>>)
    BY <2>1, PendingFacts, Zenon
  <2>3. ~IsDone(all) => all \in Seq(PartsOf(id))
    BY <2>1, PendingFacts, Zenon
  <2> HIDE DEF all, n
  <2> DEFINE taken == SubSeq(all, 1, n)
  <2>4. taken \in Seq(DatagramsOf(id)) /\ DOMAIN taken = 1..n /\ n \in Nat
        /\ \A k \in 1..n : taken[k] = all[k] /\ k \in DOMAIN all
    BY <2>1, <2>2
  <2> HIDE DEF taken
  <2>5. ASSUME IsDone(all), NEW k \in DOMAIN taken
        PROVE  k = 1 /\ n = 1 /\ taken[k] = DoneDatagram(id)
    <3>1. Len(all) = 1 /\ all[1] = DoneDatagram(id)
      BY <2>2, <2>5
    <3>2. n \in 0..1 /\ k \in 1..n
      BY <2>1, <2>4, <3>1
    <3>3. k = 1 /\ n = 1
      BY <3>2
    <3> QED
      BY <2>4, <3>1, <3>2, <3>3
  <2>6. ASSUME ~IsDone(all), NEW k \in DOMAIN taken
        PROVE  taken[k] \in PartsOf(id)
    BY <2>3, <2>4, <2>6
  <2> QED
    BY <2>1, <2>4, <2>5, <2>6 DEF taken, all, n
<1> HIDE DEF part
<1>2. ASSUME NEW id \in 1..upTo
      PROVE  seqs[id] \in Seq(S)
  <2>1. CASE id \in Kept
    <3>1. part(id) \in Seq(DatagramsOf(id))
      BY <1>1, <2>1
    <3>2. DatagramsOf(id) \subseteq S
      BY <2>1 DEF AnyOf
    <3>3. part(id) \in Seq(S)
      <4> HIDE DEF S
      <4> QED
        BY <3>1, <3>2
    <3> QED
      BY <2>1, <3>3
  <2>2. CASE id \notin Kept
    BY <2>2
  <2> QED
    BY <2>1, <2>2
<1>3. seqs \in Seq(Seq(S)) /\ Len(seqs) = upTo /\ seqs # <<>>
  <2>1. \A id \in 1..upTo : seqs[id] \in Seq(S)
    BY <1>2
  <2>2. DOMAIN seqs = 1..upTo /\ upTo \in Nat /\ seqs = [id \in 1..upTo |-> seqs[id]]
    OBVIOUS
  <2> HIDE DEF seqs, S
  <2>3. seqs \in Seq(Seq(S)) /\ Len(seqs) = upTo
    BY <2>1, <2>2
  <2>4. Len(seqs) # 0
    BY <2>3
  <2> QED
    BY <2>3, <2>4
<1>4. sent = FlattenSeq(seqs)
  BY DEF Taken, part
<1>5. \A id \in 1..upTo : seqs[id] = IF id \in Kept THEN part(id) ELSE <<>>
  OBVIOUS
<1> HIDE DEF S, seqs, sent
<1>6. sent \in Seq(S) /\ \E b, k : ComesFrom(sent, seqs, upTo, b, k)
  BY <1>3, <1>4, FlattenSeqFacts
<1>7. PICK b, k : ComesFrom(sent, seqs, upTo, b, k)
  BY <1>6
<1>8. ASSUME NEW p \in DOMAIN sent
      PROVE  /\ b[p] \in Kept /\ k[p] \in DOMAIN part(b[p]) /\ sent[p] = part(b[p])[k[p]]
             /\ sent[p].id = b[p]
  <2>1. b[p] \in 1..upTo /\ k[p] \in DOMAIN seqs[b[p]] /\ sent[p] = seqs[b[p]][k[p]]
    BY <1>7 DEF ComesFrom
  <2>2. b[p] \in Kept
    <3> SUFFICES ASSUME b[p] \notin Kept PROVE FALSE
      OBVIOUS
    <3>1. seqs[b[p]] = <<>>
      BY <1>5, <2>1
    <3> QED
      BY <2>1, <3>1
  <2>3. seqs[b[p]] = part(b[p])
    BY <1>5, <2>1, <2>2
  <2>4. sent[p] \in DatagramsOf(b[p]) /\ b[p] \in PacketId
    <3>1. part(b[p]) \in Seq(DatagramsOf(b[p])) /\ b[p] \in PacketId
      BY <1>1, <2>2
    <3> QED
      BY <2>1, <2>3, <3>1
  <2>5. sent[p].id = b[p]
    BY <2>4, DatagramFacts DEF DatagramsOf
  <2> QED
    BY <2>1, <2>2, <2>3, <2>5
<1>9. ASSUME NEW p \in DOMAIN sent
      PROVE  \E id \in Kept :
               /\ sent[p].id = id
               /\ \/ sent[p] \in PartsOf(id)
                  \/ /\ sent[p] = DoneDatagram(id)
                     /\ IsDone(Pending(id, outgoing[id])) /\ run[id].count = 1
                     /\ \A q \in DOMAIN sent : p < q => sent[q].id # id
  <2> DEFINE id == b[p]
  <2>1. id \in Kept /\ k[p] \in DOMAIN part(id) /\ sent[p] = part(id)[k[p]] /\ sent[p].id = id
    BY <1>8
  <2> HIDE DEF id
  <2>2. CASE IsDone(Pending(id, outgoing[id]))
    <3>1. k[p] = 1 /\ run[id].count = 1 /\ sent[p] = DoneDatagram(id)
      BY <1>1, <2>1, <2>2
    <3>2. ASSUME NEW q \in DOMAIN sent, p < q, sent[q].id = id
          PROVE  FALSE
      <4>1. b[q] = id /\ k[q] \in DOMAIN part(id)
        BY <1>8, <3>2
      <4>2. k[q] = 1
        BY <1>1, <2>1, <2>2, <4>1
      <4>3. b[p] < b[q] \/ (b[p] = b[q] /\ k[p] < k[q])
        BY <1>7, <3>2 DEF ComesFrom
      <4>4. b[p] = b[q] /\ b[p] \in Nat
        <5>1. b[p] = id /\ id \in Nat
          BY <1>1, <2>1, PacketIdAssumption DEF id
        <5> QED
          BY <4>1, <5>1
      <4> QED
        BY <3>1, <4>2, <4>3, <4>4
    <3> QED
      BY <2>1, <2>2, <3>1, <3>2
  <2>3. CASE ~IsDone(Pending(id, outgoing[id]))
    <3>1. sent[p] \in PartsOf(id)
      BY <1>1, <2>1, <2>3
    <3> QED
      BY <2>1, <3>1
  <2> QED
    BY <2>2, <2>3
<1> QED
  BY <1>6, <1>9 DEF S, sent

=============================================================================
