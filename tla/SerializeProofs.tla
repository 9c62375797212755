---------------------------- MODULE SerializeProofs ----------------------------
(***************************************************************************)
(* Proofs about Serialize, for every payload size, every threshold and     *)
(* every value: any number of writes of any lengths.                       *)
(***************************************************************************)
EXTENDS Serialize, LibraryFacts, FiniteSetTheorems, SequenceTheorems, TLAPS

-----------------------------------------------------------------------------
(* The inductive invariant                                                 *)

(* The bytes before the part with number n. *)
Start(n) == n * PayloadSize

(* The first m bytes of the part with number n. *)
Slice(n, m) == [k \in 1..m |-> Start(n) + k]

(* The i-th part, if it is not the last one. *)
FullPart(i) == [kind |-> "Part", seq |-> i - 1, data |-> Slice(i - 1, PayloadSize)]

(* What was taken and what is left of the writes make up the value. *)
NothingLost ==
    /\ value \in Seq(Nat) /\ threshold \in Nat
    /\ pos + Cardinality(Bytes(writes)) = Total

(* The caller has filled all buffers but the last one, which it began for  *)
(* a write that was not over.                                              *)
VecFills ==
    control = "vec" =>
        LET n == Len(buf) - 1
        IN  /\ Len(buf) \in 1..threshold /\ packets = <<>> /\ part = EmptyPart(0)
            /\ \A i \in 1..n : buf[i] = FullPart(i)
            /\ pos - Start(n) \in 0..PayloadSize
            /\ LastBuf = [kind |-> "Part", seq |-> n, data |-> Slice(n, pos - Start(n))]
            /\ ~Writing /\ n > 0 => pos > Start(n)

(* The thread hands over what the caller has filled. *)
ThreadHands ==
    control = "handing" =>
        /\ writes = value /\ pos = 0 /\ part = EmptyPart(0) /\ skip = threshold
        /\ Len(packets) + Len(buf) = threshold
        /\ \A i \in DOMAIN buf : buf[i] = FullPart(Len(packets) + i)

(* The thread skips as many parts as were handed over, and fills the next. *)
ThreadFills ==
    control = "writing" =>
        /\ part.kind = "Part" /\ pos = Start(part.seq) + Len(part.data)
        /\ part.seq < threshold => skip = threshold - part.seq /\ Len(packets) = threshold
        /\ part.seq >= threshold =>
             /\ skip = 0 /\ Len(packets) = part.seq
             /\ part.data = Slice(part.seq, Len(part.data))
        /\ ~Writing /\ part.seq > 0 => pos > Start(part.seq)

(* Only the last part is missing. *)
ThreadEnding ==
    control = "last" =>
        NumberOfParts = Len(packets) + 1 /\ part = ReferencePart(NumberOfParts)

IInv ==
    /\ TypeOK /\ NothingLost
    /\ VecFills /\ ThreadHands /\ ThreadFills /\ ThreadEnding
    /\ PartsAreExact /\ ThresholdIsExact /\ NoPanic

-----------------------------------------------------------------------------
(* Numbers of parts                                                        *)

(* Where parts begin.                                                      *)
LEMMA StartFacts ==
    /\ PayloadSize \in Nat \ {0} /\ Start(0) = 0
    /\ \A n \in Nat : Start(n) \in Nat /\ Start(n + 1) = Start(n) + PayloadSize
    /\ \A m, n \in Nat : m < n => Start(m) + PayloadSize <= Start(n)
<1>1. PayloadSize \in Nat \ {0} /\ Start(0) = 0
  BY SizesAssumption DEF Start
<1>2. ASSUME NEW n \in Nat
      PROVE  Start(n) \in Nat /\ Start(n + 1) = Start(n) + PayloadSize
  BY <1>1 DEF Start
<1>3. ASSUME NEW m \in Nat, NEW n \in Nat, m < n
      PROVE  Start(m) + PayloadSize <= Start(n)
  <2>1. PICK d \in Nat : n = m + 1 + d
    <3>1. n - m - 1 \in Nat /\ n = m + 1 + (n - m - 1)
      BY <1>3
    <3> QED
      BY <3>1
  <2>2. n * PayloadSize = m * PayloadSize + PayloadSize + d * PayloadSize
    BY <1>1, <2>1
  <2>3. d * PayloadSize \in Nat /\ m * PayloadSize \in Nat
    BY <1>1
  <2> QED
    BY <1>1, <2>2, <2>3 DEF Start
<1> QED
  BY <1>1, <1>2, <1>3

(* Rounding up: as many parts as it takes, and one for nothing.            *)
LEMMA NumberFacts ==
    ASSUME Total \in Nat
    PROVE  /\ NumberOfParts \in Nat \ {0}
           /\ \A n \in Nat : NumberOfParts > n <=> (n = 0 \/ Total > Start(n))
<1> DEFINE q == (Total + PayloadSize - 1) \div PayloadSize
<1>1. PayloadSize \in Nat \ {0}
  BY StartFacts
<1>2. q \in Nat /\ q * PayloadSize <= Total + PayloadSize - 1
      /\ Total + PayloadSize - 1 < (q + 1) * PayloadSize
  BY <1>1
<1>3. NumberOfParts = IF 1 <= q THEN q ELSE 1
  <2> HIDE DEF q
  <2>1. Max({1, q}) = IF 1 <= q THEN q ELSE 1
    BY <1>2, MaxOfTwo
  <2> QED
    BY <2>1 DEF NumberOfParts, q
<1> HIDE DEF q
<1>4. Start(q) <= Total + PayloadSize - 1 /\ Total <= Start(q) /\ Start(q) \in Nat
  BY <1>1, <1>2, StartFacts DEF Start
<1>5. ASSUME NEW n \in Nat
      PROVE  q > n <=> Total > Start(n)
  <2>1. Start(n) \in Nat
    BY StartFacts
  <2>2. ASSUME q > n PROVE Total > Start(n)
    <3>1. Start(n) + PayloadSize <= Start(q)
      BY <1>2, <2>2, StartFacts
    <3> QED
      BY <1>1, <1>4, <2>1, <3>1
  <2>3. ASSUME ~(q > n) PROVE ~(Total > Start(n))
    <3>1. CASE q = n
      BY <1>4, <3>1
    <3>2. CASE q < n
      <4>1. Start(q) + PayloadSize <= Start(n)
        BY <1>2, <3>2, StartFacts
      <4> QED
        BY <1>1, <1>4, <2>1, <4>1
    <3> QED
      BY <1>2, <2>3, <3>1, <3>2
  <2> QED
    BY <2>2, <2>3
<1>6. ASSUME NEW n \in Nat
      PROVE  NumberOfParts > n <=> (n = 0 \/ q > n)
  BY <1>2, <1>3
<1> QED
  BY <1>2, <1>3, <1>5, <1>6

-----------------------------------------------------------------------------
(* What is left of the writes                                              *)

(* A byte of the writes w.                                                 *)
LEMMA ByteOf ==
    ASSUME NEW w, NEW p
    PROVE  p \in Bytes(w) <=> \E i \in DOMAIN w : p \in {i} \X (1..w[i])
  BY DEF Bytes

(* There are finitely many of them.                                        *)
LEMMA BytesFinite ==
    ASSUME NEW w \in Seq(Nat)
    PROVE  IsFiniteSet(Bytes(w)) /\ Cardinality(Bytes(w)) \in Nat
<1> DEFINE f == [i \in DOMAIN w |-> {i} \X (1..w[i])]
           R == {{i} \X (1..w[i]) : i \in DOMAIN w}
<1>1. DOMAIN w = 1..Len(w) /\ Len(w) \in Nat /\ \A i \in DOMAIN w : w[i] \in Nat
  OBVIOUS
<1>2. IsFiniteSet(DOMAIN w)
  BY <1>1, FS_Interval
<1>3. f \in Surjection(DOMAIN w, R)
  BY DEF Surjection
<1>4. IsFiniteSet(R)
  <2> HIDE DEF f, R
  <2> QED
    BY <1>2, <1>3, FS_Surjection
<1>5. \A i \in DOMAIN w : IsFiniteSet({i} \X (1..w[i]))
  <2> SUFFICES ASSUME NEW i \in DOMAIN w PROVE IsFiniteSet({i} \X (1..w[i]))
    OBVIOUS
  <2>1. IsFiniteSet({i})
    BY FS_Singleton
  <2>2. w[i] \in Int /\ 1 \in Int
    BY <1>1
  <2>3. IsFiniteSet(1..w[i])
    BY <2>2, FS_Interval
  <2> QED
    BY <2>1, <2>3, FS_Product
<1>6. \A T \in R : IsFiniteSet(T)
  BY <1>5
<1>7. IsFiniteSet(UNION R)
  <2> HIDE DEF R
  <2> QED
    BY <1>4, <1>6, FS_UNION
<1>8. IsFiniteSet(Bytes(w))
  BY <1>7 DEF Bytes
<1> QED
  BY <1>8, FS_CardinalityType

(* Taking k bytes of the first write leaves k bytes less.                  *)
LEMMA BytesTaken ==
    ASSUME NEW w \in Seq(Nat), w # <<>>, NEW k \in 0..w[1], NEW v,
           v = [w EXCEPT ![1] = @ - k]
    PROVE  v \in Seq(Nat) /\ Cardinality(Bytes(w)) = Cardinality(Bytes(v)) + k
<1> DEFINE T == {1} \X ((w[1] - k + 1)..w[1])
<1>1. /\ DOMAIN w = 1..Len(w) /\ Len(w) \in Nat /\ 1 \in DOMAIN w
      /\ \A i \in DOMAIN w : w[i] \in Nat
  OBVIOUS
<1>2. w[1] - k \in Nat /\ k \in Nat
  BY <1>1
<1>3. /\ v \in Seq(Nat) /\ DOMAIN v = DOMAIN w /\ v[1] = w[1] - k
      /\ \A i \in DOMAIN w : i # 1 => v[i] = w[i]
  BY <1>1, <1>2
<1>4. \A j : j \in 1..w[1] <=> j \in 1..v[1] \/ j \in (w[1] - k + 1)..w[1]
  BY <1>1, <1>2, <1>3
<1>5. \A j : ~(j \in 1..v[1] /\ j \in (w[1] - k + 1)..w[1])
  BY <1>1, <1>2, <1>3
<1>6. Bytes(w) = Bytes(v) \cup T
  <2> SUFFICES ASSUME NEW p PROVE p \in Bytes(w) <=> p \in Bytes(v) \/ p \in T
    OBVIOUS
  <2>1. \A i \in DOMAIN w : p \in {i} \X (1..w[i]) <=>
                              p \in {i} \X (1..v[i]) \/ (i = 1 /\ p \in T)
    BY <1>3, <1>4
  <2>2. p \in Bytes(v) <=> \E i \in DOMAIN w : p \in {i} \X (1..v[i])
    BY <1>3, ByteOf
  <2>3. p \in Bytes(w) <=> \E i \in DOMAIN w : p \in {i} \X (1..w[i])
    BY ByteOf
  <2> HIDE DEF T
  <2> QED
    BY <1>1, <2>1, <2>2, <2>3, Zenon
<1>7. Bytes(v) \cap T = {}
  <2> SUFFICES ASSUME NEW p \in Bytes(v), p \in T PROVE FALSE
    OBVIOUS
  <2>1. PICK i \in DOMAIN w : p \in {i} \X (1..v[i])
    BY <1>3, ByteOf
  <2>2. i = 1 /\ p[2] \in 1..v[1] /\ p[2] \in (w[1] - k + 1)..w[1]
    BY <2>1
  <2> QED
    BY <1>5, <2>2
<1>8. IsFiniteSet(T) /\ Cardinality(T) = k
  <2>1. IsFiniteSet({1}) /\ Cardinality({1}) = 1
    BY FS_Singleton
  <2>2. w[1] - k + 1 \in Int /\ w[1] \in Int
    BY <1>1, <1>2
  <2>3. /\ IsFiniteSet((w[1] - k + 1)..w[1])
        /\ Cardinality((w[1] - k + 1)..w[1])
             = IF w[1] - k + 1 > w[1] THEN 0 ELSE w[1] - (w[1] - k + 1) + 1
    BY <2>2, FS_Interval
  <2>4. Cardinality((w[1] - k + 1)..w[1]) = k
    BY <1>2, <2>2, <2>3
  <2>5. IsFiniteSet(T) /\ Cardinality(T) = 1 * k
    BY <2>1, <2>3, <2>4, FS_Product
  <2> QED
    BY <1>2, <2>5
<1>9. IsFiniteSet(Bytes(v)) /\ Cardinality(Bytes(v)) \in Nat
  BY <1>3, BytesFinite
<1> HIDE DEF T
<1>10. Cardinality(Bytes(w)) = Cardinality(Bytes(v)) + Cardinality(T) - Cardinality({})
  <2>1. Cardinality(Bytes(v) \cup T)
          = Cardinality(Bytes(v)) + Cardinality(T) - Cardinality(Bytes(v) \cap T)
    BY <1>8, <1>9, FS_Union
  <2> QED
    BY <1>6, <1>7, <2>1
<1>11. Cardinality({}) = 0
  BY FS_EmptySet
<1> QED
  BY <1>2, <1>3, <1>8, <1>9, <1>10, <1>11

(* A write that is over has no bytes left.                                 *)
LEMMA BytesTail ==
    ASSUME NEW w \in Seq(Nat), w # <<>>, w[1] = 0
    PROVE  Tail(w) \in Seq(Nat) /\ Cardinality(Bytes(Tail(w))) = Cardinality(Bytes(w))
<1> DEFINE t == Tail(w)
           f == [p \in Bytes(t) |-> <<p[1] + 1, p[2]>>]
<1>1. /\ t \in Seq(Nat) /\ DOMAIN t = 1..(Len(w) - 1) /\ DOMAIN w = 1..Len(w)
      /\ Len(w) \in Nat \ {0} /\ \A i \in DOMAIN t : t[i] = w[i + 1]
  OBVIOUS
<1> HIDE DEF t
<1>2. ASSUME NEW p \in Bytes(t)
      PROVE  p = <<p[1], p[2]>> /\ p[1] \in Nat /\ f[p] \in Bytes(w)
  <2>1. PICK i \in DOMAIN t : p \in {i} \X (1..t[i])
    BY ByteOf
  <2>2. p = <<p[1], p[2]>> /\ p[1] = i /\ p[2] \in 1..w[i + 1]
    BY <1>1, <2>1
  <2>3. i + 1 \in DOMAIN w /\ i \in Nat
    BY <1>1
  <2>4. <<i + 1, p[2]>> \in {i + 1} \X (1..w[i + 1])
    BY <2>2
  <2>5. <<i + 1, p[2]>> \in Bytes(w)
    BY <2>3, <2>4, ByteOf
  <2> QED
    BY <2>2, <2>3, <2>5
<1>3. f \in [Bytes(t) -> Bytes(w)]
  BY <1>2
<1>4. \A p, q \in Bytes(t) : f[p] = f[q] => p = q
  <2> SUFFICES ASSUME NEW p \in Bytes(t), NEW q \in Bytes(t), f[p] = f[q] PROVE p = q
    OBVIOUS
  <2>1. p[1] + 1 = q[1] + 1 /\ p[2] = q[2]
    OBVIOUS
  <2>2. p[1] = q[1]
    BY <1>2, <2>1
  <2> HIDE DEF f
  <2> QED
    BY <1>2, <2>1, <2>2
<1>5. ASSUME NEW b \in Bytes(w)
      PROVE  \E p \in Bytes(t) : f[p] = b
  <2>1. PICK i \in DOMAIN w : b \in {i} \X (1..w[i])
    BY ByteOf
  <2>2. b = <<i, b[2]>> /\ b[2] \in 1..w[i]
    BY <2>1
  <2>3. i # 1
    BY <2>2
  <2>4. i - 1 \in DOMAIN t /\ (i - 1) + 1 = i /\ t[i - 1] = w[i]
    BY <1>1, <2>3
  <2>5. <<i - 1, b[2]>> \in {i - 1} \X (1..t[i - 1])
    BY <2>2, <2>4
  <2>6. <<i - 1, b[2]>> \in Bytes(t)
    BY <2>4, <2>5, ByteOf
  <2>7. f[<<i - 1, b[2]>>] = b
    BY <2>2, <2>4, <2>6
  <2> HIDE DEF f
  <2> QED
    BY <2>6, <2>7
<1>6. f \in Bijection(Bytes(t), Bytes(w))
  <2> HIDE DEF f
  <2> QED
    BY <1>3, <1>4, <1>5 DEF Bijection, Injection, IsInjective, Surjection
<1>7. ExistsBijection(Bytes(t), Bytes(w))
  <2> HIDE DEF f
  <2> QED
    BY <1>6 DEF ExistsBijection
<1>8. IsFiniteSet(Bytes(t))
  BY <1>1, BytesFinite
<1> QED
  BY <1>1, <1>7, <1>8, FS_Bijection DEF t

(* No bytes are left when the writes are over, and some are while one is   *)
(* going on.                                                               *)
LEMMA BytesLeft ==
    ASSUME NEW w \in Seq(Nat)
    PROVE  /\ w = <<>> => Cardinality(Bytes(w)) = 0
           /\ w # <<>> /\ w[1] > 0 => Cardinality(Bytes(w)) > 0
<1>1. ASSUME w = <<>> PROVE Cardinality(Bytes(w)) = 0
  <2>1. Bytes(w) = {}
    BY <1>1 DEF Bytes
  <2> QED
    BY <2>1, FS_EmptySet
<1>2. ASSUME w # <<>>, w[1] > 0 PROVE Cardinality(Bytes(w)) > 0
  <2>1. 1 \in DOMAIN w /\ <<1, 1>> \in {1} \X (1..w[1])
    BY <1>2
  <2>2. <<1, 1>> \in Bytes(w)
    BY <2>1, ByteOf
  <2>3. Cardinality(Bytes(w)) # 0
    BY <2>2, BytesFinite, FS_EmptySet
  <2> QED
    BY <2>3, BytesFinite
<1> QED
  BY <1>1, <1>2

-----------------------------------------------------------------------------
(* Parts                                                                   *)

(* The bytes of a part form a sequence.                                    *)
LEMMA SliceFacts ==
    ASSUME NEW n \in Nat, NEW m \in Nat
    PROVE  /\ Slice(n, m) \in Seq(Nat) /\ Len(Slice(n, m)) = m
           /\ \A k \in 1..m : Slice(n, m)[k] = Start(n) + k
<1>1. Start(n) \in Nat
  BY StartFacts
<1>2. \A k \in 1..m : Start(n) + k \in Nat
  BY <1>1
<1>3. Slice(n, m) \in [1..m -> Nat]
  BY <1>2 DEF Slice
<1> QED
  BY <1>3 DEF Slice

(* No bytes.                                                               *)
LEMMA SliceEmpty ==
    ASSUME NEW n \in Nat
    PROVE  Slice(n, 0) = <<>>
<1>1. Slice(n, 0) \in Seq(Nat) /\ Len(Slice(n, 0)) = 0
  BY SliceFacts
<1> QED
  BY <1>1

(* Appending the k bytes that follow.                                      *)
LEMMA SliceGrows ==
    ASSUME NEW n \in Nat, NEW m \in Nat, NEW b \in Seq(Nat),
           \A i \in 1..Len(b) : b[i] = Start(n) + m + i
    PROVE  Slice(n, m) \o b = Slice(n, m + Len(b))
<1> DEFINE k == Len(b)
           a == Slice(n, m)
           c == Slice(n, m + k)
<1>1. Start(n) \in Nat
  BY StartFacts
<1>2. a \in Seq(Nat) /\ Len(a) = m /\ \A i \in 1..m : a[i] = Start(n) + i
  BY SliceFacts
<1>3. k \in Nat /\ m + k \in Nat
  OBVIOUS
<1>4. c \in Seq(Nat) /\ Len(c) = m + k /\ \A i \in 1..(m + k) : c[i] = Start(n) + i
  BY <1>3, SliceFacts
<1> HIDE DEF a, c
<1>5. a \o b \in Seq(Nat) /\ Len(a \o b) = m + k
  <2>1. a \in Seq(Nat) /\ Len(a) = m
    BY <1>2
  <2> QED
    BY <2>1
<1>6. ASSUME NEW i \in 1..(m + k)
      PROVE  (a \o b)[i] = c[i]
  <2>1. CASE i <= m
    BY <1>2, <1>4, <2>1
  <2>2. CASE i > m
    <3>1. i - m \in 1..k /\ Start(n) + m + (i - m) = Start(n) + i
      BY <1>1, <1>3, <2>2
    <3>2. (a \o b)[i] = b[i - m]
      BY <1>2, <2>2
    <3> QED
      BY <1>4, <3>1, <3>2
  <2>3. i <= m \/ i > m
    BY <1>3
  <2> QED
    BY <2>1, <2>2, <2>3
<1>7. a \o b = c
  BY <1>4, <1>5, <1>6, SeqEqual
<1> QED
  BY <1>7 DEF a, c

(* The bytes that are taken continue a part.                               *)
LEMMA AppendToFacts ==
    ASSUME NEW n \in Nat, NEW m \in Nat, NEW b, Fitting(b) \in Nat, pos = Start(n) + m,
           b = [kind |-> "Part", seq |-> n, data |-> Slice(n, m)]
    PROVE  AppendTo(b) = [kind |-> "Part", seq |-> n, data |-> Slice(n, m + Fitting(b))]
<1> DEFINE k == Fitting(b)
           t == [i \in 1..k |-> pos + i]
<1>1. k \in Nat /\ pos \in Nat
  <2>1. Start(n) \in Nat
    BY StartFacts
  <2> QED
    BY <2>1
<1>2. Slice(n, m) \o t = Slice(n, m + k)
  <2> HIDE DEF k
  <2>1. \A i \in 1..k : pos + i \in Nat
    BY <1>1
  <2>2. t \in [1..k -> Nat] /\ \A i \in 1..k : t[i] = Start(n) + m + i
    BY <2>1
  <2> HIDE DEF t
  <2>3. t \in Seq(Nat) /\ Len(t) = k
    BY <1>1, <2>2
  <2>4. Slice(n, m) \o t = Slice(n, m + Len(t))
    BY <2>2, <2>3, SliceGrows
  <2> QED
    BY <2>3, <2>4
<1>3. AppendTo(b) = [b EXCEPT !.data = b.data \o t]
  BY DEF AppendTo
<1> HIDE DEF t
<1>4. b.data = Slice(n, m)
  OBVIOUS
<1>5. AppendTo(b) = [b EXCEPT !.data = Slice(n, m + Fitting(b))]
  BY <1>2, <1>3, <1>4
<1> QED
  BY <1>5

(* Parts that are full are no more than that.                              *)
LEMMA FullPartType ==
    ASSUME NEW i \in Nat \ {0}
    PROVE  FullPart(i) \in PartType /\ Len(FullPart(i).data) = PayloadSize
<1>1. i - 1 \in Nat /\ PayloadSize \in Nat
  BY StartFacts
<1>2. Slice(i - 1, PayloadSize) \in Seq(Nat) /\ Len(Slice(i - 1, PayloadSize)) = PayloadSize
  BY <1>1, SliceFacts
<1> QED
  BY <1>1, <1>2 DEF FullPart, PartType

(* All parts before the last one are full.                                 *)
LEMMA ReferenceFull ==
    ASSUME Total \in Nat, NEW i \in Nat \ {0}, i < NumberOfParts
    PROVE  ReferencePart(i) = FullPart(i)
<1>1. i - 1 \in Nat /\ (i - 1) + 1 = i /\ PayloadSize \in Nat
  BY StartFacts
<1>2. Total > Start(i) /\ NumberOfParts \in Nat
  BY NumberFacts
<1>3. Start(i - 1) \in Nat /\ Start(i) = Start(i - 1) + PayloadSize
  BY <1>1, StartFacts
<1>4. Total - Start(i - 1) \in Nat /\ PayloadSize <= Total - Start(i - 1)
  BY <1>1, <1>2, <1>3
<1>5. Min({PayloadSize, Total - Start(i - 1)}) = PayloadSize
  BY <1>1, <1>4, MinOfTwo
<1>6. i # NumberOfParts
  BY <1>2
<1> QED
  BY <1>5, <1>6 DEF ReferencePart, FullPart, Slice, Start

(* The last part has the rest.                                             *)
LEMMA ReferenceLast ==
    ASSUME Total \in Nat, NEW n \in Nat, NumberOfParts = n + 1
    PROVE  /\ Total - Start(n) \in 0..PayloadSize
           /\ ReferencePart(n + 1)
                = [kind |-> "LastPart", seq |-> n, data |-> Slice(n, Total - Start(n))]
<1>0. PayloadSize \in Nat /\ Start(0) = 0 /\ n + 1 \in Nat
  BY StartFacts
<1>1. /\ PayloadSize \in Nat /\ Start(n) \in Nat /\ Start(0) = 0
      /\ n + 1 \in Nat /\ Start(n + 1) = Start(n) + PayloadSize
  BY <1>0, StartFacts
<1>2. (n = 0 \/ Total > Start(n)) /\ ~(Total > Start(n + 1))
  BY <1>1, NumberFacts
<1>3. Total - Start(n) \in 0..PayloadSize
  BY <1>1, <1>2
<1>4. Total - Start(n) \in Nat /\ Total - Start(n) <= PayloadSize
  BY <1>1, <1>3
<1>5. Min({PayloadSize, Total - Start(n)}) = Total - Start(n)
  BY <1>1, <1>4, MinOfTwo
<1>6. (n + 1) - 1 = n
  OBVIOUS
<1> QED
  BY <1>3, <1>5, <1>6 DEF ReferencePart, Slice, Start

(* The reference depends on the value only.                                *)
LEMMA SameReference ==
    ASSUME UNCHANGED value
    PROVE  /\ Total' = Total /\ NumberOfParts' = NumberOfParts
           /\ \A i : ReferencePart(i)' = ReferencePart(i)
<1>1. Total' = Total
  BY DEF Total, Bytes
<1>2. NumberOfParts' = NumberOfParts
  BY <1>1 DEF NumberOfParts
<1> QED
  BY <1>1, <1>2 DEF ReferencePart

-----------------------------------------------------------------------------
(* What the steps have in common                                           *)

(* There are finitely many bytes in all.                                   *)
LEMMA TotalType ==
    ASSUME NothingLost
    PROVE  Total \in Nat
  BY BytesFinite DEF NothingLost, Total

(* A write that is going on puts something into a buffer that is not full, *)
(* and not more than fits.                                                 *)
LEMMA FittingFacts ==
    ASSUME TypeOK, Writing, NEW b \in PartType, Len(b.data) <= PayloadSize, ~Full(b)
    PROVE  /\ Fitting(b) \in Nat \ {0} /\ Fitting(b) <= writes[1]
           /\ Len(b.data) + Fitting(b) <= PayloadSize
<1>1. writes[1] \in Nat \ {0}
  BY DEF TypeOK, Writing
<1>2. Len(b.data) \in Nat /\ PayloadSize \in Nat
  BY StartFacts DEF PartType
<1>3. PayloadSize - Len(b.data) \in Nat \ {0}
  BY <1>2 DEF Full
<1>4. Fitting(b) = IF writes[1] <= PayloadSize - Len(b.data)
                   THEN writes[1] ELSE PayloadSize - Len(b.data)
  BY <1>1, <1>3, MinOfTwo DEF Fitting
<1> QED
  BY <1>1, <1>2, <1>3, <1>4

(* What is consumed was taken from the writes.                             *)
LEMMA ConsumeFacts ==
    ASSUME TypeOK, NothingLost, NEW b \in PartType, Len(b.data) <= PayloadSize, Consume(b),
           UNCHANGED <<value, threshold>>
    PROVE  /\ writes' \in Seq(Nat) /\ pos' \in Nat /\ pos' = pos + Fitting(b)
           /\ Fitting(b) \in Nat \ {0} /\ Len(b.data) + Fitting(b) <= PayloadSize
           /\ NothingLost'
<1>1. /\ Fitting(b) \in Nat \ {0} /\ Fitting(b) <= writes[1]
      /\ Len(b.data) + Fitting(b) <= PayloadSize
  BY FittingFacts DEF Consume
<1>2. writes \in Seq(Nat) /\ writes # <<>> /\ writes[1] \in Nat /\ pos \in Nat
  BY DEF TypeOK, Consume, Writing
<1>3. writes' = [writes EXCEPT ![1] = @ - Fitting(b)] /\ pos' = pos + Fitting(b)
  BY DEF Consume
<1>4. Fitting(b) \in 0..writes[1]
  BY <1>1, <1>2
<1>5. writes' \in Seq(Nat)
      /\ Cardinality(Bytes(writes)) = Cardinality(Bytes(writes')) + Fitting(b)
  BY <1>2, <1>3, <1>4, BytesTaken
<1>6. Cardinality(Bytes(writes')) \in Nat
  BY <1>5, BytesFinite
<1>7. pos' + Cardinality(Bytes(writes')) = Total
  BY <1>1, <1>2, <1>3, <1>5, <1>6 DEF NothingLost
<1>8. NothingLost'
  <2>1. Total' = Total /\ Bytes(writes)' = Bytes(writes')
    BY SameReference DEF Bytes
  <2> QED
    BY <1>7, <2>1 DEF NothingLost
<1> QED
  BY <1>1, <1>2, <1>3, <1>5, <1>8

(* The reference stays, and the queue gets nothing or the next part.       *)
LEMMA ExactAfter ==
    ASSUME NothingLost, PartsAreExact, packets \in Seq(PartType), UNCHANGED value,
           \/ packets' = packets
           \/ /\ Len(packets) < NumberOfParts /\ ReferencePart(Len(packets) + 1) \in PartType
              /\ packets' = Append(packets, ReferencePart(Len(packets) + 1)),
           control' \in {"returned", "ended"} /\ ~dropped' => Len(packets') = NumberOfParts
    PROVE  PartsAreExact'
<1>1. /\ Total' = Total /\ NumberOfParts' = NumberOfParts
      /\ \A i : ReferencePart(i)' = ReferencePart(i)
  BY SameReference
<1>2. NumberOfParts \in Nat
  BY TotalType, NumberFacts
<1>3. Len(packets) <= NumberOfParts /\ \A i \in DOMAIN packets : packets[i] = ReferencePart(i)
  BY DEF PartsAreExact
<1>4. Len(packets') <= NumberOfParts /\ \A i \in DOMAIN packets' : packets'[i] = ReferencePart(i)
  <2>1. CASE packets' = packets
    BY <1>3, <2>1
  <2>2. CASE /\ Len(packets) < NumberOfParts /\ ReferencePart(Len(packets) + 1) \in PartType
             /\ packets' = Append(packets, ReferencePart(Len(packets) + 1))
    <3> DEFINE n == Len(packets)
               b == ReferencePart(n + 1)
    <3> HIDE DEF b
    <3>1. packets' = Append(packets, b) /\ b \in PartType /\ n \in Nat /\ n < NumberOfParts
      BY <2>2 DEF b
    <3>2. /\ Len(packets') = n + 1 /\ DOMAIN packets' = 1..(n + 1) /\ DOMAIN packets = 1..n
          /\ packets'[n + 1] = b /\ \A i \in 1..n : packets'[i] = packets[i]
      <4>1. Len(packets') = n + 1 /\ DOMAIN packets = 1..n
        BY <3>1
      <4>2. packets' \in Seq(PartType)
        BY <3>1
      <4>3. packets'[n + 1] = b
        BY <3>1
      <4>4. \A i \in 1..n : packets'[i] = packets[i]
        BY <3>1
      <4>5. DOMAIN packets' = 1..(n + 1)
        BY <4>1, <4>2
      <4> QED
        BY <4>1, <4>3, <4>4, <4>5
    <3> HIDE DEF n
    <3>3. Len(packets') <= NumberOfParts
      <4>1. Len(packets') = n + 1
        BY <3>2
      <4>2. n + 1 <= NumberOfParts
        BY <1>2, <3>1
      <4> QED
        BY <4>1, <4>2
    <3>4. ASSUME NEW i \in 1..(n + 1)
          PROVE  packets'[i] = ReferencePart(i)
      <4>1. CASE i = n + 1
        BY <3>2, <4>1 DEF b
      <4>2. CASE i # n + 1
        <5>1. i \in 1..n
          BY <3>1, <4>2
        <5> QED
          BY <1>3, <3>2, <5>1
      <4> QED
        BY <4>1, <4>2
    <3> QED
      BY <3>2, <3>3, <3>4
  <2> QED
    BY <2>1, <2>2
<1> QED
  BY <1>1, <1>4 DEF PartsAreExact

(* Nothing of the thread is looked at while the caller serializes.         *)
LEMMA InVec ==
    ASSUME NothingLost, control' = "vec", packets' = <<>>, UNCHANGED value
    PROVE  /\ ThreadHands' /\ ThreadFills' /\ ThreadEnding'
           /\ PartsAreExact' /\ ThresholdIsExact' /\ NoPanic'
<1>1. DOMAIN packets' = {} /\ Len(packets') = 0
  OBVIOUS
<1>2. NumberOfParts' \in Nat
  BY TotalType, NumberFacts, SameReference
<1>3. Len(packets') <= NumberOfParts'
  BY <1>1, <1>2
<1> QED
  BY <1>1, <1>3 DEF ThreadHands, ThreadFills, ThreadEnding, PartsAreExact, ThresholdIsExact, NoPanic

(* The last buffer of the caller.                                          *)
LEMMA VecFacts ==
    ASSUME TypeOK, NothingLost, VecFills, control = "vec"
    PROVE  LET n == Len(buf) - 1
               m == pos - Start(n)
           IN  /\ n \in Nat /\ n + 1 <= threshold /\ threshold \in Nat
               /\ n + 1 = Len(buf) /\ DOMAIN buf = 1..(n + 1)
               /\ Start(n) \in Nat /\ m \in Nat /\ m <= PayloadSize /\ pos = Start(n) + m
               /\ packets = <<>> /\ part = EmptyPart(0) /\ \A i \in 1..n : buf[i] = FullPart(i)
               /\ buf[n + 1] = [kind |-> "Part", seq |-> n, data |-> Slice(n, m)]
               /\ LastBuf = buf[n + 1] /\ LastBuf \in PartType /\ Len(LastBuf.data) = m
               /\ ~Writing /\ n > 0 => m > 0
<1> DEFINE n == Len(buf) - 1
           m == pos - Start(n)
<1>1. buf \in Seq(PartType) /\ Len(buf) \in Nat /\ DOMAIN buf = 1..Len(buf) /\ pos \in Nat
      /\ threshold \in Nat
  BY DEF TypeOK, NothingLost
<1>2. /\ Len(buf) \in 1..threshold /\ packets = <<>> /\ part = EmptyPart(0)
      /\ \A i \in 1..n : buf[i] = FullPart(i)
      /\ m \in 0..PayloadSize
      /\ LastBuf = [kind |-> "Part", seq |-> n, data |-> Slice(n, m)]
      /\ ~Writing /\ n > 0 => pos > Start(n)
  BY DEF VecFills
<1>3. n \in Nat /\ n + 1 = Len(buf) /\ n + 1 <= threshold /\ PayloadSize \in Nat
  BY <1>1, <1>2, StartFacts
<1>4. Start(n) \in Nat
  BY <1>3, StartFacts
<1>5. m \in Nat /\ m <= PayloadSize /\ pos = Start(n) + m
  BY <1>1, <1>2, <1>3, <1>4
<1>6. LastBuf = buf[n + 1] /\ LastBuf \in PartType
  BY <1>1, <1>2, <1>3 DEF LastBuf
<1>7. Len(LastBuf.data) = m
  <2>1. LastBuf.data = Slice(n, m)
    BY <1>2
  <2> QED
    BY <1>3, <1>5, <2>1, SliceFacts
<1>8. ~Writing /\ n > 0 => m > 0
  BY <1>1, <1>2, <1>4
<1> QED
  BY <1>1, <1>2, <1>3, <1>4, <1>5, <1>6, <1>7, <1>8

-----------------------------------------------------------------------------
(* Every step keeps the invariant                                          *)

(* The caller starts with an empty buffer, or leaves it all to the thread. *)
LEMMA InitInv == Init => IInv
<1> SUFFICES ASSUME Init PROVE IInv
  OBVIOUS
<1>1. /\ value \in Seq(Nat) /\ threshold \in Nat /\ writes = value /\ pos = 0
      /\ part = EmptyPart(0) /\ skip = 0 /\ packets = <<>> /\ want = 0 /\ dropped = FALSE
      /\ control = IF threshold = 0 THEN "handing" ELSE "vec"
      /\ buf = IF threshold = 0 THEN <<>> ELSE <<EmptyPart(0)>>
  BY ValuesAssumption, SizesAssumption DEF Init
<1>2. /\ EmptyPart(0) \in PartType /\ Len(EmptyPart(0).data) = 0
      /\ PayloadSize \in Nat \ {0}
  BY StartFacts DEF EmptyPart, PartType
<1>3. TypeOK
  <2>1. buf \in Seq(PartType) /\ \A i \in DOMAIN buf : buf[i] = EmptyPart(0)
    BY <1>1, <1>2
  <2>2. \A i \in DOMAIN buf : Len(buf[i].data) <= PayloadSize
    BY <1>2, <2>1
  <2>3. part \in PartType /\ Len(part.data) <= PayloadSize
    BY <1>1, <1>2
  <2>4. packets \in Seq(PartType)
    BY <1>1
  <2> QED
    BY <1>1, <2>1, <2>2, <2>3, <2>4 DEF TypeOK
<1>4. NothingLost
  <2>1. Total \in Nat
    BY <1>1, BytesFinite DEF Total
  <2> QED
    BY <1>1, <2>1 DEF NothingLost, Total
<1>5. VecFills
  <2> SUFFICES ASSUME control = "vec" PROVE VecFills
    BY DEF VecFills
  <2>1. threshold # 0 /\ buf = <<EmptyPart(0)>>
    BY <1>1
  <2>2. Len(buf) = 1 /\ LastBuf = EmptyPart(0)
    BY <2>1 DEF LastBuf
  <2>3. Start(0) = 0 /\ Slice(0, 0) = <<>>
    BY StartFacts, SliceEmpty
  <2>4. Len(buf) - 1 = 0 /\ pos - Start(0) = 0 /\ Len(buf) \in 1..threshold
    BY <1>1, <2>1, <2>2, <2>3
  <2> QED
    BY <1>1, <1>2, <2>2, <2>3, <2>4 DEF VecFills, EmptyPart
<1>6. ThreadHands
  <2> SUFFICES ASSUME control = "handing" PROVE ThreadHands
    BY DEF ThreadHands
  <2>1. threshold = 0 /\ buf = <<>>
    BY <1>1
  <2> QED
    BY <1>1, <2>1 DEF ThreadHands
<1>7. ThreadFills /\ ThreadEnding /\ NoPanic
  BY <1>1 DEF ThreadFills, ThreadEnding, NoPanic
<1>8. NumberOfParts \in Nat \ {0}
  BY <1>4, TotalType, NumberFacts
<1>9. PartsAreExact /\ ThresholdIsExact
  BY <1>1, <1>8 DEF PartsAreExact, ThresholdIsExact
<1> QED
  BY <1>3, <1>4, <1>5, <1>6, <1>7, <1>9 DEF IInv

(* The caller fills its last buffer.                                       *)
LEMMA VecAppendInv ==
    ASSUME IInv, VecAppend
    PROVE  IInv'
<1> USE DEF IInv
<1> DEFINE n == Len(buf) - 1
           m == pos - Start(n)
           f == Fitting(LastBuf)
           new == [kind |-> "Part", seq |-> n, data |-> Slice(n, m + f)]
<1>1. /\ control = "vec" /\ Consume(LastBuf)
      /\ buf' = [buf EXCEPT ![Len(buf)] = AppendTo(@)]
      /\ UNCHANGED <<value, threshold, control, part, skip, packets, want, dropped>>
  BY DEF VecAppend
<1>2. /\ n \in Nat /\ n + 1 <= threshold /\ threshold \in Nat
      /\ n + 1 = Len(buf) /\ DOMAIN buf = 1..(n + 1)
      /\ Start(n) \in Nat /\ m \in Nat /\ m <= PayloadSize /\ pos = Start(n) + m
      /\ packets = <<>> /\ part = EmptyPart(0) /\ \A i \in 1..n : buf[i] = FullPart(i)
      /\ buf[n + 1] = [kind |-> "Part", seq |-> n, data |-> Slice(n, m)]
      /\ LastBuf = buf[n + 1] /\ LastBuf \in PartType /\ Len(LastBuf.data) = m
  BY <1>1, VecFacts
<1>3. /\ writes' \in Seq(Nat) /\ pos' \in Nat /\ pos' = pos + f
      /\ f \in Nat \ {0} /\ m + f <= PayloadSize /\ NothingLost'
  BY <1>1, <1>2, ConsumeFacts
<1> HIDE DEF f, m, n
<1>4. AppendTo(LastBuf) = new
  <2>1. f \in Nat
    BY <1>3
  <2> QED
    BY <1>2, <2>1, AppendToFacts DEF f
<1>5. m + f \in Nat /\ PayloadSize \in Nat
  <2>1. m \in Nat /\ f \in Nat
    BY <1>2, <1>3
  <2>2. PayloadSize \in Nat
    BY StartFacts
  <2> QED
    BY <2>1, <2>2
<1>6. new \in PartType /\ Len(new.data) = m + f
  BY <1>2, <1>5, SliceFacts DEF PartType
<1>7. buf' = [buf EXCEPT ![n + 1] = new]
  BY <1>1, <1>2, <1>4
<1> HIDE DEF new
<1>8. /\ buf' \in Seq(PartType) /\ Len(buf') = n + 1 /\ DOMAIN buf' = DOMAIN buf
      /\ \A i \in 1..(n + 1) : buf'[i] = IF i = n + 1 THEN new ELSE buf[i]
  BY <1>2, <1>6, <1>7 DEF TypeOK
<1>9. TypeOK'
  <2>1. \A i \in DOMAIN buf' : Len(buf'[i].data) <= PayloadSize
    BY <1>2, <1>3, <1>6, <1>8 DEF TypeOK
  <2> QED
    BY <1>1, <1>3, <1>8, <2>1 DEF TypeOK
<1>10. VecFills'
  <2>1. Len(buf') - 1 = n /\ Len(buf') \in 1..threshold'
    BY <1>1, <1>2, <1>8
  <2>2. \A i \in 1..n : buf'[i] = FullPart(i)
    BY <1>2, <1>8
  <2>3. pos' - Start(n) = m + f /\ m + f \in 0..PayloadSize /\ pos' > Start(n)
    BY <1>2, <1>3, <1>5
  <2>4. LastBuf' = [kind |-> "Part", seq |-> n, data |-> Slice(n, pos' - Start(n))]
    BY <1>2, <1>8, <2>3 DEF LastBuf, new
  <2> QED
    BY <1>1, <1>2, <2>1, <2>2, <2>3, <2>4 DEF VecFills
<1> QED
  BY <1>1, <1>2, <1>3, <1>9, <1>10, InVec

(* The caller begins another buffer: the write is not over.                *)
LEMMA VecNextInv ==
    ASSUME IInv, VecNext
    PROVE  IInv'
<1> USE DEF IInv
<1> DEFINE n == Len(buf) - 1
           m == pos - Start(n)
           new == EmptyPart(n + 1)
<1>1. /\ control = "vec" /\ Writing /\ Full(LastBuf) /\ Len(buf) # threshold
      /\ buf' = Append(buf, NextPart(LastBuf))
      /\ UNCHANGED <<value, threshold, control, writes, pos, part, skip, packets, want, dropped>>
  BY DEF VecNext, thread
<1>2. /\ n \in Nat /\ n + 1 <= threshold /\ threshold \in Nat
      /\ n + 1 = Len(buf) /\ DOMAIN buf = 1..(n + 1)
      /\ Start(n) \in Nat /\ m \in Nat /\ m <= PayloadSize /\ pos = Start(n) + m
      /\ packets = <<>> /\ part = EmptyPart(0) /\ \A i \in 1..n : buf[i] = FullPart(i)
      /\ buf[n + 1] = [kind |-> "Part", seq |-> n, data |-> Slice(n, m)]
      /\ LastBuf = buf[n + 1] /\ LastBuf \in PartType /\ Len(LastBuf.data) = m
  BY <1>1, VecFacts
<1> HIDE DEF m, n
<1>3. m = PayloadSize
  BY <1>1, <1>2 DEF Full
<1>4. NextPart(LastBuf) = new
  BY <1>2 DEF NextPart
<1>5. /\ new \in PartType /\ Len(new.data) = 0
      /\ new = [kind |-> "Part", seq |-> n + 1, data |-> <<>>]
  BY <1>2 DEF EmptyPart, PartType
<1> HIDE DEF new
<1>6. /\ buf' \in Seq(PartType) /\ Len(buf') = n + 2
      /\ \A i \in 1..(n + 1) : buf'[i] = buf[i]
      /\ buf'[n + 2] = new
  <2>1. buf \in Seq(PartType) /\ buf' = Append(buf, new)
    BY <1>1, <1>4 DEF TypeOK
  <2> QED
    BY <1>2, <1>5, <2>1
<1>7. DOMAIN buf' = 1..(n + 2)
  BY <1>6
<1>8. TypeOK'
  <2>1. \A i \in 1..(n + 2) : i \in 1..(n + 1) \/ i = n + 2
    BY <1>2
  <2>2. PayloadSize \in Nat /\ \A i \in 1..(n + 1) : Len(buf[i].data) <= PayloadSize
    BY <1>2, StartFacts DEF TypeOK
  <2>3. Len(new.data) <= PayloadSize
    BY <1>5, <2>2
  <2>4. \A i \in DOMAIN buf' : Len(buf'[i].data) <= PayloadSize
    BY <1>6, <1>7, <2>1, <2>2, <2>3
  <2> QED
    BY <1>1, <1>6, <2>4 DEF TypeOK
<1>9. NothingLost'
  BY <1>1, SameReference DEF NothingLost, Bytes
<1>10. VecFills'
  <2>1. Len(buf') - 1 = n + 1 /\ Len(buf') \in 1..threshold'
    BY <1>1, <1>2, <1>6
  <2>2. buf[n + 1] = FullPart(n + 1)
    BY <1>2, <1>3 DEF FullPart
  <2>3. \A i \in 1..(n + 1) : buf'[i] = FullPart(i)
    <3>1. \A i \in 1..(n + 1) : i \in 1..n \/ i = n + 1
      BY <1>2
    <3> QED
      BY <1>2, <1>6, <2>2, <3>1
  <2>4. Start(n + 1) = Start(n) + PayloadSize /\ PayloadSize \in Nat
    BY <1>2, StartFacts
  <2>5. pos' - Start(n + 1) = 0 /\ 0 \in 0..PayloadSize
    BY <1>1, <1>2, <1>3, <2>4
  <2>6. Slice(n + 1, 0) = <<>>
    BY <1>2, SliceEmpty
  <2>7. LastBuf' = [kind |-> "Part", seq |-> n + 1, data |-> Slice(n + 1, pos' - Start(n + 1))]
    BY <1>5, <1>6, <2>5, <2>6 DEF LastBuf
  <2>8. Writing'
    BY <1>1 DEF Writing
  <2> QED
    BY <1>1, <1>2, <2>1, <2>3, <2>5, <2>7, <2>8 DEF VecFills
<1> QED
  BY <1>1, <1>2, <1>8, <1>9, <1>10, InVec

(* A write ends: nothing of it is left.                                    *)
LEMMA EndOfWriteInv ==
    ASSUME IInv, EndOfWrite
    PROVE  IInv'
<1> USE DEF IInv
<1>1. /\ writes # <<>> /\ writes[1] = 0 /\ writes' = Tail(writes) /\ writes \in Seq(Nat)
      /\ control \in {"vec", "writing"}
      /\ UNCHANGED <<value, threshold, control, pos, buf, part, skip, packets, want, dropped>>
  BY DEF EndOfWrite, TypeOK
<1>2. writes' \in Seq(Nat) /\ Cardinality(Bytes(writes')) = Cardinality(Bytes(writes))
  BY <1>1, BytesTail
<1>3. ~Writing
  BY <1>1 DEF Writing
<1>4. TypeOK'
  BY <1>1, <1>2 DEF TypeOK
<1>5. NothingLost'
  <2>1. Total' = Total /\ Bytes(writes)' = Bytes(writes')
    BY <1>1, SameReference DEF Bytes
  <2> QED
    BY <1>1, <1>2, <2>1 DEF NothingLost
<1>6. VecFills'
  <2>1. LastBuf' = LastBuf
    BY <1>1 DEF LastBuf
  <2> QED
    BY <1>1, <1>3, <2>1 DEF VecFills
<1>7. ThreadFills'
  BY <1>1, <1>3 DEF ThreadFills
<1>8. ThreadHands' /\ ThreadEnding' /\ NoPanic'
  BY <1>1 DEF ThreadHands, ThreadEnding, NoPanic
<1>9. PartsAreExact' /\ ThresholdIsExact'
  BY <1>1, SameReference DEF PartsAreExact, ThresholdIsExact
<1> QED
  BY <1>4, <1>5, <1>6, <1>7, <1>8, <1>9

(* While a write is going on, there is another part to come.               *)
LEMMA MoreToCome ==
    ASSUME TypeOK, NothingLost, Writing, NEW n \in Nat, pos = Start(n)
    PROVE  NumberOfParts > n
<1>1. Cardinality(Bytes(writes)) > 0 /\ Cardinality(Bytes(writes)) \in Nat
  BY BytesLeft, BytesFinite DEF TypeOK, Writing
<1>2. Total \in Nat /\ Start(n) \in Nat
  BY TotalType, StartFacts
<1>3. Total > Start(n)
  BY <1>1, <1>2 DEF NothingLost
<1> QED
  BY <1>2, <1>3, NumberFacts

(* The caller hands over to a thread at the threshold.                     *)
LEMMA VecLimitInv ==
    ASSUME IInv, VecLimit
    PROVE  IInv'
<1> USE DEF IInv
<1> DEFINE n == Len(buf) - 1
           m == pos - Start(n)
<1>1. /\ control = "vec" /\ Writing /\ Full(LastBuf) /\ Len(buf) = threshold
      /\ control' = "handing" /\ skip' = Len(buf) /\ writes' = value /\ pos' = 0
      /\ UNCHANGED <<value, threshold, buf, part, packets, want, dropped>>
  BY DEF VecLimit, SkipCount
<1>2. /\ n \in Nat /\ n + 1 <= threshold /\ threshold \in Nat
      /\ n + 1 = Len(buf) /\ DOMAIN buf = 1..(n + 1)
      /\ Start(n) \in Nat /\ m \in Nat /\ m <= PayloadSize /\ pos = Start(n) + m
      /\ packets = <<>> /\ part = EmptyPart(0) /\ \A i \in 1..n : buf[i] = FullPart(i)
      /\ buf[n + 1] = [kind |-> "Part", seq |-> n, data |-> Slice(n, m)]
      /\ LastBuf = buf[n + 1] /\ LastBuf \in PartType /\ Len(LastBuf.data) = m
  BY <1>1, VecFacts
<1> HIDE DEF m, n
<1>3. m = PayloadSize
  BY <1>1, <1>2 DEF Full
<1>4. NumberOfParts > threshold
  <2>1. Start(n + 1) = Start(n) + PayloadSize
    BY <1>2, StartFacts
  <2>2. threshold = n + 1 /\ pos = Start(n + 1)
    BY <1>1, <1>2, <1>3, <2>1
  <2> QED
    BY <1>1, <1>2, <2>2, MoreToCome
<1>5. TypeOK'
  BY <1>1, <1>2 DEF TypeOK, NothingLost
<1>6. NothingLost'
  <2>1. Total \in Nat /\ Total' = Total
    BY <1>1, TotalType, SameReference
  <2>2. Bytes(writes)' = Bytes(value)
    BY <1>1 DEF Bytes
  <2> QED
    BY <1>1, <2>1, <2>2 DEF NothingLost, Total
<1>7. ThreadHands'
  <2>1. Len(packets') = 0 /\ Len(packets') + Len(buf') = threshold'
    BY <1>1, <1>2
  <2>2. buf[n + 1] = FullPart(n + 1)
    BY <1>2, <1>3 DEF FullPart
  <2>3. \A i \in 1..(n + 1) : buf[i] = FullPart(i)
    <3>1. \A i \in 1..(n + 1) : i \in 1..n \/ i = n + 1
      BY <1>2
    <3> QED
      BY <1>2, <2>2, <3>1
  <2>4. \A i \in 1..(n + 1) : 0 + i = i
    BY <1>2
  <2>5. \A i \in DOMAIN buf' : buf'[i] = FullPart(Len(packets') + i)
    BY <1>1, <1>2, <2>1, <2>3, <2>4
  <2> QED
    BY <1>1, <1>2, <2>1, <2>5 DEF ThreadHands
<1>8. VecFills' /\ ThreadFills' /\ ThreadEnding' /\ NoPanic'
  BY <1>1 DEF VecFills, ThreadFills, ThreadEnding, NoPanic
<1>9. PartsAreExact' /\ ThresholdIsExact'
  BY <1>1, <1>4, SameReference DEF PartsAreExact, ThresholdIsExact
<1> QED
  BY <1>5, <1>6, <1>7, <1>8, <1>9

(* All was taken: the part with number n is the last one if it has the     *)
(* last byte, or is the only one.                                          *)
LEMMA AllTaken ==
    ASSUME TypeOK, NothingLost, writes = <<>>, NEW n \in Nat, NEW m \in Nat, m <= PayloadSize,
           pos = Start(n) + m, n > 0 => m > 0
    PROVE  /\ Total = Start(n) + m /\ NumberOfParts = n + 1
           /\ ReferencePart(n + 1) = [kind |-> "LastPart", seq |-> n, data |-> Slice(n, m)]
<1>1. Cardinality(Bytes(writes)) = 0
  BY BytesLeft DEF TypeOK
<1>2. /\ Start(n) \in Nat /\ PayloadSize \in Nat /\ Total \in Nat /\ n + 1 \in Nat
      /\ pos \in Nat
  BY StartFacts, TotalType DEF TypeOK
<1>3. Total = Start(n) + m
  BY <1>1, <1>2 DEF NothingLost
<1>4. Start(n + 1) = Start(n) + PayloadSize
  BY StartFacts
<1>5. (n = 0 \/ Total > Start(n)) /\ ~(n + 1 = 0) /\ ~(Total > Start(n + 1))
  BY <1>2, <1>3, <1>4
<1>6. NumberOfParts > n /\ ~(NumberOfParts > n + 1) /\ NumberOfParts \in Nat
  BY <1>2, <1>5, NumberFacts
<1>7. NumberOfParts = n + 1
  BY <1>2, <1>6
<1>8. Total - Start(n) = m
  BY <1>2, <1>3
<1> QED
  BY <1>2, <1>3, <1>7, <1>8, ReferenceLast

(* The caller is done: it has all parts.                                   *)
LEMMA VecDoneInv ==
    ASSUME IInv, VecDone
    PROVE  IInv'
<1> USE DEF IInv
<1> DEFINE n == Len(buf) - 1
           m == pos - Start(n)
           last == [kind |-> "LastPart", seq |-> n, data |-> Slice(n, m)]
<1>1. /\ control = "vec" /\ writes = <<>> /\ control' = "returned"
      /\ packets' = [buf EXCEPT ![Len(buf)] = MarkLast(@)]
      /\ UNCHANGED <<value, threshold, writes, pos, part, skip, buf, want, dropped>>
  BY DEF VecDone, thread
<1>2. /\ n \in Nat /\ n + 1 <= threshold /\ threshold \in Nat
      /\ n + 1 = Len(buf) /\ DOMAIN buf = 1..(n + 1)
      /\ Start(n) \in Nat /\ m \in Nat /\ m <= PayloadSize /\ pos = Start(n) + m
      /\ packets = <<>> /\ part = EmptyPart(0) /\ \A i \in 1..n : buf[i] = FullPart(i)
      /\ buf[n + 1] = [kind |-> "Part", seq |-> n, data |-> Slice(n, m)]
      /\ LastBuf = buf[n + 1] /\ LastBuf \in PartType /\ Len(LastBuf.data) = m
      /\ ~Writing /\ n > 0 => m > 0
  BY <1>1, VecFacts
<1>3. ~Writing
  BY <1>1 DEF Writing
<1> HIDE DEF m, n
<1>4. NumberOfParts = n + 1 /\ ReferencePart(n + 1) = last
  BY <1>1, <1>2, <1>3, AllTaken
<1>5. MarkLast(buf[n + 1]) = last /\ last \in PartType
  <2>1. Slice(n, m) \in Seq(Nat)
    BY <1>2, SliceFacts
  <2>2. last \in PartType
    BY <1>2, <2>1 DEF PartType
  <2>3. MarkLast(buf[n + 1]) = last
    BY <1>2 DEF MarkLast
  <2> QED
    BY <2>2, <2>3
<1> HIDE DEF last
<1>6. packets' = [buf EXCEPT ![n + 1] = last]
  BY <1>1, <1>2, <1>5
<1>7. /\ packets' \in Seq(PartType) /\ Len(packets') = n + 1 /\ DOMAIN packets' = 1..(n + 1)
      /\ \A i \in 1..(n + 1) : packets'[i] = IF i = n + 1 THEN last ELSE buf[i]
  <2>1. buf \in Seq(PartType)
    BY DEF TypeOK
  <2> QED
    BY <1>2, <1>5, <1>6, <2>1
<1>8. TypeOK'
  BY <1>1, <1>7 DEF TypeOK
<1>9. NothingLost'
  BY <1>1, SameReference DEF NothingLost, Bytes
<1>10. ASSUME NEW i \in 1..(n + 1)
       PROVE  packets'[i] = ReferencePart(i)
  <2>1. CASE i = n + 1
    BY <1>4, <1>7, <2>1
  <2>2. CASE i # n + 1
    <3>1. i \in 1..n /\ i \in Nat \ {0} /\ i < NumberOfParts
      BY <1>2, <1>4, <2>2
    <3>2. ReferencePart(i) = FullPart(i)
      BY <3>1, TotalType, ReferenceFull
    <3> QED
      BY <1>2, <1>7, <2>2, <3>1, <3>2
  <2> QED
    BY <2>1, <2>2
<1>11. PartsAreExact'
  <2>1. Len(packets') <= NumberOfParts
    BY <1>2, <1>4, <1>7
  <2> QED
    BY <1>1, <1>4, <1>7, <1>10, <2>1, SameReference DEF PartsAreExact
<1>12. ThresholdIsExact'
  BY <1>1, <1>2, <1>4, SameReference DEF ThresholdIsExact
<1>13. VecFills' /\ ThreadHands' /\ ThreadFills' /\ ThreadEnding' /\ NoPanic'
  BY <1>1 DEF VecFills, ThreadHands, ThreadFills, ThreadEnding, NoPanic
<1> QED
  BY <1>8, <1>9, <1>11, <1>12, <1>13

(* The thread hands over a part of the caller.                             *)
LEMMA HandSerializedInv ==
    ASSUME IInv, HandSerialized
    PROVE  IInv'
<1> USE DEF IInv
<1> DEFINE n == Len(packets)
<1>1. /\ control = "handing" /\ buf # <<>> /\ want > 0 /\ want' = want - 1
      /\ packets' = Append(packets, Head(buf)) /\ buf' = Tail(buf)
      /\ UNCHANGED <<value, threshold, control, writes, pos, part, skip, dropped>>
  BY DEF HandSerialized, HandOver, thread
<1>2. /\ buf \in Seq(PartType) /\ packets \in Seq(PartType) /\ n \in Nat /\ want \in Nat
      /\ \A i \in DOMAIN buf : Len(buf[i].data) <= PayloadSize
  BY DEF TypeOK
<1>3. /\ writes = value /\ pos = 0 /\ part = EmptyPart(0) /\ skip = threshold
      /\ n + Len(buf) = threshold /\ \A i \in DOMAIN buf : buf[i] = FullPart(n + i)
  BY <1>1 DEF ThreadHands
<1>4. NumberOfParts > threshold /\ NumberOfParts \in Nat /\ threshold \in Nat
  BY <1>1, TotalType, NumberFacts DEF ThresholdIsExact, NothingLost
<1>5. /\ Len(buf) \in Nat \ {0} /\ Head(buf) = buf[1] /\ 1 \in DOMAIN buf /\ Head(buf) \in PartType
      /\ buf' \in Seq(PartType) /\ Len(buf') = Len(buf) - 1
      /\ \A i \in DOMAIN buf' : i \in Nat /\ i + 1 \in DOMAIN buf /\ buf'[i] = buf[i + 1]
  BY <1>1, <1>2
<1>6. /\ packets' \in Seq(PartType) /\ Len(packets') = n + 1
  BY <1>1, <1>2, <1>5
<1> HIDE DEF n
<1>7. Head(buf) = ReferencePart(n + 1) /\ n < NumberOfParts
  <2>1. n \in Nat /\ Len(buf) \in Nat \ {0} /\ n + Len(buf) = threshold
    BY <1>2, <1>3, <1>5
  <2>2. n + 1 \in Nat \ {0} /\ n + 1 < NumberOfParts /\ n < NumberOfParts
    BY <1>4, <2>1
  <2>3. ReferencePart(n + 1) = FullPart(n + 1)
    BY <2>2, TotalType, ReferenceFull
  <2>4. Head(buf) = FullPart(n + 1)
    BY <1>3, <1>5
  <2> QED
    BY <2>2, <2>3, <2>4
<1>8. TypeOK'
  <2>1. \A i \in DOMAIN buf' : Len(buf'[i].data) <= PayloadSize
    BY <1>2, <1>5
  <2> QED
    BY <1>1, <1>2, <1>5, <1>6, <2>1 DEF TypeOK
<1>9. NothingLost'
  BY <1>1, SameReference DEF NothingLost, Bytes
<1>10. PartsAreExact'
  BY <1>1, <1>2, <1>5, <1>7, ExactAfter DEF n
<1>11. ThreadHands'
  <2>1. Len(packets') + Len(buf') = threshold'
    <3>1. /\ n \in Nat /\ Len(buf) \in Nat /\ n + Len(buf) = threshold /\ threshold' = threshold
          /\ Len(buf') = Len(buf) - 1 /\ Len(packets') = n + 1
      BY <1>1, <1>2, <1>3, <1>5, <1>6
    <3> QED
      BY <3>1
  <2>2. ASSUME NEW i \in DOMAIN buf'
        PROVE  buf'[i] = FullPart(Len(packets') + i)
    <3>1. buf'[i] = FullPart(n + (i + 1))
      BY <1>3, <1>5
    <3>2. n + (i + 1) = Len(packets') + i
      BY <1>2, <1>5, <1>6
    <3> QED
      BY <3>1, <3>2
  <2> QED
    BY <1>1, <1>3, <2>1, <2>2 DEF ThreadHands
<1>12. VecFills' /\ ThreadFills' /\ ThreadEnding' /\ NoPanic'
  BY <1>1 DEF VecFills, ThreadFills, ThreadEnding, NoPanic
<1>13. ThresholdIsExact'
  BY <1>1, SameReference DEF ThresholdIsExact
<1> QED
  BY <1>8, <1>9, <1>10, <1>11, <1>12, <1>13

(* The thread starts over when all parts of the caller are handed over.    *)
LEMMA StartChannelInv ==
    ASSUME IInv, StartChannel
    PROVE  IInv'
<1> USE DEF IInv
<1>1. /\ control = "handing" /\ buf = <<>> /\ control' = "writing"
      /\ UNCHANGED <<value, threshold, writes, pos, part, skip, buf, packets, want, dropped>>
  BY DEF StartChannel, thread
<1>2. /\ writes = value /\ pos = 0 /\ part = EmptyPart(0) /\ skip = threshold
      /\ Len(packets) + Len(buf) = threshold
  BY <1>1 DEF ThreadHands
<1>3. TypeOK'
  BY <1>1 DEF TypeOK
<1>4. NothingLost'
  BY <1>1, SameReference DEF NothingLost, Bytes
<1>5. ThreadFills'
  <2>1. part.kind = "Part" /\ part.seq = 0 /\ part.data = <<>> /\ Len(part.data) = 0
    BY <1>2 DEF EmptyPart
  <2>2. Len(packets) = threshold /\ threshold \in Nat
    BY <1>1, <1>2 DEF NothingLost, TypeOK
  <2>3. Start(0) = 0 /\ Slice(0, 0) = <<>>
    BY StartFacts, SliceEmpty
  <2> QED
    BY <1>1, <1>2, <2>1, <2>2, <2>3 DEF ThreadFills
<1>6. PartsAreExact' /\ ThresholdIsExact'
  BY <1>1, SameReference DEF PartsAreExact, ThresholdIsExact
<1>7. VecFills' /\ ThreadHands' /\ ThreadEnding' /\ NoPanic'
  BY <1>1 DEF VecFills, ThreadHands, ThreadEnding, NoPanic
<1> QED
  BY <1>3, <1>4, <1>5, <1>6, <1>7

(* The part that the thread is filling or skipping.                        *)
LEMMA FillFacts ==
    ASSUME TypeOK, NothingLost, ThreadFills, control = "writing"
    PROVE  LET n == part.seq
               m == Len(part.data)
           IN  /\ n \in Nat /\ m \in Nat /\ m <= PayloadSize /\ PayloadSize \in Nat
               /\ part \in PartType /\ part = [kind |-> "Part", seq |-> n, data |-> part.data]
               /\ part.data \in Seq(Nat)
               /\ Start(n) \in Nat /\ pos = Start(n) + m /\ threshold \in Nat
               /\ n < threshold => skip = threshold - n /\ skip > 0 /\ Len(packets) = threshold
               /\ n >= threshold =>
                    /\ skip = 0 /\ Len(packets) = n
                    /\ part = [kind |-> "Part", seq |-> n, data |-> Slice(n, m)]
               /\ ~Writing /\ n > 0 => m > 0
<1> DEFINE n == part.seq
           m == Len(part.data)
<1>1. /\ part \in PartType /\ n \in Nat /\ part.data \in Seq(Nat) /\ m \in Nat
      /\ m <= PayloadSize /\ threshold \in Nat /\ PayloadSize \in Nat
  BY StartFacts DEF TypeOK, PartType, NothingLost
<1>2. /\ part.kind = "Part" /\ pos = Start(n) + m
      /\ n < threshold => skip = threshold - n /\ Len(packets) = threshold
      /\ n >= threshold => skip = 0 /\ Len(packets) = n /\ part.data = Slice(n, m)
      /\ ~Writing /\ n > 0 => pos > Start(n)
  BY DEF ThreadFills
<1>3. Start(n) \in Nat
  BY <1>1, StartFacts
<1>4. part = [kind |-> "Part", seq |-> n, data |-> part.data]
  BY <1>1, <1>2 DEF PartType
<1>5. n < threshold => skip > 0
  BY <1>1, <1>2
<1>6. ~Writing /\ n > 0 => m > 0
  BY <1>1, <1>2, <1>3
<1> HIDE DEF m, n
<1>7. n >= threshold => part = [kind |-> "Part", seq |-> n, data |-> Slice(n, m)]
  BY <1>2, <1>4
<1> QED
  BY <1>1, <1>2, <1>3, <1>4, <1>5, <1>6, <1>7 DEF m, n

(* The thread fills or skips a part.                                       *)
LEMMA ChannelAppendInv ==
    ASSUME IInv, ChannelAppend
    PROVE  IInv'
<1> USE DEF IInv
<1> DEFINE n == part.seq
           m == Len(part.data)
           f == Fitting(part)
<1>1. /\ control = "writing" /\ Consume(part)
      /\ part' = IF skip > 0 THEN SkipIn(part) ELSE AppendTo(part)
      /\ UNCHANGED <<value, threshold, control, buf, skip, packets, want, dropped>>
  BY DEF ChannelAppend
<1>2. /\ n \in Nat /\ m \in Nat /\ m <= PayloadSize /\ PayloadSize \in Nat
      /\ part \in PartType /\ part = [kind |-> "Part", seq |-> n, data |-> part.data]
      /\ part.data \in Seq(Nat)
      /\ Start(n) \in Nat /\ pos = Start(n) + m /\ threshold \in Nat
      /\ n < threshold => skip = threshold - n /\ skip > 0 /\ Len(packets) = threshold
      /\ n >= threshold =>
           /\ skip = 0 /\ Len(packets) = n
           /\ part = [kind |-> "Part", seq |-> n, data |-> Slice(n, m)]
  BY <1>1, FillFacts
<1>3. /\ writes' \in Seq(Nat) /\ pos' \in Nat /\ pos' = pos + f
      /\ f \in Nat \ {0} /\ m + f <= PayloadSize /\ NothingLost'
  BY <1>1, <1>2, ConsumeFacts
<1>4. f \in Nat /\ m + f \in Nat
  BY <1>2, <1>3
<1>5. /\ part' \in PartType /\ part'.kind = "Part" /\ part'.seq = n /\ Len(part'.data) = m + f
      /\ n >= threshold => part'.data = Slice(n, m + f)
  <2>1. CASE n < threshold
    <3> DEFINE zeros == [i \in 1..f |-> 0]
    <3>1. part' = [part EXCEPT !.data = part.data \o zeros]
      BY <1>1, <1>2, <2>1 DEF SkipIn
    <3>2. zeros \in [1..f -> Nat]
      OBVIOUS
    <3> HIDE DEF zeros, f
    <3>3. zeros \in Seq(Nat) /\ Len(zeros) = f
      BY <1>4, <3>2
    <3> DEFINE d == part.data \o zeros
    <3>4. d \in Seq(Nat) /\ Len(d) = m + f
      <4>1. part.data \in Seq(Nat)
        BY <1>2
      <4>2. d \in Seq(Nat) /\ Len(d) = Len(part.data) + Len(zeros)
        BY <3>3, <4>1, ConcatProperties, Zenon
      <4> QED
        BY <3>3, <4>2
    <3> HIDE DEF d
    <3>5. part' = [part EXCEPT !.data = d]
      BY <3>1 DEF d
    <3>6. part'.kind = "Part" /\ part'.seq = n /\ part'.data = d /\ part' \in PartType
      <4>1. part.kind = "Part" /\ part.seq = n /\ part \in PartType
        BY <1>2
      <4> QED
        BY <3>4, <3>5, <4>1 DEF PartType
    <3> QED
      BY <1>2, <2>1, <3>4, <3>6
  <2>2. CASE n >= threshold
    <3>1. part' = AppendTo(part)
      BY <1>1, <1>2, <2>2
    <3>2. AppendTo(part) = [kind |-> "Part", seq |-> n, data |-> Slice(n, m + f)]
      <4> HIDE DEF m, n
      <4> QED
        BY <1>2, <1>4, <2>2, AppendToFacts
    <3>3. Slice(n, m + f) \in Seq(Nat) /\ Len(Slice(n, m + f)) = m + f
      BY <1>2, <1>4, SliceFacts
    <3> QED
      BY <1>2, <3>1, <3>2, <3>3 DEF PartType
  <2> QED
    BY <1>2, <2>1, <2>2
<1> HIDE DEF m, n, f
<1>6. TypeOK'
  BY <1>1, <1>3, <1>5 DEF TypeOK
<1>7. ThreadFills'
  <2>1. pos' = Start(n) + (m + f) /\ pos' > Start(n)
    BY <1>2, <1>3
  <2> QED
    BY <1>1, <1>2, <1>5, <2>1 DEF ThreadFills
<1>8. PartsAreExact' /\ ThresholdIsExact'
  BY <1>1, SameReference DEF PartsAreExact, ThresholdIsExact
<1>9. VecFills' /\ ThreadHands' /\ ThreadEnding' /\ NoPanic'
  BY <1>1 DEF VecFills, ThreadHands, ThreadEnding, NoPanic
<1> QED
  BY <1>3, <1>6, <1>7, <1>8, <1>9

(* The next part of the thread is empty.                                   *)
LEMMA NextFill ==
    ASSUME TypeOK, NothingLost, ThreadFills, control = "writing", Full(part),
           part' = NextPart(part)
    PROVE  /\ part' \in PartType /\ part'.kind = "Part" /\ part'.seq = part.seq + 1
           /\ part'.data = <<>> /\ Len(part'.data) = 0 /\ part'.data = Slice(part.seq + 1, 0)
           /\ pos = Start(part.seq + 1) /\ pos = Start(part.seq + 1) + 0
<1> DEFINE n == part.seq
<1>1. /\ n \in Nat /\ PayloadSize \in Nat /\ Start(n) \in Nat
      /\ pos = Start(n) + Len(part.data)
  BY FillFacts
<1>2. pos = Start(n) + PayloadSize
  BY <1>1 DEF Full
<1>3. n + 1 \in Nat /\ Start(n + 1) = Start(n) + PayloadSize
  <2> HIDE DEF n
  <2> QED
    BY <1>1, StartFacts
<1>4. Slice(n + 1, 0) = <<>>
  BY <1>3, SliceEmpty
<1>5. /\ part' \in PartType /\ part'.kind = "Part" /\ part'.seq = n + 1
      /\ part'.data = <<>> /\ Len(part'.data) = 0
  BY <1>3 DEF NextPart, EmptyPart, PartType
<1>6. pos = Start(n + 1) /\ pos = Start(n + 1) + 0
  BY <1>1, <1>2, <1>3
<1> QED
  BY <1>4, <1>5, <1>6

(* The thread skips a part that was handed over.                           *)
LEMMA ChannelSkipInv ==
    ASSUME IInv, ChannelSkip
    PROVE  IInv'
<1> USE DEF IInv
<1> DEFINE n == part.seq
<1>1. /\ control = "writing" /\ Writing /\ Full(part) /\ skip > 0 /\ skip' = skip - 1
      /\ part' = NextPart(part)
      /\ UNCHANGED <<value, threshold, control, writes, pos, buf, packets, want, dropped>>
  BY DEF ChannelSkip
<1>2. /\ n \in Nat /\ threshold \in Nat /\ n < threshold /\ skip = threshold - n
      /\ Len(packets) = threshold /\ PayloadSize \in Nat
  BY <1>1, FillFacts
<1>3. /\ part' \in PartType /\ part'.kind = "Part" /\ part'.seq = n + 1
      /\ part'.data = <<>> /\ Len(part'.data) = 0 /\ part'.data = Slice(n + 1, 0)
      /\ pos = Start(n + 1) + 0
  BY <1>1, NextFill
<1> HIDE DEF n
<1>4. TypeOK'
  <2>1. skip' \in Nat
    BY <1>1 DEF TypeOK
  <2> QED
    BY <1>1, <1>2, <1>3, <2>1 DEF TypeOK
<1>5. NothingLost'
  BY <1>1, SameReference DEF NothingLost, Bytes
<1>6. ThreadFills'
  <2>1. Writing'
    BY <1>1 DEF Writing
  <2>2. n + 1 < threshold => skip' = threshold - (n + 1)
    BY <1>1, <1>2
  <2>3. n + 1 >= threshold => skip' = 0 /\ Len(packets) = n + 1
    BY <1>1, <1>2
  <2> QED
    BY <1>1, <1>2, <1>3, <2>1, <2>2, <2>3 DEF ThreadFills
<1>7. PartsAreExact' /\ ThresholdIsExact'
  BY <1>1, SameReference DEF PartsAreExact, ThresholdIsExact
<1>8. VecFills' /\ ThreadHands' /\ ThreadEnding' /\ NoPanic'
  BY <1>1 DEF VecFills, ThreadHands, ThreadEnding, NoPanic
<1> QED
  BY <1>4, <1>5, <1>6, <1>7, <1>8

(* The thread sends a part that it has filled.                             *)
LEMMA ChannelSendInv ==
    ASSUME IInv, ChannelSend
    PROVE  IInv'
<1> USE DEF IInv
<1> DEFINE n == part.seq
<1>1. /\ control = "writing" /\ Writing /\ Full(part) /\ skip = 0
      /\ want > 0 /\ want' = want - 1 /\ packets' = Append(packets, part)
      /\ part' = NextPart(part)
      /\ UNCHANGED <<value, threshold, control, writes, pos, buf, skip, dropped>>
  BY DEF ChannelSend, HandOver
<1>2. /\ n \in Nat /\ threshold \in Nat /\ ~(n < threshold) /\ Len(packets) = n
      /\ part \in PartType /\ PayloadSize \in Nat
      /\ part = [kind |-> "Part", seq |-> n, data |-> Slice(n, Len(part.data))]
  BY <1>1, FillFacts
<1>3. /\ part' \in PartType /\ part'.kind = "Part" /\ part'.seq = n + 1
      /\ part'.data = <<>> /\ Len(part'.data) = 0 /\ part'.data = Slice(n + 1, 0)
      /\ pos = Start(n + 1) /\ pos = Start(n + 1) + 0
  BY <1>1, NextFill
<1>4. packets \in Seq(PartType) /\ want \in Nat
  BY DEF TypeOK
<1>5. packets' \in Seq(PartType) /\ Len(packets') = n + 1
  BY <1>1, <1>2, <1>4
<1> HIDE DEF n
<1>6. NumberOfParts > n + 1 /\ NumberOfParts \in Nat
  BY <1>1, <1>2, <1>3, MoreToCome, TotalType, NumberFacts
<1>7. part = ReferencePart(n + 1)
  <2>1. part = FullPart(n + 1)
    BY <1>1, <1>2 DEF Full, FullPart
  <2>2. n + 1 \in Nat \ {0}
    BY <1>2
  <2> QED
    BY <1>6, <2>1, <2>2, TotalType, ReferenceFull
<1>8. TypeOK'
  BY <1>1, <1>2, <1>3, <1>4, <1>5 DEF TypeOK
<1>9. NothingLost'
  BY <1>1, SameReference DEF NothingLost, Bytes
<1>10. PartsAreExact'
  <2>1. Len(packets) < NumberOfParts
    BY <1>2, <1>6
  <2> QED
    BY <1>1, <1>2, <1>4, <1>7, <2>1, ExactAfter
<1>11. ThreadFills'
  <2>1. Writing'
    BY <1>1 DEF Writing
  <2>2. ~(n + 1 < threshold)
    BY <1>2
  <2> QED
    BY <1>1, <1>3, <1>5, <2>1, <2>2 DEF ThreadFills
<1>12. VecFills' /\ ThreadHands' /\ ThreadEnding' /\ NoPanic'
  BY <1>1 DEF VecFills, ThreadHands, ThreadEnding, NoPanic
<1>13. ThresholdIsExact'
  BY <1>1, SameReference DEF ThresholdIsExact
<1> QED
  BY <1>8, <1>9, <1>10, <1>11, <1>12, <1>13

(* The thread has serialized everything: nothing is left to be skipped,    *)
(* and its buffer is the last part.                                        *)
LEMMA ChannelDoneInv ==
    ASSUME IInv, ChannelDone
    PROVE  IInv'
<1> USE DEF IInv
<1> DEFINE n == part.seq
           m == Len(part.data)
<1>1. /\ control = "writing" /\ writes = <<>>
      /\ IF skip # 0 THEN control' = "panicked" /\ UNCHANGED part
                     ELSE control' = "last" /\ part' = MarkLast(part)
      /\ UNCHANGED <<value, threshold, writes, pos, buf, skip, packets, want, dropped>>
  BY DEF ChannelDone
<1>2. ~Writing
  BY <1>1 DEF Writing
<1>3. /\ n \in Nat /\ m \in Nat /\ m <= PayloadSize /\ PayloadSize \in Nat /\ part \in PartType
      /\ Start(n) \in Nat /\ pos = Start(n) + m /\ threshold \in Nat
      /\ n >= threshold =>
           /\ skip = 0 /\ Len(packets) = n
           /\ part = [kind |-> "Part", seq |-> n, data |-> Slice(n, m)]
      /\ n > 0 => m > 0
  BY <1>1, <1>2, FillFacts
<1> HIDE DEF m, n
<1>4. /\ NumberOfParts = n + 1
      /\ ReferencePart(n + 1) = [kind |-> "LastPart", seq |-> n, data |-> Slice(n, m)]
  BY <1>1, <1>3, AllTaken
<1>5. NumberOfParts > threshold
  BY <1>1 DEF ThresholdIsExact
<1>6. n >= threshold
  BY <1>3, <1>4, <1>5
<1>7. /\ control' = "last" /\ part' = MarkLast(part) /\ Len(packets) = n
      /\ part = [kind |-> "Part", seq |-> n, data |-> Slice(n, m)]
  BY <1>1, <1>3, <1>6
<1>8. part' = ReferencePart(n + 1)
  BY <1>4, <1>7 DEF MarkLast
<1>9. part' \in PartType /\ Len(part'.data) = m
  <2>1. Slice(n, m) \in Seq(Nat) /\ Len(Slice(n, m)) = m
    BY <1>3, SliceFacts
  <2> QED
    BY <1>3, <1>4, <1>8, <2>1 DEF PartType
<1>10. TypeOK'
  BY <1>1, <1>3, <1>7, <1>9 DEF TypeOK
<1>11. NothingLost'
  BY <1>1, SameReference DEF NothingLost, Bytes
<1>12. ThreadEnding'
  BY <1>1, <1>4, <1>7, <1>8, SameReference DEF ThreadEnding
<1>13. PartsAreExact' /\ ThresholdIsExact'
  BY <1>1, <1>5, <1>7, SameReference DEF PartsAreExact, ThresholdIsExact
<1>14. VecFills' /\ ThreadHands' /\ ThreadFills' /\ NoPanic'
  BY <1>7 DEF VecFills, ThreadHands, ThreadFills, NoPanic
<1> QED
  BY <1>10, <1>11, <1>12, <1>13, <1>14

(* The thread sends the last part, and has sent all of them.               *)
LEMMA SendLastInv ==
    ASSUME IInv, SendLast
    PROVE  IInv'
<1> USE DEF IInv
<1> DEFINE n == Len(packets)
<1>1. /\ control = "last" /\ control' = "ended"
      /\ want > 0 /\ want' = want - 1 /\ packets' = Append(packets, part)
      /\ UNCHANGED <<value, threshold, writes, pos, part, skip, buf, dropped>>
  BY DEF SendLast, HandOver, thread
<1>2. packets \in Seq(PartType) /\ want \in Nat /\ part \in PartType /\ n \in Nat
  BY DEF TypeOK
<1>3. NumberOfParts = n + 1 /\ part = ReferencePart(n + 1)
  BY <1>1 DEF ThreadEnding
<1>4. packets' \in Seq(PartType) /\ Len(packets') = n + 1
  BY <1>1, <1>2
<1>5. TypeOK'
  BY <1>1, <1>2, <1>4 DEF TypeOK
<1>6. NothingLost'
  BY <1>1, SameReference DEF NothingLost, Bytes
<1>7. PartsAreExact'
  <2>1. n < NumberOfParts
    BY <1>2, <1>3
  <2> QED
    BY <1>1, <1>2, <1>3, <1>4, <2>1, ExactAfter
<1>8. ThresholdIsExact'
  BY <1>1, SameReference DEF ThresholdIsExact
<1>9. VecFills' /\ ThreadHands' /\ ThreadFills' /\ ThreadEnding' /\ NoPanic'
  BY <1>1 DEF VecFills, ThreadHands, ThreadFills, ThreadEnding, NoPanic
<1> QED
  BY <1>5, <1>6, <1>7, <1>8, <1>9

(* A failed send ends the thread; the queue has what it got so far.        *)
LEMMA ReceiverDroppedInv ==
    ASSUME IInv, ReceiverDropped
    PROVE  IInv'
<1> USE DEF IInv
<1>1. /\ control \in {"handing", "writing", "last"} /\ dropped /\ control' = "ended"
      /\ UNCHANGED <<value, threshold, writes, pos, part, skip, buf, packets, want, dropped>>
  BY DEF ReceiverDropped, AtSend, thread
<1>2. TypeOK'
  BY <1>1 DEF TypeOK
<1>3. NothingLost'
  BY <1>1, SameReference DEF NothingLost, Bytes
<1>4. PartsAreExact' /\ ThresholdIsExact'
  BY <1>1, SameReference DEF PartsAreExact, ThresholdIsExact
<1>5. VecFills' /\ ThreadHands' /\ ThreadFills' /\ ThreadEnding' /\ NoPanic'
  BY <1>1 DEF VecFills, ThreadHands, ThreadFills, ThreadEnding, NoPanic
<1> QED
  BY <1>2, <1>3, <1>4, <1>5

(* Waiting for parts and dropping the channel change nothing else.         *)
LEMMA QueueInv ==
    ASSUME IInv, want' \in Nat, dropped' \in BOOLEAN, dropped => dropped',
           UNCHANGED <<value, threshold, control, writes, pos, buf, part, skip, packets>>
    PROVE  IInv'
<1> USE DEF IInv
<1>1. TypeOK'
  BY DEF TypeOK
<1>2. NothingLost'
  BY SameReference DEF NothingLost, Bytes
<1>3. PartsAreExact' /\ ThresholdIsExact'
  BY SameReference DEF PartsAreExact, ThresholdIsExact
<1>4. Writing' = Writing /\ LastBuf' = LastBuf
  BY DEF Writing, LastBuf
<1>5. VecFills'
  BY <1>4 DEF VecFills
<1>6. ThreadFills'
  BY <1>4 DEF ThreadFills
<1>7. ThreadEnding'
  BY SameReference DEF ThreadEnding
<1>8. ThreadHands' /\ NoPanic'
  BY DEF ThreadHands, NoPanic
<1> QED
  BY <1>1, <1>2, <1>3, <1>5, <1>6, <1>7, <1>8

(* Every step, and every stuttering step, keeps the invariant.             *)
LEMMA NextInv == IInv /\ [Next]_vars => IInv'
<1> SUFFICES ASSUME IInv, [Next]_vars PROVE IInv'
  OBVIOUS
<1>0. want \in Nat /\ dropped \in BOOLEAN
  BY DEF IInv, TypeOK
<1>1. CASE EndOfWrite
  BY <1>1, EndOfWriteInv
<1>2. CASE VecAppend
  BY <1>2, VecAppendInv
<1>3. CASE VecNext
  BY <1>3, VecNextInv
<1>4. CASE VecLimit
  BY <1>4, VecLimitInv
<1>5. CASE VecDone
  BY <1>5, VecDoneInv
<1>6. CASE Thread
  BY <1>6, HandSerializedInv, StartChannelInv, ChannelAppendInv, ChannelSkipInv, ChannelSendInv,
     ChannelDoneInv, SendLastInv, ReceiverDroppedInv DEF Thread
<1>7. ASSUME NEW n \in 1..MaxBatch, Pull(n)
      PROVE  IInv'
  <2>1. want' \in Nat /\ UNCHANGED <<value, threshold, control, writes, pos, buf, part, skip, packets, dropped>>
    BY <1>7 DEF Pull, thread
  <2> QED
    BY <1>0, <2>1, QueueInv
<1>8. CASE PullEnds
  <2>1. want' \in Nat /\ UNCHANGED <<value, threshold, control, writes, pos, buf, part, skip, packets, dropped>>
    BY <1>8 DEF PullEnds, thread
  <2> QED
    BY <1>0, <2>1, QueueInv
<1>9. CASE DropPacket
  <2>1. dropped' = TRUE /\ UNCHANGED <<value, threshold, control, writes, pos, buf, part, skip, packets, want>>
    BY <1>9 DEF DropPacket, thread
  <2> QED
    BY <1>0, <2>1, QueueInv
<1>10. CASE UNCHANGED vars
  <2>1. UNCHANGED <<value, threshold, control, writes, pos, buf, part, skip, packets, want, dropped>>
    BY <1>10 DEF vars, thread
  <2> QED
    BY <1>0, <2>1, QueueInv
<1> QED
  BY <1>1, <1>2, <1>3, <1>4, <1>5, <1>6, <1>7, <1>8, <1>9, <1>10 DEF Next

(* Every reachable state has the invariant.                                *)
LEMMA Inductive == Spec => []IInv
  BY InitInv, NextInv, PTL DEF Spec

-----------------------------------------------------------------------------
(* The results                                                             *)

(* serialize_packet, its serializers and the queue keep to their types: in *)
(* particular, no PacketBuffer takes more bytes than it has room for.      *)
THEOREM SerializeTypeCorrect == Spec => []TypeOK
<1>1. IInv => TypeOK
  BY DEF IInv
<1> QED
  BY <1>1, Inductive, PTL

(* PacketQueue gets the parts of the packet in order, whole and with the   *)
(* right numbers, whoever serialized them, and all of them unless it drops *)
(* the channel: for all values, thresholds and payload sizes.              *)
THEOREM SerializedPartsAreExact == Spec => []PartsAreExact
<1>1. IInv => PartsAreExact
  BY DEF IInv
<1> QED
  BY <1>1, Inductive, PTL

(* serialize_packet spawns a thread for the packets of more than threshold *)
(* parts, and for no others: a packet that just fits stays with the caller.*)
THEOREM ThresholdsAreExact == Spec => []ThresholdIsExact
<1>1. IInv => ThresholdIsExact
  BY DEF IInv
<1> QED
  BY <1>1, Inductive, PTL

(* The assertion at the end of the thread, that nothing is left to be      *)
(* skipped, never fails.                                                   *)
THEOREM SerializingNeverPanics == Spec => []NoPanic
<1>1. IInv => NoPanic
  BY DEF IInv
<1> QED
  BY <1>1, Inductive, PTL

=============================================================================
