----------------------------- MODULE LibraryFacts -----------------------------
(***************************************************************************)
(* Facts about operators of the community modules that the proofs need.    *)
(***************************************************************************)
EXTENDS Integers, Sequences, FiniteSets, SequencesExt, FiniteSetTheorems, WellFoundedInduction, TLAPS

-----------------------------------------------------------------------------
(* Smallest and largest numbers                                            *)

(* A nonempty set of natural numbers has a smallest element.               *)
LEMMA MinFound ==
    ASSUME NEW S \in SUBSET Nat, S # {}
    PROVE  Min(S) \in S /\ \A x \in S : Min(S) <= x
<1>1. PICK m \in S : \A x \in S : ~(<<x, m>> \in OpToRel(<, Nat))
  BY WFMin, NatLessThanWellFounded
<1>2. \A x \in S : m <= x
  <2> SUFFICES ASSUME NEW x \in S, ~(m <= x) PROVE FALSE
    OBVIOUS
  <2>1. x \in Nat /\ m \in Nat /\ x < m
    OBVIOUS
  <2>2. <<x, m>> \in OpToRel(<, Nat)
    BY <2>1 DEF OpToRel
  <2> QED
    BY <1>1, <2>2
<1> QED
  BY <1>2 DEF Min

(* A nonempty bounded set of natural numbers has a largest element.        *)
LEMMA MaxFound ==
    ASSUME NEW S \in SUBSET Nat, S # {}, NEW n \in Nat, \A x \in S : x <= n
    PROVE  Max(S) \in S /\ \A x \in S : x <= Max(S)
<1> DEFINE U == {u \in Nat : \A x \in S : x <= u}
           m == Min(U)
<1>1. m \in U /\ \A u \in U : m <= u
  <2> U \in SUBSET Nat /\ U # {}
    OBVIOUS
  <2> HIDE DEF U
  <2> QED
    BY MinFound
<1> HIDE DEF m
<1>2. m \in S
  <2> SUFFICES ASSUME m \notin S PROVE FALSE
    OBVIOUS
  <2>1. m \in Nat /\ \A x \in S : x < m
    BY <1>1
  <2>2. PICK y : y \in S
    OBVIOUS
  <2>3. m > 0
    BY <2>1, <2>2
  <2>4. m - 1 \in U
    BY <2>1, <2>3
  <2> QED
    BY <1>1, <2>1, <2>4
<1>3. \E x \in S : \A y \in S : x >= y
  BY <1>1, <1>2
<1> QED
  BY <1>3 DEF Max

(* A finite set of natural numbers is bounded: a smallest one that is not  *)
(* would be bounded without one of its elements.                           *)
LEMMA FiniteIsBounded ==
    ASSUME NEW S \in SUBSET Nat, IsFiniteSet(S)
    PROVE  \E n \in Nat : \A x \in S : x <= n
<1> DEFINE Bounded(T) == \E n \in Nat : \A x \in T : x <= n
           unbounded == {T \in SUBSET S : ~Bounded(T)}
           sizes == {Cardinality(T) : T \in unbounded}
           c == Min(sizes)
<1> SUFFICES ASSUME S \in unbounded PROVE FALSE
  OBVIOUS
<1>1. \A T \in SUBSET S : IsFiniteSet(T) /\ Cardinality(T) \in Nat
  BY FS_Subset, FS_CardinalityType
<1>2. c \in sizes /\ \A x \in sizes : c <= x
  <2>1. sizes \in SUBSET Nat /\ sizes # {}
    BY <1>1
  <2> HIDE DEF sizes
  <2> QED
    BY <2>1, MinFound
<1> HIDE DEF c
<1>3. PICK T \in unbounded : c = Cardinality(T)
  BY <1>2
<1>4. PICK y : y \in T
  <2>1. T # {}
    BY <1>3
  <2> QED
    BY <2>1
<1> DEFINE U == T \ {y}
<1>5. Cardinality(U) = c - 1 /\ U \in SUBSET S /\ c \in Nat
  BY <1>1, <1>3, <1>4, FS_RemoveElement
<1>6. U \notin unbounded
  <2> SUFFICES ASSUME U \in unbounded PROVE FALSE
    OBVIOUS
  <2>1. Cardinality(U) \in sizes
    OBVIOUS
  <2> HIDE DEF sizes, U
  <2> QED
    BY <1>2, <1>5, <2>1
<1>7. PICK n \in Nat : \A x \in U : x <= n
  BY <1>5, <1>6
<1>8. y \in Nat /\ \A x \in T : x <= n + y
  BY <1>3, <1>4, <1>7
<1>9. Bounded(T)
  BY <1>7, <1>8
<1> QED
  BY <1>3, <1>9

(* The smaller one of two numbers.                                         *)
LEMMA MinOfTwo ==
    ASSUME NEW m \in Nat, NEW n \in Nat
    PROVE  Min({m, n}) = IF m <= n THEN m ELSE n
<1>1. Min({m, n}) \in {m, n} /\ \A x \in {m, n} : Min({m, n}) <= x
  BY MinFound
<1> QED
  BY <1>1

(* The larger one of two numbers.                                          *)
LEMMA MaxOfTwo ==
    ASSUME NEW m \in Nat, NEW n \in Nat
    PROVE  Max({m, n}) = IF m <= n THEN n ELSE m
<1>1. \A x \in {m, n} : x <= m + n
  OBVIOUS
<1>2. Max({m, n}) \in {m, n} /\ \A x \in {m, n} : x <= Max({m, n})
  BY <1>1, MaxFound
<1> QED
  BY <1>2

-----------------------------------------------------------------------------
(* Sequences                                                               *)

(* Appending an element.                                                   *)
LEMMA AppendFacts ==
    ASSUME NEW S, NEW s \in Seq(S), NEW e \in S
    PROVE  /\ Append(s, e) \in Seq(S) /\ Append(s, e) # <<>>
           /\ DOMAIN s = 1..Len(s) /\ Len(s) \in Nat /\ DOMAIN Append(s, e) = 1..(Len(s) + 1)
           /\ Append(s, e)[Len(s) + 1] = e
           /\ \A j \in 1..Len(s) : Append(s, e)[j] = s[j]
  OBVIOUS

(* One sequence after another.                                             *)
LEMMA ConcatFacts ==
    ASSUME NEW S, NEW s \in Seq(S), NEW t \in Seq(S)
    PROVE  /\ s \o t \in Seq(S) /\ Len(s \o t) = Len(s) + Len(t)
           /\ DOMAIN s = 1..Len(s) /\ DOMAIN t = 1..Len(t) /\ Len(s) \in Nat /\ Len(t) \in Nat
           /\ DOMAIN (s \o t) = 1..(Len(s) + Len(t))
           /\ \A j \in 1..(Len(s) + Len(t)) :
                (s \o t)[j] = IF j <= Len(s) THEN s[j] ELSE t[j - Len(s)]
  OBVIOUS

(* Taking an element out closes the gap.                                   *)
LEMMA RemoveAtFacts ==
    ASSUME NEW S, NEW s \in Seq(S), NEW i \in DOMAIN s
    PROVE  /\ RemoveAt(s, i) \in Seq(S) /\ Len(RemoveAt(s, i)) = Len(s) - 1
           /\ \A j \in 1..(Len(s) - 1) : RemoveAt(s, i)[j] = IF j < i THEN s[j] ELSE s[j + 1]
<1> DEFINE front == SubSeq(s, 1, i - 1)
           back  == SubSeq(s, i + 1, Len(s))
<1>1. i \in 1..Len(s) /\ Len(s) \in Nat /\ i \in Nat
  OBVIOUS
<1>2. /\ front \in Seq(S) /\ Len(front) = i - 1
      /\ \A j \in 1..(i - 1) : front[j] = s[j]
  BY <1>1
<1>3. /\ back \in Seq(S) /\ Len(back) = Len(s) - i
      /\ \A j \in 1..(Len(s) - i) : back[j] = s[i + j]
  BY <1>1
<1> HIDE DEF front, back
<1>4. front \o back \in Seq(S) /\ Len(front \o back) = Len(s) - 1
  BY <1>1, <1>2, <1>3
<1>5. ASSUME NEW j \in 1..(Len(s) - 1)
      PROVE  (front \o back)[j] = IF j < i THEN s[j] ELSE s[j + 1]
  <2>1. CASE j < i
    BY <1>1, <1>2, <1>3, <2>1
  <2>2. CASE ~(j < i)
    <3>1. (front \o back)[j] = back[j - (i - 1)]
      BY <1>1, <1>2, <1>3, <2>2
    <3>2. j - (i - 1) \in 1..(Len(s) - i)
      BY <1>1, <2>2
    <3> QED
      BY <1>1, <1>3, <2>2, <3>1, <3>2
  <2> QED
    BY <2>1, <2>2
<1> QED
  BY <1>4, <1>5 DEF RemoveAt, front, back

-----------------------------------------------------------------------------
(* Recursion                                                               *)

(* What it means for f to be defined by recursion from 0 to n.             *)
Recursion(f, V, n, base, step) ==
    f \in [0..n -> V] /\ f[0] = base /\ \A i \in 1..n : f[i] = step[i][f[i - 1]]

(* A function that is defined by recursion exists.                         *)
LEMMA RecursionExists ==
    ASSUME NEW V, NEW n \in Nat, NEW base \in V, NEW step \in [1..n -> [V -> V]]
    PROVE  \E f : Recursion(f, V, n, base, step)
<1> DEFINE Defined(m) == \E f \in [0..m -> V] :
                            f[0] = base /\ \A i \in 1..m : f[i] = step[i][f[i - 1]]
           bad == {m \in 0..n : ~Defined(m)}
           m == Min(bad)
<1> SUFFICES Defined(n)
  BY DEF Recursion
<1> HIDE DEF Defined
<1> SUFFICES ASSUME bad # {} PROVE FALSE
  OBVIOUS
<1> USE DEF Defined
<1>1. m \in bad /\ \A x \in bad : m <= x
  <2>1. bad \in SUBSET Nat
    OBVIOUS
  <2> HIDE DEF bad
  <2> QED
    BY <2>1, MinFound
<1> HIDE DEF m
<1>2. m \in 0..n /\ ~Defined(m)
  BY <1>1
<1>3. CASE m = 0
  <2> DEFINE f == [i \in 0..0 |-> base]
  <2>1. f \in [0..m -> V] /\ f[0] = base /\ \A i \in 1..m : f[i] = step[i][f[i - 1]]
    BY <1>3
  <2> QED
    BY <1>2, <2>1
<1>4. CASE m # 0
  <2>1. m - 1 \in 0..n /\ m - 1 \notin bad
    <3>1. m - 1 \in 0..n /\ ~(m <= m - 1)
      BY <1>2, <1>4
    <3> HIDE DEF bad
    <3> QED
      BY <1>1, <3>1
  <2>2. PICK g \in [0..(m - 1) -> V] :
             g[0] = base /\ \A i \in 1..(m - 1) : g[i] = step[i][g[i - 1]]
    BY <2>1
  <2> DEFINE f == [i \in 0..m |-> IF i = m THEN step[m][g[m - 1]] ELSE g[i]]
  <2>3. g[m - 1] \in V /\ m \in 1..n
    BY <1>2, <1>4, <2>2
  <2>4. step[m][g[m - 1]] \in V
    BY <2>3
  <2>5. \A i \in 0..m : i # m => i \in 0..(m - 1) /\ g[i] \in V
    BY <1>2, <1>4, <2>2
  <2>6. f \in [0..m -> V] /\ f[0] = base
    BY <1>2, <1>4, <2>2, <2>4, <2>5
  <2>7. ASSUME NEW i \in 1..m
        PROVE  f[i] = step[i][f[i - 1]]
    <3>1. f[i - 1] = g[i - 1]
      BY <1>2, <2>7
    <3>2. CASE i = m
      BY <1>2, <3>1, <3>2
    <3>3. CASE i # m
      <4>1. i \in 1..(m - 1) /\ f[i] = g[i]
        BY <1>2, <3>3
      <4> QED
        BY <2>2, <3>1, <4>1
    <3> QED
      BY <3>2, <3>3
  <2> HIDE DEF f
  <2> QED
    BY <1>2, <2>6, <2>7
<1> QED
  BY <1>3, <1>4

(* Where the elements of a concatenation of sequences come from, in order: *)
(* the p-th one is the k[p]-th of the b[p]-th sequence.                    *)
ComesFrom(flat, seqs, n, b, k) ==
    \A p \in DOMAIN flat :
        /\ b[p] \in 1..n /\ k[p] \in DOMAIN seqs[b[p]] /\ flat[p] = seqs[b[p]][k[p]]
        /\ \A q \in DOMAIN flat : p < q => b[p] < b[q] \/ (b[p] = b[q] /\ k[p] < k[q])

(* One more sequence.                                                      *)
LEMMA ComesFromNext ==
    ASSUME NEW S, NEW seqs \in Seq(Seq(S)), NEW n \in 1..Len(seqs), NEW flat \in Seq(S),
           NEW b, NEW k, ComesFrom(flat, seqs, n - 1, b, k)
    PROVE  \E c, l : ComesFrom(flat \o seqs[n], seqs, n, c, l)
<1> DEFINE all == flat \o seqs[n]
           len == Len(flat)
           c == [p \in DOMAIN all |-> IF p <= len THEN b[p] ELSE n]
           l == [p \in DOMAIN all |-> IF p <= len THEN k[p] ELSE p - len]
<1>1. seqs[n] \in Seq(S) /\ len \in Nat /\ Len(seqs[n]) \in Nat /\ n \in Nat
      /\ DOMAIN flat = 1..len /\ DOMAIN seqs[n] = 1..Len(seqs[n])
  OBVIOUS
<1>2. /\ DOMAIN all = 1..(len + Len(seqs[n]))
      /\ \A p \in DOMAIN all : all[p] = IF p <= len THEN flat[p] ELSE seqs[n][p - len]
  BY <1>1
<1> HIDE DEF all
<1>3. ASSUME NEW p \in DOMAIN all
      PROVE  /\ c[p] \in 1..n /\ l[p] \in DOMAIN seqs[c[p]] /\ all[p] = seqs[c[p]][l[p]]
             /\ \A q \in DOMAIN all : p < q => c[p] < c[q] \/ (c[p] = c[q] /\ l[p] < l[q])
  <2>1. CASE p <= len
    <3>1. p \in DOMAIN flat /\ c[p] = b[p] /\ l[p] = k[p] /\ all[p] = flat[p]
      BY <1>1, <1>2, <2>1
    <3>2. b[p] \in 1..(n - 1) /\ k[p] \in DOMAIN seqs[b[p]] /\ flat[p] = seqs[b[p]][k[p]]
      BY <3>1 DEF ComesFrom
    <3>3. ASSUME NEW q \in DOMAIN all, p < q
          PROVE  c[p] < c[q] \/ (c[p] = c[q] /\ l[p] < l[q])
      <4>1. CASE q <= len
        <5>1. q \in DOMAIN flat /\ c[q] = b[q] /\ l[q] = k[q]
          BY <1>1, <1>2, <4>1
        <5> QED
          BY <3>1, <3>3, <5>1 DEF ComesFrom
      <4>2. CASE ~(q <= len)
        BY <1>1, <3>1, <3>2, <4>2
      <4> QED
        BY <4>1, <4>2
    <3> HIDE DEF c, l
    <3> QED
      BY <1>1, <3>1, <3>2, <3>3
  <2>2. CASE ~(p <= len)
    <3>1. c[p] = n /\ l[p] = p - len /\ all[p] = seqs[n][p - len] /\ p - len \in 1..Len(seqs[n])
      BY <1>1, <1>2, <2>2
    <3>2. ASSUME NEW q \in DOMAIN all, p < q
          PROVE  c[p] = c[q] /\ l[p] < l[q]
      BY <1>1, <1>2, <2>2, <3>1, <3>2
    <3> HIDE DEF c, l
    <3> QED
      BY <1>1, <3>1, <3>2
  <2> QED
    BY <2>1, <2>2
<1> HIDE DEF c, l
<1>4. ComesFrom(all, seqs, n, c, l)
  BY <1>3 DEF ComesFrom
<1> QED
  BY <1>4 DEF all

(* FlattenSeq puts the sequences one after the other.                      *)
LEMMA FlattenSeqFacts ==
    ASSUME NEW S, NEW seqs \in Seq(Seq(S)), seqs # <<>>
    PROVE  /\ FlattenSeq(seqs) \in Seq(S)
           /\ \E b, k : ComesFrom(FlattenSeq(seqs), seqs, Len(seqs), b, k)
<1> DEFINE n == Len(seqs)
           V == Seq(S)
           Flattens(f) == f = [i \in 1..n |-> IF i = 1 THEN seqs[i] ELSE f[i - 1] \o seqs[i]]
<1>1. n \in Nat /\ n # 0 /\ \A i \in 1..n : seqs[i] \in V
  OBVIOUS
<1>2. \E f : Flattens(f)
  <2> DEFINE step == [i \in 1..n |-> [v \in V |-> v \o seqs[i]]]
  <2>1. step \in [1..n -> [V -> V]]
    BY <1>1
  <2>2. \A i \in 1..n, v \in V : step[i][v] = v \o seqs[i]
    OBVIOUS
  <2>3. <<>> \in V
    OBVIOUS
  <2> HIDE DEF step, n, V
  <2>4. PICK g \in [0..n -> V] : g[0] = <<>> /\ \A i \in 1..n : g[i] = step[i][g[i - 1]]
    <3>1. n \in Nat
      BY <1>1
    <3>2. \E g : Recursion(g, V, n, <<>>, step)
      BY <2>1, <2>3, <3>1, RecursionExists, Zenon
    <3> QED
      BY <3>2 DEF Recursion
  <2>5. ASSUME NEW i \in 1..n
        PROVE  g[i] = g[i - 1] \o seqs[i] /\ g[i] \in V /\ g[i - 1] \in V
    <3>1. i \in 0..n /\ i - 1 \in 0..n
      BY <1>1
    <3>2. g[i] \in V /\ g[i - 1] \in V
      BY <2>4, <3>1
    <3>3. g[i] = step[i][g[i - 1]]
      BY <2>4
    <3> QED
      BY <2>2, <3>2, <3>3, Zenon
  <2>6. g[1] = seqs[1]
    <3>1. 1 \in 1..n /\ g[1 - 1] = <<>>
      BY <1>1, <2>4
    <3>2. g[1] = <<>> \o seqs[1]
      BY <2>5, <3>1
    <3> QED
      BY <1>1, <3>1, <3>2 DEF V
  <2> DEFINE f == [i \in 1..n |-> g[i]]
  <2>7. ASSUME NEW i \in 1..n
        PROVE  f[i] = IF i = 1 THEN seqs[i] ELSE f[i - 1] \o seqs[i]
    <3>1. CASE i = 1
      BY <2>6, <3>1
    <3>2. CASE i # 1
      <4>1. i - 1 \in 1..n
        BY <1>1, <3>2
      <4> QED
        BY <2>5, <3>2, <4>1
    <3> QED
      BY <3>1, <3>2
  <2>8. f = [i \in 1..n |-> IF i = 1 THEN seqs[i] ELSE f[i - 1] \o seqs[i]]
    BY <2>7
  <2> QED
    BY <2>8
<1> DEFINE F == CHOOSE f : Flattens(f)
<1>3. FlattenSeq(seqs) = F[n]
  BY <1>1 DEF FlattenSeq
<1>4. Flattens(F)
  BY <1>2
<1> HIDE DEF F
<1>5. ASSUME NEW i \in 1..n
      PROVE  F[i] = IF i = 1 THEN seqs[i] ELSE F[i - 1] \o seqs[i]
  BY <1>4
<1> DEFINE Good(i) == F[i] \in V /\ \E b, k : ComesFrom(F[i], seqs, i, b, k)
           bad == {i \in 1..n : ~Good(i)}
           m == Min(bad)
<1>6. bad = {}
  <2> SUFFICES ASSUME bad # {} PROVE FALSE
    OBVIOUS
  <2>1. m \in bad /\ \A x \in bad : m <= x
    <3>1. bad \in SUBSET Nat
      OBVIOUS
    <3> HIDE DEF bad
    <3> QED
      BY <3>1, MinFound
  <2> HIDE DEF m
  <2>2. m \in 1..n /\ ~Good(m) /\ m \in Nat
    BY <2>1
  <2>3. CASE m = 1
    <3>1. F[m] = seqs[m] /\ F[m] \in Seq(S)
      BY <1>1, <1>5, <2>2, <2>3
    <3>2. DOMAIN F[m] = 1..Len(F[m]) /\ Len(F[m]) \in Nat
      BY <3>1
    <3> DEFINE b == [p \in DOMAIN F[m] |-> 1]
               k == [p \in DOMAIN F[m] |-> p]
    <3>3. ComesFrom(F[m], seqs, m, b, k)
      <4> SUFFICES ASSUME NEW p \in DOMAIN F[m]
                   PROVE  /\ b[p] \in 1..m /\ k[p] \in DOMAIN seqs[b[p]] /\ F[m][p] = seqs[b[p]][k[p]]
                          /\ \A q \in DOMAIN F[m] : p < q => b[p] < b[q] \/ (b[p] = b[q] /\ k[p] < k[q])
        BY DEF ComesFrom
      <4> QED
        BY <2>3, <3>1, <3>2
    <3> QED
      BY <2>2, <3>1, <3>3
  <2>4. CASE m # 1
    <3>1. m - 1 \in 1..n /\ ~(m <= m - 1)
      BY <2>2, <2>4
    <3>2. Good(m - 1)
      <4> HIDE DEF Good
      <4> QED
        BY <2>1, <3>1
    <3>3. PICK b, k : ComesFrom(F[m - 1], seqs, m - 1, b, k)
      BY <3>2
    <3>4. F[m] = F[m - 1] \o seqs[m]
      BY <1>5, <2>2, <2>4
    <3>5. F[m - 1] \in Seq(S) /\ seqs[m] \in Seq(S)
      BY <1>1, <2>2, <3>2
    <3>6. \E c, l : ComesFrom(F[m], seqs, m, c, l)
      BY <2>2, <3>3, <3>4, <3>5, ComesFromNext
    <3>7. F[m] \in V
      BY <3>4, <3>5
    <3> QED
      BY <2>2, <3>6, <3>7
  <2> QED
    BY <2>3, <2>4
<1>7. Good(n)
  <2>1. n \in 1..n
    BY <1>1
  <2> HIDE DEF Good
  <2> QED
    BY <1>6, <2>1
<1> QED
  BY <1>3, <1>7

-----------------------------------------------------------------------------
(* Sums                                                                    *)

(* What it means for sum to add up the numbers g of the subsets of S.      *)
AddsUp(sum, S, g) ==
    sum = [s \in SUBSET S |->
              IF s = {} THEN 0
              ELSE g[CHOOSE x \in s : TRUE] + sum[s \ {CHOOSE x \in s : TRUE}]]

(* Sums over the subsets of a finite set exist.                            *)
LEMMA SumExists ==
    ASSUME NEW S, IsFiniteSet(S), NEW g \in [S -> Nat]
    PROVE  \E sum : AddsUp(sum, S, g)
<1> DEFINE V == [SUBSET S -> Nat]
           n == Cardinality(S)
           pick(s) == CHOOSE x \in s : TRUE
           base == [s \in SUBSET S |-> 0]
           step == [i \in 1..n |-> [v \in V |-> [s \in SUBSET S |->
                      IF s = {} THEN 0 ELSE g[pick(s)] + v[s \ {pick(s)}]]]]
<1>1. ASSUME NEW s \in SUBSET S
      PROVE  /\ IsFiniteSet(s) /\ Cardinality(s) \in 0..n /\ (Cardinality(s) = 0 <=> s = {})
             /\ s # {} => /\ pick(s) \in s /\ s \ {pick(s)} \in SUBSET S
                          /\ Cardinality(s \ {pick(s)}) = Cardinality(s) - 1
  <2>1. IsFiniteSet(s) /\ Cardinality(s) <= n
    BY FS_Subset
  <2>2. Cardinality(s) \in Nat /\ n \in Nat /\ (Cardinality(s) = 0 <=> s = {})
    BY <2>1, FS_CardinalityType, FS_EmptySet
  <2>3. ASSUME s # {}
        PROVE  /\ pick(s) \in s /\ s \ {pick(s)} \in SUBSET S
               /\ Cardinality(s \ {pick(s)}) = Cardinality(s) - 1
    <3>1. pick(s) \in s
      BY <2>3
    <3> HIDE DEF pick
    <3> QED
      BY <2>1, <3>1, FS_RemoveElement
  <2> HIDE DEF n, pick
  <2> QED
    BY <2>1, <2>2, <2>3
<1>2. n \in Nat
  BY FS_CardinalityType
<1>3. ASSUME NEW i \in 1..n, NEW v \in V
      PROVE  [s \in SUBSET S |-> IF s = {} THEN 0 ELSE g[pick(s)] + v[s \ {pick(s)}]] \in V
  <2>1. ASSUME NEW s \in SUBSET S
        PROVE  (IF s = {} THEN 0 ELSE g[pick(s)] + v[s \ {pick(s)}]) \in Nat
    <3> HIDE DEF pick
    <3>1. CASE s = {}
      BY <3>1
    <3>2. CASE s # {}
      <4> DEFINE x == pick(s)
                 r == s \ {pick(s)}
      <4>1. x \in S /\ r \in SUBSET S
        BY <1>1, <3>2, Zenon
      <4> HIDE DEF x, r
      <4>2. g[x] + v[r] \in Nat
        BY <4>1
      <4> QED
        BY <3>2, <4>2, Zenon DEF x, r
    <3> QED
      BY <3>1, <3>2
  <2> HIDE DEF pick
  <2> QED
    BY <2>1
<1>4. step \in [1..n -> [V -> V]]
  <2> HIDE DEF V, pick
  <2> QED
    BY <1>3
<1>5. base \in V
  OBVIOUS
<1>6. \A i \in 1..n, v \in V, s \in SUBSET S :
        step[i][v][s] = IF s = {} THEN 0 ELSE g[pick(s)] + v[s \ {pick(s)}]
  <2> HIDE DEF V, n, pick
  <2> QED
    OBVIOUS
<1> HIDE DEF step, V, n, pick
<1>7. PICK f : Recursion(f, V, n, base, step)
  BY <1>2, <1>4, <1>5, RecursionExists, Zenon
<1> HIDE DEF base
<1> DEFINE sum == [s \in SUBSET S |-> f[Cardinality(s)][s]]
<1>8. ASSUME NEW s \in SUBSET S
      PROVE  sum[s] = IF s = {} THEN 0 ELSE g[pick(s)] + sum[s \ {pick(s)}]
  <2>1. CASE s = {}
    <3>1. Cardinality(s) = 0
      BY <1>1, <2>1
    <3>2. f[0][s] = 0
      BY <1>7 DEF Recursion, base
    <3> QED
      BY <2>1, <3>1, <3>2
  <2>2. CASE s # {}
    <3> DEFINE c == Cardinality(s)
               r == s \ {pick(s)}
    <3>1. c \in 1..n /\ c - 1 \in 0..n /\ r \in SUBSET S /\ Cardinality(r) = c - 1
      BY <1>1, <1>2, <2>2
    <3> HIDE DEF c
    <3>2. f[c] = step[c][f[c - 1]] /\ f[c - 1] \in V
      BY <1>7, <3>1 DEF Recursion
    <3>3. f[c][s] = g[pick(s)] + f[c - 1][r]
      <4>1. step[c][f[c - 1]][s] = IF s = {} THEN 0 ELSE g[pick(s)] + f[c - 1][s \ {pick(s)}]
        BY <1>6, <3>1, <3>2, Zenon
      <4>2. step[c][f[c - 1]][s] = g[pick(s)] + f[c - 1][r]
        BY <2>2, <4>1, Zenon
      <4> HIDE DEF r
      <4> QED
        BY <3>2, <4>2
    <3>4. sum[s] = f[c][s] /\ sum[r] = f[c - 1][r]
      BY <3>1 DEF c
    <3> QED
      BY <2>2, <3>3, <3>4, Zenon
  <2> QED
    BY <2>1, <2>2
<1>9. AddsUp(sum, S, g)
  <2>1. sum = [s \in SUBSET S |-> IF s = {} THEN 0 ELSE g[pick(s)] + sum[s \ {pick(s)}]]
    BY <1>8
  <2> QED
    BY <2>1 DEF AddsUp, pick
<1> QED
  BY <1>9

(* A sum of numbers between one and m.                                     *)
LEMMA SumBounds ==
    ASSUME NEW S, IsFiniteSet(S), NEW m \in Nat, NEW g \in [S -> 1..m], NEW sum, AddsUp(sum, S, g)
    PROVE  sum[S] \in Nat /\ sum[S] >= Cardinality(S) /\ sum[S] <= m * Cardinality(S)
<1> DEFINE Good(s) == /\ sum[s] \in Nat /\ sum[s] >= Cardinality(s)
                      /\ sum[s] <= m * Cardinality(s)
           bad == {s \in SUBSET S : ~Good(s)}
           sizes == {Cardinality(s) : s \in bad}
           c == Min(sizes)
<1> SUFFICES ASSUME ~Good(S) PROVE FALSE
  OBVIOUS
<1>1. \A s \in SUBSET S : IsFiniteSet(s) /\ Cardinality(s) \in Nat
  BY FS_Subset, FS_CardinalityType
<1>2. c \in sizes /\ \A x \in sizes : c <= x
  <2>1. S \in bad
    OBVIOUS
  <2> HIDE DEF bad
  <2>2. sizes # {}
    BY <2>1
  <2>3. sizes \in SUBSET Nat
    BY <1>1 DEF bad
  <2> HIDE DEF sizes
  <2> QED
    BY <2>2, <2>3, MinFound
<1> HIDE DEF c
<1>3. PICK s \in bad : c = Cardinality(s)
  BY <1>2
<1>4. s \in SUBSET S /\ ~Good(s)
  BY <1>3
<1>5. sum[s] = IF s = {} THEN 0
               ELSE g[CHOOSE x \in s : TRUE] + sum[s \ {CHOOSE x \in s : TRUE}]
  BY <1>4 DEF AddsUp
<1>6. CASE s = {}
  <2>1. Cardinality(s) = 0 /\ sum[s] = 0
    BY <1>5, <1>6, FS_EmptySet
  <2> QED
    BY <1>4, <2>1
<1>7. CASE s # {}
  <2> DEFINE y == CHOOSE x \in s : TRUE
             r == s \ {y}
  <2>1. y \in s /\ y \in S
    BY <1>4, <1>7
  <2>2. sum[s] = g[y] + sum[r]
    BY <1>5, <1>7
  <2> HIDE DEF y
  <2>3. r \in SUBSET S /\ Cardinality(r) = c - 1 /\ c \in Nat /\ Cardinality(r) \in Nat
    BY <1>1, <1>3, <1>4, <2>1, FS_RemoveElement
  <2>4. Good(r)
    <3> HIDE DEF Good
    <3> SUFFICES ASSUME ~Good(r) PROVE FALSE
      OBVIOUS
    <3>1. r \in bad
      BY <2>3
    <3>2. c - 1 \in sizes
      <4> HIDE DEF bad, r
      <4> QED
        BY <2>3, <3>1
    <3> HIDE DEF sizes
    <3> QED
      BY <1>2, <2>3, <3>2
  <2>5. g[y] \in 1..m
    BY <2>1
  <2>6. sum[r] \in Nat /\ sum[r] >= c - 1 /\ sum[r] <= m * (c - 1)
    BY <2>3, <2>4
  <2>7. m * (c - 1) + m = m * c
    BY <2>3
  <2> HIDE DEF r
  <2>8. sum[s] \in Nat /\ sum[s] >= c /\ sum[s] <= m * c
    <3> DEFINE a == sum[r]
               b == g[y]
               u == m * (c - 1)
               w == m * c
    <3>1. u \in Int /\ w \in Int /\ u + m = w
      BY <2>3, <2>7
    <3>2. a \in Nat /\ a >= c - 1 /\ a <= u /\ b \in 1..m
      BY <2>5, <2>6
    <3> HIDE DEF a, b, u, w
    <3>3. a + b \in Nat /\ a + b >= c /\ a + b <= w
      BY <2>3, <3>1, <3>2
    <3>4. sum[s] = b + a
      BY <2>2 DEF a, b
    <3>5. b + a = a + b
      BY <3>2
    <3> QED
      BY <3>3, <3>4, <3>5 DEF w
  <2> QED
    BY <1>3, <1>4, <2>8
<1> QED
  BY <1>6, <1>7

(* The mean of numbers between one and m is one, too.                      *)
LEMMA MeanBounds ==
    ASSUME NEW total \in Nat, NEW n \in Nat \ {0}, NEW m \in Nat, total >= n, total <= m * n
    PROVE  total \div n \in 1..m
  BY SMTT(30)

(* Putting a copy of an element next to it.                                *)
LEMMA InsertAtFacts ==
    ASSUME NEW S, NEW s \in Seq(S), NEW i \in DOMAIN s
    PROVE  /\ InsertAt(s, i, s[i]) \in Seq(S) /\ Len(InsertAt(s, i, s[i])) = Len(s) + 1
           /\ \A j \in 1..(Len(s) + 1) :
                InsertAt(s, i, s[i])[j] = IF j <= i THEN s[j] ELSE s[j - 1]
<1> DEFINE front == SubSeq(s, 1, i - 1)
           mid   == front \o <<s[i]>>
           back  == SubSeq(s, i, Len(s))
           len   == Len(s)
<1>1. i \in 1..len /\ len \in Nat /\ i \in Nat /\ s[i] \in S
  OBVIOUS
<1>2. front \in Seq(S) /\ Len(front) = i - 1 /\ \A j \in 1..(i - 1) : front[j] = s[j]
  BY <1>1
<1>3. back \in Seq(S) /\ Len(back) = len - i + 1 /\ \A j \in 1..(len - i + 1) : back[j] = s[i + j - 1]
  BY <1>1
<1> HIDE DEF front, back
<1>4. mid \in Seq(S) /\ Len(mid) = i /\ \A j \in 1..i : mid[j] = s[j]
  <2>1. mid = Append(front, s[i])
    BY <1>1, <1>2
  <2> HIDE DEF mid
  <2>2. /\ mid \in Seq(S) /\ Len(mid) = Len(front) + 1
        /\ mid[Len(front) + 1] = s[i] /\ \A j \in 1..Len(front) : mid[j] = front[j]
    BY <1>1, <1>2, <2>1
  <2>3. \A j \in 1..i : j = i \/ j \in 1..(i - 1)
    BY <1>1
  <2>4. Len(front) + 1 = i
    BY <1>1, <1>2
  <2> QED
    BY <1>2, <2>2, <2>3, <2>4
<1> HIDE DEF mid, len
<1>5. /\ mid \o back \in Seq(S) /\ Len(mid \o back) = Len(mid) + Len(back)
      /\ \A j \in 1..(Len(mid) + Len(back)) :
           (mid \o back)[j] = IF j <= Len(mid) THEN mid[j] ELSE back[j - Len(mid)]
  BY <1>3, <1>4, ConcatFacts
<1>6. Len(mid) = i /\ Len(mid) + Len(back) = len + 1
  BY <1>1, <1>3, <1>4
<1>7. ASSUME NEW j \in 1..(len + 1)
      PROVE  (mid \o back)[j] = IF j <= i THEN s[j] ELSE s[j - 1]
  <2>1. (mid \o back)[j] = IF j <= i THEN mid[j] ELSE back[j - i]
    BY <1>5, <1>6
  <2>2. CASE j <= i
    <3>1. j \in 1..i
      BY <1>1, <2>2
    <3> QED
      BY <1>4, <2>1, <2>2, <3>1
  <2>3. CASE ~(j <= i)
    <3>1. j - i \in 1..(len - i + 1) /\ i + (j - i) - 1 = j - 1
      BY <1>1, <2>3
    <3>2. back[j - i] = s[i + (j - i) - 1]
      BY <1>3, <3>1
    <3> QED
      BY <2>1, <2>3, <3>1, <3>2
  <2> QED
    BY <2>2, <2>3
<1>8. InsertAt(s, i, s[i]) = mid \o back
  BY DEF InsertAt, mid, front, back
<1>9. Len(mid \o back) = len + 1 /\ mid \o back \in Seq(S)
  BY <1>5, <1>6
<1> QED
  BY <1>7, <1>8, <1>9 DEF len

=============================================================================
