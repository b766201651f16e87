----------------------------- MODULE DictProofs -----------------------------
(***************************************************************************)
(* What the decoder's proofs need of spellings and dictionary, for any     *)
(* table of spellings and any lemmas: ids stand for spellings there are,   *)
(* what a walk through the trie finds is in the trie, and listing and      *)
(* sorting neither lose nor invent.                                        *)
(***************************************************************************)
EXTENDS MatrixSearch, FiniteSetTheorems, SequenceTheorems, WellFoundedInduction, TLAPS

(* A set of numbers has a least one.                                       *)
LEMMA LeastNumber ==
  ASSUME NEW S, S \subseteq Nat, S # {}
  PROVE  \E n \in S : \A k \in S : n <= k
  <1>1. PICK n \in S : \A k \in S : ~(<<k, n>> \in OpToRel(<, Nat))
    BY NatLessThanWellFounded, WFMin
  <1>2. \A k \in S : ~(k < n)
    BY <1>1 DEF OpToRel
  <1>3. \A k \in S : n <= k
    BY <1>2
  <1> QED
    BY <1>3

(* Induction over the naturals, for a set.                                 *)
LEMMA Induction ==
  ASSUME NEW S, 0 \in S, \A n \in Nat : n \in S => n + 1 \in S
  PROVE  Nat \subseteq S
  <1> SUFFICES ASSUME Nat \ S # {} PROVE FALSE
    OBVIOUS
  <1>1. PICK n \in Nat \ S : \A k \in Nat \ S : n <= k
    BY LeastNumber
  <1>2. n # 0
    BY <1>1
  <1>3. n - 1 \in Nat /\ ~(n <= n - 1)
    BY <1>1, <1>2
  <1>4. n - 1 \in S
    BY <1>1, <1>3
  <1>5. (n - 1) + 1 \in S
    BY <1>3, <1>4
  <1> QED
    BY <1>1, <1>5

(* What passes from each number to the next holds up to the last.          *)
LEMMA Upwards ==
  ASSUME NEW n \in Nat, NEW S, 0 \in S, \A k \in 1..n : k - 1 \in S => k \in S
  PROVE  0..n \subseteq S
  <1> DEFINE T == {k \in Nat : k <= n => k \in S}
  <1>1. 0 \in T
    OBVIOUS
  <1>2. ASSUME NEW k \in Nat, k \in T PROVE k + 1 \in T
    <2>1. CASE k + 1 <= n
      <3>1. k + 1 \in 1..n /\ (k + 1) - 1 = k /\ k <= n
        BY <2>1
      <3> QED
        BY <1>2, <3>1
    <2> QED
      BY <2>1
  <1>3. Nat \subseteq T
    <2> HIDE DEF T
    <2> QED
      BY <1>1, <1>2, Induction
  <1> QED
    BY <1>3

(* So it does from any number.                                             *)
LEMMA UpFrom ==
  ASSUME NEW b \in Nat, NEW n \in Nat, b <= n, NEW S, b \in S,
         \A k \in (b + 1)..n : k - 1 \in S => k \in S
  PROVE  \A k \in b..n : k \in S
  <1> DEFINE T == {j \in Nat : b + j \in S}
  <1>1. 0 \in T /\ n - b \in Nat
    OBVIOUS
  <1>2. ASSUME NEW j \in 1..(n - b), j - 1 \in T PROVE j \in T
    <2>1. b + j \in (b + 1)..n /\ b + j - 1 = b + (j - 1)
      OBVIOUS
    <2>2. b + j - 1 \in S
      BY <1>2, <2>1
    <2> QED
      BY <2>1, <2>2
  <1>3. 0..(n - b) \subseteq T
    <2> HIDE DEF T
    <2> QED
      BY <1>1, <1>2, Upwards
  <1>4. \A k \in b..n : k - b \in 0..(n - b) /\ b + (k - b) = k
    OBVIOUS
  <1> QED
    BY <1>3, <1>4

(***************************************************************************)
(* Sequences of sequences.                                                 *)
(***************************************************************************)
(* How FlattenSeq() goes through them.                                     *)
LEMMA FlattenGoes ==
  ASSUME NEW seqs, Len(seqs) \in Nat \ {0}
  PROVE  \E f : /\ f[1] = seqs[1]
                /\ \A k \in 2..Len(seqs) : f[k] = f[k - 1] \o seqs[k]
                /\ FlattenSeq(seqs) = f[Len(seqs)]
  <1> DEFINE last == Len(seqs)
             Goes(n, f) == f = [k \in 1..n |-> IF k = 1 THEN seqs[k] ELSE f[k - 1] \o seqs[k]]
             S == {n \in Nat : \E f : Goes(1 + n, f)}
  <1>1. FlattenSeq(seqs) = (CHOOSE f : Goes(last, f))[last]
    BY DEF FlattenSeq
  <1> HIDE DEF last
  <1>2. 0 \in S
    <2>1. Goes(1, [k \in 1..1 |-> seqs[1]])
      OBVIOUS
    <2>2. 1 + 0 = 1
      OBVIOUS
    <2> HIDE DEF Goes
    <2> QED
      BY <2>1, <2>2
  <1>3. ASSUME NEW n \in Nat, n \in S PROVE n + 1 \in S
    <2> DEFINE e == 1 + n
    <2>1. PICK f : Goes(e, f)
      BY <1>3
    <2>i. e \in Nat /\ e >= 1 /\ e + 1 = 1 + (n + 1)
      OBVIOUS
    <2> HIDE DEF e
    <2> DEFINE g == [k \in 1..(e + 1) |-> IF k = e + 1 THEN f[e] \o seqs[k] ELSE f[k]]
    <2>2. ASSUME NEW k \in 1..(e + 1)
          PROVE  g[k] = IF k = 1 THEN seqs[k] ELSE g[k - 1] \o seqs[k]
      <3>1. CASE k = e + 1
        <4>0. k # 1 /\ k - 1 = e
          BY <2>i, <3>1
        <4>1. g[k] = f[e] \o seqs[k]
          BY <3>1
        <4>2. g[e] = f[e]
          BY <2>i
        <4> HIDE DEF g
        <4> QED
          BY <4>0, <4>1, <4>2
      <3>2. CASE k \in 1..e
        <4>0. k # e + 1 /\ k \in 1..(e + 1)
          BY <2>i, <3>2
        <4>1. g[k] = f[k]
          BY <4>0
        <4>2. k # 1 => g[k - 1] = f[k - 1]
          BY <2>i, <3>2
        <4>3. f[k] = IF k = 1 THEN seqs[k] ELSE f[k - 1] \o seqs[k]
          <5> HIDE DEF g
          <5> QED
            BY <2>1, <3>2
        <4> HIDE DEF g
        <4> QED
          BY <4>1, <4>2, <4>3
      <3> QED
        BY <2>i, <3>1, <3>2
    <2>3. Goes(e + 1, g)
      BY <2>2
    <2> HIDE DEF g, Goes
    <2> QED
      BY <2>i, <2>3
  <1>4. last \in Nat \ {0}
    BY DEF last
  <1>5. \E f : Goes(last, f)
    <2>1. last - 1 \in S
      <3> HIDE DEF S
      <3>1. last - 1 \in Nat
        BY <1>4
      <3> QED
        BY <1>2, <1>3, <3>1, Induction
    <2>2. 1 + (last - 1) = last
      BY <1>4
    <2> HIDE DEF Goes
    <2> QED
      BY <2>1, <2>2
  <1> DEFINE f == CHOOSE f : Goes(last, f)
  <1>6. f = [k \in 1..last |-> IF k = 1 THEN seqs[k] ELSE f[k - 1] \o seqs[k]]
    <2>1. Goes(last, f)
      <3> HIDE DEF Goes
      <3> QED
        BY <1>5
    <2> QED
      BY <2>1
  <1> HIDE DEF f
  <1>7. f[1] = seqs[1]
    BY <1>4, <1>6
  <1>8. ASSUME NEW k \in 2..last PROVE f[k] = f[k - 1] \o seqs[k]
    <2>1. k \in 1..last /\ k # 1
      BY <1>4
    <2> QED
      BY <1>6, <2>1
  <1> QED
    BY <1>1, <1>7, <1>8 DEF f, last

(* Of a sequence of sequences over T FlattenSeq() makes a sequence over T  *)
(* of just their elements; of one sequence, that one.                      *)
LEMMA FlattenIs ==
  ASSUME NEW T, NEW seqs \in Seq(Seq(T))
  PROVE  /\ FlattenSeq(seqs) \in Seq(T)
         /\ \A i \in DOMAIN FlattenSeq(seqs) :
              \E k \in DOMAIN seqs : \E j \in DOMAIN seqs[k] : FlattenSeq(seqs)[i] = seqs[k][j]
         /\ \A k \in DOMAIN seqs : \A j \in DOMAIN seqs[k] :
              \E i \in DOMAIN FlattenSeq(seqs) : FlattenSeq(seqs)[i] = seqs[k][j]
  <1> DEFINE n == Len(seqs)
             From(k, s) == /\ s \in Seq(T)
                           /\ \A i \in DOMAIN s : \E h \in 1..k : \E j \in DOMAIN seqs[h] : s[i] = seqs[h][j]
                           /\ \A h \in 1..k : \A j \in DOMAIN seqs[h] : \E i \in DOMAIN s : s[i] = seqs[h][j]
  <1>1. n \in Nat /\ DOMAIN seqs = 1..n /\ \A k \in 1..n : seqs[k] \in Seq(T)
    OBVIOUS
  <1>2. CASE n = 0
    <2>1. seqs = <<>> /\ FlattenSeq(seqs) = seqs
      BY <1>2 DEF FlattenSeq
    <2>2. <<>> \in Seq(T) /\ DOMAIN <<>> = {}
      OBVIOUS
    <2> HIDE DEF n
    <2> QED
      BY <2>1, <2>2
  <1>3. CASE n # 0
    <2>1. PICK f : /\ f[1] = seqs[1]
                   /\ \A k \in 2..n : f[k] = f[k - 1] \o seqs[k]
                   /\ FlattenSeq(seqs) = f[n]
      <3>1. Len(seqs) \in Nat \ {0}
        BY <1>1, <1>3
      <3> QED
        BY <3>1, FlattenGoes
    <2> DEFINE S == {k \in Nat : k + 1 <= n => From(k + 1, f[k + 1])}
    <2> HIDE DEF n
    <2>2. 0 \in S
      <3>1. f[0 + 1] = seqs[1] /\ 1 \in 1..n
        BY <1>1, <1>3, <2>1
      <3>2. From(1, seqs[1])
        BY <1>1, <3>1
      <3> HIDE DEF From
      <3> QED
        BY <3>1, <3>2
    <2>3. ASSUME NEW k \in 1..(n - 1), k - 1 \in S PROVE k \in S
      <3>1. k \in Nat /\ k - 1 \in Nat /\ (k - 1) + 1 = k /\ k <= n /\ k + 1 \in 2..n /\ (k + 1) - 1 = k /\ k + 1 \in 1..n
        BY <1>1
      <3>2. From(k, f[k])
        BY <2>3, <3>1
      <3>3. f[k + 1] = f[k] \o seqs[k + 1]
        BY <2>1, <3>1
      <3> DEFINE s == f[k]
                 t == seqs[k + 1]
      <3>4. s \in Seq(T) /\ t \in Seq(T) /\ Len(s) \in Nat /\ Len(t) \in Nat
        BY <1>1, <3>1, <3>2
      <3>5. /\ s \o t \in Seq(T) /\ DOMAIN (s \o t) = 1..(Len(s) + Len(t))
            /\ \A i \in 1..Len(s) : (s \o t)[i] = s[i]
            /\ \A i \in 1..Len(t) : (s \o t)[Len(s) + i] = t[i]
        <4> HIDE DEF s, t
        <4> QED
          BY <3>4, ConcatProperties
      <3>6. DOMAIN s = 1..Len(s) /\ DOMAIN t = 1..Len(t)
        BY <3>4
      <3>p. /\ \A i \in DOMAIN s : \E h \in 1..k : \E j \in DOMAIN seqs[h] : s[i] = seqs[h][j]
            /\ \A h \in 1..k : \A j \in DOMAIN seqs[h] : \E i \in DOMAIN s : s[i] = seqs[h][j]
        BY <3>2
      <3> HIDE DEF s
      <3>7. ASSUME NEW i \in DOMAIN (s \o t)
            PROVE  \E h \in 1..(k + 1) : \E j \in DOMAIN seqs[h] : (s \o t)[i] = seqs[h][j]
        <4>1. CASE i <= Len(s)
          <5>1. i \in 1..Len(s) /\ (s \o t)[i] = s[i]
            BY <3>4, <3>5, <4>1
          <5>2. PICK h \in 1..k : \E j \in DOMAIN seqs[h] : s[i] = seqs[h][j]
            BY <3>6, <3>p, <5>1
          <5>3. h \in 1..(k + 1)
            BY <3>1
          <5> QED
            BY <5>1, <5>2, <5>3
        <4>2. CASE i > Len(s)
          <5>1. i - Len(s) \in 1..Len(t) /\ Len(s) + (i - Len(s)) = i
            BY <3>4, <3>5, <4>2
          <5>2. (s \o t)[i] = t[i - Len(s)]
            BY <3>5, <5>1
          <5>3. k + 1 \in 1..(k + 1)
            BY <3>1
          <5> QED
            BY <3>6, <5>1, <5>2, <5>3
        <4> QED
          BY <3>4, <3>5, <4>1, <4>2
      <3>8. ASSUME NEW h \in 1..(k + 1), NEW j \in DOMAIN seqs[h]
            PROVE  \E i \in DOMAIN (s \o t) : (s \o t)[i] = seqs[h][j]
        <4>1. CASE h \in 1..k
          <5>1. PICK i \in DOMAIN s : s[i] = seqs[h][j]
            BY <3>p, <4>1
          <5>2. i \in DOMAIN (s \o t) /\ (s \o t)[i] = s[i]
            BY <3>4, <3>5, <3>6
          <5> QED
            BY <5>1, <5>2
        <4>2. CASE h = k + 1
          <5>1. j \in 1..Len(t)
            BY <3>6, <4>2
          <5>2. Len(s) + j \in DOMAIN (s \o t) /\ (s \o t)[Len(s) + j] = t[j]
            <6>1. Len(s) + j \in 1..(Len(s) + Len(t))
              BY ONLY <3>4, <5>1
            <6> QED
              BY ONLY <3>5, <5>1, <6>1, Zenon
          <5> QED
            BY <4>2, <5>2
        <4> QED
          BY <3>1, <4>1, <4>2
      <3>9. From(k + 1, s \o t)
        BY <3>5, <3>7, <3>8
      <3> HIDE DEF From
      <3> QED
        BY <3>1, <3>3, <3>9 DEF s
    <2>4. n - 1 \in Nat /\ n - 1 \in 0..(n - 1) /\ (n - 1) + 1 = n
      BY <1>1, <1>3
    <2>5. n - 1 \in S
      <3> HIDE DEF S
      <3> QED
        BY <2>2, <2>3, <2>4, Upwards
    <2>6. From(n, FlattenSeq(seqs))
      <3> HIDE DEF From
      <3> QED
        BY <2>1, <2>4, <2>5
    <2> QED
      BY <1>1, <2>6
  <1> QED
    BY <1>2, <1>3

LEMMA FlattenOne ==
  ASSUME NEW s
  PROVE  FlattenSeq(<<s>>) = s
  <1>1. Len(<<s>>) = 1 /\ Len(<<s>>) \in Nat \ {0}
    OBVIOUS
  <1>2. \E f : f[1] = <<s>>[1] /\ FlattenSeq(<<s>>) = f[Len(<<s>>)]
    BY <1>1, FlattenGoes
  <1> QED
    BY <1>2

(***************************************************************************)
(* Listing and sorting.                                                    *)
(***************************************************************************)
(* A strict total order on S, as a set of pairs.                           *)
Orders(R, S) ==
  /\ \A x \in S : <<x, x>> \notin R
  /\ \A x, y \in S : x # y => <<x, y>> \in R \/ <<y, x>> \in R
  /\ \A x, y, z \in S : <<x, y>> \in R /\ <<y, z>> \in R => <<x, z>> \in R

(* Listed() lists every element of the set once, in the order.             *)
LEMMA ListedIs ==
  ASSUME NEW S, IsFiniteSet(S), NEW R, Orders(R, S)
  PROVE  /\ Listed(S, R) \in Seq(S) /\ DOMAIN Listed(S, R) = 1..Cardinality(S)
         /\ \A x \in S : \E k \in DOMAIN Listed(S, R) : Listed(S, R)[k] = x
         /\ \A j, k \in DOMAIN Listed(S, R) : j < k => <<Listed(S, R)[j], Listed(S, R)[k]>> \in R
  <1> DEFINE n == Cardinality(S)
             below(x) == {y \in S : <<y, x>> \in R}
             rank == [x \in S |-> Cardinality(below(x))]
             L == Listed(S, R)
  <1>1. n \in Nat
    BY FS_CardinalityType
  <1>2. ASSUME NEW x \in S PROVE IsFiniteSet(below(x)) /\ Cardinality(below(x)) \in 0..(n - 1)
    <2>1. below(x) \in SUBSET S /\ below(x) # S
      BY DEF Orders
    <2>2. IsFiniteSet(below(x)) /\ Cardinality(below(x)) <= n /\ Cardinality(below(x)) # n
      <3> HIDE DEF below
      <3> QED
        BY <2>1, FS_Subset
    <2>3. Cardinality(below(x)) \in Nat
      BY <2>2, FS_CardinalityType
    <2> QED
      BY <1>1, <2>2, <2>3
  <1>3. ASSUME NEW x \in S, NEW y \in S, <<x, y>> \in R PROVE rank[x] < rank[y]
    <2>1. below(x) \in SUBSET below(y) /\ x \in below(y) /\ x \notin below(x)
      BY <1>3 DEF Orders
    <2>2. Cardinality(below(x)) <= Cardinality(below(y)) /\ Cardinality(below(x)) # Cardinality(below(y))
      <3> HIDE DEF below
      <3> QED
        BY <1>2, <2>1, FS_Subset
    <2>3. rank[x] = Cardinality(below(x)) /\ rank[y] = Cardinality(below(y))
      OBVIOUS
    <2> HIDE DEF below, rank
    <2> QED
      BY <1>1, <1>2, <2>2, <2>3
  <1>4. rank \in [S -> 0..(n - 1)]
    <2> HIDE DEF below, n
    <2> QED
      BY <1>2
  <1> HIDE DEF rank
  <1>5. ASSUME NEW x \in S, NEW y \in S, rank[x] = rank[y] PROVE x = y
    <2>1. rank[x] \in Int /\ rank[y] \in Int
      BY <1>4
    <2>2. CASE <<x, y>> \in R
      BY <1>3, <1>5, <2>1, <2>2
    <2>3. CASE <<y, x>> \in R
      BY <1>3, <1>5, <2>1, <2>3
    <2> QED
      BY <2>2, <2>3 DEF Orders
  <1>6. rank \in Surjection(S, 0..(n - 1))
    <2>1. rank \in Injection(S, 0..(n - 1))
      BY <1>4, <1>5 DEF Injection, IsInjective
    <2>2. IsFiniteSet(0..(n - 1)) /\ Cardinality(0..(n - 1)) = n
      <3>1. 0 \in Int /\ n - 1 \in Int
        BY <1>1
      <3>2. /\ IsFiniteSet(0..(n - 1))
            /\ Cardinality(0..(n - 1)) = IF 0 > n - 1 THEN 0 ELSE (n - 1) - 0 + 1
        BY <3>1, FS_Interval
      <3> HIDE DEF n
      <3> QED
        BY <1>1, <3>2
    <2> QED
      BY <2>1, <2>2, FS_Injection DEF n
  <1>7. \A k \in 0..(n - 1) : \E x \in S : rank[x] = k
    BY <1>6 DEF Surjection
  <1>8. L = [k \in 1..n |-> CHOOSE x \in S : rank[x] = k - 1]
    BY DEF Listed, rank
  <1> HIDE DEF n, L
  <1>9. \A k \in 1..n : L[k] \in S /\ rank[L[k]] = k - 1
    <2> SUFFICES ASSUME NEW k \in 1..n PROVE L[k] \in S /\ rank[L[k]] = k - 1
      OBVIOUS
    <2>1. k - 1 \in 0..(n - 1)
      BY <1>1
    <2>2. \E x \in S : rank[x] = k - 1
      BY <1>7, <2>1
    <2> QED
      BY <1>8, <2>2
  <1>10. L \in Seq(S) /\ DOMAIN L = 1..n
    BY <1>1, <1>8, <1>9
  <1>11. \A x \in S : \E k \in 1..n : L[k] = x
    <2> SUFFICES ASSUME NEW x \in S PROVE \E k \in 1..n : L[k] = x
      OBVIOUS
    <2>1. rank[x] \in 0..(n - 1)
      BY <1>4
    <2>2. rank[x] + 1 \in 1..n /\ (rank[x] + 1) - 1 = rank[x]
      BY <1>1, <2>1
    <2>3. L[rank[x] + 1] = x
      BY <1>5, <1>9, <2>2
    <2> QED
      BY <2>2, <2>3
  <1>12. ASSUME NEW j \in 1..n, NEW k \in 1..n, j < k PROVE <<L[j], L[k]>> \in R
    <2>1. L[j] \in S /\ L[k] \in S /\ rank[L[j]] = j - 1 /\ rank[L[k]] = k - 1
      BY <1>9
    <2>2. L[j] # L[k]
      BY <1>1, <1>12, <2>1
    <2>3. ~(rank[L[k]] < rank[L[j]])
      BY <1>1, <1>12, <2>1
    <2> QED
      BY <1>3, <2>1, <2>2, <2>3 DEF Orders
  <1> QED
    BY <1>10, <1>11, <1>12 DEF L, n

(* The order Sorted() lists the positions in.                              *)
PlacesBy(s, lt) ==
  {p \in (DOMAIN s) \X (DOMAIN s) : p \in lt \/ (<<p[2], p[1]>> \notin lt /\ p[1] < p[2])}

(* Sorting loses and invents nothing.                                      *)
LEMMA SortedIs ==
  ASSUME NEW T, NEW s \in Seq(T), NEW lt, Orders(PlacesBy(s, lt), DOMAIN s)
  PROVE  /\ Sorted(s, lt) \in Seq(T) /\ Len(Sorted(s, lt)) = Len(s)
         /\ \A k \in DOMAIN Sorted(s, lt) : \E i \in DOMAIN s : Sorted(s, lt)[k] = s[i]
         /\ \A i \in DOMAIN s : \E k \in DOMAIN Sorted(s, lt) : Sorted(s, lt)[k] = s[i]
  <1> DEFINE n == Len(s)
             order == Listed(DOMAIN s, PlacesBy(s, lt))
  <1>1. n \in Nat /\ DOMAIN s = 1..n /\ \A k \in 1..n : s[k] \in T
    OBVIOUS
  <1>2. IsFiniteSet(1..n) /\ Cardinality(1..n) = n
    <2> HIDE DEF n
    <2> QED
      BY <1>1, FS_Interval
  <1>3. /\ order \in Seq(1..n) /\ DOMAIN order = 1..n
        /\ \A i \in 1..n : \E k \in 1..n : order[k] = i
    <2> DEFINE D == DOMAIN s
               R == PlacesBy(s, lt)
    <2>1. IsFiniteSet(D) /\ Cardinality(D) = n /\ Orders(R, D) /\ D = 1..n
      BY <1>1, <1>2
    <2> HIDE DEF D, R, n
    <2>2. /\ Listed(D, R) \in Seq(D) /\ DOMAIN Listed(D, R) = 1..n
          /\ \A i \in D : \E k \in 1..n : Listed(D, R)[k] = i
      <3>1. /\ Listed(D, R) \in Seq(D) /\ DOMAIN Listed(D, R) = 1..Cardinality(D)
            /\ \A i \in D : \E k \in DOMAIN Listed(D, R) : Listed(D, R)[k] = i
        BY <2>1, ListedIs
      <3> QED
        BY <2>1, <3>1
    <2> QED
      BY <2>1, <2>2 DEF D, R
  <1>4. Sorted(s, lt) = [k \in 1..n |-> s[order[k]]]
    BY <1>1 DEF Sorted, PlacesBy
  <1> HIDE DEF n, order
  <1>5. \A k \in 1..n : order[k] \in 1..n
    <2>1. Len(order) = n
      BY <1>1, <1>3
    <2> QED
      BY <1>3, <2>1, ElementOfSeq
  <1>6. Sorted(s, lt) \in Seq(T) /\ Len(Sorted(s, lt)) = n /\ DOMAIN Sorted(s, lt) = 1..n
    BY <1>1, <1>4, <1>5
  <1>7. \A k \in 1..n : Sorted(s, lt)[k] = s[order[k]]
    BY <1>4
  <1> QED
    BY <1>1, <1>3, <1>5, <1>6, <1>7 DEF n

(***************************************************************************)
(* Spellings and their ids.                                                *)
(***************************************************************************)
LEMMA AtMostIs ==
  ASSUME NEW T, NEW s \in Seq(T), NEW n \in Nat
  PROVE  /\ AtMost(s, n) \in Seq(T) /\ Len(AtMost(s, n)) = (IF Len(s) < n THEN Len(s) ELSE n)
         /\ \A k \in DOMAIN AtMost(s, n) : k \in DOMAIN s /\ AtMost(s, n)[k] = s[k]
         /\ s # <<>> /\ n > 0 => AtMost(s, n) # <<>>
  <1> DEFINE h == IF Len(s) < n THEN Len(s) ELSE n
  <1>1. h \in Nat /\ h <= Len(s) /\ DOMAIN s = 1..Len(s) /\ Len(s) \in Nat
    OBVIOUS
  <1>2. s # <<>> /\ n > 0 => h > 0
    OBVIOUS
  <1>3. AtMost(s, n) = SubSeq(s, 1, h)
    BY DEF AtMost
  <1> HIDE DEF h
  <1>4. \A i \in 1..h : s[i] \in T
    BY <1>1
  <1>5. /\ SubSeq(s, 1, h) \in Seq(T) /\ Len(SubSeq(s, 1, h)) = (IF 1 <= h THEN h - 1 + 1 ELSE 0)
        /\ \A i \in 1..(h - 1 + 1) : SubSeq(s, 1, h)[i] = s[1 + i - 1]
    BY <1>1, <1>4, SubSeqProperties
  <1>6. Len(SubSeq(s, 1, h)) = h /\ DOMAIN SubSeq(s, 1, h) = 1..h
    BY <1>1, <1>5
  <1>7. \A i \in 1..h : i \in DOMAIN s /\ SubSeq(s, 1, h)[i] = s[i]
    BY <1>1, <1>5
  <1>8. h > 0 => SubSeq(s, 1, h) # <<>>
    <2>1. PICK u : u = SubSeq(s, 1, h)
      OBVIOUS
    <2>2. Len(u) = h
      BY <1>6, <2>1
    <2>3. h > 0 => u # <<>>
      BY <1>1, <2>2
    <2> QED
      BY <2>1, <2>3
  <1>9. Len(SubSeq(s, 1, h)) = (IF Len(s) < n THEN Len(s) ELSE n)
    BY <1>6 DEF h
  <1> QED
    BY <1>2, <1>3, <1>5, <1>6, <1>7, <1>8, <1>9

(* A changed place keeps the sequence one.                                 *)
LEMMA ExceptIs ==
  ASSUME NEW T, NEW s \in Seq(T), NEW i, NEW v \in T
  PROVE  [s EXCEPT ![i] = v] \in Seq(T)
  <1>1. DOMAIN s = 1..Len(s) /\ Len(s) \in Nat /\ \A k \in 1..Len(s) : s[k] \in T
    OBVIOUS
  <1>2. [s EXCEPT ![i] = v] = [k \in 1..Len(s) |-> IF k = i THEN v ELSE s[k]]
    BY <1>1
  <1>3. \A k \in 1..Len(s) : (IF k = i THEN v ELSE s[k]) \in T
    BY <1>1
  <1>4. [k \in 1..Len(s) |-> IF k = i THEN v ELSE s[k]] \in Seq(T)
    BY <1>1, <1>3
  <1> QED
    BY <1>2, <1>4

LEMMA FormatIs ==
  ASSUME NEW s \in Spellings
  PROVE  Format(s) \in Seq(Int)
  <1>1. s \in Seq(Int)
    <2>1. PICK T : T = 97..122
      OBVIOUS
    <2>2. T \subseteq Int /\ s \in Seq(T)
      BY <2>1, SpellingsAssumption
    <2> QED
      BY ONLY <2>2, SeqMonotonic
  <1>2. [s EXCEPT ![2] = 200] \in Seq(Int)
    BY <1>1, ExceptIs
  <1> QED
    BY <1>1, <1>2 DEF Format

(* The full id of a spelling counts the spellings before it.               *)
LEMMA FullIdIs ==
  ASSUME NEW s \in Spellings
  PROVE  FullId[s] \in FullIds
  <1> DEFINE B == {t \in Spellings : Before(Format(t), Format(s))}
  <1>1. ~Before(Format(s), Format(s))
    <2>1. PICK f : f = Format(s) /\ f \in Seq(Int)
      BY FormatIs
    <2>2. ~Before(f, f)
      BY <2>1 DEF Before
    <2> QED
      BY <2>1, <2>2
  <1>2. B \in SUBSET Spellings /\ B # Spellings
    BY <1>1
  <1>3. IsFiniteSet(B) /\ Cardinality(B) <= Cardinality(Spellings) /\ Cardinality(B) # Cardinality(Spellings)
    <2> HIDE DEF B
    <2> QED
      BY <1>2, FS_Subset, SpellingsAssumption
  <1>4. Cardinality(B) \in Nat /\ Cardinality(Spellings) \in Nat
    BY <1>3, FS_CardinalityType, SpellingsAssumption
  <1>5. FullId[s] = kFullSplIdStart + Cardinality(B)
    BY DEF FullId
  <1> HIDE DEF B
  <1> QED
    BY <1>3, <1>4, <1>5 DEF FullIds, kFullSplIdStart

(* A node of the trie begins a spelling.                                   *)
LEMMA NodesBegin ==
  ASSUME NEW n \in SplNodes
  PROVE  /\ n \in Seq(97..122) /\ Len(n) \in Nat \ {0} /\ n # <<>>
         /\ \E s \in Spellings : AtMost(s, Len(n)) = n
  <1>0. PICK s \in Spellings : \E k \in 1..Len(s) : n = SubSeq(s, 1, k)
    BY DEF SplNodes
  <1>1. PICK k \in 1..Len(s) : n = SubSeq(s, 1, k)
    BY <1>0
  <1>2. s \in Seq(97..122) /\ Len(s) \in Nat /\ k \in Nat \ {0} /\ k <= Len(s)
    <2>1. s \in Seq(97..122)
      BY SpellingsAssumption
    <2> QED
      BY <2>1
  <1>3. AtMost(s, k) = n
    <2>1. (IF Len(s) < k THEN Len(s) ELSE k) = k
      BY <1>2
    <2> QED
      BY <1>1, <2>1 DEF AtMost
  <1>4. AtMost(s, k) \in Seq(97..122) /\ Len(AtMost(s, k)) = (IF Len(s) < k THEN Len(s) ELSE k)
    BY <1>2, AtMostIs
  <1>5. n \in Seq(97..122) /\ Len(n) = k
    BY <1>2, <1>3, <1>4
  <1> QED
    BY <1>2, <1>3, <1>5

(* The half ids lie below the full ids.                                    *)
LEMMA HalfIdIs ==
  ASSUME NEW n \in HalfNodes
  PROVE  HalfId(n) \in 1..29
  <1> DEFINE D == {d \in Doubled : d[1] < n[1]}
             E == {<<99, 104>>, <<115, 104>>}
  <1>1. n \in Seq(97..122) /\ Len(n) \in Nat \ {0} /\ n[1] \in 97..122
    <2>1. n \in SplNodes
      BY DEF HalfNodes
    <2>2. n \in Seq(97..122) /\ Len(n) \in Nat \ {0}
      BY <2>1, NodesBegin
    <2>3. 1 \in 1..Len(n)
      BY <2>2
    <2>4. n[1] \in 97..122
      <3> HIDE DEF D, E
      <3> QED
        BY <2>2, <2>3, ElementOfSeq
    <2> QED
      BY ONLY <2>2, <2>4
  <1>2. D \in SUBSET E
    <2>1. PICK c \in 97..122 : c = n[1]
      BY <1>1
    <2>2. ASSUME NEW d \in D PROVE d \in E
      <3>1. d \in Doubled /\ d[1] < c
        BY <2>1, <2>2
      <3>2. d = <<99, 104>> \/ d = <<115, 104>> \/ d = <<122, 104>>
        BY ONLY <3>1 DEF Doubled
      <3>3. d # <<122, 104>>
        <4>1. ~(122 < c)
          BY ONLY c \in 97..122
        <4> QED
          BY ONLY <3>1, <4>1
      <3> QED
        BY <3>2, <3>3
    <2> HIDE DEF D, E
    <2> QED
      BY ONLY <2>2
  <1>3. IsFiniteSet(E) /\ Cardinality(E) \in 0..2
    <2>1. PICK x, y : x = <<99, 104>> /\ y = <<115, 104>>
      OBVIOUS
    <2>2. PICK X : X = {x}
      OBVIOUS
    <2>3. E = X \cup {y}
      BY <2>1, <2>2
    <2>4. IsFiniteSet(X) /\ Cardinality(X) = 1
      BY ONLY <2>2, FS_Singleton
    <2>5. /\ IsFiniteSet(X \cup {y})
          /\ Cardinality(X \cup {y}) = IF y \in X THEN Cardinality(X) ELSE Cardinality(X) + 1
      BY ONLY <2>4, FS_AddElement
    <2> HIDE DEF E
    <2> QED
      BY ONLY <2>3, <2>4, <2>5
  <1>4. IsFiniteSet(D) /\ Cardinality(D) <= Cardinality(E)
    <2> HIDE DEF D, E
    <2> QED
      BY <1>2, <1>3, FS_Subset
  <1>5. Cardinality(D) \in 0..2
    <2>1. Cardinality(D) \in Nat
      <3> HIDE DEF D
      <3> QED
        BY <1>4, FS_CardinalityType
    <2> HIDE DEF D, E
    <2> QED
      BY <1>3, <1>4, <2>1
  <1>6. HalfId(n) = n[1] - 96 + Cardinality(D) + (Len(n) - 1)
    BY DEF HalfId
  <1>7. Len(n) = 1 \/ Len(n) = 2
    BY DEF HalfNodes, Doubled
  <1>8. PICK c \in 0..2 : c = Cardinality(D)
    BY <1>5
  <1>9. PICK l \in 1..2 : l = Len(n)
    BY <1>7
  <1>10. PICK a \in 97..122 : a = n[1]
    BY <1>1
  <1> HIDE DEF D
  <1>11. HalfId(n) = a - 96 + c + (l - 1)
    BY <1>6, <1>8, <1>9, <1>10
  <1> QED
    BY <1>11

Ids == HalfIds \cup FullIds

LEMMA IdsAre ==
  /\ Ids \subseteq Nat /\ 0 \notin Ids
  /\ \A id \in Ids : IsHalfId(id) <=> id \in HalfIds
  /\ \A n \in SplNodes : NodeId[n] \in Ids \cup {0}
  <1>1. HalfIds \subseteq 1..29
    BY HalfIdIs DEF HalfIds
  <1>2. FullIds \subseteq Nat /\ \A f \in FullIds : f >= 30
    <2>1. Cardinality(Spellings) \in Nat
      BY FS_CardinalityType, SpellingsAssumption
    <2> QED
      BY <2>1 DEF FullIds, kFullSplIdStart
  <1>3. \A n \in SplNodes : NodeId[n] \in Ids \cup {0}
    BY FullIdIs DEF NodeId, Ids, HalfIds
  <1> QED
    BY <1>1, <1>2, <1>3 DEF Ids, IsHalfId, kFullSplIdStart

(* An id stands for full ids, the first of them one.                       *)
LEMMA IdsStandFor ==
  ASSUME NEW id \in Ids
  PROVE  /\ IdStart(id) \in FullIds /\ IdNum(id) \in Nat \ {0} /\ IdStart(id) \in IdRange(id)
         /\ IdStart(id) \in Int /\ IdRange(id) = IdStart(id)..(IdStart(id) + IdNum(id) - 1)
  <1>1. IdStart(id) \in FullIds /\ IdNum(id) \in Nat \ {0}
    <2>1. CASE id \in HalfIds
      <3> DEFINE n == HalfNode[id]
                 F == FullsOf(n)
      <3>1. n \in HalfNodes
        <4>1. \E x \in HalfNodes : HalfId(x) = id
          BY <2>1 DEF HalfIds
        <4> QED
          BY <2>1, <4>1 DEF HalfNode
      <3>2. n \in SplNodes
        BY <3>1 DEF HalfNodes
      <3>3. PICK s \in Spellings : AtMost(s, Len(n)) = n
        BY <3>2, NodesBegin
      <3>4. F # {} /\ F \subseteq FullIds
        BY <3>3, FullIdIs DEF FullsOf
      <3>5. FullIds \subseteq Nat
        BY IdsAre DEF Ids
      <3>6. \E f \in F : \A g \in F : f <= g
        <4> HIDE DEF F
        <4> QED
          BY <3>4, <3>5, LeastNumber
      <3>7. H2FStart[id] \in F
        <4>1. H2FStart[id] = CHOOSE f \in F : \A g \in F : f <= g
          BY <2>1 DEF H2FStart
        <4> HIDE DEF F
        <4> QED
          BY <3>6, <4>1
      <3>8. H2FNum[id] = Cardinality(F)
        BY <2>1 DEF H2FNum
      <3> HIDE DEF F
      <3>9. IsFiniteSet(F)
        <4>1. IsFiniteSet(FullIds)
          <5>1. Cardinality(Spellings) \in Nat
            BY FS_CardinalityType, SpellingsAssumption
          <5>2. kFullSplIdStart \in Int /\ kFullSplIdStart + Cardinality(Spellings) - 1 \in Int
            BY <5>1 DEF kFullSplIdStart
          <5> QED
            BY <5>2, FS_Interval DEF FullIds
        <4> QED
          BY <3>4, <4>1, FS_Subset
      <3>10. Cardinality(F) \in Nat \ {0}
        BY <3>4, <3>9, FS_CardinalityType, FS_EmptySet
      <3>11. IsHalfId(id)
        BY <2>1, IdsAre
      <3> QED
        BY <3>4, <3>7, <3>8, <3>10, <3>11 DEF IdStart, IdNum
    <2>2. CASE id \notin HalfIds
      <3>1. ~IsHalfId(id) /\ id \in FullIds
        BY <2>2, IdsAre DEF Ids
      <3> QED
        BY <3>1 DEF IdStart, IdNum
    <2> QED
      BY <2>1, <2>2
  <1>2. IdStart(id) \in Int
    BY <1>1, IdsAre DEF Ids
  <1>3. IdRange(id) = IdStart(id)..(IdStart(id) + IdNum(id) - 1)
    BY DEF IdRange
  <1> QED
    BY <1>1, <1>2, <1>3

(***************************************************************************)
(* The parser.                                                             *)
(***************************************************************************)
Begun(str) ==
  [pos |-> 0, node |-> <<>>, idxs |-> <<>>, starts |-> <<0>>, split |-> FALSE,
   done |-> str = <<>> \/ ~IsLetter(str[1]), pre |-> FALSE]

(* How ParseSpl() goes.                                                    *)
LEMMA ParseSplLoop ==
  ASSUME NEW str, NEW max, Len(str) \in Nat
  PROVE  \E f : /\ f[0] = Begun(str)
                /\ \A k \in (0 + 1)..(2 * Len(str) + 1) : f[k] = ParseStep(str, max, f[k - 1])
                /\ ParseSpl(str, max) = f[2 * Len(str) + 1]
  <1> DEFINE last == 2 * Len(str) + 1
             Then(v, k) == ParseStep(str, max, v)
             Goes(n, f) == f = [k \in 0..n |-> IF k = 0 THEN Begun(str) ELSE Then(f[k - 1], k)]
             S == {n \in Nat : \E f : Goes(n, f)}
  <1>1. ParseSpl(str, max) = (CHOOSE f : Goes(last, f))[last]
    BY DEF ParseSpl, Begun
  <1> HIDE DEF last, Then
  <1>2. 0 \in S
    <2>1. Goes(0, [k \in 0..0 |-> Begun(str)])
      OBVIOUS
    <2>2. 0 = 0
      OBVIOUS
    <2> HIDE DEF Goes
    <2> QED
      BY <2>1, <2>2
  <1>3. ASSUME NEW n \in Nat, n \in S PROVE n + 1 \in S
    <2> DEFINE e == n
    <2>1. PICK f : Goes(e, f)
      BY <1>3
    <2>i. e \in Nat /\ e >= 0 /\ e + 1 = (n + 1)
      OBVIOUS
    <2> HIDE DEF e
    <2> DEFINE g == [k \in 0..(e + 1) |-> IF k = e + 1 THEN Then(f[e], e + 1) ELSE f[k]]
    <2>2. ASSUME NEW k \in 0..(e + 1)
          PROVE  g[k] = IF k = 0 THEN Begun(str) ELSE Then(g[k - 1], k)
      <3>1. CASE k = e + 1
        BY <2>1, <2>i, <3>1
      <3>2. CASE k \in 0..e
        <4>0. k # e + 1 /\ k \in 0..(e + 1)
          BY <2>i, <3>2
        <4>1. g[k] = f[k]
          BY <4>0
        <4>3. f[k] = IF k = 0 THEN Begun(str) ELSE Then(f[k - 1], k)
          <5> HIDE DEF g
          <5> QED
            BY <2>1, <3>2
        <4>2. k # 0 => g[k - 1] = f[k - 1]
          BY <2>i, <3>2
        <4> HIDE DEF g
        <4> QED
          BY <4>1, <4>2, <4>3
      <3> QED
        BY <2>i, <3>1, <3>2
    <2>3. Goes(e + 1, g)
      BY <2>2
    <2> HIDE DEF g, Goes
    <2> QED
      BY <2>i, <2>3
  <1>4. \E f : Goes(last, f)
    <2>1. last \in S
      <3> HIDE DEF S
      <3>1. last \in Nat
        BY DEF last
      <3> QED
        BY <1>2, <1>3, <3>1, Induction
    <2>2. (last) = last
      BY DEF last
    <2> HIDE DEF Goes
    <2> QED
      BY <2>1, <2>2
  <1>5. Goes(last, CHOOSE f : Goes(last, f))
    <2> HIDE DEF Goes
    <2> QED
      BY <1>4
  <1> DEFINE f == CHOOSE f : Goes(last, f)
  <1>6. f = [k \in 0..last |-> IF k = 0 THEN Begun(str) ELSE Then(f[k - 1], k)]
    BY <1>5
  <1>7. last \in Nat /\ last >= 0
    BY DEF last
  <1> HIDE DEF f
  <1>8. f[0] = Begun(str) /\ \A k \in (0 + 1)..last : f[k] = Then(f[k - 1], k)
    <2>1. 0 \in 0..last
      BY <1>7
    <2>2. ASSUME NEW k \in (0 + 1)..last PROVE k \in 0..last /\ k # 0
      BY <1>7
    <2> QED
      BY <1>6, <2>1, <2>2
  <1> QED
    BY <1>1, <1>8 DEF f, last, Then

Parsing ==
  [pos : Nat, node : SplNodes \cup {<<>>}, idxs : Seq(Ids), starts : Seq(Nat), split : BOOLEAN,
   done : BOOLEAN, pre : BOOLEAN]

LEMMA ParseStepIs ==
  ASSUME NEW str, Len(str) \in Nat, NEW max, NEW p \in Parsing, p.pos <= Len(str)
  PROVE  ParseStep(str, max, p) \in Parsing /\ ParseStep(str, max, p).pos <= Len(str)
  <1> DEFINE ch == str[p.pos + 1]
             found(start) == [p EXCEPT !.idxs = Append(@, NodeId[p.node]), !.node = <<>>,
                                       !.starts = Append(@, start), !.pos = start,
                                       !.done = Len(p.idxs) + 1 >= max]
  <1>1. ASSUME NEW start \in Nat, ValidId(p.node) PROVE found(start) \in Parsing
    <2>1. NodeId[p.node] \in Ids
      BY <1>1, IdsAre DEF ValidId, Parsing
    <2>2. Append(p.idxs, NodeId[p.node]) \in Seq(Ids) /\ Append(p.starts, start) \in Seq(Nat)
      BY <2>1 DEF Parsing
    <2>3. (Len(p.idxs) + 1 >= max) \in BOOLEAN
      OBVIOUS
    <2> QED
      BY <2>2, <2>3 DEF Parsing
  <1>2. p.pos \in Nat /\ p.pos + 1 \in Nat
    BY DEF Parsing
  <1>3. \A q \in Parsing, b \in BOOLEAN : [q EXCEPT !.done = TRUE] \in Parsing
          /\ [q EXCEPT !.done = TRUE, !.pre = b] \in Parsing /\ [q EXCEPT !.split = b] \in Parsing
    BY DEF Parsing
  <1>4. p.split \in BOOLEAN /\ (~p.split) \in BOOLEAN
    BY DEF Parsing
  <1>a. \A x \in SplNodes, i \in Nat : [p EXCEPT !.pos = i, !.node = x, !.split = FALSE] \in Parsing
    BY DEF Parsing
  <1>b. \A x \in Seq(Nat), i \in Nat : [p EXCEPT !.pos = i, !.starts = x] \in Parsing
    BY DEF Parsing
  <1>c. [p.starts EXCEPT ![Len(p.idxs) + 1] = p.pos + 1] \in Seq(Nat)
    <2>1. p.starts \in Seq(Nat)
      BY DEF Parsing
    <2> QED
      BY <1>2, <2>1, ExceptIs
  <1>5. Append(p.node, ch) \in SplNodes =>
          [p EXCEPT !.pos = @ + 1, !.node = Append(@, ch), !.split = FALSE] \in Parsing
    <2> HIDE DEF ch
    <2>1. [p EXCEPT !.pos = @ + 1, !.node = Append(@, ch), !.split = FALSE]
            = [p EXCEPT !.pos = p.pos + 1, !.node = Append(p.node, ch), !.split = FALSE]
      OBVIOUS
    <2> QED
      BY <1>2, <1>a, <2>1
  <1>6. [p EXCEPT !.pos = @ + 1, !.starts[Len(p.idxs) + 1] = p.pos + 1] \in Parsing
    <2>1. [p EXCEPT !.pos = @ + 1, !.starts[Len(p.idxs) + 1] = p.pos + 1]
            = [p EXCEPT !.pos = p.pos + 1, !.starts = [p.starts EXCEPT ![Len(p.idxs) + 1] = p.pos + 1]]
      OBVIOUS
    <2> QED
      BY <1>2, <1>b, <1>c, <2>1
  <1> HIDE DEF found, ch
  <1>7. ParseStep(str, max, p) =
          CASE p.done -> p
            [] ~p.done /\ p.pos = Len(str) ->
                 [(IF ValidId(p.node) THEN found(p.pos) ELSE p) EXCEPT !.done = TRUE, !.pre = ~p.split]
            [] ~p.done /\ p.pos < Len(str) /\ IsLetter(ch) /\ Append(p.node, ch) \in SplNodes ->
                 [p EXCEPT !.pos = @ + 1, !.node = Append(@, ch), !.split = FALSE]
            [] ~p.done /\ p.pos < Len(str) /\ IsLetter(ch) /\ Append(p.node, ch) \notin SplNodes ->
                 IF ValidId(p.node) THEN [found(p.pos) EXCEPT !.split = FALSE]
                 ELSE [p EXCEPT !.done = TRUE]
            [] ~p.done /\ p.pos < Len(str) /\ ~IsLetter(ch) ->
                 IF ValidId(p.node) THEN [found(p.pos + 1) EXCEPT !.split = TRUE]
                 ELSE IF p.split
                   THEN [p EXCEPT !.pos = @ + 1, !.starts[Len(p.idxs) + 1] = p.pos + 1]
                   ELSE [p EXCEPT !.done = TRUE]
    BY DEF ParseStep, found, ch
  <1>8. \/ p.done \/ p.pos = Len(str)
        \/ p.pos < Len(str) /\ IsLetter(ch) /\ Append(p.node, ch) \in SplNodes
        \/ p.pos < Len(str) /\ IsLetter(ch) /\ Append(p.node, ch) \notin SplNodes
        \/ p.pos < Len(str) /\ ~IsLetter(ch)
    BY <1>2
  <1>p. p.done \in BOOLEAN
    BY DEF Parsing
  <1>f. \A start : found(start).pos = start
    BY DEF found, Parsing
  <1> HIDE DEF Parsing
  <1> DEFINE q == ParseStep(str, max, p)
             Good(r) == r \in Parsing /\ r.pos <= Len(str)
  <1>9. CASE p.done
    <2>1. q = p
      BY <1>7, <1>9
    <2> QED
      BY <2>1
  <1>10. CASE ~p.done /\ p.pos = Len(str)
    <2>1. q = [(IF ValidId(p.node) THEN found(p.pos) ELSE p) EXCEPT !.done = TRUE, !.pre = ~p.split]
      BY <1>7, <1>10
    <2>2. PICK r : r = IF ValidId(p.node) THEN found(p.pos) ELSE p
      OBVIOUS
    <2>3. r \in Parsing /\ r.pos = p.pos
      BY <1>1, <1>2, <1>f, <2>2
    <2>4. [r EXCEPT !.done = TRUE, !.pre = ~p.split].pos = r.pos
      BY <2>3 DEF Parsing
    <2> QED
      BY <1>3, <1>4, <2>1, <2>2, <2>3, <2>4
  <1>11. CASE ~p.done /\ p.pos < Len(str) /\ IsLetter(ch) /\ Append(p.node, ch) \in SplNodes
    <2>1. q = [p EXCEPT !.pos = @ + 1, !.node = Append(@, ch), !.split = FALSE]
      BY <1>2, <1>7, <1>11
    <2>2. [p EXCEPT !.pos = @ + 1, !.node = Append(@, ch), !.split = FALSE].pos = p.pos + 1
      BY DEF Parsing
    <2> QED
      BY <1>2, <1>5, <1>11, <2>1, <2>2
  <1>12. CASE ~p.done /\ p.pos < Len(str) /\ IsLetter(ch) /\ Append(p.node, ch) \notin SplNodes
    <2>1. q = IF ValidId(p.node) THEN [found(p.pos) EXCEPT !.split = FALSE] ELSE [p EXCEPT !.done = TRUE]
      BY <1>2, <1>7, <1>12
    <2>2. PICK r : r = found(p.pos)
      OBVIOUS
    <2>3. CASE ValidId(p.node)
      <3>1. r \in Parsing /\ r.pos = p.pos
        BY <1>1, <1>2, <1>f, <2>2, <2>3
      <3>2. q = [r EXCEPT !.split = FALSE] /\ [r EXCEPT !.split = FALSE].pos = r.pos
        BY <2>1, <2>2, <2>3, <3>1 DEF Parsing
      <3> QED
        BY <1>3, <3>1, <3>2
    <2>4. CASE ~ValidId(p.node)
      <3>1. q = [p EXCEPT !.done = TRUE] /\ [p EXCEPT !.done = TRUE].pos = p.pos
        BY <2>1, <2>4 DEF Parsing
      <3> QED
        BY <1>3, <3>1
    <2> QED
      BY <2>3, <2>4
  <1>13. CASE ~p.done /\ p.pos < Len(str) /\ ~IsLetter(ch)
    <2>1. q = IF ValidId(p.node) THEN [found(p.pos + 1) EXCEPT !.split = TRUE]
              ELSE IF p.split
                THEN [p EXCEPT !.pos = @ + 1, !.starts[Len(p.idxs) + 1] = p.pos + 1]
                ELSE [p EXCEPT !.done = TRUE]
      BY <1>2, <1>7, <1>13
    <2>2. PICK r : r = found(p.pos + 1)
      OBVIOUS
    <2>3. p.pos + 1 <= Len(str)
      BY <1>2, <1>13
    <2>4. CASE ValidId(p.node)
      <3>1. r \in Parsing /\ r.pos = p.pos + 1
        BY <1>1, <1>2, <1>f, <2>2, <2>4
      <3>2. q = [r EXCEPT !.split = TRUE] /\ [r EXCEPT !.split = TRUE].pos = r.pos
        BY <2>1, <2>2, <2>4, <3>1 DEF Parsing
      <3> QED
        BY <1>3, <2>3, <3>1, <3>2
    <2>5. CASE ~ValidId(p.node) /\ p.split
      <3>1. [p EXCEPT !.pos = @ + 1, !.starts[Len(p.idxs) + 1] = p.pos + 1].pos = p.pos + 1
        BY DEF Parsing
      <3>2. q = [p EXCEPT !.pos = @ + 1, !.starts[Len(p.idxs) + 1] = p.pos + 1]
        BY <2>1, <2>5
      <3> QED
        BY <1>6, <2>3, <3>1, <3>2
    <2>6. CASE ~ValidId(p.node) /\ ~p.split
      <3>1. q = [p EXCEPT !.done = TRUE] /\ [p EXCEPT !.done = TRUE].pos = p.pos
        BY <2>1, <2>6 DEF Parsing
      <3> QED
        BY <1>3, <3>1
    <2> QED
      BY <2>4, <2>5, <2>6
  <1> QED
    BY <1>8, <1>9, <1>10, <1>11, <1>12, <1>13, <1>p

LEMMA ParseSplIs ==
  ASSUME NEW str, Len(str) \in Nat, NEW max
  PROVE  ParseSpl(str, max) \in Parsing
  <1>1. PICK f : /\ f[0] = Begun(str)
                 /\ \A k \in (0 + 1)..(2 * Len(str) + 1) : f[k] = ParseStep(str, max, f[k - 1])
                 /\ ParseSpl(str, max) = f[2 * Len(str) + 1]
    BY ParseSplLoop
  <1> DEFINE n == 2 * Len(str) + 1
             S == {k \in Nat : f[k] \in Parsing /\ f[k].pos <= Len(str)}
  <1>2. 0 \in S
    <2>1. Begun(str) \in Parsing /\ Begun(str).pos <= Len(str)
      BY DEF Begun, Parsing
    <2> QED
      BY <1>1, <2>1
  <1>3. ASSUME NEW p \in Parsing, p.pos <= Len(str)
        PROVE  ParseStep(str, max, p) \in Parsing /\ ParseStep(str, max, p).pos <= Len(str)
    BY <1>3, ParseStepIs
  <1>4. n \in Nat /\ n \in 0..n
    OBVIOUS
  <1>5. \A k \in 1..n : k - 1 \in S => k \in S
    BY <1>1, <1>3
  <1>6. 0..n \subseteq S
    <2> HIDE DEF S, n
    <2> QED
      BY <1>2, <1>4, <1>5, Upwards
  <1> QED
    BY <1>1, <1>4, <1>6

LEMMA SplidByStrIs ==
  ASSUME NEW str, Len(str) \in Nat
  PROVE  SplidByStr(str).id \in Ids \cup {0} /\ SplidByStr(str).pre \in BOOLEAN
  <1> DEFINE p == ParseSpl(str, 2)
  <1>1. p \in Parsing
    BY ParseSplIs
  <1>2. SplidByStr(str) =
          [id |-> IF Len(p.idxs) = 1 /\ p.starts[2] = Len(str) THEN p.idxs[1] ELSE 0, pre |-> p.pre]
    BY DEF SplidByStr, WholeId
  <1>3. Len(p.idxs) = 1 => p.idxs[1] \in Ids
    BY <1>1 DEF Parsing
  <1> HIDE DEF p
  <1> QED
    BY <1>1, <1>2, <1>3 DEF Parsing

(* A letter more of a part of a string.                                    *)
LEMMA SubSeqNext ==
  ASSUME NEW T, NEW s \in Seq(T), NEW i \in Nat, NEW k \in Nat, i <= k, k < Len(s)
  PROVE  /\ Append(SubSeq(s, i + 1, k), s[k + 1]) = SubSeq(s, i + 1, k + 1)
         /\ s[k + 1] \in T /\ SubSeq(s, i + 1, i) = <<>>
  <1>1. PICK n \in Nat : n = Len(s)
    OBVIOUS
  <1>2. k + 1 \in 1..n /\ k + 1 \in 1..Len(s)
    BY <1>1
  <1>3. s[k + 1] \in T
    BY <1>2, ElementOfSeq
  <1>4. SubSeq(s, i + 1, k) \in Seq(T) /\ Len(SubSeq(s, i + 1, k)) = k - i
        /\ \A x \in 1..(k - i) : SubSeq(s, i + 1, k)[x] = s[i + x]
    OBVIOUS
  <1>5. SubSeq(s, i + 1, k + 1) \in Seq(T) /\ Len(SubSeq(s, i + 1, k + 1)) = k + 1 - i
        /\ \A x \in 1..(k + 1 - i) : SubSeq(s, i + 1, k + 1)[x] = s[i + x]
    OBVIOUS
  <1>6. PICK a : a = SubSeq(s, i + 1, k)
    OBVIOUS
  <1>7. PICK c : c = s[k + 1]
    OBVIOUS
  <1>8. Append(a, c) \in Seq(T) /\ Len(Append(a, c)) = k + 1 - i
        /\ \A x \in 1..(k + 1 - i) : Append(a, c)[x] = IF x = k + 1 - i THEN c ELSE a[x]
    BY <1>3, <1>4, <1>6, <1>7
  <1>9. PICK b : b = SubSeq(s, i + 1, k + 1)
    OBVIOUS
  <1>10. ASSUME NEW x \in 1..(k + 1 - i) PROVE Append(a, c)[x] = b[x]
    <2>1. CASE x = k + 1 - i
      <3>1. i + x = k + 1
        BY <2>1
      <3> QED
        BY <1>5, <1>7, <1>8, <1>9, <2>1, <3>1
    <2>2. CASE x # k + 1 - i
      <3>1. x \in 1..(k - i)
        BY <2>2
      <3> QED
        BY <1>4, <1>5, <1>6, <1>8, <1>9, <2>2, <3>1
    <2> QED
      BY <2>1, <2>2
  <1>11. Append(a, c) = b
    <2>1. b \in Seq(T) /\ Append(a, c) \in Seq(T) /\ Len(b) = Len(Append(a, c)) /\ Len(b) = k + 1 - i
      BY <1>5, <1>8, <1>9
    <2>2. \A x \in 1..Len(b) : b[x] = Append(a, c)[x]
      BY <1>10, <2>1
    <2> QED
      BY ONLY <2>1, <2>2, SeqEqual
  <1>12. SubSeq(s, i + 1, i) = <<>>
    OBVIOUS
  <1> QED
    BY <1>3, <1>6, <1>7, <1>9, <1>11, <1>12

(* What parsing a string of letters for two spellings can have seen: a     *)
(* node, or a whole spelling and a node.                                   *)
Walked(str, p, b) ==
  p.node = SubSeq(str, b + 1, p.pos) /\ (p.pos = b \/ p.node \in SplNodes) /\ b <= p.pos
Spelling1(str, j) == SubSeq(str, 1, j) \in SplNodes /\ NodeId[SubSeq(str, 1, j)] # 0
Begins(str) ==
  \/ str \in SplNodes
  \/ \E j \in 1..(Len(str) - 1) : Spelling1(str, j) /\ SubSeq(str, j + 1, Len(str)) \in SplNodes
Seen(str, p) ==
  /\ p \in Parsing /\ p.pos <= Len(str) /\ ~p.split
  /\ p.pre => p.done /\ Begins(str)
  /\ ~p.done => \/ p.idxs = <<>> /\ Walked(str, p, 0)
                \/ \E j \in 1..(Len(str) - 1) : Len(p.idxs) = 1 /\ Spelling1(str, j) /\ Walked(str, p, j)

LEMMA LetterStep ==
  ASSUME NEW str \in Seq(97..122), NEW p \in Parsing, p.pos <= Len(str), ~p.done, NEW max \in Nat,
         ~p.split, NEW q, q = ParseStep(str, max, p)
  PROVE  /\ p.pos = Len(str) /\ ~ValidId(p.node) => q = [p EXCEPT !.done = TRUE, !.pre = TRUE]
         /\ p.pos = Len(str) /\ ValidId(p.node) =>
              q = [p EXCEPT !.idxs = Append(@, NodeId[p.node]), !.node = <<>>,
                            !.starts = Append(@, p.pos), !.done = TRUE, !.pre = TRUE]
         /\ p.pos < Len(str) /\ Append(p.node, str[p.pos + 1]) \in SplNodes =>
              q = [p EXCEPT !.pos = p.pos + 1, !.node = Append(p.node, str[p.pos + 1])]
         /\ p.pos < Len(str) /\ Append(p.node, str[p.pos + 1]) \notin SplNodes /\ ~ValidId(p.node) =>
              q = [p EXCEPT !.done = TRUE]
         /\ p.pos < Len(str) /\ Append(p.node, str[p.pos + 1]) \notin SplNodes /\ ValidId(p.node) =>
              q = [p EXCEPT !.idxs = Append(@, NodeId[p.node]), !.node = <<>>,
                            !.starts = Append(@, p.pos), !.done = Len(p.idxs) + 1 >= max]
  <1>1. p.pos \in Nat /\ p.split = FALSE /\ Len(str) \in Nat
    BY DEF Parsing
  <1> DEFINE ch == str[p.pos + 1]
             found(start) == [p EXCEPT !.idxs = Append(@, NodeId[p.node]), !.node = <<>>,
                                       !.starts = Append(@, start), !.pos = start,
                                       !.done = Len(p.idxs) + 1 >= max]
  <1>2. p.pos < Len(str) => IsLetter(ch)
    <2> SUFFICES ASSUME p.pos < Len(str) PROVE IsLetter(ch)
      OBVIOUS
    <2>1. PICK L : L = 97..122
      OBVIOUS
    <2>2. p.pos + 1 \in 1..Len(str)
      BY <1>1
    <2>3. str \in Seq(L)
      BY <2>1
    <2>4. ch \in L
      BY ONLY <2>2, <2>3, ElementOfSeq
    <2> QED
      BY <2>1, <2>4 DEF IsLetter
  <1>3. /\ p.pos = Len(str) => q = [(IF ValidId(p.node) THEN found(p.pos) ELSE p) EXCEPT !.done = TRUE, !.pre = ~p.split]
        /\ p.pos < Len(str) /\ Append(p.node, ch) \in SplNodes =>
             q = [p EXCEPT !.pos = @ + 1, !.node = Append(@, ch), !.split = FALSE]
        /\ p.pos < Len(str) /\ Append(p.node, ch) \notin SplNodes =>
             q = IF ValidId(p.node) THEN [found(p.pos) EXCEPT !.split = FALSE] ELSE [p EXCEPT !.done = TRUE]
    <2>1. CASE p.pos = Len(str)
      BY <1>1, <2>1 DEF ParseStep
    <2>2. CASE p.pos < Len(str)
      BY <1>1, <1>2, <2>2 DEF ParseStep
    <2> QED
      BY <1>1, <2>1, <2>2
  <1>4. \A b : [p EXCEPT !.pos = p.pos, !.done = b] = [p EXCEPT !.done = b]
    BY DEF Parsing
  <1>5. found(p.pos) = [p EXCEPT !.idxs = Append(@, NodeId[p.node]), !.node = <<>>,
                                 !.starts = Append(@, p.pos), !.done = Len(p.idxs) + 1 >= max]
    BY DEF Parsing
  <1>6. [found(p.pos) EXCEPT !.split = FALSE] = found(p.pos)
    BY <1>1 DEF Parsing
  <1>7. [found(p.pos) EXCEPT !.done = TRUE, !.pre = ~p.split]
          = [p EXCEPT !.idxs = Append(@, NodeId[p.node]), !.node = <<>>,
                      !.starts = Append(@, p.pos), !.done = TRUE, !.pre = TRUE]
    BY <1>1 DEF Parsing
  <1>8. [p EXCEPT !.pos = @ + 1, !.node = Append(@, ch), !.split = FALSE]
          = [p EXCEPT !.pos = p.pos + 1, !.node = Append(p.node, ch)]
    BY <1>1 DEF Parsing
  <1>9. [p EXCEPT !.done = TRUE, !.pre = ~p.split] = [p EXCEPT !.done = TRUE, !.pre = TRUE]
    BY <1>1
  <1> HIDE DEF found
  <1> QED
    BY <1>3, <1>5, <1>6, <1>7, <1>8, <1>9

LEMMA SeenOn ==
  ASSUME NEW str \in Seq(97..122), str # <<>>, NEW p, Seen(str, p)
  PROVE  Seen(str, ParseStep(str, 2, p))
  <1>1. /\ p \in Parsing /\ p.pos \in Nat /\ p.pos <= Len(str) /\ p.split = FALSE /\ p.done \in BOOLEAN
        /\ p.pre \in BOOLEAN /\ p.idxs \in Seq(Ids) /\ Len(str) \in Nat \ {0}
    BY DEF Seen, Parsing
  <1>2. PICK q : q = ParseStep(str, 2, p)
    OBVIOUS
  <1>3. q \in Parsing /\ q.pos <= Len(str)
    BY <1>1, <1>2, ParseStepIs
  <1>4. CASE p.done
    <2>1. q = p
      BY <1>2, <1>4 DEF ParseStep
    <2> QED
      BY <1>2, <2>1
  <1>5. CASE ~p.done
    <2>0. p.pre = FALSE
      BY <1>1, <1>5 DEF Seen
    <2>1. PICK b \in 0..(Len(str) - 1) :
            /\ Walked(str, p, b)
            /\ \/ b = 0 /\ p.idxs = <<>>
               \/ b # 0 /\ Len(p.idxs) = 1 /\ Spelling1(str, b)
      <3>1. CASE p.idxs = <<>> /\ Walked(str, p, 0)
        <4>1. 0 \in 0..(Len(str) - 1)
          BY <1>1
        <4> QED
          BY <3>1, <4>1
      <3>2. ASSUME NEW j \in 1..(Len(str) - 1), Len(p.idxs) = 1, Spelling1(str, j), Walked(str, p, j)
            PROVE  j \in 0..(Len(str) - 1) /\ j # 0
        BY <1>1
      <3> QED
        BY <1>5, <3>1, <3>2 DEF Seen
    <2>2. p.node = SubSeq(str, b + 1, p.pos) /\ (p.pos = b \/ p.node \in SplNodes) /\ b <= p.pos
      BY <2>1 DEF Walked
    <2>3. CASE p.pos = Len(str)
      <3>1. q.done /\ q.split = FALSE
        <4>1. \/ q = [p EXCEPT !.done = TRUE, !.pre = TRUE]
              \/ q = [p EXCEPT !.idxs = Append(@, NodeId[p.node]), !.node = <<>>,
                               !.starts = Append(@, p.pos), !.done = TRUE, !.pre = TRUE]
          BY <1>1, <1>2, <1>5, <2>3, LetterStep
        <4> QED
          BY <1>1, <4>1 DEF Parsing
      <3>2. Begins(str)
        <4>1. p.node \in SplNodes
          BY <1>1, <2>2, <2>3
        <4>2. CASE b = 0
          <5>1. SubSeq(str, 1, Len(str)) = str
            OBVIOUS
          <5> QED
            <6>1. p.node = SubSeq(str, 0 + 1, Len(str))
              BY <2>2, <2>3, <4>2
            <6>2. 0 + 1 = 1
              OBVIOUS
            <6>3. str \in SplNodes
              BY <4>1, <5>1, <6>1, <6>2
            <6> QED
              BY <6>3 DEF Begins
        <4>3. CASE b # 0
          <5>1. b \in 1..(Len(str) - 1)
            BY <1>1, <4>3
          <5>2. Spelling1(str, b) /\ SubSeq(str, b + 1, Len(str)) \in SplNodes
            BY <2>1, <2>2, <2>3, <4>1, <4>3
          <5> QED
            BY <5>1, <5>2 DEF Begins
        <4> QED
          BY <4>2, <4>3
      <3> QED
        BY <1>2, <1>3, <3>1, <3>2 DEF Seen
    <2>4. CASE p.pos < Len(str)
      <3> DEFINE ch == str[p.pos + 1]
      <3>0. p.pos < Len(str) /\ p.pos # Len(str)
        BY <1>1, <2>4
      <3>1. CASE Append(p.node, ch) \in SplNodes
        <4>1. q = [p EXCEPT !.pos = p.pos + 1, !.node = Append(p.node, ch)]
          BY <1>1, <1>2, <1>5, <3>0, <3>1, LetterStep
        <4>2. /\ q.pos = p.pos + 1 /\ q.node = Append(p.node, ch) /\ q.idxs = p.idxs /\ q.done = FALSE
              /\ q.pre = FALSE /\ q.split = FALSE
          <5> HIDE DEF ch
          <5> QED
            BY <1>1, <1>5, <2>0, <4>1 DEF Parsing
        <4>3. q.node = SubSeq(str, b + 1, q.pos)
          <5>1. PICK L : L = 97..122
            OBVIOUS
          <5>2. str \in Seq(L) /\ b \in Nat /\ p.pos \in Nat /\ b <= p.pos /\ p.pos < Len(str)
            BY <1>1, <2>2, <3>0, <5>1
          <5>3. Append(SubSeq(str, b + 1, p.pos), str[p.pos + 1]) = SubSeq(str, b + 1, p.pos + 1)
            BY ONLY <5>2, SubSeqNext
          <5> QED
            BY <2>2, <4>2, <5>3
        <4>4. Walked(str, q, b)
          <5>1. q.node \in SplNodes /\ b <= q.pos
            <6> HIDE DEF ch
            <6> QED
              BY <1>1, <2>2, <3>1, <4>2
          <5> QED
            BY <4>3, <5>1 DEF Walked
        <4>5. (b = 0 /\ q.idxs = <<>>) \/ (b \in 1..(Len(str) - 1) /\ Len(q.idxs) = 1 /\ Spelling1(str, b))
          BY <1>1, <2>1, <4>2
        <4> QED
          BY <1>2, <1>3, <4>2, <4>4, <4>5 DEF Seen
      <3>2. CASE Append(p.node, ch) \notin SplNodes /\ ~ValidId(p.node)
        <4>1. q = [p EXCEPT !.done = TRUE]
          BY <1>1, <1>2, <1>5, <3>0, <3>2, LetterStep
        <4>2. q.done /\ q.pre = FALSE /\ q.split = FALSE
          BY <1>1, <2>0, <4>1 DEF Parsing
        <4> QED
          BY <1>2, <1>3, <4>2 DEF Seen
      <3>3. CASE Append(p.node, ch) \notin SplNodes /\ ValidId(p.node)
        <4>1. q = [p EXCEPT !.idxs = Append(@, NodeId[p.node]), !.node = <<>>,
                            !.starts = Append(@, p.pos), !.done = Len(p.idxs) + 1 >= 2]
          BY <1>1, <1>2, <1>5, <3>0, <3>3, LetterStep
        <4>2. /\ q.pos = p.pos /\ q.node = <<>> /\ q.idxs = Append(p.idxs, NodeId[p.node])
              /\ q.done = (Len(p.idxs) + 1 >= 2) /\ q.pre = FALSE /\ q.split = FALSE
          <5> HIDE DEF ch
          <5> QED
            BY <1>1, <2>0, <4>1 DEF Parsing
        <4>3. CASE b # 0
          <5>1. q.done
            <6>1. PICK l : l = Len(p.idxs)
              OBVIOUS
            <6>2. l = 1 /\ q.done = (l + 1 >= 2)
              BY <2>1, <4>2, <4>3, <6>1
            <6>3. (1 + 1 >= 2) = TRUE
              OBVIOUS
            <6> QED
              BY <6>2, <6>3
          <5> QED
            BY <1>2, <1>3, <4>2, <5>1 DEF Seen
        <4>4. CASE b = 0
          <5>1. p.node # <<>> /\ NodeId[p.node] # 0
            BY <3>3 DEF ValidId
          <5>2. SubSeq(str, 1, 0) = <<>>
            OBVIOUS
          <5>3. p.pos # 0 /\ p.node = SubSeq(str, 1, p.pos)
            BY <2>2, <4>4, <5>1, <5>2
          <5>4. p.pos \in 1..(Len(str) - 1) /\ p.node \in SplNodes
            BY <1>1, <2>2, <3>0, <4>4, <5>3
          <5>5. Spelling1(str, p.pos)
            BY <5>1, <5>3, <5>4 DEF Spelling1
          <5>6. Len(q.idxs) = 1
            <6>1. p.idxs = <<>>
              BY <2>1, <4>4
            <6> QED
              BY <4>2, <6>1
          <5>7. Walked(str, q, p.pos)
            <6>1. SubSeq(str, p.pos + 1, p.pos) = <<>>
              BY <1>1
            <6> QED
              BY <1>1, <4>2, <6>1 DEF Walked
          <5> QED
            BY <1>2, <1>3, <4>2, <5>4, <5>5, <5>6, <5>7 DEF Seen
        <4> QED
          BY <4>3, <4>4
      <3> QED
        BY <3>1, <3>2, <3>3
    <2> QED
      BY <1>1, <2>3, <2>4
  <1> QED
    BY <1>1, <1>4, <1>5

(* Letters that are the beginning of some spelling are a node, or a        *)
(* spelling and a node.                                                    *)
LEMMA BeginsIs ==
  ASSUME NEW str \in Seq(97..122), str # <<>>, SplidByStr(str).pre
  PROVE  Begins(str)
  <1>1. Len(str) \in Nat \ {0} /\ 1 \in 1..Len(str)
    OBVIOUS
  <1>2. PICK f : /\ f[0] = Begun(str)
                 /\ \A k \in (0 + 1)..(2 * Len(str) + 1) : f[k] = ParseStep(str, 2, f[k - 1])
                 /\ ParseSpl(str, 2) = f[2 * Len(str) + 1]
    BY <1>1, ParseSplLoop
  <1> DEFINE n == 2 * Len(str) + 1
             S == {k \in Nat : Seen(str, f[k])}
  <1>3. 0 \in S
    <2>1. IsLetter(str[1])
      <3>1. PICK L : L = 97..122
        OBVIOUS
      <3>2. str \in Seq(L)
        BY <3>1
      <3>3. str[1] \in L
        BY ONLY <1>1, <3>2, ElementOfSeq
      <3> QED
        BY <3>1, <3>3 DEF IsLetter
    <2>2. Begun(str) \in Parsing
      BY DEF Begun, Parsing
    <2>3. Begun(str).pos = 0 /\ Begun(str).node = <<>> /\ Begun(str).idxs = <<>> /\ Begun(str).split = FALSE
          /\ Begun(str).pre = FALSE
      BY DEF Begun
    <2>4. Walked(str, Begun(str), 0)
      <3>1. SubSeq(str, 0 + 1, 0) = <<>>
        OBVIOUS
      <3> QED
        BY <2>3, <3>1 DEF Walked
    <2>5. Seen(str, Begun(str))
      BY <1>1, <2>2, <2>3, <2>4 DEF Seen
    <2> QED
      BY <1>2, <2>5
  <1>4. \A k \in 1..n : k - 1 \in S => k \in S
    <2> SUFFICES ASSUME NEW k \in 1..n, k - 1 \in S PROVE k \in S
      OBVIOUS
    <2>1. PICK p : p = f[k - 1]
      OBVIOUS
    <2>2. Seen(str, p)
      BY <2>1
    <2>3. Seen(str, ParseStep(str, 2, p))
      BY <2>2, SeenOn
    <2> QED
      BY <1>2, <2>1, <2>3
  <1>5. n \in Nat /\ n \in 0..n
    BY <1>1
  <1>6. 0..n \subseteq S
    <2> HIDE DEF S, n
    <2> QED
      BY <1>3, <1>4, <1>5, Upwards
  <1>7. Seen(str, ParseSpl(str, 2))
    BY <1>2, <1>5, <1>6
  <1>8. ParseSpl(str, 2).pre
    BY DEF SplidByStr, WholeId
  <1> QED
    BY <1>7, <1>8 DEF Seen

(* A beginning of a node is a node.                                        *)
LEMMA NodeBegins ==
  ASSUME NEW n \in SplNodes, NEW k \in 1..Len(n)
  PROVE  SubSeq(n, 1, k) \in SplNodes
  <1>1. PICK s \in Spellings : \E j \in 1..Len(s) : n = SubSeq(s, 1, j)
    BY DEF SplNodes
  <1>2. PICK j \in 1..Len(s) : n = SubSeq(s, 1, j)
    BY <1>1
  <1>3. PICK t : t = s
    OBVIOUS
  <1>4. t \in Seq(97..122) /\ Len(t) \in Nat /\ j \in 1..Len(t) /\ n = SubSeq(t, 1, j)
    BY <1>2, <1>3, SpellingsAssumption
  <1>5. Len(n) = j
    BY <1>4
  <1>6. k \in 1..j /\ k \in 1..Len(t)
    BY <1>4, <1>5
  <1>7. SubSeq(n, 1, k) = SubSeq(t, 1, k)
    <2>1. PICK a : a = SubSeq(n, 1, k)
      OBVIOUS
    <2>2. PICK b : b = SubSeq(t, 1, k)
      OBVIOUS
    <2>0. PICK L : L = 97..122
      OBVIOUS
    <2>3. t \in Seq(L) /\ j \in 0..Len(t) /\ k \in 0..Len(t) /\ k \in 0..j
      BY <1>4, <1>6, <2>0
    <2>4. PICK c : c = SubSeq(t, 1, j)
      OBVIOUS
    <2>5. c \in Seq(L) /\ Len(c) = j /\ \A x \in 1..j : c[x] = t[x]
      BY ONLY <2>3, <2>4
    <2>6. a \in Seq(L) /\ Len(a) = k /\ \A x \in 1..k : a[x] = c[x]
      <3>1. a = SubSeq(c, 1, k)
        BY <1>4, <2>1, <2>4
      <3> QED
        BY ONLY <2>3, <2>5, <3>1
    <2>8. b \in Seq(L) /\ Len(b) = k /\ \A x \in 1..k : b[x] = t[x]
      BY ONLY <2>2, <2>3
    <2>7. a = b
      <3>1. Len(a) = Len(b) /\ \A x \in 1..Len(a) : a[x] = b[x]
        BY ONLY <2>3, <2>5, <2>6, <2>8
      <3> QED
        BY ONLY <2>6, <2>8, <3>1, SeqEqual
    <2> QED
      BY <2>1, <2>2, <2>7
  <1>8. SubSeq(s, 1, k) \in SplNodes
    BY <1>3, <1>6 DEF SplNodes
  <1> QED
    BY <1>3, <1>7, <1>8

(* A node is the beginning of a spelling, and its own id is found.         *)
LEMMA NodeParsed ==
  ASSUME NEW str \in SplNodes
  PROVE  /\ SplidByStr(str).pre
         /\ NodeId[str] # 0 => SplidByStr(str).id = NodeId[str]
  <1>1. str \in Seq(97..122) /\ Len(str) \in Nat \ {0}
    BY NodesBegin
  <1>2. PICK f : /\ f[0] = Begun(str)
                 /\ \A k \in (0 + 1)..(2 * Len(str) + 1) : f[k] = ParseStep(str, 2, f[k - 1])
                 /\ ParseSpl(str, 2) = f[2 * Len(str) + 1]
    BY <1>1, ParseSplLoop
  <1>n. PICK n \in Nat \ {0} : n = Len(str)
    BY <1>1
  <1> DEFINE At(k) == [pos |-> k, node |-> SubSeq(str, 1, k), idxs |-> <<>>, starts |-> <<0>>,
                       split |-> FALSE, done |-> FALSE, pre |-> FALSE]
             S == {k \in Nat : f[k] = At(k)}
  <1>a. \A k \in 0..n : At(k) \in Parsing /\ At(k).pos = k /\ At(k).node = SubSeq(str, 1, k)
                        /\ At(k).done = FALSE /\ At(k).split = FALSE
    <2> SUFFICES ASSUME NEW k \in 0..n PROVE At(k) \in Parsing
      OBVIOUS
    <2>1. SubSeq(str, 1, k) \in SplNodes \cup {<<>>}
      <3>1. CASE k = 0
        BY <1>1, <3>1
      <3>2. CASE k # 0
        <4>1. k \in 1..Len(str)
          BY <1>n, <3>2
        <4> QED
          BY <4>1, NodeBegins
      <3> QED
        BY <3>1, <3>2
    <2>2. <<>> \in Seq(Ids) /\ <<0>> \in Seq(Nat) /\ k \in Nat
      OBVIOUS
    <2> QED
      BY <2>1, <2>2 DEF Parsing
  <1>3. 0 \in S
    <2>1. 1 \in 1..Len(str)
      BY <1>1
    <2>2. IsLetter(str[1])
      <3>1. PICK L : L = 97..122
        OBVIOUS
      <3>2. str \in Seq(L)
        BY <1>1, <3>1
      <3>3. str[1] \in L
        BY ONLY <2>1, <3>2, ElementOfSeq
      <3> QED
        BY <3>1, <3>3 DEF IsLetter
    <2>3. str # <<>>
      BY <1>1
    <2>4. SubSeq(str, 1, 0) = <<>>
      BY <1>1
    <2>5. Begun(str) = At(0)
      BY <2>2, <2>3, <2>4 DEF Begun
    <2> QED
      BY <1>2, <2>5
  <1>4. \A k \in 1..n : k - 1 \in S => k \in S
    <2> SUFFICES ASSUME NEW k \in 1..n, k - 1 \in S PROVE k \in S
      OBVIOUS
    <2>1. PICK p : p = f[k - 1]
      OBVIOUS
    <2>2. p = At(k - 1) /\ k - 1 \in 0..n
      BY <2>1
    <2>3. p \in Parsing /\ p.pos = k - 1 /\ p.node = SubSeq(str, 1, k - 1) /\ ~p.done /\ ~p.split
      <3> HIDE DEF At, S
      <3> QED
        BY <1>a, <2>2
    <2>4. p.pos < Len(str) /\ p.pos <= Len(str) /\ p.pos + 1 = k
      BY <1>n, <2>3
    <2>5. Append(p.node, str[p.pos + 1]) = SubSeq(str, 1, k)
      <3>1. PICK L : L = 97..122
        OBVIOUS
      <3>2. str \in Seq(L) /\ 0 \in Nat /\ k - 1 \in Nat /\ 0 <= k - 1 /\ k - 1 < Len(str)
        BY <1>1, <2>3, <2>4, <3>1
      <3>3. Append(SubSeq(str, 0 + 1, k - 1), str[k - 1 + 1]) = SubSeq(str, 0 + 1, k - 1 + 1)
        BY ONLY <3>2, SubSeqNext
      <3> QED
        BY <2>3, <2>4, <3>3
    <2>6. SubSeq(str, 1, k) \in SplNodes
      <3>1. k \in 1..Len(str)
        BY <1>n
      <3> QED
        BY <3>1, NodeBegins
    <2>7. PICK q : q = ParseStep(str, 2, p)
      OBVIOUS
    <2>8. q = [p EXCEPT !.pos = p.pos + 1, !.node = Append(p.node, str[p.pos + 1])]
      BY <1>1, <2>3, <2>4, <2>5, <2>6, <2>7, LetterStep
    <2>9. q = At(k)
      BY <2>2, <2>4, <2>5, <2>8
    <2>10. f[k] = q
      BY <1>2, <1>n, <2>1, <2>7
    <2> QED
      BY <2>9, <2>10
  <1>5. f[n] = At(n)
    <2>1. 0..n \subseteq S
      <3> HIDE DEF S
      <3> QED
        BY <1>3, <1>4, Upwards
    <2> QED
      BY <2>1
  <1>6. PICK q : q = f[n + 1]
    OBVIOUS
  <1>7. q.done /\ q.pre /\ (NodeId[str] # 0 => q.idxs = <<NodeId[str]>> /\ q.starts = <<0, n>>)
    <2>1. PICK p : p = f[n]
      OBVIOUS
    <2>2. p \in Parsing /\ p.pos = n /\ p.node = SubSeq(str, 1, n) /\ ~p.done /\ ~p.split
          /\ p.idxs = <<>> /\ p.starts = <<0>>
      <3>1. At(n).idxs = <<>> /\ At(n).starts = <<0>>
        OBVIOUS
      <3> HIDE DEF At, S
      <3> QED
        BY <1>5, <1>a, <2>1, <3>1
    <2>3. SubSeq(str, 1, n) = str
      BY <1>1, <1>n
    <2>4. q = ParseStep(str, 2, p)
      BY <1>2, <1>6, <1>n, <2>1
    <2>5. p.pos = Len(str) /\ p.pos <= Len(str)
      BY <1>n, <2>2
    <2>6. CASE ValidId(p.node)
      <3>1. q = [p EXCEPT !.idxs = Append(@, NodeId[p.node]), !.node = <<>>,
                          !.starts = Append(@, p.pos), !.done = TRUE, !.pre = TRUE]
        BY <1>1, <2>2, <2>4, <2>5, <2>6, LetterStep
      <3>2. q.done /\ q.pre /\ q.idxs = Append(<<>>, NodeId[str]) /\ q.starts = Append(<<0>>, n)
        BY <2>2, <2>3, <3>1 DEF Parsing
      <3>3. PICK x : x = NodeId[str]
        OBVIOUS
      <3>4. Append(<<>>, x) = <<x>>
        OBVIOUS
      <3>5. Append(<<0>>, n) = <<0, n>>
        <4>1. <<0>> \in Seq(Nat) /\ Append(<<0>>, n) \in Seq(Nat) /\ <<0, n>> \in Seq(Nat)
              /\ Len(Append(<<0>>, n)) = 2 /\ Len(<<0, n>>) = 2
          OBVIOUS
        <4>2. \A i \in 1..2 : Append(<<0>>, n)[i] = <<0, n>>[i]
          OBVIOUS
        <4> QED
          BY <4>1, <4>2, SeqEqual
      <3> QED
        BY <3>2, <3>3, <3>4, <3>5
    <2>7. CASE ~ValidId(p.node)
      <3>1. q = [p EXCEPT !.done = TRUE, !.pre = TRUE]
        BY <1>1, <2>2, <2>4, <2>5, <2>7, LetterStep
      <3>2. q.done /\ q.pre
        BY <2>2, <3>1 DEF Parsing
      <3>3. NodeId[str] = 0
        <4>1. str # <<>>
          BY <1>1
        <4> QED
          BY <2>2, <2>3, <2>7, <4>1 DEF ValidId
      <3> QED
        BY <3>2, <3>3
    <2> QED
      BY <2>6, <2>7
  <1>8. \A k \in (n + 1)..(2 * n + 1) : f[k] = q
    <2> DEFINE R == {k \in Nat : f[k] = q}
    <2>1. n + 1 \in R
      BY <1>6
    <2>2. ASSUME NEW k \in (n + 1 + 1)..(2 * n + 1), k - 1 \in R PROVE k \in R
      <3>1. f[k] = ParseStep(str, 2, q)
        BY <1>2, <1>n, <2>2
      <3>2. ParseStep(str, 2, q) = q
        BY <1>7 DEF ParseStep
      <3> QED
        BY <3>1, <3>2
    <2>3. \A k \in (n + 1)..(2 * n + 1) : k \in R
      <3> HIDE DEF R
      <3>1. n + 1 \in Nat /\ 2 * n + 1 \in Nat /\ n + 1 <= 2 * n + 1
        OBVIOUS
      <3>2. PICK b \in Nat : b = n + 1
        OBVIOUS
      <3>3. PICK t \in Nat : t = 2 * n + 1
        OBVIOUS
      <3>4. b <= t /\ b \in R /\ \A k \in (b + 1)..t : k - 1 \in R => k \in R
        BY <2>1, <2>2, <3>1, <3>2, <3>3
      <3>5. \A k \in b..t : k \in R
        BY ONLY <3>2, <3>3, <3>4, UpFrom
      <3> QED
        BY <3>2, <3>3, <3>5
    <2> QED
      BY <2>3
  <1>9. ParseSpl(str, 2) = q
    <2>1. 2 * n + 1 \in (n + 1)..(2 * n + 1)
      OBVIOUS
    <2> QED
      BY <1>2, <1>8, <1>n, <2>1
  <1>10. SplidByStr(str) =
          [id |-> IF Len(q.idxs) = 1 /\ q.starts[2] = Len(str) THEN q.idxs[1] ELSE 0, pre |-> q.pre]
    BY <1>9 DEF SplidByStr, WholeId
  <1>11. SplidByStr(str).pre
    BY <1>7, <1>10
  <1>12. ASSUME NodeId[str] # 0 PROVE SplidByStr(str).id = NodeId[str]
    <2>1. q.idxs = <<NodeId[str]>> /\ q.starts = <<0, n>>
      BY <1>7, <1>12
    <2>2. Len(q.idxs) = 1 /\ q.starts[2] = Len(str) /\ q.idxs[1] = NodeId[str]
      BY <1>n, <2>1
    <2> QED
      BY <1>10, <2>2
  <1> QED
    BY <1>11, <1>12

(***************************************************************************)
(* The trie of the dictionary.                                             *)
(***************************************************************************)
(* The nodes n spellings deep.                                             *)
PathsOf(n) == {p \in Paths : Len(p) = n}

ItemSet == [id : LemmaIds, len : Nat, psb : Nat]

LEMMA LemmasAre ==
  /\ LemmaIds = 1..Len(Lemmas) /\ Len(Lemmas) \in Nat
  /\ \A id \in LemmaIds :
       /\ id \in Nat /\ Lemmas[id].spl \in Seq(FullIds) /\ Lemmas[id].freq \in Nat
       /\ Len(Lemmas[id].spl) = Len(Lemmas[id].word) /\ LmaPsb[id] \in Nat
  <1>0. PICK L : L = [word : Seq(Nat), spl : Seq(FullIds), freq : Nat]
    OBVIOUS
  <1>1. /\ Lemmas \in Seq(L)
        /\ \A id \in DOMAIN Lemmas :
             /\ Len(Lemmas[id].spl) = Len(Lemmas[id].word)
             /\ Psb(Lemmas[id].freq) \in Nat
    BY <1>0, LemmasAssumption
  <1>2. LemmaIds = 1..Len(Lemmas) /\ Len(Lemmas) \in Nat /\ \A id \in LemmaIds : Lemmas[id] \in L
    BY <1>1 DEF LemmaIds
  <1>3. \A l \in L : l.spl \in Seq(FullIds) /\ l.freq \in Nat
    BY <1>0
  <1>4. \A id \in LemmaIds : LmaPsb[id] \in Nat
    BY <1>1 DEF LmaPsb, LemmaIds
  <1> QED
    BY <1>1, <1>2, <1>3, <1>4 DEF LemmaIds

LEMMA PathsAre ==
  ASSUME NEW p \in Paths
  PROVE  p \in Seq(FullIds)
  <1>1. PICK id \in LemmaIds : \E n \in 0..Len(Lemmas[id].spl) : p = SubSeq(Lemmas[id].spl, 1, n)
    BY DEF Paths
  <1> DEFINE s == Lemmas[id].spl
  <1>2. s \in Seq(FullIds)
    BY LemmasAre
  <1>3. PICK n \in 0..Len(s) : p = SubSeq(s, 1, n)
    BY <1>1
  <1> HIDE DEF s
  <1> QED
    BY <1>2, <1>3

LEMMA LongerPath ==
  ASSUME NEW n \in Nat, NEW p \in PathsOf(n), NEW f, Append(p, f) \in Paths
  PROVE  Append(p, f) \in PathsOf(n + 1)
  <1>1. p \in Seq(FullIds) /\ Len(p) = n
    BY PathsAre DEF PathsOf
  <1>2. Len(Append(p, f)) = n + 1
    BY <1>1
  <1> QED
    BY <1>2 DEF PathsOf

(* The sons of a node.                                                     *)
LEMMA SonRunIs ==
  ASSUME NEW n \in Nat, NEW p \in PathsOf(n), NEW lo \in Int, NEW hi \in Int
  PROVE  /\ SonRun(p, lo..hi) \in Seq(PathsOf(n + 1))
         /\ \A f \in lo..hi : Append(p, f) \in Paths =>
              \E k \in DOMAIN SonRun(p, lo..hi) : SonRun(p, lo..hi)[k] = Append(p, f)
  <1> DEFINE ids == lo..hi
             S == {f \in ids : Append(p, f) \in Paths}
             R == {g \in ids \X ids : g[1] < g[2]}
             sons == Listed(S, R)
  <1>1. IsFiniteSet(S)
    BY FS_Interval, FS_Subset
  <1>2. Orders(R, S)
    BY DEF Orders
  <1>3. sons \in Seq(S) /\ \A x \in S : \E k \in DOMAIN sons : sons[k] = x
    <2> HIDE DEF S, R
    <2> QED
      BY <1>1, <1>2, ListedIs
  <1>4. SonRun(p, ids) = [k \in DOMAIN sons |-> Append(p, sons[k])]
    BY DEF SonRun
  <1> HIDE DEF sons
  <1>5. DOMAIN sons = 1..Len(sons) /\ Len(sons) \in Nat /\ \A k \in DOMAIN sons : sons[k] \in S
    BY <1>3
  <1>6. \A k \in DOMAIN sons : Append(p, sons[k]) \in PathsOf(n + 1)
    BY <1>5, LongerPath
  <1> HIDE DEF S
  <1>7. SonRun(p, ids) \in Seq(PathsOf(n + 1)) /\ DOMAIN SonRun(p, ids) = DOMAIN sons
    <2>1. PICK g : g = [k \in DOMAIN sons |-> Append(p, sons[k])]
      OBVIOUS
    <2>2. DOMAIN g = 1..Len(sons) /\ \A k \in 1..Len(sons) : g[k] \in PathsOf(n + 1)
      BY <1>5, <1>6, <2>1
    <2>3. g = [k \in 1..Len(sons) |-> g[k]]
      BY <2>1, <2>2
    <2>4. g \in Seq(PathsOf(n + 1))
      BY <1>5, <2>2, <2>3
    <2> QED
      BY <1>4, <1>5, <2>1, <2>2, <2>4
  <1>8. \A k \in DOMAIN sons : SonRun(p, ids)[k] = Append(p, sons[k])
    BY <1>4
  <1>9. ASSUME NEW f \in ids, Append(p, f) \in Paths
        PROVE  \E k \in DOMAIN SonRun(p, ids) : SonRun(p, ids)[k] = Append(p, f)
    <2>1. f \in S
      BY <1>9 DEF S
    <2>2. PICK k \in DOMAIN sons : sons[k] = f
      BY <1>3, <2>1
    <2> QED
      BY <1>7, <1>8, <2>2
  <1> QED
    BY <1>7, <1>9

(* The runs of sons of several nodes.                                      *)
LEMMA SonRunsAre ==
  ASSUME NEW n \in Nat, NEW u \in Seq(PathsOf(n)), NEW lo \in Int, NEW hi \in Int
  PROVE  /\ SonRuns(u, lo..hi) \in Seq(Seq(PathsOf(n + 1)))
         /\ FlattenSeq(SonRuns(u, lo..hi)) \in Seq(PathsOf(n + 1))
  <1> DEFINE ids == lo..hi
             T == Seq(PathsOf(n + 1))
             each == [k \in DOMAIN u |-> IF SonRun(u[k], ids) = <<>> THEN <<>> ELSE <<SonRun(u[k], ids)>>]
  <1>1. DOMAIN u = 1..Len(u) /\ Len(u) \in Nat /\ \A k \in DOMAIN u : u[k] \in PathsOf(n)
    OBVIOUS
  <1>2. \A k \in DOMAIN u : SonRun(u[k], ids) \in T
    BY <1>1, SonRunIs
  <1>3. SonRuns(u, ids) = FlattenSeq(each)
    BY DEF SonRuns
  <1> HIDE DEF T, ids
  <1>4. each \in Seq(Seq(T))
    BY <1>1, <1>2
  <1> HIDE DEF each
  <1>5. SonRuns(u, ids) \in Seq(T)
    BY <1>3, <1>4, FlattenIs
  <1>6. FlattenSeq(SonRuns(u, ids)) \in Seq(PathsOf(n + 1))
    BY <1>5, FlattenIs DEF T
  <1> QED
    BY <1>5, <1>6 DEF T, ids

(* The homophones of a node, the more frequent first.                      *)
LEMMA HomosAre ==
  ASSUME NEW p \in Paths
  PROVE  Homos[p] \in Seq({id \in LemmaIds : Lemmas[id].spl = p})
  <1> DEFINE S == {id \in LemmaIds : Lemmas[id].spl = p}
  <1>1. LemmaIds = 1..Len(Lemmas) /\ Len(Lemmas) \in Nat
    BY LemmasAre
  <1>2. IsFiniteSet(S)
    <2>1. IsFiniteSet(LemmaIds)
      BY <1>1, FS_Interval
    <2>2. S \in SUBSET LemmaIds
      OBVIOUS
    <2> HIDE DEF S
    <2> QED
      BY <2>1, <2>2, FS_Subset
  <1>3. \A id \in LemmaIds : Lemmas[id].freq \in Nat /\ id \in Nat
    BY LemmasAre
  <1>4. Orders(MoreFrequent, LemmaIds)
    BY <1>3 DEF Orders, MoreFrequent
  <1>5. Orders(MoreFrequent, S)
    BY <1>4 DEF Orders
  <1> HIDE DEF S
  <1>6. Listed(S, MoreFrequent) \in Seq(S)
    BY <1>2, <1>5, ListedIs
  <1> QED
    BY <1>6 DEF Homos, S

LEMMA ItemsAre ==
  ASSUME NEW p \in Paths
  PROVE  /\ Items(p) \in Seq({i \in ItemSet : Lemmas[i.id].spl = p})
         /\ Homos[p] # <<>> => Items(p) # <<>>
  <1> DEFINE h == Homos[p]
  <1>1. h \in Seq({id \in LemmaIds : Lemmas[id].spl = p})
    BY HomosAre
  <1>2. Items(p) = [k \in DOMAIN h |-> [id |-> h[k], len |-> Len(p), psb |-> LmaPsb[h[k]]]]
    BY DEF Items
  <1> HIDE DEF h
  <1>3. \A k \in DOMAIN h : h[k] \in LemmaIds /\ Lemmas[h[k]].spl = p
    BY <1>1
  <1>4. Len(p) \in Nat
    BY PathsAre
  <1>5. \A id \in LemmaIds : LmaPsb[id] \in Nat
    BY LemmasAre
  <1>6. \A k \in DOMAIN h : [id |-> h[k], len |-> Len(p), psb |-> LmaPsb[h[k]]]
                              \in {i \in ItemSet : Lemmas[i.id].spl = p}
    BY <1>3, <1>4, <1>5 DEF ItemSet
  <1>7. DOMAIN h = 1..Len(h) /\ Len(h) \in Nat
    BY <1>1
  <1>8. Items(p) \in Seq({i \in ItemSet : Lemmas[i.id].spl = p}) /\ Len(Items(p)) = Len(h)
    BY <1>2, <1>6, <1>7
  <1>9. h # <<>> => Len(h) # 0
    BY <1>1
  <1> QED
    BY <1>8, <1>9 DEF h

(* An item stands for one of the nodes.                                    *)
Stands(item, u) == \E i \in DOMAIN u : u[i] = Lemmas[item.id].spl

LEMMA ItemsOfAre ==
  ASSUME NEW n \in Nat, NEW u \in Seq(PathsOf(n))
  PROVE  /\ ItemsOf(u) \in Seq(ItemSet)
         /\ \A k \in DOMAIN ItemsOf(u) : Stands(ItemsOf(u)[k], u)
         /\ \A i \in DOMAIN u : Homos[u[i]] # <<>> => ItemsOf(u) # <<>>
  <1> DEFINE each == [k \in DOMAIN u |-> Items(u[k])]
  <1>1. DOMAIN u = 1..Len(u) /\ Len(u) \in Nat /\ \A k \in DOMAIN u : u[k] \in Paths
    BY DEF PathsOf
  <1>2. \A k \in DOMAIN u : /\ Items(u[k]) \in Seq({i \in ItemSet : Lemmas[i.id].spl = u[k]})
                            /\ Homos[u[k]] # <<>> => Items(u[k]) # <<>>
    BY <1>1, ItemsAre
  <1>3. \A k \in DOMAIN u : /\ Items(u[k]) \in Seq(ItemSet)
                            /\ \A j \in DOMAIN Items(u[k]) : Lemmas[Items(u[k])[j].id].spl = u[k]
    <2> SUFFICES ASSUME NEW k \in DOMAIN u
                 PROVE  /\ Items(u[k]) \in Seq(ItemSet)
                        /\ \A j \in DOMAIN Items(u[k]) : Lemmas[Items(u[k])[j].id].spl = u[k]
      OBVIOUS
    <2>1. PICK s : s = Items(u[k])
      OBVIOUS
    <2>2. s \in Seq({i \in ItemSet : Lemmas[i.id].spl = u[k]})
      BY <1>2, <2>1
    <2>3. s \in Seq(ItemSet) /\ \A j \in DOMAIN s : Lemmas[s[j].id].spl = u[k]
      BY <2>2
    <2> QED
      BY <2>1, <2>3
  <1>4. each \in Seq(Seq(ItemSet)) /\ DOMAIN each = DOMAIN u /\ \A k \in DOMAIN u : each[k] = Items(u[k])
    BY <1>1, <1>3
  <1>5. ItemsOf(u) = FlattenSeq(each)
    BY DEF ItemsOf
  <1> HIDE DEF each
  <1>6. /\ FlattenSeq(each) \in Seq(ItemSet)
        /\ \A i \in DOMAIN FlattenSeq(each) :
              \E k \in DOMAIN each : \E j \in DOMAIN each[k] : FlattenSeq(each)[i] = each[k][j]
        /\ \A k \in DOMAIN each : \A j \in DOMAIN each[k] :
              \E i \in DOMAIN FlattenSeq(each) : FlattenSeq(each)[i] = each[k][j]
    BY <1>4, FlattenIs
  <1>7. ASSUME NEW i \in DOMAIN FlattenSeq(each) PROVE Stands(FlattenSeq(each)[i], u)
    <2>1. PICK k \in DOMAIN each : \E j \in DOMAIN each[k] : FlattenSeq(each)[i] = each[k][j]
      BY <1>6
    <2>2. PICK j \in DOMAIN each[k] : FlattenSeq(each)[i] = each[k][j]
      BY <2>1
    <2>3. k \in DOMAIN u /\ Lemmas[each[k][j].id].spl = u[k]
      BY <1>3, <1>4
    <2> QED
      BY <2>2, <2>3 DEF Stands
  <1>8. ASSUME NEW i \in DOMAIN u, Homos[u[i]] # <<>> PROVE FlattenSeq(each) # <<>>
    <2>1. PICK s : s = Items(u[i])
      OBVIOUS
    <2>2. s \in Seq(ItemSet) /\ s # <<>>
      BY <1>2, <1>3, <1>8, <2>1
    <2>3. 1 \in DOMAIN s
      BY <2>2
    <2>4. 1 \in DOMAIN each[i]
      BY <1>4, <2>1, <2>3
    <2>5. PICK j \in DOMAIN FlattenSeq(each) : FlattenSeq(each)[j] = each[i][1]
      BY <1>4, <1>6, <2>4
    <2> QED
      BY <2>5
  <1> QED
    BY <1>5, <1>6, <1>7, <1>8

(* The nodes an id stands for, from the root: some, each with homophones.  *)
LEMMA RootRunIs ==
  ASSUME NEW id \in Ids
  PROVE  /\ RootRun(id) \in Seq(PathsOf(1)) /\ RootRun(id) # <<>>
         /\ \A p \in PathsOf(1) : Homos[p] # <<>>
  <1>1. <<>> \in Paths
    <2>1. <<IdStart(id)>> \in Paths
      BY IdsStandFor, SpellingAssumption
    <2>2. PICK i \in LemmaIds : TRUE
      BY <2>1 DEF Paths
    <2>3. Lemmas[i].spl \in Seq(FullIds)
      BY LemmasAre
    <2>4. SubSeq(Lemmas[i].spl, 1, 0) = <<>> /\ 0 \in 0..Len(Lemmas[i].spl)
      BY <2>3
    <2> QED
      BY <2>4 DEF Paths
  <1>2. <<>> \in PathsOf(0)
    BY <1>1 DEF PathsOf
  <1> DEFINE hi == IdStart(id) + IdNum(id) - 1
  <1>3. IdStart(id) \in Int /\ hi \in Int /\ IdRange(id) = IdStart(id)..hi /\ IdStart(id) \in IdRange(id)
    BY IdsStandFor
  <1>4. 0 + 1 = 1
    OBVIOUS
  <1> HIDE DEF hi
  <1>5. SonRun(<<>>, IdRange(id)) \in Seq(PathsOf(1))
    BY <1>2, <1>3, <1>4, SonRunIs
  <1>6. Append(<<>>, IdStart(id)) \in Paths
    <2>1. Append(<<>>, IdStart(id)) = <<IdStart(id)>>
      OBVIOUS
    <2> QED
      BY <2>1, IdsStandFor, SpellingAssumption
  <1>7. \E k \in DOMAIN SonRun(<<>>, IdRange(id)) : TRUE
    BY <1>2, <1>3, <1>6, SonRunIs
  <1>8. ASSUME NEW p \in PathsOf(1) PROVE Homos[p] # <<>>
    <2>1. p \in Seq(FullIds) /\ Len(p) = 1
      BY PathsAre DEF PathsOf
    <2>2. PICK f : f = p[1]
      OBVIOUS
    <2>3. p = <<f>> /\ f \in FullIds
      BY <2>1, <2>2
    <2> QED
      BY <2>3, SpellingAssumption
  <1>9. SonRun(<<>>, IdRange(id)) # <<>>
    BY <1>7
  <1> QED
    BY <1>5, <1>8, <1>9 DEF RootRun

LEMMA RootItemsAre ==
  ASSUME NEW id \in Ids
  PROVE  /\ RootItems(id) \in Seq(ItemSet) /\ RootItems(id) # <<>>
         /\ \A k \in DOMAIN RootItems(id) : Stands(RootItems(id)[k], RootRun(id))
  <1> DEFINE run == RootRun(id)
             u == IF IsHalfIdYunmu(id) THEN AtMost(run, 1) ELSE run
  <1>1. run \in Seq(PathsOf(1)) /\ run # <<>> /\ \A p \in PathsOf(1) : Homos[p] # <<>>
    BY RootRunIs
  <1>2. RootItems(id) = ItemsOf(u)
    BY DEF RootItems
  <1> HIDE DEF run
  <1>3. u \in Seq(PathsOf(1)) /\ u # <<>> /\ \A i \in DOMAIN u : i \in DOMAIN run /\ u[i] = run[i]
    <2>1. CASE IsHalfIdYunmu(id)
      BY <1>1, <2>1, AtMostIs
    <2>2. CASE ~IsHalfIdYunmu(id)
      BY <1>1, <2>2
    <2> QED
      BY <2>1, <2>2
  <1> HIDE DEF u
  <1>4. 1 \in DOMAIN u /\ u[1] \in PathsOf(1)
    BY <1>3
  <1>5. /\ ItemsOf(u) \in Seq(ItemSet) /\ \A k \in DOMAIN ItemsOf(u) : Stands(ItemsOf(u)[k], u)
        /\ \A i \in DOMAIN u : Homos[u[i]] # <<>> => ItemsOf(u) # <<>>
    BY <1>3, ItemsOfAre
  <1>6. ItemsOf(u) # <<>>
    BY <1>1, <1>4, <1>5
  <1>7. \A item : Stands(item, u) => Stands(item, run)
    BY <1>3 DEF Stands
  <1> QED
    BY <1>2, <1>5, <1>6, <1>7 DEF run

(***************************************************************************)
(* Orders.                                                                 *)
(***************************************************************************)
(* strcmp() orders sequences of numbers strictly and totally.              *)
LEMMA NeverBeforeItself ==
  ASSUME NEW s \in Seq(Nat)
  PROVE  ~Before(s, s)
  <1>1. SUFFICES ASSUME NEW k \in 1..Len(s), s[k] < s[k] PROVE FALSE
    BY DEF Before
  <1>2. s[k] \in Nat
    OBVIOUS
  <1> QED
    BY <1>1, <1>2

LEMMA BeforeOn ==
  ASSUME NEW s \in Seq(Nat), NEW t \in Seq(Nat), NEW u \in Seq(Nat), Before(s, t), Before(t, u)
  PROVE  Before(s, u)
  <1>1. /\ Len(s) \in Nat /\ Len(t) \in Nat /\ Len(u) \in Nat
        /\ \A i \in 1..Len(s) : s[i] \in Nat
        /\ \A i \in 1..Len(t) : t[i] \in Nat
        /\ \A i \in 1..Len(u) : u[i] \in Nat
    OBVIOUS
  <1>2. PICK k \in 1..Len(t) : /\ Len(s) >= k - 1 /\ \A i \in 1..(k - 1) : s[i] = t[i]
                               /\ Len(s) >= k => s[k] < t[k]
    BY DEF Before
  <1>3. PICK l \in 1..Len(u) : /\ Len(t) >= l - 1 /\ \A i \in 1..(l - 1) : t[i] = u[i]
                               /\ Len(t) >= l => t[l] < u[l]
    BY DEF Before
  <1>4. CASE k < l
    <2>1. k \in 1..(l - 1) /\ k \in 1..Len(u) /\ t[k] = u[k]
      BY <1>1, <1>3, <1>4
    <2>2. ASSUME NEW i \in 1..(k - 1) PROVE s[i] = u[i]
      <3>1. i \in 1..(l - 1)
        BY <1>1, <1>4
      <3> QED
        BY <1>2, <1>3, <3>1
    <2> QED
      BY <1>2, <2>1, <2>2 DEF Before
  <1>5. CASE l <= k
    <2>1. ASSUME NEW i \in 1..(l - 1) PROVE s[i] = u[i]
      <3>1. i \in 1..(k - 1)
        BY <1>1, <1>5
      <3> QED
        BY <1>2, <1>3, <3>1
    <2>2. Len(s) >= l - 1 /\ Len(t) >= l /\ t[l] < u[l]
      BY <1>1, <1>2, <1>3, <1>5
    <2>3. ASSUME Len(s) >= l PROVE s[l] < u[l]
      <3>1. l \in 1..Len(s) /\ l \in 1..Len(t) /\ l \in 1..Len(u)
        BY <1>1, <2>2, <2>3
      <3>2. s[l] \in Nat /\ t[l] \in Nat /\ u[l] \in Nat
        BY <1>1, <3>1
      <3>3. s[l] <= t[l]
        <4>1. CASE l = k
          <5>1. s[l] < t[l]
            BY ONLY <1>2, <2>3, <4>1
          <5> QED
            BY ONLY <3>2, <5>1
        <4>2. CASE l # k
          <5>1. l \in 1..(k - 1)
            BY <1>1, <1>5, <4>2
          <5>2. s[l] = t[l]
            BY ONLY <1>2, <5>1
          <5> QED
            BY ONLY <3>2, <5>2
        <4> QED
          BY <4>1, <4>2
      <3> QED
        BY <2>2, <3>2, <3>3
    <2> QED
      BY <2>1, <2>2, <2>3 DEF Before
  <1> QED
    BY <1>1, <1>4, <1>5

LEMMA BeforeOrAfter ==
  ASSUME NEW s \in Seq(Nat), NEW t \in Seq(Nat), s # t
  PROVE  Before(s, t) \/ Before(t, s)
  <1> DEFINE S == {k \in Nat : k > 0 /\ (k > Len(s) \/ k > Len(t) \/ s[k] # t[k])}
  <1>1. Len(s) \in Nat /\ Len(t) \in Nat
    OBVIOUS
  <1>2. Len(s) + 1 \in S
    BY <1>1
  <1>3. PICK k \in S : \A j \in S : k <= j
    <2>1. S \subseteq Nat /\ S # {}
      BY <1>2
    <2> HIDE DEF S
    <2> QED
      BY <2>1, LeastNumber
  <1>4. ASSUME NEW i \in 1..(k - 1) PROVE i <= Len(s) /\ i <= Len(t) /\ s[i] = t[i]
    <2>1. i \in Nat /\ i > 0 /\ ~(k <= i)
      BY <1>1
    <2>2. i \notin S
      BY <1>3, <2>1
    <2> QED
      BY <1>1, <2>1, <2>2
  <1>5. k \in Nat /\ k > 0 /\ Len(s) >= k - 1 /\ Len(t) >= k - 1
    <2>1. k \in Nat /\ k > 0
      OBVIOUS
    <2>2. CASE k = 1
      BY <1>1, <2>2
    <2>3. CASE k # 1
      <3>1. k - 1 \in 1..(k - 1)
        BY <2>1, <2>3
      <3> QED
        BY <1>1, <1>4, <2>1, <3>1
    <2> QED
      BY <2>1, <2>2, <2>3
  <1>6. CASE k > Len(s)
    <2>1. Len(s) = k - 1
      BY <1>1, <1>5, <1>6
    <2>2. k <= Len(t)
      <3>1. SUFFICES ASSUME Len(t) = k - 1 PROVE FALSE
        BY <1>1, <1>5
      <3>2. Len(s) = Len(t) /\ \A i \in 1..Len(s) : s[i] = t[i]
        BY <1>4, <2>1, <3>1
      <3> QED
        BY <3>2, SeqEqual
    <2> QED
      BY <1>1, <1>4, <1>5, <1>6, <2>1, <2>2 DEF Before
  <1>7. CASE k > Len(t) /\ k <= Len(s)
    BY <1>1, <1>4, <1>5, <1>7 DEF Before
  <1>8. CASE k <= Len(t) /\ k <= Len(s)
    <2>1. k \in 1..Len(s) /\ k \in 1..Len(t) /\ s[k] # t[k]
      BY <1>1, <1>5, <1>8
    <2>2. s[k] \in Nat /\ t[k] \in Nat
      BY <2>1
    <2>3. CASE s[k] < t[k]
      BY <1>4, <1>5, <2>1, <2>3 DEF Before
    <2>4. CASE t[k] < s[k]
      BY <1>4, <1>5, <2>1, <2>4 DEF Before
    <2> QED
      BY <2>1, <2>2, <2>3, <2>4
  <1> QED
    BY <1>1, <1>5, <1>6, <1>7, <1>8

(* Where equals are as good as each other, places decide.                  *)
LEMMA WeakOrders ==
  ASSUME NEW s, NEW n \in Nat, DOMAIN s = 1..n, NEW lt,
         \A x, y \in DOMAIN s : <<x, y>> \in lt => <<y, x>> \notin lt,
         \A x, y, z \in DOMAIN s : <<y, x>> \notin lt /\ <<z, y>> \notin lt => <<z, x>> \notin lt
  PROVE  Orders(PlacesBy(s, lt), DOMAIN s)
  <1> DEFINE D == DOMAIN s
             R == PlacesBy(s, lt)
  <1>1. \A x, y \in D : <<x, y>> \in R <=> <<x, y>> \in lt \/ (<<y, x>> \notin lt /\ x < y)
    BY DEF PlacesBy
  <1>2. \A x \in D : x \in Int
    OBVIOUS
  <1> HIDE DEF R
  <1>3. \A x \in D : <<x, x>> \notin R
    BY <1>1, <1>2
  <1>4. ASSUME NEW x \in D, NEW y \in D, x # y PROVE <<x, y>> \in R \/ <<y, x>> \in R
    <2>1. x < y \/ y < x
      BY <1>2, <1>4
    <2> QED
      BY <1>1, <2>1
  <1>5. ASSUME NEW x \in D, NEW y \in D, NEW z \in D, <<x, y>> \in R, <<y, z>> \in R
        PROVE  <<x, z>> \in R
    <2>1. <<y, x>> \notin lt /\ <<z, y>> \notin lt
      BY <1>1, <1>5
    <2>2. <<z, x>> \notin lt
      BY <2>1
    <2>3. CASE <<x, z>> \in lt
      BY <1>1, <2>3
    <2>4. CASE <<x, z>> \notin lt
      <3>1. <<x, y>> \notin lt
        BY <2>1, <2>4
      <3>2. <<y, z>> \notin lt
        BY <2>1, <2>4
      <3>3. x < y /\ y < z
        BY <1>1, <1>5, <3>1, <3>2
      <3>4. x < z
        BY <1>2, <3>3
      <3> QED
        BY <1>1, <2>2, <3>4
    <2> QED
      BY <2>3, <2>4
  <1> QED
    BY <1>3, <1>4, <1>5 DEF Orders, R

(* Sorting puts every place somewhere, in the order.                       *)
SortsBy(s, lt, n, o) ==
  /\ Sorted(s, lt) = [k \in 1..n |-> s[o[k]]]
  /\ \A k \in 1..n : o[k] \in 1..n
  /\ \A i \in 1..n : \E k \in 1..n : o[k] = i
  /\ \A j, k \in 1..n : j < k => o[j] # o[k] /\ <<o[j], o[k]>> \in PlacesBy(s, lt)
LEMMA SortedBy ==
  ASSUME NEW T, NEW s \in Seq(T), NEW lt, Orders(PlacesBy(s, lt), DOMAIN s), NEW n, n = Len(s)
  PROVE  \E o : SortsBy(s, lt, n, o)
  <1>1. PICK D, R : D = DOMAIN s /\ R = PlacesBy(s, lt)
    OBVIOUS
  <1>2. PICK o : o = Listed(D, R)
    OBVIOUS
  <1>3. n \in Nat /\ D = 1..n
    BY <1>1
  <1>4. IsFiniteSet(D) /\ Cardinality(D) = n
    <2>1. n \in Nat
      BY <1>3
    <2>2. IsFiniteSet(1..n) /\ Cardinality(1..n) = n
      BY ONLY <2>1, FS_Interval
    <2> QED
      BY <1>3, <2>2
  <1>5. /\ o \in Seq(D) /\ DOMAIN o = 1..n
        /\ \A x \in D : \E k \in 1..n : o[k] = x
        /\ \A j, k \in 1..n : j < k => <<o[j], o[k]>> \in R
    <2>1. Orders(R, D)
      BY <1>1
    <2>2. /\ Listed(D, R) \in Seq(D) /\ DOMAIN Listed(D, R) = 1..Cardinality(D)
          /\ \A x \in D : \E k \in DOMAIN Listed(D, R) : Listed(D, R)[k] = x
          /\ \A j, k \in DOMAIN Listed(D, R) : j < k => <<Listed(D, R)[j], Listed(D, R)[k]>> \in R
      BY ONLY <1>4, <2>1, ListedIs
    <2> QED
      BY <1>2, <1>4, <2>2
  <1>6. Sorted(s, lt) = [k \in 1..n |-> s[o[k]]]
    BY <1>1, <1>2, <1>3 DEF Sorted, PlacesBy
  <1>7. \A k \in 1..n : o[k] \in D
    <2>1. Len(o) = n
      BY <1>3, <1>5
    <2> QED
      BY <1>5, <2>1, ElementOfSeq
  <1>8. \A x \in D : <<x, x>> \notin R
    BY <1>1 DEF Orders
  <1>9. \A j, k \in 1..n : j < k => o[j] # o[k]
    BY <1>5, <1>7, <1>8
  <1>10. /\ \A k \in 1..n : o[k] \in 1..n
         /\ \A i \in 1..n : \E k \in 1..n : o[k] = i
         /\ \A j, k \in 1..n : j < k => o[j] # o[k] /\ <<o[j], o[k]>> \in PlacesBy(s, lt)
    BY <1>1, <1>3, <1>5, <1>7, <1>9
  <1>11. SortsBy(s, lt, n, o)
    BY ONLY <1>6, <1>10 DEF SortsBy
  <1> QED
    BY ONLY <1>11

(* FlattenSeq() keeps an order: that of each sequence, and of what is in   *)
(* an earlier and what is in a later one.                                  *)
InOrderOf(s, L) == \A i, j \in DOMAIN s : i < j => <<s[i], s[j]>> \in L
LEMMA FlattenInOrder ==
  ASSUME NEW T, NEW seqs \in Seq(Seq(T)), NEW L, \A k \in DOMAIN seqs : InOrderOf(seqs[k], L),
         \A h, k \in DOMAIN seqs : h < k =>
           \A i \in DOMAIN seqs[h], j \in DOMAIN seqs[k] : <<seqs[h][i], seqs[k][j]>> \in L
  PROVE  InOrderOf(FlattenSeq(seqs), L)
  <1> DEFINE n == Len(seqs)
             From(k, s) == /\ s \in Seq(T) /\ InOrderOf(s, L)
                           /\ \A i \in DOMAIN s : \E h \in 1..k : \E j \in DOMAIN seqs[h] : s[i] = seqs[h][j]
  <1>1. n \in Nat /\ DOMAIN seqs = 1..n /\ \A k \in 1..n : seqs[k] \in Seq(T)
    OBVIOUS
  <1>2. CASE n = 0
    <2>1. FlattenSeq(seqs) = seqs
      BY <1>2 DEF FlattenSeq
    <2>2. DOMAIN seqs = {}
      BY <1>1, <1>2
    <2> QED
      BY <2>1, <2>2 DEF InOrderOf
  <1>3. CASE n # 0
    <2>1. PICK f : /\ f[1] = seqs[1]
                   /\ \A k \in 2..n : f[k] = f[k - 1] \o seqs[k]
                   /\ FlattenSeq(seqs) = f[n]
      <3>1. Len(seqs) \in Nat \ {0}
        BY <1>1, <1>3
      <3> QED
        BY <3>1, FlattenGoes
    <2> DEFINE S == {k \in Nat : k + 1 <= n => From(k + 1, f[k + 1])}
    <2> HIDE DEF n
    <2>2. 0 \in S
      <3>1. f[0 + 1] = seqs[1] /\ 1 \in 1..n
        BY <1>1, <1>3, <2>1
      <3>2. From(1, seqs[1])
        BY <1>1, <3>1
      <3> HIDE DEF From
      <3> QED
        BY <3>1, <3>2
    <2>3. ASSUME NEW k \in 1..(n - 1), k - 1 \in S PROVE k \in S
      <3>1. k \in Nat /\ k - 1 \in Nat /\ (k - 1) + 1 = k /\ k <= n /\ k + 1 \in 2..n /\ (k + 1) - 1 = k /\ k + 1 \in 1..n
        BY <1>1
      <3>2. From(k, f[k])
        BY <2>3, <3>1
      <3>3. PICK s, t : s = f[k] /\ t = seqs[k + 1]
        OBVIOUS
      <3>4. f[k + 1] = s \o t
        BY <2>1, <3>1, <3>3
      <3>5. s \in Seq(T) /\ t \in Seq(T) /\ InOrderOf(s, L) /\ InOrderOf(t, L)
        BY <1>1, <3>1, <3>2, <3>3
      <3>6. \A i \in DOMAIN s : \E h \in 1..k : \E j \in DOMAIN seqs[h] : s[i] = seqs[h][j]
        BY <3>2, <3>3
      <3>7. PICK a \in Nat, b \in Nat : a = Len(s) /\ b = Len(t)
        BY <3>5
      <3>8. DOMAIN s = 1..a /\ DOMAIN t = 1..b
        BY <3>5, <3>7
      <3>9. PICK u : u = s \o t
        OBVIOUS
      <3>10. /\ u \in Seq(T) /\ DOMAIN u = 1..(a + b)
             /\ \A i \in 1..a : u[i] = s[i]
             /\ \A i \in 1..b : u[a + i] = t[i]
        BY ONLY <3>5, <3>7, <3>9, ConcatProperties
      <3>11. ASSUME NEW i \in DOMAIN s, NEW j \in DOMAIN t PROVE <<s[i], t[j]>> \in L
        <4>1. PICK h \in 1..k : \E x \in DOMAIN seqs[h] : s[i] = seqs[h][x]
          BY <3>6
        <4>2. PICK x \in DOMAIN seqs[h] : s[i] = seqs[h][x]
          BY <4>1
        <4>3. h \in DOMAIN seqs /\ k + 1 \in DOMAIN seqs /\ h < k + 1
          BY <1>1, <3>1
        <4> QED
          BY <3>3, <4>2, <4>3
      <3>12. ASSUME NEW i \in 1..(a + b), NEW j \in 1..(a + b), i < j PROVE <<u[i], u[j]>> \in L
        <4>1. CASE j <= a
          <5>1. i \in 1..a /\ j \in 1..a
            BY <3>12, <4>1
          <5> QED
            BY <3>5, <3>8, <3>10, <3>12, <5>1 DEF InOrderOf
        <4>2. CASE i <= a /\ j > a
          <5>1. i \in 1..a /\ j - a \in 1..b /\ a + (j - a) = j
            BY <4>2
          <5> QED
            BY <3>8, <3>10, <3>11, <5>1
        <4>3. CASE i > a
          <5>1. i - a \in 1..b /\ j - a \in 1..b /\ a + (j - a) = j /\ a + (i - a) = i /\ i - a < j - a
            BY <3>12, <4>3
          <5>2. u[i] = t[i - a] /\ u[j] = t[j - a]
            BY <3>10, <5>1
          <5> QED
            BY <3>5, <3>8, <5>1, <5>2 DEF InOrderOf
        <4> QED
          BY <4>1, <4>2, <4>3
      <3>13. ASSUME NEW i \in 1..(a + b)
             PROVE  \E h \in 1..(k + 1) : \E j \in DOMAIN seqs[h] : u[i] = seqs[h][j]
        <4>1. CASE i <= a
          <5>1. i \in 1..a
            BY <4>1
          <5>2. PICK h \in 1..k : \E j \in DOMAIN seqs[h] : s[i] = seqs[h][j]
            BY <3>6, <3>8, <5>1
          <5>3. h \in 1..(k + 1) /\ u[i] = s[i]
            BY <3>1, <3>10, <5>1
          <5> QED
            BY <5>2, <5>3
        <4>2. CASE i > a
          <5>1. i - a \in 1..b /\ a + (i - a) = i
            BY <4>2
          <5>2. u[i] = t[i - a] /\ k + 1 \in 1..(k + 1)
            BY <3>1, <3>10, <5>1
          <5> QED
            BY <3>3, <3>8, <5>1, <5>2
        <4> QED
          BY <4>1, <4>2
      <3>14. From(k + 1, u)
        BY <3>10, <3>12, <3>13 DEF InOrderOf
      <3> HIDE DEF From
      <3> QED
        BY <3>1, <3>4, <3>9, <3>14
    <2>4. n - 1 \in Nat /\ n - 1 \in 0..(n - 1) /\ (n - 1) + 1 = n
      BY <1>1, <1>3
    <2>5. n - 1 \in S
      <3> HIDE DEF S
      <3> QED
        BY <2>2, <2>3, <2>4, Upwards
    <2>6. From(n, FlattenSeq(seqs))
      <3> HIDE DEF From
      <3> QED
        BY <2>1, <2>4, <2>5
    <2> QED
      BY <2>6
  <1> QED
    BY <1>2, <1>3

(***************************************************************************)
(* The nodes the ids lead to, and the lemmas there.                        *)
(***************************************************************************)
Earlier(T) == {p \in T \X T : Before(p[1], p[2])}

(* The sons of a node come in the order of their spellings.                *)
LEMMA SonRunInOrder ==
  ASSUME NEW n \in Nat, NEW p \in PathsOf(n), NEW lo \in Int, NEW hi \in Int,
         NEW run, run = SonRun(p, lo..hi)
  PROVE  /\ InOrderOf(run, Earlier(PathsOf(n + 1)))
         /\ \A k \in DOMAIN run : \E f \in lo..hi : run[k] = Append(p, f)
  <1> DEFINE ids == lo..hi
             S == {f \in ids : Append(p, f) \in Paths}
             R == {g \in ids \X ids : g[1] < g[2]}
             sons == Listed(S, R)
  <1>1. IsFiniteSet(S)
    BY FS_Interval, FS_Subset
  <1>2. Orders(R, S)
    BY DEF Orders
  <1>3. sons \in Seq(S) /\ \A j, k \in DOMAIN sons : j < k => <<sons[j], sons[k]>> \in R
    <2> HIDE DEF S, R
    <2> QED
      BY <1>1, <1>2, ListedIs
  <1>4. run = [k \in DOMAIN sons |-> Append(p, sons[k])]
    BY DEF SonRun
  <1> HIDE DEF sons
  <1>5. \A k \in DOMAIN sons : sons[k] \in S
    <2> HIDE DEF S
    <2> QED
      BY <1>3
  <1>6. p \in Seq(FullIds) /\ Len(p) = n /\ FullIds \subseteq Nat
    BY PathsAre, IdsAre DEF PathsOf, Ids
  <1>7. ASSUME NEW f \in S, NEW g \in S, f < g
        PROVE  <<Append(p, f), Append(p, g)>> \in Earlier(PathsOf(n + 1))
    <2>1. Append(p, f) \in PathsOf(n + 1) /\ Append(p, g) \in PathsOf(n + 1)
      BY LongerPath
    <2>2. PICK s, t : s = Append(p, f) /\ t = Append(p, g)
      OBVIOUS
    <2>3. /\ Len(s) = n + 1 /\ Len(t) = n + 1 /\ s[n + 1] = f /\ t[n + 1] = g
          /\ \A i \in 1..n : s[i] = t[i]
      BY <1>6, <2>2
    <2>4. n + 1 \in 1..Len(t) /\ (n + 1) - 1 = n
      BY <2>3
    <2>5. Before(s, t)
      BY <1>7, <2>3, <2>4 DEF Before
    <2> QED
      BY <2>1, <2>2, <2>5 DEF Earlier
  <1>8. InOrderOf(run, Earlier(PathsOf(n + 1)))
    <2>1. ASSUME NEW i \in DOMAIN sons, NEW j \in DOMAIN sons, i < j
          PROVE  <<Append(p, sons[i]), Append(p, sons[j])>> \in Earlier(PathsOf(n + 1))
      <3>1. sons[i] \in S /\ sons[j] \in S /\ sons[i] < sons[j]
        BY <1>3, <1>5, <2>1
      <3> HIDE DEF S
      <3> QED
        BY <1>7, <3>1
    <2> QED
      BY <1>4, <2>1 DEF InOrderOf
  <1> QED
    BY <1>4, <1>5, <1>8

(* The sons of several nodes: those there are, in the order of their       *)
(* spellings when the nodes are.                                           *)
SonsAre(u, n, ids, all) ==
  /\ all \in Seq(PathsOf(n + 1)) /\ InOrderOf(all, Earlier(PathsOf(n + 1)))
  /\ \A k \in DOMAIN all : \E i \in DOMAIN u : \E f \in ids : all[k] = Append(u[i], f)
  /\ \A i \in DOMAIN u : \A f \in ids : Append(u[i], f) \in Paths =>
       \E k \in DOMAIN all : all[k] = Append(u[i], f)
LEMMA SonsInOrder ==
  ASSUME NEW n \in Nat, NEW u \in Seq(PathsOf(n)), NEW lo \in Int, NEW hi \in Int,
         InOrderOf(u, Earlier(PathsOf(n))), NEW all, all = FlattenSeq(SonRuns(u, lo..hi))
  PROVE  SonsAre(u, n, lo..hi, all)
  <1>1. PICK ids, P, Q : ids = lo..hi /\ P = PathsOf(n) /\ Q = PathsOf(n + 1)
    OBVIOUS
  <1>2. PICK T, L : T = Seq(Q) /\ L = Earlier(Q)
    OBVIOUS
  <1>3. PICK run : run = [k \in DOMAIN u |-> SonRun(u[k], ids)]
    OBVIOUS
  <1>4. PICK each : each = [k \in DOMAIN u |-> IF run[k] = <<>> THEN <<>> ELSE <<run[k]>>]
    OBVIOUS
  <1>5. u \in Seq(P) /\ InOrderOf(u, Earlier(P))
    BY <1>1
  <1>6. DOMAIN u = 1..Len(u) /\ Len(u) \in Nat /\ \A k \in DOMAIN u : u[k] \in P
    BY <1>5
  <1>7. ASSUME NEW k \in DOMAIN u
        PROVE  /\ run[k] \in T /\ InOrderOf(run[k], L)
               /\ \A j \in DOMAIN run[k] : \E f \in ids : run[k][j] = Append(u[k], f)
               /\ \A f \in ids : Append(u[k], f) \in Paths => \E j \in DOMAIN run[k] : run[k][j] = Append(u[k], f)
    <2>1. PICK p \in PathsOf(n) : p = u[k]
      BY <1>1, <1>6
    <2>2. run[k] = SonRun(p, ids)
      BY <1>3, <2>1
    <2>3. PICK r : r = SonRun(p, lo..hi)
      OBVIOUS
    <2>4. /\ r \in Seq(PathsOf(n + 1))
          /\ \A f \in lo..hi : Append(p, f) \in Paths => \E j \in DOMAIN r : r[j] = Append(p, f)
      BY <2>3, SonRunIs
    <2>5. /\ InOrderOf(r, Earlier(PathsOf(n + 1)))
          /\ \A j \in DOMAIN r : \E f \in lo..hi : r[j] = Append(p, f)
      BY <2>3, SonRunInOrder
    <2>6. run[k] = r
      BY <1>1, <2>2, <2>3
    <2> QED
      BY <1>1, <1>2, <2>1, <2>4, <2>5, <2>6
  <1>8. DOMAIN each = DOMAIN u /\ \A k \in DOMAIN u : each[k] = IF run[k] = <<>> THEN <<>> ELSE <<run[k]>>
    BY <1>4
  <1>9. each \in Seq(Seq(T))
    <2>1. ASSUME NEW k \in DOMAIN u PROVE each[k] \in Seq(T)
      <3>1. PICK r \in T : r = run[k]
        BY <1>7
      <3>2. <<>> \in Seq(T) /\ <<r>> \in Seq(T)
        BY ONLY r \in T
      <3>3. each[k] = <<>> \/ each[k] = <<r>>
        BY <1>8, <3>1
      <3> QED
        BY <3>2, <3>3
    <2> QED
      BY <1>4, <1>6, <2>1
  <1>10. PICK runs : runs = FlattenSeq(each)
    OBVIOUS
  <1>11. SonRuns(u, ids) = runs
    BY <1>3, <1>4, <1>10 DEF SonRuns
  <1>12. /\ runs \in Seq(T)
         /\ \A i \in DOMAIN runs : \E k \in DOMAIN each : \E j \in DOMAIN each[k] : runs[i] = each[k][j]
         /\ \A k \in DOMAIN each : \A j \in DOMAIN each[k] : \E i \in DOMAIN runs : runs[i] = each[k][j]
    BY <1>9, <1>10, FlattenIs
  <1>13. ASSUME NEW k \in DOMAIN u, NEW j \in DOMAIN each[k] PROVE j = 1 /\ each[k] = <<run[k]>> /\ each[k][j] = run[k]
    <2>1. run[k] # <<>>
      BY <1>8
    <2> QED
      BY <1>8, <2>1
  <1>14. \A i \in DOMAIN runs : \E k \in DOMAIN u : runs[i] = run[k]
    BY <1>8, <1>12, <1>13
  <1>15. ASSUME NEW k \in DOMAIN u, run[k] # <<>> PROVE \E i \in DOMAIN runs : runs[i] = run[k]
    <2>1. each[k] = <<run[k]>> /\ k \in DOMAIN each
      BY <1>8, <1>15
    <2>2. 1 \in DOMAIN each[k] /\ each[k][1] = run[k]
      BY <2>1
    <2> QED
      BY <1>12, <2>1, <2>2
  <1>16. ASSUME NEW h \in DOMAIN u, NEW k \in DOMAIN u, h < k,
                NEW i \in DOMAIN run[h], NEW j \in DOMAIN run[k]
         PROVE  <<run[h][i], run[k][j]>> \in L
    <2>1. PICK f \in ids : run[h][i] = Append(u[h], f)
      BY <1>7
    <2>2. PICK g \in ids : run[k][j] = Append(u[k], g)
      BY <1>7
    <2>3. run[h][i] \in Q /\ run[k][j] \in Q
      BY <1>2, <1>7, ElementOfSeq
    <2>4. PICK p, q, a, b : p = u[h] /\ q = u[k] /\ a = run[h][i] /\ b = run[k][j]
      OBVIOUS
    <2>5. Before(p, q) /\ p \in PathsOf(n) /\ q \in PathsOf(n)
      BY <1>1, <1>5, <1>6, <1>16, <2>4 DEF InOrderOf, Earlier
    <2>6. p \in Seq(FullIds) /\ q \in Seq(FullIds) /\ Len(p) = n /\ Len(q) = n
      BY <2>5, PathsAre DEF PathsOf
    <2>7. PICK x \in 1..Len(q) : /\ Len(p) >= x - 1 /\ \A y \in 1..(x - 1) : p[y] = q[y]
                                 /\ Len(p) >= x => p[x] < q[x]
      BY <2>5 DEF Before
    <2>8. a = Append(p, f) /\ b = Append(q, g)
      BY <2>1, <2>2, <2>4
    <2>9. /\ Len(a) = n + 1 /\ Len(b) = n + 1
          /\ \A y \in 1..n : a[y] = p[y] /\ b[y] = q[y]
      BY ONLY <2>6, <2>8, n \in Nat
    <2>10. x \in 1..n /\ x \in 1..Len(b) /\ Len(a) >= x - 1 /\ p[x] < q[x]
      BY <2>6, <2>7, <2>9
    <2>11. \A y \in 1..(x - 1) : a[y] = b[y]
      <3>1. \A y \in 1..(x - 1) : y \in 1..n
        BY <2>10
      <3> QED
        BY <2>7, <2>9, <3>1
    <2>12. Before(a, b)
      BY <2>9, <2>10, <2>11 DEF Before
    <2> QED
      BY <1>2, <2>3, <2>4, <2>12 DEF Earlier
  <1>17. \A i \in DOMAIN runs : InOrderOf(runs[i], L)
    BY <1>7, <1>14
  <1>18. PICK M : M = {p \in T \X T : \A i \in DOMAIN p[1], j \in DOMAIN p[2] : <<p[1][i], p[2][j]>> \in L}
    OBVIOUS
  <1>19. InOrderOf(runs, M)
    <2>1. ASSUME NEW k \in DOMAIN each PROVE InOrderOf(each[k], M)
      <3>1. \A i, j \in DOMAIN each[k] : ~(i < j)
        BY <1>8, <1>13
      <3> QED
        BY <3>1 DEF InOrderOf
    <2>2. ASSUME NEW h \in DOMAIN each, NEW k \in DOMAIN each, h < k, NEW i \in DOMAIN each[h], NEW j \in DOMAIN each[k]
          PROVE  <<each[h][i], each[k][j]>> \in M
      <3>1. each[h][i] = run[h] /\ each[k][j] = run[k] /\ run[h] \in T /\ run[k] \in T
        BY <1>7, <1>8, <1>13
      <3>2. \A x \in DOMAIN run[h], y \in DOMAIN run[k] : <<run[h][x], run[k][y]>> \in L
        BY <1>8, <1>16, <2>2
      <3> QED
        BY <1>18, <3>1, <3>2
    <2> QED
      BY <1>9, <1>10, <2>1, <2>2, FlattenInOrder
  <1>20. ASSUME NEW h \in DOMAIN runs, NEW k \in DOMAIN runs, h < k,
                NEW i \in DOMAIN runs[h], NEW j \in DOMAIN runs[k]
         PROVE  <<runs[h][i], runs[k][j]>> \in L
    <2>1. <<runs[h], runs[k]>> \in M
      BY <1>19, <1>20 DEF InOrderOf
    <2> QED
      BY <1>18, <2>1
  <1>21. all = FlattenSeq(runs)
    BY <1>1, <1>11
  <1>22. InOrderOf(all, L)
    BY <1>2, <1>12, <1>17, <1>20, <1>21, FlattenInOrder
  <1>23. /\ all \in Seq(Q)
         /\ \A i \in DOMAIN all : \E k \in DOMAIN runs : \E j \in DOMAIN runs[k] : all[i] = runs[k][j]
         /\ \A k \in DOMAIN runs : \A j \in DOMAIN runs[k] : \E i \in DOMAIN all : all[i] = runs[k][j]
    BY <1>2, <1>12, <1>21, FlattenIs
  <1>24. ASSUME NEW x \in DOMAIN all PROVE \E i \in DOMAIN u : \E f \in ids : all[x] = Append(u[i], f)
    <2>1. PICK k \in DOMAIN runs : \E j \in DOMAIN runs[k] : all[x] = runs[k][j]
      BY <1>23
    <2>2. PICK j \in DOMAIN runs[k] : all[x] = runs[k][j]
      BY <2>1
    <2>3. PICK i \in DOMAIN u : runs[k] = run[i]
      BY <1>14
    <2> QED
      BY <1>7, <2>2, <2>3
  <1>25. ASSUME NEW i \in DOMAIN u, NEW f \in ids, Append(u[i], f) \in Paths
         PROVE  \E k \in DOMAIN all : all[k] = Append(u[i], f)
    <2>1. PICK j \in DOMAIN run[i] : run[i][j] = Append(u[i], f)
      BY <1>7, <1>25
    <2>2. run[i] # <<>>
      BY <2>1
    <2>3. PICK k \in DOMAIN runs : runs[k] = run[i]
      BY <1>15, <2>2
    <2>4. \E x \in DOMAIN all : all[x] = runs[k][j]
      BY ONLY <1>23, <2>1, <2>3, j \in DOMAIN run[i], k \in DOMAIN runs, Zenon
    <2> QED
      BY ONLY <2>1, <2>3, <2>4, Zenon
  <1> QED
    BY <1>1, <1>2, <1>22, <1>23, <1>24, <1>25 DEF SonsAre

(* How NodesFor() goes down the trie.                                      *)
LEMMA NodesLoop ==
  ASSUME NEW splids, NEW n \in Nat, n = Len(splids)
  PROVE  \E f : /\ f[0] = <<<<>>>>
                /\ \A k \in 1..n : f[k] = FlattenSeq(SonRuns(f[k - 1], IdRange(splids[k])))
                /\ NodesFor(splids) = f[n]
  <1> DEFINE Then(v, k) == FlattenSeq(SonRuns(v, IdRange(splids[k])))
             Goes(top, f) == f = [k \in 0..top |-> IF k = 0 THEN <<<<>>>> ELSE Then(f[k - 1], k)]
             S == {top \in Nat : \E f : Goes(top, f)}
  <1>1. NodesFor(splids) = (CHOOSE f : Goes(n, f))[n]
    BY DEF NodesFor
  <1> HIDE DEF Then
  <1>2. 0 \in S
    <2>1. Goes(0, [k \in 0..0 |-> <<<<>>>>])
      OBVIOUS
    <2> HIDE DEF Goes
    <2> QED
      BY <2>1
  <1>3. ASSUME NEW e \in Nat, e \in S PROVE e + 1 \in S
    <2>1. PICK f : Goes(e, f)
      BY <1>3
    <2> DEFINE g == [k \in 0..(e + 1) |-> IF k = e + 1 THEN Then(f[e], e + 1) ELSE f[k]]
    <2>2. ASSUME NEW k \in 0..(e + 1)
          PROVE  g[k] = IF k = 0 THEN <<<<>>>> ELSE Then(g[k - 1], k)
      <3>1. CASE k = e + 1
        BY <2>1, <3>1
      <3>2. CASE k \in 0..e
        <4>0. k # e + 1 /\ k \in 0..(e + 1)
          BY <3>2
        <4>1. g[k] = f[k]
          BY <4>0
        <4>3. f[k] = IF k = 0 THEN <<<<>>>> ELSE Then(f[k - 1], k)
          <5> HIDE DEF g
          <5> QED
            BY <2>1, <3>2
        <4>2. k # 0 => g[k - 1] = f[k - 1]
          BY <3>2
        <4> HIDE DEF g
        <4> QED
          BY <4>1, <4>2, <4>3
      <3> QED
        BY <3>1, <3>2
    <2>3. Goes(e + 1, g)
      BY <2>2
    <2> HIDE DEF g, Goes
    <2> QED
      BY <2>3
  <1>4. \E f : Goes(n, f)
    <2>1. n \in S
      <3> HIDE DEF S
      <3> QED
        BY <1>2, <1>3, Induction
    <2> HIDE DEF Goes
    <2> QED
      BY <2>1
  <1>5. Goes(n, CHOOSE f : Goes(n, f))
    <2> HIDE DEF Goes
    <2> QED
      BY <1>4
  <1> DEFINE f == CHOOSE f : Goes(n, f)
  <1>6. f = [k \in 0..n |-> IF k = 0 THEN <<<<>>>> ELSE Then(f[k - 1], k)]
    BY <1>5
  <1> HIDE DEF f
  <1>8. f[0] = <<<<>>>> /\ \A k \in 1..n : f[k] = Then(f[k - 1], k)
    <2>1. 0 \in 0..n
      OBVIOUS
    <2>2. ASSUME NEW k \in 1..n PROVE k \in 0..n /\ k # 0
      OBVIOUS
    <2> QED
      BY <1>6, <2>1, <2>2
  <1> QED
    BY <1>1, <1>8 DEF f, Then

(* A spelling the ids stand for.                                           *)
Among(p, splids, n) == \A k \in 1..n : p[k] \in IdRange(splids[k])

(* A node's parent is a node.                                              *)
LEMMA ParentIs ==
  ASSUME NEW n \in Nat, NEW p \in PathsOf(n + 1)
  PROVE  \E q \in PathsOf(n) : p = Append(q, p[n + 1]) /\ \A i \in 1..n : q[i] = p[i]
  <1>1. PICK id \in LemmaIds : \E h \in 0..Len(Lemmas[id].spl) : p = SubSeq(Lemmas[id].spl, 1, h)
    BY DEF Paths, PathsOf
  <1>2. PICK s : s = Lemmas[id].spl
    OBVIOUS
  <1>3. s \in Seq(FullIds)
    BY <1>2, LemmasAre
  <1>4. PICK h \in 0..Len(s) : p = SubSeq(s, 1, h)
    BY <1>1, <1>2
  <1>5. Len(p) = n + 1
    BY DEF PathsOf
  <1>6. h = n + 1
    BY <1>3, <1>4, <1>5
  <1>7. PICK q : q = SubSeq(s, 1, n)
    OBVIOUS
  <1>8. n \in 0..Len(s)
    BY <1>3, <1>6
  <1>9. q \in Paths
    BY <1>2, <1>7, <1>8 DEF Paths
  <1>10. q \in Seq(FullIds) /\ Len(q) = n /\ \A i \in 1..n : q[i] = s[i]
    BY <1>3, <1>7, <1>8
  <1>11. p \in Seq(FullIds) /\ \A i \in 1..(n + 1) : p[i] = s[i]
    BY <1>3, <1>4, <1>6
  <1>12. p[n + 1] \in FullIds
    BY <1>5, <1>11
  <1>13. PICK r : r = Append(q, p[n + 1])
    OBVIOUS
  <1>14. r \in Seq(FullIds) /\ Len(r) = n + 1 /\ r[n + 1] = p[n + 1] /\ \A i \in 1..n : r[i] = q[i]
    BY <1>10, <1>12, <1>13
  <1>15. \A i \in 1..(n + 1) : r[i] = p[i]
    <2>1. \A i \in 1..(n + 1) : i \in 1..n \/ i = n + 1
      OBVIOUS
    <2> QED
      BY <1>10, <1>11, <1>14, <2>1
  <1>16. r = p
    BY ONLY <1>5, <1>11, <1>14, <1>15, SeqEqual
  <1>17. q \in PathsOf(n)
    BY <1>9, <1>10 DEF PathsOf
  <1>18. \A i \in 1..n : q[i] = p[i]
    BY <1>10, <1>11
  <1> QED
    BY <1>13, <1>16, <1>17, <1>18

(* NodesFor() finds every node the ids lead to, by spelling, and no other. *)
NodesGood(u, splids, k) ==
  /\ u \in Seq(PathsOf(k)) /\ InOrderOf(u, Earlier(PathsOf(k)))
  /\ \A i \in DOMAIN u : Among(u[i], splids, k)
  /\ \A p \in PathsOf(k) : Among(p, splids, k) => \E i \in DOMAIN u : u[i] = p
LEMMA NodesOn ==
  ASSUME NEW splids, NEW k \in Nat, splids[k + 1] \in Ids, NEW u, NodesGood(u, splids, k),
         NEW v, v = FlattenSeq(SonRuns(u, IdRange(splids[k + 1])))
  PROVE  NodesGood(v, splids, k + 1)
  <1>1. PICK id : id = splids[k + 1]
    OBVIOUS
  <1>2. PICK lo, hi : lo = IdStart(id) /\ hi = IdStart(id) + IdNum(id) - 1
    OBVIOUS
  <1>3. lo \in Int /\ hi \in Int /\ IdRange(id) = lo..hi
    BY <1>1, <1>2, IdsStandFor
  <1>4. u \in Seq(PathsOf(k)) /\ InOrderOf(u, Earlier(PathsOf(k)))
    BY DEF NodesGood
  <1>5. v = FlattenSeq(SonRuns(u, lo..hi))
    BY <1>1, <1>3
  <1>0. SonsAre(u, k, lo..hi, v)
    BY <1>3, <1>4, <1>5, SonsInOrder
  <1>6. /\ v \in Seq(PathsOf(k + 1)) /\ InOrderOf(v, Earlier(PathsOf(k + 1)))
        /\ \A x \in DOMAIN v : \E i \in DOMAIN u : \E f \in lo..hi : v[x] = Append(u[i], f)
        /\ \A i \in DOMAIN u : \A f \in lo..hi : Append(u[i], f) \in Paths =>
             \E x \in DOMAIN v : v[x] = Append(u[i], f)
    BY <1>0 DEF SonsAre
  <1>7. ASSUME NEW x \in DOMAIN v PROVE Among(v[x], splids, k + 1)
    <2>1. PICK i \in DOMAIN u : \E f \in lo..hi : v[x] = Append(u[i], f)
      BY <1>6
    <2>2. PICK f \in lo..hi : v[x] = Append(u[i], f)
      BY <2>1
    <2>3. PICK p : p = u[i]
      OBVIOUS
    <2>4. p \in PathsOf(k)
      <3>1. PICK P : P = PathsOf(k)
        OBVIOUS
      <3>2. u \in Seq(P)
        BY <1>4, <3>1
      <3> QED
        BY <2>3, <3>1, <3>2, ElementOfSeq
    <2>5. p \in Seq(FullIds) /\ Len(p) = k
      BY <2>4, PathsAre DEF PathsOf
    <2>6. \A j \in 1..k : p[j] \in IdRange(splids[j])
      BY <2>3 DEF NodesGood, Among
    <2>7. PICK q : q = v[x]
      OBVIOUS
    <2>8. q[k + 1] = f /\ \A j \in 1..k : q[j] = p[j]
      BY <2>2, <2>3, <2>5, <2>7
    <2>9. \A j \in 1..(k + 1) : j \in 1..k \/ j = k + 1
      OBVIOUS
    <2>10. \A j \in 1..(k + 1) : q[j] \in IdRange(splids[j])
      BY <1>1, <1>3, <2>6, <2>8, <2>9
    <2> QED
      BY <2>7, <2>10 DEF Among
  <1>8. ASSUME NEW p \in PathsOf(k + 1), Among(p, splids, k + 1) PROVE \E x \in DOMAIN v : v[x] = p
    <2>1. PICK q \in PathsOf(k) : p = Append(q, p[k + 1]) /\ \A i \in 1..k : q[i] = p[i]
      BY ParentIs
    <2>2. k + 1 \in 1..(k + 1) /\ \A i \in 1..k : i \in 1..(k + 1)
      OBVIOUS
    <2>3. p[k + 1] \in lo..hi /\ \A i \in 1..k : p[i] \in IdRange(splids[i])
      BY <1>1, <1>3, <1>8, <2>2 DEF Among
    <2>4. Among(q, splids, k)
      BY <2>1, <2>3 DEF Among
    <2>5. PICK i \in DOMAIN u : u[i] = q
      BY <2>4 DEF NodesGood
    <2>6. Append(u[i], p[k + 1]) \in Paths
      BY <2>1, <2>5 DEF PathsOf
    <2> QED
      BY <1>6, <2>1, <2>3, <2>5, <2>6
  <1> QED
    BY <1>6, <1>7, <1>8 DEF NodesGood

LEMMA RootIs ==
  ASSUME NEW id \in Ids
  PROVE  <<>> \in PathsOf(0) /\ \A p \in PathsOf(0) : p = <<>>
  <1>1. <<IdStart(id)>> \in Paths
    BY IdsStandFor, SpellingAssumption
  <1>2. PICK i \in LemmaIds : TRUE
    BY <1>1 DEF Paths
  <1>3. Lemmas[i].spl \in Seq(FullIds)
    BY LemmasAre
  <1>4. SubSeq(Lemmas[i].spl, 1, 0) = <<>> /\ 0 \in 0..Len(Lemmas[i].spl)
    BY <1>3
  <1>5. <<>> \in Paths
    BY <1>4 DEF Paths
  <1>6. \A p \in PathsOf(0) : p = <<>>
    <2> SUFFICES ASSUME NEW p \in PathsOf(0) PROVE p = <<>>
      OBVIOUS
    <2>1. p \in Seq(FullIds) /\ Len(p) = 0
      BY PathsAre DEF PathsOf
    <2> QED
      BY <2>1
  <1> QED
    BY <1>5, <1>6 DEF PathsOf

LEMMA NodesForIs ==
  ASSUME NEW splids \in Seq(Ids), NEW n \in Nat \ {0}, n = Len(splids)
  PROVE  NodesGood(NodesFor(splids), splids, n)
  <1>1. PICK f : /\ f[0] = <<<<>>>>
                 /\ \A k \in 1..n : f[k] = FlattenSeq(SonRuns(f[k - 1], IdRange(splids[k])))
                 /\ NodesFor(splids) = f[n]
    BY NodesLoop
  <1> DEFINE S == {k \in Nat : NodesGood(f[k], splids, k)}
  <1>2. \A k \in 1..n : splids[k] \in Ids
    BY ElementOfSeq
  <1>3. <<>> \in PathsOf(0) /\ \A p \in PathsOf(0) : p = <<>>
    <2>1. 1 \in 1..n
      OBVIOUS
    <2> QED
      BY <1>2, <2>1, RootIs
  <1>4. NodesGood(<<<<>>>>, splids, 0)
    <2>1. PICK P : P = PathsOf(0)
      OBVIOUS
    <2>2. PICK e \in P : e = <<>>
      BY <1>3, <2>1
    <2>3. <<e>> \in Seq(P) /\ DOMAIN <<e>> = {1} /\ <<e>>[1] = e
      OBVIOUS
    <2>4. InOrderOf(<<e>>, Earlier(P))
      BY <2>3 DEF InOrderOf
    <2>5. \A p : Among(p, splids, 0)
      BY DEF Among
    <2>6. \A p \in P : p = e
      BY <1>3, <2>1, <2>2
    <2>7. NodesGood(<<e>>, splids, 0)
      BY <2>1, <2>3, <2>4, <2>5, <2>6 DEF NodesGood
    <2> QED
      BY <2>2, <2>7
  <1>5. ASSUME NEW k \in 1..n, k - 1 \in S PROVE k \in S
    <2>1. PICK j \in Nat : j = k - 1
      OBVIOUS
    <2>2. k = j + 1
      BY <2>1
    <2>3. NodesGood(f[j], splids, j)
      BY <1>5, <2>1
    <2>4. f[k] = FlattenSeq(SonRuns(f[j], IdRange(splids[j + 1]))) /\ splids[j + 1] \in Ids
      BY <1>1, <1>2, <2>1, <2>2
    <2>5. NodesGood(f[k], splids, j + 1)
      BY <2>3, <2>4, NodesOn
    <2> QED
      BY <2>2, <2>5
  <1>6. n \in S
    <2>1. 0 \in S
      BY <1>1, <1>4
    <2> HIDE DEF S
    <2>2. 0..n \subseteq S
      BY <1>5, <2>1, Upwards
    <2> QED
      BY <2>2
  <1> QED
    BY <1>1, <1>6

(* The homophones of a node are all there, the likelier first.             *)
LEMMA HomosInOrder ==
  ASSUME NEW p \in Paths, NEW h, h = Homos[p]
  PROVE  /\ h \in Seq(LemmaIds) /\ \A k \in DOMAIN h : Lemmas[h[k]].spl = p
         /\ \A id \in LemmaIds : Lemmas[id].spl = p => \E k \in DOMAIN h : h[k] = id
         /\ \A j, k \in DOMAIN h : j < k => LmaPsb[h[j]] <= LmaPsb[h[k]]
  <1>1. PICK S : S = {id \in LemmaIds : Lemmas[id].spl = p}
    OBVIOUS
  <1>2. LemmaIds = 1..Len(Lemmas) /\ Len(Lemmas) \in Nat
    BY LemmasAre
  <1>3. IsFiniteSet(S)
    <2>1. IsFiniteSet(LemmaIds)
      BY <1>2, FS_Interval
    <2>2. S \in SUBSET LemmaIds
      BY <1>1
    <2> QED
      BY <2>1, <2>2, FS_Subset
  <1>4. \A id \in LemmaIds : Lemmas[id].freq \in Nat /\ id \in Nat
    BY LemmasAre
  <1>5. Orders(MoreFrequent, S)
    <2>1. Orders(MoreFrequent, LemmaIds)
      BY <1>4 DEF Orders, MoreFrequent
    <2> QED
      BY <1>1, <2>1 DEF Orders
  <1>6. h = Listed(S, MoreFrequent)
    BY <1>1 DEF Homos
  <1>7. /\ h \in Seq(S) /\ \A x \in S : \E k \in DOMAIN h : h[k] = x
        /\ \A j, k \in DOMAIN h : j < k => <<h[j], h[k]>> \in MoreFrequent
    BY <1>3, <1>5, <1>6, ListedIs
  <1>8. \A k \in DOMAIN h : h[k] \in S
    BY <1>7
  <1>9. \A i, j \in LemmaIds : Lemmas[i].freq <= Lemmas[j].freq => LmaPsb[j] <= LmaPsb[i]
    BY LemmasAssumption DEF LmaPsb, LemmaIds
  <1>10. ASSUME NEW j \in DOMAIN h, NEW k \in DOMAIN h, j < k PROVE LmaPsb[h[j]] <= LmaPsb[h[k]]
    <2>1. PICK a, b : a = h[j] /\ b = h[k]
      OBVIOUS
    <2>2. a \in LemmaIds /\ b \in LemmaIds /\ <<a, b>> \in MoreFrequent
      BY <1>1, <1>7, <1>8, <1>10, <2>1
    <2>3. Lemmas[b].freq <= Lemmas[a].freq
      BY <1>4, <2>2 DEF MoreFrequent
    <2> QED
      BY <1>9, <2>1, <2>2, <2>3
  <1>11. h \in Seq(LemmaIds)
    <2>1. DOMAIN h = 1..Len(h) /\ Len(h) \in Nat
      BY <1>7
    <2>2. \A k \in 1..Len(h) : h[k] \in LemmaIds
      BY <1>1, <1>8, <2>1
    <2> QED
      BY <1>7, <2>1, <2>2
  <1> QED
    BY <1>1, <1>7, <1>8, <1>10, <1>11

(* An item holds its lemma's length and score.                             *)
ItemGood(x) == x \in ItemSet /\ x.len = Len(Lemmas[x.id].spl) /\ x.psb = LmaPsb[x.id]
(* Of two items the later one is likelier only when it is spelt later.     *)
LikelierLater ==
  {p \in ItemSet \X ItemSet :
     p[2].psb < p[1].psb => Before(Lemmas[p[1].id].spl, Lemmas[p[2].id].spl)}

ItemsFor(p, items) ==
  /\ items \in Seq(ItemSet) /\ InOrderOf(items, LikelierLater)
  /\ \A k \in DOMAIN items : ItemGood(items[k]) /\ Lemmas[items[k].id].spl = p
  /\ \A id \in LemmaIds : Lemmas[id].spl = p => \E k \in DOMAIN items : items[k].id = id
LEMMA ItemsInOrder ==
  ASSUME NEW p \in Paths
  PROVE  ItemsFor(p, Items(p))
  <1>1. PICK h : h = Homos[p]
    OBVIOUS
  <1>2. /\ h \in Seq(LemmaIds) /\ \A k \in DOMAIN h : Lemmas[h[k]].spl = p
        /\ \A id \in LemmaIds : Lemmas[id].spl = p => \E k \in DOMAIN h : h[k] = id
        /\ \A j, k \in DOMAIN h : j < k => LmaPsb[h[j]] <= LmaPsb[h[k]]
    <2>1. h \in Seq(LemmaIds) /\ \A k \in DOMAIN h : Lemmas[h[k]].spl = p
      BY ONLY <1>1, p \in Paths, HomosInOrder
    <2>2. \A id \in LemmaIds : Lemmas[id].spl = p => \E k \in DOMAIN h : h[k] = id
      BY ONLY <1>1, p \in Paths, HomosInOrder
    <2>3. \A j, k \in DOMAIN h : j < k => LmaPsb[h[j]] <= LmaPsb[h[k]]
      BY ONLY <1>1, p \in Paths, HomosInOrder
    <2> QED
      BY ONLY <2>1, <2>2, <2>3
  <1>3. PICK items : items = Items(p)
    OBVIOUS
  <1>4. items = [k \in DOMAIN h |-> [id |-> h[k], len |-> Len(p), psb |-> LmaPsb[h[k]]]]
    BY <1>1, <1>3 DEF Items
  <1>5. DOMAIN h = 1..Len(h) /\ Len(h) \in Nat /\ \A k \in DOMAIN h : h[k] \in LemmaIds
    BY <1>2
  <1>6. Len(p) \in Nat /\ \A id \in LemmaIds : LmaPsb[id] \in Nat
    BY PathsAre, LemmasAre
  <1>7. ASSUME NEW k \in DOMAIN h
        PROVE  /\ items[k].id = h[k] /\ items[k].psb = LmaPsb[h[k]]
               /\ ItemGood(items[k]) /\ Lemmas[items[k].id].spl = p
    <2>1. items[k] = [id |-> h[k], len |-> Len(p), psb |-> LmaPsb[h[k]]]
      BY <1>4
    <2>2. Lemmas[h[k]].spl = p /\ h[k] \in LemmaIds
      BY <1>2, <1>5
    <2> QED
      BY <1>6, <2>1, <2>2 DEF ItemGood, ItemSet
  <1>8. DOMAIN items = DOMAIN h
    BY <1>4
  <1>9. items \in Seq(ItemSet)
    <2>1. \A k \in 1..Len(h) : items[k] \in ItemSet
      BY <1>5, <1>7 DEF ItemGood
    <2>2. items = [k \in 1..Len(h) |-> items[k]]
      BY <1>4, <1>5
    <2> QED
      BY <1>5, <2>1, <2>2
  <1>10. InOrderOf(items, LikelierLater)
    <2>1. ASSUME NEW i \in DOMAIN h, NEW j \in DOMAIN h, i < j PROVE <<items[i], items[j]>> \in LikelierLater
      <3>1. items[i] \in ItemSet /\ items[j] \in ItemSet
        BY <1>7 DEF ItemGood
      <3>2. items[i].psb <= items[j].psb /\ items[i].psb \in Nat /\ items[j].psb \in Nat
        BY <1>2, <1>5, <1>6, <1>7, <2>1
      <3> QED
        BY <3>1, <3>2 DEF LikelierLater
    <2> QED
      BY <1>8, <2>1 DEF InOrderOf
  <1>11. \A id \in LemmaIds : Lemmas[id].spl = p => \E k \in DOMAIN items : items[k].id = id
    BY <1>2, <1>7, <1>8
  <1> QED
    BY <1>3, <1>7, <1>8, <1>9, <1>10, <1>11 DEF ItemsFor

(* The lemmas of nodes that are in order.                                  *)
ItemsOfAll(u, items) ==
  /\ items \in Seq(ItemSet) /\ InOrderOf(items, LikelierLater)
  /\ \A k \in DOMAIN items : ItemGood(items[k]) /\ Stands(items[k], u)
  /\ \A id \in LemmaIds : (\E i \in DOMAIN u : u[i] = Lemmas[id].spl) =>
       \E k \in DOMAIN items : items[k].id = id
LEMMA ItemsOfInOrder ==
  ASSUME NEW n \in Nat, NEW u \in Seq(PathsOf(n)), InOrderOf(u, Earlier(PathsOf(n)))
  PROVE  ItemsOfAll(u, ItemsOf(u))
  <1>1. PICK each : each = [k \in DOMAIN u |-> Items(u[k])]
    OBVIOUS
  <1>2. DOMAIN u = 1..Len(u) /\ Len(u) \in Nat /\ \A k \in DOMAIN u : u[k] \in Paths
    BY DEF PathsOf
  <1>3. DOMAIN each = DOMAIN u /\ \A k \in DOMAIN u : each[k] = Items(u[k]) /\ ItemsFor(u[k], each[k])
    BY <1>1, <1>2, ItemsInOrder
  <1>4. each \in Seq(Seq(ItemSet))
    <2>1. \A k \in 1..Len(u) : each[k] \in Seq(ItemSet)
      BY <1>2, <1>3 DEF ItemsFor
    <2>2. each = [k \in 1..Len(u) |-> each[k]]
      BY <1>1, <1>2
    <2> QED
      BY <1>2, <2>1, <2>2
  <1>5. PICK items : items = FlattenSeq(each)
    OBVIOUS
  <1>6. ItemsOf(u) = items
    BY <1>1, <1>5 DEF ItemsOf
  <1>7. /\ items \in Seq(ItemSet)
        /\ \A i \in DOMAIN items : \E k \in DOMAIN each : \E j \in DOMAIN each[k] : items[i] = each[k][j]
        /\ \A k \in DOMAIN each : \A j \in DOMAIN each[k] : \E i \in DOMAIN items : items[i] = each[k][j]
    BY <1>4, <1>5, FlattenIs
  <1>8. ASSUME NEW h \in DOMAIN each, NEW k \in DOMAIN each, h < k,
               NEW i \in DOMAIN each[h], NEW j \in DOMAIN each[k]
        PROVE  <<each[h][i], each[k][j]>> \in LikelierLater
    <2>1. PICK a, b : a = each[h][i] /\ b = each[k][j]
      OBVIOUS
    <2>2. ItemGood(a) /\ ItemGood(b) /\ Lemmas[a.id].spl = u[h] /\ Lemmas[b.id].spl = u[k]
      BY <1>3, <2>1 DEF ItemsFor
    <2>3. Before(u[h], u[k])
      BY <1>3, <1>8 DEF InOrderOf, Earlier
    <2> QED
      BY <2>1, <2>2, <2>3 DEF LikelierLater, ItemGood
  <1>9. \A k \in DOMAIN each : InOrderOf(each[k], LikelierLater)
    BY <1>3 DEF ItemsFor
  <1>10. InOrderOf(items, LikelierLater)
    BY <1>4, <1>5, <1>8, <1>9, FlattenInOrder
  <1>11. ASSUME NEW x \in DOMAIN items PROVE ItemGood(items[x]) /\ Stands(items[x], u)
    <2>1. PICK k \in DOMAIN each : \E j \in DOMAIN each[k] : items[x] = each[k][j]
      BY <1>7
    <2>2. PICK j \in DOMAIN each[k] : items[x] = each[k][j]
      BY <2>1
    <2>3. ItemGood(items[x]) /\ Lemmas[items[x].id].spl = u[k]
      BY <1>3, <2>2 DEF ItemsFor
    <2> QED
      BY <1>3, <2>3 DEF Stands
  <1>12. ASSUME NEW id \in LemmaIds, NEW i \in DOMAIN u, u[i] = Lemmas[id].spl
         PROVE  \E k \in DOMAIN items : items[k].id = id
    <2>1. PICK j \in DOMAIN each[i] : each[i][j].id = id
      BY <1>3, <1>12 DEF ItemsFor
    <2>2. PICK k \in DOMAIN items : items[k] = each[i][j]
      BY <1>3, <1>7
    <2> QED
      BY <2>1, <2>2
  <1> QED
    BY <1>6, <1>7, <1>10, <1>11, <1>12 DEF ItemsOfAll

(* A lemma is for the spellings when its ids are what they stand for; of a *)
(* single Yunmu letter only its own spelling counts.                       *)
IsForAll(splids, id) ==
  LET spl == Lemmas[id].spl
  IN  /\ Len(spl) = Len(splids) /\ Among(spl, splids, Len(splids))
      /\ Len(splids) = 1 /\ IsHalfIdYunmu(splids[1]) => spl[1] = IdStart(splids[1])
LpisAre(splids, items) ==
  /\ items \in Seq(ItemSet) /\ InOrderOf(items, LikelierLater)
  /\ \A k \in DOMAIN items : ItemGood(items[k]) /\ IsForAll(splids, items[k].id)
  /\ \A id \in LemmaIds : IsForAll(splids, id) => \E k \in DOMAIN items : items[k].id = id
LEMMA FirstNodeIs ==
  ASSUME NEW splids \in Seq(Ids), Len(splids) = 1, NEW u, NodesGood(u, splids, 1)
  PROVE  u # <<>> /\ u[1] = <<IdStart(splids[1])>>
  <1>1. PICK id \in Ids : id = splids[1]
    OBVIOUS
  <1>2. PICK f \in FullIds : f = IdStart(id) /\ f \in IdRange(id) /\ \A g \in IdRange(id) : f <= g
    BY IdsStandFor
  <1>3. f \in Nat
    BY IdsAre DEF Ids
  <1>4. <<f>> \in PathsOf(1) /\ Among(<<f>>, splids, 1)
    <2>1. <<f>> \in Paths /\ Len(<<f>>) = 1 /\ <<f>>[1] = f
      BY SpellingAssumption
    <2> QED
      BY <1>1, <1>2, <2>1 DEF PathsOf, Among
  <1>5. PICK P : P = PathsOf(1)
    OBVIOUS
  <1>6. u \in Seq(P) /\ InOrderOf(u, Earlier(P)) /\ \A i \in DOMAIN u : Among(u[i], splids, 1)
    BY <1>5 DEF NodesGood
  <1>7. PICK i \in DOMAIN u : u[i] = <<f>>
    BY <1>4 DEF NodesGood
  <1>8. 1 \in DOMAIN u /\ DOMAIN u \subseteq Nat \ {0}
    BY <1>6
  <1>9. ~(1 < i)
    <2>1. SUFFICES ASSUME 1 < i PROVE FALSE
      OBVIOUS
    <2>2. PICK p : p = u[1]
      OBVIOUS
    <2>3. Before(p, <<f>>)
      BY <1>6, <1>7, <1>8, <2>1, <2>2 DEF InOrderOf, Earlier
    <2>4. p \in P /\ p[1] \in IdRange(id)
      BY <1>1, <1>6, <1>8, <2>2 DEF Among
    <2>5. Len(p) = 1
      BY <1>5, <2>4 DEF PathsOf
    <2>6. p[1] < f
      BY <2>3, <2>5 DEF Before
    <2>7. IdRange(id) \subseteq Int
      BY IdsStandFor
    <2> QED
      BY <1>2, <1>3, <2>4, <2>6, <2>7
  <1>10. i = 1
    BY <1>8, <1>9
  <1> QED
    BY <1>1, <1>2, <1>7, <1>10

LEMMA DictLpisAre ==
  ASSUME NEW splids \in Seq(Ids), splids # <<>>
  PROVE  LpisAre(splids, DictLpis(splids))
  <1>1. PICK n \in Nat \ {0} : n = Len(splids)
    OBVIOUS
  <1>2. PICK v : v = NodesFor(splids)
    OBVIOUS
  <1>3. NodesGood(v, splids, n)
    BY <1>1, <1>2, NodesForIs
  <1>4. PICK P : P = PathsOf(n)
    OBVIOUS
  <1>5. /\ v \in Seq(P) /\ InOrderOf(v, Earlier(P))
        /\ \A i \in DOMAIN v : Among(v[i], splids, n)
        /\ \A p \in P : Among(p, splids, n) => \E i \in DOMAIN v : v[i] = p
    BY <1>3, <1>4 DEF NodesGood
  <1>6. \A id \in LemmaIds : Len(Lemmas[id].spl) = n => Lemmas[id].spl \in P
    <2> SUFFICES ASSUME NEW id \in LemmaIds, Len(Lemmas[id].spl) = n PROVE Lemmas[id].spl \in P
      OBVIOUS
    <2>1. PICK s : s = Lemmas[id].spl
      OBVIOUS
    <2>2. s \in Seq(FullIds) /\ Len(s) = n
      BY <2>1, LemmasAre
    <2>3. SubSeq(s, 1, n) = s /\ n \in 0..Len(s)
      BY <2>2
    <2>4. s \in Paths
      BY <2>1, <2>3 DEF Paths
    <2> QED
      BY <1>4, <2>1, <2>2, <2>4 DEF PathsOf
  <1>7. CASE n = 1 /\ IsHalfIdYunmu(splids[1])
    <2>1. v # <<>> /\ v[1] = <<IdStart(splids[1])>>
      BY <1>1, <1>3, <1>7, FirstNodeIs
    <2>2. PICK u : u = AtMost(v, 1)
      OBVIOUS
    <2>3. u \in Seq(P) /\ DOMAIN u = {1} /\ u[1] = v[1]
      <3>0. PICK one \in Nat : one = 1
        OBVIOUS
      <3>1. /\ u \in Seq(P) /\ Len(u) = (IF Len(v) < one THEN Len(v) ELSE one)
            /\ \A k \in DOMAIN u : u[k] = v[k]
        <4>1. v \in Seq(P) /\ u = AtMost(v, one)
          BY <1>5, <2>2, <3>0
        <4> QED
          BY ONLY <4>1, one \in Nat, AtMostIs
      <3>2. Len(u) = 1
        BY <1>5, <2>1, <3>0, <3>1
      <3> QED
        BY <3>1, <3>2
    <2>4. InOrderOf(u, Earlier(P))
      BY <2>3 DEF InOrderOf
    <2>5. PICK items : items = ItemsOf(u)
      OBVIOUS
    <2>6. ItemsOfAll(u, items)
      BY <1>4, <2>3, <2>4, <2>5, ItemsOfInOrder
    <2>7. DictLpis(splids) = items
      BY <1>1, <1>2, <1>7, <2>2, <2>5 DEF DictLpis
    <2>8. ASSUME NEW k \in DOMAIN items PROVE IsForAll(splids, items[k].id)
      <3>1. Lemmas[items[k].id].spl = v[1]
        BY <2>3, <2>6 DEF ItemsOfAll, Stands
      <3>2. 1 \in DOMAIN v
        BY <1>5, <2>1
      <3>3. Among(v[1], splids, n)
        BY <1>5, <3>2
      <3>4. Len(v[1]) = 1 /\ v[1][1] = IdStart(splids[1])
        BY <2>1
      <3> QED
        BY <1>1, <1>7, <3>1, <3>3, <3>4 DEF IsForAll
    <2>9. ASSUME NEW id \in LemmaIds, IsForAll(splids, id) PROVE \E k \in DOMAIN items : items[k].id = id
      <3>1. PICK s : s = Lemmas[id].spl
        OBVIOUS
      <3>2. s \in Seq(FullIds) /\ Len(s) = 1 /\ s[1] = IdStart(splids[1])
        BY <1>1, <1>7, <2>9, <3>1, LemmasAre DEF IsForAll
      <3>3. s = <<IdStart(splids[1])>>
        BY <3>2
      <3> QED
        BY <2>1, <2>3, <2>6, <3>1, <3>3 DEF ItemsOfAll
    <2> QED
      BY <2>6, <2>7, <2>8, <2>9 DEF LpisAre, ItemsOfAll
  <1>8. CASE ~(n = 1 /\ IsHalfIdYunmu(splids[1]))
    <2>5. PICK items : items = ItemsOf(v)
      OBVIOUS
    <2>6. ItemsOfAll(v, items)
      BY <1>4, <1>5, <2>5, ItemsOfInOrder
    <2>7. DictLpis(splids) = items
      BY <1>1, <1>2, <1>8, <2>5 DEF DictLpis
    <2>8. ASSUME NEW k \in DOMAIN items PROVE IsForAll(splids, items[k].id)
      <3>1. PICK i \in DOMAIN v : v[i] = Lemmas[items[k].id].spl
        BY <2>6 DEF ItemsOfAll, Stands
      <3>2. v[i] \in P
        BY <1>5
      <3> QED
        BY <1>1, <1>4, <1>5, <1>8, <3>1, <3>2 DEF IsForAll, PathsOf
    <2>9. ASSUME NEW id \in LemmaIds, IsForAll(splids, id) PROVE \E k \in DOMAIN items : items[k].id = id
      <3>1. Lemmas[id].spl \in P /\ Among(Lemmas[id].spl, splids, n)
        BY <1>1, <1>6, <2>9 DEF IsForAll
      <3> QED
        BY <1>5, <2>6, <3>1 DEF ItemsOfAll
    <2> QED
      BY <2>6, <2>7, <2>8, <2>9 DEF LpisAre, ItemsOfAll
  <1> QED
    BY <1>7, <1>8

(***************************************************************************)
(* The lemmas for some spellings, each word once.                          *)
(***************************************************************************)
(* Only the lemma with the last id has no word.                            *)
LEMMA WordsAre ==
  /\ LemmaIds = 1..LemmaNum /\ LemmaNum \in Nat
  /\ \A id \in LemmaIds :
       /\ LemmaStr[id] \in Seq(Nat) /\ Lemmas[id].word \in Seq(Nat)
       /\ id = LemmaNum => LemmaStr[id] = <<>>
       /\ id # LemmaNum => LemmaStr[id] = Lemmas[id].word /\ LemmaStr[id] # <<>>
       /\ Len(Lemmas[id].spl) = Len(Lemmas[id].word) /\ Len(Lemmas[id].spl) \in 1..kMaxLemmaSize
  <1>1. LemmaIds = 1..LemmaNum /\ LemmaNum \in Nat
    BY LemmasAre DEF LemmaNum
  <1>2. StartId[kMaxLemmaSize + 1] = LemmaNum
    BY DEF StartId, kMaxLemmaSize
  <1>3. PICK L : L = [word : Seq(Nat), spl : Seq(FullIds), freq : Nat]
    OBVIOUS
  <1>4. Lemmas \in Seq(L) /\ DOMAIN Lemmas = LemmaIds /\ DOMAIN Lemmas = 1..Len(Lemmas)
    BY <1>3, LemmasAssumption, LemmasAre DEF LemmaIds
  <1>5. ASSUME NEW id \in LemmaIds
        PROVE  /\ LemmaStr[id] \in Seq(Nat) /\ Lemmas[id].word \in Seq(Nat)
               /\ id = LemmaNum => LemmaStr[id] = <<>>
               /\ id # LemmaNum => LemmaStr[id] = Lemmas[id].word /\ LemmaStr[id] # <<>>
               /\ Len(Lemmas[id].spl) = Len(Lemmas[id].word) /\ Len(Lemmas[id].spl) \in 1..kMaxLemmaSize
    <2>1. PICK w : w = Lemmas[id].word
      OBVIOUS
    <2>2. Lemmas[id] \in L
      BY <1>4, ElementOfSeq
    <2>3. w \in Seq(Nat)
      BY <1>3, <2>1, <2>2
    <2>4. Len(Lemmas[id].spl) = Len(w) /\ Len(w) \in 1..kMaxLemmaSize
      BY <1>4, <2>1, LemmasAssumption
    <2>5. w # <<>>
      <3>1. Len(w) \in 1..8
        BY <2>4 DEF kMaxLemmaSize
      <3>2. Len(w) # 0
        BY ONLY <3>1
      <3>3. Len(<<>>) = 0
        OBVIOUS
      <3> QED
        BY ONLY <3>2, <3>3
    <2>6. id \in 0..LemmaNum /\ id # 0 /\ id \in Nat
      BY <1>1
    <2>7. LemmaStr[id] = IF id < LemmaNum THEN w ELSE <<>>
      BY <1>2, <2>1, <2>6 DEF LemmaStr
    <2>8. id < LemmaNum <=> id # LemmaNum
      BY <1>1
    <2>9. <<>> \in Seq(Nat)
      OBVIOUS
    <2> QED
      BY <2>1, <2>3, <2>4, <2>5, <2>7, <2>8, <2>9
  <1> QED
    BY <1>1, <1>5

(* Words are in an order, as strcmp() has it.                              *)
WordBefore(x, y) == Before(LemmaStr[x.id], LemmaStr[y.id])
SameWord(x, y) == LemmaStr[x.id] = LemmaStr[y.id]
LEMMA WordOrder ==
  ASSUME NEW x \in ItemSet, NEW y \in ItemSet
  PROVE  /\ SameWord(x, y) => ~WordBefore(x, y)
         /\ WordBefore(x, y) => ~WordBefore(y, x)
         /\ SameWord(x, y) \/ WordBefore(x, y) \/ WordBefore(y, x)
         /\ SameWord(x, y) <=> SameWord(y, x)
         /\ \A z \in ItemSet :
              /\ WordBefore(x, y) /\ WordBefore(y, z) => WordBefore(x, z)
              /\ SameWord(x, y) => (WordBefore(x, z) <=> WordBefore(y, z)) /\ (WordBefore(z, x) <=> WordBefore(z, y))
              /\ SameWord(x, y) /\ SameWord(y, z) => SameWord(x, z)
  <1>1. \A z \in ItemSet : LemmaStr[z.id] \in Seq(Nat)
    BY WordsAre DEF ItemSet
  <1>2. PICK s \in Seq(Nat), t \in Seq(Nat) : s = LemmaStr[x.id] /\ t = LemmaStr[y.id]
    BY <1>1
  <1>3. ~Before(s, s) /\ ~Before(t, t)
    BY NeverBeforeItself
  <1>4. ~(Before(s, t) /\ Before(t, s))
    BY <1>3, BeforeOn
  <1>5. s = t \/ Before(s, t) \/ Before(t, s)
    BY BeforeOrAfter
  <1>6. ASSUME NEW z \in ItemSet, WordBefore(x, y), WordBefore(y, z) PROVE WordBefore(x, z)
    <2>1. PICK u \in Seq(Nat) : u = LemmaStr[z.id]
      BY <1>1
    <2>2. Before(s, t) /\ Before(t, u)
      BY <1>2, <1>6, <2>1 DEF WordBefore
    <2> QED
      BY <1>2, <2>1, <2>2, BeforeOn DEF WordBefore
  <1> QED
    BY <1>2, <1>3, <1>4, <1>5, <1>6 DEF WordBefore, SameWord

(* Sorted by words, those of the same word as they were.                   *)
SortedByWord(items, r) ==
  /\ r \in Seq(ItemSet)
  /\ \A k \in DOMAIN r : \E i \in DOMAIN items : r[k] = items[i]
  /\ \A i \in DOMAIN items : \E k \in DOMAIN r : r[k] = items[i]
  /\ \A j, k \in DOMAIN r : j < k =>
       ~WordBefore(r[k], r[j]) /\ (SameWord(r[j], r[k]) => <<r[j], r[k]>> \in LikelierLater)
LEMMA ByWordIs ==
  ASSUME NEW items \in Seq(ItemSet), InOrderOf(items, LikelierLater)
  PROVE  SortedByWord(items, ByWord(items))
  <1>1. PICK n \in Nat : n = Len(items)
    OBVIOUS
  <1>2. DOMAIN items = 1..n /\ \A i \in 1..n : items[i] \in ItemSet
    BY <1>1
  <1>3. PICK lt : lt = {p \in (DOMAIN items) \X (DOMAIN items) :
                          Before(LemmaStr[items[p[1]].id], LemmaStr[items[p[2]].id])}
    OBVIOUS
  <1>4. ASSUME NEW x \in DOMAIN items, NEW y \in DOMAIN items
        PROVE  <<x, y>> \in lt <=> WordBefore(items[x], items[y])
    BY <1>3 DEF WordBefore
  <1>5. Orders(PlacesBy(items, lt), DOMAIN items)
    <2>1. \A x, y \in DOMAIN items : <<x, y>> \in lt => <<y, x>> \notin lt
      BY <1>2, <1>4, WordOrder
    <2>2. ASSUME NEW x \in DOMAIN items, NEW y \in DOMAIN items, NEW z \in DOMAIN items,
                 <<y, x>> \notin lt, <<z, y>> \notin lt
          PROVE  <<z, x>> \notin lt
      <3>1. PICK a \in ItemSet, b \in ItemSet, c \in ItemSet : a = items[x] /\ b = items[y] /\ c = items[z]
        BY <1>2
      <3>2. ~WordBefore(b, a) /\ ~WordBefore(c, b)
        BY <1>4, <2>2, <3>1
      <3>3. SUFFICES ASSUME WordBefore(c, a) PROVE FALSE
        BY <1>4, <3>1
      <3>4. SameWord(a, b) \/ WordBefore(a, b)
        BY <3>2, WordOrder
      <3>5. CASE SameWord(a, b)
        BY <3>2, <3>3, <3>5, WordOrder
      <3>6. CASE WordBefore(a, b)
        BY <3>2, <3>3, <3>6, WordOrder
      <3> QED
        BY <3>4, <3>5, <3>6
    <2> QED
      BY <1>2, <2>1, <2>2, WeakOrders
  <1>6. PICK o : /\ Sorted(items, lt) = [k \in 1..n |-> items[o[k]]]
                 /\ \A k \in 1..n : o[k] \in 1..n
                 /\ \A i \in 1..n : \E k \in 1..n : o[k] = i
                 /\ \A j, k \in 1..n : j < k => o[j] # o[k] /\ <<o[j], o[k]>> \in PlacesBy(items, lt)
    <2>1. \E o : SortsBy(items, lt, n, o)
      BY ONLY <1>1, <1>5, items \in Seq(ItemSet), SortedBy
    <2>2. PICK o : SortsBy(items, lt, n, o)
      BY ONLY <2>1
    <2> QED
      BY ONLY <2>2 DEF SortsBy
  <1>7. PICK r : r = ByWord(items)
    OBVIOUS
  <1>8. r = [k \in 1..n |-> items[o[k]]]
    BY <1>3, <1>6, <1>7 DEF ByWord
  <1>9. r \in Seq(ItemSet) /\ DOMAIN r = 1..n
    BY <1>2, <1>6, <1>8
  <1>10. ASSUME NEW j \in 1..n, NEW k \in 1..n, j < k
         PROVE  ~WordBefore(r[k], r[j]) /\ (SameWord(r[j], r[k]) => <<r[j], r[k]>> \in LikelierLater)
    <2>1. PICK x \in 1..n, y \in 1..n : x = o[j] /\ y = o[k]
      BY <1>6
    <2>2. <<x, y>> \in PlacesBy(items, lt)
      BY <1>6, <1>10, <2>1
    <2>3. <<x, y>> \in lt \/ (<<y, x>> \notin lt /\ x < y)
      BY <2>2 DEF PlacesBy
    <2>4. r[j] = items[x] /\ r[k] = items[y] /\ items[x] \in ItemSet /\ items[y] \in ItemSet
      BY <1>2, <1>8, <2>1
    <2>5. CASE <<x, y>> \in lt
      <3>1. WordBefore(items[x], items[y])
        BY <1>2, <1>4, <2>5
      <3> QED
        BY <2>4, <3>1, WordOrder
    <2>6. CASE <<y, x>> \notin lt /\ x < y
      <3>1. ~WordBefore(items[y], items[x])
        BY <1>2, <1>4, <2>6
      <3>2. <<items[x], items[y]>> \in LikelierLater
        BY <1>2, <2>6 DEF InOrderOf
      <3> QED
        BY <2>4, <3>1, <3>2
    <2> QED
      BY <2>3, <2>5, <2>6
  <1>11. \A i \in 1..n : \E k \in 1..n : r[k] = items[i]
    BY <1>6, <1>8
  <1>12. \A k \in 1..n : \E i \in 1..n : r[k] = items[i]
    BY <1>6, <1>8
  <1> QED
    BY <1>2, <1>7, <1>9, <1>10, <1>11, <1>12 DEF SortedByWord

(* How Remaining() goes through the items.                                 *)
KeptBy(f, items, sent, n) ==
  /\ f[0] = <<>>
  /\ \A k \in 1..n : f[k] = KeepItem(f[k - 1], items, k, sent)
  /\ Remaining(items, sent) = f[n]
LEMMA RemainingLoop ==
  ASSUME NEW items, NEW sent, NEW n \in Nat, n = Len(items)
  PROVE  \E f : KeptBy(f, items, sent, n)
  <1> DEFINE Then(v, k) == KeepItem(v, items, k, sent)
             Goes(top, f) == f = [k \in 0..top |-> IF k = 0 THEN <<>> ELSE Then(f[k - 1], k)]
             S == {top \in Nat : \E f : Goes(top, f)}
  <1>1. Remaining(items, sent) = (CHOOSE f : Goes(n, f))[n]
    BY DEF Remaining
  <1> HIDE DEF Then
  <1>2. 0 \in S
    <2>1. Goes(0, [k \in 0..0 |-> <<>>])
      OBVIOUS
    <2> HIDE DEF Goes
    <2> QED
      BY <2>1
  <1>3. ASSUME NEW e \in Nat, e \in S PROVE e + 1 \in S
    <2>1. PICK f : Goes(e, f)
      BY <1>3
    <2> DEFINE g == [k \in 0..(e + 1) |-> IF k = e + 1 THEN Then(f[e], e + 1) ELSE f[k]]
    <2>2. ASSUME NEW k \in 0..(e + 1)
          PROVE  g[k] = IF k = 0 THEN <<>> ELSE Then(g[k - 1], k)
      <3>1. CASE k = e + 1
        BY <2>1, <3>1
      <3>2. CASE k \in 0..e
        <4>0. k # e + 1 /\ k \in 0..(e + 1)
          BY <3>2
        <4>1. g[k] = f[k]
          BY <4>0
        <4>3. f[k] = IF k = 0 THEN <<>> ELSE Then(f[k - 1], k)
          <5> HIDE DEF g
          <5> QED
            BY <2>1, <3>2
        <4>2. k # 0 => g[k - 1] = f[k - 1]
          BY <3>2
        <4> HIDE DEF g
        <4> QED
          BY <4>1, <4>2, <4>3
      <3> QED
        BY <3>1, <3>2
    <2>3. Goes(e + 1, g)
      BY <2>2
    <2> HIDE DEF g, Goes
    <2> QED
      BY <2>3
  <1>4. \E f : Goes(n, f)
    <2>1. n \in S
      <3> HIDE DEF S
      <3> QED
        BY <1>2, <1>3, Induction
    <2> HIDE DEF Goes
    <2> QED
      BY <2>1
  <1>5. Goes(n, CHOOSE f : Goes(n, f))
    <2> HIDE DEF Goes
    <2> QED
      BY <1>4
  <1> DEFINE f == CHOOSE f : Goes(n, f)
  <1>6. f = [k \in 0..n |-> IF k = 0 THEN <<>> ELSE Then(f[k - 1], k)]
    BY <1>5
  <1> HIDE DEF f
  <1>8. f[0] = <<>> /\ \A k \in 1..n : f[k] = Then(f[k - 1], k)
    <2>1. 0 \in 0..n
      OBVIOUS
    <2>2. ASSUME NEW k \in 1..n PROVE k \in 0..n /\ k # 0
      OBVIOUS
    <2> QED
      BY <1>6, <2>1, <2>2
  <1> QED
    BY <1>1, <1>8 DEF f, Then, KeptBy

(* A sentence is there twice, the later and likelier one to take the place *)
(* of another word.                                                        *)
Twice(items, sent) ==
  \E i, j \in DOMAIN items :
    /\ LemmaStr[items[i].id] = sent /\ LemmaStr[items[j].id] = sent
    /\ items[j].psb < items[i].psb /\ items[j].len # 1 /\ i < j
(* Of the first k items, sorted by words: each word once, but the          *)
(* sentence's.                                                             *)
KeptOf(items, sent, k, kept) ==
  /\ kept \in Seq(ItemSet)
  /\ \A x \in DOMAIN kept : \E i \in 1..k : kept[x] = items[i]
  /\ \A x, y \in DOMAIN kept : x < y => WordBefore(kept[x], kept[y])
  /\ ~Twice(items, sent) =>
       /\ \A x \in DOMAIN kept : LemmaStr[kept[x].id] # sent
       /\ \A i \in 1..k : LemmaStr[items[i].id] # sent =>
            \E x \in DOMAIN kept : SameWord(kept[x], items[i])

LEMMA KeepItemIs ==
  ASSUME NEW items \in Seq(ItemSet), NEW sent, NEW k \in 1..Len(items),
         \A i, j \in DOMAIN items : i < j => ~WordBefore(items[j], items[i]),
         NEW kept, KeptOf(items, sent, k - 1, kept)
  PROVE  KeptOf(items, sent, k, KeepItem(kept, items, k, sent))
  <1>1. PICK n \in Nat : n = Len(items)
    OBVIOUS
  <1>2. DOMAIN items = 1..n /\ k \in 1..n /\ \A i \in 1..n : items[i] \in ItemSet
    BY <1>1
  <1>3. PICK item \in ItemSet : item = items[k]
    BY <1>2
  <1>4. kept \in Seq(ItemSet)
    BY DEF KeptOf
  <1>5. PICK l \in Nat : l = Len(kept)
    BY <1>4
  <1>6. DOMAIN kept = 1..l /\ \A x \in 1..l : kept[x] \in ItemSet
    BY <1>4, <1>5
  <1>7. /\ \A x \in 1..l : \E i \in 1..(k - 1) : kept[x] = items[i]
        /\ \A x, y \in 1..l : x < y => WordBefore(kept[x], kept[y])
        /\ ~Twice(items, sent) =>
             /\ \A x \in 1..l : LemmaStr[kept[x].id] # sent
             /\ \A i \in 1..(k - 1) : LemmaStr[items[i].id] # sent =>
                  \E x \in 1..l : SameWord(kept[x], items[i])
    BY <1>6 DEF KeptOf
  <1>8. \A i \in 1..(k - 1) : i \in 1..k /\ i \in 1..n /\ i < k /\ items[i] \in ItemSet
    BY <1>2
  <1>9. \A x \in 1..l : ~WordBefore(item, kept[x])
    BY <1>2, <1>3, <1>7, <1>8
  <1>10. PICK r : r = KeepItem(kept, items, k, sent)
    OBVIOUS
  <1>11. \A i \in 1..k : i \in 1..(k - 1) \/ i = k
    BY <1>2
  <1>12. CASE k > 1 /\ LemmaStr[items[k].id] = LemmaStr[items[k - 1].id]
    <2>1. PICK before \in ItemSet : before = items[k - 1]
      BY <1>2, <1>12
    <2>2. SameWord(item, before)
      BY <1>3, <1>12, <2>1 DEF SameWord
    <2>3. k - 1 \in 1..(k - 1)
      BY <1>2, <1>12
    <2>4. CASE items[k].psb < items[k - 1].psb /\ ~(items[k].len = 1 /\ LemmaStr[items[k].id] = sent)
      <3>1. r = [kept EXCEPT ![Len(kept)] = items[k]]
        BY <1>10, <1>12, <2>4 DEF KeepItem
      <3>2. r = [kept EXCEPT ![l] = item]
        BY <1>3, <1>5, <3>1
      <3>3. r \in Seq(ItemSet) /\ DOMAIN r = 1..l /\ \A x \in 1..l : r[x] = IF x = l THEN item ELSE kept[x]
        BY <1>4, <1>6, <3>2, ExceptIs
      <3>4. \A x \in 1..l : \E i \in 1..k : r[x] = items[i]
        BY <1>2, <1>3, <1>7, <1>8, <3>3
      <3>5. ASSUME NEW x \in 1..l, NEW y \in 1..l, x < y PROVE WordBefore(r[x], r[y])
        <4>1. x # l /\ r[x] = kept[x] /\ kept[x] \in ItemSet
          BY <1>6, <3>3, <3>5
        <4>2. CASE y # l
          BY <1>7, <3>3, <3>5, <4>1, <4>2
        <4>3. CASE y = l
          <5>1. r[y] = item /\ kept[y] \in ItemSet
            BY <1>6, <3>3, <4>3
          <5>2. WordBefore(kept[x], kept[y]) /\ ~WordBefore(item, kept[y])
            BY <1>7, <1>9, <3>5
          <5>3. SameWord(item, kept[y]) \/ WordBefore(kept[y], item)
            BY <5>1, <5>2, WordOrder
          <5>4. WordBefore(kept[x], item)
            BY <4>1, <5>1, <5>2, <5>3, WordOrder
          <5> QED
            BY <4>1, <5>1, <5>4
        <4> QED
          BY <4>2, <4>3
      <3>6. ASSUME ~Twice(items, sent)
            PROVE  /\ \A x \in 1..l : LemmaStr[r[x].id] # sent
                   /\ \A i \in 1..k : LemmaStr[items[i].id] # sent => \E x \in 1..l : SameWord(r[x], items[i])
        <4>1. LemmaStr[item.id] # sent
          <5>1. SUFFICES ASSUME LemmaStr[item.id] = sent PROVE FALSE
            OBVIOUS
          <5>2. /\ k - 1 \in DOMAIN items /\ k \in DOMAIN items /\ k - 1 < k
                /\ LemmaStr[items[k].id] = sent /\ LemmaStr[items[k - 1].id] = sent
                /\ items[k].psb < items[k - 1].psb /\ items[k].len # 1
            BY <1>2, <1>3, <1>12, <2>4, <5>1
          <5> QED
            BY <3>6, <5>2 DEF Twice
        <4>2. LemmaStr[before.id] # sent
          BY <2>2, <4>1 DEF SameWord
        <4>3. PICK z \in 1..l : SameWord(kept[z], before)
          BY <1>7, <2>1, <2>3, <3>6, <4>2
        <4>4. z = l
          <5>1. SUFFICES ASSUME z # l PROVE FALSE
            OBVIOUS
          <5>2. l \in 1..l /\ z < l
            BY <5>1
          <5>3. WordBefore(kept[z], kept[l]) /\ ~WordBefore(item, kept[l])
            BY <1>7, <1>9, <5>2
          <5>4. kept[z] \in ItemSet /\ kept[l] \in ItemSet
            BY <1>6, <5>2
          <5>5. SameWord(kept[z], item)
            BY <2>2, <4>3, <5>4, WordOrder
          <5>6. WordBefore(item, kept[l])
            BY <5>3, <5>4, <5>5, WordOrder
          <5> QED
            BY <5>3, <5>6
        <4>5. SameWord(item, kept[l]) /\ l \in 1..l /\ kept[l] \in ItemSet
          BY <1>6, <2>2, <4>3, <4>4, WordOrder
        <4>6. \A x \in 1..l : LemmaStr[r[x].id] # sent
          BY <1>7, <3>3, <3>6, <4>1
        <4>7. ASSUME NEW i \in 1..k, LemmaStr[items[i].id] # sent PROVE \E x \in 1..l : SameWord(r[x], items[i])
          <5>1. CASE i = k
            <6>1. SameWord(item, item)
              BY DEF SameWord
            <6> QED
              BY <1>3, <3>3, <4>5, <5>1, <6>1
          <5>2. CASE i \in 1..(k - 1)
            <6>1. PICK x \in 1..l : SameWord(kept[x], items[i])
              BY <1>7, <3>6, <4>7, <5>2
            <6>2. CASE x = l
              <7>1. SameWord(item, items[i])
                BY <1>6, <1>8, <4>5, <5>2, <6>1, <6>2, WordOrder
              <7> QED
                BY <3>3, <4>5, <7>1
            <6>3. CASE x # l
              BY <3>3, <6>1, <6>3
            <6> QED
              BY <6>2, <6>3
          <5> QED
            BY <1>11, <5>1, <5>2
        <4> QED
          BY <4>6, <4>7
      <3> QED
        BY <1>10, <3>3, <3>4, <3>5, <3>6 DEF KeptOf
    <2>5. CASE ~(items[k].psb < items[k - 1].psb /\ ~(items[k].len = 1 /\ LemmaStr[items[k].id] = sent))
      <3>1. r = kept
        BY <1>10, <1>12, <2>5 DEF KeepItem
      <3>2. \A x \in 1..l : \E i \in 1..k : kept[x] = items[i]
        BY <1>7, <1>8
      <3>3. ASSUME ~Twice(items, sent), NEW i \in 1..k, LemmaStr[items[i].id] # sent
            PROVE  \E x \in 1..l : SameWord(kept[x], items[i])
        <4>1. CASE i = k
          <5>1. LemmaStr[before.id] # sent
            BY <1>3, <2>2, <3>3, <4>1 DEF SameWord
          <5>2. PICK z \in 1..l : SameWord(kept[z], before)
            BY <1>7, <2>1, <2>3, <3>3, <5>1
          <5>3. SameWord(kept[z], item)
            BY <1>6, <2>2, <5>2, WordOrder
          <5> QED
            BY <1>3, <4>1, <5>3
        <4>2. CASE i \in 1..(k - 1)
          BY <1>7, <3>3, <4>2
        <4> QED
          BY <1>11, <4>1, <4>2
      <3>4. KeptOf(items, sent, k, kept)
        <4>1. \A x \in DOMAIN kept : \E i \in 1..k : kept[x] = items[i]
          BY <1>6, <3>2
        <4>2. \A x, y \in DOMAIN kept : x < y => WordBefore(kept[x], kept[y])
          BY <1>6, <1>7
        <4>3. ASSUME ~Twice(items, sent)
              PROVE  /\ \A x \in DOMAIN kept : LemmaStr[kept[x].id] # sent
                     /\ \A i \in 1..k : LemmaStr[items[i].id] # sent =>
                          \E x \in DOMAIN kept : SameWord(kept[x], items[i])
          BY <1>6, <1>7, <3>3, <4>3
        <4> QED
          BY <1>4, <4>1, <4>2, <4>3 DEF KeptOf
      <3> QED
        BY <1>10, <3>1, <3>4
    <2> QED
      BY <2>4, <2>5
  <1>13. CASE /\ k > 1 => LemmaStr[items[k].id] # LemmaStr[items[k - 1].id]
              /\ LemmaStr[items[k].id] = sent
    <2>1. r = kept
      BY <1>10, <1>13 DEF KeepItem
    <2>2. \A x \in 1..l : \E i \in 1..k : kept[x] = items[i]
      BY <1>7, <1>8
    <2>3. ASSUME ~Twice(items, sent), NEW i \in 1..k, LemmaStr[items[i].id] # sent
          PROVE  \E x \in 1..l : SameWord(kept[x], items[i])
      <3>1. i \in 1..(k - 1)
        BY <1>11, <1>13, <2>3
      <3> QED
        BY <1>7, <2>3, <3>1
    <2>4. KeptOf(items, sent, k, kept)
      <3>1. \A x \in DOMAIN kept : \E i \in 1..k : kept[x] = items[i]
        BY <1>6, <2>2
      <3>2. \A x, y \in DOMAIN kept : x < y => WordBefore(kept[x], kept[y])
        BY <1>6, <1>7
      <3>3. ASSUME ~Twice(items, sent)
            PROVE  /\ \A x \in DOMAIN kept : LemmaStr[kept[x].id] # sent
                   /\ \A i \in 1..k : LemmaStr[items[i].id] # sent =>
                        \E x \in DOMAIN kept : SameWord(kept[x], items[i])
        BY <1>6, <1>7, <2>3, <3>3
      <3> QED
        BY <1>4, <3>1, <3>2, <3>3 DEF KeptOf
    <2> QED
      BY <1>10, <2>1, <2>4
  <1>14. CASE /\ k > 1 => LemmaStr[items[k].id] # LemmaStr[items[k - 1].id]
              /\ LemmaStr[items[k].id] # sent
    <2>1. r = Append(kept, item)
      BY <1>3, <1>10, <1>14 DEF KeepItem
    <2>2. /\ r \in Seq(ItemSet) /\ DOMAIN r = 1..(l + 1) /\ r[l + 1] = item
          /\ \A x \in 1..l : r[x] = kept[x]
      BY <1>4, <1>5, <2>1
    <2>3. \A x \in 1..(l + 1) : x \in 1..l \/ x = l + 1
      OBVIOUS
    <2>4. \A x \in 1..(l + 1) : \E i \in 1..k : r[x] = items[i]
      BY <1>2, <1>3, <1>7, <1>8, <2>2, <2>3
    <2>5. ASSUME NEW x \in 1..l PROVE WordBefore(kept[x], item)
      <3>1. PICK i \in 1..(k - 1) : kept[x] = items[i]
        BY <1>7
      <3>2. k > 1 /\ k - 1 \in 1..n
        BY <1>2, <3>1
      <3>3. PICK before \in ItemSet : before = items[k - 1]
        BY <1>2, <3>2
      <3>4. ~SameWord(item, before)
        BY <1>3, <1>14, <3>2, <3>3 DEF SameWord
      <3>5. k - 1 \in DOMAIN items /\ k \in DOMAIN items /\ k - 1 < k
        BY <1>2, <3>2
      <3>6. ~WordBefore(item, before)
        BY <1>3, <3>3, <3>5
      <3>7. WordBefore(before, item)
        BY <3>4, <3>6, WordOrder
      <3>8. kept[x] \in ItemSet
        BY <1>6
      <3>9. CASE i = k - 1
        BY <3>1, <3>3, <3>7, <3>9
      <3>10. CASE i # k - 1
        <4>1. i < k - 1 /\ i \in DOMAIN items
          BY <1>2, <1>8, <3>10
        <4>2. ~WordBefore(before, kept[x])
          BY <3>1, <3>3, <3>5, <4>1
        <4>3. SameWord(before, kept[x]) \/ WordBefore(kept[x], before)
          BY <3>8, <4>2, WordOrder
        <4> QED
          BY <3>7, <3>8, <4>3, WordOrder
      <3> QED
        BY <3>9, <3>10
    <2>6. ASSUME NEW x \in 1..(l + 1), NEW y \in 1..(l + 1), x < y PROVE WordBefore(r[x], r[y])
      <3>1. x \in 1..l
        BY <2>6
      <3>2. CASE y \in 1..l
        BY <1>7, <2>2, <2>6, <3>1, <3>2
      <3>3. CASE y = l + 1
        BY <2>2, <2>5, <3>1, <3>3
      <3> QED
        BY <2>3, <3>2, <3>3
    <2>7. ASSUME ~Twice(items, sent)
          PROVE  /\ \A x \in 1..(l + 1) : LemmaStr[r[x].id] # sent
                 /\ \A i \in 1..k : LemmaStr[items[i].id] # sent => \E x \in 1..(l + 1) : SameWord(r[x], items[i])
      <3>1. \A x \in 1..(l + 1) : LemmaStr[r[x].id] # sent
        BY <1>3, <1>7, <1>14, <2>2, <2>3, <2>7
      <3>2. ASSUME NEW i \in 1..k, LemmaStr[items[i].id] # sent PROVE \E x \in 1..(l + 1) : SameWord(r[x], items[i])
        <4>1. CASE i = k
          <5>1. SameWord(item, item) /\ l + 1 \in 1..(l + 1)
            BY DEF SameWord
          <5> QED
            BY <1>3, <2>2, <4>1, <5>1
        <4>2. CASE i \in 1..(k - 1)
          <5>1. PICK x \in 1..l : SameWord(kept[x], items[i])
            BY <1>7, <2>7, <3>2, <4>2
          <5>2. x \in 1..(l + 1)
            OBVIOUS
          <5> QED
            BY <2>2, <5>1, <5>2
        <4> QED
          BY <1>11, <4>1, <4>2
      <3> QED
        BY <3>1, <3>2
    <2> QED
      BY <1>10, <2>2, <2>4, <2>6, <2>7 DEF KeptOf
  <1> QED
    BY <1>12, <1>13, <1>14

(* The spellings have two lemmas with the word of the sentence, the one    *)
(* spelt later the likelier.                                               *)
SplTwice(splids, sent) ==
  \E i, j \in LemmaIds :
    /\ LemmaStr[i] = sent /\ LemmaStr[j] = sent /\ Len(splids) # 1
    /\ IsForAll(splids, i) /\ IsForAll(splids, j)
    /\ Before(Lemmas[i].spl, Lemmas[j].spl) /\ LmaPsb[j] < LmaPsb[i]
(* Lemmas for the spellings, every word but the sentence's once.           *)
EachWord(splids, sent, items) ==
  /\ items \in Seq(ItemSet)
  /\ \A k \in DOMAIN items : ItemGood(items[k]) /\ IsForAll(splids, items[k].id)
  /\ \A j, k \in DOMAIN items : j # k => ~SameWord(items[j], items[k])
  /\ ~SplTwice(splids, sent) =>
       /\ \A k \in DOMAIN items : LemmaStr[items[k].id] # sent
       /\ \A id \in LemmaIds : IsForAll(splids, id) /\ LemmaStr[id] # sent =>
            \E k \in DOMAIN items : LemmaStr[items[k].id] = LemmaStr[id]
LEMMA RemainingIs ==
  ASSUME NEW splids \in Seq(Ids), splids # <<>>, NEW sent
  PROVE  EachWord(splids, sent, Remaining(ByWord(DictLpis(splids)), sent))
  <1>1. PICK d : d = DictLpis(splids)
    OBVIOUS
  <1>2. LpisAre(splids, d)
    BY <1>1, DictLpisAre
  <1>3. /\ d \in Seq(ItemSet) /\ InOrderOf(d, LikelierLater)
        /\ \A k \in DOMAIN d : ItemGood(d[k]) /\ IsForAll(splids, d[k].id)
        /\ \A id \in LemmaIds : IsForAll(splids, id) => \E k \in DOMAIN d : d[k].id = id
    BY <1>2 DEF LpisAre
  <1>4. PICK s : s = ByWord(d)
    OBVIOUS
  <1>5. SortedByWord(d, s)
    BY <1>3, <1>4, ByWordIs
  <1>6. /\ s \in Seq(ItemSet)
        /\ \A k \in DOMAIN s : \E i \in DOMAIN d : s[k] = d[i]
        /\ \A i \in DOMAIN d : \E k \in DOMAIN s : s[k] = d[i]
        /\ \A j, k \in DOMAIN s : j < k =>
             ~WordBefore(s[k], s[j]) /\ (SameWord(s[j], s[k]) => <<s[j], s[k]>> \in LikelierLater)
    BY <1>5 DEF SortedByWord
  <1>7. PICK n \in Nat : n = Len(s)
    BY <1>6
  <1>8. DOMAIN s = 1..n
    BY <1>6, <1>7
  <1>9. PICK f : /\ f[0] = <<>>
                 /\ \A k \in 1..n : f[k] = KeepItem(f[k - 1], s, k, sent)
                 /\ Remaining(s, sent) = f[n]
    <2>1. PICK f : KeptBy(f, s, sent, n)
      BY <1>7, RemainingLoop
    <2> QED
      BY <2>1 DEF KeptBy
  <1> DEFINE S == {k \in Nat : KeptOf(s, sent, k, f[k])}
  <1>10. 0 \in S
    <2>1. PICK e : e = <<>>
      OBVIOUS
    <2>2. e \in Seq(ItemSet) /\ DOMAIN e = {}
      BY <2>1
    <2>3. KeptOf(s, sent, 0, e)
      BY <2>2 DEF KeptOf
    <2> QED
      BY <1>9, <2>1, <2>3
  <1>11. ASSUME NEW k \in 1..n, k - 1 \in S PROVE k \in S
    <2>1. KeptOf(s, sent, k - 1, f[k - 1]) /\ k \in Nat
      BY <1>11
    <2>2. f[k] = KeepItem(f[k - 1], s, k, sent)
      BY <1>9
    <2>3. PICK v : v = f[k - 1]
      OBVIOUS
    <2>4. /\ s \in Seq(ItemSet) /\ k \in 1..Len(s) /\ KeptOf(s, sent, k - 1, v)
          /\ \A i, j \in DOMAIN s : i < j => ~WordBefore(s[j], s[i])
      BY <1>6, <1>7, <2>1, <2>3
    <2>5. KeptOf(s, sent, k, KeepItem(v, s, k, sent))
      BY ONLY <2>4, KeepItemIs
    <2>6. KeptOf(s, sent, k, f[k])
      BY <2>2, <2>3, <2>5
    <2> QED
      BY <2>1, <2>6
  <1>12. n \in S
    <2> HIDE DEF S
    <2>1. 0..n \subseteq S
      BY <1>10, <1>11, Upwards
    <2> QED
      BY <2>1
  <1>13. PICK r : r = f[n]
    OBVIOUS
  <1>14. KeptOf(s, sent, n, r)
    BY <1>12, <1>13
  <1>15. /\ r \in Seq(ItemSet)
         /\ \A x \in DOMAIN r : \E i \in DOMAIN s : r[x] = s[i]
         /\ \A x, y \in DOMAIN r : x < y => WordBefore(r[x], r[y])
         /\ ~Twice(s, sent) =>
              /\ \A x \in DOMAIN r : LemmaStr[r[x].id] # sent
              /\ \A i \in DOMAIN s : LemmaStr[s[i].id] # sent => \E x \in DOMAIN r : SameWord(r[x], s[i])
    BY <1>8, <1>14 DEF KeptOf
  <1>16. \A k \in DOMAIN s : ItemGood(s[k]) /\ IsForAll(splids, s[k].id)
    BY <1>3, <1>6
  <1>17. \A k \in DOMAIN r : ItemGood(r[k]) /\ IsForAll(splids, r[k].id)
    BY <1>15, <1>16
  <1>18. ASSUME NEW j \in DOMAIN r, NEW k \in DOMAIN r, j # k PROVE ~SameWord(r[j], r[k])
    <2>1. DOMAIN r = 1..Len(r) /\ Len(r) \in Nat
      BY <1>15
    <2>2. j < k \/ k < j
      BY <1>18, <2>1
    <2>3. WordBefore(r[j], r[k]) \/ WordBefore(r[k], r[j])
      BY <1>15, <2>2
    <2>4. r[j] \in ItemSet /\ r[k] \in ItemSet
      BY <1>17 DEF ItemGood
    <2> QED
      BY <2>3, <2>4, WordOrder
  <1>19. Twice(s, sent) => SplTwice(splids, sent)
    <2>1. SUFFICES ASSUME NEW i \in DOMAIN s, NEW j \in DOMAIN s,
                          LemmaStr[s[i].id] = sent, LemmaStr[s[j].id] = sent,
                          s[j].psb < s[i].psb, s[j].len # 1, i < j
                   PROVE  SplTwice(splids, sent)
      BY DEF Twice
    <2>2. PICK a \in ItemSet, b \in ItemSet : a = s[i] /\ b = s[j]
      BY <1>16 DEF ItemGood
    <2>3. ItemGood(a) /\ ItemGood(b) /\ IsForAll(splids, a.id) /\ IsForAll(splids, b.id)
      BY <1>16, <2>2
    <2>4. SameWord(a, b) /\ <<a, b>> \in LikelierLater
      BY <1>6, <2>1, <2>2 DEF SameWord
    <2>5. Before(Lemmas[a.id].spl, Lemmas[b.id].spl)
      BY <2>1, <2>2, <2>4 DEF LikelierLater
    <2>6. b.len = Len(splids)
      BY <2>3 DEF ItemGood, IsForAll
    <2>7. Len(splids) # 1
      BY <2>1, <2>2, <2>6
    <2>8. LmaPsb[b.id] < LmaPsb[a.id]
      BY <2>1, <2>2, <2>3 DEF ItemGood
    <2>9. a.id \in LemmaIds /\ b.id \in LemmaIds
      BY DEF ItemSet
    <2> QED
      BY <2>1, <2>2, <2>3, <2>5, <2>7, <2>8, <2>9 DEF SplTwice
  <1>20. ASSUME ~SplTwice(splids, sent), NEW id \in LemmaIds, IsForAll(splids, id), LemmaStr[id] # sent
         PROVE  \E k \in DOMAIN r : LemmaStr[r[k].id] = LemmaStr[id]
    <2>1. PICK x \in DOMAIN d : d[x].id = id
      BY <1>3, <1>20
    <2>2. PICK i \in DOMAIN s : s[i] = d[x]
      BY <1>6
    <2>3. PICK k \in DOMAIN r : SameWord(r[k], s[i])
      BY <1>15, <1>19, <1>20, <2>1, <2>2
    <2> QED
      BY <2>1, <2>2, <2>3 DEF SameWord
  <1>21. EachWord(splids, sent, r)
    BY <1>15, <1>17, <1>18, <1>19, <1>20 DEF EachWord
  <1> QED
    BY <1>1, <1>4, <1>9, <1>13, <1>21

(* The same in another order.                                              *)
Shuffled(T, s, t) ==
  /\ t \in Seq(T)
  /\ \E o : /\ \A k \in DOMAIN t : o[k] \in DOMAIN s /\ t[k] = s[o[k]]
            /\ \A i \in DOMAIN s : \E k \in DOMAIN t : o[k] = i
            /\ \A j, k \in DOMAIN t : j # k => o[j] # o[k]
LEMMA SortedShuffles ==
  ASSUME NEW T, NEW s \in Seq(T), NEW lt, Orders(PlacesBy(s, lt), DOMAIN s)
  PROVE  Shuffled(T, s, Sorted(s, lt))
  <1>1. PICK n \in Nat : n = Len(s)
    OBVIOUS
  <1>2. PICK o : /\ Sorted(s, lt) = [k \in 1..n |-> s[o[k]]]
                 /\ \A k \in 1..n : o[k] \in 1..n
                 /\ \A i \in 1..n : \E k \in 1..n : o[k] = i
                 /\ \A j, k \in 1..n : j < k => o[j] # o[k] /\ <<o[j], o[k]>> \in PlacesBy(s, lt)
    <2>1. \E o : SortsBy(s, lt, n, o)
      BY ONLY <1>1, s \in Seq(T), Orders(PlacesBy(s, lt), DOMAIN s), SortedBy
    <2>2. PICK o : SortsBy(s, lt, n, o)
      BY ONLY <2>1
    <2> QED
      BY ONLY <2>2 DEF SortsBy
  <1>3. PICK t : t = Sorted(s, lt)
    OBVIOUS
  <1>4. DOMAIN s = 1..n /\ \A k \in 1..n : s[k] \in T
    BY <1>1
  <1>5. t \in Seq(T) /\ DOMAIN t = 1..n /\ \A k \in 1..n : t[k] = s[o[k]]
    BY <1>2, <1>3, <1>4
  <1>6. ASSUME NEW j \in 1..n, NEW k \in 1..n, j # k PROVE o[j] # o[k]
    <2>1. j < k \/ k < j
      BY <1>6
    <2> QED
      BY <1>2, <2>1
  <1>7. /\ \A k \in DOMAIN t : o[k] \in DOMAIN s /\ t[k] = s[o[k]]
        /\ \A i \in DOMAIN s : \E k \in DOMAIN t : o[k] = i
        /\ \A j, k \in DOMAIN t : j # k => o[j] # o[k]
    BY <1>2, <1>4, <1>5, <1>6
  <1>8. Shuffled(T, s, t)
    BY <1>5, <1>7 DEF Shuffled
  <1> QED
    BY <1>3, <1>8

LEMMA GetLpisIs ==
  ASSUME NEW splids \in Seq(Ids), splids # <<>>, NEW sent, NEW longest \in BOOLEAN
  PROVE  EachWord(splids, sent, GetLpis(splids, sent, longest))
  <1>1. PICK s : s = Remaining(ByWord(DictLpis(splids)), sent)
    OBVIOUS
  <1>2. EachWord(splids, sent, s)
    BY <1>1, RemainingIs
  <1>3. CASE ~longest
    BY <1>1, <1>2, <1>3 DEF GetLpis
  <1>4. CASE longest
    <2>1. s \in Seq(ItemSet)
      BY <1>2 DEF EachWord
    <2>2. PICK lt : lt = {p \in (DOMAIN s) \X (DOMAIN s) : s[p[1]].psb < s[p[2]].psb}
      OBVIOUS
    <2>3. PICK n \in Nat : DOMAIN s = 1..n
      BY <2>1
    <2>4. \A i \in DOMAIN s : s[i].psb \in Nat
      <3>1. \A x \in ItemSet : x.psb \in Nat
        BY DEF ItemSet
      <3> QED
        BY <2>1, <3>1
    <2>5. Orders(PlacesBy(s, lt), DOMAIN s)
      <3>1. \A x, y \in DOMAIN s : <<x, y>> \in lt <=> s[x].psb < s[y].psb
        BY <2>2
      <3>2. \A x, y \in DOMAIN s : <<x, y>> \in lt => <<y, x>> \notin lt
        BY <2>4, <3>1
      <3>3. \A x, y, z \in DOMAIN s : <<y, x>> \notin lt /\ <<z, y>> \notin lt => <<z, x>> \notin lt
        BY <2>4, <3>1
      <3> QED
        BY <2>3, <3>2, <3>3, WeakOrders
    <2>6. PICK t : t = Sorted(s, lt)
      OBVIOUS
    <2>7. GetLpis(splids, sent, longest) = t
      BY <1>1, <1>4, <2>2, <2>6 DEF GetLpis, ByPsb
    <2>8. Shuffled(ItemSet, s, t)
      BY <2>1, <2>5, <2>6, SortedShuffles
    <2>9. t \in Seq(ItemSet)
      BY <2>8 DEF Shuffled
    <2>10. PICK o : /\ \A k \in DOMAIN t : o[k] \in DOMAIN s /\ t[k] = s[o[k]]
                    /\ \A i \in DOMAIN s : \E k \in DOMAIN t : o[k] = i
                    /\ \A j, k \in DOMAIN t : j # k => o[j] # o[k]
      BY <2>8 DEF Shuffled
    <2>11. \A i \in DOMAIN s : \E k \in DOMAIN t : t[k] = s[i]
      BY <2>10
    <2>12. \A j, k \in DOMAIN t : j # k => ~SameWord(t[j], t[k])
      BY <1>2, <2>10 DEF EachWord
    <2>13. \A k \in DOMAIN t : ItemGood(t[k]) /\ IsForAll(splids, t[k].id)
      BY <1>2, <2>10 DEF EachWord
    <2>14. ASSUME ~SplTwice(splids, sent)
           PROVE  /\ \A k \in DOMAIN t : LemmaStr[t[k].id] # sent
                  /\ \A id \in LemmaIds : IsForAll(splids, id) /\ LemmaStr[id] # sent =>
                       \E k \in DOMAIN t : LemmaStr[t[k].id] = LemmaStr[id]
      <3>1. \A k \in DOMAIN t : LemmaStr[t[k].id] # sent
        BY <1>2, <2>10, <2>14 DEF EachWord
      <3>2. ASSUME NEW id \in LemmaIds, IsForAll(splids, id), LemmaStr[id] # sent
            PROVE  \E k \in DOMAIN t : LemmaStr[t[k].id] = LemmaStr[id]
        <4>1. PICK i \in DOMAIN s : LemmaStr[s[i].id] = LemmaStr[id]
          BY <1>2, <2>14, <3>2 DEF EachWord
        <4>2. PICK k \in DOMAIN t : t[k] = s[i]
          BY <2>11
        <4> QED
          BY <4>1, <4>2
      <3> QED
        BY <3>1, <3>2
    <2>15. EachWord(splids, sent, t)
      BY <2>9, <2>12, <2>13, <2>14 DEF EachWord
    <2> QED
      BY <2>7, <2>15
  <1> QED
    BY <1>3, <1>4

(* How Collect() goes on.                                                  *)
CollectedBy(f, splids, max, sent) ==
  /\ f[0] = <<>>
  /\ \A k \in 1..max : f[k] = CollectFor(f[k - 1], splids, max + 1 - k, max, sent)
  /\ Collect(splids, max, sent) = f[max]
LEMMA CollectLoop ==
  ASSUME NEW splids, NEW max \in Nat, NEW sent
  PROVE  \E f : CollectedBy(f, splids, max, sent)
  <1> DEFINE last == max
             Then(v, k) == CollectFor(v, splids, max + 1 - k, max, sent)
             Goes(top, f) == f = [k \in 0..top |-> IF k = 0 THEN <<>> ELSE Then(f[k - 1], k)]
             S == {top \in Nat : \E f : Goes(top, f)}
  <1>1. Collect(splids, max, sent) = (CHOOSE f : Goes(last, f))[last]
    BY DEF Collect
  <1> HIDE DEF last, Then
  <1>2. 0 \in S
    <2>1. Goes(0, [k \in 0..0 |-> <<>>])
      OBVIOUS
    <2>2. 0 = 0
      OBVIOUS
    <2> HIDE DEF Goes
    <2> QED
      BY <2>1, <2>2
  <1>3. ASSUME NEW top \in Nat, top \in S PROVE top + 1 \in S
    <2> DEFINE e == top
    <2>1. PICK f : Goes(e, f)
      BY <1>3
    <2>i. e \in Nat /\ e >= 0 /\ e + 1 = (top + 1)
      OBVIOUS
    <2> HIDE DEF e
    <2> DEFINE g == [k \in 0..(e + 1) |-> IF k = e + 1 THEN Then(f[e], e + 1) ELSE f[k]]
    <2>2. ASSUME NEW k \in 0..(e + 1)
          PROVE  g[k] = IF k = 0 THEN <<>> ELSE Then(g[k - 1], k)
      <3>1. CASE k = e + 1
        BY <2>1, <2>i, <3>1
      <3>2. CASE k \in 0..e
        <4>0. k # e + 1 /\ k \in 0..(e + 1)
          BY <2>i, <3>2
        <4>1. g[k] = f[k]
          BY <4>0
        <4>3. f[k] = IF k = 0 THEN <<>> ELSE Then(f[k - 1], k)
          <5> HIDE DEF g
          <5> QED
            BY <2>1, <3>2
        <4>2. k # 0 => g[k - 1] = f[k - 1]
          BY <2>i, <3>2
        <4> HIDE DEF g
        <4> QED
          BY <4>1, <4>2, <4>3
      <3> QED
        BY <2>i, <3>1, <3>2
    <2>3. Goes(e + 1, g)
      BY <2>2
    <2> HIDE DEF g, Goes
    <2> QED
      BY <2>i, <2>3
  <1>4. \E f : Goes(last, f)
    <2>1. last \in S
      <3> HIDE DEF S
      <3>1. last \in Nat
        BY DEF last
      <3> QED
        BY <1>2, <1>3, <3>1, Induction
    <2>2. (last) = last
      BY DEF last
    <2> HIDE DEF Goes
    <2> QED
      BY <2>1, <2>2
  <1>5. Goes(last, CHOOSE f : Goes(last, f))
    <2> HIDE DEF Goes
    <2> QED
      BY <1>4
  <1> DEFINE f == CHOOSE f : Goes(last, f)
  <1>6. f = [k \in 0..last |-> IF k = 0 THEN <<>> ELSE Then(f[k - 1], k)]
    BY <1>5
  <1>7. last \in Nat /\ last >= 0
    BY DEF last
  <1> HIDE DEF f
  <1>8. f[0] = <<>> /\ \A k \in 1..last : f[k] = Then(f[k - 1], k)
    <2>1. 0 \in 0..last
      BY <1>7
    <2>2. ASSUME NEW k \in 1..last PROVE k \in 0..last /\ k # 0
      BY <1>7
    <2> QED
      BY <1>6, <2>1, <2>2
  <1> QED
    BY <1>1, <1>8 DEF f, last, Then, CollectedBy


(* Lemmas of one word are of one length.                                   *)
LEMMA SameLength ==
  ASSUME NEW x, ItemGood(x), NEW y, ItemGood(y), SameWord(x, y)
  PROVE  x.len = y.len
  <1>1. x.id \in LemmaIds /\ y.id \in LemmaIds
    BY DEF ItemGood, ItemSet
  <1>2. CASE x.id = LemmaNum
    <2>1. LemmaStr[x.id] = <<>>
      BY <1>1, <1>2, WordsAre
    <2>2. y.id = LemmaNum
      BY <1>1, <2>1, WordsAre DEF SameWord
    <2> QED
      BY <1>2, <2>2 DEF ItemGood
  <1>3. CASE x.id # LemmaNum
    <2>1. LemmaStr[x.id] = Lemmas[x.id].word /\ LemmaStr[x.id] # <<>>
      BY <1>1, <1>3, WordsAre
    <2>2. y.id # LemmaNum
      BY <1>1, <2>1, WordsAre DEF SameWord
    <2>3. LemmaStr[y.id] = Lemmas[y.id].word
      BY <1>1, <2>2, WordsAre
    <2>4. Lemmas[x.id].word = Lemmas[y.id].word
      BY <2>1, <2>3 DEF SameWord
    <2>5. /\ Len(Lemmas[x.id].spl) = Len(Lemmas[x.id].word)
          /\ Len(Lemmas[y.id].spl) = Len(Lemmas[y.id].word)
      BY ONLY <1>1, WordsAre
    <2>6. x.len = Len(Lemmas[x.id].spl) /\ y.len = Len(Lemmas[y.id].spl)
      BY DEF ItemGood
    <2> QED
      BY ONLY <2>4, <2>5, <2>6
  <1> QED
    BY <1>2, <1>3

(* No two lemmas are without a word.                                       *)
LEMMA NeverTwice ==
  ASSUME NEW splids
  PROVE  ~SplTwice(splids, <<>>)
  <1>1. SUFFICES ASSUME NEW i \in LemmaIds, NEW j \in LemmaIds,
                        LemmaStr[i] = <<>>, LemmaStr[j] = <<>>,
                        Before(Lemmas[i].spl, Lemmas[j].spl)
                 PROVE  FALSE
    BY DEF SplTwice
  <1>2. i = LemmaNum /\ j = LemmaNum
    BY <1>1, WordsAre
  <1>3. PICK s : s = Lemmas[i].spl
    OBVIOUS
  <1>4. s \in Seq(FullIds) /\ FullIds \subseteq Nat
    BY <1>3, LemmasAre, IdsAre DEF Ids
  <1>5. s \in Seq(Nat)
    BY <1>4, SeqMonotonic
  <1>6. Before(s, s)
    BY <1>1, <1>2, <1>3
  <1> QED
    BY <1>5, <1>6, NeverBeforeItself

(* The lemmas collected for least to max spellings.                        *)
Collected(splids, max, sent, least, got) ==
  /\ got \in Seq(ItemSet)
  /\ \A x \in DOMAIN got :
       /\ ItemGood(got[x]) /\ got[x].len \in least..max
       /\ IsForAll(SubSeq(splids, 1, got[x].len), got[x].id)
  /\ \A x, y \in DOMAIN got : x # y => ~SameWord(got[x], got[y])
  /\ (\A n \in least..max : ~SplTwice(SubSeq(splids, 1, n), sent)) =>
       /\ \A x \in DOMAIN got : sent # <<>> => LemmaStr[got[x].id] # sent
       /\ \A n \in least..max : \A id \in LemmaIds \ {LemmaNum} :
            IsForAll(SubSeq(splids, 1, n), id) =>
              \/ LemmaStr[id] = sent
              \/ \E x \in DOMAIN got : LemmaStr[got[x].id] = LemmaStr[id]
LEMMA CollectOn ==
  ASSUME NEW splids \in Seq(Ids), NEW max \in Nat, max <= Len(splids), NEW n \in 1..max,
         NEW sent, sent = <<>> \/ Len(sent) = max, NEW got, Collected(splids, max, sent, n + 1, got)
  PROVE  Collected(splids, max, sent, n, CollectFor(got, splids, n, max, sent))
  <1>1. PICK p : p = SubSeq(splids, 1, n)
    OBVIOUS
  <1>2. p \in Seq(Ids) /\ Len(p) = n /\ p # <<>> /\ n \in Nat
    BY <1>1
  <1>3. PICK s : s = IF got = <<>> THEN sent ELSE <<>>
    OBVIOUS
  <1>4. PICK new : new = GetLpis(p, s, n = max)
    OBVIOUS
  <1>5. EachWord(p, s, new)
    BY <1>2, <1>4, GetLpisIs
  <1>6. /\ new \in Seq(ItemSet)
        /\ \A y \in DOMAIN new : ItemGood(new[y]) /\ IsForAll(p, new[y].id)
        /\ \A x, y \in DOMAIN new : x # y => ~SameWord(new[x], new[y])
        /\ ~SplTwice(p, s) =>
             /\ \A y \in DOMAIN new : LemmaStr[new[y].id] # s
             /\ \A id \in LemmaIds : IsForAll(p, id) /\ LemmaStr[id] # s =>
                  \E y \in DOMAIN new : LemmaStr[new[y].id] = LemmaStr[id]
    BY <1>5 DEF EachWord
  <1>7. /\ got \in Seq(ItemSet)
        /\ \A x \in DOMAIN got :
             /\ ItemGood(got[x]) /\ got[x].len \in (n + 1)..max
             /\ IsForAll(SubSeq(splids, 1, got[x].len), got[x].id)
        /\ \A x, y \in DOMAIN got : x # y => ~SameWord(got[x], got[y])
    BY DEF Collected
  <1>8. PICK a \in Nat, b \in Nat : a = Len(got) /\ b = Len(new)
    BY <1>6, <1>7
  <1>9. DOMAIN got = 1..a /\ DOMAIN new = 1..b
    BY <1>6, <1>7, <1>8
  <1>10. PICK all : all = got \o new
    OBVIOUS
  <1>11. CollectFor(got, splids, n, max, sent) = all
    BY <1>1, <1>3, <1>4, <1>10 DEF CollectFor
  <1>12. /\ all \in Seq(ItemSet) /\ DOMAIN all = 1..(a + b)
         /\ \A x \in 1..a : all[x] = got[x]
         /\ \A y \in 1..b : all[a + y] = new[y]
    BY ONLY <1>6, <1>7, <1>8, <1>10, ConcatProperties
  <1>13. \A x \in 1..(a + b) : x \in 1..a \/ (x - a \in 1..b /\ a + (x - a) = x)
    BY <1>8
  <1>14. \A y \in 1..b : ItemGood(new[y]) /\ new[y].len = n /\ IsForAll(p, new[y].id)
    <2>1. ASSUME NEW y \in 1..b PROVE new[y].len = n
      BY <1>2, <1>6, <1>9, <2>1 DEF ItemGood, IsForAll
    <2> QED
      BY <1>6, <1>9, <2>1
  <1>15. ASSUME NEW x \in 1..(a + b)
         PROVE  /\ ItemGood(all[x]) /\ all[x].len \in n..max
                /\ IsForAll(SubSeq(splids, 1, all[x].len), all[x].id)
    <2>1. CASE x \in 1..a
      <3>1. got[x].len \in n..max
        <4>1. got[x].len \in (n + 1)..max
          BY <1>7, <1>9, <2>1
        <4> QED
          BY <1>2, <4>1
      <3> QED
        BY <1>7, <1>9, <1>12, <2>1, <3>1
    <2>2. CASE x - a \in 1..b /\ a + (x - a) = x
      <3>1. all[x] = new[x - a]
        BY <1>12, <2>2
      <3>2. n \in n..max
        BY <1>2
      <3> QED
        BY <1>1, <1>14, <2>2, <3>1, <3>2
    <2> QED
      BY <1>13, <2>1, <2>2
  <1>16. ASSUME NEW x \in 1..a, NEW y \in 1..b PROVE ~SameWord(got[x], new[y]) /\ ~SameWord(new[y], got[x])
    <2>1. got[x].len # n
      <3>1. got[x].len \in (n + 1)..max
        BY <1>7, <1>9
      <3> QED
        BY <1>2, <3>1
    <2>2. ItemGood(got[x]) /\ ItemGood(new[y]) /\ new[y].len = n
      BY <1>7, <1>9, <1>14
    <2> QED
      BY <2>1, <2>2, SameLength
  <1>17. ASSUME NEW x \in 1..(a + b), NEW y \in 1..(a + b), x # y PROVE ~SameWord(all[x], all[y])
    <2>1. CASE x \in 1..a /\ y \in 1..a
      BY <1>7, <1>9, <1>12, <1>17, <2>1
    <2>2. CASE x \in 1..a /\ y - a \in 1..b /\ a + (y - a) = y
      <3>1. all[x] = got[x] /\ all[y] = new[y - a]
        BY <1>12, <2>2
      <3> QED
        BY <1>16, <2>2, <3>1
    <2>3. CASE y \in 1..a /\ x - a \in 1..b /\ a + (x - a) = x
      <3>1. all[y] = got[y] /\ all[x] = new[x - a]
        BY <1>12, <2>3
      <3> QED
        BY <1>16, <2>3, <3>1
    <2>4. CASE x - a \in 1..b /\ a + (x - a) = x /\ y - a \in 1..b /\ a + (y - a) = y
      <3>1. all[x] = new[x - a] /\ all[y] = new[y - a] /\ x - a # y - a
        BY <1>12, <1>17, <2>4
      <3> QED
        BY <1>6, <1>9, <2>4, <3>1
    <2> QED
      BY <1>13, <2>1, <2>2, <2>3, <2>4
  <1>18. ASSUME \A j \in n..max : ~SplTwice(SubSeq(splids, 1, j), sent)
         PROVE  /\ \A x \in 1..(a + b) : sent # <<>> => LemmaStr[all[x].id] # sent
                /\ \A j \in n..max : \A id \in LemmaIds \ {LemmaNum} :
                     IsForAll(SubSeq(splids, 1, j), id) =>
                       \/ LemmaStr[id] = sent
                       \/ \E x \in 1..(a + b) : LemmaStr[all[x].id] = LemmaStr[id]
    <2>1. \A j \in (n + 1)..max : j \in n..max
      BY <1>2
    <2>2. n \in n..max /\ \A j \in n..max : j = n \/ j \in (n + 1)..max
      BY <1>2
    <2>3. /\ \A x \in DOMAIN got : sent # <<>> => LemmaStr[got[x].id] # sent
          /\ \A j \in (n + 1)..max : \A id \in LemmaIds \ {LemmaNum} :
               IsForAll(SubSeq(splids, 1, j), id) =>
                 \/ LemmaStr[id] = sent
                 \/ \E x \in DOMAIN got : LemmaStr[got[x].id] = LemmaStr[id]
      BY <1>18, <2>1 DEF Collected
    <2>4. ~SplTwice(p, sent)
      BY <1>1, <1>18, <2>2
    <2>5. ~SplTwice(p, s)
      BY <1>3, <2>4, NeverTwice
    <2>6. /\ \A y \in 1..b : LemmaStr[new[y].id] # s
          /\ \A id \in LemmaIds : IsForAll(p, id) /\ LemmaStr[id] # s =>
               \E y \in 1..b : LemmaStr[new[y].id] = LemmaStr[id]
      BY <1>6, <1>9, <2>5
    <2>7. ASSUME NEW y \in 1..b, sent # <<>> PROVE LemmaStr[new[y].id] # sent
      <3>1. CASE got = <<>>
        BY <1>3, <2>6, <3>1
      <3>2. CASE got # <<>>
        <4>1. 1 \in 1..a
          BY <1>7, <1>8, <3>2
        <4>2. n < max
          <5>1. got[1].len \in (n + 1)..max
            BY <1>7, <1>9, <4>1
          <5> QED
            BY <1>2, <5>1
        <4>3. SUFFICES ASSUME LemmaStr[new[y].id] = sent PROVE FALSE
          OBVIOUS
        <4>4. new[y].id \in LemmaIds
          BY <1>14 DEF ItemGood, ItemSet
        <4>5. new[y].id # LemmaNum
          BY <2>7, <4>3, <4>4, WordsAre
        <4>6. Lemmas[new[y].id].word = sent /\ Len(Lemmas[new[y].id].spl) = Len(Lemmas[new[y].id].word)
          BY <4>3, <4>4, <4>5, WordsAre
        <4>7. Len(sent) = n
          BY <1>14, <4>6 DEF ItemGood
        <4> QED
          BY <1>2, <2>7, <4>2, <4>7
      <3> QED
        BY <3>1, <3>2
    <2>8. ASSUME NEW x \in 1..(a + b), sent # <<>> PROVE LemmaStr[all[x].id] # sent
      <3>1. CASE x \in 1..a
        BY <1>9, <1>12, <2>3, <2>8, <3>1
      <3>2. CASE x - a \in 1..b /\ a + (x - a) = x
        <4>1. all[x] = new[x - a]
          BY <1>12, <3>2
        <4> QED
          BY <2>7, <2>8, <3>2, <4>1
      <3> QED
        BY <1>13, <3>1, <3>2
    <2>9. ASSUME NEW j \in n..max, NEW id \in LemmaIds \ {LemmaNum},
                 IsForAll(SubSeq(splids, 1, j), id), LemmaStr[id] # sent
          PROVE  \E x \in 1..(a + b) : LemmaStr[all[x].id] = LemmaStr[id]
      <3>1. CASE j \in (n + 1)..max
        <4>1. PICK x \in 1..a : LemmaStr[got[x].id] = LemmaStr[id]
          BY <1>9, <2>3, <2>9, <3>1
        <4>2. x \in 1..(a + b) /\ all[x] = got[x]
          BY <1>8, <1>12
        <4> QED
          BY <4>1, <4>2
      <3>2. CASE j = n
        <4>1. LemmaStr[id] # <<>>
          BY WordsAre
        <4>2. LemmaStr[id] # s
          BY <1>3, <2>9, <4>1
        <4>3. PICK y \in 1..b : LemmaStr[new[y].id] = LemmaStr[id]
          BY <1>1, <2>6, <2>9, <3>2, <4>2
        <4>4. a + y \in 1..(a + b)
          OBVIOUS
        <4>5. all[a + y] = new[y]
          BY <1>12
        <4> QED
          BY <4>3, <4>4, <4>5
      <3> QED
        BY <2>2, <3>1, <3>2
    <2> QED
      BY <2>8, <2>9
  <1>19. Collected(splids, max, sent, n, all)
    BY <1>12, <1>15, <1>17, <1>18 DEF Collected
  <1> QED
    BY <1>11, <1>19

LEMMA CollectIs ==
  ASSUME NEW splids \in Seq(Ids), NEW max \in Nat, max <= Len(splids),
         NEW sent, sent = <<>> \/ Len(sent) = max
  PROVE  Collected(splids, max, sent, 1, Collect(splids, max, sent))
  <1>1. PICK f : CollectedBy(f, splids, max, sent)
    BY CollectLoop
  <1> DEFINE S == {k \in Nat : Collected(splids, max, sent, max + 1 - k, f[k])}
  <1>2. 0 \in S
    <2>1. PICK e : e = <<>>
      OBVIOUS
    <2>2. e \in Seq(ItemSet) /\ DOMAIN e = {}
      BY <2>1
    <2>3. \A j : j \notin (max + 1)..max
      OBVIOUS
    <2>4. Collected(splids, max, sent, max + 1, e)
      BY <2>2, <2>3 DEF Collected
    <2>5. max + 1 - 0 = max + 1
      OBVIOUS
    <2> QED
      BY <1>1, <2>1, <2>4, <2>5 DEF CollectedBy
  <1>3. ASSUME NEW k \in 1..max, k - 1 \in S PROVE k \in S
    <2>1. PICK n \in 1..max : n = max + 1 - k
      OBVIOUS
    <2>2. max + 1 - (k - 1) = n + 1 /\ k \in Nat
      BY <2>1
    <2>3. PICK v : v = f[k - 1]
      OBVIOUS
    <2>4. Collected(splids, max, sent, n + 1, v)
      BY <1>3, <2>2, <2>3
    <2>5. Collected(splids, max, sent, n, CollectFor(v, splids, n, max, sent))
      BY <2>4, CollectOn
    <2>6. f[k] = CollectFor(v, splids, n, max, sent)
      BY <1>1, <2>1, <2>3 DEF CollectedBy
    <2> QED
      BY <2>1, <2>2, <2>5, <2>6
  <1>4. max \in S
    <2> HIDE DEF S
    <2>1. 0..max \subseteq S
      BY <1>2, <1>3, Upwards
    <2> QED
      BY <2>1
  <1>5. max + 1 - max = 1
    OBVIOUS
  <1> QED
    BY <1>1, <1>4, <1>5 DEF CollectedBy

(* Scores per character compare as fractions do.                           *)
LEMMA Times ==
  ASSUME NEW x \in Nat, NEW y \in Nat, NEW q \in Nat
  PROVE  /\ x <= y => x * q <= y * q
         /\ q # 0 /\ x < y => x * q < y * q
  <1>1. PICK d \in Int : d = y - x
    OBVIOUS
  <1>2. y * q = x * q + d * q /\ x * q \in Nat /\ y * q \in Nat /\ d * q \in Int
    BY <1>1
  <1>3. d >= 0 => d * q >= 0
    OBVIOUS
  <1>4. d > 0 /\ q # 0 => d * q > 0
    OBVIOUS
  <1> QED
    BY <1>1, <1>2, <1>3, <1>4

LEMMA Ratios ==
  ASSUME NEW a \in Nat, NEW b \in Nat, NEW c \in Nat,
         NEW p \in Nat, NEW q \in Nat \ {0}, NEW r \in Nat, a * q <= b * p, b * r <= c * q
  PROVE  a * r <= c * p
  <1>1. /\ a * q \in Nat /\ b * p \in Nat /\ b * r \in Nat /\ c * q \in Nat
        /\ a * r \in Nat /\ c * p \in Nat
    OBVIOUS
  <1>2. (a * q) * r <= (b * p) * r
    BY <1>1, Times
  <1>3. (b * r) * p <= (c * q) * p
    BY <1>1, Times
  <1>4. (a * q) * r = (a * r) * q /\ (b * p) * r = (b * r) * p /\ (c * q) * p = (c * p) * q
    OBVIOUS
  <1>5. PICK x \in Nat, y \in Nat : x = a * r /\ y = c * p
    BY <1>1
  <1>6. PICK u \in Nat, v \in Nat, w \in Nat : u = x * q /\ v = (b * p) * r /\ w = y * q
    <2>1. x * q \in Nat /\ (b * p) * r \in Nat /\ y * q \in Nat
      BY <1>1
    <2> QED
      BY <2>1
  <1>7. u <= v /\ v <= w
    BY <1>2, <1>3, <1>4, <1>5, <1>6
  <1>8. ~(y < x)
    <2>1. y < x => w < u
      BY <1>6, Times
    <2> QED
      BY <1>7, <2>1
  <1> QED
    BY <1>5, <1>8

(* Their order in the list.                                                *)
LEMMA InOrderShuffles ==
  ASSUME NEW max \in Nat, NEW got \in Seq(ItemSet), \A x \in DOMAIN got : got[x].len # 0
  PROVE  Shuffled(ItemSet, got, InOrder(got, max))
  <1>1. PICK lt : lt = {p \in (DOMAIN got) \X (DOMAIN got) :
                          LET i == got[p[1]]  j == got[p[2]]
                          IN  j.len # max /\ (i.len = max \/ i.psb * j.len < j.psb * i.len)}
    OBVIOUS
  <1>2. PICK n \in Nat : DOMAIN got = 1..n
    OBVIOUS
  <1>3. \A x \in DOMAIN got : got[x].psb \in Nat /\ got[x].len \in Nat \ {0}
    <2>1. \A x \in ItemSet : x.psb \in Nat /\ x.len \in Nat
      BY DEF ItemSet
    <2> QED
      BY <2>1
  <1>4. ASSUME NEW x \in DOMAIN got, NEW y \in DOMAIN got
        PROVE  <<x, y>> \in lt <=>
                 /\ got[y].len # max
                 /\ got[x].len = max \/ got[x].psb * got[y].len < got[y].psb * got[x].len
    BY <1>1
  <1>5. Orders(PlacesBy(got, lt), DOMAIN got)
    <2>1. ASSUME NEW x \in DOMAIN got, NEW y \in DOMAIN got, <<x, y>> \in lt PROVE <<y, x>> \notin lt
      <3>1. PICK a \in Nat, b \in Nat, p \in Nat, q \in Nat :
              a = got[x].psb /\ b = got[y].psb /\ p = got[x].len /\ q = got[y].len
        BY <1>3
      <3>2. q # max /\ (p = max \/ a * q < b * p)
        BY <1>4, <2>1, <3>1
      <3>3. <<y, x>> \in lt <=> p # max /\ (q = max \/ b * p < a * q)
        BY <1>4, <3>1
      <3>4. a * q \in Nat /\ b * p \in Nat
        OBVIOUS
      <3> QED
        BY <3>2, <3>3, <3>4
    <2>2. ASSUME NEW x \in DOMAIN got, NEW y \in DOMAIN got, NEW z \in DOMAIN got,
                 <<y, x>> \notin lt, <<z, y>> \notin lt
          PROVE  <<z, x>> \notin lt
      <3>1. PICK a \in Nat, b \in Nat, c \in Nat, p \in Nat \ {0}, q \in Nat \ {0}, r \in Nat \ {0} :
              /\ a = got[x].psb /\ b = got[y].psb /\ c = got[z].psb
              /\ p = got[x].len /\ q = got[y].len /\ r = got[z].len
        BY <1>3
      <3>2. ~(p # max /\ (q = max \/ b * p < a * q))
        BY <1>4, <2>2, <3>1
      <3>3. ~(q # max /\ (r = max \/ c * q < b * r))
        BY <1>4, <2>2, <3>1
      <3>4. SUFFICES ASSUME p # max, r = max \/ c * p < a * r PROVE FALSE
        BY <1>4, <3>1
      <3>5. a * q \in Nat /\ b * p \in Nat /\ b * r \in Nat /\ c * q \in Nat /\ a * r \in Nat /\ c * p \in Nat
        OBVIOUS
      <3>6. q # max /\ a * q <= b * p
        BY <3>2, <3>4, <3>5
      <3>7. r # max /\ b * r <= c * q
        BY <3>3, <3>5, <3>6
      <3>8. a * r <= c * p
        BY <3>6, <3>7, Ratios
      <3> QED
        BY <3>4, <3>5, <3>7, <3>8
    <2> QED
      BY <1>2, <2>1, <2>2, WeakOrders
  <1>6. InOrder(got, max) = Sorted(got, lt)
    BY <1>1 DEF InOrder
  <1> QED
    BY <1>5, <1>6, SortedShuffles

LEMMA ListedAll ==
  ASSUME NEW splids \in Seq(Ids), NEW max \in Nat, max <= Len(splids),
         NEW sent, sent = <<>> \/ Len(sent) = max
  PROVE  Collected(splids, max, sent, 1, InOrder(Collect(splids, max, sent), max))
  <1>1. PICK s : s = Collect(splids, max, sent)
    OBVIOUS
  <1>2. Collected(splids, max, sent, 1, s)
    BY <1>1, CollectIs
  <1>3. s \in Seq(ItemSet) /\ \A x \in DOMAIN s : s[x].len # 0
    BY <1>2 DEF Collected
  <1>4. PICK t : t = InOrder(s, max)
    OBVIOUS
  <1>5. Shuffled(ItemSet, s, t)
    BY <1>3, <1>4, InOrderShuffles
  <1>6. t \in Seq(ItemSet)
    BY <1>5 DEF Shuffled
  <1>7. PICK o : /\ \A k \in DOMAIN t : o[k] \in DOMAIN s /\ t[k] = s[o[k]]
                 /\ \A i \in DOMAIN s : \E k \in DOMAIN t : o[k] = i
                 /\ \A j, k \in DOMAIN t : j # k => o[j] # o[k]
    BY <1>5 DEF Shuffled
  <1>8. \A i \in DOMAIN s : \E k \in DOMAIN t : t[k] = s[i]
    BY <1>7
  <1>9. \A j, k \in DOMAIN t : j # k => ~SameWord(t[j], t[k])
    BY <1>2, <1>7 DEF Collected
  <1>10. \A x \in DOMAIN t :
           /\ ItemGood(t[x]) /\ t[x].len \in 1..max
           /\ IsForAll(SubSeq(splids, 1, t[x].len), t[x].id)
    <2> SUFFICES ASSUME NEW x \in DOMAIN t
                 PROVE  /\ ItemGood(t[x]) /\ t[x].len \in 1..max
                        /\ IsForAll(SubSeq(splids, 1, t[x].len), t[x].id)
      OBVIOUS
    <2>1. PICK i \in DOMAIN s : t[x] = s[i]
      BY <1>7
    <2> QED
      BY <1>2, <2>1 DEF Collected
  <1>11. ASSUME \A n \in 1..max : ~SplTwice(SubSeq(splids, 1, n), sent)
         PROVE  /\ \A x \in DOMAIN t : sent # <<>> => LemmaStr[t[x].id] # sent
                /\ \A n \in 1..max : \A id \in LemmaIds \ {LemmaNum} :
                     IsForAll(SubSeq(splids, 1, n), id) =>
                       \/ LemmaStr[id] = sent
                       \/ \E x \in DOMAIN t : LemmaStr[t[x].id] = LemmaStr[id]
    <2>1. /\ \A x \in DOMAIN s : sent # <<>> => LemmaStr[s[x].id] # sent
          /\ \A n \in 1..max : \A id \in LemmaIds \ {LemmaNum} :
               IsForAll(SubSeq(splids, 1, n), id) =>
                 \/ LemmaStr[id] = sent
                 \/ \E x \in DOMAIN s : LemmaStr[s[x].id] = LemmaStr[id]
      BY <1>2, <1>11 DEF Collected
    <2>2. \A x \in DOMAIN t : sent # <<>> => LemmaStr[t[x].id] # sent
      BY <1>7, <2>1
    <2>3. ASSUME NEW n \in 1..max, NEW id \in LemmaIds \ {LemmaNum},
                 IsForAll(SubSeq(splids, 1, n), id), LemmaStr[id] # sent
          PROVE  \E x \in DOMAIN t : LemmaStr[t[x].id] = LemmaStr[id]
      <3>1. PICK i \in DOMAIN s : LemmaStr[s[i].id] = LemmaStr[id]
        BY <2>1, <2>3
      <3>2. PICK k \in DOMAIN t : t[k] = s[i]
        BY <1>8
      <3> QED
        BY <3>1, <3>2
    <2> QED
      BY <2>2, <2>3
  <1> QED
    BY <1>1, <1>4, <1>6, <1>9, <1>10, <1>11 DEF Collected

(* How many are before an element, in an order, tells its place.           *)
LEMMA RanksAre ==
  ASSUME NEW S, IsFiniteSet(S), NEW R, Orders(R, S),
         NEW rank, rank = [x \in S |-> Cardinality({y \in S : <<y, x>> \in R})]
  PROVE  /\ rank \in [S -> 0..(Cardinality(S) - 1)]
         /\ \A x, y \in S : <<x, y>> \in R => rank[x] < rank[y]
         /\ \A k \in 0..(Cardinality(S) - 1) : \E x \in S : rank[x] = k
  <1> DEFINE n == Cardinality(S)
             below(x) == {y \in S : <<y, x>> \in R}
  <1>1. n \in Nat
    BY FS_CardinalityType
  <1>2. ASSUME NEW x \in S PROVE IsFiniteSet(below(x)) /\ Cardinality(below(x)) \in 0..(n - 1)
    <2>1. below(x) \in SUBSET S /\ below(x) # S
      BY DEF Orders
    <2>2. IsFiniteSet(below(x)) /\ Cardinality(below(x)) <= n /\ Cardinality(below(x)) # n
      <3> HIDE DEF below
      <3> QED
        BY <2>1, FS_Subset
    <2>3. Cardinality(below(x)) \in Nat
      BY <2>2, FS_CardinalityType
    <2> QED
      BY <1>1, <2>2, <2>3
  <1>3. ASSUME NEW x \in S, NEW y \in S, <<x, y>> \in R PROVE rank[x] < rank[y]
    <2>1. below(x) \in SUBSET below(y) /\ x \in below(y) /\ x \notin below(x)
      BY <1>3 DEF Orders
    <2>2. Cardinality(below(x)) <= Cardinality(below(y)) /\ Cardinality(below(x)) # Cardinality(below(y))
      <3> HIDE DEF below
      <3> QED
        BY <1>2, <2>1, FS_Subset
    <2>3. rank[x] = Cardinality(below(x)) /\ rank[y] = Cardinality(below(y))
      OBVIOUS
    <2> HIDE DEF below
    <2> QED
      BY ONLY <1>1, <1>2, <2>2, <2>3
  <1>4. rank \in [S -> 0..(n - 1)]
    <2>1. rank = [x \in S |-> Cardinality(below(x))]
      OBVIOUS
    <2> HIDE DEF below, n
    <2> QED
      BY ONLY <1>2, <2>1
  <1>5. ASSUME NEW x \in S, NEW y \in S, rank[x] = rank[y] PROVE x = y
    <2>1. rank[x] \in Int /\ rank[y] \in Int
      BY <1>4
    <2>2. CASE <<x, y>> \in R
      BY ONLY <1>3, <1>5, <2>1, <2>2, x \in S, y \in S
    <2>3. CASE <<y, x>> \in R
      BY ONLY <1>3, <1>5, <2>1, <2>3, x \in S, y \in S
    <2> QED
      BY <2>2, <2>3 DEF Orders
  <1>6. rank \in Surjection(S, 0..(n - 1))
    <2>1. rank \in Injection(S, 0..(n - 1))
      <3> HIDE DEF n
      <3> QED
        BY ONLY <1>4, <1>5 DEF Injection, IsInjective
    <2>2. IsFiniteSet(0..(n - 1)) /\ Cardinality(0..(n - 1)) = n
      <3>1. 0 \in Int /\ n - 1 \in Int
        BY <1>1
      <3>2. /\ IsFiniteSet(0..(n - 1))
            /\ Cardinality(0..(n - 1)) = IF 0 > n - 1 THEN 0 ELSE (n - 1) - 0 + 1
        BY <3>1, FS_Interval
      <3> HIDE DEF n
      <3> QED
        BY <1>1, <3>2
    <2> QED
      BY <2>1, <2>2, FS_Injection DEF n
  <1>7. \A k \in 0..(n - 1) : \E x \in S : rank[x] = k
    BY ONLY <1>6 DEF Surjection
  <1> QED
    BY <1>3, <1>4, <1>7

(* A finite set of numbers without gaps, from its least one on.            *)
LEMMA WithoutGaps ==
  ASSUME NEW F, F \subseteq Nat, IsFiniteSet(F), NEW a \in F, \A f \in F : a <= f,
         \A f, g \in F : \A y \in Int : f <= y /\ y <= g => y \in F
  PROVE  F = a..(a + Cardinality(F) - 1)
  <1>1. PICK n \in Nat : n = Cardinality(F)
    BY FS_CardinalityType
  <1>2. a \in Nat
    OBVIOUS
  <1>3. ASSUME NEW y \in a..(a + n - 1), y \notin F PROVE FALSE
    <2>1. y \in Int /\ a <= y
      BY <1>2
    <2>2. F \in SUBSET (a..(y - 1))
      <3> SUFFICES ASSUME NEW f \in F PROVE f \in a..(y - 1)
        OBVIOUS
      <3>1. f \in Nat /\ a <= f
        OBVIOUS
      <3>2. ~(y <= f)
        BY <1>3, <2>1
      <3> QED
        BY <2>1, <3>1, <3>2
    <2>3. IsFiniteSet(a..(y - 1)) /\ Cardinality(a..(y - 1)) = y - a
      <3>1. a \in Int /\ y - 1 \in Int
        BY <1>2, <2>1
      <3>2. /\ IsFiniteSet(a..(y - 1))
            /\ Cardinality(a..(y - 1)) = IF a > y - 1 THEN 0 ELSE (y - 1) - a + 1
        BY <3>1, FS_Interval
      <3> QED
        BY <1>2, <2>1, <3>2
    <2>4. n <= y - a
      <3>1. Cardinality(F) <= Cardinality(a..(y - 1))
        BY ONLY <2>2, <2>3, FS_Subset
      <3> QED
        BY <1>1, <2>3, <3>1
    <2> QED
      BY <1>2, <1>3, <2>1, <2>4
  <1>4. ASSUME NEW z \in F PROVE z \in a..(a + n - 1)
    <2>1. z \in Nat /\ a <= z
      OBVIOUS
    <2>2. a..z \in SUBSET F
      <3> SUFFICES ASSUME NEW y \in a..z PROVE y \in F
        OBVIOUS
      <3>1. y \in Int /\ a <= y /\ y <= z
        BY <1>2, <2>1
      <3> QED
        BY <3>1
    <2>3. Cardinality(a..z) = z - a + 1
      <3>1. a \in Int /\ z \in Int
        BY <1>2, <2>1
      <3>2. Cardinality(a..z) = IF a > z THEN 0 ELSE z - a + 1
        BY <3>1, FS_Interval
      <3> QED
        BY <1>2, <2>1, <3>2
    <2>4. z - a + 1 <= n
      BY <1>1, <2>2, <2>3, FS_Subset
    <2> QED
      BY <1>2, <2>1, <2>4
  <1> QED
    BY <1>1, <1>3, <1>4

(* What the first letters of a spelling become to be sorted.               *)
LEMMA BeginningIs ==
  ASSUME NEW s \in Spellings
  PROVE  /\ s \in Seq(97..122) /\ Len(s) \in Nat \ {0} /\ s[1] \in 97..122
         /\ \A i \in 1..Len(s) : s[i] \in 97..122
         /\ AtMost(s, 2) \in Doubled <=> Len(s) >= 2 /\ s[1] \in {99, 115, 122} /\ s[2] = 104
         /\ AtMost(s, 1) = <<s[1]>>
         /\ Len(s) >= 2 => AtMost(s, 2) = <<s[1], s[2]>>
         /\ Len(s) = 1 => AtMost(s, 2) = <<s[1]>>
  <1>1. s \in Seq(97..122) /\ s # <<>>
    BY SpellingsAssumption
  <1>2. PICK n \in Nat \ {0} : n = Len(s)
    BY <1>1
  <1>3. \A i \in 1..n : s[i] \in 97..122
    BY <1>1, <1>2
  <1>4. 1 \in 1..n /\ s[1] \in 97..122
    BY <1>3
  <1>5. AtMost(s, 1) = <<s[1]>>
    <2>1. AtMost(s, 1) = SubSeq(s, 1, 1)
      BY <1>2 DEF AtMost
    <2>2. PICK t : t = SubSeq(s, 1, 1)
      OBVIOUS
    <2>3. t \in Seq(97..122) /\ Len(t) = 1 /\ t[1] = s[1]
      BY <1>1, <1>2, <2>2
    <2> QED
      BY <2>1, <2>2, <2>3
  <1>6. Len(s) >= 2 => AtMost(s, 2) = <<s[1], s[2]>>
    <2> SUFFICES ASSUME n >= 2 PROVE AtMost(s, 2) = <<s[1], s[2]>>
      BY <1>2
    <2>1. AtMost(s, 2) = SubSeq(s, 1, 2)
      <3>1. (IF Len(s) < 2 THEN Len(s) ELSE 2) = 2
        BY <1>2
      <3> QED
        BY <3>1 DEF AtMost
    <2>2. PICK t : t = SubSeq(s, 1, 2)
      OBVIOUS
    <2>3. t \in Seq(97..122) /\ Len(t) = 2 /\ t[1] = s[1] /\ t[2] = s[2]
      BY <1>1, <1>2, <2>2
    <2> QED
      BY <2>1, <2>2, <2>3
  <1>7. Len(s) = 1 => AtMost(s, 2) = <<s[1]>>
    <2> SUFFICES ASSUME n = 1 PROVE AtMost(s, 2) = <<s[1]>>
      BY <1>2
    <2>1. (IF Len(s) < 2 THEN Len(s) ELSE 2) = 1 /\ (IF Len(s) < 1 THEN Len(s) ELSE 1) = 1
      BY <1>2
    <2>2. AtMost(s, 2) = SubSeq(s, 1, 1) /\ AtMost(s, 1) = SubSeq(s, 1, 1)
      BY <2>1 DEF AtMost
    <2> QED
      BY <1>5, <2>2
  <1>8. AtMost(s, 2) \in Doubled <=> Len(s) >= 2 /\ s[1] \in {99, 115, 122} /\ s[2] = 104
    <2>1. CASE n = 1
      <3>1. <<s[1]>> \notin Doubled
        <4>1. \A d \in Doubled : Len(d) = 2
          BY DEF Doubled
        <4>2. Len(<<s[1]>>) = 1
          OBVIOUS
        <4> QED
          BY <4>1, <4>2
      <3> QED
        BY <1>2, <1>7, <2>1, <3>1
    <2>2. CASE n # 1
      <3>1. n >= 2 /\ AtMost(s, 2) = <<s[1], s[2]>>
        BY <1>2, <1>6, <2>2
      <3>2. PICK b, c : b = s[1] /\ c = s[2]
        OBVIOUS
      <3>3. <<b, c>> \in Doubled <=> b \in {99, 115, 122} /\ c = 104
        BY DEF Doubled
      <3> QED
        BY <1>2, <3>1, <3>2, <3>3
    <2> QED
      BY <2>1, <2>2
  <1> QED
    BY <1>1, <1>2, <1>3, <1>4, <1>5, <1>6, <1>7, <1>8

LEMMA FormattedIs ==
  ASSUME NEW s \in Spellings, NEW f, f = Format(s)
  PROVE  /\ f \in Seq(Nat) /\ Len(f) = Len(s) /\ f[1] = s[1]
         /\ \A i \in 1..Len(s) :
              f[i] = IF i = 2 /\ s[1] \in {99, 115, 122} /\ s[2] = 104 THEN 200 ELSE s[i]
  <1>1. PICK n \in Nat \ {0} : n = Len(s)
    BY BeginningIs
  <1>2. /\ s \in Seq(97..122) /\ \A i \in 1..n : s[i] \in 97..122
        /\ AtMost(s, 2) \in Doubled <=> n >= 2 /\ s[1] \in {99, 115, 122} /\ s[2] = 104
    <2>1. s \in Seq(97..122) /\ \A i \in 1..Len(s) : s[i] \in 97..122
      BY ONLY s \in Spellings, BeginningIs
    <2>2. AtMost(s, 2) \in Doubled <=> Len(s) >= 2 /\ s[1] \in {99, 115, 122} /\ s[2] = 104
      BY ONLY s \in Spellings, BeginningIs
    <2> QED
      BY ONLY <1>1, <2>1, <2>2, Zenon
  <1>3. s \in Seq(Nat) /\ DOMAIN s = 1..n
    <2>1. PICK T : T = 97..122
      OBVIOUS
    <2>2. T \subseteq Nat /\ s \in Seq(T)
      BY <1>2, <2>1
    <2>3. s \in Seq(Nat)
      BY ONLY <2>2, SeqMonotonic
    <2> QED
      BY <1>1, <2>2, <2>3
  <1>4. 1 \in 1..n /\ 1 # 2
    OBVIOUS
  <1>5. CASE AtMost(s, 2) \in Doubled
    <2>1. f = [s EXCEPT ![2] = 200]
      BY <1>5 DEF Format
    <2>2. f \in Seq(Nat)
      <3>1. 200 \in Nat
        OBVIOUS
      <3> QED
        BY <1>3, <2>1, <3>1, ExceptIs
    <2>3. DOMAIN f = 1..n /\ \A i \in 1..n : f[i] = IF i = 2 THEN 200 ELSE s[i]
      BY <1>3, <2>1
    <2>4. Len(f) = n
      BY <2>2, <2>3
    <2> QED
      BY <1>1, <1>2, <1>4, <1>5, <2>2, <2>3, <2>4
  <1>6. CASE AtMost(s, 2) \notin Doubled
    <2>1. f = s
      BY <1>6 DEF Format
    <2>2. \A i \in 1..n : ~(i = 2 /\ s[1] \in {99, 115, 122} /\ s[2] = 104)
      BY <1>2, <1>6
    <2> QED
      BY <1>1, <1>3, <2>1, <2>2
  <1> QED
    BY <1>5, <1>6

LEMMA FormatsDiffer ==
  ASSUME NEW s \in Spellings, NEW t \in Spellings, Format(s) = Format(t)
  PROVE  s = t
  <1>1. PICK f : f = Format(s)
    OBVIOUS
  <1>2. PICK n \in Nat : n = Len(f) /\ n = Len(s) /\ n = Len(t)
    BY <1>1, FormattedIs
  <1>3. /\ s \in Seq(97..122) /\ t \in Seq(97..122)
        /\ \A i \in 1..n : s[i] \in 97..122 /\ t[i] \in 97..122
    <2>1. s \in Seq(97..122) /\ \A i \in 1..Len(s) : s[i] \in 97..122
      BY ONLY s \in Spellings, BeginningIs
    <2>2. t \in Seq(97..122) /\ \A i \in 1..Len(t) : t[i] \in 97..122
      BY ONLY t \in Spellings, BeginningIs
    <2> QED
      BY ONLY <1>2, <2>1, <2>2, Zenon
  <1>4. \A i \in 1..n : f[i] = IF i = 2 /\ s[1] \in {99, 115, 122} /\ s[2] = 104 THEN 200 ELSE s[i]
    BY <1>1, <1>2, FormattedIs
  <1>5. \A i \in 1..n : f[i] = IF i = 2 /\ t[1] \in {99, 115, 122} /\ t[2] = 104 THEN 200 ELSE t[i]
    BY <1>1, <1>2, FormattedIs
  <1>6. ASSUME NEW i \in 1..n PROVE s[i] = t[i]
    <2>1. CASE i # 2
      BY <1>4, <1>5, <2>1
    <2>2. CASE i = 2
      <3>1. 1 \in 1..n /\ 2 \in 1..n
        BY <2>2
      <3>2. PICK a \in 97..122, b \in 97..122, c \in 97..122 : a = s[1] /\ b = s[2] /\ c = t[2]
        BY <1>3, <3>1
      <3>3. a = t[1]
        BY <1>4, <1>5, <3>1, <3>2
      <3>4. /\ f[2] = IF a \in {99, 115, 122} /\ b = 104 THEN 200 ELSE b
            /\ f[2] = IF a \in {99, 115, 122} /\ c = 104 THEN 200 ELSE c
        BY <1>4, <1>5, <3>1, <3>2, <3>3
      <3>5. b = c
        BY ONLY <3>4, b \in 97..122, c \in 97..122
      <3> QED
        BY <2>2, <3>2, <3>5
    <2> QED
      BY <2>1, <2>2
  <1> QED
    BY ONLY <1>2, <1>3, <1>6, SeqEqual

(* Full ids count the spellings in their order.                            *)
LEMMA FullIdOrder ==
  /\ \A s, t \in Spellings : s # t => FullId[s] # FullId[t]
  /\ \A s, t \in Spellings : FullId[s] < FullId[t] => Before(Format(s), Format(t))
  /\ \A f \in FullIds : \E s \in Spellings : FullId[s] = f
  <1>1. PICK R : R = {p \in Spellings \X Spellings : Before(Format(p[1]), Format(p[2]))}
    OBVIOUS
  <1>2. PICK rank : rank = [x \in Spellings |-> Cardinality({y \in Spellings : <<y, x>> \in R})]
    OBVIOUS
  <1>3. \A s, t \in Spellings : <<s, t>> \in R <=> Before(Format(s), Format(t))
    BY <1>1
  <1>4. Orders(R, Spellings)
    <2>1. \A s \in Spellings : Format(s) \in Seq(Nat)
      BY FormattedIs
    <2>2. ASSUME NEW s \in Spellings PROVE <<s, s>> \notin R
      BY <1>3, <2>1, NeverBeforeItself
    <2>3. ASSUME NEW s \in Spellings, NEW t \in Spellings, s # t PROVE <<s, t>> \in R \/ <<t, s>> \in R
      <3>1. Format(s) # Format(t)
        BY <2>3, FormatsDiffer
      <3> QED
        BY <1>3, <2>1, <3>1, BeforeOrAfter
    <2>4. ASSUME NEW s \in Spellings, NEW t \in Spellings, NEW u \in Spellings,
                 <<s, t>> \in R, <<t, u>> \in R
          PROVE  <<s, u>> \in R
      <3>1. PICK a \in Seq(Nat), b \in Seq(Nat), c \in Seq(Nat) : a = Format(s) /\ b = Format(t) /\ c = Format(u)
        BY <2>1
      <3>2. Before(a, b) /\ Before(b, c)
        BY <1>3, <2>4, <3>1
      <3>3. Before(a, c)
        BY <3>2, BeforeOn
      <3> QED
        BY <1>3, <3>1, <3>3
    <2> QED
      BY <2>2, <2>3, <2>4 DEF Orders
  <1>5. PICK n \in Nat : n = Cardinality(Spellings)
    BY FS_CardinalityType, SpellingsAssumption
  <1>6. /\ rank \in [Spellings -> 0..(n - 1)]
        /\ \A x, y \in Spellings : <<x, y>> \in R => rank[x] < rank[y]
        /\ \A k \in 0..(n - 1) : \E x \in Spellings : rank[x] = k
    <2>1. IsFiniteSet(Spellings)
      BY SpellingsAssumption
    <2> QED
      BY ONLY <1>2, <1>4, <1>5, <2>1, RanksAre
  <1>7. \A s \in Spellings : FullId[s] = 30 + rank[s] /\ rank[s] \in Nat
    <2>1. ASSUME NEW s \in Spellings
          PROVE  {t \in Spellings : Before(Format(t), Format(s))} = {y \in Spellings : <<y, s>> \in R}
      BY <1>3
    <2>2. ASSUME NEW s \in Spellings PROVE FullId[s] = 30 + rank[s]
      BY <1>2, <2>1 DEF FullId, kFullSplIdStart
    <2>3. \A s \in Spellings : rank[s] \in Nat
      BY <1>6
    <2> QED
      BY <2>2, <2>3
  <1>8. ASSUME NEW s \in Spellings, NEW t \in Spellings, s # t
        PROVE  FullId[s] # FullId[t] /\ (FullId[s] < FullId[t] => Before(Format(s), Format(t)))
    <2>1. rank[s] \in Nat /\ rank[t] \in Nat /\ FullId[s] = 30 + rank[s] /\ FullId[t] = 30 + rank[t]
      BY <1>7
    <2>2. CASE <<s, t>> \in R
      <3>1. rank[s] < rank[t]
        BY <1>6, <2>2
      <3> QED
        BY <1>3, <2>1, <2>2, <3>1
    <2>3. CASE <<t, s>> \in R
      <3>1. rank[t] < rank[s]
        BY <1>6, <2>3
      <3> QED
        BY <2>1, <3>1
    <2> QED
      BY <1>4, <1>8, <2>2, <2>3 DEF Orders
  <1>9. ASSUME NEW f \in FullIds PROVE \E s \in Spellings : FullId[s] = f
    <2>1. f \in 30..(30 + n - 1)
      BY <1>5 DEF FullIds, kFullSplIdStart
    <2>2. f - 30 \in 0..(n - 1) /\ 30 + (f - 30) = f
      BY <2>1
    <2>3. PICK s \in Spellings : rank[s] = f - 30
      BY <1>6, <2>2
    <2> QED
      BY <1>7, <2>2, <2>3
  <1>10. ASSUME NEW s \in Spellings, NEW t \in Spellings, FullId[s] < FullId[t] PROVE s # t
    <2>1. FullId[s] \in Int
      BY <1>7
    <2> QED
      BY <1>10, <2>1
  <1> QED
    BY <1>8, <1>9, <1>10

(* What begins a spelling, of the nodes that have half ids.                *)
LEMMA HalfNodeIs ==
  ASSUME NEW n \in HalfNodes
  PROVE  /\ n \in Seq(97..122) /\ Len(n) \in {1, 2}
         /\ Len(n) = 2 => n \in Doubled /\ n = <<n[1], 104>> /\ n[1] \in {99, 115, 122}
         /\ \A s \in Spellings : AtMost(s, Len(n)) = n <=>
              s[1] = n[1] /\ (Len(n) = 2 => Len(s) >= 2 /\ s[2] = 104)
  <1>1. n \in Seq(97..122)
    <2>1. n \in SplNodes
      BY DEF HalfNodes
    <2> QED
      BY <2>1, NodesBegin
  <1>2. Len(n) = 1 \/ n \in Doubled
    BY DEF HalfNodes
  <1>3. n \in Doubled => Len(n) = 2 /\ n = <<n[1], 104>> /\ n[1] \in {99, 115, 122}
    BY DEF Doubled
  <1>4. ASSUME NEW s \in Spellings
        PROVE  AtMost(s, Len(n)) = n <=> s[1] = n[1] /\ (Len(n) = 2 => Len(s) >= 2 /\ s[2] = 104)
    <2>1. /\ Len(s) \in Nat \ {0} /\ AtMost(s, 1) = <<s[1]>>
          /\ Len(s) >= 2 => AtMost(s, 2) = <<s[1], s[2]>>
          /\ Len(s) = 1 => AtMost(s, 2) = <<s[1]>>
      BY BeginningIs
    <2>2. CASE Len(n) = 1
      <3>1. n = <<n[1]>>
        BY <1>1, <2>2
      <3>2. PICK a, b : a = s[1] /\ b = n[1]
        OBVIOUS
      <3>3. <<a>> = <<b>> <=> a = b
        OBVIOUS
      <3> QED
        BY <2>1, <2>2, <3>1, <3>2, <3>3
    <2>3. CASE n \in Doubled
      <3>1. PICK a, b : a = s[1] /\ b = n[1] /\ n = <<b, 104>> /\ Len(n) = 2
        BY <1>3, <2>3
      <3>2. CASE Len(s) = 1
        <4>1. AtMost(s, 2) = <<a>> /\ <<a>> # <<b, 104>>
          BY <2>1, <3>1, <3>2
        <4> QED
          BY <3>1, <3>2, <4>1
      <3>3. CASE Len(s) >= 2
        <4>1. PICK c : c = s[2]
          OBVIOUS
        <4>2. AtMost(s, 2) = <<a, c>>
          BY <2>1, <3>1, <3>3, <4>1
        <4>3. <<a, c>> = <<b, 104>> <=> a = b /\ c = 104
          OBVIOUS
        <4> QED
          BY <3>1, <3>3, <4>1, <4>2, <4>3
      <3>4. Len(s) = 1 \/ Len(s) >= 2
        <4>1. PICK len \in Nat \ {0} : len = Len(s)
          BY <2>1
        <4>2. len = 1 \/ len >= 2
          OBVIOUS
        <4> QED
          BY <4>1, <4>2
      <3> QED
        BY ONLY <3>2, <3>3, <3>4
    <2> QED
      BY <1>2, <2>2, <2>3
  <1>5. Len(n) \in {1, 2}
    BY <1>2, <1>3
  <1>6. Len(n) = 2 => n \in Doubled
    BY <1>2
  <1> QED
    BY ONLY <1>1, <1>3, <1>4, <1>5, <1>6

(* Between two spellings with the same beginning all have it: the h of zh, *)
(* ch, sh was made to sort last.                                           *)
LEMMA BetweenBegins ==
  ASSUME NEW n \in HalfNodes, NEW s \in Spellings, NEW t \in Spellings, NEW u \in Spellings,
         AtMost(s, Len(n)) = n, AtMost(u, Len(n)) = n,
         Before(Format(s), Format(t)), Before(Format(t), Format(u))
  PROVE  AtMost(t, Len(n)) = n
  <1>1. PICK a, b, c : a = Format(s) /\ b = Format(t) /\ c = Format(u)
    OBVIOUS
  <1>2. /\ a \in Seq(Nat) /\ Len(a) = Len(s) /\ a[1] = s[1]
        /\ \A i \in 1..Len(s) :
             a[i] = IF i = 2 /\ s[1] \in {99, 115, 122} /\ s[2] = 104 THEN 200 ELSE s[i]
    BY <1>1, FormattedIs
  <1>3. /\ b \in Seq(Nat) /\ Len(b) = Len(t) /\ b[1] = t[1]
        /\ \A i \in 1..Len(t) :
             b[i] = IF i = 2 /\ t[1] \in {99, 115, 122} /\ t[2] = 104 THEN 200 ELSE t[i]
    BY <1>1, FormattedIs
  <1>4. c \in Seq(Nat) /\ Len(c) = Len(u) /\ c[1] = u[1]
    BY <1>1, FormattedIs
  <1>5. /\ Len(s) \in Nat \ {0} /\ Len(t) \in Nat \ {0} /\ Len(u) \in Nat \ {0}
        /\ s[1] \in 97..122 /\ t[1] \in 97..122 /\ u[1] \in 97..122
        /\ \A i \in 1..Len(t) : t[i] \in 97..122
    BY BeginningIs
  <1>6. /\ s[1] = n[1] /\ u[1] = n[1] /\ (Len(n) = 2 => Len(s) >= 2 /\ s[2] = 104)
        /\ Len(n) \in {1, 2} /\ (Len(n) = 2 => n[1] \in {99, 115, 122})
        /\ AtMost(t, Len(n)) = n <=> t[1] = n[1] /\ (Len(n) = 2 => Len(t) >= 2 /\ t[2] = 104)
    BY HalfNodeIs
  <1>7. PICK k \in 1..Len(b) : /\ Len(a) >= k - 1 /\ \A i \in 1..(k - 1) : a[i] = b[i]
                               /\ Len(a) >= k => a[k] < b[k]
    BY <1>1 DEF Before
  <1>8. PICK l \in 1..Len(c) : /\ Len(b) >= l - 1 /\ \A i \in 1..(l - 1) : b[i] = c[i]
                               /\ Len(b) >= l => b[l] < c[l]
    BY <1>1 DEF Before
  <1>9. a[1] <= b[1]
    <2>1. PICK x \in Int, y \in Int : x = a[1] /\ y = b[1]
      BY ONLY <1>2, <1>3, <1>5
    <2>2. CASE k = 1
      <3>1. Len(a) >= k
        BY ONLY <1>2, <1>5, <2>2
      <3>2. x < y
        BY ONLY <1>7, <2>1, <2>2, <3>1
      <3> QED
        BY ONLY <2>1, <3>2, x \in Int, y \in Int
    <2>3. CASE k # 1
      <3>1. 1 \in 1..(k - 1)
        BY ONLY <1>3, <1>5, <2>3, k \in 1..Len(b)
      <3>2. x = y
        BY ONLY <1>7, <2>1, <3>1
      <3> QED
        BY ONLY <2>1, <3>2, x \in Int, y \in Int
    <2> QED
      BY ONLY <2>2, <2>3
  <1>10. b[1] <= c[1]
    <2>1. PICK x \in Int, y \in Int : x = b[1] /\ y = c[1]
      BY ONLY <1>3, <1>4, <1>5
    <2>2. CASE l = 1
      <3>1. Len(b) >= l
        BY ONLY <1>3, <1>5, <2>2
      <3>2. x < y
        BY ONLY <1>8, <2>1, <2>2, <3>1
      <3> QED
        BY ONLY <2>1, <3>2, x \in Int, y \in Int
    <2>3. CASE l # 1
      <3>1. 1 \in 1..(l - 1)
        BY ONLY <1>4, <1>5, <2>3, l \in 1..Len(c)
      <3>2. x = y
        BY ONLY <1>8, <2>1, <3>1
      <3> QED
        BY ONLY <2>1, <3>2, x \in Int, y \in Int
    <2> QED
      BY ONLY <2>2, <2>3
  <1>11. t[1] = n[1] /\ a[1] = b[1]
    <2>1. PICK x \in Int, y \in Int, z \in Int : x = a[1] /\ y = b[1] /\ z = c[1]
      <3>0. ASSUME NEW v \in 97..122 PROVE v \in Int
        BY ONLY v \in 97..122
      <3>1. s[1] \in Int /\ t[1] \in Int /\ u[1] \in Int
        BY ONLY <1>5, <3>0, Zenon
      <3>2. a[1] \in Int /\ b[1] \in Int /\ c[1] \in Int
        BY ONLY <1>2, <1>3, <1>4, <3>1, Zenon
      <3> QED
        BY ONLY <3>2
    <2>2. x <= y /\ y <= z /\ x = z
      BY ONLY <1>2, <1>4, <1>6, <1>9, <1>10, <2>1
    <2>3. x = y
      BY ONLY <2>2, x \in Int, y \in Int, z \in Int
    <2>4. t[1] = n[1]
      BY ONLY <1>2, <1>3, <1>6, <2>1, <2>3
    <2> QED
      BY ONLY <2>1, <2>3, <2>4
  <1>12. CASE Len(n) = 2
    <2>1. 2 \in 1..Len(s) /\ a[2] = 200 /\ s[1] \in {99, 115, 122} /\ s[2] = 104
      <3>1. 2 \in 1..Len(s) /\ s[1] \in {99, 115, 122} /\ s[2] = 104
        BY <1>5, <1>6, <1>12
      <3> QED
        BY <1>2, <3>1
    <2>2. k # 1
      <3>1. SUFFICES ASSUME k = 1 PROVE FALSE
        OBVIOUS
      <3>2. a[1] < b[1]
        BY <1>2, <1>5, <1>7, <3>1
      <3> QED
        BY <1>2, <1>5, <1>11, <3>2
    <2>3. 2 \in 1..Len(t)
      BY <1>3, <1>5, <1>7, <2>2
    <2>4. b[2] >= 200
      <3>1. b[2] \in Nat
        BY <1>3, <2>3
      <3>2. CASE k = 2
        BY <1>2, <1>7, <2>1, <3>1, <3>2
      <3>3. CASE k # 2
        <4>1. 2 \in 1..(k - 1)
          BY <1>3, <1>5, <2>2, <3>3
        <4> QED
          BY <1>7, <2>1, <4>1
      <3> QED
        BY <3>2, <3>3
    <2>5. t[2] = 104
      <3>1. PICK x \in 97..122 : x = t[2]
        BY <1>5, <2>3
      <3>2. b[2] = IF t[1] \in {99, 115, 122} /\ x = 104 THEN 200 ELSE x
        BY <1>3, <2>3, <3>1
      <3>3. PICK y \in Nat : y = b[2]
        BY <1>3, <2>3
      <3>4. y >= 200
        BY ONLY <2>4, <3>3
      <3>5. CASE t[1] \in {99, 115, 122} /\ x = 104
        BY ONLY <3>1, <3>5
      <3>6. CASE ~(t[1] \in {99, 115, 122} /\ x = 104)
        <4>1. y = x
          BY ONLY <3>2, <3>3, <3>6
        <4> QED
          BY ONLY <3>4, <4>1, x \in 97..122
      <3> QED
        BY ONLY <3>5, <3>6
    <2> QED
      BY <1>5, <1>6, <1>11, <1>12, <2>3, <2>5
  <1>13. CASE Len(n) = 1
    BY <1>6, <1>11, <1>13
  <1> QED
    BY <1>6, <1>12, <1>13

(* A half id stands for the spellings that begin as it does, and for no    *)
(* other: construct() sorts them side by side.                             *)
THEOREM HalfIdsStandFor ==
  ASSUME NEW h \in HalfIds
  PROVE  IdRange(h) = FullsOf(HalfNode[h])
  <1>1. PICK n \in HalfNodes : n = HalfNode[h]
    <2>1. \E x \in HalfNodes : HalfId(x) = h
      BY DEF HalfIds
    <2> QED
      BY <2>1 DEF HalfNode
  <1>2. PICK F : F = FullsOf(n)
    OBVIOUS
  <1>3. \A f : f \in F <=> \E s \in Spellings : AtMost(s, Len(n)) = n /\ f = FullId[s]
    BY <1>2 DEF FullsOf
  <1>4. F \subseteq FullIds /\ FullIds \subseteq Nat
    BY <1>3, FullIdIs, IdsAre DEF Ids
  <1>5. IsFiniteSet(F)
    <2>1. IsFiniteSet(FullIds)
      <3>1. Cardinality(Spellings) \in Nat
        BY FS_CardinalityType, SpellingsAssumption
      <3>2. kFullSplIdStart \in Int /\ kFullSplIdStart + Cardinality(Spellings) - 1 \in Int
        BY <3>1 DEF kFullSplIdStart
      <3> QED
        BY <3>2, FS_Interval DEF FullIds
    <2> QED
      BY <1>4, <2>1, FS_Subset
  <1>6. F # {}
    <2>1. n \in SplNodes
      BY DEF HalfNodes
    <2> QED
      BY <1>3, <2>1, NodesBegin
  <1>7. \E f \in F : \A g \in F : f <= g
    BY <1>4, <1>6, LeastNumber
  <1>8. PICK a \in F : a = H2FStart[h] /\ \A g \in F : a <= g
    <2>1. H2FStart[h] = CHOOSE f \in F : \A g \in F : f <= g
      BY <1>1, <1>2 DEF H2FStart
    <2> QED
      BY <1>7, <2>1
  <1>9. ASSUME NEW f \in F, NEW g \in F, NEW y \in Int, f <= y, y <= g PROVE y \in F
    <2>1. CASE y = f \/ y = g
      BY <2>1
    <2>2. CASE y # f /\ y # g
      <3>1. f \in Nat /\ g \in Nat /\ f < y /\ y < g
        BY <1>4, <1>9, <2>2
      <3>2. y \in FullIds
        <4>1. Cardinality(Spellings) \in Nat
          BY FS_CardinalityType, SpellingsAssumption
        <4>2. f \in FullIds /\ g \in FullIds
          BY <1>4
        <4> QED
          BY <3>1, <4>1, <4>2 DEF FullIds, kFullSplIdStart
      <3>3. PICK s \in Spellings : AtMost(s, Len(n)) = n /\ f = FullId[s]
        BY <1>3
      <3>4. PICK u \in Spellings : AtMost(u, Len(n)) = n /\ g = FullId[u]
        BY <1>3
      <3>5. PICK t \in Spellings : y = FullId[t]
        BY <3>2, FullIdOrder
      <3>6. Before(Format(s), Format(t)) /\ Before(Format(t), Format(u))
        BY <3>1, <3>3, <3>4, <3>5, FullIdOrder
      <3>7. AtMost(t, Len(n)) = n
        BY <3>3, <3>4, <3>6, BetweenBegins
      <3> QED
        BY <1>3, <3>5, <3>7
    <2> QED
      BY <2>1, <2>2
  <1>10. F = a..(a + Cardinality(F) - 1)
    BY <1>4, <1>5, <1>8, <1>9, WithoutGaps
  <1>11. IsHalfId(h) /\ H2FNum[h] = Cardinality(F)
    BY <1>1, <1>2, IdsAre DEF Ids, H2FNum
  <1>12. IdRange(h) = F
    BY <1>8, <1>10, <1>11 DEF IdRange, IdStart, IdNum
  <1> QED
    BY <1>1, <1>2, <1>12

(* A full id one of whose half ids is given is compatible with it: of two  *)
(* half ids the later one has two letters.                                 *)
LEMMA HalfFits ==
  ASSUME NEW h \in HalfIds, NEW f \in FullIds, f \in IdRange(h)
  PROVE  HalfFullCompatible(h, f)
  <1>1. PICK hs : hs = {g \in HalfIds : f \in IdRange(g)}
    OBVIOUS
  <1>2. h \in hs /\ hs \subseteq 1..29
    BY <1>1, HalfIdIs DEF HalfIds
  <1>3. \E g \in hs : \A i \in hs : i <= g
    <2>1. PICK S : S = {x \in Nat : 29 - x \in hs}
      OBVIOUS
    <2>2. 29 - h \in S
      <3>1. 29 - h \in Nat /\ 29 - (29 - h) = h
        BY <1>2
      <3> QED
        BY <1>2, <2>1, <3>1
    <2>3. PICK x \in S : \A y \in S : x <= y
      BY <2>1, <2>2, LeastNumber
    <2>4. ASSUME NEW i \in hs PROVE i <= 29 - x
      <3>1. i \in 1..29 /\ 29 - i \in Nat /\ 29 - (29 - i) = i
        BY <1>2
      <3>2. 29 - i \in S
        BY <2>1, <3>1
      <3>3. x <= 29 - i /\ x \in Nat
        BY <2>1, <2>3, <3>2
      <3> QED
        BY <3>1, <3>3
    <2>5. 29 - x \in hs
      BY <2>1
    <2> QED
      BY <2>4, <2>5
  <1>4. FullToHalf[f] = CHOOSE g \in hs : \A i \in hs : i <= g
    BY <1>1, <1>2 DEF FullToHalf
  <1>5. PICK g \in hs : g = FullToHalf[f] /\ h <= g
    BY <1>2, <1>3, <1>4
  <1>6. g \in HalfIds /\ f \in IdRange(g) /\ g # 0 /\ g \in Nat /\ h \in Nat
    BY <1>1, <1>2, <1>5
  <1>7. \A i \in HalfIds : HalfNode[i] \in HalfNodes /\ HalfId(HalfNode[i]) = i
    BY DEF HalfIds, HalfNode
  <1>8. PICK v \in HalfNodes, w \in HalfNodes : v = HalfNode[h] /\ w = HalfNode[g] /\ HalfId(v) = h /\ HalfId(w) = g
    BY <1>6, <1>7
  <1>9. f \in FullsOf(v) /\ f \in FullsOf(w)
    BY <1>6, <1>8, HalfIdsStandFor
  <1>10. PICK s \in Spellings : AtMost(s, Len(v)) = v /\ f = FullId[s]
    BY <1>9 DEF FullsOf
  <1>11. PICK t \in Spellings : AtMost(t, Len(w)) = w /\ f = FullId[t]
    BY <1>9 DEF FullsOf
  <1>12. s = t
    BY <1>10, <1>11, FullIdOrder
  <1>13. v[1] = w[1]
    BY <1>10, <1>11, <1>12, HalfNodeIs
  <1>14. CASE Len(v) = 1
    BY <1>5, <1>6, <1>8, <1>13, <1>14 DEF HalfFullCompatible
  <1>15. CASE Len(v) = 2 /\ Len(w) = 2
    <2>1. v = w
      BY <1>13, <1>15, HalfNodeIs
    <2> QED
      BY <1>5, <1>8, <2>1 DEF HalfFullCompatible
  <1>16. CASE Len(v) = 2 /\ Len(w) = 1
    <2>1. PICK c : c = v[1] - 96 + Cardinality({d \in Doubled : d[1] < v[1]})
      OBVIOUS
    <2>2. h = c + (Len(v) - 1)
      BY <1>8, <2>1 DEF HalfId
    <2>3. g = c + (Len(w) - 1)
      BY <1>8, <1>13, <2>1 DEF HalfId
    <2>4. c \in Int
      <3>1. v[1] \in 97..122
        <4>1. v \in Seq(97..122) /\ 1 \in 1..Len(v)
          BY <1>16, HalfNodeIs
        <4> QED
          BY ONLY <4>1, ElementOfSeq
      <3>2. Cardinality({d \in Doubled : d[1] < v[1]}) \in Nat
        <4>1. IsFiniteSet(Doubled)
          <5>1. PICK A : A = {<<99, 104>>}
            OBVIOUS
          <5>2. PICK B : B = A \cup {<<115, 104>>}
            OBVIOUS
          <5>3. PICK C : C = B \cup {<<122, 104>>}
            OBVIOUS
          <5>4. IsFiniteSet(A)
            BY ONLY <5>1, FS_Singleton
          <5>5. IsFiniteSet(B)
            BY ONLY <5>2, <5>4, FS_AddElement
          <5>6. IsFiniteSet(C)
            BY ONLY <5>3, <5>5, FS_AddElement
          <5>7. Doubled = C
            BY ONLY <5>1, <5>2, <5>3 DEF Doubled
          <5> QED
            BY ONLY <5>6, <5>7
        <4>2. {d \in Doubled : d[1] < v[1]} \in SUBSET Doubled
          OBVIOUS
        <4> QED
          BY <4>1, <4>2, FS_Subset, FS_CardinalityType
      <3> QED
        BY <2>1, <3>1, <3>2
    <2>5. g < h
      BY <1>16, <2>2, <2>3, <2>4
    <2> QED
      BY <1>5, <1>6, <2>5
  <1> QED
    BY <1>14, <1>15, <1>16, HalfNodeIs

(* The spelling of a word is found again.                                  *)
LEMMA SpellingFound ==
  ASSUME NEW known \in Seq(Ids), NEW id \in LemmaIds, id # LemmaNum, IsForAll(known, id)
  PROVE  LemmaSplids(id, known) = {Lemmas[id].spl}
  <1>1. PICK spl, word : spl = Lemmas[id].spl /\ word = Lemmas[id].word
    OBVIOUS
  <1>2. PICK n \in Nat \ {0} : n = Len(spl) /\ n = Len(word) /\ n = Len(known)
    <2>1. Len(spl) = Len(word) /\ Len(spl) \in 1..8
      BY <1>1, WordsAre DEF kMaxLemmaSize
    <2>2. Len(spl) = Len(known)
      BY <1>1 DEF IsForAll
    <2> QED
      BY <2>1, <2>2
  <1>3. spl \in Seq(FullIds) /\ word \in Seq(Nat)
    BY <1>1, LemmasAre, WordsAre
  <1>4. DOMAIN spl = 1..n /\ DOMAIN word = 1..n /\ DOMAIN known = 1..n /\ known # <<>>
    <2>1. DOMAIN spl = 1..n
      BY ONLY <1>2, <1>3, LenProperties
    <2>2. DOMAIN word = 1..n
      BY ONLY <1>2, <1>3, LenProperties
    <2>3. DOMAIN known = 1..n
      BY ONLY <1>2, known \in Seq(Ids), LenProperties
    <2>4. known # <<>>
      BY <1>2
    <2> QED
      BY ONLY <2>1, <2>2, <2>3, <2>4
  <1>5. LemmaStr[id] = word
    BY <1>1, WordsAre
  <1>6. spl \in Paths
    <2>1. SubSeq(spl, 1, n) = spl /\ n \in 0..Len(spl)
      <3>1. n \in 0..n
        OBVIOUS
      <3>2. SubSeq(spl, 1, n) = spl
        BY ONLY <1>2, <1>3, SubSeqFull
      <3> QED
        BY ONLY <1>2, <3>1, <3>2
    <2> QED
      BY <1>1, <2>1 DEF Paths
  <1> DEFINE may(k) == IF known # <<>> /\ known[k] >= kFullSplIdStart THEN {known[k]}
                       ELSE SplidsForHanzi(word[k], IF known = <<>> THEN 0 ELSE known[k])
  <1>7. LemmaSplids(id, known) =
          {p \in Paths : /\ Len(p) = Len(word) /\ \A k \in DOMAIN p : p[k] \in may(k)
                         /\ \E i \in DOMAIN Homos[p] : Homos[p][i] = id}
    BY <1>5 DEF LemmaSplids
  <1>8. ASSUME NEW k \in 1..n PROVE spl[k] \in may(k)
    <2>1. known[k] \in Ids /\ spl[k] \in FullIds /\ spl[k] \in IdRange(known[k])
      BY <1>1, <1>2, <1>3, <1>4 DEF IsForAll, Among
    <2>2. CASE known[k] >= kFullSplIdStart
      <3>0. PICK x \in Nat : x = known[k]
        BY <2>1, IdsAre
      <3>1. ~IsHalfId(known[k]) /\ known[k] \in Nat
        <4>1. x >= 30
          BY <2>2, <3>0 DEF kFullSplIdStart
        <4>2. ~IsHalfId(x)
          BY ONLY <4>1, x \in Nat DEF IsHalfId, kFullSplIdStart
        <4> QED
          BY ONLY <3>0, <4>2
      <3>2. IdRange(known[k]) = known[k]..(known[k] + 1 - 1)
        BY <3>1 DEF IdRange, IdStart, IdNum
      <3>3. spl[k] = known[k]
        <4>1. PICK y \in Nat : y = known[k]
          BY <3>1
        <4>2. spl[k] \in y..y
          BY <2>1, <3>2, <4>1
        <4> QED
          BY <4>1, <4>2
      <3> QED
        BY <1>4, <2>2, <3>3
    <2>3. CASE ~(known[k] >= kFullSplIdStart)
      <3>1. IsHalfId(known[k])
        <4>1. PICK x \in Nat : x = known[k] /\ x # 0
          BY <2>1, IdsAre
        <4>2. ~(x >= 30)
          BY <2>3, <4>1 DEF kFullSplIdStart
        <4>3. IsHalfId(x)
          BY ONLY <4>1, <4>2, x \in Nat DEF IsHalfId, kFullSplIdStart
        <4> QED
          BY ONLY <4>1, <4>3
      <3>2. known[k] \in HalfIds
        BY <2>1, <3>1, IdsAre
      <3>3. HalfFullCompatible(known[k], spl[k])
        BY <2>1, <3>2, HalfFits
      <3>4. <<word[k], spl[k]>> \in Scis
        BY <1>1, <1>4 DEF Scis
      <3> QED
        BY <1>4, <2>1, <2>3, <3>3, <3>4 DEF SplidsForHanzi
    <2> QED
      BY <2>2, <2>3
  <1> HIDE DEF may
  <1>9. \E i \in DOMAIN Homos[spl] : Homos[spl][i] = id
    <2>1. PICK h : h = Homos[spl]
      OBVIOUS
    <2>2. \E i \in DOMAIN h : h[i] = id
      BY <1>1, <1>6, <2>1, HomosInOrder
    <2> QED
      BY <2>1, <2>2
  <1>10. ASSUME NEW p \in Paths, \E i \in DOMAIN Homos[p] : Homos[p][i] = id PROVE p = spl
    <2>1. PICK h : h = Homos[p]
      OBVIOUS
    <2>2. \A k \in DOMAIN h : Lemmas[h[k]].spl = p
      BY <2>1, HomosInOrder
    <2> QED
      BY <1>1, <1>10, <2>1, <2>2
  <1>11. Len(spl) = Len(word)
    BY <1>2
  <1> QED
    BY <1>1, <1>4, <1>6, <1>7, <1>8, <1>9, <1>10, <1>11
=============================================================================
