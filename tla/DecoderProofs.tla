--------------------------- MODULE DecoderProofs ----------------------------
(***************************************************************************)
(* Proofs about the pinyin decoder, for any spellings, lemmas, strings     *)
(* and sizes: its rows, matches, mile stones and nodes always account for  *)
(* each other, and what a search finds does not depend on the searches     *)
(* before it.                                                              *)
(***************************************************************************)
EXTENDS DictProofs

LEMMA Sizes ==
  /\ kMaxRowNum \in Nat \ {0} /\ kMaxPinyinSize \in Nat \ {0} /\ kMaxSpellings \in Nat \ {0}
  /\ kMaxNodeARow \in Nat \ {0} /\ kMaxLpiCachePerId \in Nat \ {0} /\ kMaxRowNum > 1
  BY SizesAssumption

(***************************************************************************)
(* What extending a match finds, from where it stands.                     *)
(***************************************************************************)
(* Sorting by score loses and invents nothing.                             *)
LEMMA ByPsbIs ==
  ASSUME NEW s \in Seq(ItemSet)
  PROVE  /\ ByPsb(s) \in Seq(ItemSet) /\ Len(ByPsb(s)) = Len(s)
         /\ \A k \in DOMAIN ByPsb(s) : \E i \in DOMAIN s : ByPsb(s)[k] = s[i]
  <1> DEFINE lt == {p \in (DOMAIN s) \X (DOMAIN s) : s[p[1]].psb < s[p[2]].psb}
  <1>1. DOMAIN s = 1..Len(s) /\ Len(s) \in Nat /\ \A i \in DOMAIN s : s[i].psb \in Nat
    <2>1. \A x \in ItemSet : x.psb \in Nat
      BY DEF ItemSet
    <2> QED
      BY <2>1
  <1>2. Orders(PlacesBy(s, lt), DOMAIN s)
    BY <1>1 DEF Orders, PlacesBy
  <1>3. ByPsb(s) = Sorted(s, lt)
    BY DEF ByPsb
  <1> HIDE DEF lt
  <1> QED
    BY <1>2, <1>3, SortedIs

(* What put_cache() keeps of a half id.                                    *)
CacheOf(half) == AtMost(ByPsb(RootItems(half)), kMaxLpiCachePerId)

(* Of a match that stands on u, or the root when s = 0, extended: the runs *)
(* of nodes, the nodes and the items in the order they are used.           *)
RunsOf(u, s, splid) ==
  IF s = 0 THEN <<RootRun(splid)>> ELSE SonRuns(u, IdRange(splid))
NodesOf(u, s, splid) ==
  IF s = 0 THEN RootRun(splid) ELSE FlattenSeq(SonRuns(u, IdRange(splid)))
LpisOf(u, s, splid) ==
  IF s = 0 THEN IF IsHalfId(splid) THEN CacheOf(splid) ELSE ByPsb(RootItems(splid))
  ELSE ByPsb(ItemsOf(NodesOf(u, s, splid)))

LEMMA CacheOfIs ==
  ASSUME NEW id \in Ids
  PROVE  /\ CacheOf(id) \in Seq(ItemSet) /\ CacheOf(id) # <<>>
         /\ \A k \in DOMAIN CacheOf(id) : Stands(CacheOf(id)[k], RootRun(id))
         /\ ByPsb(RootItems(id)) \in Seq(ItemSet) /\ ByPsb(RootItems(id)) # <<>>
         /\ \A k \in DOMAIN ByPsb(RootItems(id)) : Stands(ByPsb(RootItems(id))[k], RootRun(id))
  <1>1. PICK r : r = RootItems(id)
    OBVIOUS
  <1>2. r \in Seq(ItemSet) /\ r # <<>> /\ \A k \in DOMAIN r : Stands(r[k], RootRun(id))
    BY <1>1, RootItemsAre
  <1>3. PICK b : b = ByPsb(r)
    OBVIOUS
  <1>4. b \in Seq(ItemSet) /\ Len(b) = Len(r) /\ \A k \in DOMAIN b : \E i \in DOMAIN r : b[k] = r[i]
    BY <1>2, <1>3, ByPsbIs
  <1>5. b # <<>> /\ \A k \in DOMAIN b : Stands(b[k], RootRun(id))
    <2>1. Len(r) # 0
      BY <1>2
    <2> QED
      BY <1>2, <1>4, <2>1
  <1>6. PICK n \in Nat \ {0} : n = kMaxLpiCachePerId
    BY Sizes
  <1>7. PICK a : a = AtMost(b, n)
    OBVIOUS
  <1>8. a \in Seq(ItemSet) /\ a # <<>> /\ \A k \in DOMAIN a : k \in DOMAIN b /\ a[k] = b[k]
    BY <1>4, <1>5, <1>6, <1>7, AtMostIs
  <1>9. CacheOf(id) = a
    BY <1>1, <1>3, <1>6, <1>7 DEF CacheOf
  <1> QED
    BY <1>1, <1>3, <1>4, <1>5, <1>8, <1>9

LEMMA FoundIs ==
  ASSUME NEW n \in Nat, NEW u, NEW s, s # 0 => u \in Seq(PathsOf(n)), NEW splid \in Ids,
         NEW level, level = IF s = 0 THEN 1 ELSE n + 1
  PROVE  /\ RunsOf(u, s, splid) \in Seq(Seq(PathsOf(level)))
         /\ NodesOf(u, s, splid) \in Seq(PathsOf(level))
         /\ FlattenSeq(RunsOf(u, s, splid)) = NodesOf(u, s, splid)
         /\ LpisOf(u, s, splid) \in Seq(ItemSet)
         /\ \A k \in DOMAIN LpisOf(u, s, splid) : Stands(LpisOf(u, s, splid)[k], NodesOf(u, s, splid))
         /\ s = 0 => RunsOf(u, s, splid) # <<>> /\ LpisOf(u, s, splid) # <<>>
         /\ RunsOf(u, s, splid) = <<>> => NodesOf(u, s, splid) = <<>> /\ LpisOf(u, s, splid) = <<>>
  <1>1. CASE s = 0
    <2>1. PICK r : r = RootRun(splid)
      OBVIOUS
    <2>2. r \in Seq(PathsOf(1))
      BY <2>1, RootRunIs
    <2>3. <<r>> \in Seq(Seq(PathsOf(1))) /\ <<r>> # <<>>
      BY <2>2
    <2>4. FlattenSeq(<<r>>) = r
      BY FlattenOne
    <2>5. RunsOf(u, s, splid) = <<r>> /\ NodesOf(u, s, splid) = r
      BY <1>1, <2>1 DEF RunsOf, NodesOf
    <2>6. \/ LpisOf(u, s, splid) = CacheOf(splid) \/ LpisOf(u, s, splid) = ByPsb(RootItems(splid))
      BY <1>1 DEF LpisOf
    <2>7. /\ LpisOf(u, s, splid) \in Seq(ItemSet) /\ LpisOf(u, s, splid) # <<>>
          /\ \A k \in DOMAIN LpisOf(u, s, splid) : Stands(LpisOf(u, s, splid)[k], r)
      BY <2>1, <2>6, CacheOfIs
    <2> QED
      BY <1>1, <2>2, <2>3, <2>4, <2>5, <2>7
  <1>2. CASE s # 0
    <2>1. PICK runs : runs = SonRuns(u, IdRange(splid))
      OBVIOUS
    <2>2. runs \in Seq(Seq(PathsOf(n + 1))) /\ FlattenSeq(runs) \in Seq(PathsOf(n + 1))
      <3>1. PICK lo \in Int, hi \in Int : IdRange(splid) = lo..hi
        <4>1. IdStart(splid) \in Int /\ IdStart(splid) + IdNum(splid) - 1 \in Int
          BY IdsStandFor
        <4> QED
          BY <4>1, IdsStandFor
      <3> QED
        BY <1>2, <2>1, <3>1, SonRunsAre
    <2>3. PICK v : v = FlattenSeq(runs)
      OBVIOUS
    <2>4. PICK i : i = ItemsOf(v)
      OBVIOUS
    <2>5. i \in Seq(ItemSet) /\ \A k \in DOMAIN i : Stands(i[k], v)
      BY <2>2, <2>3, <2>4, ItemsOfAre
    <2>6. PICK b : b = ByPsb(i)
      OBVIOUS
    <2>7. b \in Seq(ItemSet) /\ Len(b) = Len(i) /\ \A k \in DOMAIN b : \E j \in DOMAIN i : b[k] = i[j]
      BY <2>5, <2>6, ByPsbIs
    <2>8. runs = <<>> => v = <<>> /\ b = <<>>
      <3> SUFFICES ASSUME runs = <<>> PROVE v = <<>> /\ b = <<>>
        OBVIOUS
      <3>0. DOMAIN runs = {}
        OBVIOUS
      <3>1. v = <<>>
        <4>1. \A k \in DOMAIN v : \E j \in DOMAIN runs : TRUE
          BY <2>2, <2>3, FlattenIs
        <4>2. DOMAIN v = {}
          BY <3>0, <4>1
        <4> QED
          BY <2>2, <2>3, <4>2
      <3>2. i = <<>>
        <4>1. DOMAIN v = {}
          BY <3>1
        <4>2. DOMAIN i = {}
          BY <2>5, <4>1 DEF Stands
        <4> QED
          BY <2>5, <4>2
      <3> QED
        BY <2>7, <3>1, <3>2
    <2>9. \A k \in DOMAIN b : Stands(b[k], v)
      BY <2>5, <2>7
    <2>10. RunsOf(u, s, splid) = runs /\ NodesOf(u, s, splid) = v /\ LpisOf(u, s, splid) = b
      BY <1>2, <2>1, <2>3, <2>4, <2>6 DEF RunsOf, NodesOf, LpisOf
    <2> QED
      BY <1>2, <2>2, <2>3, <2>7, <2>8, <2>9, <2>10
  <1> QED
    BY <1>1, <1>2

(***************************************************************************)
(* Putting nodes into a row.  The loops of the module, step by step.       *)
(***************************************************************************)
PutAt(nodes, new, lpis, k) == PutItem(nodes, new, lpis[k], k = 1)
LEMMA PutNodesLoop ==
  ASSUME NEW nodes, NEW lpis, NEW new, Len(lpis) \in Nat
  PROVE  \E f : /\ f[0] = nodes
                /\ \A k \in (0 + 1)..(Len(lpis)) : f[k] = PutAt(f[k - 1], new, lpis, k)
                /\ PutNodes(nodes, lpis, new) = f[Len(lpis)]
  <1> DEFINE last == Len(lpis)
             Then(v, k) == PutAt(v, new, lpis, k)
             Goes(top, f) == f = [k \in 0..top |-> IF k = 0 THEN nodes ELSE Then(f[k - 1], k)]
             S == {top \in Nat : \E f : Goes(top, f)}
  <1>1. PutNodes(nodes, lpis, new) = (CHOOSE f : Goes(last, f))[last]
    BY DEF PutNodes, PutAt
  <1> HIDE DEF last, Then
  <1>2. 0 \in S
    <2>1. Goes(0, [k \in 0..0 |-> nodes])
      OBVIOUS
    <2>2. 0 = 0
      OBVIOUS
    <2> HIDE DEF Goes
    <2> QED
      BY <2>1, <2>2
  <1>3. ASSUME NEW top \in Nat, top \in S PROVE top + 1 \in S
    <2> DEFINE e == top
    <2>1. PICK f : Goes(e, f)
      BY <1>3
    <2>i. e \in Nat /\ e >= 0 /\ e + 1 = (top + 1)
      OBVIOUS
    <2> HIDE DEF e
    <2> DEFINE g == [k \in 0..(e + 1) |-> IF k = e + 1 THEN Then(f[e], e + 1) ELSE f[k]]
    <2>2. ASSUME NEW k \in 0..(e + 1)
          PROVE  g[k] = IF k = 0 THEN nodes ELSE Then(g[k - 1], k)
      <3>1. CASE k = e + 1
        BY <2>1, <2>i, <3>1
      <3>2. CASE k \in 0..e
        <4>0. k # e + 1 /\ k \in 0..(e + 1)
          BY <2>i, <3>2
        <4>1. g[k] = f[k]
          BY <4>0
        <4>3. f[k] = IF k = 0 THEN nodes ELSE Then(f[k - 1], k)
          <5> HIDE DEF g
          <5> QED
            BY <2>1, <3>2
        <4>2. k # 0 => g[k - 1] = f[k - 1]
          BY <2>i, <3>2
        <4> HIDE DEF g
        <4> QED
          BY <4>1, <4>2, <4>3
      <3> QED
        BY <2>i, <3>1, <3>2
    <2>3. Goes(e + 1, g)
      BY <2>2
    <2> HIDE DEF g, Goes
    <2> QED
      BY <2>i, <2>3
  <1>4. \E f : Goes(last, f)
    <2>1. last \in S
      <3> HIDE DEF S
      <3>1. last \in Nat
        BY DEF last
      <3> QED
        BY <1>2, <1>3, <3>1, Induction
    <2>2. (last) = last
      BY DEF last
    <2> HIDE DEF Goes
    <2> QED
      BY <2>1, <2>2
  <1>5. Goes(last, CHOOSE f : Goes(last, f))
    <2> HIDE DEF Goes
    <2> QED
      BY <1>4
  <1> DEFINE f == CHOOSE f : Goes(last, f)
  <1>6. f = [k \in 0..last |-> IF k = 0 THEN nodes ELSE Then(f[k - 1], k)]
    BY <1>5
  <1>7. last \in Nat /\ last >= 0
    BY DEF last
  <1> HIDE DEF f
  <1>8. f[0] = nodes /\ \A k \in (0 + 1)..last : f[k] = Then(f[k - 1], k)
    <2>1. 0 \in 0..last
      BY <1>7
    <2>2. ASSUME NEW k \in (0 + 1)..last PROVE k \in 0..last /\ k # 0
      BY <1>7
    <2> QED
      BY <1>6, <2>1, <2>2
  <1> QED
    BY <1>1, <1>8 DEF f, last, Then

(* The node an item makes.                                                 *)
Made(new, item) == [new EXCEPT !.id = item.id, !.score = new.score + item.psb]

LEMMA SeqDomain ==
  ASSUME NEW T, NEW s \in Seq(T)
  PROVE  /\ Len(s) \in Nat /\ DOMAIN s = 1..Len(s) /\ IsFiniteSet(DOMAIN s)
         /\ Cardinality(DOMAIN s) = Len(s)
  <1>1. PICK l \in Nat : l = Len(s)
    OBVIOUS
  <1>2. DOMAIN s = 1..l
    BY <1>1
  <1>3. IsFiniteSet(1..l) /\ Cardinality(1..l) = l
    BY FS_Interval
  <1> QED
    BY <1>1, <1>2, <1>3

(* An item put in its place, or pruned, keeps the row a sequence of what   *)
(* it holds; the first item put is never pruned.                           *)
LEMMA PutItemIs ==
  ASSUME NEW T, NEW nodes \in Seq(T), NEW new, NEW item, NEW first \in BOOLEAN,
         Made(new, item) \in T
  PROVE  /\ PutItem(nodes, new, item, first) \in Seq(T)
         /\ first \/ nodes # <<>> => PutItem(nodes, new, item, first) # <<>>
  <1> DEFINE score == new.score + item.psb
             node == [new EXCEPT !.id = item.id, !.score = score]
             lower == {j \in DOMAIN nodes : nodes[j].score <= score}
             place == 1 + Cardinality(lower)
             put == InsertAt(nodes, place, node)
  <1>1. node \in T
    BY DEF Made
  <1>2. place \in 1..(Len(nodes) + 1)
    <2>1. IsFiniteSet(DOMAIN nodes) /\ Cardinality(DOMAIN nodes) = Len(nodes) /\ Len(nodes) \in Nat
      <3> HIDE DEF lower, node, place, put
      <3> QED
        BY SeqDomain
    <2>2. lower \in SUBSET (DOMAIN nodes)
      OBVIOUS
    <2> HIDE DEF lower
    <2>3. IsFiniteSet(lower) /\ Cardinality(lower) <= Cardinality(DOMAIN nodes)
      BY <2>1, <2>2, FS_Subset
    <2>4. Cardinality(lower) \in Nat
      BY <2>3, FS_CardinalityType
    <2> QED
      BY <2>1, <2>3, <2>4
  <1>3. PutItem(nodes, new, item, first) =
          IF ~first /\ score - PrunningScore > nodes[1].score THEN nodes ELSE AtMost(put, kMaxNodeARow)
    BY DEF PutItem
  <1> HIDE DEF place, node, score
  <1>4. put \in Seq(T) /\ put # <<>>
    <2>1. PICK a : a = SubSeq(nodes, 1, place - 1)
      OBVIOUS
    <2>2. PICK b : b = SubSeq(nodes, place, Len(nodes))
      OBVIOUS
    <2>3. a \in Seq(T)
      BY <1>2, <2>1
    <2>4. b \in Seq(T)
      BY <1>2, <2>2
    <2>5. put = a \o <<node>> \o b
      BY <2>1, <2>2 DEF InsertAt
    <2>6. <<node>> \in Seq(T) /\ Len(<<node>>) = 1
      BY <1>1
    <2>7. a \o <<node>> \in Seq(T) /\ Len(a \o <<node>>) = Len(a) + 1
      BY <2>3, <2>6
    <2>8. put \in Seq(T) /\ Len(put) = Len(a) + 1 + Len(b)
      BY <2>4, <2>5, <2>7
    <2>9. Len(put) # 0
      BY <2>3, <2>4, <2>8
    <2> HIDE DEF put
    <2> QED
      BY <2>8, <2>9
  <1> HIDE DEF put
  <1>5. AtMost(put, kMaxNodeARow) \in Seq(T) /\ AtMost(put, kMaxNodeARow) # <<>>
    BY <1>4, AtMostIs, Sizes
  <1> QED
    BY <1>3, <1>5

LEMMA PutNodesIs ==
  ASSUME NEW T, NEW nodes \in Seq(T), NEW new, NEW lpis, Len(lpis) \in Nat,
         \A k \in 1..Len(lpis) :
           Made(new, lpis[k]) \in T
  PROVE  /\ PutNodes(nodes, lpis, new) \in Seq(T)
         /\ Len(lpis) # 0 \/ nodes # <<>> => PutNodes(nodes, lpis, new) # <<>>
  <1>1. PICK f : /\ f[0] = nodes
                 /\ \A k \in (0 + 1)..(Len(lpis)) : f[k] = PutAt(f[k - 1], new, lpis, k)
                 /\ PutNodes(nodes, lpis, new) = f[Len(lpis)]
    BY PutNodesLoop
  <1> DEFINE n == Len(lpis)
             S == {k \in Nat : f[k] \in Seq(T) /\ (k # 0 \/ nodes # <<>> => f[k] # <<>>)}
  <1>2. 0 \in S
    BY <1>1
  <1>3. ASSUME NEW k \in 1..n, k - 1 \in S PROVE k \in S
    <2>0. k \in Nat /\ k # 0 /\ (k = 1 \/ k - 1 # 0)
      OBVIOUS
    <2>1. PICK v : v = f[k - 1]
      OBVIOUS
    <2>2. v \in Seq(T) /\ (k = 1 \/ v # <<>>)
      BY <1>3, <2>0, <2>1
    <2>3. PICK b \in BOOLEAN : b <=> k = 1
      <3>1. (k = 1) \in BOOLEAN
        OBVIOUS
      <3> QED
        BY <3>1
    <2>4. Made(new, lpis[k]) \in T
      OBVIOUS
    <2>5. PICK i : i = lpis[k]
      OBVIOUS
    <2>6. b \/ v # <<>>
      BY <2>2, <2>3
    <2>7. PutItem(v, new, i, b) \in Seq(T) /\ PutItem(v, new, i, b) # <<>>
      <3> HIDE DEF S
      <3> QED
        BY <2>2, <2>4, <2>5, <2>6, PutItemIs
    <2>8. f[k] = PutAt(v, new, lpis, k)
      BY <1>1, <2>1
    <2>9. PutAt(v, new, lpis, k) = PutItem(v, new, i, b)
      <3>1. (k = 1) = b
        BY <2>3
      <3> QED
        BY <2>5, <3>1 DEF PutAt
    <2> QED
      BY <2>0, <2>7, <2>8, <2>9
  <1>4. n \in Nat /\ n \in 0..n
    OBVIOUS
  <1>5. 0..n \subseteq S
    <2> HIDE DEF S, n
    <2> QED
      BY <1>2, <1>3, <1>4, Upwards
  <1> QED
    BY <1>1, <1>4, <1>5

(* The nodes of the row a word begins at extended one after another: what  *)
(* ExtendNodes() does to the last row.                                     *)
NewNode(from, k, n, fr, dmi) ==
  [id |-> 0, score |-> from[k].score, row |-> n, from |-> <<fr, k>>, dmi |-> dmi]
PutOf(nodes, from, k, lpis, n, fr, dmi) ==
  PutNodes(nodes, IF from[k].row = 0 THEN AtMost(lpis, kMaxNodeARow) ELSE lpis,
           NewNode(from, k, n, fr, dmi))
PutFrom(nodes, from, lpis, n, fr, dmi) ==
  LET put[k \in 0..Len(from)] ==
        IF k = 0 THEN nodes ELSE PutOf(put[k - 1], from, k, lpis, n, fr, dmi)
  IN  put[Len(from)]

LEMMA PutFromLoop ==
  ASSUME NEW nodes, NEW from, NEW lpis, NEW n, NEW fr, NEW dmi, Len(from) \in Nat
  PROVE  \E f : /\ f[0] = nodes
                /\ \A k \in (0 + 1)..(Len(from)) : f[k] = PutOf(f[k - 1], from, k, lpis, n, fr, dmi)
                /\ PutFrom(nodes, from, lpis, n, fr, dmi) = f[Len(from)]
  <1> DEFINE last == Len(from)
             Then(v, k) == PutOf(v, from, k, lpis, n, fr, dmi)
             Goes(top, f) == f = [k \in 0..top |-> IF k = 0 THEN nodes ELSE Then(f[k - 1], k)]
             S == {top \in Nat : \E f : Goes(top, f)}
  <1>1. PutFrom(nodes, from, lpis, n, fr, dmi) = (CHOOSE f : Goes(last, f))[last]
    BY DEF PutFrom
  <1> HIDE DEF last, Then
  <1>2. 0 \in S
    <2>1. Goes(0, [k \in 0..0 |-> nodes])
      OBVIOUS
    <2>2. 0 = 0
      OBVIOUS
    <2> HIDE DEF Goes
    <2> QED
      BY <2>1, <2>2
  <1>3. ASSUME NEW top \in Nat, top \in S PROVE top + 1 \in S
    <2> DEFINE e == top
    <2>1. PICK f : Goes(e, f)
      BY <1>3
    <2>i. e \in Nat /\ e >= 0 /\ e + 1 = (top + 1)
      OBVIOUS
    <2> HIDE DEF e
    <2> DEFINE g == [k \in 0..(e + 1) |-> IF k = e + 1 THEN Then(f[e], e + 1) ELSE f[k]]
    <2>2. ASSUME NEW k \in 0..(e + 1)
          PROVE  g[k] = IF k = 0 THEN nodes ELSE Then(g[k - 1], k)
      <3>1. CASE k = e + 1
        BY <2>1, <2>i, <3>1
      <3>2. CASE k \in 0..e
        <4>0. k # e + 1 /\ k \in 0..(e + 1)
          BY <2>i, <3>2
        <4>1. g[k] = f[k]
          BY <4>0
        <4>3. f[k] = IF k = 0 THEN nodes ELSE Then(f[k - 1], k)
          <5> HIDE DEF g
          <5> QED
            BY <2>1, <3>2
        <4>2. k # 0 => g[k - 1] = f[k - 1]
          BY <2>i, <3>2
        <4> HIDE DEF g
        <4> QED
          BY <4>1, <4>2, <4>3
      <3> QED
        BY <2>i, <3>1, <3>2
    <2>3. Goes(e + 1, g)
      BY <2>2
    <2> HIDE DEF g, Goes
    <2> QED
      BY <2>i, <2>3
  <1>4. \E f : Goes(last, f)
    <2>1. last \in S
      <3> HIDE DEF S
      <3>1. last \in Nat
        BY DEF last
      <3> QED
        BY <1>2, <1>3, <3>1, Induction
    <2>2. (last) = last
      BY DEF last
    <2> HIDE DEF Goes
    <2> QED
      BY <2>1, <2>2
  <1>5. Goes(last, CHOOSE f : Goes(last, f))
    <2> HIDE DEF Goes
    <2> QED
      BY <1>4
  <1> DEFINE f == CHOOSE f : Goes(last, f)
  <1>6. f = [k \in 0..last |-> IF k = 0 THEN nodes ELSE Then(f[k - 1], k)]
    BY <1>5
  <1>7. last \in Nat /\ last >= 0
    BY DEF last
  <1> HIDE DEF f
  <1>8. f[0] = nodes /\ \A k \in (0 + 1)..last : f[k] = Then(f[k - 1], k)
    <2>1. 0 \in 0..last
      BY <1>7
    <2>2. ASSUME NEW k \in (0 + 1)..last PROVE k \in 0..last /\ k # 0
      BY <1>7
    <2> QED
      BY <1>6, <2>1, <2>2
  <1> QED
    BY <1>1, <1>8 DEF f, last, Then

LEMMA PutFromIs ==
  ASSUME NEW T, NEW nodes \in Seq(T), NEW from, Len(from) \in Nat, NEW lpis \in Seq(ItemSet),
         NEW n, NEW fr, NEW dmi,
         \A k \in 1..Len(from), i \in DOMAIN lpis :
           Made(NewNode(from, k, n, fr, dmi), lpis[i]) \in T
  PROVE  /\ PutFrom(nodes, from, lpis, n, fr, dmi) \in Seq(T)
         /\ nodes # <<>> \/ (Len(from) # 0 /\ lpis # <<>>) =>
              PutFrom(nodes, from, lpis, n, fr, dmi) # <<>>
  <1>1. PICK f : /\ f[0] = nodes
                 /\ \A k \in (0 + 1)..(Len(from)) : f[k] = PutOf(f[k - 1], from, k, lpis, n, fr, dmi)
                 /\ PutFrom(nodes, from, lpis, n, fr, dmi) = f[Len(from)]
    BY PutFromLoop
  <1> DEFINE last == Len(from)
             S == {k \in Nat : /\ f[k] \in Seq(T)
                               /\ nodes # <<>> \/ (k # 0 /\ lpis # <<>>) => f[k] # <<>>}
  <1>2. 0 \in S
    BY <1>1
  <1>3. ASSUME NEW k \in 1..last, k - 1 \in S PROVE k \in S
    <2>1. PICK v : v = f[k - 1]
      OBVIOUS
    <2>2. v \in Seq(T) /\ (nodes # <<>> => v # <<>>)
      BY <1>3, <2>1
    <2>3. PICK l : l = IF from[k].row = 0 THEN AtMost(lpis, kMaxNodeARow) ELSE lpis
      OBVIOUS
    <2>4. l \in Seq(ItemSet) /\ (lpis # <<>> => l # <<>>) /\ \A i \in DOMAIN l : i \in DOMAIN lpis /\ l[i] = lpis[i]
      <3>1. kMaxNodeARow \in Nat /\ kMaxNodeARow > 0
        BY Sizes
      <3>2. /\ AtMost(lpis, kMaxNodeARow) \in Seq(ItemSet)
            /\ lpis # <<>> => AtMost(lpis, kMaxNodeARow) # <<>>
            /\ \A i \in DOMAIN AtMost(lpis, kMaxNodeARow) :
                 i \in DOMAIN lpis /\ AtMost(lpis, kMaxNodeARow)[i] = lpis[i]
        BY <3>1, AtMostIs
      <3> QED
        BY <2>3, <3>2
    <2>5. PICK new : new = NewNode(from, k, n, fr, dmi)
      OBVIOUS
    <2>6. ASSUME NEW i \in 1..Len(l)
          PROVE  Made(new, l[i]) \in T
      <3>1. i \in DOMAIN lpis /\ l[i] = lpis[i]
        BY <2>4
      <3> QED
        BY <2>5, <3>1
    <2>7. Len(l) \in Nat /\ (lpis # <<>> => Len(l) # 0)
      BY <2>4
    <2>8. /\ PutNodes(v, l, new) \in Seq(T)
          /\ Len(l) # 0 \/ v # <<>> => PutNodes(v, l, new) # <<>>
      BY <2>2, <2>6, <2>7, PutNodesIs
    <2>9. f[k] = PutNodes(v, l, new)
      BY <1>1, <2>1, <2>3, <2>5 DEF PutOf
    <2>10. k \in Nat
      OBVIOUS
    <2> QED
      BY <2>2, <2>7, <2>8, <2>9, <2>10
  <1>4. last \in Nat /\ last \in 0..last
    OBVIOUS
  <1>5. 0..last \subseteq S
    <2> HIDE DEF S, last
    <2> QED
      BY <1>2, <1>3, <1>4, Upwards
  <1> QED
    BY <1>1, <1>4, <1>5

(***************************************************************************)
(* The decoder as a record, and what is true of it.                        *)
(***************************************************************************)
Fields ==
  {"pys", "rows", "dmis", "handles", "dict", "lpis", "cache", "cleared", "spl", "start"}
Shape(d) == d = [x \in Fields |-> d[x]]

NodeSet == [id : 0..LemmaNum, score : Nat, row : Nat, from : Nat \X Nat, dmi : Nat]
RowSet == [nodes : Seq(NodeSet), dmiPos : Nat, dmiNum : Nat, full : BOOLEAN]
MatchSet == [fr : Nat, spl : Ids, level : Nat, len : Nat]
StoneSet == [start : Nat, num : Nat]
DictSet == [stones : Seq(StoneSet), marks : Seq(Seq(Paths))]

Typed(d) ==
  /\ Shape(d)
  /\ d.pys \in Seq(97..122) /\ d.rows \in Seq(RowSet)
  /\ d.dmis \in Seq(MatchSet) /\ d.handles \in Seq(Nat) /\ d.dict \in DictSet
  /\ d.cache \in [HalfIds -> Seq(ItemSet)]

(* The rows account for the matches.                                       *)
RowsOk(d) ==
  /\ Len(d.rows) = Decoded(d) + 1 /\ Row(d, 0) = Row0
  /\ \A r \in 1..Decoded(d) : Row(d, r).dmiPos = DmiEnd(Row(d, r - 1))
  /\ \A q, r \in 0..Decoded(d) : q < r => DmiEnd(Row(d, q)) <= Row(d, r).dmiPos
  /\ DmiEnd(Row(d, Decoded(d))) = Len(d.dmis)

(* The mile stones account for the marks, one after another.               *)
StonesOk(dict) ==
  /\ \A h \in DOMAIN dict.stones :
       /\ dict.stones[h].start # 0
       /\ dict.stones[h].start + dict.stones[h].num =
            IF h = Len(dict.stones) THEN Len(dict.marks) + 1 ELSE dict.stones[h + 1].start
       /\ dict.stones[h].start + dict.stones[h].num <= Len(dict.marks) + 1
  /\ \A g, h \in DOMAIN dict.stones :
       g < h => dict.stones[g].start + dict.stones[g].num <= dict.stones[h].start

(* Every match has a mile stone, later matches later ones.                 *)
HandlesOk(d) ==
  /\ Len(d.handles) = Len(d.dmis)
  /\ \A k \in DOMAIN d.handles :
       /\ d.handles[k] \in DOMAIN d.dict.stones
       /\ \A j \in 1..(k - 1) : d.handles[j] < d.handles[k]

(* The k-th match belongs to row r and extends the match of an earlier     *)
(* row, or the root.                                                       *)
InRow(d, r, k) == Row(d, r).dmiPos < k /\ k <= DmiEnd(Row(d, r))
MatchOk(d, r, k) ==
  LET x == d.dmis[k]
  IN  /\ x.len \in 1..r
      /\ Standing(d, k) \in Seq(PathsOf(x.level))
      /\ IF x.fr = 0 THEN x.level = 1 /\ Standing(d, k) = RootRun(x.spl)
         ELSE /\ x.fr < k /\ x.level = d.dmis[x.fr].level + 1
              /\ Standing(d, k) = FlattenSeq(SonRuns(Standing(d, x.fr), IdRange(x.spl)))
              /\ \E q \in 1..(r - 1) : InRow(d, q, x.fr) /\ r - x.len = q - d.dmis[x.fr].len
NodeOk(d, r, node) ==
  /\ node.row = r /\ node.from[1] \in 0..(r - 1)
  /\ node.from[2] \in DOMAIN Row(d, node.from[1]).nodes
  /\ InRow(d, r, node.dmi) /\ d.dmis[node.dmi].len = r - node.from[1]
  /\ Len(Lemmas[node.id].word) = d.dmis[node.dmi].level
  /\ Stands(node, Standing(d, node.dmi))
RowGood(d, r) ==
  /\ \A k \in DOMAIN d.dmis : InRow(d, r, k) => MatchOk(d, r, k)
  /\ \A x \in DOMAIN Row(d, r).nodes : NodeOk(d, r, Row(d, r).nodes[x])

(* A half id looked up is kept, as it was found.                           *)
CacheOk(d) == \A h \in HalfIds : d.cache[h] = <<>> \/ d.cache[h] = CacheOf(h)
CacheHas(d) ==
  \A k \in DOMAIN d.dmis :
    d.dmis[k].fr = 0 /\ IsHalfId(d.dmis[k].spl) => d.cache[d.dmis[k].spl] # <<>>

Good(d) ==
  /\ Typed(d) /\ RowsOk(d) /\ StonesOk(d.dict) /\ HandlesOk(d)
  /\ \A r \in 1..Decoded(d) : RowGood(d, r)
  /\ CacheOk(d) /\ CacheHas(d)

(***************************************************************************)
(* extend_dmi().                                                           *)
(***************************************************************************)
GrownDict(dict, runs) ==
  [stones |-> Append(dict.stones, [start |-> Len(dict.marks) + 1, num |-> Len(runs)]),
   marks |-> dict.marks \o runs]
CacheWith(cache, s, splid, lpis) ==
  IF s = 0 /\ IsHalfId(splid) THEN [cache EXCEPT ![splid] = lpis] ELSE cache

LEMMA ExtendDictIs ==
  ASSUME NEW d, NEW s, NEW splid \in Ids, NEW u, s # 0 => u = Standing(d, s)
  PROVE  /\ RunsOf(u, s, splid) = <<>> => ExtendDict(d, s, splid) = [dict |-> d.dict, handle |-> 0, lpis |-> <<>>]
         /\ RunsOf(u, s, splid) # <<>> =>
              ExtendDict(d, s, splid) =
                [dict |-> GrownDict(d.dict, RunsOf(u, s, splid)), handle |-> Len(d.dict.stones) + 1,
                 lpis |-> IF s # 0 THEN ItemsOf(NodesOf(u, s, splid))
                          ELSE IF FromCache(d, s, splid) THEN <<>> ELSE RootItems(splid)]
  <1>1. CASE s = 0
    BY <1>1 DEF ExtendDict, ExtendDict0, NewStone, RunsOf, GrownDict
  <1>2. CASE s # 0
    <2>1. StoneNodes(d.dict, d.handles[s]) = u
      BY <1>2 DEF Standing
    <2>2. ExtendDict(d, s, splid) =
            NewStone(d.dict, RunsOf(u, s, splid), ItemsOf(NodesOf(u, s, splid)))
      BY <1>2, <2>1 DEF ExtendDict, ExtendDict1, ExtendRuns, RunsOf, NodesOf
    <2> QED
      BY <1>2, <2>2 DEF NewStone, GrownDict
  <1> QED
    BY <1>1, <1>2

DmiEffect(d, s, splid, ext, u, e) ==
  /\ Shape(e) /\ e.pys = d.pys /\ e.cleared = d.cleared /\ e.rows = d.rows /\ e.lpis = LpisOf(u, s, splid)
  /\ RunsOf(u, s, splid) = <<>> =>
       e.dmis = d.dmis /\ e.handles = d.handles /\ e.dict = d.dict /\ e.cache = d.cache
  /\ RunsOf(u, s, splid) # <<>> =>
       /\ e.dmis = Append(d.dmis, NewDmi(d, s, splid, ext))
       /\ e.handles = Append(d.handles, Len(d.dict.stones) + 1)
       /\ e.dict = GrownDict(d.dict, RunsOf(u, s, splid))
       /\ e.cache = CacheWith(d.cache, s, splid, LpisOf(u, s, splid))

LEMMA ExtendDmiIs ==
  ASSUME NEW d, Typed(d), CacheOk(d), NEW s, NEW splid \in Ids, NEW ext, NEW n \in Nat,
         NEW u, s # 0 => u = Standing(d, s) /\ u \in Seq(PathsOf(n))
  PROVE  DmiEffect(d, s, splid, ext, u, ExtendDmi(d, s, splid, ext))
  <1>r. PICK runs : runs = RunsOf(u, s, splid)
    OBVIOUS
  <1>l. PICK lpis : lpis = LpisOf(u, s, splid)
    OBVIOUS
  <1>e. PICK e : e = ExtendDmi(d, s, splid, ext)
    OBVIOUS
  <1> SUFFICES DmiEffect(d, s, splid, ext, u, e)
    BY <1>e
  <1> DEFINE x == ExtendDict(d, s, splid)
             added == IF x.handle = 0 THEN d
                      ELSE [d EXCEPT !.dict = x.dict, !.dmis = Append(@, NewDmi(d, s, splid, ext)),
                                     !.handles = Append(@, x.handle)]
             half == s = 0 /\ IsHalfId(splid)
  <1>1. PICK a : a = added
    OBVIOUS
  <1>2. PICK new : new = NewDmi(d, s, splid, ext)
    OBVIOUS
  <1>3. Shape(d) /\ d.dict.stones \in Seq(StoneSet) /\ d.cache \in [HalfIds -> Seq(ItemSet)]
    BY DEF Typed, DictSet
  <1>4. e = IF FromCache(d, s, splid) THEN [a EXCEPT !.lpis = d.cache[splid]]
            ELSE PutItems(a, half, splid, ByPsb(x.lpis))
    BY <1>1, <1>e DEF ExtendDmi, AddDmi
  <1>5. /\ Shape(a) /\ a.pys = d.pys /\ a.cleared = d.cleared /\ a.rows = d.rows /\ a.cache = d.cache
        /\ runs = <<>> => a.dmis = d.dmis /\ a.handles = d.handles /\ a.dict = d.dict
        /\ runs # <<>> => /\ a.dmis = Append(d.dmis, new)
                          /\ a.handles = Append(d.handles, Len(d.dict.stones) + 1)
                          /\ a.dict = GrownDict(d.dict, runs)
    <2>1. CASE runs = <<>>
      <3>1. x.handle = 0
        <4>1. RunsOf(u, s, splid) = <<>>
          BY <1>r, <2>1
        <4>2. x = [dict |-> d.dict, handle |-> 0, lpis |-> <<>>]
          BY <4>1, ExtendDictIs, Zenon
        <4> HIDE DEF x
        <4> QED
          BY <4>2
      <3>2. a = d
        BY <1>1, <3>1
      <3> QED
        BY <1>3, <2>1, <3>2
    <2>2. CASE runs # <<>>
      <3>1. x.handle = Len(d.dict.stones) + 1 /\ x.dict = GrownDict(d.dict, runs)
        BY <1>r, <2>2, ExtendDictIs
      <3>2. Len(d.dict.stones) + 1 # 0
        <4>1. Len(d.dict.stones) \in Nat
          BY <1>3
        <4> QED
          BY <4>1
      <3>3. PICK c : c = GrownDict(d.dict, runs)
        OBVIOUS
      <3>4. PICK h : h = Len(d.dict.stones) + 1
        OBVIOUS
      <3>5. a = [d EXCEPT !.dict = c, !.dmis = Append(d.dmis, new), !.handles = Append(d.handles, h)]
        BY <1>1, <1>2, <3>1, <3>2, <3>3, <3>4
      <3> HIDE DEF x, added
      <3> QED
        BY <1>3, <2>2, <3>3, <3>4, <3>5 DEF Shape, Fields
    <2> QED
      BY <2>1, <2>2
  <1>6. FromCache(d, s, splid) <=> half /\ d.cache[splid] # <<>>
    BY DEF FromCache
  <1>7. half => splid \in HalfIds
    BY IdsAre
  <1>8. CASE FromCache(d, s, splid)
    <2>1. lpis = d.cache[splid]
      <3>1. lpis = CacheOf(splid)
        BY <1>6, <1>8, <1>l DEF LpisOf
      <3> QED
        BY <1>6, <1>7, <1>8, <3>1 DEF CacheOk
    <2>2. e = [a EXCEPT !.lpis = lpis]
      BY <1>4, <1>8, <2>1
    <2>3. [d.cache EXCEPT ![splid] = lpis] = d.cache
      BY <1>3, <2>1
    <2>4. CacheWith(d.cache, s, splid, lpis) = d.cache
      BY <2>3 DEF CacheWith
    <2>5. /\ Shape(e) /\ e.lpis = lpis /\ e.pys = a.pys /\ e.cleared = a.cleared /\ e.rows = a.rows /\ e.cache = a.cache
          /\ e.dmis = a.dmis /\ e.handles = a.handles /\ e.dict = a.dict
      <3> HIDE DEF x, added, half
      <3> QED
        BY <1>5, <2>2 DEF Shape, Fields
    <2> QED
      BY <1>2, <1>r, <1>l, <1>5, <2>4, <2>5 DEF DmiEffect
  <1>9. CASE ~FromCache(d, s, splid)
    <2>1. lpis = IF half THEN AtMost(ByPsb(x.lpis), kMaxLpiCachePerId) ELSE ByPsb(x.lpis)
      <3>1. CASE s = 0
        <4>1. runs # <<>>
          BY <1>r, <3>1, FoundIs
        <4>2. x.lpis = RootItems(splid)
          BY <1>r, <1>9, <3>1, <4>1, ExtendDictIs
        <4> QED
          BY <1>l, <3>1, <4>2 DEF LpisOf, CacheOf
      <3>2. CASE s # 0 /\ runs # <<>>
        <4>1. x.lpis = ItemsOf(NodesOf(u, s, splid))
          BY <1>r, <3>2, ExtendDictIs
        <4> QED
          BY <1>l, <3>2, <4>1 DEF LpisOf
      <3>3. CASE s # 0 /\ runs = <<>>
        <4>1. x.lpis = <<>>
          <5>1. RunsOf(u, s, splid) = <<>>
            BY <1>r, <3>3
          <5>2. x = [dict |-> d.dict, handle |-> 0, lpis |-> <<>>]
            BY <5>1, ExtendDictIs, Zenon
          <5> HIDE DEF x
          <5> QED
            BY <5>2
        <4>2. lpis = <<>>
          BY <1>r, <1>l, <3>3, FoundIs
        <4>3. ByPsb(<<>>) = <<>>
          <5>1. PICK o : o = <<>>
            OBVIOUS
          <5>2. o \in Seq(ItemSet) /\ Len(o) = 0
            BY <5>1
          <5>3. ByPsb(o) \in Seq(ItemSet) /\ Len(ByPsb(o)) = 0
            BY <5>2, ByPsbIs
          <5>4. PICK b : b = ByPsb(o)
            OBVIOUS
          <5>5. b = <<>>
            BY <5>3, <5>4
          <5> QED
            BY <5>1, <5>4, <5>5
        <4> QED
          BY <3>3, <4>1, <4>2, <4>3
      <3> QED
        BY <3>1, <3>2, <3>3
    <2>2. PICK c : c = IF half THEN [d.cache EXCEPT ![splid] = lpis] ELSE d.cache
      OBVIOUS
    <2>3. PutItems(a, half, splid, ByPsb(x.lpis)) = [a EXCEPT !.lpis = lpis, !.cache = c]
      BY <1>5, <2>1, <2>2 DEF PutItems
    <2>4. e = [a EXCEPT !.lpis = lpis, !.cache = c]
      BY <1>4, <1>9, <2>3
    <2>5. c = CacheWith(d.cache, s, splid, lpis)
      BY <2>2 DEF CacheWith
    <2>6. /\ Shape(e) /\ e.lpis = lpis /\ e.pys = a.pys /\ e.cleared = a.cleared /\ e.rows = a.rows /\ e.cache = c
          /\ e.dmis = a.dmis /\ e.handles = a.handles /\ e.dict = a.dict
      <3> HIDE DEF x, added, half
      <3> QED
        BY <1>5, <2>4 DEF Shape, Fields
    <2>7. runs = <<>> => c = d.cache
      <3>1. runs = <<>> => s # 0
        BY <1>r, FoundIs
      <3> QED
        BY <2>2, <3>1
    <2> QED
      BY <1>2, <1>r, <1>l, <1>5, <2>5, <2>6, <2>7 DEF DmiEffect
  <1> QED
    BY <1>8, <1>9

(***************************************************************************)
(* One match extended: a round of the inner loop of add_char_qwerty().     *)
(***************************************************************************)
(* What CountDmi() makes of the last row when a match was added.           *)
CountedRow(row, nodes, splid) ==
  [nodes |-> nodes, dmiPos |-> row.dmiPos, dmiNum |-> row.dmiNum + 1,
   full |-> row.full \/ ~IsHalfId(splid)]

CountEffect(d, more, splid, e) ==
  /\ Shape(e) /\ e.pys = d.pys /\ e.cleared = d.cleared /\ e.dmis = d.dmis /\ e.handles = d.handles /\ e.dict = d.dict
  /\ e.lpis = d.lpis /\ e.cache = d.cache
  /\ more = 0 => e.rows = d.rows
  /\ more = 1 => e.rows = [d.rows EXCEPT ![Decoded(d) + 1] =
                             CountedRow(Row(d, Decoded(d)), Row(d, Decoded(d)).nodes, splid)]

LEMMA CountDmiIs ==
  ASSUME NEW d, Shape(d), d.rows \in Seq(RowSet), Decoded(d) \in Nat, Len(d.rows) = Decoded(d) + 1,
         NEW more \in Nat, NEW dm \in Nat, Len(d.dmis) = dm + more, more \in {0, 1},
         NEW splid
  PROVE  CountEffect(d, more, splid, CountDmi(d, dm, splid))
  <1>e. PICK e : e = CountDmi(d, dm, splid)
    OBVIOUS
  <1> DEFINE n == Decoded(d)
             i == n + 1
             row == d.rows[i]
             num == row.dmiNum + (Len(d.dmis) - dm)
             full == row.full \/ (Len(d.dmis) > dm /\ ~IsHalfId(splid))
  <1>1. i \in DOMAIN d.rows /\ row \in RowSet
    OBVIOUS
  <1>2. num = row.dmiNum + more /\ (Len(d.dmis) > dm <=> more = 1)
    <2>1. row.dmiNum \in Nat
      BY <1>1 DEF RowSet
    <2> QED
      BY <2>1
  <1>3. PICK x : x = num
    OBVIOUS
  <1>4. PICK y : y = full
    OBVIOUS
  <1>5. e = [d EXCEPT !.rows[i].dmiNum = x, !.rows[i].full = y]
    <2>1. e = [d EXCEPT !.rows[i].dmiNum = @ + (Len(d.dmis) - dm),
                        !.rows[i].full = @ \/ (Len(d.dmis) > dm /\ ~IsHalfId(splid))]
      BY <1>e DEF CountDmi
    <2>2. [d EXCEPT !.rows[i].dmiNum = x].rows[i].full = row.full
      BY <1>1 DEF Shape, Fields, RowSet
    <2>3. [d EXCEPT !.rows[i].dmiNum = @ + (Len(d.dmis) - dm),
                    !.rows[i].full = @ \/ (Len(d.dmis) > dm /\ ~IsHalfId(splid))]
            = [[d EXCEPT !.rows[i].dmiNum = x] EXCEPT
                 !.rows[i].full = @ \/ (Len(d.dmis) > dm /\ ~IsHalfId(splid))]
      BY <1>3
    <2> QED
      BY <1>4, <2>1, <2>2, <2>3
  <1>6. PICK new : new = [row EXCEPT !.dmiNum = x, !.full = y]
    OBVIOUS
  <1>7. /\ Shape(e) /\ e.pys = d.pys /\ e.cleared = d.cleared /\ e.dmis = d.dmis /\ e.handles = d.handles /\ e.dict = d.dict
        /\ e.lpis = d.lpis /\ e.cache = d.cache /\ e.rows = [d.rows EXCEPT ![i] = new]
    <2> HIDE DEF num, full
    <2> QED
      BY <1>1, <1>5, <1>6 DEF Shape, Fields
  <1>8. new = [nodes |-> row.nodes, dmiPos |-> row.dmiPos, dmiNum |-> x, full |-> y]
    <2> HIDE DEF num, full
    <2> QED
      BY <1>1, <1>6 DEF RowSet
  <1>9. more = 0 => new = row
    <2> SUFFICES ASSUME more = 0 PROVE new = row
      OBVIOUS
    <2>1. row.dmiNum \in Nat /\ row.full \in BOOLEAN
      BY <1>1 DEF RowSet
    <2>2. x = row.dmiNum
      BY <1>2, <1>3, <2>1
    <2>3. y = row.full
      BY <1>2, <1>4, <2>1
    <2> HIDE DEF num, full
    <2> QED
      BY <1>1, <1>8, <2>2, <2>3 DEF RowSet
  <1>10. more = 1 => new = CountedRow(Row(d, n), Row(d, n).nodes, splid)
    BY <1>2, <1>3, <1>4, <1>8 DEF CountedRow, Row
  <1>11. more = 0 => [d.rows EXCEPT ![i] = new] = d.rows
    BY <1>1, <1>9
  <1> QED
    BY <1>e, <1>7, <1>10, <1>11 DEF CountEffect

NodesEffect(d, n, fr, dmi, e) ==
  /\ Shape(e) /\ e.pys = d.pys
  /\ e.cleared = (IF Row(d, fr).nodes = <<>> THEN d.cleared ELSE d.cleared \cup {n})
  /\ e.dmis = d.dmis /\ e.handles = d.handles /\ e.dict = d.dict
  /\ e.lpis = d.lpis /\ e.cache = d.cache
  /\ e.rows = [d.rows EXCEPT ![n + 1] =
       [@ EXCEPT !.nodes = PutFrom(Row(d, n).nodes, Row(d, fr).nodes, d.lpis, n, fr, dmi)]]

LEMMA ExtendNodesIs ==
  ASSUME NEW d, Shape(d), NEW fr, NEW dmi, NEW n, n = Decoded(d)
  PROVE  NodesEffect(d, n, fr, dmi, ExtendNodes(d, fr, dmi))
  <1>e. PICK e : e = ExtendNodes(d, fr, dmi)
    OBVIOUS
  <1>1. PICK x : x = PutFrom(Row(d, n).nodes, Row(d, fr).nodes, d.lpis, n, fr, dmi)
    OBVIOUS
  <1>2. PICK c : c = IF Row(d, fr).nodes = <<>> THEN d.cleared ELSE d.cleared \cup {n}
    OBVIOUS
  <1>3. e = [d EXCEPT !.rows[n + 1].nodes = x, !.cleared = c]
    BY <1>1, <1>2, <1>e DEF ExtendNodes, PutFrom, PutOf, NewNode, ExtendMtrxNd
  <1>4. /\ Shape(e) /\ e.pys = d.pys /\ e.cleared = c
        /\ e.dmis = d.dmis /\ e.handles = d.handles /\ e.dict = d.dict
        /\ e.lpis = d.lpis /\ e.cache = d.cache
        /\ e.rows = [d.rows EXCEPT ![n + 1] = [@ EXCEPT !.nodes = x]]
    BY <1>3 DEF Shape, Fields
  <1> QED
    BY <1>1, <1>2, <1>4, <1>e DEF NodesEffect

AccShape(a) == a = [x \in {"d", "longest", "matched", "stopped"} |-> a[x]]

(* Where the nodes come from that a match of s extended gives.             *)
FromRow(d, old, s) == old - IF s = 0 THEN 0 ELSE d.dmis[s].len
NodesPut(d, old, u, s, splid) ==
  IF LpisOf(u, s, splid) = <<>> THEN Row(d, Decoded(d)).nodes
  ELSE PutFrom(Row(d, Decoded(d)).nodes, Row(d, FromRow(d, old, s)).nodes, LpisOf(u, s, splid),
               Decoded(d), FromRow(d, old, s), Len(d.dmis) + 1)

(* The effect of ExtendOne(): none but on lpis when nothing is found; else *)
(* a match, a mile stone, the last row's count and nodes, the cache.       *)
Effect(d, old, u, s, splid, e) ==
  /\ Shape(e) /\ e.pys = d.pys
  /\ e.cleared = (IF LpisOf(u, s, splid) = <<>> \/ Row(d, FromRow(d, old, s)).nodes = <<>>
                    THEN d.cleared ELSE d.cleared \cup {Decoded(d)})
  /\ RunsOf(u, s, splid) = <<>> =>
       e.rows = d.rows /\ e.dmis = d.dmis /\ e.handles = d.handles /\ e.dict = d.dict /\ e.cache = d.cache
  /\ RunsOf(u, s, splid) # <<>> =>
       /\ e.rows = [d.rows EXCEPT ![Decoded(d) + 1] =
                      CountedRow(Row(d, Decoded(d)), NodesPut(d, old, u, s, splid), splid)]
       /\ e.dmis = Append(d.dmis, NewDmi(d, s, splid, Decoded(d) - old))
       /\ e.handles = Append(d.handles, Len(d.dict.stones) + 1)
       /\ e.dict = GrownDict(d.dict, RunsOf(u, s, splid))
       /\ e.cache = CacheWith(d.cache, s, splid, LpisOf(u, s, splid))

OneEffect(a, d, n, old, u, s, splid, b) ==
  /\ AccShape(b) /\ b.matched = a.matched /\ b.stopped = a.stopped
  /\ b.longest = IF LpisOf(u, s, splid) # <<>> /\ a.longest = 0 /\ Row(d, FromRow(d, old, s)).nodes # <<>>
                   THEN n - old ELSE a.longest
  /\ Effect(d, old, u, s, splid, b.d)

LEMMA ExtendOneIs ==
  ASSUME NEW a, AccShape(a), NEW d, d = a.d, Typed(d), CacheOk(d),
         NEW n \in Nat, n = Decoded(d), Len(d.rows) = n + 1,
         NEW old \in Nat, old < n, NEW s, NEW splid \in Ids, ~Skipped(a, old, s),
         FromRow(d, old, s) \in 0..old,
         NEW l \in Nat, NEW u, s # 0 => u = Standing(d, s) /\ u \in Seq(PathsOf(l)),
         NEW b, b = ExtendOne(a, old, s, splid)
  PROVE  OneEffect(a, d, n, old, u, s, splid, b)
  <1> DEFINE fr == FromRow(d, old, s)
             ext == n - old
  <1>1. PICK runs : runs = RunsOf(u, s, splid)
    OBVIOUS
  <1>2. PICK lpis : lpis = LpisOf(u, s, splid)
    OBVIOUS
  <1>3. PICK e : e = ExtendDmi(d, s, splid, ext)
    OBVIOUS
  <1>4. /\ Shape(e) /\ e.pys = d.pys /\ e.cleared = d.cleared /\ e.rows = d.rows /\ e.lpis = lpis
        /\ runs = <<>> => /\ e.dmis = d.dmis /\ e.handles = d.handles /\ e.dict = d.dict
                          /\ e.cache = d.cache
        /\ runs # <<>> => /\ e.dmis = Append(d.dmis, NewDmi(d, s, splid, ext))
                          /\ e.handles = Append(d.handles, Len(d.dict.stones) + 1)
                          /\ e.dict = GrownDict(d.dict, runs)
                          /\ e.cache = CacheWith(d.cache, s, splid, lpis)
    <2> HIDE DEF ext
    <2>1. Typed(d) /\ CacheOk(d) /\ splid \in Ids /\ l \in Nat
          /\ (s # 0 => u = Standing(d, s) /\ u \in Seq(PathsOf(l)))
      OBVIOUS
    <2>2. DmiEffect(d, s, splid, ext, u, ExtendDmi(d, s, splid, ext))
      BY ONLY <2>1, ExtendDmiIs
    <2> QED
      BY <1>1, <1>2, <1>3, <2>2 DEF DmiEffect
  <1>5. d.rows \in Seq(RowSet) /\ d.dmis \in Seq(MatchSet) /\ Len(d.dmis) \in Nat
    BY DEF Typed
  <1>6. PICK more \in {0, 1} : more = IF runs = <<>> THEN 0 ELSE 1
    OBVIOUS
  <1>7. Len(e.dmis) = Len(d.dmis) + more
    <2>1. PICK new : new = NewDmi(d, s, splid, ext)
      OBVIOUS
    <2>2. Len(Append(d.dmis, new)) = Len(d.dmis) + 1
      BY <1>5
    <2>3. runs = <<>> => Len(e.dmis) = Len(d.dmis) /\ more = 0
      BY <1>4, <1>6
    <2>4. runs # <<>> => Len(e.dmis) = Len(d.dmis) + 1 /\ more = 1
      BY <1>4, <1>6, <2>1, <2>2
    <2>5. PICK x \in Nat : x = Len(d.dmis)
      BY <1>5
    <2>6. CASE runs = <<>>
      BY ONLY <2>3, <2>5, <2>6
    <2>7. CASE runs # <<>>
      BY ONLY <2>4, <2>5, <2>7
    <2> QED
      BY <2>6, <2>7
  <1>8. Decoded(e) = n
    BY <1>4 DEF Decoded
  <1>9. PICK c : c = CountDmi(e, Len(d.dmis), splid)
    OBVIOUS
  <1>10. /\ Shape(c) /\ c.pys = e.pys /\ c.cleared = e.cleared /\ c.dmis = e.dmis /\ c.handles = e.handles /\ c.dict = e.dict
         /\ c.lpis = e.lpis /\ c.cache = e.cache
         /\ runs = <<>> => c.rows = d.rows
         /\ runs # <<>> => c.rows = [d.rows EXCEPT ![n + 1] = CountedRow(Row(d, n), Row(d, n).nodes, splid)]
    <2>1. Row(e, n) = Row(d, n)
      BY <1>4 DEF Row
    <2>2. PICK dm \in Nat : dm = Len(d.dmis)
      BY <1>5
    <2>3. /\ Shape(c) /\ c.pys = e.pys /\ c.cleared = e.cleared /\ c.dmis = e.dmis /\ c.handles = e.handles /\ c.dict = e.dict
          /\ c.lpis = e.lpis /\ c.cache = e.cache
          /\ more = 0 => c.rows = e.rows
          /\ more = 1 => c.rows = [e.rows EXCEPT ![Decoded(e) + 1] =
                                     CountedRow(Row(e, Decoded(e)), Row(e, Decoded(e)).nodes, splid)]
      <3>1. /\ Shape(e) /\ e.rows \in Seq(RowSet) /\ Decoded(e) \in Nat /\ Len(e.rows) = Decoded(e) + 1
            /\ more \in Nat /\ Len(e.dmis) = dm + more /\ c = CountDmi(e, dm, splid)
        BY <1>4, <1>5, <1>6, <1>7, <1>8, <1>9, <2>2
      <3>2. CountEffect(e, more, splid, CountDmi(e, dm, splid))
        BY ONLY <1>6, <2>2, <3>1, CountDmiIs
      <3> QED
        BY <3>1, <3>2 DEF CountEffect
    <2> QED
      BY <1>4, <1>6, <1>8, <2>1, <2>3
  <1>11. b = ExtendFrom(a, c, ext, fr)
    BY <1>3, <1>9 DEF ExtendOne, FromRow
  <1>12. Row(c, fr) = Row(d, fr)
    <2>1. fr + 1 # n + 1 /\ fr + 1 \in DOMAIN d.rows
      BY <1>5
    <2>2. runs # <<>> => Row(c, fr) = d.rows[fr + 1]
      BY <1>10, <2>1 DEF Row
    <2> QED
      BY <1>10, <2>2 DEF Row
  <1>13. CASE lpis = <<>>
    <2>1. b = [a EXCEPT !.d = c]
      BY <1>4, <1>10, <1>11, <1>13 DEF ExtendFrom
    <2>2. AccShape(b) /\ b.d = c /\ b.matched = a.matched /\ b.stopped = a.stopped /\ b.longest = a.longest
      BY <2>1 DEF AccShape
    <2>3. NodesPut(d, old, u, s, splid) = Row(d, n).nodes
      BY <1>2, <1>13 DEF NodesPut
    <2>4. Effect(d, old, u, s, splid, c)
      <3>1. c.cleared = d.cleared /\ LpisOf(u, s, splid) = <<>>
        BY <1>2, <1>4, <1>10, <1>13
      <3> QED
        BY <1>1, <1>2, <1>4, <1>10, <2>3, <3>1 DEF Effect
    <2> QED
      BY <1>2, <1>13, <2>2, <2>4 DEF OneEffect
  <1>14. CASE lpis # <<>>
    <2>1. PICK f : f = ExtendNodes(c, fr, Len(d.dmis) + 1)
      OBVIOUS
    <2>2. PICK dmi : dmi = Len(d.dmis) + 1
      OBVIOUS
    <2>3. n = Decoded(c)
      BY <1>4, <1>10 DEF Decoded
    <2>4. /\ Shape(f) /\ f.pys = c.pys
          /\ f.cleared = (IF Row(c, fr).nodes = <<>> THEN c.cleared ELSE c.cleared \cup {n})
          /\ f.dmis = c.dmis /\ f.handles = c.handles /\ f.dict = c.dict
          /\ f.lpis = c.lpis /\ f.cache = c.cache
          /\ f.rows = [c.rows EXCEPT ![n + 1] =
               [@ EXCEPT !.nodes = PutFrom(Row(c, n).nodes, Row(c, fr).nodes, c.lpis, n, fr, dmi)]]
      <3> HIDE DEF fr
      <3>1. Shape(c) /\ f = ExtendNodes(c, fr, dmi)
        BY <1>10, <2>1, <2>2
      <3>2. NodesEffect(c, n, fr, dmi, ExtendNodes(c, fr, dmi))
        BY ONLY <2>3, <3>1, ExtendNodesIs
      <3> QED
        BY <3>1, <3>2 DEF NodesEffect
    <2>5. PICK g : g = IF a.longest = 0 /\ Row(d, fr).nodes # <<>> THEN ext ELSE a.longest
      OBVIOUS
    <2>6. b = [a EXCEPT !.d = f, !.longest = g]
      <3>1. [a EXCEPT !.d = f, !.longest = IF @ = 0 /\ Row(d, fr).nodes # <<>> THEN ext ELSE @]
              = [a EXCEPT !.d = f, !.longest = g]
        BY <2>5 DEF AccShape
      <3>2. b = [a EXCEPT !.d = f, !.longest = IF @ = 0 /\ Row(d, fr).nodes # <<>> THEN ext ELSE @]
        BY <1>4, <1>10, <1>11, <1>12, <1>14, <2>1 DEF ExtendFrom
      <3> QED
        BY <3>1, <3>2
    <2>7. AccShape(b) /\ b.d = f /\ b.matched = a.matched /\ b.stopped = a.stopped /\ b.longest = g
      BY <2>6 DEF AccShape
    <2>8. runs # <<>>
      BY <1>1, <1>2, <1>14, FoundIs
    <2>9. f.rows = [d.rows EXCEPT ![n + 1] = CountedRow(Row(d, n), NodesPut(d, old, u, s, splid), splid)]
      <3>1. PICK row : row = CountedRow(Row(d, n), Row(d, n).nodes, splid)
        OBVIOUS
      <3>2. c.rows = [d.rows EXCEPT ![n + 1] = row] /\ n + 1 \in DOMAIN d.rows
        BY <1>5, <1>10, <2>8, <3>1
      <3>3. Row(c, n) = row
        BY <3>2 DEF Row
      <3>4. Row(c, n).nodes = Row(d, n).nodes
        BY <3>1, <3>3 DEF CountedRow
      <3>5. PICK x : x = NodesPut(d, old, u, s, splid)
        OBVIOUS
      <3>6. PutFrom(Row(c, n).nodes, Row(c, fr).nodes, c.lpis, n, fr, dmi) = x
        BY <1>2, <1>4, <1>10, <1>12, <1>14, <2>2, <3>4, <3>5 DEF NodesPut
      <3>7. f.rows = [c.rows EXCEPT ![n + 1] = [@ EXCEPT !.nodes = x]]
        BY <2>4, <3>6
      <3>8. f.rows = [d.rows EXCEPT ![n + 1] = [row EXCEPT !.nodes = x]]
        BY <3>2, <3>7
      <3>9. [row EXCEPT !.nodes = x] = CountedRow(Row(d, n), x, splid)
        BY <3>1 DEF CountedRow
      <3> QED
        BY <3>5, <3>8, <3>9
    <2>10. Effect(d, old, u, s, splid, f)
      <3>1. f.cleared = (IF LpisOf(u, s, splid) = <<>> \/ Row(d, FromRow(d, old, s)).nodes = <<>>
                          THEN d.cleared ELSE d.cleared \cup {Decoded(d)})
        BY <1>2, <1>4, <1>10, <1>12, <1>14, <2>4
      <3> HIDE DEF fr
      <3> QED
        BY <1>1, <1>2, <1>4, <1>10, <2>4, <2>8, <2>9, <3>1 DEF Effect
    <2> QED
      BY <1>2, <1>14, <2>5, <2>7, <2>10 DEF OneEffect
  <1> QED
    BY <1>13, <1>14

(***************************************************************************)
(* Mile stones and marks, grown.                                           *)
(***************************************************************************)
(* A part of a sequence does not see what is put after it.                 *)
LEMMA PartKept ==
  ASSUME NEW T, NEW s \in Seq(T), NEW t \in Seq(T), NEW a \in Nat \ {0}, NEW b \in Nat,
         b <= Len(s), b <= Len(t), \A i \in 1..b : s[i] = t[i]
  PROVE  SubSeq(s, a, b) = SubSeq(t, a, b)
  <1>1. PICK p : p = SubSeq(s, a, b)
    OBVIOUS
  <1>2. PICK q : q = SubSeq(t, a, b)
    OBVIOUS
  <1>3. p \in Seq(T) /\ q \in Seq(T) /\ Len(p) = Len(q)
    BY <1>1, <1>2
  <1>4. \A i \in 1..Len(p) : p[i] = s[a + i - 1] /\ q[i] = t[a + i - 1] /\ a + i - 1 \in 1..b
    BY <1>1, <1>2
  <1>5. \A i \in 1..Len(p) : p[i] = q[i]
    BY <1>4
  <1> QED
    BY <1>1, <1>2, <1>3, <1>5, SeqEqual

LEMMA DictIs ==
  ASSUME NEW dict \in DictSet
  PROVE  /\ dict.stones \in Seq(StoneSet) /\ dict.marks \in Seq(Seq(Paths))
         /\ Len(dict.stones) \in Nat /\ DOMAIN dict.stones = 1..Len(dict.stones)
         /\ Len(dict.marks) \in Nat /\ DOMAIN dict.marks = 1..Len(dict.marks)
         /\ \A h \in DOMAIN dict.stones : dict.stones[h].start \in Nat /\ dict.stones[h].num \in Nat
  <1>1. dict.stones \in Seq(StoneSet) /\ dict.marks \in Seq(Seq(Paths))
    BY DEF DictSet
  <1>2. \A x \in StoneSet : x.start \in Nat /\ x.num \in Nat
    BY DEF StoneSet
  <1> QED
    BY <1>1, <1>2

(* The nodes of a mile stone are where its marks are.                      *)
LEMMA StoneKept ==
  ASSUME NEW dict \in DictSet, NEW other \in DictSet, NEW h \in DOMAIN dict.stones,
         StonesOk(dict), h \in DOMAIN other.stones, other.stones[h] = dict.stones[h],
         \A i \in 1..(dict.stones[h].start + dict.stones[h].num - 1) :
           i \in DOMAIN other.marks /\ other.marks[i] = dict.marks[i]
  PROVE  StoneNodes(other, h) = StoneNodes(dict, h)
  <1> DEFINE a == dict.stones[h].start
             b == dict.stones[h].start + dict.stones[h].num - 1
  <1>1. a \in Nat \ {0} /\ b \in Nat /\ b <= Len(dict.marks)
    <2>1. /\ dict.stones[h].start \in Nat /\ dict.stones[h].num \in Nat
          /\ Len(dict.marks) \in Nat
      BY ONLY dict \in DictSet, h \in DOMAIN dict.stones, DictIs
    <2>2. PICK x \in Nat, y \in Nat, z \in Nat :
            x = dict.stones[h].start /\ y = dict.stones[h].num /\ z = Len(dict.marks)
      BY ONLY <2>1
    <2>3. x # 0 /\ x + y <= z + 1
      BY <2>2 DEF StonesOk
    <2>4. a = x /\ b = x + y - 1
      BY <2>2
    <2>5. x \in Nat \ {0} /\ x + y - 1 \in Nat /\ x + y - 1 <= z
      BY ONLY <2>3, x \in Nat, y \in Nat, z \in Nat
    <2> HIDE DEF a, b
    <2> QED
      BY ONLY <2>2, <2>4, <2>5, Zenon
  <1>2. b <= Len(other.marks)
    <2>1. b = 0 \/ b \in 1..b
      BY <1>1
    <2>2. b \in 1..b => b \in 1..Len(other.marks)
      BY DictIs
    <2>3. Len(other.marks) \in Nat
      BY DictIs
    <2> HIDE DEF b
    <2> QED
      BY <1>1, <2>1, <2>2, <2>3
  <1>3. SubSeq(other.marks, a, b) = SubSeq(dict.marks, a, b)
    <2>1. dict.marks \in Seq(Seq(Paths)) /\ other.marks \in Seq(Seq(Paths))
      BY DictIs
    <2>2. \A i \in 1..b : other.marks[i] = dict.marks[i]
      OBVIOUS
    <2> HIDE DEF a, b
    <2> QED
      BY <1>1, <1>2, <2>1, <2>2, PartKept
  <1> QED
    BY <1>3 DEF StoneNodes

LEMMA GrownDictIs ==
  ASSUME NEW dict \in DictSet, StonesOk(dict), NEW runs \in Seq(Seq(Paths)),
         NEW g, g = GrownDict(dict, runs)
  PROVE  /\ g \in DictSet /\ StonesOk(g) /\ Len(g.stones) = Len(dict.stones) + 1
         /\ \A h \in DOMAIN dict.stones : StoneNodes(g, h) = StoneNodes(dict, h)
         /\ StoneNodes(g, Len(dict.stones) + 1) = FlattenSeq(runs)
  <1> DEFINE n == Len(dict.stones)
             l == Len(dict.marks)
             new == [start |-> l + 1, num |-> Len(runs)]
  <1>1. /\ dict.stones \in Seq(StoneSet) /\ dict.marks \in Seq(Seq(Paths)) /\ n \in Nat /\ l \in Nat
        /\ DOMAIN dict.stones = 1..n /\ DOMAIN dict.marks = 1..l /\ Len(runs) \in Nat
        /\ \A h \in DOMAIN dict.stones : dict.stones[h].start \in Nat /\ dict.stones[h].num \in Nat
    BY DictIs
  <1>2. new \in StoneSet /\ new.start = l + 1 /\ new.num = Len(runs)
    BY <1>1 DEF StoneSet
  <1>3. g = [stones |-> Append(dict.stones, new), marks |-> dict.marks \o runs]
    BY DEF GrownDict
  <1> HIDE DEF new
  <1>4. PICK st : st = Append(dict.stones, new)
    OBVIOUS
  <1>5. PICK mk : mk = dict.marks \o runs
    OBVIOUS
  <1>6. st \in Seq(StoneSet) /\ Len(st) = n + 1 /\ st[n + 1] = new /\ \A h \in 1..n : st[h] = dict.stones[h]
    BY <1>1, <1>2, <1>4
  <1>7. mk \in Seq(Seq(Paths)) /\ Len(mk) = l + Len(runs) /\ \A i \in 1..l : mk[i] = dict.marks[i]
    BY <1>1, <1>5
  <1>8. g.stones = st /\ g.marks = mk
    BY <1>3, <1>4, <1>5
  <1>9. g \in DictSet
    BY <1>3, <1>4, <1>5, <1>6, <1>7 DEF DictSet
  <1>10. DOMAIN st = 1..(n + 1)
    BY <1>1, <1>6
  <1>11. StonesOk(g)
    <2>1. ASSUME NEW h \in 1..n
          PROVE  /\ st[h].start # 0 /\ st[h].start + st[h].num = st[h + 1].start
                 /\ st[h].start + st[h].num <= l + 1
      <3>1. st[h] = dict.stones[h]
        BY <1>6
      <3>2. /\ st[h].start # 0 /\ st[h].start + st[h].num <= l + 1
            /\ st[h].start + st[h].num = IF h = n THEN l + 1 ELSE dict.stones[h + 1].start
        BY <1>1, <3>1 DEF StonesOk
      <3>3. CASE h = n
        BY <1>2, <1>6, <3>2, <3>3
      <3>4. CASE h # n
        <4>1. h + 1 \in 1..n
          BY <1>1, <3>4
        <4>2. st[h + 1] = dict.stones[h + 1]
          BY <1>6, <4>1
        <4> QED
          BY <3>2, <3>4, <4>2
      <3> QED
        BY <3>3, <3>4
    <2>2. st[n + 1].start = l + 1 /\ st[n + 1].num = Len(runs)
      BY <1>2, <1>6
    <2>3. ASSUME NEW i \in 1..(n + 1), NEW h \in 1..(n + 1), i < h
          PROVE  st[i].start + st[i].num <= st[h].start
      <3>1. i \in 1..n /\ st[i] = dict.stones[i]
        BY <1>1, <1>6, <2>3
      <3>2. CASE h = n + 1
        BY <2>1, <2>2, <3>1, <3>2
      <3>3. CASE h \in 1..n
        <4>1. st[h] = dict.stones[h]
          BY <1>6, <3>3
        <4> QED
          BY <1>1, <2>3, <3>1, <3>3, <4>1 DEF StonesOk
      <3> QED
        BY <1>1, <3>2, <3>3
    <2>4. ASSUME NEW h \in 1..(n + 1)
          PROVE  /\ st[h].start # 0
                 /\ st[h].start + st[h].num = IF h = n + 1 THEN Len(mk) + 1 ELSE st[h + 1].start
                 /\ st[h].start + st[h].num <= Len(mk) + 1
      <3>0. PICK r \in Nat : r = Len(runs)
        BY <1>1
      <3>l. Len(mk) = l + r /\ l \in Nat /\ n \in Nat
        BY <1>1, <1>7, <3>0
      <3> HIDE DEF l, n
      <3>1. CASE h = n + 1
        <4>1. st[h].start = l + 1 /\ st[h].num = r
          BY <2>2, <3>0, <3>1
        <4> QED
          BY <3>l, <3>1, <4>1
      <3>2. CASE h \in 1..n
        <4>1. st[h].start \in Nat /\ st[h].num \in Nat
          BY <1>1, <1>6, <3>2 DEF n
        <4>2. /\ st[h].start # 0 /\ st[h].start + st[h].num = st[h + 1].start
              /\ st[h].start + st[h].num <= l + 1
          BY <2>1, <3>2
        <4>3. h # n + 1 /\ l + 1 <= Len(mk) + 1 /\ l + 1 \in Nat /\ Len(mk) + 1 \in Nat
          BY <3>l, <3>2
        <4> QED
          BY <4>1, <4>2, <4>3
      <3>3. h = n + 1 \/ h \in 1..n
        BY <3>l
      <3> QED
        BY <3>1, <3>2, <3>3
    <2> QED
      BY ONLY <1>6, <1>8, <1>10, <2>3, <2>4, Zenon DEF StonesOk
  <1>12. ASSUME NEW h \in DOMAIN dict.stones PROVE StoneNodes(g, h) = StoneNodes(dict, h)
    <2>1. h \in 1..n /\ h \in 1..(n + 1)
      BY <1>1
    <2>2. h \in DOMAIN g.stones /\ g.stones[h] = dict.stones[h]
      BY <1>6, <1>8, <1>10, <2>1
    <2>3. dict.stones[h].start + dict.stones[h].num - 1 <= l
      <3>1. dict.stones[h].start + dict.stones[h].num <= l + 1
        BY DEF StonesOk
      <3>2. dict.stones[h].start \in Nat /\ dict.stones[h].num \in Nat /\ l \in Nat
        BY <1>1
      <3> HIDE DEF l
      <3> QED
        BY <3>1, <3>2
    <2>4. \A i \in 1..(dict.stones[h].start + dict.stones[h].num - 1) :
            i \in DOMAIN g.marks /\ g.marks[i] = dict.marks[i]
      <3> SUFFICES ASSUME NEW i \in 1..(dict.stones[h].start + dict.stones[h].num - 1)
                   PROVE  i \in DOMAIN g.marks /\ g.marks[i] = dict.marks[i]
        OBVIOUS
      <3>1. dict.stones[h].start \in Nat /\ dict.stones[h].num \in Nat /\ l \in Nat /\ Len(runs) \in Nat
        BY <1>1
      <3> HIDE DEF l
      <3>2. i \in 1..l
        BY <2>3, <3>1
      <3>3. DOMAIN mk = 1..(l + Len(runs))
        BY <1>7, <3>1
      <3> QED
        BY <1>7, <1>8, <3>1, <3>2, <3>3
    <2> QED
      BY <1>9, <2>2, <2>4, StoneKept
  <1>13. StoneNodes(g, n + 1) = FlattenSeq(runs)
    <2>1. g.stones[n + 1].start = l + 1 /\ g.stones[n + 1].num = Len(runs)
      BY <1>2, <1>6, <1>8
    <2>2. SubSeq(mk, l + 1, l + 1 + Len(runs) - 1) = runs
      <3>1. PICK p : p = SubSeq(mk, l + 1, l + 1 + Len(runs) - 1)
        OBVIOUS
      <3>0. l + 1 \in Nat /\ l + 1 + Len(runs) - 1 = l + Len(runs) /\ l + Len(runs) \in Nat
        BY <1>1
      <3>2. p \in Seq(Seq(Paths)) /\ Len(p) = Len(runs)
        <4> HIDE DEF l
        <4>1. \A i \in (l + 1)..(l + Len(runs)) : mk[i] \in Seq(Paths)
          BY <1>1, <1>7, <3>0
        <4>2. l + 1 \in Int /\ l + Len(runs) \in Int
          BY <1>1
        <4>3. SubSeq(mk, l + 1, l + Len(runs)) \in Seq(Seq(Paths))
          BY <4>1, <4>2, SubSeqProperties
        <4>4. Len(SubSeq(mk, l + 1, l + Len(runs))) = Len(runs)
          BY <1>1, <3>0
        <4> QED
          BY <3>0, <3>1, <4>3, <4>4
      <3>3. \A i \in 1..Len(p) : p[i] = runs[i]
        <4>1. \A i \in 1..Len(runs) : p[i] = mk[l + 1 + i - 1]
          <5>1. PICK lo \in Int : lo = l + 1
            BY <1>1
          <5>2. PICK hi \in Int : hi = l + 1 + Len(runs) - 1
            <6>1. l \in Nat /\ Len(runs) \in Nat
              BY <1>1
            <6> HIDE DEF l
            <6>2. l + 1 + Len(runs) - 1 \in Int
              BY <6>1
            <6> QED
              BY <6>2
          <5>3. p = SubSeq(mk, lo, hi)
            BY <3>1, <5>1, <5>2
          <5>4. \A i \in 1..(hi - lo + 1) : SubSeq(mk, lo, hi)[i] = mk[lo + i - 1]
            <6>1. \A i \in lo..hi : mk[i] \in Seq(Paths)
              BY <1>1, <1>7, <5>1, <5>2
            <6> QED
              BY <6>1, SubSeqProperties
          <5>5. hi - lo + 1 = Len(runs)
            BY <1>1, <5>1, <5>2
          <5> QED
            BY <5>1, <5>3, <5>4, <5>5
        <4>2. \A i \in 1..Len(runs) : mk[l + i] = runs[i] /\ l + 1 + i - 1 = l + i
          BY <1>1, <1>5
        <4> QED
          BY <3>2, <4>1, <4>2
      <3> QED
        BY <3>1, <3>2, <3>3, SeqEqual
    <2> QED
      BY <1>8, <2>1, <2>2 DEF StoneNodes
  <1> QED
    BY <1>6, <1>8, <1>9, <1>11, <1>12, <1>13

(***************************************************************************)
(* What is true of a row stays true when nothing it refers to changes.     *)
(***************************************************************************)
RowsSame(d, e, n) == \A q \in 0..n : Row(e, q) = Row(d, q)
MatchesSame(d, e, t) ==
  \A k \in 1..t : e.dmis[k] = d.dmis[k] /\ Standing(e, k) = Standing(d, k)

LEMMA MatchKept ==
  ASSUME NEW d, NEW e, NEW r \in Nat, NEW k \in Nat \ {0}, d.dmis[k] \in MatchSet,
         RowsSame(d, e, r - 1), MatchesSame(d, e, k), MatchOk(d, r, k)
  PROVE  MatchOk(e, r, k)
  <1>1. PICK x : x = d.dmis[k]
    OBVIOUS
  <1>2. e.dmis[k] = x /\ Standing(e, k) = Standing(d, k) /\ x.fr \in Nat
    BY <1>1 DEF MatchesSame, MatchSet
  <1>3. \A q \in 1..(r - 1) : \A i : InRow(d, q, i) => InRow(e, q, i)
    BY DEF RowsSame, InRow
  <1>4. CASE x.fr = 0
    BY <1>1, <1>2, <1>4 DEF MatchOk
  <1>5. CASE x.fr # 0
    <2>1. x.fr < k
      BY <1>1, <1>5 DEF MatchOk
    <2>2. x.fr \in 1..k
      BY <1>2, <1>5, <2>1
    <2>3. PICK y : y = d.dmis[x.fr]
      OBVIOUS
    <2>4. e.dmis[x.fr] = y /\ Standing(e, x.fr) = Standing(d, x.fr)
      BY <2>2, <2>3 DEF MatchesSame
    <2>5. /\ x.len \in 1..r /\ Standing(d, k) \in Seq(PathsOf(x.level)) /\ x.level = y.level + 1
          /\ Standing(d, k) = FlattenSeq(SonRuns(Standing(d, x.fr), IdRange(x.spl)))
          /\ \E q \in 1..(r - 1) : InRow(d, q, x.fr) /\ r - x.len = q - y.len
      BY <1>1, <1>5, <2>3 DEF MatchOk
    <2>6. \E q \in 1..(r - 1) : InRow(e, q, x.fr) /\ r - x.len = q - y.len
      BY <1>3, <2>5
    <2> QED
      BY <1>2, <1>5, <2>1, <2>4, <2>5, <2>6 DEF MatchOk
  <1> QED
    BY <1>4, <1>5

LEMMA NodeKept ==
  ASSUME NEW d, NEW e, NEW r \in Nat, NEW node, NodeOk(d, r, node), RowsSame(d, e, r - 1),
         e.dmis[node.dmi] = d.dmis[node.dmi], Standing(e, node.dmi) = Standing(d, node.dmi),
         InRow(e, r, node.dmi)
  PROVE  NodeOk(e, r, node)
  BY DEF NodeOk, RowsSame

LEMMA TypedIs ==
  ASSUME NEW d, Typed(d), Len(d.rows) = Decoded(d) + 1
  PROVE  /\ Decoded(d) \in Nat /\ Len(d.dmis) \in Nat /\ DOMAIN d.dmis = 1..Len(d.dmis)
         /\ DOMAIN d.rows = 1..(Decoded(d) + 1) /\ d.rows \in Seq(RowSet) /\ d.dmis \in Seq(MatchSet)
         /\ \A k \in DOMAIN d.dmis : d.dmis[k] \in MatchSet
         /\ \A r \in 0..Decoded(d) :
              /\ Row(d, r) \in RowSet /\ Row(d, r).nodes \in Seq(NodeSet)
              /\ Row(d, r).dmiPos \in Nat /\ Row(d, r).dmiNum \in Nat /\ DmiEnd(Row(d, r)) \in Nat
  <1>1. d.pys \in Seq(97..122) /\ d.rows \in Seq(RowSet) /\ d.dmis \in Seq(MatchSet)
    BY DEF Typed
  <1>2. Decoded(d) \in Nat /\ Len(d.dmis) \in Nat /\ DOMAIN d.dmis = 1..Len(d.dmis)
    BY <1>1 DEF Decoded
  <1>3. \A r \in 0..Decoded(d) : Row(d, r) \in RowSet
    <2> SUFFICES ASSUME NEW r \in 0..Decoded(d) PROVE Row(d, r) \in RowSet
      OBVIOUS
    <2>1. r + 1 \in 1..Len(d.rows)
      BY <1>2
    <2> QED
      BY <1>1, <2>1 DEF Row
  <1>4. \A x \in RowSet : x.nodes \in Seq(NodeSet) /\ x.dmiPos \in Nat /\ x.dmiNum \in Nat
    BY DEF RowSet
  <1>5. \A r \in 0..Decoded(d) : DmiEnd(Row(d, r)) \in Nat
    <2> SUFFICES ASSUME NEW r \in 0..Decoded(d) PROVE DmiEnd(Row(d, r)) \in Nat
      OBVIOUS
    <2>1. Row(d, r).dmiPos \in Nat /\ Row(d, r).dmiNum \in Nat
      BY <1>3, <1>4
    <2> QED
      BY <2>1 DEF DmiEnd
  <1> QED
    BY <1>1, <1>2, <1>3, <1>4, <1>5

(* The matches of a row are among those there are.                         *)
LEMMA RowsAre ==
  ASSUME NEW d, Typed(d), RowsOk(d)
  PROVE  /\ \A q, r \in 0..Decoded(d) : q <= r => DmiEnd(Row(d, q)) <= DmiEnd(Row(d, r))
         /\ \A r \in 0..Decoded(d) : \A k \in Nat : InRow(d, r, k) => k \in 1..DmiEnd(Row(d, r))
         /\ \A r \in 0..Decoded(d) : DmiEnd(Row(d, r)) <= Len(d.dmis)
         /\ \A k : ~InRow(d, 0, k) \/ k \notin Nat
  <1>0. PICK n \in Nat : n = Decoded(d)
    BY TypedIs DEF RowsOk
  <1>1. \A r \in 0..n : /\ Row(d, r).dmiPos \in Nat /\ Row(d, r).dmiNum \in Nat
                        /\ DmiEnd(Row(d, r)) \in Nat /\ Row(d, r).dmiPos <= DmiEnd(Row(d, r))
    BY <1>0, TypedIs DEF RowsOk, DmiEnd
  <1>2. \A q, r \in 0..n : q < r => DmiEnd(Row(d, q)) <= Row(d, r).dmiPos
    BY <1>0 DEF RowsOk
  <1>3. \A q, r \in 0..n : q <= r => DmiEnd(Row(d, q)) <= DmiEnd(Row(d, r))
    <2> SUFFICES ASSUME NEW q \in 0..n, NEW r \in 0..n, q <= r
                 PROVE  DmiEnd(Row(d, q)) <= DmiEnd(Row(d, r))
      OBVIOUS
    <2>1. DmiEnd(Row(d, q)) \in Nat /\ DmiEnd(Row(d, r)) \in Nat /\ Row(d, r).dmiPos \in Nat
          /\ Row(d, r).dmiPos <= DmiEnd(Row(d, r))
      BY <1>1
    <2>2. q = r \/ DmiEnd(Row(d, q)) <= Row(d, r).dmiPos
      BY <1>2
    <2> QED
      BY <2>1, <2>2
  <1>4. DmiEnd(Row(d, n)) = Len(d.dmis) /\ n \in 0..n /\ Row(d, 0) = Row0
    BY <1>0 DEF RowsOk
  <1>5. \A r \in 0..n : DmiEnd(Row(d, r)) <= Len(d.dmis)
    BY <1>3, <1>4
  <1>6. \A k : ~InRow(d, 0, k) \/ k \notin Nat
    BY <1>4 DEF InRow, DmiEnd, Row0
  <1>7. \A r \in 0..n : \A k \in Nat : InRow(d, r, k) => k \in 1..DmiEnd(Row(d, r))
    BY <1>1 DEF InRow
  <1> QED
    BY <1>0, <1>3, <1>5, <1>6, <1>7

LEMMA RowKept ==
  ASSUME NEW d, Typed(d), RowsOk(d), NEW e, NEW r \in 1..Decoded(d), RowGood(d, r),
         RowsSame(d, e, r), MatchesSame(d, e, DmiEnd(Row(d, r))), e.dmis \in Seq(MatchSet)
  PROVE  RowGood(e, r)
  <1>0. r \in Nat /\ r \in 0..Decoded(d) /\ Row(e, r) = Row(d, r) /\ RowsSame(d, e, r - 1)
    <2>1. Decoded(d) \in Nat
      BY TypedIs DEF RowsOk
    <2> QED
      BY <2>1 DEF RowsSame
  <1>1. \A k : InRow(e, r, k) <=> InRow(d, r, k)
    BY <1>0 DEF InRow
  <1>2. ASSUME NEW k \in Nat, InRow(d, r, k)
        PROVE  k \in DOMAIN d.dmis /\ k # 0 /\ MatchesSame(d, e, k)
    <2>1. k \in 1..DmiEnd(Row(d, r)) /\ DmiEnd(Row(d, r)) <= Len(d.dmis) /\ DmiEnd(Row(d, r)) \in Nat
      BY <1>0, <1>2, RowsAre, TypedIs DEF RowsOk
    <2>2. DOMAIN d.dmis = 1..Len(d.dmis) /\ Len(d.dmis) \in Nat
      BY TypedIs DEF RowsOk
    <2> QED
      BY <2>1, <2>2 DEF MatchesSame
  <1>3. ASSUME NEW k \in DOMAIN e.dmis, InRow(e, r, k) PROVE MatchOk(e, r, k)
    <2>1. k \in Nat
      BY DOMAIN e.dmis = 1..Len(e.dmis)
    <2>2. k \in DOMAIN d.dmis /\ k \in Nat \ {0} /\ MatchesSame(d, e, k)
      BY <1>1, <1>2, <1>3, <2>1
    <2>3. MatchOk(d, r, k) /\ d.dmis[k] \in MatchSet
      BY <1>1, <1>3, <2>2, TypedIs DEF RowGood, RowsOk
    <2> QED
      BY <1>0, <2>2, <2>3, MatchKept
  <1>4. ASSUME NEW x \in DOMAIN Row(e, r).nodes PROVE NodeOk(e, r, Row(e, r).nodes[x])
    <2>1. PICK node : node = Row(d, r).nodes[x]
      OBVIOUS
    <2>2. NodeOk(d, r, node) /\ node.dmi \in Nat
      <3>1. node \in NodeSet
        BY <1>0, <2>1, TypedIs DEF RowsOk
      <3> QED
        BY <1>0, <2>1, <3>1 DEF RowGood, NodeSet
    <2>3. InRow(d, r, node.dmi)
      BY <2>2 DEF NodeOk
    <2>4. node.dmi \in 1..node.dmi /\ MatchesSame(d, e, node.dmi)
      BY <1>2, <2>2, <2>3
    <2>5. e.dmis[node.dmi] = d.dmis[node.dmi] /\ Standing(e, node.dmi) = Standing(d, node.dmi)
      BY <2>4 DEF MatchesSame
    <2> QED
      BY <1>0, <1>1, <2>1, <2>2, <2>3, <2>5, NodeKept
  <1> QED
    BY <1>3, <1>4 DEF RowGood

(***************************************************************************)
(* A match extended keeps the decoder good.                                *)
(***************************************************************************)
(* A match of row old, or the root, can be extended by splid.              *)
Extending(d, n, old, s, splid, u) ==
  /\ Good(d) /\ n \in Nat \ {0} /\ n = Decoded(d) /\ old \in 0..(n - 1)
  /\ s = 0 \/ (s \in Nat \ {0} /\ InRow(d, old, s))
  /\ splid \in Ids /\ (s # 0 => u = Standing(d, s))
LevelOf(d, s) == IF s = 0 THEN 0 ELSE d.dmis[s].level

LEMMA SourceIs ==
  ASSUME NEW d, NEW n, NEW old, NEW s, NEW splid, NEW u, Extending(d, n, old, s, splid, u)
  PROVE  /\ FromRow(d, old, s) \in 0..old /\ LevelOf(d, s) \in Nat
         /\ s # 0 => /\ old \in 1..(n - 1) /\ s \in 1..Len(d.dmis) /\ d.dmis[s] \in MatchSet
                     /\ d.dmis[s].len \in 1..old
                     /\ u = Standing(d, s) /\ u \in Seq(PathsOf(LevelOf(d, s)))
  <1>1. CASE s = 0
    BY <1>1 DEF FromRow, LevelOf, Extending
  <1>2. CASE s # 0
    <2>1. /\ Typed(d) /\ RowsOk(d) /\ n \in Nat \ {0} /\ n = Decoded(d) /\ old \in 0..(n - 1)
          /\ s \in Nat \ {0} /\ InRow(d, old, s) /\ u = Standing(d, s)
          /\ \A r \in 1..Decoded(d) : RowGood(d, r)
      BY <1>2 DEF Extending, Good
    <2>2. old # 0
      BY <2>1, RowsAre
    <2>3. old \in 1..(n - 1) /\ old \in 0..Decoded(d) /\ old \in 1..Decoded(d)
      BY <2>1, <2>2
    <2>4. s \in 1..Len(d.dmis) /\ s \in DOMAIN d.dmis
      <3>1. s \in 1..DmiEnd(Row(d, old)) /\ DmiEnd(Row(d, old)) <= Len(d.dmis)
        BY <2>1, <2>3, RowsAre
      <3>2. Len(d.dmis) \in Nat /\ DmiEnd(Row(d, old)) \in Nat /\ DOMAIN d.dmis = 1..Len(d.dmis)
        BY <2>1, <2>3, TypedIs DEF RowsOk
      <3> QED
        BY <3>1, <3>2
    <2>5. d.dmis[s] \in MatchSet /\ MatchOk(d, old, s)
      BY <2>1, <2>3, <2>4, TypedIs DEF RowGood, RowsOk
    <2>6. d.dmis[s].len \in 1..old /\ Standing(d, s) \in Seq(PathsOf(d.dmis[s].level))
      BY <2>5 DEF MatchOk
    <2>7. LevelOf(d, s) = d.dmis[s].level /\ d.dmis[s].level \in Nat
      BY <1>2, <2>5 DEF LevelOf, MatchSet
    <2>8. FromRow(d, old, s) = old - d.dmis[s].len
      BY <1>2 DEF FromRow
    <2> QED
      BY <2>1, <2>3, <2>4, <2>5, <2>6, <2>7, <2>8
  <1> QED
    BY <1>1, <1>2

LEMMA NewMatchIs ==
  ASSUME NEW d, NEW n, NEW old, NEW s, NEW splid, NEW u, Extending(d, n, old, s, splid, u),
         NEW x, x = NewDmi(d, s, splid, n - old)
  PROVE  /\ x \in MatchSet /\ x.fr = s /\ x.spl = splid /\ x.level = LevelOf(d, s) + 1
         /\ x.len = n - FromRow(d, old, s) /\ x.len \in 1..n
  <1>1. n \in Nat \ {0} /\ old \in 0..(n - 1) /\ splid \in Ids /\ s \in Nat
    BY DEF Extending
  <1>2. FromRow(d, old, s) \in 0..old /\ LevelOf(d, s) \in Nat
    BY SourceIs
  <1>3. CASE s = 0
    <2>1. x = [fr |-> 0, spl |-> splid, level |-> 1, len |-> n - old]
      BY <1>1, <1>3 DEF NewDmi
    <2>2. FromRow(d, old, s) = old /\ LevelOf(d, s) = 0
      BY <1>1, <1>3 DEF FromRow, LevelOf
    <2> QED
      BY <1>1, <1>3, <2>1, <2>2 DEF MatchSet
  <1>4. CASE s # 0
    <2>1. d.dmis[s].len \in 1..old /\ d.dmis[s].level \in Nat
      BY <1>4, SourceIs DEF MatchSet
    <2>2. x = [fr |-> s, spl |-> splid, level |-> d.dmis[s].level + 1, len |-> n - old + d.dmis[s].len]
      BY <1>4 DEF NewDmi
    <2>3. FromRow(d, old, s) = old - d.dmis[s].len /\ LevelOf(d, s) = d.dmis[s].level
      BY <1>4 DEF FromRow, LevelOf
    <2>4. n - old + d.dmis[s].len = n - (old - d.dmis[s].len) /\ n - old + d.dmis[s].len \in 1..n
      BY <1>1, <2>1
    <2> QED
      BY <1>1, <2>1, <2>2, <2>3, <2>4 DEF MatchSet
  <1> QED
    BY <1>3, <1>4

(* What a match added changes, one field after another.                    *)
LEMMA AddedIs ==
  ASSUME NEW d, NEW n, NEW old, NEW s, NEW splid, NEW u, Extending(d, n, old, s, splid, u),
         NEW e, Effect(d, old, u, s, splid, e), RunsOf(u, s, splid) # <<>>
  PROVE  /\ Shape(e) /\ e.pys = d.pys /\ Len(e.rows) = n + 1 /\ RowsSame(d, e, n - 1)
         /\ Row(e, n) = CountedRow(Row(d, n), NodesPut(d, old, u, s, splid), splid)
         /\ e.dmis \in Seq(MatchSet) /\ Len(e.dmis) = Len(d.dmis) + 1
         /\ MatchesSame(d, e, Len(d.dmis)) /\ e.dmis[Len(d.dmis) + 1] = NewDmi(d, s, splid, n - old)
         /\ Standing(e, Len(d.dmis) + 1) = NodesOf(u, s, splid)
         /\ e.dict \in DictSet /\ StonesOk(e.dict) /\ e.handles \in Seq(Nat) /\ HandlesOk(e)
  <1>1. /\ Typed(d) /\ RowsOk(d) /\ StonesOk(d.dict) /\ HandlesOk(d) /\ n \in Nat \ {0}
        /\ n = Decoded(d) /\ old \in 0..(n - 1) /\ splid \in Ids
    BY DEF Extending, Good
  <1>2. /\ Len(d.dmis) \in Nat /\ DOMAIN d.rows = 1..(n + 1) /\ d.rows \in Seq(RowSet)
        /\ d.dmis \in Seq(MatchSet) /\ Len(d.rows) = n + 1
    BY <1>1, TypedIs DEF RowsOk
  <1>3. PICK x : x = NewDmi(d, s, splid, n - old)
    OBVIOUS
  <1>4. PICK row : row = CountedRow(Row(d, n), NodesPut(d, old, u, s, splid), splid)
    OBVIOUS
  <1>5. PICK h : h = Len(d.dict.stones) + 1
    OBVIOUS
  <1>6. PICK runs : runs = RunsOf(u, s, splid)
    OBVIOUS
  <1>7. /\ Shape(e) /\ e.pys = d.pys /\ e.rows = [d.rows EXCEPT ![n + 1] = row]
        /\ e.dmis = Append(d.dmis, x) /\ e.handles = Append(d.handles, h)
        /\ e.dict = GrownDict(d.dict, runs)
    BY <1>1, <1>3, <1>4, <1>5, <1>6 DEF Effect
  <1>8. /\ Len(e.rows) = n + 1 /\ RowsSame(d, e, n - 1) /\ Row(e, n) = row
    <2>1. \A q \in 0..(n - 1) : q + 1 # n + 1 /\ q + 1 \in DOMAIN d.rows
      BY <1>1, <1>2
    <2>2. n + 1 \in DOMAIN d.rows
      BY <1>1, <1>2
    <2>3. Len(e.rows) = n + 1
      BY <1>1, <1>2, <1>7
    <2> QED
      BY <1>7, <2>1, <2>2, <2>3 DEF RowsSame, Row
  <1>9. x \in MatchSet
    BY <1>3, NewMatchIs
  <1>10. /\ e.dmis \in Seq(MatchSet) /\ Len(e.dmis) = Len(d.dmis) + 1 /\ e.dmis[Len(d.dmis) + 1] = x
         /\ \A k \in 1..Len(d.dmis) : e.dmis[k] = d.dmis[k]
    BY <1>2, <1>7, <1>9
  <1>11. d.dict \in DictSet /\ d.handles \in Seq(Nat) /\ Len(d.handles) = Len(d.dmis)
         /\ Len(d.dict.stones) \in Nat /\ DOMAIN d.dict.stones = 1..Len(d.dict.stones)
    BY <1>1, DictIs DEF Typed, HandlesOk
  <1>12. runs \in Seq(Seq(Paths)) /\ FlattenSeq(runs) = NodesOf(u, s, splid)
    <2>1. PICK l : l = LevelOf(d, s)
      OBVIOUS
    <2>2. l \in Nat /\ (s # 0 => u \in Seq(PathsOf(l)))
      BY <2>1, SourceIs
    <2>3. PICK v \in Nat : v = IF s = 0 THEN 1 ELSE l + 1
      BY <2>2
    <2>4. runs \in Seq(Seq(PathsOf(v))) /\ FlattenSeq(runs) = NodesOf(u, s, splid)
      <3>1. splid \in Ids /\ l \in Nat /\ (s # 0 => u \in Seq(PathsOf(l))) /\ v = IF s = 0 THEN 1 ELSE l + 1
        BY <1>1, <2>2, <2>3
      <3>2. RunsOf(u, s, splid) \in Seq(Seq(PathsOf(v)))
        BY ONLY <3>1, FoundIs
      <3>3. FlattenSeq(RunsOf(u, s, splid)) = NodesOf(u, s, splid)
        BY FlattenOne DEF RunsOf, NodesOf
      <3> QED
        BY <1>6, <3>2, <3>3
    <2>5. Seq(PathsOf(v)) \subseteq Seq(Paths)
      BY DEF PathsOf
    <2> QED
      BY <2>4, <2>5
  <1>13. /\ e.dict \in DictSet /\ StonesOk(e.dict) /\ Len(e.dict.stones) = h
         /\ \A g \in DOMAIN d.dict.stones : StoneNodes(e.dict, g) = StoneNodes(d.dict, g)
         /\ StoneNodes(e.dict, h) = NodesOf(u, s, splid)
    <2>1. PICK was : was = d.dict
      OBVIOUS
    <2>2. PICK g : g = e.dict
      OBVIOUS
    <2>3. was \in DictSet /\ StonesOk(was) /\ runs \in Seq(Seq(Paths)) /\ g = GrownDict(was, runs)
      BY ONLY <1>1, <1>7, <1>11, <1>12, <2>1, <2>2
    <2>4. /\ g \in DictSet /\ StonesOk(g) /\ Len(g.stones) = Len(was.stones) + 1
          /\ \A i \in DOMAIN was.stones : StoneNodes(g, i) = StoneNodes(was, i)
          /\ StoneNodes(g, Len(was.stones) + 1) = FlattenSeq(runs)
      BY ONLY <2>3, GrownDictIs
    <2> QED
      BY ONLY <1>5, <1>12, <2>1, <2>2, <2>4
  <1>14. /\ e.handles \in Seq(Nat) /\ Len(e.handles) = Len(d.dmis) + 1
         /\ e.handles[Len(d.dmis) + 1] = h /\ \A k \in 1..Len(d.dmis) : e.handles[k] = d.handles[k]
    BY <1>2, <1>5, <1>7, <1>11
  <1>15. DOMAIN e.dict.stones = 1..h
    BY <1>13, DictIs
  <1>16. DOMAIN d.handles = 1..Len(d.dmis) /\ DOMAIN e.handles = 1..(Len(d.dmis) + 1)
    BY <1>2, <1>11, <1>14
  <1>17. \A k \in 1..Len(d.dmis) : d.handles[k] \in DOMAIN d.dict.stones
    BY <1>1, <1>16 DEF HandlesOk
  <1>18. MatchesSame(d, e, Len(d.dmis))
    BY <1>10, <1>13, <1>14, <1>17 DEF MatchesSame, Standing
  <1>19. Standing(e, Len(d.dmis) + 1) = NodesOf(u, s, splid)
    BY <1>13, <1>14 DEF Standing
  <1>20. HandlesOk(e)
    <2>1. ASSUME NEW k \in 1..(Len(d.dmis) + 1)
          PROVE  e.handles[k] \in 1..h /\ \A j \in 1..(k - 1) : e.handles[j] < e.handles[k]
      <3>1. PICK t \in Nat : t = Len(d.dmis)
        BY <1>2
      <3>2. h \in Nat /\ \A j \in 1..t : d.handles[j] \in 1..(h - 1)
        BY <1>5, <1>11, <1>17, <3>1
      <3>3. CASE k = t + 1
        <4>1. e.handles[k] = h /\ \A j \in 1..t : e.handles[j] = d.handles[j]
          BY <1>14, <3>1, <3>3
        <4>2. h \in 1..h
          BY <1>5, <1>11
        <4>3. \A j \in 1..(k - 1) : j \in 1..t
          BY <3>3
        <4>4. \A j \in 1..t : e.handles[j] < h
          BY <3>2, <4>1
        <4> QED
          BY <4>1, <4>2, <4>3, <4>4
      <3>4. CASE k \in 1..t
        <4>1. e.handles[k] = d.handles[k] /\ \A j \in 1..(k - 1) : j \in 1..t /\ e.handles[j] = d.handles[j]
          BY <1>14, <3>1, <3>4
        <4>2. \A j \in 1..(k - 1) : d.handles[j] < d.handles[k]
          BY <1>1, <1>16, <3>1, <3>4 DEF HandlesOk
        <4>3. e.handles[k] \in 1..h
          BY <3>2, <3>4, <4>1
        <4> QED
          BY <4>1, <4>2, <4>3
      <3> QED
        BY <3>1, <3>3, <3>4
    <2> QED
      BY <1>10, <1>14, <1>15, <1>16, <2>1 DEF HandlesOk
  <1> QED
    BY <1>3, <1>4, <1>7, <1>8, <1>10, <1>13, <1>14, <1>18, <1>19, <1>20

(* The node made of an item that was found for the new match.              *)
IsMade(y, item, n, fr, k, dmi) ==
  y \in NodeSet /\ y.id = item.id /\ y.row = n /\ y.dmi = dmi /\ y.from[1] = fr /\ y.from[2] = k
LEMMA MadeIs ==
  ASSUME NEW from, NEW k \in Nat, NEW n \in Nat, NEW fr \in Nat, NEW dmi \in Nat,
         from[k].score \in Nat, NEW item \in ItemSet,
         NEW y, y = Made(NewNode(from, k, n, fr, dmi), item)
  PROVE  IsMade(y, item, n, fr, k, dmi)
  <1>1. PICK z : z = NewNode(from, k, n, fr, dmi)
    OBVIOUS
  <1>2. z = [id |-> 0, score |-> from[k].score, row |-> n, from |-> <<fr, k>>, dmi |-> dmi]
    BY <1>1 DEF NewNode
  <1>3. item.id \in 0..LemmaNum /\ item.psb \in Nat
    BY WordsAre DEF ItemSet
  <1>4. PICK i : i = item.id
    OBVIOUS
  <1>5. PICK p : p = z.score + item.psb
    OBVIOUS
  <1>6. p \in Nat
    <2>1. PICK c \in Nat : c = from[k].score
      OBVIOUS
    <2>2. p = c + item.psb
      BY <1>2, <1>5, <2>1
    <2> QED
      BY <1>3, <2>2
  <1>7. y = [z EXCEPT !.id = i, !.score = p]
    BY <1>1, <1>4, <1>5 DEF Made
  <1>8. y = [id |-> i, score |-> p, row |-> n, from |-> <<fr, k>>, dmi |-> dmi]
    BY <1>2, <1>7
  <1> QED
    BY <1>3, <1>4, <1>6, <1>8 DEF NodeSet, IsMade

LEMMA NodesPutIs ==
  ASSUME NEW d, NEW n, NEW old, NEW s, NEW splid, NEW u, Extending(d, n, old, s, splid, u),
         NEW e, Effect(d, old, u, s, splid, e), RunsOf(u, s, splid) # <<>>,
         NEW nodes, nodes = NodesPut(d, old, u, s, splid)
  PROVE  /\ nodes \in Seq(NodeSet) /\ \A x \in DOMAIN nodes : NodeOk(e, n, nodes[x])
         /\ \/ Row(d, n).nodes # <<>>
            \/ LpisOf(u, s, splid) # <<>> /\ Row(d, FromRow(d, old, s)).nodes # <<>>
            => nodes # <<>>
  <1> DEFINE fr == FromRow(d, old, s)
             T == {y \in NodeSet : NodeOk(e, n, y)}
  <1>1. /\ Typed(d) /\ RowsOk(d) /\ n \in Nat \ {0} /\ n = Decoded(d) /\ old \in 0..(n - 1)
        /\ splid \in Ids /\ RowGood(d, n)
    BY DEF Extending, Good
  <1>2. PICK t \in Nat : t = Len(d.dmis)
    BY <1>1, TypedIs DEF RowsOk
  <1>3. PICK l \in Nat : l = LevelOf(d, s)
    BY SourceIs
  <1>4. PICK x : x = NewDmi(d, s, splid, n - old)
    OBVIOUS
  <1>5. x.level = l + 1 /\ x.len = n - fr
    BY <1>3, <1>4, NewMatchIs
  <1>6. /\ RowsSame(d, e, n - 1) /\ e.dmis[t + 1] = x /\ MatchesSame(d, e, t)
        /\ Standing(e, t + 1) = NodesOf(u, s, splid)
        /\ Row(e, n) = CountedRow(Row(d, n), nodes, splid)
    BY <1>2, <1>4, AddedIs
  <1>7. /\ Row(d, n).nodes \in Seq(NodeSet) /\ Row(d, n).dmiPos \in Nat /\ Row(d, n).dmiNum \in Nat
        /\ DmiEnd(Row(d, n)) = t /\ n \in 0..Decoded(d)
    BY <1>1, <1>2, TypedIs DEF RowsOk
  <1>8. /\ Row(e, n).dmiPos = Row(d, n).dmiPos /\ DmiEnd(Row(e, n)) = t + 1
        /\ Row(d, n).dmiPos <= t
    <2>1. Row(e, n).dmiPos = Row(d, n).dmiPos /\ Row(e, n).dmiNum = Row(d, n).dmiNum + 1
      BY <1>6 DEF CountedRow
    <2> QED
      BY <1>7, <2>1 DEF DmiEnd
  <1>9. InRow(e, n, t + 1) /\ \A k \in Nat : InRow(d, n, k) => k \in 1..t /\ InRow(e, n, k)
    BY <1>7, <1>8 DEF InRow
  <1>10. Row(d, n).nodes \in Seq(T)
    <2>1. ASSUME NEW i \in DOMAIN Row(d, n).nodes PROVE Row(d, n).nodes[i] \in T
      <3>1. PICK y : y = Row(d, n).nodes[i]
        OBVIOUS
      <3>2. y \in NodeSet /\ NodeOk(d, n, y) /\ y.dmi \in Nat
        <4>1. y \in NodeSet
          BY <1>7, <3>1
        <4>2. NodeOk(d, n, y)
          <5> HIDE DEF T
          <5> QED
            BY <1>1, <3>1 DEF RowGood
        <4> QED
          BY <4>1, <4>2 DEF NodeSet
      <3>3. y.dmi \in 1..t /\ InRow(e, n, y.dmi)
        BY <1>9, <3>2 DEF NodeOk
      <3>4. e.dmis[y.dmi] = d.dmis[y.dmi] /\ Standing(e, y.dmi) = Standing(d, y.dmi)
        BY <1>6, <3>3 DEF MatchesSame
      <3>5. NodeOk(e, n, y)
        BY <1>1, <1>6, <3>2, <3>3, <3>4, NodeKept
      <3> QED
        BY <3>1, <3>2, <3>5
    <2> HIDE DEF T
    <2> QED
      BY <1>7, <2>1
  <1>11. fr \in 0..(n - 1) /\ Row(e, fr) = Row(d, fr) /\ Row(d, fr).nodes \in Seq(NodeSet)
    <2>1. fr \in 0..old
      BY SourceIs
    <2>2. fr \in 0..(n - 1) /\ fr \in 0..n
      BY <1>1, <2>1
    <2> QED
      BY <1>1, <1>6, <2>2, TypedIs DEF RowsSame, RowsOk
  <1>12. PICK lpis : lpis = LpisOf(u, s, splid)
    OBVIOUS
  <1>13. /\ lpis \in Seq(ItemSet) /\ NodesOf(u, s, splid) \in Seq(PathsOf(l + 1))
         /\ \A i \in DOMAIN lpis : Stands(lpis[i], NodesOf(u, s, splid))
    <2>1. splid \in Ids /\ (s # 0 => u \in Seq(PathsOf(l)))
      BY <1>1, <1>3, SourceIs
    <2>2. CASE s = 0
      <3>1. 1 = IF s = 0 THEN 1 ELSE l + 1
        BY <2>2
      <3>2. l + 1 = 1
        BY <1>3, <2>2 DEF LevelOf
      <3> QED
        BY <1>12, <2>1, <2>2, <3>1, <3>2, FoundIs
    <2>3. CASE s # 0
      <3>1. l + 1 = IF s = 0 THEN 1 ELSE l + 1
        BY <2>3
      <3> QED
        BY <1>12, <2>1, <2>3, <3>1, FoundIs
    <2> QED
      BY <2>2, <2>3
  <1>14. PICK from : from = Row(d, fr).nodes
    OBVIOUS
  <1>15. Len(from) \in Nat /\ DOMAIN from = 1..Len(from)
    BY <1>11, <1>14
  <1>16. ASSUME NEW k \in 1..Len(from), NEW i \in DOMAIN lpis
         PROVE  Made(NewNode(from, k, n, fr, t + 1), lpis[i]) \in T
    <2>1. PICK item : item = lpis[i]
      OBVIOUS
    <2>2. PICK y : y = Made(NewNode(from, k, n, fr, t + 1), item)
      OBVIOUS
    <2>3. item \in ItemSet /\ from[k].score \in Nat /\ k \in Nat /\ fr \in Nat /\ n \in Nat
      <3>1. from[k] \in NodeSet
        BY <1>11, <1>14
      <3> HIDE DEF fr
      <3> QED
        <4>1. item \in ItemSet
          BY ONLY <1>13, <2>1, i \in DOMAIN lpis, ElementOfSeq
        <4>2. from[k].score \in Nat
          BY ONLY <3>1 DEF NodeSet
        <4>3. n \in Nat
          BY ONLY <1>1
        <4>4. k \in Nat /\ fr \in Nat
          BY ONLY <1>11, <1>15, <4>3, k \in 1..Len(from)
        <4> QED
          BY ONLY <4>1, <4>2, <4>3, <4>4
    <2>4. /\ y \in NodeSet /\ y.id = item.id /\ y.row = n /\ y.dmi = t + 1
          /\ y.from[1] = fr /\ y.from[2] = k
      <3> HIDE DEF fr
      <3>1. PICK h \in Nat : h = t + 1
        OBVIOUS
      <3>2. y = Made(NewNode(from, k, n, fr, h), item)
        BY <2>2, <3>1
      <3>3. h \in Nat
        BY <3>1
      <3>4. IsMade(y, item, n, fr, k, h)
        BY ONLY <2>3, <3>2, <3>3, MadeIs
      <3> QED
        BY <3>1, <3>4 DEF IsMade
    <2>5. Stands(y, Standing(e, y.dmi))
      BY <1>6, <1>13, <2>1, <2>4 DEF Stands
    <2>6. Len(Lemmas[y.id].word) = l + 1
      <3>1. item.id \in LemmaIds
        BY <2>3 DEF ItemSet
      <3>2. Lemmas[item.id].spl \in PathsOf(l + 1)
        <4>1. PICK v : v = NodesOf(u, s, splid)
          OBVIOUS
        <4>2. PICK j \in DOMAIN v : v[j] = Lemmas[item.id].spl
          BY <1>13, <2>1, <4>1 DEF Stands
        <4>3. v \in Seq(PathsOf(l + 1))
          BY <1>13, <4>1
        <4> QED
          BY <4>2, <4>3
      <3> QED
        BY <2>4, <3>1, <3>2, LemmasAre DEF PathsOf
    <2>7. y.from[2] \in DOMAIN Row(e, y.from[1]).nodes
      BY <1>11, <1>14, <1>15, <2>4
    <2>8. NodeOk(e, n, y)
      <3> HIDE DEF fr
      <3> QED
        BY <1>5, <1>6, <1>9, <1>11, <2>4, <2>5, <2>6, <2>7 DEF NodeOk
    <2> QED
      BY <2>1, <2>2, <2>4, <2>8
  <1>17. nodes = IF lpis = <<>> THEN Row(d, n).nodes ELSE PutFrom(Row(d, n).nodes, from, lpis, n, fr, t + 1)
    BY <1>1, <1>2, <1>12, <1>14 DEF NodesPut
  <1>18. /\ nodes \in Seq(T)
         /\ Row(d, n).nodes # <<>> \/ (lpis # <<>> /\ from # <<>>) => nodes # <<>>
    <2>1. CASE lpis = <<>>
      BY <1>10, <1>17, <2>1
    <2>2. CASE lpis # <<>>
      <3>1. from # <<>> => Len(from) # 0
        BY <1>11, <1>14
      <3>2. PICK v : v = Row(d, n).nodes
        OBVIOUS
      <3> HIDE DEF T, fr
      <3>3. /\ PutFrom(v, from, lpis, n, fr, t + 1) \in Seq(T)
            /\ v # <<>> \/ (Len(from) # 0 /\ lpis # <<>>) => PutFrom(v, from, lpis, n, fr, t + 1) # <<>>
        BY <1>10, <1>13, <1>15, <1>16, <3>2, PutFromIs
      <3> QED
        BY <1>17, <2>2, <3>1, <3>2, <3>3
    <2> QED
      BY <2>1, <2>2
  <1>19. \A x1 \in DOMAIN nodes : nodes[x1] \in T
    <2> HIDE DEF T
    <2> QED
      BY <1>18
  <1>20. nodes \in Seq(NodeSet)
    <2>1. Seq(T) \subseteq Seq(NodeSet)
      OBVIOUS
    <2> QED
      BY <1>18, <2>1
  <1> QED
    BY <1>12, <1>14, <1>18, <1>19, <1>20

(* A step of add_char_qwerty() changes nothing but the last row and what   *)
(* comes after the matches there are; every half id it puts into the cache *)
(* has its match.                                                          *)
CacheKept(d, e) ==
  \A h \in HalfIds : \/ e.cache[h] = d.cache[h]
                     \/ \E k \in 1..Len(e.dmis) : e.dmis[k].fr = 0 /\ e.dmis[k].spl = h
Keeps(d, e) ==
  /\ e.pys = d.pys /\ RowsSame(d, e, Decoded(d) - 1)
  /\ Row(e, Decoded(d)).dmiPos = Row(d, Decoded(d)).dmiPos
  /\ Row(d, Decoded(d)).nodes # <<>> => Row(e, Decoded(d)).nodes # <<>>
  /\ Len(d.dmis) <= Len(e.dmis) /\ MatchesSame(d, e, Len(d.dmis)) /\ CacheKept(d, e)
  /\ d.cleared \subseteq e.cleared

LEMMA KeepsItself ==
  ASSUME NEW d, Good(d)
  PROVE  Keeps(d, d)
  <1>1. Len(d.dmis) \in Nat
    BY TypedIs DEF Good, RowsOk
  <1> QED
    BY <1>1 DEF Keeps, RowsSame, MatchesSame, CacheKept

LEMMA KeepsOn ==
  ASSUME NEW d, NEW e, NEW f, Good(d), Good(e), Good(f), Keeps(d, e), Keeps(e, f)
  PROVE  Keeps(d, f)
  <1>1. PICK n \in Nat : n = Decoded(d)
    BY TypedIs DEF Good, RowsOk
  <1>2. PICK t \in Nat : t = Len(d.dmis)
    BY TypedIs DEF Good, RowsOk
  <1>3. PICK v \in Nat : v = Len(e.dmis)
    BY TypedIs DEF Good, RowsOk
  <1>4. PICK w \in Nat : w = Len(f.dmis)
    BY TypedIs DEF Good, RowsOk
  <1>5. Decoded(e) = n /\ t <= v /\ v <= w
    BY <1>1, <1>2, <1>3, <1>4 DEF Keeps, Decoded
  <1>6. RowsSame(d, e, n - 1) /\ RowsSame(e, f, n - 1) /\ MatchesSame(d, e, t) /\ MatchesSame(e, f, v)
    BY <1>1, <1>2, <1>3, <1>5 DEF Keeps
  <1>7. RowsSame(d, f, n - 1)
    BY <1>6 DEF RowsSame
  <1>8. MatchesSame(d, f, t)
    <2>1. \A k \in 1..t : k \in 1..v
      BY <1>5
    <2> QED
      BY <1>6, <2>1 DEF MatchesSame
  <1>9. CacheKept(d, f)
    <2> SUFFICES ASSUME NEW h \in HalfIds, f.cache[h] # d.cache[h]
                 PROVE  \E k \in 1..w : f.dmis[k].fr = 0 /\ f.dmis[k].spl = h
      BY <1>4 DEF CacheKept
    <2>1. CASE f.cache[h] # e.cache[h]
      BY <1>4, <2>1 DEF Keeps, CacheKept
    <2>2. CASE f.cache[h] = e.cache[h]
      <3>1. PICK k \in 1..v : e.dmis[k].fr = 0 /\ e.dmis[k].spl = h
        BY <1>3, <2>2 DEF Keeps, CacheKept
      <3>2. k \in 1..w /\ f.dmis[k] = e.dmis[k]
        BY <1>5, <1>6 DEF MatchesSame
      <3> QED
        BY <3>1, <3>2
    <2> QED
      BY <2>1, <2>2
  <1>10. t <= w
    BY <1>5
  <1> QED
    BY <1>1, <1>2, <1>4, <1>5, <1>7, <1>8, <1>9, <1>10 DEF Keeps

CachedIs(cache, s, splid, lpis, c) ==
  /\ c \in [HalfIds -> Seq(ItemSet)]
  /\ \A h \in HalfIds : c[h] = IF s = 0 /\ h = splid THEN lpis ELSE cache[h]
LEMMA CacheWithIs ==
  ASSUME NEW cache \in [HalfIds -> Seq(ItemSet)], NEW s, NEW splid \in Ids, NEW lpis \in Seq(ItemSet),
         NEW c, c = CacheWith(cache, s, splid, lpis)
  PROVE  CachedIs(cache, s, splid, lpis, c)
  <1>1. CASE s = 0 /\ IsHalfId(splid)
    <2>1. c = [cache EXCEPT ![splid] = lpis] /\ splid \in HalfIds
      BY <1>1, IdsAre DEF CacheWith
    <2> QED
      BY <1>1, <2>1 DEF CachedIs
  <1>2. CASE ~(s = 0 /\ IsHalfId(splid))
    <2>1. c = cache
      BY <1>2 DEF CacheWith
    <2>2. \A h \in HalfIds : IsHalfId(h)
      BY IdsAre DEF Ids
    <2> QED
      BY <1>2, <2>1, <2>2 DEF CachedIs
  <1> QED
    BY <1>1, <1>2

LEMMA SameGood ==
  ASSUME NEW d, Good(d), NEW e, Shape(e), e.pys = d.pys, e.rows = d.rows, e.dmis = d.dmis,
         e.handles = d.handles, e.dict = d.dict, e.cache = d.cache, e.cleared = d.cleared
  PROVE  Good(e) /\ Keeps(d, e)
  <1>1. Decoded(e) = Decoded(d) /\ \A r : Row(e, r) = Row(d, r)
    BY DEF Decoded, Row
  <1>2. \A n : RowsSame(d, e, n) /\ MatchesSame(d, e, n)
    BY <1>1 DEF RowsSame, MatchesSame, Standing
  <1>3. Typed(e) /\ RowsOk(e) /\ StonesOk(e.dict) /\ HandlesOk(e) /\ CacheOk(e) /\ CacheHas(e)
    BY <1>1 DEF Good, Typed, RowsOk, HandlesOk, CacheOk, CacheHas
  <1>4. ASSUME NEW r \in 1..Decoded(e) PROVE RowGood(e, r)
    BY <1>1, <1>2, RowKept DEF Good, Typed
  <1>5. Keeps(d, e)
    <2>1. Len(d.dmis) \in Nat
      BY TypedIs DEF Good, RowsOk
    <2> QED
      BY <1>1, <1>2, <2>1 DEF Keeps, CacheKept
  <1> QED
    BY <1>3, <1>4, <1>5 DEF Good

LEMMA EffectGood ==
  ASSUME NEW d, NEW n, NEW old, NEW s, NEW splid, NEW u, Extending(d, n, old, s, splid, u),
         NEW e, Effect(d, old, u, s, splid, e)
  PROVE  /\ Good(e) /\ Keeps(d, e)
         /\ LpisOf(u, s, splid) # <<>> /\ Row(d, FromRow(d, old, s)).nodes # <<>> => Row(e, n).nodes # <<>>
  <1>0. Good(d) /\ splid \in Ids /\ n = Decoded(d)
    BY DEF Extending
  <1>l. PICK l \in Nat : l = LevelOf(d, s)
    BY SourceIs
  <1>f. /\ LpisOf(u, s, splid) \in Seq(ItemSet)
        /\ RunsOf(u, s, splid) = <<>> => LpisOf(u, s, splid) = <<>>
    <2>1. s # 0 => u \in Seq(PathsOf(l))
      BY <1>l, SourceIs
    <2> QED
      BY <1>0, <2>1, FoundIs
  <1>1. CASE RunsOf(u, s, splid) = <<>>
    <2>1. Good(e) /\ Keeps(d, e)
      BY <1>0, <1>1, <1>f, SameGood DEF Effect
    <2> QED
      BY <1>1, <1>f, <2>1
  <1>2. CASE RunsOf(u, s, splid) # <<>>
    <2>1. /\ Typed(d) /\ RowsOk(d) /\ n \in Nat \ {0} /\ n = Decoded(d) /\ old \in 0..(n - 1)
          /\ s \in Nat /\ CacheOk(d) /\ CacheHas(d) /\ \A r \in 1..n : RowGood(d, r)
      BY DEF Extending, Good
    <2>2. PICK t \in Nat : t = Len(d.dmis)
      BY <2>1, TypedIs DEF RowsOk
    <2>3. PICK x : x = NewDmi(d, s, splid, n - old)
      OBVIOUS
    <2>4. PICK nodes : nodes = NodesPut(d, old, u, s, splid)
      OBVIOUS
    <2>5. PICK lpis : lpis = LpisOf(u, s, splid)
      OBVIOUS
    <2>6. PICK row : row = CountedRow(Row(d, n), nodes, splid)
      OBVIOUS
    <2>7. /\ Shape(e) /\ e.pys = d.pys /\ Len(e.rows) = n + 1 /\ RowsSame(d, e, n - 1)
          /\ Row(e, n) = row /\ e.dmis \in Seq(MatchSet) /\ Len(e.dmis) = t + 1
          /\ MatchesSame(d, e, t) /\ e.dmis[t + 1] = x
          /\ e.dict \in DictSet /\ StonesOk(e.dict) /\ e.handles \in Seq(Nat) /\ HandlesOk(e)
      BY <1>2, <2>2, <2>3, <2>4, <2>6, AddedIs
    <2>8. /\ x \in MatchSet /\ x.fr = s /\ x.spl = splid /\ x.level = LevelOf(d, s) + 1
          /\ x.len = n - FromRow(d, old, s) /\ x.len \in 1..n
      BY <2>3, NewMatchIs
    <2>9. /\ nodes \in Seq(NodeSet) /\ \A y \in DOMAIN nodes : NodeOk(e, n, nodes[y])
          /\ Row(d, n).nodes # <<>> => nodes # <<>>
          /\ lpis # <<>> /\ Row(d, FromRow(d, old, s)).nodes # <<>> => nodes # <<>>
      BY <1>2, <2>4, <2>5, NodesPutIs
    <2>10. /\ Row(d, n) \in RowSet /\ Row(d, n).dmiPos \in Nat /\ Row(d, n).dmiNum \in Nat
           /\ DmiEnd(Row(d, n)) = t
      BY <2>1, <2>2, TypedIs DEF RowsOk
    <2>11. /\ row \in RowSet /\ row.nodes = nodes /\ row.dmiPos = Row(d, n).dmiPos
           /\ row.dmiNum = Row(d, n).dmiNum + 1
      <3>1. Row(d, n).full \in BOOLEAN
        BY <2>10 DEF RowSet
      <3>2. PICK b : b = (Row(d, n).full \/ ~IsHalfId(splid))
        OBVIOUS
      <3>3. b \in BOOLEAN
        BY <3>2
      <3>4. row = [nodes |-> nodes, dmiPos |-> Row(d, n).dmiPos, dmiNum |-> Row(d, n).dmiNum + 1, full |-> b]
        BY <2>6, <3>2 DEF CountedRow
      <3> QED
        BY <2>9, <2>10, <3>3, <3>4 DEF RowSet
    <2>12. DmiEnd(Row(e, n)) = t + 1 /\ Decoded(e) = n
      BY <2>1, <2>7, <2>10, <2>11 DEF DmiEnd, Decoded
    <2>13. e.cache = CacheWith(d.cache, s, splid, lpis)
      BY <1>2, <2>5 DEF Effect
    <2>14. /\ e.cache \in [HalfIds -> Seq(ItemSet)]
           /\ \A h \in HalfIds : e.cache[h] = IF s = 0 /\ h = splid THEN lpis ELSE d.cache[h]
      <3>1. d.cache \in [HalfIds -> Seq(ItemSet)] /\ lpis \in Seq(ItemSet)
        BY <1>f, <2>1, <2>5 DEF Typed
      <3> QED
        <4>1. splid \in Ids
          BY <1>0
        <4>2. CachedIs(d.cache, s, splid, lpis, e.cache)
          BY ONLY <2>13, <3>1, <4>1, CacheWithIs
        <4> QED
          BY <4>2 DEF CachedIs
    <2>15. s = 0 /\ IsHalfId(splid) => lpis = CacheOf(splid) /\ lpis # <<>>
      BY <1>0, <2>5, CacheOfIs DEF LpisOf
    <2>16. Typed(e)
      <3>1. e.rows \in Seq(RowSet)
        <4>1. PICK rows : rows = d.rows
          OBVIOUS
        <4>2. e.rows = [rows EXCEPT ![n + 1] = row]
          BY <1>2, <2>1, <2>4, <2>6, <4>1 DEF Effect
        <4>3. rows \in Seq(RowSet)
          BY <2>1, <4>1 DEF Typed
        <4>4. [rows EXCEPT ![n + 1] = row] \in Seq(RowSet)
          BY <2>11, <4>3, ExceptIs
        <4> QED
          BY <4>2, <4>4
      <3> QED
        BY <2>1, <2>7, <2>14, <3>1 DEF Typed
    <2>17. RowsOk(e)
      <3>1. \A r \in 0..(n - 1) : Row(e, r) = Row(d, r)
        BY <2>7 DEF RowsSame
      <3>2. Row(e, 0) = Row0
        BY <2>1, <3>1 DEF RowsOk
      <3>3. ASSUME NEW r \in 1..n PROVE Row(e, r).dmiPos = DmiEnd(Row(e, r - 1))
        <4>1. Row(e, r - 1) = Row(d, r - 1)
          BY <2>1, <3>1
        <4>2. Row(e, r).dmiPos = Row(d, r).dmiPos
          <5>1. r = n \/ r \in 0..(n - 1)
            BY <2>1
          <5>2. Row(e, n).dmiPos = Row(d, n).dmiPos
            BY <2>7, <2>11
          <5> QED
            BY <3>1, <5>1, <5>2
        <4> QED
          BY <2>1, <4>1, <4>2 DEF RowsOk
      <3>4. ASSUME NEW q \in 0..n, NEW r \in 0..n, q < r PROVE DmiEnd(Row(e, q)) <= Row(e, r).dmiPos
        <4>1. Row(e, q) = Row(d, q)
          BY <2>1, <3>1, <3>4
        <4>2. Row(e, r).dmiPos = Row(d, r).dmiPos
          <5>1. r = n \/ r \in 0..(n - 1)
            BY <2>1
          <5>2. Row(e, n).dmiPos = Row(d, n).dmiPos
            BY <2>7, <2>11
          <5> QED
            BY <3>1, <5>1, <5>2
        <4> QED
          BY <2>1, <3>4, <4>1, <4>2 DEF RowsOk
      <3> QED
        BY <2>7, <2>12, <3>2, <3>3, <3>4 DEF RowsOk
    <2>18. CacheOk(e)
      <3>1. \A h \in HalfIds : IsHalfId(h)
        BY IdsAre DEF Ids
      <3> QED
        BY <2>1, <2>14, <2>15, <3>1 DEF CacheOk
    <2>19. CacheHas(e)
      <3> SUFFICES ASSUME NEW k \in 1..(t + 1), e.dmis[k].fr = 0, IsHalfId(e.dmis[k].spl)
                   PROVE  e.cache[e.dmis[k].spl] # <<>>
        BY <2>7 DEF CacheHas
      <3>1. e.dmis[k].spl \in HalfIds
        <4>1. e.dmis[k] \in MatchSet
          BY <2>7
        <4>2. e.dmis[k].spl \in Ids
          BY <4>1 DEF MatchSet
        <4> QED
          BY <4>2, IdsAre
      <3>2. CASE k = t + 1
        BY <2>7, <2>8, <2>14, <2>15, <3>1, <3>2
      <3>3. CASE k \in 1..t
        <4>1. e.dmis[k] = d.dmis[k] /\ k \in DOMAIN d.dmis
          BY <2>1, <2>2, <2>7, <3>3, TypedIs DEF MatchesSame, RowsOk
        <4>2. d.cache[d.dmis[k].spl] # <<>>
          BY <2>1, <4>1 DEF CacheHas
        <4> QED
          BY <2>14, <2>15, <3>1, <4>1, <4>2
      <3> QED
        BY <3>2, <3>3
    <2>20. ASSUME NEW r \in 1..(n - 1) PROVE RowGood(e, r)
      <3>1. RowsSame(d, e, r) /\ r \in 1..Decoded(d) /\ r \in 0..Decoded(d)
        BY <2>1, <2>7 DEF RowsSame
      <3>2. DmiEnd(Row(d, r)) <= t /\ DmiEnd(Row(d, r)) \in Nat
        BY <2>1, <2>2, <3>1, RowsAre, TypedIs DEF RowsOk
      <3>3. MatchesSame(d, e, DmiEnd(Row(d, r)))
        BY <2>7, <3>2 DEF MatchesSame
      <3> QED
        BY <2>1, <2>7, <3>1, <3>3, RowKept
    <2>21. RowGood(e, n)
      <3>1. ASSUME NEW k \in 1..t, InRow(e, n, k) PROVE MatchOk(e, n, k)
        <4>1. InRow(d, n, k)
          BY <2>7, <2>10, <2>11, <3>1 DEF InRow
        <4>2. k \in DOMAIN d.dmis /\ d.dmis[k] \in MatchSet
          BY <2>1, <2>2, TypedIs DEF RowsOk
        <4>3. MatchOk(d, n, k)
          BY <2>1, <4>1, <4>2 DEF RowGood
        <4>4. MatchesSame(d, e, k)
          BY <2>7 DEF MatchesSame
        <4> QED
          BY <2>1, <2>7, <4>2, <4>3, <4>4, MatchKept
      <3>2. MatchOk(e, n, t + 1)
        <4>1. Standing(e, t + 1) = NodesOf(u, s, splid)
          BY <1>2, <2>2, AddedIs
        <4>2. CASE s = 0
          <5>1. x.level = 1 /\ x.fr = 0 /\ x.spl = splid
            BY <2>8, <4>2 DEF LevelOf
          <5>2. Standing(e, t + 1) = RootRun(splid) /\ RootRun(splid) \in Seq(PathsOf(1))
            BY <1>0, <4>1, <4>2, RootRunIs DEF NodesOf
          <5> QED
            BY <2>7, <2>8, <5>1, <5>2 DEF MatchOk
        <4>3. CASE s # 0
          <5>1. /\ old \in 1..(n - 1) /\ s \in 1..t /\ d.dmis[s].len \in 1..old
                /\ u = Standing(d, s) /\ u \in Seq(PathsOf(l))
            BY <1>l, <2>2, <4>3, SourceIs
          <5>2. e.dmis[s] = d.dmis[s] /\ Standing(e, s) = u
            BY <2>7, <5>1 DEF MatchesSame
          <5>3. InRow(e, old, s)
            <6>1. InRow(d, old, s)
              BY <4>3 DEF Extending
            <6>2. Row(e, old) = Row(d, old)
              BY <2>7, <5>1 DEF RowsSame
            <6> QED
              BY <6>1, <6>2 DEF InRow
          <5>4. n - x.len = old - e.dmis[s].len
            <6>1. x.len = n - (old - d.dmis[s].len)
              BY <2>8, <4>3 DEF FromRow
            <6> QED
              BY <2>1, <5>1, <5>2, <6>1
          <5>5. x.level = e.dmis[s].level + 1
            BY <2>8, <4>3, <5>2 DEF LevelOf
          <5>6. Standing(e, t + 1) = FlattenSeq(SonRuns(Standing(e, s), IdRange(splid)))
            BY <4>1, <4>3, <5>2 DEF NodesOf
          <5>7. Standing(e, t + 1) \in Seq(PathsOf(x.level))
            <6>1. PICK v : v = x.level
              OBVIOUS
            <6>2. v = IF s = 0 THEN 1 ELSE l + 1
              BY <1>l, <2>8, <4>3, <6>1
            <6>3. u \in Seq(PathsOf(l)) /\ l \in Nat /\ splid \in Ids
              BY <1>0, <1>l, <5>1
            <6>4. NodesOf(u, s, splid) \in Seq(PathsOf(v))
              BY ONLY <4>3, <6>2, <6>3, FoundIs
            <6> QED
              BY <4>1, <6>1, <6>4
          <5>8. x.fr = s /\ x.spl = splid /\ x.fr # 0 /\ x.fr < t + 1
            BY <2>8, <4>3, <5>1
          <5>9. \E q \in 1..(n - 1) : InRow(e, q, x.fr) /\ n - x.len = q - e.dmis[x.fr].len
            BY <5>1, <5>3, <5>4, <5>8
          <5> QED
            BY <2>7, <2>8, <5>5, <5>6, <5>7, <5>8, <5>9 DEF MatchOk
        <4> QED
          BY <4>2, <4>3
      <3>3. DOMAIN e.dmis = 1..(t + 1)
        BY <2>7
      <3>4. \A k \in 1..(t + 1) : k = t + 1 \/ k \in 1..t
        OBVIOUS
      <3>5. \A y \in DOMAIN Row(e, n).nodes : NodeOk(e, n, Row(e, n).nodes[y])
        BY <2>7, <2>9, <2>11
      <3> QED
        BY <3>1, <3>2, <3>3, <3>4, <3>5 DEF RowGood
    <2>22. Good(e)
      <3>1. \A r \in 1..n : r = n \/ r \in 1..(n - 1)
        BY <2>1
      <3>2. \A r \in 1..Decoded(e) : RowGood(e, r)
        BY <2>12, <2>20, <2>21, <3>1
      <3> QED
        BY <2>7, <2>16, <2>17, <2>18, <2>19, <3>2 DEF Good
    <2>23. CacheKept(d, e)
      <3> SUFFICES ASSUME NEW h \in HalfIds, e.cache[h] # d.cache[h]
                   PROVE  \E k \in 1..Len(e.dmis) : e.dmis[k].fr = 0 /\ e.dmis[k].spl = h
        BY DEF CacheKept
      <3>1. s = 0 /\ h = splid
        BY <2>14
      <3>2. e.dmis[t + 1].fr = 0 /\ e.dmis[t + 1].spl = h /\ t + 1 \in 1..Len(e.dmis)
        BY <2>7, <2>8, <3>1
      <3> QED
        BY <3>2
    <2>24. Keeps(d, e)
      <3>1. Len(d.dmis) <= Len(e.dmis) /\ MatchesSame(d, e, Len(d.dmis))
        BY <2>2, <2>7
      <3>2. d.cleared \subseteq e.cleared
        BY DEF Effect
      <3> QED
        BY <2>1, <2>7, <2>9, <2>11, <2>23, <3>1, <3>2 DEF Keeps
    <2> QED
      BY <2>5, <2>7, <2>9, <2>11, <2>22, <2>24
  <1> QED
    BY <1>1, <1>2

(***************************************************************************)
(* add_char_qwerty(): rounds of it, on what they go by.                    *)
(***************************************************************************)
(* A node was made when a length was found.                                *)
AccGood(a, n) ==
  /\ AccShape(a) /\ Good(a.d) /\ Decoded(a.d) = n /\ a.longest \in Nat
  /\ a.longest # 0 => Row(a.d, n).nodes # <<>>
  /\ a.matched \in BOOLEAN /\ a.stopped \in BOOLEAN
(* What a round does to its accumulator.                                   *)
Moves(a, b, n) ==
  /\ AccGood(b, n) /\ Keeps(a.d, b.d) /\ b.matched = a.matched /\ b.stopped = a.stopped

LEMMA ExtendOneGood ==
  ASSUME NEW n \in Nat \ {0}, NEW a, AccGood(a, n), NEW old \in 0..(n - 1),
         NEW s, s = 0 \/ (s \in Nat \ {0} /\ InRow(a.d, old, s)), NEW splid \in Ids,
         NEW b, b = ExtendOne(a, old, s, splid)
  PROVE  /\ Moves(a, b, n)
         /\ s = 0 /\ Row(a.d, old).nodes # <<>> => Row(b.d, n).nodes # <<>>
         /\ ~Skipped(a, old, s) => /\ Extending(a.d, n, old, s, splid, Standing(a.d, s))
                                   /\ OneEffect(a, a.d, n, old, Standing(a.d, s), s, splid, b)
  <1>0. /\ AccShape(a) /\ Good(a.d) /\ Decoded(a.d) = n /\ a.longest \in Nat
        /\ (a.longest # 0 => Row(a.d, n).nodes # <<>>)
        /\ a.matched \in BOOLEAN /\ a.stopped \in BOOLEAN
    BY DEF AccGood
  <1>1. CASE Skipped(a, old, s)
    <2>1. b = a
      BY <1>1 DEF ExtendOne
    <2>2. Keeps(a.d, b.d)
      BY <1>0, <2>1, KeepsItself
    <2>3. s = 0 => Row(b.d, n).nodes # <<>>
      <3> SUFFICES ASSUME s = 0 PROVE a.longest # 0
        BY <1>0, <2>1
      <3>1. a.longest > Decoded(a.d) - old
        BY <1>1 DEF Skipped
      <3> QED
        BY <1>0, <3>1
    <2> QED
      BY <1>1, <2>1, <2>2, <2>3 DEF Moves
  <1>2. CASE ~Skipped(a, old, s)
    <2>1. PICK d : d = a.d
      OBVIOUS
    <2>2. PICK u : u = Standing(d, s)
      OBVIOUS
    <2>3. Extending(d, n, old, s, splid, u)
      BY <1>0, <2>1, <2>2 DEF Extending
    <2>4. PICK l \in Nat : l = LevelOf(d, s)
      BY <2>3, SourceIs
    <2>5. FromRow(d, old, s) \in 0..old /\ (s # 0 => u = Standing(d, s) /\ u \in Seq(PathsOf(l)))
      BY <2>3, <2>4, SourceIs
    <2>6. Typed(d) /\ CacheOk(d) /\ Len(d.rows) = n + 1 /\ n \in Nat /\ n = Decoded(d)
      BY <1>0, <2>1 DEF Good, RowsOk
    <2>7. old \in Nat /\ old < n
      OBVIOUS
    <2>8. PICK found \in BOOLEAN : found <=> LpisOf(u, s, splid) # <<>> /\ a.longest = 0
                                              /\ Row(d, FromRow(d, old, s)).nodes # <<>>
      OBVIOUS
    <2>e. OneEffect(a, d, n, old, u, s, splid, b)
      BY <1>0, <1>2, <2>1, <2>5, <2>6, <2>7, ExtendOneIs
    <2>9. /\ AccShape(b) /\ b.matched = a.matched /\ b.stopped = a.stopped
          /\ b.longest = (IF LpisOf(u, s, splid) # <<>> /\ a.longest = 0
                               /\ Row(d, FromRow(d, old, s)).nodes # <<>>
                            THEN n - old ELSE a.longest)
          /\ Effect(d, old, u, s, splid, b.d)
      BY <2>e DEF OneEffect
    <2>10. b.longest = IF found THEN n - old ELSE a.longest
      BY <2>8, <2>9
    <2>11. /\ Good(b.d) /\ Keeps(d, b.d)
           /\ LpisOf(u, s, splid) # <<>> /\ Row(d, FromRow(d, old, s)).nodes # <<>> => Row(b.d, n).nodes # <<>>
      BY <2>3, <2>9, EffectGood
    <2>12. Decoded(b.d) = n
      BY <2>6, <2>11 DEF Keeps, Decoded
    <2>13. b.longest # 0 => Row(b.d, n).nodes # <<>>
      <3>1. CASE found
        BY <2>8, <2>11, <3>1
      <3>2. CASE ~found
        BY <1>0, <2>1, <2>6, <2>10, <2>11, <3>2 DEF Keeps
      <3> QED
        BY <3>1, <3>2
    <2>14. b.longest \in Nat
      BY <1>0, <2>10
    <2>15. s = 0 /\ Row(d, old).nodes # <<>> => Row(b.d, n).nodes # <<>>
      <3> SUFFICES ASSUME s = 0, Row(d, old).nodes # <<>> PROVE Row(b.d, n).nodes # <<>>
        OBVIOUS
      <3>1. FromRow(d, old, s) = old
        BY DEF FromRow
      <3>2. LpisOf(u, s, splid) # <<>>
        BY <2>4, FoundIs
      <3> QED
        BY <2>11, <3>1, <3>2
    <2>16. Moves(a, b, n)
      BY <1>0, <2>1, <2>9, <2>11, <2>12, <2>13, <2>14 DEF Moves, AccGood
    <2> QED
      BY <1>2, <2>1, <2>2, <2>3, <2>e, <2>15, <2>16
  <1> QED
    BY <1>1, <1>2

LEMMA MovesOn ==
  ASSUME NEW n, NEW a, NEW b, NEW c, AccGood(a, n), Moves(a, b, n), Moves(b, c, n)
  PROVE  Moves(a, c, n)
  <1>1. Good(a.d) /\ Good(b.d) /\ Good(c.d) /\ Keeps(a.d, b.d) /\ Keeps(b.d, c.d)
    BY DEF Moves, AccGood
  <1>2. Keeps(a.d, c.d)
    BY <1>1, KeepsOn
  <1> QED
    BY <1>2 DEF Moves

MatchAt(row, k) == IF k > row.dmiNum THEN 0 ELSE row.dmiPos + k
LEMMA ExtendRowLoop ==
  ASSUME NEW a, NEW old, NEW splid, Row(a.d, old).dmiNum \in Nat
  PROVE  \E f : /\ f[0] = a
                /\ \A k \in (0 + 1)..(Row(a.d, old).dmiNum + 1) : f[k] = ExtendOne(f[k - 1], old, MatchAt(Row(a.d, old), k), splid)
                /\ ExtendRow(a, old, splid) = f[Row(a.d, old).dmiNum + 1]
  <1> DEFINE last == Row(a.d, old).dmiNum + 1
             Then(v, k) == ExtendOne(v, old, MatchAt(Row(a.d, old), k), splid)
             Goes(top, f) == f = [k \in 0..top |-> IF k = 0 THEN a ELSE Then(f[k - 1], k)]
             S == {top \in Nat : \E f : Goes(top, f)}
  <1>1. ExtendRow(a, old, splid) = (CHOOSE f : Goes(last, f))[last]
    BY DEF ExtendRow, MatchAt
  <1> HIDE DEF last, Then
  <1>2. 0 \in S
    <2>1. Goes(0, [k \in 0..0 |-> a])
      OBVIOUS
    <2>2. 0 = 0
      OBVIOUS
    <2> HIDE DEF Goes
    <2> QED
      BY <2>1, <2>2
  <1>3. ASSUME NEW top \in Nat, top \in S PROVE top + 1 \in S
    <2> DEFINE e == top
    <2>1. PICK f : Goes(e, f)
      BY <1>3
    <2>i. e \in Nat /\ e >= 0 /\ e + 1 = (top + 1)
      OBVIOUS
    <2> HIDE DEF e
    <2> DEFINE g == [k \in 0..(e + 1) |-> IF k = e + 1 THEN Then(f[e], e + 1) ELSE f[k]]
    <2>2. ASSUME NEW k \in 0..(e + 1)
          PROVE  g[k] = IF k = 0 THEN a ELSE Then(g[k - 1], k)
      <3>1. CASE k = e + 1
        BY <2>1, <2>i, <3>1
      <3>2. CASE k \in 0..e
        <4>0. k # e + 1 /\ k \in 0..(e + 1)
          BY <2>i, <3>2
        <4>1. g[k] = f[k]
          BY <4>0
        <4>3. f[k] = IF k = 0 THEN a ELSE Then(f[k - 1], k)
          <5> HIDE DEF g
          <5> QED
            BY <2>1, <3>2
        <4>2. k # 0 => g[k - 1] = f[k - 1]
          BY <2>i, <3>2
        <4> HIDE DEF g
        <4> QED
          BY <4>1, <4>2, <4>3
      <3> QED
        BY <2>i, <3>1, <3>2
    <2>3. Goes(e + 1, g)
      BY <2>2
    <2> HIDE DEF g, Goes
    <2> QED
      BY <2>i, <2>3
  <1>4. \E f : Goes(last, f)
    <2>1. last \in S
      <3> HIDE DEF S
      <3>1. last \in Nat
        BY DEF last
      <3> QED
        BY <1>2, <1>3, <3>1, Induction
    <2>2. (last) = last
      BY DEF last
    <2> HIDE DEF Goes
    <2> QED
      BY <2>1, <2>2
  <1>5. Goes(last, CHOOSE f : Goes(last, f))
    <2> HIDE DEF Goes
    <2> QED
      BY <1>4
  <1> DEFINE f == CHOOSE f : Goes(last, f)
  <1>6. f = [k \in 0..last |-> IF k = 0 THEN a ELSE Then(f[k - 1], k)]
    BY <1>5
  <1>7. last \in Nat /\ last >= 0
    BY DEF last
  <1> HIDE DEF f
  <1>8. f[0] = a /\ \A k \in (0 + 1)..last : f[k] = Then(f[k - 1], k)
    <2>1. 0 \in 0..last
      BY <1>7
    <2>2. ASSUME NEW k \in (0 + 1)..last PROVE k \in 0..last /\ k # 0
      BY <1>7
    <2> QED
      BY <1>6, <2>1, <2>2
  <1> QED
    BY <1>1, <1>8 DEF f, last, Then

LEMMA MatchInRow ==
  ASSUME NEW d, NEW old, NEW row, row = Row(d, old), row.dmiPos \in Nat, row.dmiNum \in Nat,
         NEW last, last = row.dmiNum + 1, NEW k \in 1..last, NEW s, s = MatchAt(row, k)
  PROVE  s = 0 \/ (s \in Nat \ {0} /\ InRow(d, old, s))
  <1>1. PICK p \in Nat : p = row.dmiPos
    OBVIOUS
  <1>2. PICK m0 \in Nat : m0 = row.dmiNum
    OBVIOUS
  <1>3. k \in 1..(m0 + 1) /\ s = IF k > m0 THEN 0 ELSE p + k
    BY <1>1, <1>2 DEF MatchAt
  <1>4. InRow(d, old, s) <=> p < s /\ s <= p + m0
    BY <1>1, <1>2 DEF InRow, DmiEnd
  <1> QED
    BY <1>3, <1>4

LEMMA ExtendRowGood ==
  ASSUME NEW n \in Nat \ {0}, NEW a, AccGood(a, n), NEW old \in 0..(n - 1), NEW splid \in Ids,
         Row(a.d, old).nodes # <<>>, NEW b, b = ExtendRow(a, old, splid)
  PROVE  Moves(a, b, n) /\ Row(b.d, n).nodes # <<>>
  <1> DEFINE row == Row(a.d, old)
             num == Row(a.d, old).dmiNum
  <1>1. Good(a.d) /\ Decoded(a.d) = n
    BY DEF AccGood
  <1>2. num \in Nat /\ row.dmiPos \in Nat
    <2>1. old \in 0..n
      OBVIOUS
    <2> QED
      BY <1>1, <2>1, TypedIs DEF Good, RowsOk
  <1>n. PICK last \in Nat \ {0} : last = num + 1
    <2> HIDE DEF num
    <2>1. num + 1 \in Nat \ {0}
      BY <1>2
    <2> QED
      BY <2>1
  <1>3. PICK f : /\ f[0] = a
                 /\ \A k \in 1..last : f[k] = ExtendOne(f[k - 1], old, MatchAt(row, k), splid)
                 /\ ExtendRow(a, old, splid) = f[last]
    BY <1>2, <1>n, ExtendRowLoop
  <1> DEFINE S == {k \in Nat : Moves(a, f[k], n)}
  <1>4. 0 \in S
    BY <1>1, <1>3, KeepsItself DEF Moves
  <1>5. ASSUME NEW k \in 1..last, k - 1 \in S
        PROVE  k \in S /\ (k = last => Row(f[k].d, n).nodes # <<>>)
    <2>1. PICK v : v = f[k - 1]
      OBVIOUS
    <2>2. Moves(a, v, n)
      BY <1>5, <2>1
    <2>3. AccGood(v, n) /\ Row(v.d, old) = row
      BY <1>1, <2>2 DEF Moves, Keeps, RowsSame
    <2>4. PICK s : s = MatchAt(row, k)
      OBVIOUS
    <2>5. s = 0 \/ (s \in Nat \ {0} /\ InRow(v.d, old, s))
      BY <1>2, <1>n, <2>3, <2>4, MatchInRow
    <2>6. k = last => s = 0
      BY <1>2, <1>n, <2>4 DEF MatchAt
    <2>7. f[k] = ExtendOne(v, old, s, splid)
      BY <1>3, <2>1, <2>4
    <2> HIDE DEF S
    <2>8. Moves(v, f[k], n) /\ (s = 0 => Row(f[k].d, n).nodes # <<>>)
      <3>1. PICK w : w = f[k]
        OBVIOUS
      <3>2. w = ExtendOne(v, old, s, splid)
        BY <2>7, <3>1
      <3>3. n \in Nat \ {0} /\ old \in 0..(n - 1) /\ splid \in Ids
        OBVIOUS
      <3>4. Moves(v, w, n) /\ (s = 0 /\ Row(v.d, old).nodes # <<>> => Row(w.d, n).nodes # <<>>)
        BY ONLY <2>3, <2>5, <3>2, <3>3, ExtendOneGood
      <3> QED
        BY <2>3, <3>1, <3>4
    <2>9. Moves(a, f[k], n)
      BY <2>2, <2>8, MovesOn
    <2> QED
      BY <2>6, <2>8, <2>9 DEF S
  <1>6. 0..last \subseteq S
    <2> HIDE DEF S, num
    <2> QED
      BY <1>4, <1>5, Upwards
  <1>7. last \in S /\ last - 1 \in S /\ last \in 1..last
    <2> HIDE DEF S, num
    <2> QED
      BY <1>6
  <1>8. Row(f[last].d, n).nodes # <<>>
    <2> HIDE DEF S, num
    <2> QED
      BY <1>5, <1>7
  <1> QED
    BY <1>3, <1>7, <1>8

LEMMA ExtendByGood ==
  ASSUME NEW n \in Nat \ {0}, NEW a, AccGood(a, n), NEW old \in 0..(n - 1),
         Row(a.d, old).nodes # <<>>, NEW spl, spl.id \in Ids \cup {0}, spl.pre \in BOOLEAN,
         NEW b, b = ExtendBy(a, old, spl)
  PROVE  /\ AccGood(b, n) /\ Keeps(a.d, b.d)
         /\ (spl.id = 0 /\ b.d = a.d) \/ Row(b.d, n).nodes # <<>>
  <1>1. PICK matched : matched = (a.matched \/ spl.pre)
    OBVIOUS
  <1>2. PICK c : c = [a EXCEPT !.matched = @ \/ spl.pre]
    OBVIOUS
  <1>3. c = [a EXCEPT !.matched = matched]
    BY <1>1, <1>2
  <1>4. /\ AccShape(c) /\ c.d = a.d /\ c.longest = a.longest /\ c.matched = matched
        /\ c.stopped = a.stopped /\ matched \in BOOLEAN
    <2>1. AccShape(a)
      BY DEF AccGood
    <2>2. matched \in BOOLEAN
      BY <1>1
    <2> QED
      BY <1>3, <2>1, <2>2 DEF AccShape
  <1>5. AccGood(c, n) /\ Keeps(a.d, c.d)
    BY <1>4, KeepsItself DEF AccGood
  <1>6. b = IF spl.id = 0 THEN c ELSE ExtendRow(c, old, spl.id)
    BY <1>2 DEF ExtendBy
  <1>7. CASE spl.id = 0
    BY <1>4, <1>5, <1>6, <1>7
  <1>8. CASE spl.id # 0
    <2>1. Moves(c, b, n) /\ Row(b.d, n).nodes # <<>>
      BY <1>4, <1>5, <1>6, <1>8, ExtendRowGood
    <2> QED
      BY <1>4, <2>1 DEF Moves
  <1> QED
    BY <1>7, <1>8

(* The spelling that the letters after row old are, or none.               *)
LEMMA SpellingIs ==
  ASSUME NEW d, Good(d), NEW n \in Nat \ {0}, n = Decoded(d), NEW old \in 0..(n - 1),
         NEW spl, spl = SplidByStr(SubSeq(d.pys, old + 1, n))
  PROVE  spl.id \in Ids \cup {0} /\ spl.pre \in BOOLEAN
  <1>1. PICK p : p = d.pys
    OBVIOUS
  <1>2. p \in Seq(97..122) /\ Len(p) = n
    BY <1>1 DEF Good, Typed, Decoded
  <1>3. PICK c \in Nat \ {0} : c = old + 1
    OBVIOUS
  <1>4. ASSUME NEW i \in c..n PROVE p[i] \in 97..122
    <2>1. i \in 1..n
      BY <1>3
    <2>2. i \in 1..Len(p)
      BY <1>2, <2>1
    <2>3. PICK L : L = 97..122
      OBVIOUS
    <2>4. p \in Seq(L)
      BY <1>2, <2>3
    <2>5. p[i] \in L
      BY ONLY <2>2, <2>4, ElementOfSeq
    <2> QED
      BY <2>3, <2>5
  <1>5. SubSeq(p, c, n) \in Seq(97..122)
    BY <1>4, SubSeqProperties
  <1>6. PICK str : str = SubSeq(p, c, n)
    OBVIOUS
  <1>7. Len(str) \in Nat /\ spl = SplidByStr(str)
    BY <1>1, <1>3, <1>5, <1>6
  <1> QED
    BY <1>7, SplidByStrIs

(* A round of the outer loop: nothing happened, or the row has a node.     *)
LEMMA ExtendBackGood ==
  ASSUME NEW n \in Nat \ {0}, NEW a, AccGood(a, n), NEW ext \in Nat \ {0}, NEW b, b = ExtendBack(a, ext)
  PROVE  AccGood(b, n) /\ Keeps(a.d, b.d) /\ (b.d = a.d \/ Row(b.d, n).nodes # <<>>)
  <1> DEFINE old == Decoded(a.d) - ext
             str == SubSeq(a.d.pys, old + 1, Decoded(a.d))
  <1>1. AccShape(a) /\ Good(a.d) /\ Decoded(a.d) = n /\ Keeps(a.d, a.d)
    BY KeepsItself DEF AccGood
  <1>2. CASE b = a
    BY <1>1, <1>2
  <1>3. CASE b = [a EXCEPT !.stopped = TRUE]
    <2>1. /\ AccShape(b) /\ b.d = a.d /\ b.longest = a.longest /\ b.matched = a.matched
          /\ b.stopped = TRUE
      BY <1>1, <1>3 DEF AccShape
    <2> QED
      BY <1>1, <2>1 DEF AccGood
  <1>4. CASE old >= 0 /\ Row(a.d, old).nodes # <<>> /\ b = ExtendBy(a, old, SplidByStr(str))
    <2>1. old \in 0..(n - 1)
      BY <1>1, <1>4
    <2>3. PICK spl : spl = SplidByStr(str)
      OBVIOUS
    <2>4. spl.id \in Ids \cup {0} /\ spl.pre \in BOOLEAN
      BY <1>1, <2>1, <2>3, SpellingIs
    <2>5. PICK k : k = old
      OBVIOUS
    <2> HIDE DEF old, str
    <2>6. k \in 0..(n - 1) /\ Row(a.d, k).nodes # <<>> /\ b = ExtendBy(a, k, spl)
      BY <1>4, <2>1, <2>3, <2>5
    <2> QED
      BY <2>4, <2>6, ExtendByGood
  <1>5. \/ b = a \/ b = [a EXCEPT !.stopped = TRUE]
        \/ old >= 0 /\ Row(a.d, old).nodes # <<>> /\ b = ExtendBy(a, old, SplidByStr(str))
    <2>1. a.stopped \in BOOLEAN /\ old \in Int /\ (old < 0 <=> ~(old >= 0))
      BY <1>1 DEF AccGood
    <2> HIDE DEF str
    <2> QED
      BY <2>1 DEF ExtendBack, str
  <1> QED
    BY <1>2, <1>3, <1>4, <1>5

Begin(d) == [d |-> d, longest |-> 0, matched |-> FALSE, stopped |-> FALSE]
LEMMA AddCharLoop ==
  ASSUME NEW d, kMaxPinyinSize \in Nat
  PROVE  \E f : /\ f[0] = Begin(d)
                /\ \A k \in (0 + 1)..(kMaxPinyinSize + 1) : f[k] = ExtendBack(f[k - 1], kMaxPinyinSize + 1 + 1 - k)
                /\ AddCharQwerty(d) = f[kMaxPinyinSize + 1]
  <1> DEFINE last == kMaxPinyinSize + 1
             Then(v, k) == ExtendBack(v, kMaxPinyinSize + 1 + 1 - k)
             Goes(top, f) == f = [k \in 0..top |-> IF k = 0 THEN Begin(d) ELSE Then(f[k - 1], k)]
             S == {top \in Nat : \E f : Goes(top, f)}
  <1>1. AddCharQwerty(d) = (CHOOSE f : Goes(last, f))[last]
    BY DEF AddCharQwerty, Begin
  <1> HIDE DEF last, Then
  <1>2. 0 \in S
    <2>1. Goes(0, [k \in 0..0 |-> Begin(d)])
      OBVIOUS
    <2>2. 0 = 0
      OBVIOUS
    <2> HIDE DEF Goes
    <2> QED
      BY <2>1, <2>2
  <1>3. ASSUME NEW top \in Nat, top \in S PROVE top + 1 \in S
    <2> DEFINE e == top
    <2>1. PICK f : Goes(e, f)
      BY <1>3
    <2>i. e \in Nat /\ e >= 0 /\ e + 1 = (top + 1)
      OBVIOUS
    <2> HIDE DEF e
    <2> DEFINE g == [k \in 0..(e + 1) |-> IF k = e + 1 THEN Then(f[e], e + 1) ELSE f[k]]
    <2>2. ASSUME NEW k \in 0..(e + 1)
          PROVE  g[k] = IF k = 0 THEN Begin(d) ELSE Then(g[k - 1], k)
      <3>1. CASE k = e + 1
        BY <2>1, <2>i, <3>1
      <3>2. CASE k \in 0..e
        <4>0. k # e + 1 /\ k \in 0..(e + 1)
          BY <2>i, <3>2
        <4>1. g[k] = f[k]
          BY <4>0
        <4>3. f[k] = IF k = 0 THEN Begin(d) ELSE Then(f[k - 1], k)
          <5> HIDE DEF g
          <5> QED
            BY <2>1, <3>2
        <4>2. k # 0 => g[k - 1] = f[k - 1]
          BY <2>i, <3>2
        <4> HIDE DEF g
        <4> QED
          BY <4>1, <4>2, <4>3
      <3> QED
        BY <2>i, <3>1, <3>2
    <2>3. Goes(e + 1, g)
      BY <2>2
    <2> HIDE DEF g, Goes
    <2> QED
      BY <2>i, <2>3
  <1>4. \E f : Goes(last, f)
    <2>1. last \in S
      <3> HIDE DEF S
      <3>1. last \in Nat
        BY DEF last
      <3> QED
        BY <1>2, <1>3, <3>1, Induction
    <2>2. (last) = last
      BY DEF last
    <2> HIDE DEF Goes
    <2> QED
      BY <2>1, <2>2
  <1>5. Goes(last, CHOOSE f : Goes(last, f))
    <2> HIDE DEF Goes
    <2> QED
      BY <1>4
  <1> DEFINE f == CHOOSE f : Goes(last, f)
  <1>6. f = [k \in 0..last |-> IF k = 0 THEN Begin(d) ELSE Then(f[k - 1], k)]
    BY <1>5
  <1>7. last \in Nat /\ last >= 0
    BY DEF last
  <1> HIDE DEF f
  <1>8. f[0] = Begin(d) /\ \A k \in (0 + 1)..last : f[k] = Then(f[k - 1], k)
    <2>1. 0 \in 0..last
      BY <1>7
    <2>2. ASSUME NEW k \in (0 + 1)..last PROVE k \in 0..last /\ k # 0
      BY <1>7
    <2> QED
      BY <1>6, <2>1, <2>2
  <1> QED
    BY <1>1, <1>8 DEF f, last, Then

LEMMA AddCharQwertyGood ==
  ASSUME NEW d, Good(d), NEW n \in Nat \ {0}, n = Decoded(d), NEW b, b = AddCharQwerty(d)
  PROVE  AccGood(b, n) /\ Keeps(d, b.d) /\ (b.d = d \/ Row(b.d, n).nodes # <<>>)
  <1> DEFINE last == kMaxPinyinSize + 1
  <1>1. last \in Nat /\ last \in 0..last
    BY Sizes
  <1>2. PICK f : /\ f[0] = Begin(d)
                 /\ \A k \in (0 + 1)..(kMaxPinyinSize + 1) : f[k] = ExtendBack(f[k - 1], kMaxPinyinSize + 1 + 1 - k)
                 /\ AddCharQwerty(d) = f[kMaxPinyinSize + 1]
    BY Sizes, AddCharLoop
  <1> DEFINE S == {k \in Nat : /\ AccGood(f[k], n) /\ Keeps(d, f[k].d)
                               /\ f[k].d = d \/ Row(f[k].d, n).nodes # <<>>}
  <1>3. 0 \in S
    <2>1. AccGood(Begin(d), n) /\ Begin(d).d = d
      BY DEF AccGood, AccShape, Begin
    <2> QED
      BY <1>2, <2>1, KeepsItself
  <1>4. ASSUME NEW k \in 1..last, k - 1 \in S PROVE k \in S
    <2>1. PICK v : v = f[k - 1]
      OBVIOUS
    <2>2. AccGood(v, n) /\ Keeps(d, v.d) /\ (v.d = d \/ Row(v.d, n).nodes # <<>>)
      BY <1>4, <2>1
    <2>3. PICK ext \in Nat \ {0} : ext = kMaxPinyinSize + 1 + 1 - k
      BY Sizes
    <2>4. f[k] = ExtendBack(v, ext)
      BY <1>2, <2>1, <2>3
    <2>5. PICK w : w = f[k]
      OBVIOUS
    <2>6. AccGood(w, n) /\ Keeps(v.d, w.d) /\ (w.d = v.d \/ Row(w.d, n).nodes # <<>>)
      BY <2>2, <2>4, <2>5, ExtendBackGood
    <2>7. Keeps(d, w.d)
      BY <2>2, <2>6, KeepsOn DEF AccGood
    <2>8. k \in Nat
      BY <1>1
    <2> QED
      BY <2>2, <2>5, <2>6, <2>7, <2>8
  <1>5. 0..last \subseteq S
    <2> HIDE DEF last, S
    <2> QED
      BY <1>1, <1>3, <1>4, Upwards
  <1> QED
    BY <1>1, <1>2, <1>5

(***************************************************************************)
(* add_char(): a letter that is taken leaves all that was there.           *)
(***************************************************************************)
Follows(d, ch, e) ==
  /\ e.pys = Append(d.pys, ch) /\ RowsSame(d, e, Decoded(d)) /\ Len(d.dmis) <= Len(e.dmis)
  /\ MatchesSame(d, e, Len(d.dmis)) /\ CacheKept(d, e) /\ d.cleared \subseteq e.cleared

LEMMA EmptyRowIs ==
  ASSUME NEW d, Good(d)
  PROVE  /\ NewRow(d) \in RowSet /\ NewRow(d).nodes = <<>> /\ NewRow(d).dmiPos = Len(d.dmis)
         /\ DmiEnd(NewRow(d)) = Len(d.dmis)
  <1>1. Len(d.dmis) \in Nat
    BY TypedIs DEF Good, RowsOk
  <1>2. <<>> \in Seq(NodeSet)
    OBVIOUS
  <1> QED
    BY <1>1, <1>2 DEF NewRow, RowSet, DmiEnd

(* The decoder with a row for the letter.                                  *)
Lengthened(d, ch) == [d EXCEPT !.pys = Append(@, ch), !.rows = Append(@, NewRow(d))]

LEMMA LengthenedIs ==
  ASSUME NEW d, Good(d), NEW ch \in 97..122, NEW e, e = Lengthened(d, ch)
  PROVE  /\ Good(e) /\ Decoded(e) = Decoded(d) + 1 /\ Follows(d, ch, e)
         /\ Row(e, Decoded(d) + 1).nodes = <<>> /\ e.dmis = d.dmis
         /\ [e EXCEPT !.pys = d.pys, !.rows = d.rows] = d
  <1>1. PICK n \in Nat : n = Decoded(d)
    BY TypedIs DEF Good, RowsOk
  <1>2. PICK t \in Nat : t = Len(d.dmis)
    BY TypedIs DEF Good, RowsOk
  <1>3. PICK row : row = NewRow(d)
    OBVIOUS
  <1>4. row \in RowSet /\ row.nodes = <<>> /\ row.dmiPos = t /\ DmiEnd(row) = t
    BY <1>2, <1>3, EmptyRowIs
  <1>5. PICK pys : pys = Append(d.pys, ch)
    OBVIOUS
  <1>6. PICK rows : rows = Append(d.rows, row)
    OBVIOUS
  <1>7. e = [d EXCEPT !.pys = pys, !.rows = rows]
    BY <1>3, <1>5, <1>6 DEF Lengthened
  <1>8. Typed(d) /\ RowsOk(d) /\ Shape(d) /\ d.rows \in Seq(RowSet) /\ d.pys \in Seq(97..122)
        /\ Len(d.rows) = n + 1 /\ Len(d.pys) = n
    BY <1>1 DEF Good, Typed, RowsOk, Decoded
  <1>9. /\ Shape(e) /\ e.pys = pys /\ e.rows = rows /\ e.dmis = d.dmis /\ e.handles = d.handles
        /\ e.dict = d.dict /\ e.cache = d.cache /\ e.cleared = d.cleared
        /\ [e EXCEPT !.pys = d.pys, !.rows = d.rows] = d
    BY <1>7, <1>8 DEF Shape, Fields
  <1>10. pys \in Seq(97..122) /\ Len(pys) = n + 1
    <2>1. PICK L : L = 97..122
      OBVIOUS
    <2>2. ch \in L /\ d.pys \in Seq(L)
      BY <1>8, <2>1
    <2>3. Append(d.pys, ch) \in Seq(L) /\ Len(Append(d.pys, ch)) = n + 1
      BY <1>8, <2>2
    <2> QED
      BY <1>5, <2>1, <2>3
  <1>11. rows \in Seq(RowSet) /\ Len(rows) = n + 2 /\ rows[n + 2] = row
         /\ \A i \in 1..(n + 1) : rows[i] = d.rows[i]
    BY <1>4, <1>6, <1>8
  <1>12. Decoded(e) = n + 1 /\ Row(e, n + 1) = row /\ RowsSame(d, e, n)
    <2>1. \A q \in 0..n : q + 1 \in 1..(n + 1)
      OBVIOUS
    <2>2. n + 1 + 1 = n + 2
      OBVIOUS
    <2> QED
      BY <1>9, <1>10, <1>11, <2>1, <2>2 DEF Decoded, Row, RowsSame
  <1>13. \A k : MatchesSame(d, e, k)
    BY <1>9 DEF MatchesSame, Standing
  <1>14. Typed(e) /\ StonesOk(e.dict) /\ HandlesOk(e) /\ CacheOk(e) /\ CacheHas(e)
    BY <1>9, <1>10, <1>11 DEF Good, Typed, HandlesOk, CacheOk, CacheHas
  <1>15. /\ Row(d, 0) = Row0 /\ DmiEnd(Row(d, n)) = t
         /\ \A r \in 1..n : Row(d, r).dmiPos = DmiEnd(Row(d, r - 1))
         /\ \A q, r \in 0..n : q < r => DmiEnd(Row(d, q)) <= Row(d, r).dmiPos
         /\ \A r \in 0..n : DmiEnd(Row(d, r)) <= t
    <2>1. \A r \in 0..n : DmiEnd(Row(d, r)) <= t
      BY <1>1, <1>2, <1>8, RowsAre
    <2> QED
      BY <1>1, <1>2, <1>8, <2>1 DEF RowsOk
  <1>16. RowsOk(e)
    <2>0. \A r \in 0..(n + 1) : r = n + 1 \/ (r \in 0..n /\ Row(e, r) = Row(d, r))
      BY <1>12 DEF RowsSame
    <2>1. Row(e, 0) = Row0
      BY <1>12, <1>15 DEF RowsSame
    <2>2. ASSUME NEW r \in 1..(n + 1) PROVE Row(e, r).dmiPos = DmiEnd(Row(e, r - 1))
      <3>1. r - 1 \in 0..n /\ Row(e, r - 1) = Row(d, r - 1)
        BY <1>12 DEF RowsSame
      <3>2. CASE r = n + 1
        <4>1. r - 1 = n
          BY <3>2
        <4> QED
          BY <1>4, <1>12, <1>15, <3>1, <3>2, <4>1
      <3>3. CASE r # n + 1
        <4>1. r \in 1..n /\ Row(e, r) = Row(d, r)
          BY <2>0, <3>3
        <4> QED
          BY <1>15, <3>1, <4>1
      <3> QED
        BY <3>2, <3>3
    <2>3. ASSUME NEW q \in 0..(n + 1), NEW r \in 0..(n + 1), q < r
          PROVE  DmiEnd(Row(e, q)) <= Row(e, r).dmiPos
      <3>1. q \in 0..n /\ Row(e, q) = Row(d, q)
        BY <2>0, <2>3
      <3>2. CASE r = n + 1
        BY <1>4, <1>12, <1>15, <3>1, <3>2
      <3>3. CASE r # n + 1
        <4>1. r \in 0..n /\ Row(e, r) = Row(d, r)
          BY <2>0, <3>3
        <4> QED
          BY <1>15, <2>3, <3>1, <4>1
      <3> QED
        BY <3>2, <3>3
    <2>4. Len(e.rows) = Decoded(e) + 1 /\ DmiEnd(Row(e, Decoded(e))) = Len(e.dmis)
      BY <1>2, <1>4, <1>9, <1>11, <1>12
    <2> QED
      BY <1>12, <2>1, <2>2, <2>3, <2>4 DEF RowsOk
  <1>17. ASSUME NEW r \in 1..(n + 1) PROVE RowGood(e, r)
    <2>1. CASE r = n + 1
      <3>1. ASSUME NEW k \in 1..t PROVE ~InRow(e, r, k)
        BY <1>4, <1>12, <2>1 DEF InRow
      <3>2. DOMAIN e.dmis = 1..t
        BY <1>2, <1>9, TypedIs DEF Good, RowsOk
      <3>3. DOMAIN Row(e, r).nodes = {}
        BY <1>4, <1>12, <2>1
      <3> QED
        BY <3>1, <3>2, <3>3 DEF RowGood
    <2>2. CASE r \in 1..n
      <3>1. RowsSame(d, e, r)
        BY <1>12, <2>2 DEF RowsSame
      <3>2. RowGood(d, r) /\ e.dmis \in Seq(MatchSet)
        BY <1>1, <1>9, <2>2 DEF Good, Typed
      <3> QED
        BY <1>1, <1>8, <1>13, <2>2, <3>1, <3>2, RowKept
    <2> QED
      BY <2>1, <2>2
  <1>18. Good(e)
    BY <1>12, <1>14, <1>16, <1>17 DEF Good
  <1>19. Follows(d, ch, e)
    BY <1>1, <1>2, <1>5, <1>9, <1>12, <1>13 DEF Follows, CacheKept
  <1> QED
    BY <1>1, <1>4, <1>9, <1>12, <1>18, <1>19

LEMMA KeepsFollows ==
  ASSUME NEW d, NEW e, NEW f, NEW ch, Good(d), Good(e), Good(f), Decoded(e) = Decoded(d) + 1,
         Follows(d, ch, e), Keeps(e, f)
  PROVE  Follows(d, ch, f)
  <1>1. PICK n \in Nat : n = Decoded(d)
    BY TypedIs DEF Good, RowsOk
  <1>2. PICK t \in Nat : t = Len(d.dmis)
    BY TypedIs DEF Good, RowsOk
  <1>3. PICK v \in Nat : v = Len(e.dmis)
    BY TypedIs DEF Good, RowsOk
  <1>4. PICK w \in Nat : w = Len(f.dmis)
    BY TypedIs DEF Good, RowsOk
  <1>5. Decoded(e) - 1 = n /\ t <= v /\ v <= w
    BY <1>1, <1>2, <1>3, <1>4 DEF Keeps, Follows
  <1>6. RowsSame(d, e, n) /\ RowsSame(e, f, n) /\ MatchesSame(d, e, t) /\ MatchesSame(e, f, v)
    BY <1>1, <1>2, <1>3, <1>5 DEF Keeps, Follows
  <1>7. RowsSame(d, f, n)
    BY <1>6 DEF RowsSame
  <1>8. MatchesSame(d, f, t)
    <2>1. \A k \in 1..t : k \in 1..v
      BY <1>5
    <2> QED
      BY <1>6, <2>1 DEF MatchesSame
  <1>9. CacheKept(d, f)
    <2> SUFFICES ASSUME NEW h \in HalfIds, f.cache[h] # d.cache[h]
                 PROVE  \E k \in 1..w : f.dmis[k].fr = 0 /\ f.dmis[k].spl = h
      BY <1>4 DEF CacheKept
    <2>1. CASE f.cache[h] # e.cache[h]
      BY <1>4, <2>1 DEF Keeps, CacheKept
    <2>2. CASE f.cache[h] = e.cache[h]
      <3>1. PICK k \in 1..v : e.dmis[k].fr = 0 /\ e.dmis[k].spl = h
        BY <1>3, <2>2 DEF Follows, CacheKept
      <3>2. k \in 1..w /\ f.dmis[k] = e.dmis[k]
        BY <1>5, <1>6 DEF MatchesSame
      <3> QED
        BY <3>1, <3>2
    <2> QED
      BY <2>1, <2>2
  <1>10. t <= w /\ f.pys = Append(d.pys, ch) /\ d.cleared \subseteq f.cleared
    BY <1>5 DEF Keeps, Follows
  <1> QED
    BY <1>1, <1>2, <1>4, <1>7, <1>8, <1>9, <1>10 DEF Follows

(* A letter is taken, or nothing has changed.                              *)
LEMMA AddCharIs ==
  ASSUME NEW d, Good(d), Decoded(d) <= kMaxRowNum - 1, NEW ch \in 97..122,
         NEW r, r = AddChar(d, ch)
  PROVE  /\ r = [d |-> r.d, ok |-> r.ok] /\ r.ok \in BOOLEAN /\ Good(r.d)
         /\ r.ok => Follows(d, ch, r.d) /\ Decoded(r.d) = Decoded(d) + 1 /\ Decoded(d) < kMaxRowNum - 1
         /\ ~r.ok => r.d = d
  <1>1. PICK n \in Nat : n = Decoded(d)
    BY TypedIs DEF Good, RowsOk
  <1>2. CASE n >= kMaxRowNum - 1
    <2>1. r = [d |-> d, ok |-> FALSE]
      BY <1>1, <1>2 DEF AddChar
    <2> QED
      BY <2>1
  <1>3. CASE ~(n >= kMaxRowNum - 1)
    <2>1. PICK e : e = Lengthened(d, ch)
      OBVIOUS
    <2>2. /\ Good(e) /\ Decoded(e) = n + 1 /\ Follows(d, ch, e) /\ Row(e, n + 1).nodes = <<>>
          /\ [e EXCEPT !.pys = d.pys, !.rows = d.rows] = d
      BY <1>1, <2>1, LengthenedIs
    <2>3. PICK a : a = AddCharQwerty(e)
      OBVIOUS
    <2>4. n + 1 \in Nat \ {0}
      OBVIOUS
    <2>5. AccGood(a, n + 1) /\ Keeps(e, a.d) /\ (a.d = e \/ Row(a.d, n + 1).nodes # <<>>)
      BY <2>2, <2>3, <2>4, AddCharQwertyGood
    <2>6. Good(a.d) /\ Decoded(a.d) = n + 1 /\ a.matched \in BOOLEAN
      BY <2>5 DEF AccGood
    <2>7. Follows(d, ch, a.d)
      BY <1>1, <2>2, <2>5, <2>6, KeepsFollows
    <2>8. r = Judged(d, a)
      BY <1>1, <1>3, <2>1, <2>3 DEF AddChar, Lengthened
    <2>9. CASE Row(a.d, n + 1).nodes # <<>> \/ a.matched
      <3>1. r = [d |-> a.d, ok |-> TRUE]
        BY <2>6, <2>8, <2>9 DEF Judged
      <3>2. n < kMaxRowNum - 1
        BY <1>3, Sizes
      <3> QED
        BY <1>1, <2>6, <2>7, <3>1, <3>2
    <2>10. CASE ~(Row(a.d, n + 1).nodes # <<>> \/ a.matched)
      <3>1. r = [d |-> [a.d EXCEPT !.pys = d.pys, !.rows = d.rows], ok |-> FALSE]
        BY <2>6, <2>8, <2>10 DEF Judged
      <3>2. a.d = e
        BY <2>5, <2>10
      <3>3. r = [d |-> d, ok |-> FALSE]
        BY <2>2, <3>1, <3>2
      <3> QED
        BY <3>3
    <2> QED
      BY <2>9, <2>10
  <1> QED
    BY <1>2, <1>3

(***************************************************************************)
(* reset_search(): what is kept is as it was.                              *)
(***************************************************************************)
CutDict(dict, h) ==
  [stones |-> SubSeq(dict.stones, 1, h - 1), marks |-> SubSeq(dict.marks, 1, dict.stones[h].start - 1)]

(* The beginning of a sequence.                                            *)
LEMMA FirstsAre ==
  ASSUME NEW T, NEW s \in Seq(T), NEW n \in Nat, n <= Len(s)
  PROVE  /\ SubSeq(s, 1, n) \in Seq(T) /\ Len(SubSeq(s, 1, n)) = n /\ DOMAIN SubSeq(s, 1, n) = 1..n
         /\ \A i \in 1..n : SubSeq(s, 1, n)[i] = s[i]
  OBVIOUS

LEMMA CutDictIs ==
  ASSUME NEW dict \in DictSet, StonesOk(dict), NEW h \in DOMAIN dict.stones, NEW g, g = CutDict(dict, h)
  PROVE  /\ g \in DictSet /\ StonesOk(g) /\ DOMAIN g.stones = 1..(h - 1)
         /\ \A i \in 1..(h - 1) : StoneNodes(g, i) = StoneNodes(dict, i)
  <1>1. /\ dict.stones \in Seq(StoneSet) /\ dict.marks \in Seq(Seq(Paths))
        /\ Len(dict.stones) \in Nat /\ DOMAIN dict.stones = 1..Len(dict.stones) /\ Len(dict.marks) \in Nat
        /\ \A i \in DOMAIN dict.stones : dict.stones[i].start \in Nat /\ dict.stones[i].num \in Nat
    BY DictIs
  <1>2. PICK t \in Nat : t = dict.stones[h].start - 1
    <2>1. dict.stones[h].start \in Nat /\ dict.stones[h].start # 0
      BY <1>1 DEF StonesOk
    <2> QED
      BY <2>1
  <1>3. t <= Len(dict.marks) /\ dict.stones[h].start = t + 1
    <2>1. /\ dict.stones[h].start \in Nat /\ dict.stones[h].num \in Nat
          /\ dict.stones[h].start + dict.stones[h].num <= Len(dict.marks) + 1
      BY <1>1 DEF StonesOk
    <2>2. PICK x \in Nat, y \in Nat, z \in Nat :
            x = dict.stones[h].start /\ y = dict.stones[h].num /\ z = Len(dict.marks)
      BY ONLY <1>1, <2>1
    <2>3. x + y <= z + 1 /\ t = x - 1
      BY ONLY <1>2, <2>1, <2>2
    <2>4. t <= z /\ x = t + 1
      BY ONLY <2>3, t \in Nat, x \in Nat, y \in Nat, z \in Nat
    <2> QED
      BY ONLY <2>2, <2>4
  <1>4. PICK c \in Nat : c = h - 1
    BY <1>1
  <1>5. c <= Len(dict.stones) /\ c + 1 = h
    BY <1>1, <1>4
  <1>6. PICK st : st = SubSeq(dict.stones, 1, c)
    OBVIOUS
  <1>7. PICK mk : mk = SubSeq(dict.marks, 1, t)
    OBVIOUS
  <1>8. /\ st \in Seq(StoneSet) /\ Len(st) = c /\ DOMAIN st = 1..c
        /\ \A i \in 1..c : st[i] = dict.stones[i]
    BY <1>1, <1>5, <1>6, FirstsAre
  <1>9. /\ mk \in Seq(Seq(Paths)) /\ Len(mk) = t /\ DOMAIN mk = 1..t
        /\ \A i \in 1..t : mk[i] = dict.marks[i]
    BY <1>1, <1>3, <1>7, FirstsAre
  <1>10. g = [stones |-> st, marks |-> mk]
    BY <1>2, <1>4, <1>6, <1>7 DEF CutDict
  <1>11. g \in DictSet /\ g.stones = st /\ g.marks = mk
    BY <1>8, <1>9, <1>10 DEF DictSet
  <1>12. ASSUME NEW i \in 1..c
         PROVE  /\ i \in DOMAIN dict.stones /\ dict.stones[i].start # 0
                /\ dict.stones[i].start + dict.stones[i].num = dict.stones[i + 1].start
                /\ dict.stones[i].start + dict.stones[i].num <= t + 1
    <2>1. i \in DOMAIN dict.stones /\ i # Len(dict.stones) /\ i < h
      BY <1>1, <1>5
    <2> QED
      BY <1>3, <2>1 DEF StonesOk
  <1>13. StonesOk(g)
    <2>1. ASSUME NEW i \in 1..c
          PROVE  /\ st[i].start # 0 /\ st[i].start + st[i].num <= Len(mk) + 1
                 /\ st[i].start + st[i].num = IF i = Len(st) THEN Len(mk) + 1 ELSE st[i + 1].start
      <3>1. st[i] = dict.stones[i]
        BY <1>8
      <3>2. CASE i = c
        <4>1. dict.stones[i + 1].start = t + 1
          BY <1>3, <1>5, <3>2
        <4> QED
          BY <1>8, <1>9, <1>12, <3>1, <3>2, <4>1
      <3>3. CASE i # c
        <4>1. i + 1 \in 1..c
          BY <3>3
        <4>2. st[i + 1] = dict.stones[i + 1]
          BY <1>8, <4>1
        <4> QED
          BY <1>8, <1>9, <1>12, <3>1, <3>3, <4>2
      <3> QED
        BY <3>2, <3>3
    <2>2. ASSUME NEW j \in 1..c, NEW i \in 1..c, j < i
          PROVE  st[j].start + st[j].num <= st[i].start
      BY <1>8, <1>12, <2>2 DEF StonesOk
    <2> QED
      BY <1>8, <1>11, <2>1, <2>2 DEF StonesOk
  <1>14. ASSUME NEW i \in 1..c PROVE StoneNodes(g, i) = StoneNodes(dict, i)
    <2>1. i \in DOMAIN dict.stones /\ i \in DOMAIN g.stones /\ g.stones[i] = dict.stones[i]
      BY <1>8, <1>11, <1>12
    <2>2. \A k \in 1..(dict.stones[i].start + dict.stones[i].num - 1) :
            k \in DOMAIN g.marks /\ g.marks[k] = dict.marks[k]
      <3>1. dict.stones[i].start \in Nat /\ dict.stones[i].num \in Nat
        BY <1>1, <2>1
      <3>2. dict.stones[i].start + dict.stones[i].num - 1 <= t
        BY <1>12, <3>1
      <3>3. \A k \in 1..(dict.stones[i].start + dict.stones[i].num - 1) : k \in 1..t
        BY <3>1, <3>2
      <3> QED
        BY <1>9, <1>11, <3>3
    <2> QED
      BY <1>11, <2>1, <2>2, StoneKept
  <1> QED
    BY <1>4, <1>8, <1>11, <1>13, <1>14

CutAt(d, pos, e) ==
  /\ e.pys = SubSeq(d.pys, 1, pos) /\ Decoded(e) = pos /\ RowsSame(d, e, pos)
  /\ Len(e.dmis) = DmiEnd(Row(d, pos)) /\ MatchesSame(d, e, DmiEnd(Row(d, pos)))
  /\ e.cache = d.cache /\ e.cleared = d.cleared

(* The dictionary's part.                                                  *)
CutOk(d, used, dict) ==
  /\ dict \in DictSet /\ StonesOk(dict)
  /\ \A k \in 1..used : /\ d.handles[k] \in DOMAIN dict.stones
                        /\ StoneNodes(dict, d.handles[k]) = Standing(d, k)
ResetDict(d, pos) ==
  CASE pos = 0 -> EmptyDict
    [] 0 < pos /\ pos < Decoded(d) /\ Row(d, pos + 1).dmiNum > 0 ->
         ResetMilestones(d.dict, pos, d.handles[Row(d, pos + 1).dmiPos + 1])
    [] OTHER -> d.dict

LEMMA ResetDictIs ==
  ASSUME NEW d, Good(d), NEW pos \in 0..Decoded(d)
  PROVE  CutOk(d, DmiEnd(Row(d, pos)), ResetDict(d, pos))
  <1> DEFINE used == DmiEnd(Row(d, pos))
  <1>1. PICK t \in Nat : t = Len(d.dmis)
    BY TypedIs DEF Good, RowsOk
  <1>2. used \in Nat /\ used <= t
    BY <1>1, TypedIs, RowsAre DEF Good, RowsOk
  <1>3. /\ d.dict \in DictSet /\ StonesOk(d.dict) /\ Len(d.handles) = t /\ DOMAIN d.handles = 1..t
        /\ \A k \in 1..t : /\ d.handles[k] \in DOMAIN d.dict.stones
                           /\ \A j \in 1..(k - 1) : d.handles[j] < d.handles[k]
    <2>1. d.handles \in Seq(Nat)
      BY DEF Good, Typed
    <2> QED
      BY <1>1, <2>1 DEF Good, Typed, HandlesOk
  <1>4. CASE pos = 0
    <2>1. used = 0
      BY <1>4 DEF Good, RowsOk, Row0, DmiEnd
    <2>2. EmptyDict \in DictSet /\ StonesOk(EmptyDict)
      <3>1. PICK e : e = EmptyDict
        OBVIOUS
      <3>2. e = [stones |-> <<>>, marks |-> <<>>]
        BY <3>1 DEF EmptyDict
      <3>3. DOMAIN e.stones = {} /\ e \in DictSet
        BY <3>2 DEF DictSet
      <3> QED
        BY <3>1, <3>3 DEF StonesOk
    <2>3. ResetDict(d, pos) = EmptyDict
      BY <1>4 DEF ResetDict
    <2> QED
      BY <2>1, <2>2, <2>3 DEF CutOk
  <1>5. CASE 0 < pos /\ pos < Decoded(d) /\ Row(d, pos + 1).dmiNum > 0
    <2>1. Decoded(d) \in Nat /\ pos + 1 \in 1..Decoded(d) /\ pos + 1 \in 0..Decoded(d) /\ pos + 1 - 1 = pos
      BY <1>5, TypedIs DEF Good, RowsOk
    <2>2. Row(d, pos + 1).dmiPos = used
      BY <2>1 DEF Good, RowsOk
    <2>3. used + 1 \in 1..t
      <3>1. Row(d, pos + 1).dmiNum \in Nat /\ DmiEnd(Row(d, pos + 1)) <= t
        BY <1>1, <2>1, TypedIs, RowsAre DEF Good, RowsOk
      <3>2. DmiEnd(Row(d, pos + 1)) = used + Row(d, pos + 1).dmiNum
        BY <2>2 DEF DmiEnd
      <3> HIDE DEF used
      <3> QED
        BY <1>1, <1>2, <1>5, <3>1, <3>2
    <2>4. PICK h : h = d.handles[used + 1]
      OBVIOUS
    <2>5. h \in DOMAIN d.dict.stones /\ \A j \in 1..used : d.handles[j] < h
      <3> HIDE DEF used
      <3> QED
        BY <1>2, <1>3, <2>3, <2>4
    <2>6. DOMAIN d.dict.stones = 1..Len(d.dict.stones) /\ Len(d.dict.stones) \in Nat
      BY <1>3, DictIs
    <2>7. PICK g : g = CutDict(d.dict, h)
      OBVIOUS
    <2>8. ResetDict(d, pos) = g
      <3>1. ResetDict(d, pos) = ResetMilestones(d.dict, pos, h)
        BY <1>5, <2>2, <2>4 DEF ResetDict
      <3>2. d.dict = [stones |-> d.dict.stones, marks |-> d.dict.marks]
        BY <1>3 DEF DictSet
      <3>3. ResetMilestones(d.dict, pos, h) =
              [d.dict EXCEPT !.stones = SubSeq(@, 1, h - 1), !.marks = SubSeq(@, 1, d.dict.stones[h].start - 1)]
        BY <1>5, <2>5, <2>6 DEF ResetMilestones
      <3> QED
        BY <2>7, <3>1, <3>2, <3>3 DEF CutDict
    <2>9. /\ g \in DictSet /\ StonesOk(g) /\ DOMAIN g.stones = 1..(h - 1)
          /\ \A i \in 1..(h - 1) : StoneNodes(g, i) = StoneNodes(d.dict, i)
      BY <1>3, <2>5, <2>7, CutDictIs
    <2>10. ASSUME NEW k \in 1..used
           PROVE  d.handles[k] \in DOMAIN g.stones /\ StoneNodes(g, d.handles[k]) = Standing(d, k)
      <3>1. k \in 1..t /\ d.handles[k] < h
        <4> HIDE DEF used
        <4> QED
          BY <1>2, <2>5
      <3>2. d.handles[k] \in 1..(h - 1)
        BY <1>3, <2>5, <2>6, <3>1
      <3> QED
        BY <2>9, <3>2 DEF Standing
    <2> QED
      BY <2>8, <2>9, <2>10 DEF CutOk
  <1>6. CASE ~(pos = 0) /\ ~(0 < pos /\ pos < Decoded(d) /\ Row(d, pos + 1).dmiNum > 0)
    <2>1. ResetDict(d, pos) = d.dict
      BY <1>6 DEF ResetDict
    <2>2. \A k \in 1..used : k \in 1..t
      <3> HIDE DEF used
      <3> QED
        BY <1>2
    <2> QED
      BY <1>3, <2>1, <2>2 DEF CutOk, Standing
  <1> QED
    BY <1>4, <1>5, <1>6

LEMMA ResetSearchIs ==
  ASSUME NEW d, Good(d), NEW pos \in 0..Decoded(d), NEW e, e = ResetSearch(d, pos)
  PROVE  Good(e) /\ CutAt(d, pos, e)
  <1> DEFINE used == DmiEnd(Row(d, pos))
  <1>0. Decoded(d) \in Nat /\ pos \in Nat
    BY TypedIs DEF Good, RowsOk
  <1>1. PICK t \in Nat : t = Len(d.dmis)
    BY TypedIs DEF Good, RowsOk
  <1>2. used \in Nat /\ used <= t
    BY <1>1, TypedIs, RowsAre DEF Good, RowsOk
  <1>3. PICK dict : dict = ResetDict(d, pos)
    OBVIOUS
  <1>4. CutOk(d, used, dict)
    BY <1>3, ResetDictIs
  <1>5. PICK pys : pys = SubSeq(d.pys, 1, pos)
    OBVIOUS
  <1>6. PICK rows : rows = SubSeq(d.rows, 1, pos + 1)
    OBVIOUS
  <1>7. PICK dmis : dmis = SubSeq(d.dmis, 1, used)
    OBVIOUS
  <1>8. PICK handles : handles = SubSeq(d.handles, 1, used)
    OBVIOUS
  <1>9. e = [d EXCEPT !.pys = pys, !.rows = rows, !.dmis = dmis, !.handles = handles, !.dict = dict]
    <2>1. ~(pos > Decoded(d))
      BY <1>0
    <2> QED
      BY <1>3, <1>5, <1>6, <1>7, <1>8, <2>1 DEF ResetSearch, ResetDict
  <1> HIDE DEF used
  <1>10. /\ Shape(e) /\ e.pys = pys /\ e.rows = rows /\ e.dmis = dmis /\ e.handles = handles
         /\ e.dict = dict /\ e.cache = d.cache /\ e.cleared = d.cleared
    <2>1. Shape(d)
      BY DEF Good, Typed
    <2> QED
      BY <1>9, <2>1 DEF Shape, Fields
  <1>11. /\ Typed(d) /\ RowsOk(d) /\ d.pys \in Seq(97..122) /\ d.rows \in Seq(RowSet)
         /\ d.dmis \in Seq(MatchSet) /\ d.handles \in Seq(Nat) /\ Len(d.handles) = t
         /\ Len(d.rows) = Decoded(d) + 1 /\ Len(d.pys) = Decoded(d)
    BY <1>1 DEF Good, Typed, RowsOk, HandlesOk, Decoded
  <1>12. pys \in Seq(97..122) /\ Len(pys) = pos
    <2>1. PICK L : L = 97..122
      OBVIOUS
    <2>2. d.pys \in Seq(L) /\ pos <= Len(d.pys)
      BY <1>0, <1>11, <2>1
    <2>3. pys \in Seq(L) /\ Len(pys) = pos
      BY <1>0, <1>5, <2>2, FirstsAre
    <2> QED
      BY <2>1, <2>3
  <1>13. rows \in Seq(RowSet) /\ Len(rows) = pos + 1 /\ \A i \in 1..(pos + 1) : rows[i] = d.rows[i]
    <2>1. pos + 1 \in Nat /\ pos + 1 <= Len(d.rows)
      BY <1>0, <1>11
    <2> QED
      BY <1>6, <1>11, <2>1, FirstsAre
  <1>14. dmis \in Seq(MatchSet) /\ Len(dmis) = used /\ \A i \in 1..used : dmis[i] = d.dmis[i]
    BY <1>1, <1>2, <1>7, <1>11, FirstsAre
  <1>15. /\ handles \in Seq(Nat) /\ Len(handles) = used /\ DOMAIN handles = 1..used
         /\ \A i \in 1..used : handles[i] = d.handles[i]
    BY <1>2, <1>8, <1>11, FirstsAre
  <1>16. Decoded(e) = pos /\ RowsSame(d, e, pos)
    <2>1. \A q \in 0..pos : q + 1 \in 1..(pos + 1)
      BY <1>0
    <2> QED
      BY <1>10, <1>12, <1>13, <2>1 DEF Decoded, RowsSame, Row
  <1>17. MatchesSame(d, e, used)
    BY <1>4, <1>10, <1>14, <1>15 DEF MatchesSame, CutOk, Standing
  <1>18. CutAt(d, pos, e)
    BY <1>5, <1>10, <1>14, <1>16, <1>17 DEF CutAt, used
  <1>19. Typed(e) /\ StonesOk(e.dict)
    BY <1>4, <1>10, <1>11, <1>12, <1>13, <1>14, <1>15 DEF Typed, CutOk
  <1>20. HandlesOk(e)
    <2>1. ASSUME NEW k \in 1..used, NEW j \in 1..(k - 1) PROVE handles[j] < handles[k]
      <3>1. k \in 1..t /\ j \in 1..used /\ DOMAIN d.handles = 1..t
        BY <1>1, <1>2, <1>11
      <3>2. d.handles[j] < d.handles[k]
        BY <3>1 DEF Good, HandlesOk
      <3> QED
        BY <1>15, <3>1, <3>2
    <2> QED
      BY <1>4, <1>10, <1>14, <1>15, <2>1 DEF HandlesOk, CutOk
  <1>21. RowsOk(e)
    <2>0. \A r \in 0..pos : Row(e, r) = Row(d, r) /\ r \in 0..Decoded(d)
      BY <1>0, <1>16 DEF RowsSame
    <2>1. Len(e.rows) = pos + 1 /\ Row(e, 0) = Row0
      BY <1>0, <1>10, <1>11, <1>13, <2>0 DEF RowsOk
    <2>2. ASSUME NEW r \in 1..pos PROVE Row(e, r).dmiPos = DmiEnd(Row(e, r - 1))
      <3>1. r \in 0..pos /\ r - 1 \in 0..pos /\ r \in 1..Decoded(d)
        BY <1>0
      <3> QED
        BY <1>11, <2>0, <3>1 DEF RowsOk
    <2>3. ASSUME NEW q \in 0..pos, NEW r \in 0..pos, q < r PROVE DmiEnd(Row(e, q)) <= Row(e, r).dmiPos
      BY <1>11, <2>0, <2>3 DEF RowsOk
    <2>4. DmiEnd(Row(e, pos)) = Len(e.dmis)
      BY <1>0, <1>10, <1>14, <2>0 DEF used
    <2> QED
      BY <1>16, <2>1, <2>2, <2>3, <2>4 DEF RowsOk
  <1>22. ASSUME NEW r \in 1..pos PROVE RowGood(e, r)
    <2>1. r \in 1..Decoded(d) /\ r \in 0..Decoded(d) /\ pos \in 0..Decoded(d) /\ r <= pos
      BY <1>0
    <2>2. RowsSame(d, e, r)
      BY <1>0, <1>16 DEF RowsSame
    <2>3. DmiEnd(Row(d, r)) \in Nat /\ DmiEnd(Row(d, r)) <= used
      BY <1>11, <2>1, TypedIs, RowsAre DEF used
    <2>4. MatchesSame(d, e, DmiEnd(Row(d, r)))
      BY <1>2, <1>17, <2>3 DEF MatchesSame
    <2>5. RowGood(d, r) /\ e.dmis \in Seq(MatchSet)
      BY <1>10, <1>14, <2>1 DEF Good
    <2> QED
      BY <1>11, <2>1, <2>2, <2>4, <2>5, RowKept
  <1>23. CacheOk(e) /\ CacheHas(e)
    <2>1. CacheOk(d) /\ CacheHas(d)
      BY DEF Good
    <2>2. CacheOk(e)
      BY <1>10, <2>1 DEF CacheOk
    <2>3. DOMAIN e.dmis = 1..used /\ \A k \in 1..used : k \in DOMAIN d.dmis /\ e.dmis[k] = d.dmis[k]
      BY <1>1, <1>2, <1>10, <1>11, <1>14
    <2> QED
      BY <1>10, <2>1, <2>2, <2>3 DEF CacheHas
  <1> QED
    BY <1>16, <1>18, <1>19, <1>20, <1>21, <1>22, <1>23 DEF Good

(***************************************************************************)
(* search().                                                               *)
(***************************************************************************)
(* The rows never are more than the decoder has.                           *)
Fits(d) == Decoded(d) <= kMaxRowNum - 1

Start(d) == [d |-> d, ok |-> TRUE]
AddedChars(d, py, pos) ==
  LET added[k \in pos..Len(py)] == IF k = pos THEN Start(d) ELSE AddNext(added[k - 1], py[k])
  IN  added[Len(py)]
AddedBy(f, d, py, pos, len) ==
  /\ f[pos] = Start(d)
  /\ \A k \in (pos + 1)..len : f[k] = AddNext(f[k - 1], py[k])
  /\ AddedChars(d, py, pos) = f[len]
LEMMA AddCharsLoop ==
  ASSUME NEW d, NEW py, NEW len \in Nat, len = Len(py), NEW pos \in Nat, pos <= len
  PROVE  \E f : AddedBy(f, d, py, pos, len)
  <1> DEFINE last == len
             Then(v, k) == AddNext(v, py[k])
             Goes(top, f) == f = [k \in pos..top |-> IF k = pos THEN Start(d) ELSE Then(f[k - 1], k)]
             S == {top \in Nat : \E f : Goes(pos + top, f)}
  <1>1. AddedChars(d, py, pos) = (CHOOSE f : Goes(last, f))[last]
    BY DEF AddedChars
  <1> HIDE DEF last, Then
  <1>2. 0 \in S
    <2>1. Goes(pos, [k \in pos..pos |-> Start(d)])
      OBVIOUS
    <2>2. pos + 0 = pos
      OBVIOUS
    <2> HIDE DEF Goes
    <2> QED
      BY <2>1, <2>2
  <1>3. ASSUME NEW top \in Nat, top \in S PROVE top + 1 \in S
    <2> DEFINE e == pos + top
    <2>1. PICK f : Goes(e, f)
      BY <1>3
    <2>i. e \in Nat /\ e >= pos /\ e + 1 = pos + (top + 1)
      OBVIOUS
    <2> HIDE DEF e
    <2> DEFINE g == [k \in pos..(e + 1) |-> IF k = e + 1 THEN Then(f[e], e + 1) ELSE f[k]]
    <2>2. ASSUME NEW k \in pos..(e + 1)
          PROVE  g[k] = IF k = pos THEN Start(d) ELSE Then(g[k - 1], k)
      <3>1. CASE k = e + 1
        BY <2>1, <2>i, <3>1
      <3>2. CASE k \in pos..e
        <4>0. k # e + 1 /\ k \in pos..(e + 1)
          BY <2>i, <3>2
        <4>1. g[k] = f[k]
          BY <4>0
        <4>3. f[k] = IF k = pos THEN Start(d) ELSE Then(f[k - 1], k)
          <5> HIDE DEF g
          <5> QED
            BY <2>1, <3>2
        <4>2. k # pos => g[k - 1] = f[k - 1]
          BY <2>i, <3>2
        <4> HIDE DEF g
        <4> QED
          BY <4>1, <4>2, <4>3
      <3> QED
        BY <2>i, <3>1, <3>2
    <2>3. Goes(e + 1, g)
      BY <2>2
    <2> HIDE DEF g, Goes
    <2> QED
      BY <2>i, <2>3
  <1>4. \E f : Goes(last, f)
    <2>1. last - pos \in S
      <3> HIDE DEF S
      <3>1. last - pos \in Nat
        BY DEF last
      <3> QED
        BY <1>2, <1>3, <3>1, Induction
    <2>2. pos + (last - pos) = last
      BY DEF last
    <2> HIDE DEF Goes
    <2> QED
      BY <2>1, <2>2
  <1>5. Goes(last, CHOOSE f : Goes(last, f))
    <2> HIDE DEF Goes
    <2> QED
      BY <1>4
  <1> DEFINE f == CHOOSE f : Goes(last, f)
  <1>6. f = [k \in pos..last |-> IF k = pos THEN Start(d) ELSE Then(f[k - 1], k)]
    BY <1>5
  <1>7. last \in Nat /\ last >= pos
    BY DEF last
  <1> HIDE DEF f
  <1>8. f[pos] = Start(d) /\ \A k \in (pos + 1)..last : f[k] = Then(f[k - 1], k)
    <2>1. pos \in pos..last
      BY <1>7
    <2>2. ASSUME NEW k \in (pos + 1)..last PROVE k \in pos..last /\ k # pos
      BY <1>7
    <2> QED
      BY <1>6, <2>1, <2>2
  <1> QED
    BY <1>1, <1>8 DEF f, last, Then, AddedBy

(* The letters one after another, each taken or nothing changed.           *)
TakenGood(a) == a = [d |-> a.d, ok |-> a.ok] /\ a.ok \in BOOLEAN /\ Good(a.d) /\ Fits(a.d)
TakenNext(a, ch, b) ==
  /\ b = AddNext(a, ch) /\ TakenGood(b)
  /\ b.ok => a.ok /\ Follows(a.d, ch, b.d) /\ Decoded(b.d) = Decoded(a.d) + 1
  /\ ~b.ok => b.d = a.d

LEMMA AddNextIs ==
  ASSUME NEW a, TakenGood(a), NEW ch \in 97..122
  PROVE  TakenNext(a, ch, AddNext(a, ch))
  <1>1. PICK b : b = AddNext(a, ch)
    OBVIOUS
  <1>2. CASE a.ok
    <2>1. b = AddChar(a.d, ch) /\ Good(a.d) /\ Decoded(a.d) <= kMaxRowNum - 1
      BY <1>1, <1>2 DEF AddNext, TakenGood, Fits
    <2>2. /\ b = [d |-> b.d, ok |-> b.ok] /\ b.ok \in BOOLEAN /\ Good(b.d)
          /\ b.ok => Follows(a.d, ch, b.d) /\ Decoded(b.d) = Decoded(a.d) + 1 /\ Decoded(a.d) < kMaxRowNum - 1
          /\ ~b.ok => b.d = a.d
      <3>1. PICK d : d = a.d
        OBVIOUS
      <3>2. Good(d) /\ Decoded(d) <= kMaxRowNum - 1 /\ b = AddChar(d, ch)
        BY ONLY <2>1, <3>1
      <3>3. /\ b = [d |-> b.d, ok |-> b.ok] /\ b.ok \in BOOLEAN /\ Good(b.d)
            /\ b.ok => Follows(d, ch, b.d) /\ Decoded(b.d) = Decoded(d) + 1 /\ Decoded(d) < kMaxRowNum - 1
            /\ ~b.ok => b.d = d
        BY ONLY <3>2, ch \in 97..122, AddCharIs
      <3> QED
        BY ONLY <3>1, <3>3
    <2>3. Decoded(b.d) <= kMaxRowNum - 1
      <3>1. Decoded(a.d) \in Nat /\ kMaxRowNum \in Nat
        BY <2>1, Sizes, TypedIs DEF Good, RowsOk
      <3> QED
        BY <2>1, <2>2, <3>1
    <2> QED
      BY <1>1, <1>2, <2>2, <2>3 DEF TakenNext, TakenGood, Fits
  <1>3. CASE ~a.ok
    <2>1. b = a
      BY <1>1, <1>3 DEF AddNext
    <2> QED
      BY <1>1, <1>3, <2>1 DEF TakenNext, TakenGood
  <1> QED
    BY <1>2, <1>3 DEF TakenGood

LEMMA AddCharsIs ==
  ASSUME NEW d, Good(d), Fits(d), NEW py \in Seq(97..122), NEW pos \in Nat, pos <= Len(py)
  PROVE  \E f : /\ f[pos] = Start(d) /\ AddChars(d, py, pos) = f[Len(py)].d
                /\ \A k \in pos..Len(py) : TakenGood(f[k])
                /\ \A k \in (pos + 1)..Len(py) : TakenNext(f[k - 1], py[k], f[k])
  <1>1. Len(py) \in Nat /\ pos \in Nat /\ pos <= Len(py)
    OBVIOUS
  <1>n. PICK n \in Nat : n = Len(py)
    BY <1>1
  <1>l. pos <= n
    BY <1>1, <1>n
  <1>2. PICK f : /\ f[pos] = Start(d)
                 /\ \A k \in (pos + 1)..(n) : f[k] = AddNext(f[k - 1], py[k])
                 /\ AddedChars(d, py, pos) = f[n]
    <2>1. PICK f : AddedBy(f, d, py, pos, n)
      BY ONLY <1>n, <1>l, AddCharsLoop
    <2> QED
      BY <2>1 DEF AddedBy
  <1>3. AddChars(d, py, pos) = f[Len(py)].d
    BY <1>2, <1>n DEF AddChars, AddedChars, Start
  <1> DEFINE S == {k \in Nat : TakenGood(f[k])}
  <1>4. pos \in S
    <2>1. TakenGood(Start(d))
      BY DEF TakenGood, Start
    <2> QED
      BY <1>2, <2>1
  <1>5. ASSUME NEW k \in (pos + 1)..Len(py), k - 1 \in S
        PROVE  k \in S /\ TakenNext(f[k - 1], py[k], f[k])
    <2>1. PICK ch : ch = py[k]
      OBVIOUS
    <2>2. ch \in 97..122
      <3>1. PICK L : L = 97..122
        OBVIOUS
      <3>2. py \in Seq(L) /\ k \in 1..Len(py)
        BY <1>1, <3>1
      <3>3. py[k] \in L
        BY ONLY <3>2, ElementOfSeq
      <3> QED
        BY <2>1, <3>1, <3>3
    <2>3. PICK v : v = f[k - 1]
      OBVIOUS
    <2>4. f[k] = AddNext(v, ch) /\ TakenGood(v)
      BY <1>2, <1>5, <1>n, <2>1, <2>3
    <2>5. TakenNext(v, ch, f[k])
      BY <2>2, <2>4, AddNextIs
    <2>6. k \in Nat /\ TakenGood(f[k])
      BY <1>1, <2>5 DEF TakenNext
    <2> QED
      BY <2>1, <2>3, <2>5, <2>6
  <1>6. \A k \in pos..Len(py) : k \in S
    <2> HIDE DEF S
    <2> QED
      BY <1>1, <1>4, <1>5, UpFrom
  <1>7. \A k \in pos..Len(py) : TakenGood(f[k])
    BY <1>6
  <1>8. ASSUME NEW k \in (pos + 1)..Len(py) PROVE TakenNext(f[k - 1], py[k], f[k])
    <2>1. k - 1 \in pos..Len(py)
      BY <1>1
    <2> HIDE DEF S
    <2> QED
      BY <1>5, <1>6, <2>1
  <1> QED
    BY <1>2, <1>3, <1>7, <1>8

(* What reads the decoder and writes none of what the matches stand on.    *)
LEMMA SegmentsGood ==
  ASSUME NEW d, Good(d), NEW e, e = GetSplStartId(d)
  PROVE  /\ Good(e) /\ Decoded(e) = Decoded(d) /\ e.pys = d.pys /\ e.rows = d.rows
         /\ e.dmis = d.dmis /\ e.cache = d.cache /\ e.dict = d.dict /\ e.handles = d.handles
         /\ e.cleared = d.cleared
  <1>1. PICK segs : segs = Segments(d)
    OBVIOUS
  <1>2. PICK spl : spl = [k \in DOMAIN segs |-> segs[k].spl]
    OBVIOUS
  <1>3. PICK start : start = <<0>> \o [k \in DOMAIN segs |-> segs[k].end]
    OBVIOUS
  <1>4. e = [d EXCEPT !.spl = spl, !.start = start]
    BY <1>1, <1>2, <1>3 DEF GetSplStartId, SetSegments
  <1>5. /\ Shape(e) /\ e.pys = d.pys /\ e.rows = d.rows /\ e.dmis = d.dmis /\ e.handles = d.handles
        /\ e.dict = d.dict /\ e.cache = d.cache /\ e.cleared = d.cleared
    <2>1. Shape(d)
      BY DEF Good, Typed
    <2> QED
      BY <1>4, <2>1 DEF Shape, Fields
  <1> QED
    BY <1>5, SameGood DEF Decoded

LEMMA PreparedGood ==
  ASSUME NEW d, Good(d), NEW e, e = PrepareCandidates(d)
  PROVE  /\ Good(e) /\ Decoded(e) = Decoded(d) /\ e.pys = d.pys /\ e.rows = d.rows
         /\ e.dmis = d.dmis /\ e.cache = d.cache /\ e.dict = d.dict /\ e.handles = d.handles
         /\ e.cleared = d.cleared
  <1>1. \E x : e = [d EXCEPT !.lpis = x]
    BY DEF PrepareCandidates
  <1>2. PICK x : e = [d EXCEPT !.lpis = x]
    BY <1>1
  <1>3. /\ Shape(e) /\ e.pys = d.pys /\ e.rows = d.rows /\ e.dmis = d.dmis /\ e.handles = d.handles
        /\ e.dict = d.dict /\ e.cache = d.cache /\ e.cleared = d.cleared
    <2>1. Shape(d)
      BY DEF Good, Typed
    <2> QED
      BY <1>2, <2>1 DEF Shape, Fields
  <1> QED
    BY <1>3, SameGood DEF Decoded

LEMMA CutToGood ==
  ASSUME NEW d, Good(d), NEW len \in Nat, NEW e, e = CutTo(d, len)
  PROVE  Good(e) /\ Decoded(e) <= Decoded(d) /\ e.cache = d.cache
  <1>0. Decoded(d) \in Nat
    BY TypedIs DEF Good, RowsOk
  <1>1. CASE Len(d.spl) <= kMaxSpellings
    BY <1>0, <1>1 DEF CutTo
  <1>2. CASE ~(Len(d.spl) <= kMaxSpellings)
    <2>1. PICK c : c = ResetSearch(d, len)
      OBVIOUS
    <2>2. Good(c) /\ Decoded(c) <= Decoded(d) /\ c.cache = d.cache
      <3>1. CASE len > Decoded(d)
        BY <1>0, <2>1, <3>1 DEF ResetSearch
      <3>2. CASE ~(len > Decoded(d))
        <4>1. len \in 0..Decoded(d)
          BY <1>0, <3>2
        <4> QED
          BY <1>0, <2>1, <4>1, ResetSearchIs DEF CutAt
      <3> QED
        BY <3>1, <3>2
    <2>3. e = GetSplStartId(c)
      BY <1>2, <2>1 DEF CutTo
    <2> QED
      BY <2>2, <2>3, SegmentsGood
  <1> QED
    BY <1>1, <1>2

LEMMA CutLoop ==
  ASSUME NEW d, NEW len \in Nat
  PROVE  \E f : /\ f[0] = d
                /\ \A k \in (0 + 1)..(len) : f[k] = CutTo(f[k - 1], len - k)
                /\ CutSpellings(d, len) = f[len]
  <1> DEFINE last == len
             Then(v, k) == CutTo(v, len - k)
             Goes(top, f) == f = [k \in 0..top |-> IF k = 0 THEN d ELSE Then(f[k - 1], k)]
             S == {top \in Nat : \E f : Goes(top, f)}
  <1>1. CutSpellings(d, len) = (CHOOSE f : Goes(last, f))[last]
    BY DEF CutSpellings
  <1> HIDE DEF last, Then
  <1>2. 0 \in S
    <2>1. Goes(0, [k \in 0..0 |-> d])
      OBVIOUS
    <2>2. 0 = 0
      OBVIOUS
    <2> HIDE DEF Goes
    <2> QED
      BY <2>1, <2>2
  <1>3. ASSUME NEW top \in Nat, top \in S PROVE top + 1 \in S
    <2> DEFINE e == top
    <2>1. PICK f : Goes(e, f)
      BY <1>3
    <2>i. e \in Nat /\ e >= 0 /\ e + 1 = (top + 1)
      OBVIOUS
    <2> HIDE DEF e
    <2> DEFINE g == [k \in 0..(e + 1) |-> IF k = e + 1 THEN Then(f[e], e + 1) ELSE f[k]]
    <2>2. ASSUME NEW k \in 0..(e + 1)
          PROVE  g[k] = IF k = 0 THEN d ELSE Then(g[k - 1], k)
      <3>1. CASE k = e + 1
        BY <2>1, <2>i, <3>1
      <3>2. CASE k \in 0..e
        <4>0. k # e + 1 /\ k \in 0..(e + 1)
          BY <2>i, <3>2
        <4>1. g[k] = f[k]
          BY <4>0
        <4>3. f[k] = IF k = 0 THEN d ELSE Then(f[k - 1], k)
          <5> HIDE DEF g
          <5> QED
            BY <2>1, <3>2
        <4>2. k # 0 => g[k - 1] = f[k - 1]
          BY <2>i, <3>2
        <4> HIDE DEF g
        <4> QED
          BY <4>1, <4>2, <4>3
      <3> QED
        BY <2>i, <3>1, <3>2
    <2>3. Goes(e + 1, g)
      BY <2>2
    <2> HIDE DEF g, Goes
    <2> QED
      BY <2>i, <2>3
  <1>4. \E f : Goes(last, f)
    <2>1. last \in S
      <3> HIDE DEF S
      <3>1. last \in Nat
        BY DEF last
      <3> QED
        BY <1>2, <1>3, <3>1, Induction
    <2>2. (last) = last
      BY DEF last
    <2> HIDE DEF Goes
    <2> QED
      BY <2>1, <2>2
  <1>5. Goes(last, CHOOSE f : Goes(last, f))
    <2> HIDE DEF Goes
    <2> QED
      BY <1>4
  <1> DEFINE f == CHOOSE f : Goes(last, f)
  <1>6. f = [k \in 0..last |-> IF k = 0 THEN d ELSE Then(f[k - 1], k)]
    BY <1>5
  <1>7. last \in Nat /\ last >= 0
    BY DEF last
  <1> HIDE DEF f
  <1>8. f[0] = d /\ \A k \in (0 + 1)..last : f[k] = Then(f[k - 1], k)
    <2>1. 0 \in 0..last
      BY <1>7
    <2>2. ASSUME NEW k \in (0 + 1)..last PROVE k \in 0..last /\ k # 0
      BY <1>7
    <2> QED
      BY <1>6, <2>1, <2>2
  <1> QED
    BY <1>1, <1>8 DEF f, last, Then

LEMMA CutSpellingsGood ==
  ASSUME NEW d, Good(d), NEW len \in Nat, NEW e, e = CutSpellings(d, len)
  PROVE  Good(e) /\ Decoded(e) <= Decoded(d) /\ e.cache = d.cache
  <1>1. PICK f : /\ f[0] = d /\ \A k \in (0 + 1)..(len) : f[k] = CutTo(f[k - 1], len - k)
                 /\ CutSpellings(d, len) = f[len]
    BY CutLoop
  <1>2. PICK n \in Nat : n = Decoded(d)
    BY TypedIs DEF Good, RowsOk
  <1> DEFINE S == {k \in Nat : Good(f[k]) /\ Decoded(f[k]) <= n /\ f[k].cache = d.cache}
  <1>3. 0 \in S
    BY <1>1, <1>2
  <1>4. ASSUME NEW k \in 1..len, k - 1 \in S PROVE k \in S
    <2>1. PICK v : v = f[k - 1]
      OBVIOUS
    <2>2. Good(v) /\ Decoded(v) <= n /\ v.cache = d.cache
      BY <1>4, <2>1
    <2>3. PICK w : w = f[k]
      OBVIOUS
    <2>4. w = CutTo(v, len - k) /\ len - k \in Nat
      BY <1>1, <2>1, <2>3
    <2>5. Good(w) /\ Decoded(w) <= Decoded(v) /\ w.cache = v.cache
      BY <2>2, <2>4, CutToGood
    <2>6. Decoded(w) <= n
      <3>1. Decoded(v) \in Nat /\ Decoded(w) \in Nat
        BY <2>2, <2>5, TypedIs DEF Good, RowsOk
      <3> QED
        BY <2>2, <2>5, <3>1
    <2> QED
      BY <2>2, <2>3, <2>5, <2>6
  <1>5. 0..len \subseteq S
    <2> HIDE DEF S
    <2> QED
      BY <1>3, <1>4, Upwards
  <1> QED
    BY <1>1, <1>2, <1>5

(* The letters two strings share.                                          *)
LEMMA PrefixIs ==
  ASSUME NEW s \in Seq(97..122), NEW t \in Seq(97..122), NEW n, n = CommonPrefix(s, t)
  PROVE  /\ n \in 0..Len(s) /\ n <= Len(t) /\ \A k \in 1..n : s[k] = t[k]
         /\ n < Len(s) /\ n < Len(t) => s[n + 1] # t[n + 1]
  <1>1. Len(s) \in Nat /\ Len(t) \in Nat
    OBVIOUS
  <1> DEFINE P(k) == /\ k <= Len(t)
                     /\ \A i \in 1..k : s[i] = t[i]
                     /\ k < Len(s) /\ k < Len(t) => s[k + 1] # t[k + 1]
             S == {k \in Nat : k <= Len(s) /\ k <= Len(t) /\ (k < Len(s) /\ k < Len(t) => s[k + 1] # t[k + 1])}
  <1>2. S # {} /\ S \subseteq Nat
    <2>1. CASE Len(s) <= Len(t)
      <3>1. Len(s) \in S
        BY <1>1, <2>1
      <3> QED
        BY <3>1
    <2>2. CASE ~(Len(s) <= Len(t))
      <3>1. Len(t) \in S
        BY <1>1, <2>2
      <3> QED
        BY <3>1
    <2> QED
      BY <2>1, <2>2
  <1>3. PICK l \in S : \A k \in S : l <= k
    <2> HIDE DEF S
    <2> QED
      BY <1>2, LeastNumber
  <1>4. ASSUME NEW i \in 1..l PROVE s[i] = t[i]
    <2>1. SUFFICES ASSUME s[i] # t[i] PROVE FALSE
      OBVIOUS
    <2>2. i - 1 \in Nat /\ i - 1 < l /\ i - 1 <= Len(s) /\ i - 1 <= Len(t) /\ (i - 1) + 1 = i
      BY <1>1, <1>3
    <2>3. i - 1 \in S
      BY <2>1, <2>2
    <2> HIDE DEF S
    <2>4. l <= i - 1 /\ l \in Nat
      BY <1>2, <1>3, <2>3
    <2> QED
      BY <2>2, <2>4
  <1>5. l \in 0..Len(s) /\ P(l)
    BY <1>1, <1>3, <1>4
  <1>6. n = CHOOSE k \in 0..Len(s) : P(k)
    BY DEF CommonPrefix
  <1> HIDE DEF P
  <1>7. n \in 0..Len(s) /\ P(n)
    BY <1>5, <1>6
  <1> QED
    BY <1>7 DEF P

LEMMA TakenIs ==
  ASSUME NEW s \in Seq(97..122)
  PROVE  /\ Taken(s) \in Seq(97..122) /\ Len(Taken(s)) \in Nat
         /\ Len(Taken(s)) = (IF Len(s) < kMaxRowNum - 1 THEN Len(s) ELSE kMaxRowNum - 1)
         /\ \A k \in 1..Len(Taken(s)) : Taken(s)[k] = s[k]
  <1>1. kMaxRowNum - 1 \in Nat
    BY Sizes
  <1>2. PICK L : L = 97..122
    OBVIOUS
  <1>3. PICK r : r = Taken(s)
    OBVIOUS
  <1>4. /\ r \in Seq(L) /\ Len(r) = (IF Len(s) < kMaxRowNum - 1 THEN Len(s) ELSE kMaxRowNum - 1)
        /\ \A k \in DOMAIN r : r[k] = s[k]
    BY <1>1, <1>2, <1>3, AtMostIs DEF Taken
  <1> QED
    BY <1>2, <1>3, <1>4

LEMMA PlaceIs ==
  ASSUME NEW d, Good(d), Fits(d), NEW s \in Seq(97..122), NEW pos, pos = CommonPrefix(d.pys, s)
  PROVE  pos \in 0..Decoded(d) /\ pos <= Len(Taken(s)) /\ \A k \in 1..pos : d.pys[k] = s[k]
  <1>1. d.pys \in Seq(97..122) /\ Len(d.pys) = Decoded(d)
    BY DEF Good, Typed, Decoded
  <1>2. Decoded(d) \in Nat
    BY TypedIs DEF Good, RowsOk
  <1>3. pos \in 0..Len(d.pys) /\ pos <= Len(s) /\ \A k \in 1..pos : d.pys[k] = s[k]
    BY <1>1, PrefixIs
  <1>4. PICK len : len = Len(Taken(s))
    OBVIOUS
  <1>5. len = (IF Len(s) < kMaxRowNum - 1 THEN Len(s) ELSE kMaxRowNum - 1)
    BY <1>4, TakenIs
  <1> QED
    BY <1>1, <1>2, <1>3, <1>4, <1>5, Sizes DEF Fits

LEMMA ResumedGood ==
  ASSUME NEW d, Good(d), Fits(d), NEW s \in Seq(97..122), NEW e, e = Resumed(d, s)
  PROVE  Good(e) /\ Fits(e)
  <1>1. PICK pos : pos = CommonPrefix(d.pys, s)
    OBVIOUS
  <1>2. PICK t : t = Taken(s)
    OBVIOUS
  <1>3. pos \in 0..Decoded(d) /\ pos <= Len(t)
    BY <1>1, <1>2, PlaceIs
  <1>4. t \in Seq(97..122) /\ Len(t) \in Nat /\ Decoded(d) \in Nat /\ pos \in Nat
    BY <1>2, <1>3, TakenIs, TypedIs DEF Good, RowsOk
  <1>5. PICK c : c = ResetSearch(d, pos)
    OBVIOUS
  <1>6. Good(c) /\ CutAt(d, pos, c)
    BY <1>3, <1>5, ResetSearchIs
  <1>7. Fits(c)
    BY <1>3, <1>4, <1>6, Sizes DEF CutAt, Fits
  <1>8. e = AddChars(c, t, pos)
    BY <1>1, <1>2, <1>5 DEF Resumed
  <1>9. PICK f : AddChars(c, t, pos) = f[Len(t)].d /\ \A k \in pos..Len(t) : TakenGood(f[k])
    BY <1>3, <1>4, <1>6, <1>7, AddCharsIs
  <1>10. TakenGood(f[Len(t)])
    BY <1>3, <1>4, <1>9
  <1> QED
    BY <1>8, <1>9, <1>10 DEF TakenGood

LEMMA SearchGood ==
  ASSUME NEW d, Good(d), Fits(d), NEW s \in Seq(97..122), NEW e, e = SearchFor(d, s)
  PROVE  Good(e) /\ Fits(e)
  <1>1. PICK r : r = Resumed(d, s)
    OBVIOUS
  <1>2. Good(r) /\ Fits(r)
    BY <1>1, ResumedGood
  <1>3. PICK g : g = GetSplStartId(r)
    OBVIOUS
  <1>4. Good(g) /\ Decoded(g) = Decoded(r)
    BY <1>2, <1>3, SegmentsGood
  <1>5. PICK len \in Nat : len = Len(Taken(s))
    BY TakenIs
  <1>6. PICK c : c = CutSpellings(g, len)
    OBVIOUS
  <1>7. Good(c) /\ Decoded(c) <= Decoded(g)
    BY <1>4, <1>6, CutSpellingsGood
  <1>8. e = PrepareCandidates(c)
    BY <1>1, <1>3, <1>5, <1>6 DEF SearchFor
  <1>9. Good(e) /\ Decoded(e) = Decoded(c)
    BY <1>7, <1>8, PreparedGood
  <1>10. Decoded(r) \in Nat /\ Decoded(c) \in Nat
    BY <1>2, <1>7, TypedIs DEF Good, RowsOk
  <1> QED
    BY <1>2, <1>4, <1>7, <1>9, <1>10, Sizes DEF Fits

(* A decoder just opened, whatever the cache holds of the half ids.        *)
Opened(cache) == [Closed EXCEPT !.cache = cache]
LEMMA OpenedGood ==
  ASSUME NEW cache \in [HalfIds -> Seq(ItemSet)],
         \A h \in HalfIds : cache[h] = <<>> \/ cache[h] = CacheOf(h),
         NEW d, d = Opened(cache)
  PROVE  /\ Good(d) /\ Fits(d) /\ d.pys = <<>> /\ d.rows = <<Row0>> /\ d.dmis = <<>>
         /\ d.cache = cache /\ Decoded(d) = 0
  <1>1. /\ Shape(d) /\ d.pys = <<>> /\ d.rows = <<Row0>> /\ d.dmis = <<>> /\ d.handles = <<>>
        /\ d.dict = EmptyDict /\ d.cache = cache
    BY DEF Opened, Closed, Shape, Fields
  <1>2. Row0 \in RowSet /\ Row0.dmiPos = 0 /\ Row0.dmiNum = 0
    <2>1. RootNode \in NodeSet
      <3>1. 0 \in 0..LemmaNum
        BY WordsAre
      <3> QED
        BY <3>1 DEF RootNode, NodeSet
    <2>2. <<RootNode>> \in Seq(NodeSet)
      BY <2>1
    <2> QED
      BY <2>2 DEF Row0, RowSet
  <1>3. Decoded(d) = 0 /\ Len(d.rows) = 1 /\ Row(d, 0) = Row0
    BY <1>1 DEF Decoded, Row
  <1>4. EmptyDict \in DictSet /\ EmptyDict.stones = <<>> /\ EmptyDict.marks = <<>>
    BY DEF EmptyDict, DictSet
  <1>5. <<>> \in Seq(97..122) /\ <<>> \in Seq(MatchSet) /\ <<>> \in Seq(Nat)
    OBVIOUS
  <1>6. <<Row0>> \in Seq(RowSet)
    BY <1>2
  <1>7. Typed(d)
    BY <1>1, <1>4, <1>5, <1>6 DEF Typed
  <1>8. RowsOk(d)
    BY <1>1, <1>2, <1>3 DEF RowsOk, DmiEnd
  <1>9. StonesOk(d.dict) /\ HandlesOk(d)
    BY <1>1, <1>4 DEF StonesOk, HandlesOk
  <1>10. (\A r \in 1..Decoded(d) : RowGood(d, r)) /\ CacheOk(d) /\ CacheHas(d)
    BY <1>1, <1>3 DEF CacheOk, CacheHas
  <1>11. Fits(d)
    BY <1>3, Sizes DEF Fits
  <1> QED
    BY <1>1, <1>3, <1>7, <1>8, <1>9, <1>10, <1>11 DEF Good

(***************************************************************************)
(* What a good decoder refers to is there.                                 *)
(***************************************************************************)
LEMMA OneRow ==
  ASSUME NEW d, Typed(d), RowsOk(d), NEW k \in DOMAIN d.dmis
  PROVE  /\ \E r \in 1..Decoded(d) : InRow(d, r, k)
         /\ \A r \in 1..Decoded(d) : InRow(d, r, k) => RowOf(d, k) = r
  <1>1. PICK n \in Nat : n = Decoded(d)
    BY TypedIs DEF RowsOk
  <1>2. /\ \A r \in 0..n : Row(d, r).dmiPos \in Nat /\ DmiEnd(Row(d, r)) \in Nat
        /\ k \in Nat /\ k \in 1..Len(d.dmis) /\ Len(d.dmis) \in Nat
    BY <1>1, TypedIs DEF RowsOk
  <1>3. /\ \A r \in 1..n : Row(d, r).dmiPos = DmiEnd(Row(d, r - 1))
        /\ \A q, r \in 0..n : q < r => DmiEnd(Row(d, q)) <= Row(d, r).dmiPos
        /\ DmiEnd(Row(d, n)) = Len(d.dmis) /\ DmiEnd(Row(d, 0)) = 0
    <2>1. DmiEnd(Row(d, 0)) = 0
      BY DEF RowsOk, Row0, DmiEnd
    <2> QED
      BY <1>1, <2>1 DEF RowsOk
  <1>4. \E r \in 1..n : InRow(d, r, k)
    <2> DEFINE S == {r \in Nat : r <= n /\ k <= DmiEnd(Row(d, r))}
    <2>1. n \in S /\ S \subseteq Nat
      BY <1>2, <1>3
    <2>2. PICK r \in S : \A q \in S : r <= q
      <3> HIDE DEF S
      <3> QED
        BY <2>1, LeastNumber
    <2>3. r \in 0..n /\ k <= DmiEnd(Row(d, r))
      BY <2>2
    <2>4. r # 0
      BY <1>2, <1>3, <2>3
    <2>5. r \in 1..n /\ r - 1 \in Nat /\ r - 1 <= n /\ ~(r <= r - 1)
      BY <2>3, <2>4
    <2>6. r - 1 \notin S
      <3> HIDE DEF S
      <3> QED
        BY <2>2, <2>5
    <2>7. ~(k <= DmiEnd(Row(d, r - 1)))
      BY <2>5, <2>6
    <2>8. Row(d, r).dmiPos = DmiEnd(Row(d, r - 1)) /\ DmiEnd(Row(d, r - 1)) \in Nat
      BY <1>2, <1>3, <2>5
    <2>9. Row(d, r).dmiPos < k
      BY <1>2, <2>7, <2>8
    <2> QED
      BY <2>3, <2>5, <2>9 DEF InRow
  <1>5. ASSUME NEW q \in 1..n, NEW r \in 1..n, InRow(d, q, k), InRow(d, r, k), q < r PROVE FALSE
    <2>1. k <= DmiEnd(Row(d, q)) /\ Row(d, r).dmiPos < k
      BY <1>5 DEF InRow
    <2>2. DmiEnd(Row(d, q)) <= Row(d, r).dmiPos
      BY <1>3, <1>5
    <2>3. DmiEnd(Row(d, q)) \in Nat /\ Row(d, r).dmiPos \in Nat
      BY <1>2
    <2> QED
      BY <1>2, <2>1, <2>2, <2>3
  <1>6. RowOf(d, k) \in 1..n /\ InRow(d, RowOf(d, k), k)
    <2>1. RowOf(d, k) = CHOOSE r \in 1..n : InRow(d, r, k)
      BY <1>1 DEF RowOf, InRow
    <2> QED
      BY <1>4, <2>1
  <1>7. ASSUME NEW r \in 1..n, InRow(d, r, k) PROVE RowOf(d, k) = r
    <2>1. PICK q \in 1..n : q = RowOf(d, k)
      BY <1>6
    <2>2. InRow(d, q, k)
      BY <1>6, <2>1
    <2>3. ~(q < r) /\ ~(r < q)
      BY <1>5, <1>7, <2>2
    <2> QED
      BY <2>1, <2>3
  <1> QED
    BY <1>1, <1>4, <1>7

LEMMA MatchIsLive ==
  ASSUME NEW d, Good(d), NEW k \in DOMAIN d.dmis
  PROVE  IF d.dmis[k].fr = 0
           THEN Standing(d, k) = RootRun(d.dmis[k].spl) /\ d.dmis[k].level = 1
           ELSE /\ d.dmis[k].fr < k /\ d.dmis[k].level = d.dmis[d.dmis[k].fr].level + 1
                /\ RowOf(d, k) - d.dmis[k].len = RowOf(d, d.dmis[k].fr) - d.dmis[d.dmis[k].fr].len
                /\ Standing(d, k) =
                     FlattenSeq(SonRuns(Standing(d, d.dmis[k].fr), IdRange(d.dmis[k].spl)))
  <1>1. Typed(d) /\ RowsOk(d)
    BY DEF Good
  <1>2. PICK r \in 1..Decoded(d) : InRow(d, r, k) /\ RowOf(d, k) = r
    BY <1>1, OneRow
  <1>3. MatchOk(d, r, k)
    BY <1>2 DEF Good, RowGood
  <1>4. Decoded(d) \in Nat /\ DOMAIN d.dmis = 1..Len(d.dmis) /\ Len(d.dmis) \in Nat
        /\ d.dmis[k] \in MatchSet
    BY <1>1, TypedIs DEF RowsOk
  <1>5. CASE d.dmis[k].fr = 0
    BY <1>3, <1>5 DEF MatchOk
  <1>6. CASE d.dmis[k].fr # 0
    <2>1. PICK fr : fr = d.dmis[k].fr
      OBVIOUS
    <2>2. fr \in Nat /\ fr # 0
      BY <1>4, <1>6, <2>1 DEF MatchSet
    <2>3. /\ fr < k /\ d.dmis[k].level = d.dmis[fr].level + 1
          /\ Standing(d, k) = FlattenSeq(SonRuns(Standing(d, fr), IdRange(d.dmis[k].spl)))
          /\ \E q \in 1..(r - 1) : InRow(d, q, fr) /\ r - d.dmis[k].len = q - d.dmis[fr].len
      BY <1>3, <1>6, <2>1 DEF MatchOk
    <2>4. PICK q \in 1..(r - 1) : InRow(d, q, fr) /\ r - d.dmis[k].len = q - d.dmis[fr].len
      BY <2>3
    <2>5. fr \in DOMAIN d.dmis /\ q \in 1..Decoded(d)
      BY <1>2, <1>4, <2>2, <2>3, <2>4
    <2>6. RowOf(d, fr) = q
      BY <1>1, <2>4, <2>5, OneRow
    <2> QED
      BY <1>2, <1>6, <2>1, <2>3, <2>4, <2>6
  <1> QED
    BY <1>5, <1>6

LEMMA NodeIsLive ==
  ASSUME NEW d, Good(d), NEW r \in 1..Decoded(d), NEW k \in DOMAIN Row(d, r).nodes,
         NEW node, node = Row(d, r).nodes[k]
  PROVE  /\ node.row = r /\ node.from[2] \in DOMAIN Row(d, node.from[1]).nodes
         /\ RowOf(d, node.dmi) = r /\ d.dmis[node.dmi].len = r - node.from[1]
         /\ Len(Lemmas[node.id].word) = d.dmis[node.dmi].level
         /\ \E i \in DOMAIN Standing(d, node.dmi) :
              Standing(d, node.dmi)[i] = Lemmas[node.id].spl
  <1>1. Typed(d) /\ RowsOk(d) /\ RowGood(d, r)
    BY DEF Good
  <1>2. NodeOk(d, r, node)
    BY <1>1 DEF RowGood
  <1>3. node.dmi \in DOMAIN d.dmis
    <2>1. node \in NodeSet /\ Len(d.dmis) \in Nat /\ DOMAIN d.dmis = 1..Len(d.dmis)
      <3>1. Row(d, r).nodes \in Seq(NodeSet) /\ Len(d.dmis) \in Nat /\ DOMAIN d.dmis = 1..Len(d.dmis)
            /\ Decoded(d) \in Nat
        BY <1>1, TypedIs DEF RowsOk
      <3>2. PICK nodes \in Seq(NodeSet) : nodes = Row(d, r).nodes
        BY <3>1
      <3>3. nodes[k] \in NodeSet
        BY <3>2, ElementOfSeq
      <3> QED
        BY <3>1, <3>2, <3>3
    <2>2. node.dmi \in Nat /\ InRow(d, r, node.dmi)
      BY <1>2, <2>1 DEF NodeOk, NodeSet
    <2>3. node.dmi \in 1..DmiEnd(Row(d, r)) /\ DmiEnd(Row(d, r)) <= Len(d.dmis)
          /\ DmiEnd(Row(d, r)) \in Nat
      <3>1. r \in 0..Decoded(d)
        OBVIOUS
      <3>2. /\ \A q \in 0..Decoded(d) : \A i \in Nat : InRow(d, q, i) => i \in 1..DmiEnd(Row(d, q))
            /\ \A q \in 0..Decoded(d) : DmiEnd(Row(d, q)) <= Len(d.dmis)
        BY <1>1, RowsAre
      <3>3. DmiEnd(Row(d, r)) \in Nat
        BY <1>1, <3>1, TypedIs DEF RowsOk
      <3> QED
        BY <2>2, <3>1, <3>2, <3>3
    <2> QED
      BY <2>1, <2>3
  <1>4. RowOf(d, node.dmi) = r
    BY <1>1, <1>2, <1>3, OneRow DEF NodeOk
  <1> QED
    BY <1>2, <1>4 DEF NodeOk, Stands

LEMMA GoodIsLive ==
  ASSUME Good(m)
  PROVE  ReferencesLive
  <1>1. Typed(m) /\ RowsOk(m) /\ StonesOk(m.dict) /\ HandlesOk(m)
    BY DEF Good
  <1>2. DOMAIN m.handles = DOMAIN m.dmis
    <2>1. m.handles \in Seq(Nat) /\ m.dmis \in Seq(MatchSet)
      BY <1>1 DEF Typed
    <2> QED
      BY <1>1, <2>1 DEF HandlesOk
  <1>3. /\ Len(m.rows) = Decoded(m) + 1 /\ m.rows[1] = Row0
        /\ \A r \in 1..Decoded(m) : Row(m, r).dmiPos = DmiEnd(Row(m, r - 1))
        /\ DmiEnd(Row(m, Decoded(m))) = Len(m.dmis)
    <2>1. m.rows[1] = Row0
      BY <1>1 DEF RowsOk, Row
    <2> QED
      BY <1>1, <2>1 DEF RowsOk
  <1>4. /\ Len(m.handles) = Len(m.dmis)
        /\ \A k \in DOMAIN m.dmis :
             /\ m.handles[k] \in DOMAIN m.dict.stones
             /\ \A j \in 1..(k - 1) : m.handles[j] < m.handles[k]
    BY <1>1, <1>2 DEF HandlesOk
  <1>5. \A k \in DOMAIN m.dict.stones :
          m.dict.stones[k].start + m.dict.stones[k].num =
            IF k = Len(m.dict.stones) THEN Len(m.dict.marks) + 1 ELSE m.dict.stones[k + 1].start
    BY <1>1 DEF StonesOk
  <1>6. \A k \in DOMAIN m.dmis :
          IF m.dmis[k].fr = 0
            THEN Standing(m, k) = RootRun(m.dmis[k].spl) /\ m.dmis[k].level = 1
            ELSE /\ m.dmis[k].fr < k /\ m.dmis[k].level = m.dmis[m.dmis[k].fr].level + 1
                 /\ RowOf(m, k) - m.dmis[k].len = RowOf(m, m.dmis[k].fr) - m.dmis[m.dmis[k].fr].len
                 /\ Standing(m, k) =
                      FlattenSeq(SonRuns(Standing(m, m.dmis[k].fr), IdRange(m.dmis[k].spl)))
    BY MatchIsLive
  <1>7. \A r \in 1..Decoded(m) : \A k \in DOMAIN Row(m, r).nodes :
          LET node == Row(m, r).nodes[k]
          IN  /\ node.row = r /\ node.from[2] \in DOMAIN Row(m, node.from[1]).nodes
              /\ RowOf(m, node.dmi) = r /\ m.dmis[node.dmi].len = r - node.from[1]
              /\ Len(Lemmas[node.id].word) = m.dmis[node.dmi].level
              /\ \E i \in DOMAIN Standing(m, node.dmi) :
                   Standing(m, node.dmi)[i] = Lemmas[node.id].spl
    BY NodeIsLive
  <1> QED
    BY <1>3, <1>4, <1>5, <1>6, <1>7, Zenon DEF ReferencesLive

(* The inductive invariant.                                                *)
Holds == Good(m) /\ Fits(m)

LEMMA QueriesAre ==
  ASSUME NEW s \in Queries
  PROVE  s \in Seq(97..122)
  BY QueriesAssumption

(* After any searches rows, matches, mile stones and nodes account for     *)
(* each other, and a half id looked up is kept as it was found: neither    *)
(* the rows a search keeps (reset_search()) nor what a letter that was     *)
(* refused leaves in the pools (add_char()) spoils what later searches     *)
(* build on.                                                               *)
THEOREM DecoderHolds == Spec => []Holds
  <1>1. Init => Holds
    <2> SUFFICES ASSUME Init PROVE Holds
      OBVIOUS
    <2>1. PICK cache : cache = [h \in HalfIds |-> <<>>]
      OBVIOUS
    <2>2. cache \in [HalfIds -> Seq(ItemSet)] /\ \A h \in HalfIds : cache[h] = <<>> \/ cache[h] = CacheOf(h)
      BY <2>1
    <2>3. m = Opened(cache)
      <3>1. m = Closed
        BY DEF Init
      <3>2. m.cache = cache /\ Shape(m)
        BY <2>1, <3>1 DEF Closed, Shape, Fields
      <3>3. [m EXCEPT !.cache = cache] = m
        BY <3>2 DEF Shape
      <3> QED
        BY <3>1, <3>3 DEF Opened
    <2> QED
      BY <2>2, <2>3, OpenedGood DEF Holds
  <1>2. Holds /\ [Next]_vars => Holds'
    <2> SUFFICES ASSUME Holds, [Next]_vars PROVE Holds'
      OBVIOUS
    <2>1. ASSUME NEW s \in Queries, Search(s) PROVE Holds'
      <3>1. s \in Seq(97..122) /\ Good(m) /\ Fits(m)
        BY QueriesAre DEF Holds
      <3>2. PICK e : e = SearchFor(m, s)
        OBVIOUS
      <3>3. Good(e) /\ Fits(e)
        BY <3>1, <3>2, SearchGood
      <3>4. m' = e
        BY <2>1, <3>2 DEF Search
      <3>5. Holds' <=> Good(m') /\ Fits(m')
        BY DEF Holds
      <3> QED
        BY <3>3, <3>4, <3>5
    <2>2. ASSUME UNCHANGED vars PROVE Holds'
      <3>1. m' = m
        BY <2>2 DEF vars
      <3> QED
        BY <3>1 DEF Holds
    <2> QED
      BY <2>1, <2>2 DEF Next
  <1> QED
    BY <1>1, <1>2, PTL DEF Spec

(* So nothing a row, a match or a node of the matrix refers to is ever     *)
(* gone or another's: reset_search() cuts the pools where the rows that    *)
(* stay end, and resets the dictionary to a mile stone after all of theirs *)
(* (matrixsearch.cpp:254-301).                                             *)
THEOREM DecoderReferencesLive == Spec => []ReferencesLive
  <1>1. Holds => ReferencesLive
    BY GoodIsLive DEF Holds
  <1> QED
    BY <1>1, DecoderHolds, PTL

(***************************************************************************)
(* Two decoders alike: they differ in nothing a search goes by.            *)
(***************************************************************************)
Like(d, e) ==
  /\ e.pys = d.pys /\ e.rows = d.rows /\ e.dmis = d.dmis
  /\ \A k \in 1..Len(d.dmis) : Standing(e, k) = Standing(d, k)
AccLike(a, b) ==
  Like(a.d, b.d) /\ b.longest = a.longest /\ b.matched = a.matched /\ b.stopped = a.stopped

LEMMA LikeIs ==
  ASSUME NEW d, NEW e, Like(d, e)
  PROVE  Like(e, d) /\ Decoded(e) = Decoded(d) /\ \A r : Row(e, r) = Row(d, r)
  BY DEF Like, Decoded, Row

LEMMA LikeOn ==
  ASSUME NEW d, NEW e, NEW f, Like(d, e), Like(e, f)
  PROVE  Like(d, f)
  BY DEF Like

(* What two alike find is the same.                                        *)
LEMMA FindAlike ==
  ASSUME NEW d, NEW e, NEW n, NEW old, NEW s, NEW splid, NEW u, NEW v,
         Extending(d, n, old, s, splid, u), Extending(e, n, old, s, splid, v), Like(d, e)
  PROVE  /\ RunsOf(v, s, splid) = RunsOf(u, s, splid) /\ NodesOf(v, s, splid) = NodesOf(u, s, splid)
         /\ LpisOf(v, s, splid) = LpisOf(u, s, splid)
         /\ FromRow(e, old, s) = FromRow(d, old, s)
         /\ NodesPut(e, old, v, s, splid) = NodesPut(d, old, u, s, splid)
         /\ NewDmi(e, s, splid, n - old) = NewDmi(d, s, splid, n - old)
  <1>1. s # 0 => v = u
    <2>1. s # 0 => u = Standing(d, s) /\ s \in 1..Len(d.dmis)
      BY SourceIs
    <2>2. s # 0 => v = Standing(e, s)
      BY SourceIs
    <2> QED
      BY <2>1, <2>2 DEF Like
  <1>2. /\ RunsOf(v, s, splid) = RunsOf(u, s, splid) /\ NodesOf(v, s, splid) = NodesOf(u, s, splid)
        /\ LpisOf(v, s, splid) = LpisOf(u, s, splid)
    <2>1. CASE s = 0
      BY <2>1 DEF RunsOf, NodesOf, LpisOf
    <2>2. CASE s # 0
      BY <1>1, <2>2
    <2> QED
      BY <2>1, <2>2
  <1>3. e.dmis = d.dmis /\ Decoded(e) = Decoded(d) /\ \A r : Row(e, r) = Row(d, r)
    BY LikeIs DEF Like
  <1>4. FromRow(e, old, s) = FromRow(d, old, s) /\ NewDmi(e, s, splid, n - old) = NewDmi(d, s, splid, n - old)
    BY <1>3 DEF FromRow, NewDmi
  <1>5. NodesPut(e, old, v, s, splid) = NodesPut(d, old, u, s, splid)
    BY <1>2, <1>3, <1>4 DEF NodesPut
  <1> QED
    BY <1>2, <1>4, <1>5

LEMMA EffectLike ==
  ASSUME NEW d, NEW e, NEW n, NEW old, NEW s, NEW splid, NEW u, NEW v,
         Extending(d, n, old, s, splid, u), Extending(e, n, old, s, splid, v), Like(d, e),
         NEW f, NEW g, Effect(d, old, u, s, splid, f), Effect(e, old, v, s, splid, g)
  PROVE  Like(f, g)
  <1>1. PICK runs : runs = RunsOf(u, s, splid)
    OBVIOUS
  <1>2. PICK nodes : nodes = NodesPut(d, old, u, s, splid)
    OBVIOUS
  <1>3. PICK x : x = NewDmi(d, s, splid, n - old)
    OBVIOUS
  <1>4. /\ RunsOf(v, s, splid) = runs /\ NodesOf(v, s, splid) = NodesOf(u, s, splid)
        /\ NodesPut(e, old, v, s, splid) = nodes /\ NewDmi(e, s, splid, n - old) = x
    BY <1>1, <1>2, <1>3, FindAlike
  <1>5. /\ e.pys = d.pys /\ e.rows = d.rows /\ e.dmis = d.dmis /\ Decoded(e) = n /\ Decoded(d) = n
        /\ Row(e, n) = Row(d, n)
    <2>1. Decoded(d) = n /\ Decoded(e) = n
      BY DEF Extending
    <2> QED
      BY <2>1, LikeIs DEF Like
  <1>6. CASE runs = <<>>
    <2>1. /\ f.pys = d.pys /\ f.rows = d.rows /\ f.dmis = d.dmis /\ f.handles = d.handles /\ f.dict = d.dict
          /\ g.pys = e.pys /\ g.rows = e.rows /\ g.dmis = e.dmis /\ g.handles = e.handles /\ g.dict = e.dict
      BY <1>1, <1>4, <1>6 DEF Effect
    <2> QED
      BY <1>5, <2>1 DEF Like, Standing
  <1>7. CASE runs # <<>>
    <2>1. PICK row : row = CountedRow(Row(d, n), nodes, splid)
      OBVIOUS
    <2>2. f.rows = [d.rows EXCEPT ![n + 1] = row] /\ f.dmis = Append(d.dmis, x) /\ f.pys = d.pys
      BY <1>1, <1>2, <1>3, <1>5, <1>7, <2>1 DEF Effect
    <2>3. g.rows = [e.rows EXCEPT ![n + 1] = row] /\ g.dmis = Append(e.dmis, x) /\ g.pys = e.pys
      BY <1>4, <1>5, <1>7, <2>1 DEF Effect
    <2>4. PICK t \in Nat : t = Len(d.dmis)
      BY TypedIs DEF Extending, Good, RowsOk
    <2>5. /\ Len(f.dmis) = t + 1 /\ MatchesSame(d, f, t) /\ Standing(f, t + 1) = NodesOf(u, s, splid)
      BY <1>1, <1>7, <2>4, AddedIs
    <2>6. /\ MatchesSame(e, g, t) /\ Standing(g, t + 1) = NodesOf(v, s, splid)
      BY <1>4, <1>5, <1>7, <2>4, AddedIs
    <2>7. ASSUME NEW k \in 1..(t + 1) PROVE Standing(g, k) = Standing(f, k)
      <3>1. CASE k = t + 1
        BY <1>4, <2>5, <2>6, <3>1
      <3>2. CASE k # t + 1
        <4>1. k \in 1..t
          BY <3>2
        <4> QED
          BY <2>4, <2>5, <2>6, <4>1 DEF MatchesSame, Like
      <3> QED
        BY <3>1, <3>2
    <2> QED
      BY <1>5, <2>2, <2>3, <2>5, <2>7 DEF Like
  <1> QED
    BY <1>6, <1>7

LEMMA ExtendOneLike ==
  ASSUME NEW n \in Nat \ {0}, NEW a, AccGood(a, n), NEW b, AccGood(b, n), AccLike(a, b),
         NEW old \in 0..(n - 1), NEW s, s = 0 \/ (s \in Nat \ {0} /\ InRow(a.d, old, s)), NEW splid \in Ids,
         NEW f, f = ExtendOne(a, old, s, splid), NEW g, g = ExtendOne(b, old, s, splid)
  PROVE  AccLike(f, g)
  <1>1. PICK d : d = a.d
    OBVIOUS
  <1>2. PICK e : e = b.d
    OBVIOUS
  <1>3. Like(d, e) /\ e.dmis = d.dmis /\ Decoded(e) = Decoded(d) /\ \A r : Row(e, r) = Row(d, r)
    BY <1>1, <1>2, LikeIs DEF AccLike, Like
  <1>4. s = 0 \/ (s \in Nat \ {0} /\ InRow(e, old, s))
    BY <1>1, <1>3 DEF InRow
  <1>5. Skipped(b, old, s) <=> Skipped(a, old, s)
    BY <1>1, <1>2, <1>3 DEF Skipped, AccLike
  <1>6. CASE Skipped(a, old, s)
    BY <1>5, <1>6 DEF ExtendOne
  <1>7. CASE ~Skipped(a, old, s)
    <2>1. PICK u : u = Standing(d, s)
      OBVIOUS
    <2>2. PICK v : v = Standing(e, s)
      OBVIOUS
    <2>3. Extending(d, n, old, s, splid, u) /\ OneEffect(a, d, n, old, u, s, splid, f)
      BY <1>1, <1>7, <2>1, ExtendOneGood
    <2>4. Extending(e, n, old, s, splid, v) /\ OneEffect(b, e, n, old, v, s, splid, g)
      BY <1>2, <1>4, <1>5, <1>7, <2>2, ExtendOneGood
    <2>5. Effect(d, old, u, s, splid, f.d) /\ Effect(e, old, v, s, splid, g.d)
      BY <2>3, <2>4 DEF OneEffect
    <2>6. Like(f.d, g.d)
      BY <1>3, <2>3, <2>4, <2>5, EffectLike
    <2>7. LpisOf(v, s, splid) = LpisOf(u, s, splid) /\ FromRow(e, old, s) = FromRow(d, old, s)
      BY <1>3, <2>3, <2>4, FindAlike
    <2>8. g.longest = f.longest /\ g.matched = f.matched /\ g.stopped = f.stopped
      BY <1>3, <2>3, <2>4, <2>7 DEF OneEffect, AccLike
    <2> QED
      BY <2>6, <2>8 DEF AccLike
  <1> QED
    BY <1>6, <1>7

LEMMA ExtendRowLike ==
  ASSUME NEW n \in Nat \ {0}, NEW a, AccGood(a, n), NEW b, AccGood(b, n), AccLike(a, b),
         NEW old \in 0..(n - 1), NEW splid \in Ids,
         NEW f, f = ExtendRow(a, old, splid), NEW g, g = ExtendRow(b, old, splid)
  PROVE  AccLike(f, g)
  <1>1. PICK row : row = Row(a.d, old)
    OBVIOUS
  <1>2. Good(a.d) /\ Decoded(a.d) = n /\ Good(b.d) /\ Decoded(b.d) = n /\ Row(b.d, old) = row
    BY <1>1, LikeIs DEF AccGood, AccLike
  <1>3. row.dmiNum \in Nat /\ row.dmiPos \in Nat
    <2>1. old \in 0..n
      OBVIOUS
    <2> QED
      BY <1>1, <1>2, <2>1, TypedIs DEF Good, RowsOk
  <1>n. PICK last \in Nat \ {0} : last = row.dmiNum + 1
    <2>1. row.dmiNum + 1 \in Nat \ {0}
      BY <1>3
    <2> QED
      BY <2>1
  <1>4. PICK p : /\ p[0] = a
                 /\ \A k \in 1..last : p[k] = ExtendOne(p[k - 1], old, MatchAt(row, k), splid)
                 /\ ExtendRow(a, old, splid) = p[last]
    BY <1>1, <1>3, <1>n, ExtendRowLoop
  <1>5. PICK q : /\ q[0] = b
                 /\ \A k \in 1..last : q[k] = ExtendOne(q[k - 1], old, MatchAt(row, k), splid)
                 /\ ExtendRow(b, old, splid) = q[last]
    BY <1>2, <1>3, <1>n, ExtendRowLoop
  <1> DEFINE S == {k \in Nat : Moves(a, p[k], n) /\ Moves(b, q[k], n) /\ AccLike(p[k], q[k])}
  <1>6. 0 \in S
    BY <1>2, <1>4, <1>5, KeepsItself DEF Moves
  <1>7. ASSUME NEW k \in 1..last, k - 1 \in S PROVE k \in S
    <2>1. PICK v : v = p[k - 1]
      OBVIOUS
    <2>2. PICK w : w = q[k - 1]
      OBVIOUS
    <2>3. Moves(a, v, n) /\ Moves(b, w, n) /\ AccLike(v, w)
      BY <1>7, <2>1, <2>2
    <2>4. AccGood(v, n) /\ AccGood(w, n) /\ Row(v.d, old) = row /\ Row(w.d, old) = row
      BY <1>1, <1>2, <2>3 DEF Moves, Keeps, RowsSame
    <2>5. PICK s : s = MatchAt(row, k)
      OBVIOUS
    <2>6. s = 0 \/ (s \in Nat \ {0} /\ InRow(v.d, old, s))
      BY <1>3, <1>n, <2>4, <2>5, MatchInRow
    <2>7. s = 0 \/ (s \in Nat \ {0} /\ InRow(w.d, old, s))
      BY <2>4, <2>6 DEF InRow
    <2>8. PICK x : x = ExtendOne(v, old, s, splid)
      OBVIOUS
    <2>9. PICK y : y = ExtendOne(w, old, s, splid)
      OBVIOUS
    <2>10. p[k] = x /\ q[k] = y /\ k \in Nat
      BY <1>4, <1>5, <2>1, <2>2, <2>5, <2>8, <2>9
    <2>11. n \in Nat \ {0} /\ old \in 0..(n - 1) /\ splid \in Ids
      OBVIOUS
    <2>12. Moves(v, x, n) /\ Moves(w, y, n)
      BY ONLY <2>4, <2>6, <2>7, <2>8, <2>9, <2>11, ExtendOneGood
    <2>13. AccLike(x, y)
      BY ONLY <2>3, <2>4, <2>6, <2>8, <2>9, <2>11, ExtendOneLike
    <2>14. Moves(a, x, n) /\ Moves(b, y, n)
      BY <2>3, <2>12, MovesOn
    <2> QED
      BY <2>10, <2>13, <2>14
  <1>8. 0..last \subseteq S
    <2> HIDE DEF S
    <2> QED
      BY <1>6, <1>7, Upwards
  <1>9. last \in S
    <2> HIDE DEF S
    <2> QED
      BY <1>8
  <1> QED
    BY <1>4, <1>5, <1>9

LEMMA ExtendByLike ==
  ASSUME NEW n \in Nat \ {0}, NEW a, AccGood(a, n), NEW b, AccGood(b, n), AccLike(a, b),
         NEW old \in 0..(n - 1), NEW spl, spl.id \in Ids \cup {0}, spl.pre \in BOOLEAN,
         NEW f, f = ExtendBy(a, old, spl), NEW g, g = ExtendBy(b, old, spl)
  PROVE  AccLike(f, g)
  <1>1. PICK matched \in BOOLEAN : matched = (a.matched \/ spl.pre)
    OBVIOUS
  <1>2. PICK c : c = [a EXCEPT !.matched = matched]
    OBVIOUS
  <1>3. PICK e : e = [b EXCEPT !.matched = matched]
    OBVIOUS
  <1>4. c = [a EXCEPT !.matched = @ \/ spl.pre] /\ e = [b EXCEPT !.matched = @ \/ spl.pre]
    <2>1. b.matched = a.matched
      BY DEF AccLike
    <2> QED
      BY <1>1, <1>2, <1>3, <2>1
  <1>5. /\ AccShape(c) /\ c.d = a.d /\ c.longest = a.longest /\ c.matched = matched /\ c.stopped = a.stopped
        /\ AccShape(e) /\ e.d = b.d /\ e.longest = b.longest /\ e.matched = matched /\ e.stopped = b.stopped
    <2>1. AccShape(a) /\ AccShape(b)
      BY DEF AccGood
    <2> QED
      BY <1>2, <1>3, <2>1 DEF AccShape
  <1>6. AccGood(c, n) /\ AccGood(e, n) /\ AccLike(c, e)
    BY <1>5 DEF AccGood, AccLike
  <1>7. /\ f = IF spl.id = 0 THEN c ELSE ExtendRow(c, old, spl.id)
        /\ g = IF spl.id = 0 THEN e ELSE ExtendRow(e, old, spl.id)
    BY <1>4 DEF ExtendBy
  <1>8. CASE spl.id = 0
    BY <1>6, <1>7, <1>8
  <1>9. CASE spl.id # 0
    BY <1>6, <1>7, <1>9, ExtendRowLike
  <1> QED
    BY <1>8, <1>9

LEMMA ExtendBackLike ==
  ASSUME NEW n \in Nat \ {0}, NEW a, AccGood(a, n), NEW b, AccGood(b, n), AccLike(a, b),
         NEW ext \in Nat \ {0}, NEW f, f = ExtendBack(a, ext), NEW g, g = ExtendBack(b, ext)
  PROVE  AccLike(f, g)
  <1>1. PICK old \in Int : old = n - ext
    OBVIOUS
  <1>2. PICK spl : spl = SplidByStr(SubSeq(a.d.pys, old + 1, n))
    OBVIOUS
  <1>3. /\ Good(a.d) /\ Good(b.d) /\ Decoded(a.d) = n /\ Decoded(b.d) = n /\ b.d.pys = a.d.pys
        /\ Row(b.d, old) = Row(a.d, old) /\ b.longest = a.longest /\ b.stopped = a.stopped
        /\ a.stopped \in BOOLEAN
    BY LikeIs DEF AccGood, AccLike, Like
  <1>4. \/ f = a /\ g = b
        \/ f = [a EXCEPT !.stopped = TRUE] /\ g = [b EXCEPT !.stopped = TRUE]
        \/ old >= 0 /\ f = ExtendBy(a, old, spl) /\ g = ExtendBy(b, old, spl)
    <2>1. \/ f = a
          \/ f = [a EXCEPT !.stopped = TRUE]
          \/ old >= 0 /\ f = ExtendBy(a, old, spl)
      BY <1>1, <1>2, <1>3 DEF ExtendBack
    <2>2. CASE a.stopped \/ old < 0
      BY <1>1, <1>2, <1>3, <2>2 DEF ExtendBack
    <2>3. CASE ~(a.stopped \/ old < 0) /\ ext > 1 /\ a.longest # 0 /\ ~Row(a.d, old).full
      BY <1>1, <1>2, <1>3, <2>3 DEF ExtendBack
    <2>4. CASE ~(a.stopped \/ old < 0) /\ ~(ext > 1 /\ a.longest # 0 /\ ~Row(a.d, old).full)
      BY <1>1, <1>2, <1>3, <2>4 DEF ExtendBack
    <2> QED
      BY <2>2, <2>3, <2>4
  <1>5. CASE f = a /\ g = b
    BY <1>5
  <1>6. CASE f = [a EXCEPT !.stopped = TRUE] /\ g = [b EXCEPT !.stopped = TRUE]
    <2>1. AccShape(a) /\ AccShape(b)
      BY DEF AccGood
    <2>2. /\ f.d = a.d /\ f.longest = a.longest /\ f.matched = a.matched /\ f.stopped = TRUE
          /\ g.d = b.d /\ g.longest = b.longest /\ g.matched = b.matched /\ g.stopped = TRUE
      BY <1>6, <2>1 DEF AccShape
    <2> QED
      BY <2>2 DEF AccLike
  <1>7. CASE old >= 0 /\ f = ExtendBy(a, old, spl) /\ g = ExtendBy(b, old, spl)
    <2>1. old \in 0..(n - 1)
      BY <1>1, <1>7
    <2>2. spl.id \in Ids \cup {0} /\ spl.pre \in BOOLEAN
      BY <1>2, <1>3, <2>1, SpellingIs
    <2> QED
      BY <1>7, <2>1, <2>2, ExtendByLike
  <1> QED
    BY <1>4, <1>5, <1>6, <1>7

LEMMA AddCharQwertyLike ==
  ASSUME NEW d, Good(d), NEW e, Good(e), Like(d, e), NEW n \in Nat \ {0}, n = Decoded(d),
         NEW a, a = AddCharQwerty(d), NEW b, b = AddCharQwerty(e)
  PROVE  AccLike(a, b)
  <1> DEFINE last == kMaxPinyinSize + 1
  <1>1. last \in Nat /\ last \in 0..last
    BY Sizes
  <1>0. Decoded(e) = n
    BY LikeIs
  <1>2. PICK f : /\ f[0] = Begin(d)
                 /\ \A k \in (0 + 1)..(kMaxPinyinSize + 1) : f[k] = ExtendBack(f[k - 1], kMaxPinyinSize + 1 + 1 - k)
                 /\ AddCharQwerty(d) = f[kMaxPinyinSize + 1]
    BY Sizes, AddCharLoop
  <1>3. PICK g : /\ g[0] = Begin(e)
                 /\ \A k \in (0 + 1)..(kMaxPinyinSize + 1) : g[k] = ExtendBack(g[k - 1], kMaxPinyinSize + 1 + 1 - k)
                 /\ AddCharQwerty(e) = g[kMaxPinyinSize + 1]
    BY Sizes, AddCharLoop
  <1> DEFINE S == {k \in Nat : AccGood(f[k], n) /\ AccGood(g[k], n) /\ AccLike(f[k], g[k])}
  <1>4. 0 \in S
    <2>1. AccGood(Begin(d), n) /\ AccGood(Begin(e), n) /\ AccLike(Begin(d), Begin(e))
      BY <1>0 DEF AccGood, AccShape, Begin, AccLike
    <2> QED
      BY <1>2, <1>3, <2>1
  <1>5. ASSUME NEW k \in 1..last, k - 1 \in S PROVE k \in S
    <2>1. PICK v : v = f[k - 1]
      OBVIOUS
    <2>2. PICK w : w = g[k - 1]
      OBVIOUS
    <2>3. AccGood(v, n) /\ AccGood(w, n) /\ AccLike(v, w)
      BY <1>5, <2>1, <2>2
    <2>4. PICK ext \in Nat \ {0} : ext = kMaxPinyinSize + 1 + 1 - k
      BY Sizes
    <2>5. PICK x : x = f[k]
      OBVIOUS
    <2>6. PICK y : y = g[k]
      OBVIOUS
    <2>7. x = ExtendBack(v, ext) /\ y = ExtendBack(w, ext)
      BY <1>2, <1>3, <2>1, <2>2, <2>4, <2>5, <2>6
    <2>8. AccGood(x, n) /\ AccGood(y, n)
      BY <2>3, <2>7, ExtendBackGood
    <2>9. AccLike(x, y)
      BY <2>3, <2>7, ExtendBackLike
    <2>10. k \in Nat
      BY <1>1
    <2> QED
      BY <2>5, <2>6, <2>8, <2>9, <2>10
  <1>6. 0..last \subseteq S
    <2> HIDE DEF last, S
    <2> QED
      BY <1>1, <1>4, <1>5, Upwards
  <1> QED
    BY <1>1, <1>2, <1>3, <1>6

LEMMA LengthenedLike ==
  ASSUME NEW d, Good(d), NEW e, Good(e), Like(d, e), NEW ch,
         NEW f, f = Lengthened(d, ch), NEW g, g = Lengthened(e, ch)
  PROVE  Like(f, g)
  <1>1. Shape(d) /\ Shape(e)
    BY DEF Good, Typed
  <1>2. PICK row : row = NewRow(d)
    OBVIOUS
  <1>3. NewRow(e) = row
    BY <1>2 DEF NewRow, Like
  <1>4. PICK p : p = Append(d.pys, ch)
    OBVIOUS
  <1>5. PICK r : r = Append(d.rows, row)
    OBVIOUS
  <1>6. f = [d EXCEPT !.pys = p, !.rows = r]
    BY <1>2, <1>4, <1>5 DEF Lengthened
  <1>7. g = [e EXCEPT !.pys = p, !.rows = r]
    BY <1>3, <1>4, <1>5 DEF Lengthened, Like
  <1>8. f.pys = p /\ f.rows = r /\ f.dmis = d.dmis /\ f.handles = d.handles /\ f.dict = d.dict
    BY <1>1, <1>6 DEF Shape, Fields
  <1>9. g.pys = p /\ g.rows = r /\ g.dmis = e.dmis /\ g.handles = e.handles /\ g.dict = e.dict
    BY <1>1, <1>7 DEF Shape, Fields
  <1> QED
    BY <1>8, <1>9 DEF Like, Standing

(* A letter does the same to both.                                         *)
LEMMA AddCharLike ==
  ASSUME NEW d, Good(d), Fits(d), NEW e, Good(e), Like(d, e), NEW ch \in 97..122,
         NEW r, r = AddChar(d, ch), NEW s, s = AddChar(e, ch)
  PROVE  s.ok = r.ok /\ Like(r.d, s.d)
  <1>1. PICK n \in Nat : n = Decoded(d)
    BY TypedIs DEF Good, RowsOk
  <1>2. Decoded(e) = n /\ Fits(e)
    BY <1>1, LikeIs DEF Fits
  <1>3. CASE n >= kMaxRowNum - 1
    <2>1. r = [d |-> d, ok |-> FALSE] /\ s = [d |-> e, ok |-> FALSE]
      BY <1>1, <1>2, <1>3 DEF AddChar
    <2> QED
      BY <2>1
  <1>4. CASE ~(n >= kMaxRowNum - 1)
    <2>1. PICK f : f = Lengthened(d, ch)
      OBVIOUS
    <2>2. PICK g : g = Lengthened(e, ch)
      OBVIOUS
    <2>3. Good(f) /\ Decoded(f) = n + 1 /\ Good(g) /\ Decoded(g) = n + 1 /\ Like(f, g)
      <3>1. Good(f) /\ Decoded(f) = Decoded(d) + 1
        BY ONLY <2>1, Good(d), ch \in 97..122, LengthenedIs
      <3>2. Good(g) /\ Decoded(g) = Decoded(e) + 1
        BY ONLY <2>2, Good(e), ch \in 97..122, LengthenedIs
      <3>3. Like(f, g)
        BY ONLY <2>1, <2>2, Good(d), Good(e), Like(d, e), LengthenedLike
      <3> QED
        BY ONLY <1>1, <1>2, <3>1, <3>2, <3>3
    <2>4. PICK a : a = AddCharQwerty(f)
      OBVIOUS
    <2>5. PICK b : b = AddCharQwerty(g)
      OBVIOUS
    <2>6. n + 1 \in Nat \ {0}
      OBVIOUS
    <2>7. AccLike(a, b)
      BY <2>3, <2>4, <2>5, <2>6, AddCharQwertyLike
    <2>8. AccGood(a, n + 1) /\ AccGood(b, n + 1)
      BY <2>3, <2>4, <2>5, <2>6, AddCharQwertyGood
    <2>9. Decoded(a.d) = n + 1 /\ Decoded(b.d) = n + 1 /\ Row(b.d, n + 1) = Row(a.d, n + 1)
          /\ b.matched = a.matched /\ Like(a.d, b.d)
      BY <2>7, <2>8, LikeIs DEF AccGood, AccLike
    <2>10. r = Judged(d, a) /\ s = Judged(e, b)
      BY <1>1, <1>2, <1>4, <2>1, <2>2, <2>4, <2>5 DEF AddChar, Lengthened
    <2>11. CASE Row(a.d, n + 1).nodes # <<>> \/ a.matched
      <3>1. r = [d |-> a.d, ok |-> TRUE] /\ s = [d |-> b.d, ok |-> TRUE]
        BY <2>9, <2>10, <2>11 DEF Judged
      <3> QED
        BY <2>9, <3>1
    <2>12. CASE ~(Row(a.d, n + 1).nodes # <<>> \/ a.matched)
      <3>1. r.ok = FALSE /\ s.ok = FALSE
        BY <2>9, <2>10, <2>12 DEF Judged
      <3>2. r.d = d
        BY <3>1, AddCharIs DEF Fits
      <3>3. s.d = e
        BY <1>2, <3>1, AddCharIs DEF Fits
      <3> QED
        BY <3>1, <3>2, <3>3
    <2> QED
      BY <2>11, <2>12
  <1> QED
    BY <1>3, <1>4

TakenLike(a, b) == b.ok = a.ok /\ Like(a.d, b.d)
LEMMA AddNextLike ==
  ASSUME NEW a, TakenGood(a), NEW b, TakenGood(b), TakenLike(a, b), NEW ch \in 97..122,
         NEW r, r = AddNext(a, ch), NEW s, s = AddNext(b, ch)
  PROVE  TakenLike(r, s)
  <1>0. b.ok = a.ok /\ Like(a.d, b.d)
    BY DEF TakenLike
  <1>1. CASE a.ok
    <2>1. r = AddChar(a.d, ch) /\ s = AddChar(b.d, ch)
      BY <1>0, <1>1 DEF AddNext
    <2> QED
      BY <1>0, <2>1, AddCharLike DEF TakenGood, TakenLike
  <1>2. CASE ~a.ok
    BY <1>0, <1>2 DEF AddNext, TakenLike
  <1> QED
    BY <1>1, <1>2

(***************************************************************************)
(* A decoder and what it was some letters ago.                             *)
(***************************************************************************)
Within(x, d) ==
  /\ Decoded(x) <= Decoded(d) /\ x.pys = SubSeq(d.pys, 1, Decoded(x))
  /\ RowsSame(x, d, Decoded(x))
  /\ Len(x.dmis) <= Len(d.dmis) /\ MatchesSame(x, d, Len(x.dmis)) /\ CacheKept(x, d)

LEMMA SizesAre ==
  ASSUME NEW d, Good(d)
  PROVE  /\ Decoded(d) \in Nat /\ Len(d.dmis) \in Nat /\ d.pys \in Seq(97..122) /\ Len(d.pys) = Decoded(d)
         /\ d.rows \in Seq(RowSet) /\ Len(d.rows) = Decoded(d) + 1 /\ d.dmis \in Seq(MatchSet)
         /\ DmiEnd(Row(d, Decoded(d))) = Len(d.dmis)
  <1>1. Typed(d) /\ RowsOk(d)
    BY DEF Good
  <1>2. d.pys \in Seq(97..122) /\ d.rows \in Seq(RowSet) /\ d.dmis \in Seq(MatchSet)
    BY <1>1 DEF Typed
  <1>3. Len(d.rows) = Decoded(d) + 1 /\ DmiEnd(Row(d, Decoded(d))) = Len(d.dmis)
    BY <1>1 DEF RowsOk
  <1>4. Decoded(d) \in Nat /\ Len(d.dmis) \in Nat
    BY <1>1, <1>3, TypedIs
  <1>5. Len(d.pys) = Decoded(d)
    BY DEF Decoded
  <1> QED
    BY <1>2, <1>3, <1>4, <1>5

LEMMA WithinItself ==
  ASSUME NEW d, Good(d)
  PROVE  Within(d, d)
  <1>1. PICK L : L = 97..122
    OBVIOUS
  <1>2. PICK p : p = d.pys
    OBVIOUS
  <1>3. p \in Seq(L) /\ Len(p) = Decoded(d) /\ Decoded(d) \in Nat /\ Len(d.dmis) \in Nat
    BY <1>1, <1>2, SizesAre
  <1>4. PICK q : q = SubSeq(p, 1, Decoded(d))
    OBVIOUS
  <1>5. q \in Seq(L) /\ Len(q) = Decoded(d) /\ \A k \in 1..Decoded(d) : q[k] = p[k]
    BY <1>3, <1>4, FirstsAre
  <1>6. q = p
    BY <1>3, <1>5, SeqEqual
  <1> QED
    BY <1>2, <1>3, <1>4, <1>6 DEF Within, RowsSame, MatchesSame, CacheKept

LEMMA FirstsOfFirsts ==
  ASSUME NEW T, NEW s \in Seq(T), NEW i \in Nat, NEW j \in Nat, i <= j, j <= Len(s),
         NEW t, t = SubSeq(s, 1, j)
  PROVE  SubSeq(t, 1, i) = SubSeq(s, 1, i)
  <1>1. t \in Seq(T) /\ Len(t) = j /\ \A k \in 1..j : t[k] = s[k]
    BY FirstsAre
  <1>2. PICK u : u = SubSeq(t, 1, i)
    OBVIOUS
  <1>3. PICK v : v = SubSeq(s, 1, i)
    OBVIOUS
  <1>4. u \in Seq(T) /\ Len(u) = i /\ \A k \in 1..i : u[k] = t[k]
    BY <1>1, <1>2, FirstsAre
  <1>5. v \in Seq(T) /\ Len(v) = i /\ \A k \in 1..i : v[k] = s[k]
    <2>1. i <= Len(s)
      OBVIOUS
    <2> QED
      BY <1>3, <2>1, FirstsAre
  <1>6. \A k \in 1..i : k \in 1..j
    OBVIOUS
  <1>7. u = v
    BY <1>1, <1>4, <1>5, <1>6, SeqEqual
  <1> QED
    BY <1>2, <1>3, <1>7

LEMMA WithinOn ==
  ASSUME NEW x, Good(x), NEW d, Good(d), NEW e, Good(e), Within(x, d), Within(d, e)
  PROVE  Within(x, e)
  <1>1. PICK i \in Nat : i = Decoded(x)
    BY SizesAre
  <1>2. PICK j \in Nat : j = Decoded(d)
    BY SizesAre
  <1>3. /\ Decoded(e) \in Nat /\ Len(x.dmis) \in Nat /\ Len(d.dmis) \in Nat /\ Len(e.dmis) \in Nat
        /\ Len(e.pys) = Decoded(e) /\ e.pys \in Seq(97..122)
    BY SizesAre
  <1>4. i <= j /\ j <= Decoded(e) /\ Len(x.dmis) <= Len(d.dmis) /\ Len(d.dmis) <= Len(e.dmis)
    BY <1>1, <1>2 DEF Within
  <1>5. x.pys = SubSeq(e.pys, 1, i)
    <2>1. PICK L : L = 97..122
      OBVIOUS
    <2>2. PICK p \in Seq(L) : p = e.pys
      BY <1>3, <2>1
    <2>3. PICK q : q = SubSeq(p, 1, j)
      OBVIOUS
    <2>4. x.pys = SubSeq(q, 1, i)
      BY <1>1, <1>2, <2>2, <2>3 DEF Within
    <2>5. j <= Len(p)
      BY <1>3, <1>4, <2>2
    <2>6. SubSeq(q, 1, i) = SubSeq(p, 1, i)
      BY <1>4, <2>3, <2>5, FirstsOfFirsts
    <2> QED
      BY <2>2, <2>4, <2>6
  <1>6. RowsSame(x, e, i)
    <2>1. \A k \in 0..i : k \in 0..j
      BY <1>4
    <2> QED
      BY <1>1, <1>2, <2>1 DEF Within, RowsSame
  <1>7. MatchesSame(x, e, Len(x.dmis))
    <2>1. \A k \in 1..Len(x.dmis) : k \in 1..Len(d.dmis)
      BY <1>3, <1>4
    <2> QED
      BY <2>1 DEF Within, MatchesSame
  <1>8. CacheKept(x, e)
    <2> SUFFICES ASSUME NEW h \in HalfIds
                 PROVE  \/ e.cache[h] = x.cache[h]
                        \/ \E k \in 1..Len(e.dmis) : e.dmis[k].fr = 0 /\ e.dmis[k].spl = h
      BY DEF CacheKept
    <2>1. \/ d.cache[h] = x.cache[h]
          \/ \E k \in 1..Len(d.dmis) : d.dmis[k].fr = 0 /\ d.dmis[k].spl = h
      BY DEF Within, CacheKept
    <2>2. \/ e.cache[h] = d.cache[h]
          \/ \E k \in 1..Len(e.dmis) : e.dmis[k].fr = 0 /\ e.dmis[k].spl = h
      BY DEF Within, CacheKept
    <2>3. \A k \in 1..Len(d.dmis) : k \in 1..Len(e.dmis) /\ e.dmis[k] = d.dmis[k]
      BY <1>3, <1>4 DEF Within, MatchesSame
    <2> QED
      BY <2>1, <2>2, <2>3
  <1> QED
    BY <1>1, <1>2, <1>3, <1>4, <1>5, <1>6, <1>7, <1>8 DEF Within

LEMMA FollowsWithin ==
  ASSUME NEW d, Good(d), NEW e, Good(e), NEW ch, Follows(d, ch, e), Decoded(e) = Decoded(d) + 1
  PROVE  Within(d, e)
  <1>1. PICK n \in Nat : n = Decoded(d)
    BY SizesAre
  <1>2. PICK L : L = 97..122
    OBVIOUS
  <1>3. PICK p : p = d.pys
    OBVIOUS
  <1>4. PICK q : q = e.pys
    OBVIOUS
  <1>5. p \in Seq(L) /\ Len(p) = n /\ q \in Seq(L) /\ Len(q) = n + 1
    BY <1>1, <1>2, <1>3, <1>4, SizesAre
  <1>6. q = Append(p, ch)
    BY <1>3, <1>4 DEF Follows
  <1>7. \A k \in 1..n : q[k] = p[k]
    BY <1>5, <1>6
  <1>8. PICK v : v = SubSeq(q, 1, n)
    OBVIOUS
  <1>9. n <= Len(q)
    BY <1>5
  <1>10. v \in Seq(L) /\ Len(v) = n /\ \A k \in 1..n : v[k] = q[k]
    BY <1>5, <1>8, <1>9, FirstsAre
  <1>11. p = v
    BY <1>5, <1>7, <1>10, SeqEqual
  <1>12. d.pys = SubSeq(e.pys, 1, Decoded(d)) /\ Decoded(d) <= Decoded(e)
    BY <1>1, <1>3, <1>4, <1>8, <1>11
  <1>13. /\ RowsSame(d, e, Decoded(d)) /\ Len(d.dmis) <= Len(e.dmis)
         /\ MatchesSame(d, e, Len(d.dmis)) /\ CacheKept(d, e)
    BY DEF Follows
  <1> QED
    BY <1>12, <1>13 DEF Within

(* What reset_search() leaves is what was there after so many letters.     *)
LEMMA CutLike ==
  ASSUME NEW x, Good(x), NEW d, Good(d), NEW pos \in 0..Decoded(d), Decoded(x) = pos,
         x.pys = SubSeq(d.pys, 1, pos), RowsSame(x, d, pos), MatchesSame(x, d, Len(x.dmis)),
         NEW c, c = ResetSearch(d, pos)
  PROVE  Like(x, c)
  <1>1. Good(c) /\ CutAt(d, pos, c)
    BY ResetSearchIs
  <1>2. pos \in Nat
    BY SizesAre
  <1>3. c.pys = x.pys /\ Decoded(c) = pos
    BY <1>1 DEF CutAt
  <1>4. c.rows = x.rows
    <2>1. PICK r \in Seq(RowSet) : r = x.rows
      BY SizesAre
    <2>2. PICK q \in Seq(RowSet) : q = c.rows
      BY <1>1, SizesAre
    <2>3. Len(r) = pos + 1 /\ Len(q) = pos + 1
      BY <1>1, <1>3, <2>1, <2>2, SizesAre
    <2>4. ASSUME NEW k \in 1..(pos + 1) PROVE r[k] = q[k]
      <3>1. k - 1 \in 0..pos /\ (k - 1) + 1 = k
        BY <1>2
      <3>2. Row(x, k - 1) = Row(c, k - 1)
        BY <1>1, <3>1 DEF RowsSame, CutAt
      <3> QED
        BY <2>1, <2>2, <3>1, <3>2 DEF Row
    <2>5. r = q
      BY <2>3, <2>4, SeqEqual
    <2> QED
      BY <2>1, <2>2, <2>5
  <1>5. DmiEnd(Row(d, pos)) = Len(x.dmis)
    <2>1. Row(d, pos) = Row(x, pos)
      BY <1>2 DEF RowsSame
    <2> QED
      BY <2>1, SizesAre
  <1>6. c.dmis = x.dmis
    <2>1. PICK r \in Seq(MatchSet) : r = x.dmis
      BY SizesAre
    <2>2. PICK q \in Seq(MatchSet) : q = c.dmis
      BY <1>1, SizesAre
    <2>3. Len(q) = Len(r)
      BY <1>1, <1>5, <2>1, <2>2 DEF CutAt
    <2>4. ASSUME NEW k \in 1..Len(r) PROVE r[k] = q[k]
      BY <1>1, <1>5, <2>1, <2>2 DEF CutAt, MatchesSame
    <2>5. r = q
      BY <2>3, <2>4, SeqEqual
    <2> QED
      BY <2>1, <2>2, <2>5
  <1>7. \A k \in 1..Len(x.dmis) : Standing(c, k) = Standing(x, k)
    BY <1>1, <1>5 DEF CutAt, MatchesSame
  <1> QED
    BY <1>3, <1>4, <1>6, <1>7 DEF Like

LEMMA ResetLike ==
  ASSUME NEW d, Good(d), NEW e, Good(e), Like(d, e), NEW pos \in 0..Decoded(d),
         NEW b, b = ResetSearch(d, pos), NEW c, c = ResetSearch(e, pos)
  PROVE  Like(b, c)
  <1>1. Good(b) /\ CutAt(d, pos, b)
    BY ResetSearchIs
  <1>2. /\ e.pys = d.pys /\ Decoded(e) = Decoded(d) /\ \A r : Row(e, r) = Row(d, r)
        /\ e.dmis = d.dmis
    BY LikeIs DEF Like
  <1>3. b.pys = SubSeq(e.pys, 1, pos) /\ RowsSame(b, e, pos) /\ Decoded(b) = pos
    BY <1>1, <1>2 DEF CutAt, RowsSame
  <1>4. MatchesSame(b, e, Len(b.dmis))
    <2>1. Len(b.dmis) = DmiEnd(Row(d, pos)) /\ MatchesSame(d, b, Len(b.dmis))
      BY <1>1 DEF CutAt
    <2>2. Len(b.dmis) <= Len(d.dmis) /\ Len(b.dmis) \in Nat /\ Len(d.dmis) \in Nat
      BY <1>1, <2>1, SizesAre, RowsAre DEF Good
    <2>3. \A k \in 1..Len(b.dmis) : k \in 1..Len(d.dmis)
      BY <2>2
    <2> QED
      BY <1>2, <2>1, <2>3 DEF MatchesSame, Like
  <1>5. pos \in 0..Decoded(e)
    BY <1>2
  <1> QED
    BY <1>1, <1>3, <1>4, <1>5, CutLike

(***************************************************************************)
(* A decoder is what its letters make of one just opened.                  *)
(***************************************************************************)
Chain(f, py, j) ==
  /\ Decoded(f[0].d) = 0
  /\ \A k \in 0..j : TakenGood(f[k]) /\ f[k].ok
  /\ \A k \in 1..j : TakenNext(f[k - 1], py[k], f[k])
Regrown(d) == \E f : Chain(f, d.pys, Decoded(d)) /\ Like(f[Decoded(d)].d, d)

LEMMA ChainIs ==
  ASSUME NEW f, NEW py, NEW j \in Nat, Chain(f, py, j)
  PROVE  \A k \in 0..j : /\ Good(f[k].d) /\ Fits(f[k].d) /\ Decoded(f[k].d) = k
                         /\ \A i \in 0..k : Within(f[i].d, f[k].d)
  <1>1. \A k \in 0..j : Good(f[k].d) /\ Fits(f[k].d)
    BY DEF Chain, TakenGood
  <1> DEFINE S == {k \in Nat : Decoded(f[k].d) = k /\ \A i \in 0..k : Within(f[i].d, f[k].d)}
  <1>2. 0 \in S
    <2>1. Decoded(f[0].d) = 0 /\ Good(f[0].d)
      BY <1>1 DEF Chain
    <2>2. Within(f[0].d, f[0].d)
      BY <2>1, WithinItself
    <2>3. \A i \in 0..0 : i = 0
      OBVIOUS
    <2> QED
      BY <2>1, <2>2, <2>3
  <1>3. ASSUME NEW k \in 1..j, k - 1 \in S PROVE k \in S
    <2>1. PICK d : d = f[k - 1].d
      OBVIOUS
    <2>2. PICK e : e = f[k].d
      OBVIOUS
    <2>3. k - 1 \in 0..j /\ k \in 0..j /\ k \in Nat
      OBVIOUS
    <2>4. Good(d) /\ Good(e) /\ Decoded(d) = k - 1 /\ \A i \in 0..(k - 1) : Within(f[i].d, d)
      BY <1>1, <1>3, <2>1, <2>2, <2>3
    <2>5. Follows(d, py[k], e) /\ Decoded(e) = Decoded(d) + 1
      BY <2>1, <2>2, <2>3 DEF Chain, TakenNext
    <2>6. Decoded(e) = k
      BY <2>3, <2>4, <2>5
    <2>7. Within(d, e)
      BY <2>4, <2>5, FollowsWithin
    <2>8. ASSUME NEW i \in 0..k PROVE Within(f[i].d, e)
      <3>1. CASE i = k
        BY <2>2, <2>4, <3>1, WithinItself
      <3>2. CASE i # k
        <4>1. i \in 0..(k - 1) /\ i \in 0..j
          BY <3>2
        <4> QED
          BY <1>1, <2>4, <2>7, <4>1, WithinOn
      <3> QED
        BY <3>1, <3>2
    <2> QED
      BY <2>2, <2>3, <2>6, <2>8
  <1>4. 0..j \subseteq S
    <2> HIDE DEF S
    <2> QED
      BY <1>2, <1>3, Upwards
  <1> QED
    BY <1>1, <1>4

LEMMA OpenedLike ==
  ASSUME NEW d, Good(d), Decoded(d) = 0, NEW e, Good(e), Decoded(e) = 0
  PROVE  Like(d, e)
  <1>1. \A x \in {d, e} : x.pys = <<>> /\ x.rows = <<Row0>> /\ x.dmis = <<>>
    <2> SUFFICES ASSUME NEW x, Good(x), Decoded(x) = 0
                 PROVE  x.pys = <<>> /\ x.rows = <<Row0>> /\ x.dmis = <<>>
      OBVIOUS
    <2>1. x.pys = <<>>
      <3>1. x.pys \in Seq(97..122) /\ Len(x.pys) = 0
        BY SizesAre
      <3> QED
        BY <3>1
    <2>2. Row(x, 0) = Row0
      BY DEF Good, RowsOk
    <2>3. x.rows = <<Row0>>
      <3>1. PICK r \in Seq(RowSet) : r = x.rows
        BY SizesAre
      <3>2. Len(r) = 1
        <4>1. Len(x.rows) = Decoded(x) + 1
          BY SizesAre
        <4> QED
          BY <3>1, <4>1
      <3>3. r[1] = Row0
        BY <2>2, <3>1 DEF Row
      <3>4. r = <<Row0>>
        BY <3>2, <3>3
      <3> QED
        BY <3>1, <3>4
    <2>4. x.dmis = <<>>
      <3>1. x.dmis \in Seq(MatchSet) /\ Len(x.dmis) = DmiEnd(Row0)
        BY <2>2, SizesAre
      <3>2. DmiEnd(Row0) = 0
        BY DEF DmiEnd, Row0
      <3> QED
        BY <3>1, <3>2
    <2> QED
      BY <2>1, <2>3, <2>4
  <1>2. Len(d.dmis) = 0
    BY <1>1
  <1> QED
    BY <1>1, <1>2 DEF Like

LEMMA RegrownLike ==
  ASSUME NEW d, Regrown(d), NEW e, Like(d, e)
  PROVE  Regrown(e)
  <1>1. e.pys = d.pys /\ Decoded(e) = Decoded(d)
    BY LikeIs DEF Like
  <1>2. PICK f : Chain(f, d.pys, Decoded(d)) /\ Like(f[Decoded(d)].d, d)
    BY DEF Regrown
  <1>3. Like(f[Decoded(d)].d, e)
    BY <1>2, LikeOn
  <1> QED
    BY <1>1, <1>2, <1>3 DEF Regrown

(* Cut back to some letters it is what these make.                         *)
LEMMA ChainCut ==
  ASSUME NEW d, Good(d), NEW n, n = Decoded(d), NEW f, Chain(f, d.pys, n), Like(f[n].d, d),
         NEW pos \in 0..n, NEW c, c = ResetSearch(d, pos)
  PROVE  Like(f[pos].d, c) /\ Chain(f, c.pys, pos) /\ Good(c) /\ Decoded(c) = pos
  <1>1. n \in Nat /\ n \in 0..n
    BY SizesAre
  <1>2. PICK x : x = f[pos].d
    OBVIOUS
  <1>3. PICK g : g = f[n].d
    OBVIOUS
  <1>4. Good(x) /\ Decoded(x) = pos /\ Good(g) /\ Decoded(g) = n /\ Within(x, g)
    BY <1>1, <1>2, <1>3, ChainIs
  <1>5. g.pys = d.pys /\ \A r : Row(d, r) = Row(g, r)
    BY <1>3, LikeIs DEF Like
  <1>6. x.pys = SubSeq(d.pys, 1, pos) /\ RowsSame(x, d, pos)
    BY <1>4, <1>5 DEF Within, RowsSame
  <1>7. MatchesSame(x, d, Len(x.dmis))
    <2>1. Len(x.dmis) \in Nat /\ Len(g.dmis) \in Nat /\ Len(x.dmis) <= Len(g.dmis)
      BY <1>4, SizesAre DEF Within
    <2>2. \A k \in 1..Len(x.dmis) : k \in 1..Len(g.dmis)
      BY <2>1
    <2>3. Like(g, d)
      BY <1>3
    <2> QED
      BY <1>4, <2>2, <2>3 DEF Within, MatchesSame, Like
  <1>8. Like(x, c)
    BY <1>4, <1>6, <1>7, CutLike
  <1>9. Good(c) /\ CutAt(d, pos, c)
    BY ResetSearchIs
  <1>10. Decoded(c) = pos /\ c.pys = SubSeq(d.pys, 1, pos)
    BY <1>9 DEF CutAt
  <1>11. \A k \in 1..pos : c.pys[k] = d.pys[k]
    <2>1. PICK L : L = 97..122
      OBVIOUS
    <2>2. PICK p : p = d.pys
      OBVIOUS
    <2>3. p \in Seq(L) /\ Len(p) = n
      BY <2>1, <2>2, SizesAre
    <2>4. pos \in Nat /\ pos <= Len(p)
      BY <1>1, <2>3
    <2> QED
      BY <1>10, <2>2, <2>3, <2>4, FirstsAre
  <1>12. (\A k \in 0..pos : k \in 0..n) /\ \A k \in 1..pos : k \in 1..n
    BY <1>1
  <1>13. Chain(f, c.pys, pos)
    BY <1>11, <1>12 DEF Chain
  <1> QED
    BY <1>2, <1>8, <1>9, <1>10, <1>13

LEMMA RegrownCut ==
  ASSUME NEW d, Good(d), Regrown(d), NEW pos \in 0..Decoded(d), NEW c, c = ResetSearch(d, pos)
  PROVE  Regrown(c) /\ Good(c)
  <1>1. PICK n : n = Decoded(d)
    OBVIOUS
  <1>2. PICK f : Chain(f, d.pys, n) /\ Like(f[n].d, d)
    BY <1>1 DEF Regrown
  <1>3. Like(f[pos].d, c) /\ Chain(f, c.pys, pos) /\ Good(c) /\ Decoded(c) = pos
    BY <1>1, <1>2, ChainCut
  <1> QED
    BY <1>3 DEF Regrown

(* Letters up to one that is refused.                                      *)
LEMMA Stops ==
  ASSUME NEW f, NEW py, NEW n \in Nat, f[0].ok,
         \A k \in 0..n : TakenGood(f[k]), \A k \in 1..n : TakenNext(f[k - 1], py[k], f[k])
  PROVE  \E j \in 0..n : (\A k \in 0..j : f[k].ok) /\ f[n].d = f[j].d
  <1> DEFINE S == {k \in Nat : \E j \in 0..k : /\ \A i \in 0..j : f[i].ok
                                               /\ f[k].d = f[j].d /\ (f[k].ok => j = k)}
  <1>1. 0 \in S
    <2>1. 0 \in 0..0 /\ \A i \in 0..0 : i = 0
      OBVIOUS
    <2> QED
      BY <2>1
  <1>2. ASSUME NEW k \in 1..n, k - 1 \in S PROVE k \in S
    <2>1. PICK j \in 0..(k - 1) : /\ \A i \in 0..j : f[i].ok
                                  /\ f[k - 1].d = f[j].d /\ (f[k - 1].ok => j = k - 1)
      BY <1>2
    <2>2. f[k].ok => f[k - 1].ok
      BY DEF TakenNext
    <2>3. ~f[k].ok => f[k].d = f[k - 1].d
      BY DEF TakenNext
    <2>4. CASE f[k].ok
      <3>1. \A i \in 0..k : i \in 0..j \/ i = k
        BY <2>1, <2>2, <2>4
      <3>2. \A i \in 0..k : f[i].ok
        BY <2>1, <2>4, <3>1
      <3>3. k \in 0..k /\ k \in Nat
        OBVIOUS
      <3> QED
        BY <3>2, <3>3
    <2>5. CASE ~f[k].ok
      <3>1. f[k].d = f[j].d /\ j \in 0..k /\ k \in Nat
        BY <2>1, <2>3, <2>5
      <3> QED
        BY <2>1, <2>5, <3>1
    <2> QED
      BY <2>4, <2>5
  <1>3. 0..n \subseteq S
    <2> HIDE DEF S
    <2> QED
      BY <1>1, <1>2, Upwards
  <1>4. n \in S
    <2> HIDE DEF S
    <2> QED
      BY <1>3
  <1> QED
    BY <1>4

LEMMA ChainLetters ==
  ASSUME NEW f, NEW py, NEW j \in Nat, Chain(f, py, j), NEW d, d = f[j].d
  PROVE  Chain(f, d.pys, j) /\ Good(d) /\ Decoded(d) = j
  <1>1. j \in 0..j
    OBVIOUS
  <1>2. Good(d) /\ Decoded(d) = j
    BY <1>1, ChainIs
  <1>3. ASSUME NEW k \in 1..j PROVE d.pys[k] = py[k]
    <2>1. k \in 0..j /\ k - 1 \in 0..j /\ k \in Nat /\ k <= j
      OBVIOUS
    <2>2. PICK a : a = f[k - 1].d
      OBVIOUS
    <2>3. PICK e : e = f[k].d
      OBVIOUS
    <2>4. Good(a) /\ Decoded(a) = k - 1
      BY <2>1, <2>2, ChainIs
    <2>5. Good(e) /\ Decoded(e) = k
      BY <2>1, <2>3, ChainIs
    <2>6. Within(e, d)
      BY <1>1, <2>1, <2>3, ChainIs
    <2>7. PICK L : L = 97..122
      OBVIOUS
    <2>8. PICK p : p = d.pys
      OBVIOUS
    <2>9. PICK q : q = a.pys
      OBVIOUS
    <2>10. p \in Seq(L) /\ Len(p) = j /\ q \in Seq(L) /\ Len(q) = k - 1
      BY <1>2, <2>4, <2>7, <2>8, <2>9, SizesAre
    <2>11. e.pys = SubSeq(p, 1, k)
      BY <2>5, <2>6, <2>8 DEF Within
    <2>12. e.pys = Append(q, py[k])
      BY <2>1, <2>2, <2>3, <2>9 DEF Chain, TakenNext, Follows
    <2>13. e.pys[k] = py[k]
      BY <2>1, <2>10, <2>12
    <2>14. k <= Len(p) /\ k \in 1..k
      BY <2>1, <2>10
    <2>15. e.pys[k] = p[k]
      BY <2>1, <2>10, <2>11, <2>14, FirstsAre
    <2> QED
      BY <2>8, <2>13, <2>15
  <1>4. Chain(f, d.pys, j)
    BY <1>3 DEF Chain
  <1> QED
    BY <1>2, <1>4

(* What is resumed is what the same letters make from the beginning.       *)
LEMMA ResumedLike ==
  ASSUME NEW d, Good(d), Fits(d), Regrown(d), NEW z, Good(z), Fits(z), Decoded(z) = 0,
         NEW s \in Seq(97..122), NEW x, x = Resumed(d, s), NEW y, y = Resumed(z, s)
  PROVE  Like(x, y) /\ Regrown(x) /\ CacheKept(z, y)
  <1>1. PICK t : t = Taken(s)
    OBVIOUS
  <1>2. PICK len \in Nat : len = Len(t)
    BY <1>1, TakenIs
  <1>3. t \in Seq(97..122) /\ \A k \in 1..len : t[k] = s[k]
    BY <1>1, <1>2, TakenIs
  <1>c. \A k \in 1..len : t[k] \in 97..122
    <2>1. PICK L : L = 97..122
      OBVIOUS
    <2>2. t \in Seq(L)
      BY <1>3, <2>1
    <2>3. \A k \in 1..Len(t) : t[k] \in L
      BY ONLY <2>2, ElementOfSeq
    <2> QED
      BY <1>2, <2>1, <2>3
  <1>4. PICK n \in Nat : n = Decoded(d)
    BY SizesAre
  <1>5. PICK pos : pos = CommonPrefix(d.pys, s)
    OBVIOUS
  <1>6. pos \in Nat /\ pos \in 0..n /\ pos <= len /\ \A k \in 1..pos : d.pys[k] = s[k]
    <2>1. pos \in 0..Decoded(d) /\ pos <= Len(Taken(s)) /\ \A k \in 1..pos : d.pys[k] = s[k]
      BY <1>5, PlaceIs
    <2> QED
      BY <1>1, <1>2, <1>4, <2>1
  <1>7. PICK f : Chain(f, d.pys, n) /\ Like(f[n].d, d)
    BY <1>4 DEF Regrown
  <1>8. PICK c : c = ResetSearch(d, pos)
    OBVIOUS
  <1>9. Like(f[pos].d, c) /\ Good(c) /\ Decoded(c) = pos
    BY <1>4, <1>6, <1>7, <1>8, ChainCut
  <1>10. Fits(c) /\ pos <= Len(t)
    BY <1>2, <1>4, <1>6, <1>9, Sizes DEF Fits
  <1>11. PICK g : /\ g[pos] = Start(c) /\ AddChars(c, t, pos) = g[Len(t)].d
                  /\ \A k \in pos..Len(t) : TakenGood(g[k])
                  /\ \A k \in (pos + 1)..Len(t) : TakenNext(g[k - 1], t[k], g[k])
    BY ONLY <1>3, <1>6, <1>9, <1>10, AddCharsIs
  <1>12. x = g[len].d
    BY <1>1, <1>2, <1>5, <1>8, <1>11 DEF Resumed
  <1>13. CommonPrefix(z.pys, s) = 0
    <2>1. CommonPrefix(z.pys, s) \in 0..0
      BY PlaceIs
    <2> QED
      BY <2>1
  <1>14. PICK o : o = ResetSearch(z, 0)
    OBVIOUS
  <1>15. Good(o) /\ Decoded(o) = 0 /\ o.cache = z.cache /\ Fits(o)
    <2>1. 0 \in 0..Decoded(z)
      OBVIOUS
    <2>2. Good(o) /\ CutAt(z, 0, o)
      BY <1>14, <2>1, ResetSearchIs
    <2> QED
      BY <2>2, Sizes DEF CutAt, Fits
  <1>16. 0 \in Nat /\ 0 <= Len(t)
    BY <1>2
  <1>17. PICK h : /\ h[0] = Start(o) /\ AddChars(o, t, 0) = h[Len(t)].d
                  /\ \A k \in 0..Len(t) : TakenGood(h[k])
                  /\ \A k \in (0 + 1)..Len(t) : TakenNext(h[k - 1], t[k], h[k])
    BY <1>3, <1>15, <1>16, AddCharsIs
  <1>18. y = h[len].d
    BY <1>1, <1>2, <1>13, <1>14, <1>17 DEF Resumed
  <1>19. h[0].ok /\ h[0].d = o
    BY <1>17 DEF Start
  <1> DEFINE S == {k \in Nat : h[k].ok /\ Like(f[k].d, h[k].d)}
  <1>20. 0 \in S
    <2>1. 0 \in 0..n
      BY <1>4
    <2>2. Good(f[0].d) /\ Decoded(f[0].d) = 0
      BY <1>7, <2>1, ChainIs
    <2>3. Like(f[0].d, o)
      BY <1>15, <2>2, OpenedLike
    <2> QED
      BY <1>19, <2>3
  <1>21. ASSUME NEW k \in 1..pos, k - 1 \in S PROVE k \in S
    <2>1. k \in 1..n /\ k \in 0..n /\ k - 1 \in 0..n /\ k \in 1..len /\ k \in 0..len /\ k - 1 \in 0..len
      BY <1>4, <1>6
    <2>2. PICK a : a = f[k - 1]
      OBVIOUS
    <2>3. PICK b : b = h[k - 1]
      OBVIOUS
    <2>4. PICK v : v = f[k]
      OBVIOUS
    <2>5. PICK w : w = h[k]
      OBVIOUS
    <2>6. PICK ch \in 97..122 : ch = t[k]
      BY <1>c, <2>1
    <2>7. ch \in 97..122 /\ d.pys[k] = ch
      BY <1>3, <1>6, <2>1, <2>6
    <2>8. TakenGood(a) /\ a.ok /\ v = AddNext(a, ch) /\ v.ok
      BY <1>7, <2>1, <2>2, <2>4, <2>7 DEF Chain, TakenNext
    <2>9. TakenGood(b) /\ b.ok /\ w = AddNext(b, ch) /\ Like(a.d, b.d)
      BY <1>2, <1>17, <1>21, <2>1, <2>2, <2>3, <2>5, <2>6 DEF TakenNext
    <2>10. b.ok = a.ok
      BY <2>8, <2>9 DEF TakenGood
    <2>13. TakenGood(a) /\ v = AddNext(a, ch) /\ TakenGood(b) /\ w = AddNext(b, ch) /\ TakenLike(a, b)
      BY <2>8, <2>9, <2>10 DEF TakenLike
    <2>14. TakenLike(v, w)
      BY ONLY <2>13, AddNextLike
    <2>11. w.ok = v.ok /\ Like(v.d, w.d)
      BY <2>14 DEF TakenLike
    <2>12. k \in Nat
      OBVIOUS
    <2> QED
      BY <2>4, <2>5, <2>8, <2>11, <2>12
  <1>22. pos \in S
    <2> HIDE DEF S
    <2>1. 0..pos \subseteq S
      BY <1>6, <1>20, <1>21, Upwards
    <2> QED
      BY <1>6, <2>1
  <1> DEFINE R == {k \in Nat : h[k].ok = g[k].ok /\ Like(g[k].d, h[k].d)}
  <1>23. pos \in R
    <2>1. h[pos].ok /\ Like(f[pos].d, h[pos].d)
      BY <1>22
    <2>2. g[pos].ok = TRUE /\ g[pos].d = c
      BY <1>11 DEF Start
    <2>3. TakenGood(h[pos])
      BY <1>2, <1>6, <1>17
    <2>4. h[pos].ok = TRUE
      BY <2>1, <2>3 DEF TakenGood
    <2>5. Like(c, h[pos].d)
      BY <1>9, <2>1, LikeIs, LikeOn
    <2> QED
      BY <1>6, <2>2, <2>4, <2>5
  <1>24. ASSUME NEW k \in (pos + 1)..len, k - 1 \in R PROVE k \in R
    <2>1. k \in 1..len /\ k \in (pos + 1)..Len(t) /\ k - 1 \in pos..Len(t) /\ k - 1 \in 0..Len(t) /\ k \in (0 + 1)..Len(t)
      BY <1>2, <1>6
    <2>2. PICK a : a = g[k - 1]
      OBVIOUS
    <2>3. PICK b : b = h[k - 1]
      OBVIOUS
    <2>4. PICK v : v = g[k]
      OBVIOUS
    <2>5. PICK w : w = h[k]
      OBVIOUS
    <2>7. PICK ch \in 97..122 : ch = t[k]
      BY <1>c, <2>1
    <2>8. TakenGood(a) /\ v = AddNext(a, ch)
      BY <1>11, <2>1, <2>2, <2>4, <2>7 DEF TakenNext
    <2>9. TakenGood(b) /\ w = AddNext(b, ch)
      BY <1>17, <2>1, <2>3, <2>5, <2>7 DEF TakenNext
    <2>10. b.ok = a.ok
      BY <1>24, <2>2, <2>3
    <2>13. TakenGood(a) /\ v = AddNext(a, ch) /\ TakenGood(b) /\ w = AddNext(b, ch) /\ TakenLike(a, b)
      BY <1>24, <2>2, <2>3, <2>8, <2>9, <2>10 DEF TakenLike
    <2>14. TakenLike(v, w)
      BY ONLY <2>13, AddNextLike
    <2>11. w.ok = v.ok /\ Like(v.d, w.d)
      BY <2>14 DEF TakenLike
    <2>12. k \in Nat
      BY <2>1
    <2> QED
      BY <2>4, <2>5, <2>11, <2>12
  <1>25. Like(x, y)
    <2> HIDE DEF R
    <2>1. \A k \in pos..len : k \in R
      BY <1>6, <1>23, <1>24, UpFrom
    <2>2. len \in R
      BY <1>6, <2>1
    <2> QED
      BY <1>12, <1>18, <2>2 DEF R
  <1>26. PICK j \in 0..len : (\A k \in 0..j : h[k].ok) /\ h[len].d = h[j].d
    <2>1. (\A k \in 0..len : TakenGood(h[k])) /\ \A k \in 1..len : TakenNext(h[k - 1], t[k], h[k])
      BY <1>2, <1>17
    <2> QED
      BY <1>19, <2>1, Stops
  <1>27. j \in Nat /\ Chain(h, t, j)
    <2>1. (\A k \in 0..j : k \in 0..len) /\ \A k \in 1..j : k \in 1..len
      BY <1>2
    <2>2. (\A k \in 0..j : TakenGood(h[k])) /\ \A k \in 1..j : TakenNext(h[k - 1], t[k], h[k])
      BY <1>2, <1>17, <2>1
    <2> QED
      BY <1>15, <1>19, <1>26, <2>2 DEF Chain
  <1>28. Chain(h, y.pys, j) /\ Good(y) /\ Decoded(y) = j
    BY <1>18, <1>26, <1>27, ChainLetters
  <1>29. Regrown(y)
    <2>1. Like(h[j].d, y)
      BY <1>18, <1>26 DEF Like
    <2> QED
      BY <1>28, <2>1 DEF Regrown
  <1>30. Regrown(x)
    BY <1>25, <1>29, LikeIs, RegrownLike
  <1>31. CacheKept(z, y)
    <2>1. j \in 0..j /\ 0 \in 0..j
      BY <1>27
    <2>2. Within(h[0].d, h[j].d)
      BY <1>27, <2>1, ChainIs
    <2> QED
      BY <1>15, <1>18, <1>19, <1>26, <2>2 DEF Within, CacheKept
  <1> QED
    BY <1>25, <1>30, <1>31

(***************************************************************************)
(* What is read off alike decoders.                                        *)
(***************************************************************************)
PathIn(pys, rows) ==
  LET path[r \in 0..Len(pys)] ==
        [k \in DOMAIN rows[r + 1].nodes |->
           LET node == rows[r + 1].nodes[k]
           IN  IF r = 0 THEN <<>> ELSE Append(path[node.from[1]][node.from[2]], node)]
  IN  IF pys = <<>> \/ rows[Len(pys) + 1].nodes = <<>> THEN <<>> ELSE path[Len(pys)][1]
SegmentsOf(dmis, path) == FlattenSeq([k \in DOMAIN path |-> Spelt(dmis, path[k])])
SentenceOf(path, max) ==
  LET words == [k \in DOMAIN path |-> LemmaStr[path[k].id]]
      str   == FlattenSeq(words)
  IN  IF Len(str) > max \/ \E k \in DOMAIN words : words[k] = <<>> THEN <<>> ELSE str
ListOf(spl, path) ==
  LET max == IF Len(spl) < kMaxLemmaSize THEN Len(spl) ELSE kMaxLemmaSize
  IN  InOrder(Collect(spl, max, SentenceOf(path, kMaxLemmaSize)), max)

LEMMA PathIs ==
  ASSUME NEW d
  PROVE  BestPath(d) = PathIn(d.pys, d.rows)
  BY DEF BestPath, PathIn, Dead, Decoded, Row

LEMMA ReadIs ==
  ASSUME NEW d, NEW path, path = BestPath(d)
  PROVE  /\ Segments(d) = SegmentsOf(d.dmis, path)
         /\ PrepareCandidates(d) = [d EXCEPT !.lpis = ListOf(d.spl, path)]
  <1>1. Segments(d) = SegmentsOf(d.dmis, path)
    BY DEF Segments, SegmentsOf
  <1>2. Sentence(d, kMaxLemmaSize) = SentenceOf(path, kMaxLemmaSize)
    BY DEF Sentence, SentenceOf
  <1>3. PICK sent : sent = Sentence(d, kMaxLemmaSize)
    OBVIOUS
  <1>4. PrepareCandidates(d) = [d EXCEPT !.lpis = ListOf(d.spl, path)]
    BY <1>2 DEF PrepareCandidates, ListOf
  <1> QED
    BY <1>1, <1>4

SegLike(d, e) == Like(d, e) /\ e.spl = d.spl /\ e.start = d.start

LEMMA SegmentsLike ==
  ASSUME NEW d, Good(d), NEW e, Good(e), Like(d, e), NEW f, f = GetSplStartId(d), NEW g, g = GetSplStartId(e)
  PROVE  SegLike(f, g) /\ Like(d, f)
  <1>1. PICK p : p = BestPath(d)
    OBVIOUS
  <1>2. BestPath(e) = p /\ e.dmis = d.dmis
    BY <1>1, PathIs DEF Like
  <1>3. PICK segs : segs = Segments(d)
    OBVIOUS
  <1>4. Segments(e) = segs
    BY <1>1, <1>2, <1>3, ReadIs
  <1>5. f = SetSegments(d, segs) /\ g = SetSegments(e, segs)
    BY <1>3, <1>4 DEF GetSplStartId
  <1>6. PICK spl : spl = [k \in DOMAIN segs |-> segs[k].spl]
    OBVIOUS
  <1>7. PICK start : start = <<0>> \o [k \in DOMAIN segs |-> segs[k].end]
    OBVIOUS
  <1>8. f = [d EXCEPT !.spl = spl, !.start = start] /\ g = [e EXCEPT !.spl = spl, !.start = start]
    BY <1>5, <1>6, <1>7 DEF SetSegments
  <1>9. Shape(d) /\ Shape(e)
    BY DEF Good, Typed
  <1>10. /\ f.spl = spl /\ f.start = start /\ f.pys = d.pys /\ f.rows = d.rows /\ f.dmis = d.dmis
         /\ f.handles = d.handles /\ f.dict = d.dict
    BY <1>8, <1>9 DEF Shape, Fields
  <1>11. /\ g.spl = spl /\ g.start = start /\ g.pys = e.pys /\ g.rows = e.rows /\ g.dmis = e.dmis
         /\ g.handles = e.handles /\ g.dict = e.dict
    BY <1>8, <1>9 DEF Shape, Fields
  <1>12. Like(d, f) /\ Like(e, g)
    BY <1>10, <1>11 DEF Like, Standing
  <1>13. Like(f, g)
    BY <1>12, LikeIs, LikeOn
  <1> QED
    BY <1>10, <1>11, <1>12, <1>13 DEF SegLike

LEMMA PreparedLike ==
  ASSUME NEW d, Good(d), NEW e, Good(e), SegLike(d, e),
         NEW f, f = PrepareCandidates(d), NEW g, g = PrepareCandidates(e)
  PROVE  SegLike(f, g) /\ g.lpis = f.lpis /\ Like(d, f)
  <1>1. PICK p : p = BestPath(d)
    OBVIOUS
  <1>2. BestPath(e) = p /\ e.spl = d.spl
    BY <1>1, PathIs DEF SegLike, Like
  <1>3. PICK list : list = ListOf(d.spl, p)
    OBVIOUS
  <1>4. f = [d EXCEPT !.lpis = list] /\ g = [e EXCEPT !.lpis = list]
    BY <1>1, <1>2, <1>3, ReadIs
  <1>5. Shape(d) /\ Shape(e)
    BY DEF Good, Typed
  <1>6. /\ f.spl = d.spl /\ f.start = d.start /\ f.pys = d.pys /\ f.rows = d.rows /\ f.dmis = d.dmis
        /\ f.handles = d.handles /\ f.dict = d.dict /\ f.lpis = list
    BY <1>4, <1>5 DEF Shape, Fields
  <1>7. /\ g.spl = e.spl /\ g.start = e.start /\ g.pys = e.pys /\ g.rows = e.rows /\ g.dmis = e.dmis
        /\ g.handles = e.handles /\ g.dict = e.dict /\ g.lpis = list
    BY <1>4, <1>5 DEF Shape, Fields
  <1>8. Like(d, f) /\ Like(e, g) /\ Like(d, e)
    BY <1>6, <1>7 DEF Like, Standing, SegLike
  <1>9. Like(f, g)
    BY <1>8, LikeIs, LikeOn
  <1> QED
    BY <1>6, <1>7, <1>8, <1>9 DEF SegLike

LEMMA CutToLike ==
  ASSUME NEW d, Good(d), Regrown(d), NEW e, Good(e), SegLike(d, e), NEW len \in Nat,
         NEW f, f = CutTo(d, len), NEW g, g = CutTo(e, len)
  PROVE  SegLike(f, g) /\ Regrown(f)
  <1>1. e.spl = d.spl /\ Like(d, e) /\ Decoded(e) = Decoded(d) /\ Decoded(d) \in Nat
    BY LikeIs, SizesAre DEF SegLike
  <1>2. CASE Len(d.spl) <= kMaxSpellings
    BY <1>1, <1>2 DEF CutTo
  <1>3. CASE ~(Len(d.spl) <= kMaxSpellings)
    <2>1. PICK b : b = ResetSearch(d, len)
      OBVIOUS
    <2>2. PICK c : c = ResetSearch(e, len)
      OBVIOUS
    <2>3. f = GetSplStartId(b) /\ g = GetSplStartId(c)
      BY <1>1, <1>3, <2>1, <2>2 DEF CutTo
    <2>4. Good(b) /\ Good(c) /\ Like(b, c) /\ Regrown(b)
      <3>1. CASE len > Decoded(d)
        BY <1>1, <2>1, <2>2, <3>1 DEF ResetSearch
      <3>2. CASE ~(len > Decoded(d))
        <4>1. len \in 0..Decoded(d) /\ len \in 0..Decoded(e)
          BY <1>1, <3>2
        <4>2. Good(c)
          BY <2>2, <4>1, ResetSearchIs
        <4>3. Like(b, c)
          BY <1>1, <2>1, <2>2, <4>1, ResetLike
        <4>4. Regrown(b) /\ Good(b)
          BY <2>1, <4>1, RegrownCut
        <4> QED
          BY <4>2, <4>3, <4>4
      <3> QED
        BY <3>1, <3>2
    <2>5. SegLike(f, g) /\ Like(b, f)
      BY <2>3, <2>4, SegmentsLike
    <2> QED
      BY <2>4, <2>5, RegrownLike
  <1> QED
    BY <1>2, <1>3

LEMMA CutSpellingsLike ==
  ASSUME NEW d, Good(d), Regrown(d), NEW e, Good(e), SegLike(d, e), NEW len \in Nat,
         NEW f, f = CutSpellings(d, len), NEW g, g = CutSpellings(e, len)
  PROVE  SegLike(f, g) /\ Regrown(f)
  <1>1. PICK p : /\ p[0] = d /\ \A k \in (0 + 1)..(len) : p[k] = CutTo(p[k - 1], len - k)
                 /\ CutSpellings(d, len) = p[len]
    BY CutLoop
  <1>2. PICK q : /\ q[0] = e /\ \A k \in (0 + 1)..(len) : q[k] = CutTo(q[k - 1], len - k)
                 /\ CutSpellings(e, len) = q[len]
    BY CutLoop
  <1> DEFINE S == {k \in Nat : Good(p[k]) /\ Good(q[k]) /\ SegLike(p[k], q[k]) /\ Regrown(p[k])}
  <1>3. 0 \in S
    BY <1>1, <1>2
  <1>4. ASSUME NEW k \in 1..len, k - 1 \in S PROVE k \in S
    <2>1. PICK v : v = p[k - 1]
      OBVIOUS
    <2>2. PICK w : w = q[k - 1]
      OBVIOUS
    <2>3. Good(v) /\ Good(w) /\ SegLike(v, w) /\ Regrown(v)
      BY <1>4, <2>1, <2>2
    <2>4. PICK x : x = p[k]
      OBVIOUS
    <2>5. PICK y : y = q[k]
      OBVIOUS
    <2>6. PICK l \in Nat : l = len - k
      OBVIOUS
    <2>7. x = CutTo(v, l) /\ y = CutTo(w, l)
      BY <1>1, <1>2, <2>1, <2>2, <2>4, <2>5, <2>6
    <2>8. Good(x) /\ Good(y)
      BY <2>3, <2>7, CutToGood
    <2>9. SegLike(x, y) /\ Regrown(x)
      BY <2>3, <2>7, CutToLike
    <2>10. k \in Nat
      OBVIOUS
    <2> QED
      BY <2>4, <2>5, <2>8, <2>9, <2>10
  <1>5. 0..len \subseteq S
    <2> HIDE DEF S
    <2> QED
      BY <1>3, <1>4, Upwards
  <1>6. len \in S
    <2> HIDE DEF S
    <2> QED
      BY <1>5
  <1> QED
    BY <1>1, <1>2, <1>6

(***************************************************************************)
(* A search leaves what it would leave in a decoder just opened.           *)
(***************************************************************************)
LEMMA CacheAlike ==
  ASSUME NEW z, Good(z), NEW x, Good(x), NEW y, Good(y), Like(x, y), CacheKept(z, y), z.cache = x.cache
  PROVE  y.cache = x.cache
  <1>1. PICK c : c = x.cache
    OBVIOUS
  <1>2. PICK e : e = y.cache
    OBVIOUS
  <1>3. c \in [HalfIds -> Seq(ItemSet)] /\ e \in [HalfIds -> Seq(ItemSet)]
    BY <1>1, <1>2 DEF Good, Typed
  <1>4. ASSUME NEW h \in HalfIds PROVE e[h] = c[h]
    <2>1. CASE e[h] # c[h]
      <3>1. PICK k \in 1..Len(y.dmis) : y.dmis[k].fr = 0 /\ y.dmis[k].spl = h
        BY <1>1, <1>2, <2>1 DEF CacheKept
      <3>2. IsHalfId(h)
        BY IdsAre DEF Ids
      <3>3. y.dmis \in Seq(MatchSet)
        BY SizesAre
      <3>4. k \in DOMAIN y.dmis /\ x.dmis = y.dmis
        BY <3>3 DEF Like
      <3>5. e[h] # <<>> /\ c[h] # <<>>
        BY <1>1, <1>2, <3>1, <3>2, <3>4 DEF Good, CacheHas
      <3>6. e[h] = CacheOf(h) /\ c[h] = CacheOf(h)
        BY <1>1, <1>2, <3>5 DEF Good, CacheOk
      <3> QED
        BY <3>6
    <2> QED
      BY <2>1
  <1>5. e = c
    BY <1>3, <1>4
  <1> QED
    BY <1>1, <1>2, <1>5

LEMMA SearchIs ==
  ASSUME NEW d, Good(d), Fits(d), Regrown(d), NEW z, Good(z), Fits(z), Decoded(z) = 0,
         NEW s \in Seq(97..122), NEW x, x = SearchFor(d, s), NEW y, y = SearchFor(z, s)
  PROVE  /\ Good(x) /\ Good(y) /\ SegLike(x, y) /\ y.lpis = x.lpis /\ Regrown(x)
         /\ z.cache = x.cache => y.cache = x.cache
  <1>1. PICK r : r = Resumed(d, s)
    OBVIOUS
  <1>2. PICK q : q = Resumed(z, s)
    OBVIOUS
  <1>3. Good(r) /\ Good(q)
    BY <1>1, <1>2, ResumedGood
  <1>4. Like(r, q) /\ Regrown(r) /\ CacheKept(z, q)
    BY <1>1, <1>2, ResumedLike
  <1>5. PICK f : f = GetSplStartId(r)
    OBVIOUS
  <1>6. PICK g : g = GetSplStartId(q)
    OBVIOUS
  <1>7. SegLike(f, g) /\ Like(r, f)
    BY <1>3, <1>4, <1>5, <1>6, SegmentsLike
  <1>8. Good(f) /\ f.cache = r.cache /\ Good(g) /\ g.cache = q.cache
    BY <1>3, <1>5, <1>6, SegmentsGood
  <1>9. Regrown(f)
    BY <1>4, <1>7, RegrownLike
  <1>10. PICK len \in Nat : len = Len(Taken(s))
    BY TakenIs
  <1>11. PICK b : b = CutSpellings(f, len)
    OBVIOUS
  <1>12. PICK c : c = CutSpellings(g, len)
    OBVIOUS
  <1>13. SegLike(b, c) /\ Regrown(b)
    BY <1>7, <1>8, <1>9, <1>11, <1>12, CutSpellingsLike
  <1>14. Good(b) /\ b.cache = f.cache /\ Good(c) /\ c.cache = g.cache
    BY <1>8, <1>11, <1>12, CutSpellingsGood
  <1>15. x = PrepareCandidates(b) /\ y = PrepareCandidates(c)
    BY <1>1, <1>2, <1>5, <1>6, <1>10, <1>11, <1>12 DEF SearchFor
  <1>16. Good(x) /\ x.cache = b.cache /\ Good(y) /\ y.cache = c.cache
    BY <1>14, <1>15, PreparedGood
  <1>17. SegLike(x, y) /\ y.lpis = x.lpis /\ Like(b, x)
    BY <1>13, <1>14, <1>15, PreparedLike
  <1>18. Regrown(x)
    BY <1>13, <1>17, RegrownLike
  <1>19. x.cache = r.cache /\ y.cache = q.cache
    BY <1>8, <1>14, <1>16
  <1>20. ASSUME z.cache = x.cache PROVE y.cache = x.cache
    <2>1. z.cache = r.cache
      BY <1>19, <1>20
    <2>2. q.cache = r.cache
      BY <1>3, <1>4, <2>1, CacheAlike
    <2> QED
      BY <1>19, <2>2
  <1> QED
    BY <1>16, <1>17, <1>18, <1>20

(* SearchedAnew of a decoder d and the string s.                           *)
SameSearch(d, fresh) ==
  /\ d = [fresh EXCEPT !.cleared = d.cleared, !.dict = d.dict, !.handles = d.handles]
  /\ \A k \in DOMAIN d.dmis : Standing(d, k) = Standing(fresh, k)

LEMMA SameIs ==
  ASSUME NEW x, Good(x), NEW y, Good(y), SegLike(x, y), y.lpis = x.lpis, y.cache = x.cache
  PROVE  SameSearch(x, y)
  <1>1. /\ y.pys = x.pys /\ y.rows = x.rows /\ y.dmis = x.dmis /\ y.spl = x.spl /\ y.start = x.start
        /\ \A k \in 1..Len(x.dmis) : Standing(y, k) = Standing(x, k)
    BY DEF SegLike, Like
  <1>2. Shape(x) /\ Shape(y)
    BY DEF Good, Typed
  <1>3. PICK e : e = [y EXCEPT !.cleared = x.cleared, !.dict = x.dict, !.handles = x.handles]
    OBVIOUS
  <1>4. /\ Shape(e) /\ e.pys = y.pys /\ e.rows = y.rows /\ e.dmis = y.dmis /\ e.handles = x.handles
        /\ e.dict = x.dict /\ e.lpis = y.lpis /\ e.cache = y.cache /\ e.cleared = x.cleared
        /\ e.spl = y.spl /\ e.start = y.start
    BY <1>2, <1>3 DEF Shape, Fields
  <1>5. \A i \in Fields : e[i] = x[i]
    BY <1>1, <1>4 DEF Fields
  <1>6. e = x
    BY <1>2, <1>4, <1>5 DEF Shape
  <1>7. DOMAIN x.dmis = 1..Len(x.dmis)
    <2>1. x.dmis \in Seq(MatchSet)
      BY SizesAre
    <2> QED
      BY <2>1
  <1> QED
    BY <1>1, <1>3, <1>6, <1>7 DEF SameSearch

(* Nothing searched, in a decoder just opened, leaves it as it was.        *)
LEMMA CollectedNothing ==
  ASSUME NEW sent
  PROVE  Collect(<<>>, 0, sent) = <<>>
  <1>1. PICK f : CollectedBy(f, <<>>, 0, sent)
    BY CollectLoop
  <1> QED
    BY <1>1 DEF CollectedBy

LEMMA FlattenNothing ==
  FlattenSeq(<<>>) = <<>>
  BY DEF FlattenSeq

LEMMA SearchNothing ==
  SearchFor(Closed, <<>>) = Closed
  <1>1. PICK d : d = Closed
    OBVIOUS
  <1>2. /\ Shape(d) /\ d.pys = <<>> /\ d.rows = <<Row0>> /\ d.dmis = <<>> /\ d.handles = <<>>
        /\ d.dict = EmptyDict /\ d.lpis = <<>> /\ d.spl = <<>> /\ d.start = <<0>>
    BY <1>1 DEF Closed, Shape, Fields
  <1>3. Decoded(d) = 0 /\ Row(d, 0) = Row0 /\ DmiEnd(Row(d, 0)) = 0
    BY <1>2 DEF Decoded, Row, Row0, DmiEnd
  <1>4. CommonPrefix(d.pys, <<>>) = 0
    <2>1. <<>> \in Seq(97..122)
      OBVIOUS
    <2>2. CommonPrefix(d.pys, <<>>) \in 0..Len(d.pys)
      BY <1>2, <2>1, PrefixIs
    <2> QED
      BY <1>2, <2>2
  <1>5. ResetSearch(d, 0) = d
    <2>1. ResetDict(d, 0) = EmptyDict
      BY DEF ResetDict
    <2>2. ResetSearch(d, 0) =
            [d EXCEPT !.pys = SubSeq(@, 1, 0), !.rows = SubSeq(@, 1, 0 + 1),
                      !.dmis = SubSeq(@, 1, DmiEnd(Row(d, 0))), !.handles = SubSeq(@, 1, DmiEnd(Row(d, 0))),
                      !.dict = ResetDict(d, 0)]
      BY <1>3 DEF ResetSearch, ResetDict
    <2>3. /\ SubSeq(d.pys, 1, 0) = d.pys /\ SubSeq(d.rows, 1, 0 + 1) = d.rows
          /\ SubSeq(d.dmis, 1, DmiEnd(Row(d, 0))) = d.dmis
          /\ SubSeq(d.handles, 1, DmiEnd(Row(d, 0))) = d.handles
      <3>1. SubSeq(<<Row0>>, 1, 0 + 1) = <<Row0>>
        <4>1. PICK T : T = {Row0}
          OBVIOUS
        <4>2. PICK s \in Seq(T) : s = <<Row0>>
          <5>1. PICK r \in T : r = Row0
            BY <4>1
          <5>2. <<r>> \in Seq(T)
            OBVIOUS
          <5> QED
            BY <5>1, <5>2
        <4>3. Len(s) = 1
          BY <4>2
        <4>4. SubSeq(s, 1, 1) = s
          BY <4>3
        <4> QED
          BY <4>2, <4>4
      <3>2. SubSeq(<<>>, 1, 0) = <<>>
        OBVIOUS
      <3> QED
        BY <1>2, <1>3, <3>1, <3>2
    <2>4. PICK e : e = ResetSearch(d, 0)
      OBVIOUS
    <2>5. /\ Shape(e) /\ e.pys = d.pys /\ e.rows = d.rows /\ e.dmis = d.dmis /\ e.handles = d.handles
          /\ e.dict = d.dict /\ e.lpis = d.lpis /\ e.cache = d.cache /\ e.cleared = d.cleared
          /\ e.spl = d.spl /\ e.start = d.start
      BY <1>2, <2>1, <2>2, <2>3, <2>4 DEF Shape, Fields
    <2>6. \A i \in Fields : e[i] = d[i]
      BY <2>5 DEF Fields
    <2>7. e = d
      BY <1>2, <2>5, <2>6 DEF Shape
    <2> QED
      BY <2>4, <2>7
  <1>6. Taken(<<>>) = <<>>
    <2>1. <<>> \in Seq(97..122)
      OBVIOUS
    <2>2. PICK t \in Seq(97..122) : t = Taken(<<>>)
      BY <2>1, TakenIs
    <2>3. Len(t) = (IF Len(<<>>) < kMaxRowNum - 1 THEN Len(<<>>) ELSE kMaxRowNum - 1)
      BY <2>1, <2>2, TakenIs
    <2>4. Len(t) = 0
      <3>1. Len(<<>>) = 0
        OBVIOUS
      <3> QED
        BY <2>3, <3>1, Sizes
    <2> QED
      BY <2>2, <2>4
  <1>7. AddChars(d, <<>>, 0) = d
    <2>1. 0 \in Nat /\ 0 <= 0 /\ 0 = Len(<<>>)
      OBVIOUS
    <2>2. PICK f : AddedBy(f, d, <<>>, 0, 0)
      BY <2>1, AddCharsLoop
    <2>3. AddedChars(d, <<>>, 0) = Start(d)
      BY <2>2 DEF AddedBy
    <2>4. AddChars(d, <<>>, 0) = AddedChars(d, <<>>, 0).d
      BY DEF AddChars, AddedChars, Start
    <2> QED
      BY <2>3, <2>4 DEF Start
  <1>8. Resumed(d, <<>>) = d
    BY <1>4, <1>5, <1>6, <1>7 DEF Resumed
  <1>9. BestPath(d) = <<>>
    BY <1>2 DEF BestPath, Dead
  <1>10. GetSplStartId(d) = d
    <2>1. Segments(d) = <<>>
      <3>1. [k \in DOMAIN <<>> |-> Spelt(d.dmis, <<>>[k])] = <<>>
        OBVIOUS
      <3>2. SegmentsOf(d.dmis, <<>>) = FlattenSeq(<<>>)
        BY <3>1 DEF SegmentsOf
      <3> QED
        BY <1>9, <3>2, ReadIs, FlattenNothing
    <2>2. [k \in DOMAIN <<>> |-> <<>>[k].spl] = <<>> /\ [k \in DOMAIN <<>> |-> <<>>[k].end] = <<>>
      OBVIOUS
    <2>3. GetSplStartId(d) = [d EXCEPT !.spl = <<>>, !.start = <<0>> \o <<>>]
      BY <2>1, <2>2 DEF GetSplStartId, SetSegments
    <2>4. <<0>> \o <<>> = <<0>>
      OBVIOUS
    <2> QED
      BY <1>2, <2>3, <2>4 DEF Shape
  <1>11. CutSpellings(d, 0) = d
    BY CutLoop
  <1>12. PrepareCandidates(d) = d
    <2>1. PICK sent : sent = SentenceOf(<<>>, kMaxLemmaSize)
      OBVIOUS
    <2>2. (IF Len(<<>>) < kMaxLemmaSize THEN Len(<<>>) ELSE kMaxLemmaSize) = 0
      <3>1. Len(<<>>) = 0
        OBVIOUS
      <3> QED
        BY <3>1 DEF kMaxLemmaSize
    <2>3. ListOf(<<>>, <<>>) = InOrder(Collect(<<>>, 0, sent), 0)
      BY <2>1, <2>2 DEF ListOf
    <2>4. Collect(<<>>, 0, sent) = <<>>
      BY CollectedNothing
    <2>5. InOrder(<<>>, 0) = <<>>
      BY DEF InOrder, Sorted
    <2>6. PrepareCandidates(d) = [d EXCEPT !.lpis = <<>>]
      BY <1>2, <1>9, <2>3, <2>4, <2>5, ReadIs
    <2> QED
      BY <1>2, <2>6 DEF Shape
  <1> QED
    BY <1>1, <1>6, <1>8, <1>10, <1>11, <1>12 DEF SearchFor

LEMMA ClosedIs ==
  /\ Good(Closed) /\ Fits(Closed) /\ Decoded(Closed) = 0
  /\ Opened(Closed.cache) = Closed /\ Regrown(Closed)
  <1>1. PICK cache : cache = [h \in HalfIds |-> <<>>]
    OBVIOUS
  <1>2. cache \in [HalfIds -> Seq(ItemSet)] /\ \A h \in HalfIds : cache[h] = <<>> \/ cache[h] = CacheOf(h)
    BY <1>1
  <1>3. Closed.cache = cache /\ Shape(Closed)
    BY <1>1 DEF Closed, Shape, Fields
  <1>4. [Closed EXCEPT !.cache = cache] = Closed
    BY <1>3 DEF Shape
  <1>5. Opened(cache) = Closed
    BY <1>4 DEF Opened
  <1>6. Good(Closed) /\ Fits(Closed) /\ Decoded(Closed) = 0
    BY <1>2, <1>5, OpenedGood
  <1>7. Regrown(Closed)
    <2>1. PICK f : f = [k \in 0..0 |-> Start(Closed)]
      OBVIOUS
    <2>2. f[0] = Start(Closed) /\ Start(Closed).d = Closed /\ Start(Closed).ok = TRUE
      BY <2>1 DEF Start
    <2>3. TakenGood(f[0])
      BY <1>6, <2>2 DEF TakenGood, Start
    <2>4. f[0].d = Closed /\ f[0].ok
      BY <2>2
    <2>5. \A k \in 0..0 : k = 0
      OBVIOUS
    <2>6. Chain(f, Closed.pys, 0)
      BY <1>6, <2>3, <2>4, <2>5 DEF Chain
    <2>7. Like(f[0].d, Closed)
      BY <2>4 DEF Like
    <2> QED
      BY <1>6, <2>6, <2>7 DEF Regrown
  <1> QED
    BY <1>3, <1>5, <1>6, <1>7

(* The inductive invariant: the decoder is good, made of its letters one   *)
(* after another, and what the last search would have left anew.           *)
HoldsAnew == Holds /\ Regrown(m) /\ SearchedAnew

LEMMA AnewIs ==
  SearchedAnew <=> SameSearch(m, SearchFor(Opened(m.cache), asked))
  BY DEF SearchedAnew, SameSearch, Opened

(* A search leaves in the decoder, whatever strings were searched before   *)
(* and however much of the last one it kept (search() resumes after the    *)
(* letters shared, matrixsearch.cpp:442-453), the letters, rows, matches,  *)
(* segmentation and candidates that it leaves in one just opened.          *)
THEOREM DecoderSearchedAnew == Spec => []SearchedAnew
  <1>1. Init => HoldsAnew
    <2> SUFFICES ASSUME Init PROVE HoldsAnew
      OBVIOUS
    <2>1. m = Closed /\ asked = <<>>
      BY DEF Init
    <2>2. Holds /\ Regrown(m)
      BY <2>1, ClosedIs DEF Holds
    <2>3. SearchFor(Opened(m.cache), asked) = m
      BY <2>1, ClosedIs, SearchNothing
    <2>4. SegLike(m, m)
      BY DEF SegLike, Like
    <2>5. SameSearch(m, m)
      BY <2>2, <2>4, SameIs DEF Holds
    <2>6. SearchedAnew
      BY <2>3, <2>5, AnewIs
    <2> QED
      BY <2>2, <2>6 DEF HoldsAnew
  <1>2. HoldsAnew /\ [Next]_vars => HoldsAnew'
    <2> SUFFICES ASSUME HoldsAnew, [Next]_vars PROVE HoldsAnew'
      OBVIOUS
    <2>1. ASSUME NEW s \in Queries, Search(s) PROVE HoldsAnew'
      <3>1. s \in Seq(97..122) /\ Good(m) /\ Fits(m) /\ Regrown(m)
        BY QueriesAre DEF HoldsAnew, Holds
      <3>2. PICK d : d = m
        OBVIOUS
      <3>3. PICK x : x = SearchFor(d, s)
        OBVIOUS
      <3>4. m' = x /\ asked' = s
        BY <2>1, <3>2, <3>3 DEF Search
      <3>5. Good(x) /\ Fits(x)
        BY <3>1, <3>2, <3>3, SearchGood
      <3>6. PICK c : c = x.cache
        OBVIOUS
      <3>7. c \in [HalfIds -> Seq(ItemSet)] /\ \A h \in HalfIds : c[h] = <<>> \/ c[h] = CacheOf(h)
        BY <3>5, <3>6 DEF Good, Typed, CacheOk
      <3>8. PICK z : z = Opened(c)
        OBVIOUS
      <3>9. Good(z) /\ Fits(z) /\ Decoded(z) = 0 /\ z.cache = c
        BY <3>7, <3>8, OpenedGood
      <3>10. PICK y : y = SearchFor(z, s)
        OBVIOUS
      <3>11. Good(d) /\ Fits(d) /\ Regrown(d)
        BY <3>1, <3>2
      <3>12. /\ Good(x) /\ Good(y) /\ SegLike(x, y) /\ y.lpis = x.lpis /\ Regrown(x)
             /\ (z.cache = x.cache => y.cache = x.cache)
        BY <3>1, <3>3, <3>9, <3>10, <3>11, SearchIs
      <3>13. y.cache = x.cache
        BY <3>6, <3>9, <3>12
      <3>14. SameSearch(x, y)
        BY <3>12, <3>13, SameIs
      <3>15. y = SearchFor(Opened(x.cache), s)
        BY <3>6, <3>8, <3>10
      <3>16. SameSearch(x, SearchFor(Opened(x.cache), s))
        BY <3>14, <3>15
      <3>17. SearchedAnew' <=> SameSearch(m', SearchFor(Opened(m'.cache), asked'))
        BY DEF SearchedAnew, SameSearch, Opened, Standing
      <3>18. SearchedAnew'
        BY <3>4, <3>16, <3>17
      <3>19. Holds' <=> Good(m') /\ Fits(m')
        BY DEF Holds
      <3>20. Regrown(m)' <=> Regrown(m')
        OBVIOUS
      <3> QED
        BY <3>4, <3>5, <3>12, <3>18, <3>19, <3>20 DEF HoldsAnew
    <2>2. ASSUME UNCHANGED vars PROVE HoldsAnew'
      <3>1. m' = m /\ asked' = asked
        BY <2>2 DEF vars
      <3> QED
        BY <3>1 DEF HoldsAnew, Holds, SearchedAnew, Standing
    <2> QED
      BY <2>1, <2>2 DEF Next
  <1>3. HoldsAnew => SearchedAnew
    BY DEF HoldsAnew
  <1> QED
    BY <1>1, <1>2, <1>3, PTL DEF Spec

(***************************************************************************)
(* What the letters of a row were read as: a match's last spelling is that *)
(* of the letters from a row with nodes on, a row with nodes was cleared.  *)
(***************************************************************************)
LenOf(d, s) == IF s = 0 THEN 0 ELSE d.dmis[s].len
MatchRead(d, r, x) ==
  LET q == r - x.len + LenOf(d, x.fr)
  IN  /\ q \in 0..(r - 1) /\ Row(d, q).nodes # <<>>
      /\ SplidByStr(SubSeq(d.pys, q + 1, r)).id = x.spl
LastRead(d, r) ==
  /\ \A k \in 1..Len(d.dmis) : InRow(d, r, k) => MatchRead(d, r, d.dmis[k])
  /\ Row(d, r).nodes # <<>> => r \in d.cleared

SameLetters(d, e, r) == \A i \in 1..r : SubSeq(e.pys, i, r) = SubSeq(d.pys, i, r)

LEMMA MatchReadKept ==
  ASSUME NEW d, NEW e, NEW r \in Nat \ {0}, NEW k \in Nat \ {0}, NEW x, x = d.dmis[k], x \in MatchSet,
         x.fr < k, RowsSame(d, e, r - 1), MatchesSame(d, e, k),
         SameLetters(d, e, r), MatchRead(d, r, x)
  PROVE  e.dmis[k] = x /\ MatchRead(e, r, x)
  <1>1. e.dmis[k] = x
    BY DEF MatchesSame
  <1>2. x.fr \in Nat /\ x.len \in Nat
    BY DEF MatchSet
  <1>3. LenOf(e, x.fr) = LenOf(d, x.fr)
    <2>1. CASE x.fr = 0
      BY <2>1 DEF LenOf
    <2>2. CASE x.fr # 0
      <3>1. x.fr \in 1..k
        BY <1>2, <2>2
      <3>2. e.dmis[x.fr] = d.dmis[x.fr]
        BY <3>1 DEF MatchesSame
      <3> QED
        BY <2>2, <3>2 DEF LenOf
    <2> QED
      BY <2>1, <2>2
  <1>4. PICK q : q = r - x.len + LenOf(d, x.fr)
    OBVIOUS
  <1>5. q \in 0..(r - 1) /\ Row(d, q).nodes # <<>> /\ SplidByStr(SubSeq(d.pys, q + 1, r)).id = x.spl
    BY <1>4 DEF MatchRead
  <1>6. Row(e, q) = Row(d, q)
    BY <1>5 DEF RowsSame
  <1>7. SubSeq(e.pys, q + 1, r) = SubSeq(d.pys, q + 1, r)
    <2>1. q + 1 \in 1..r
      BY <1>5
    <2> QED
      BY <2>1 DEF SameLetters
  <1> QED
    BY <1>1, <1>3, <1>4, <1>5, <1>6, <1>7 DEF MatchRead

(* The matches of a row.                                                   *)
LEMMA MatchOfRow ==
  ASSUME NEW d, Good(d), NEW r \in 1..Decoded(d), NEW k \in 1..Len(d.dmis), InRow(d, r, k)
  PROVE  /\ k \in Nat \ {0} /\ r \in Nat \ {0} /\ d.dmis[k] \in MatchSet /\ MatchOk(d, r, k)
         /\ d.dmis[k].fr \in Nat /\ d.dmis[k].fr < k /\ k <= DmiEnd(Row(d, r)) /\ k \in DOMAIN d.dmis
  <1>1. Typed(d) /\ RowsOk(d) /\ RowGood(d, r)
    BY DEF Good
  <1>2. Len(d.dmis) \in Nat /\ DOMAIN d.dmis = 1..Len(d.dmis) /\ Decoded(d) \in Nat /\ d.dmis[k] \in MatchSet
    BY <1>1, TypedIs DEF RowsOk
  <1>3. k \in Nat \ {0} /\ k \in DOMAIN d.dmis /\ r \in Nat \ {0}
    BY <1>2
  <1>4. MatchOk(d, r, k)
    BY <1>1, <1>3 DEF RowGood
  <1>5. d.dmis[k].fr \in Nat
    BY <1>2 DEF MatchSet
  <1>6. d.dmis[k].fr < k
    <2>1. PICK f \in Nat : f = d.dmis[k].fr
      BY <1>5
    <2>2. f = 0 \/ f < k
      BY <1>4, <2>1 DEF MatchOk
    <2> QED
      BY <1>3, <2>1, <2>2
  <1>7. k <= DmiEnd(Row(d, r))
    BY DEF InRow
  <1> QED
    BY <1>2, <1>3, <1>4, <1>5, <1>6, <1>7

LEMMA LastReadKept ==
  ASSUME NEW d, Good(d), NEW e, Good(e), NEW r \in 1..Decoded(d), NEW t, t = DmiEnd(Row(d, r)),
         RowsSame(d, e, r), MatchesSame(d, e, t), SameLetters(d, e, r),
         d.cleared \subseteq e.cleared, LastRead(d, r)
  PROVE  LastRead(e, r)
  <1>1. Typed(d) /\ RowsOk(d) /\ Decoded(d) \in Nat /\ Len(d.dmis) \in Nat /\ Len(e.dmis) \in Nat
    BY TypedIs DEF Good, RowsOk
  <1>2. Row(e, r) = Row(d, r)
    BY <1>1 DEF RowsSame
  <1>3. t \in Nat /\ t <= Len(d.dmis)
    <2>1. r \in 0..Decoded(d)
      BY <1>1
    <2> QED
      BY <1>1, <2>1, TypedIs, RowsAre DEF RowsOk
  <1>4. ASSUME NEW k \in 1..Len(e.dmis), InRow(e, r, k) PROVE MatchRead(e, r, e.dmis[k])
    <2>1. InRow(d, r, k) /\ k <= t
      BY <1>2, <1>4 DEF InRow
    <2>2. k \in 1..Len(d.dmis)
      BY <1>1, <1>3, <2>1
    <2>3. PICK x : x = d.dmis[k]
      OBVIOUS
    <2>4. k \in Nat \ {0} /\ r \in Nat \ {0} /\ x \in MatchSet /\ x.fr < k
      BY <2>1, <2>2, <2>3, MatchOfRow
    <2>5. MatchRead(d, r, x)
      BY <2>1, <2>2, <2>3 DEF LastRead
    <2>6. RowsSame(d, e, r - 1)
      BY <2>4 DEF RowsSame
    <2>7. MatchesSame(d, e, k)
      BY <1>3, <2>1, <2>4 DEF MatchesSame
    <2>8. e.dmis[k] = x /\ MatchRead(e, r, x)
      BY <2>3, <2>4, <2>5, <2>6, <2>7, MatchReadKept
    <2> QED
      BY <2>8
  <1> QED
    BY <1>2, <1>4 DEF LastRead

(* Nothing comes of a row without nodes.                                   *)
LEMMA PutFromNone ==
  ASSUME NEW nodes, NEW lpis, NEW n, NEW fr, NEW dmi
  PROVE  PutFrom(nodes, <<>>, lpis, n, fr, dmi) = nodes
  <1>1. Len(<<>>) = 0 /\ Len(<<>>) \in Nat
    OBVIOUS
  <1>2. \E f : f[0] = nodes /\ PutFrom(nodes, <<>>, lpis, n, fr, dmi) = f[Len(<<>>)]
    BY <1>1, PutFromLoop
  <1> QED
    BY <1>1, <1>2

LEMMA ExtendOneRead ==
  ASSUME NEW n \in Nat \ {0}, NEW a, AccGood(a, n), NEW old \in 0..(n - 1),
         NEW s, s = 0 \/ (s \in Nat \ {0} /\ InRow(a.d, old, s)), NEW splid \in Ids,
         Row(a.d, old).nodes # <<>>, SplidByStr(SubSeq(a.d.pys, old + 1, n)).id = splid, LastRead(a.d, n),
         NEW b, b = ExtendOne(a, old, s, splid)
  PROVE  LastRead(b.d, n)
  <1>1. CASE Skipped(a, old, s)
    BY <1>1 DEF ExtendOne
  <1>2. CASE ~Skipped(a, old, s)
    <2>1. PICK d : d = a.d
      OBVIOUS
    <2>2. PICK u : u = Standing(d, s)
      OBVIOUS
    <2>3. PICK e : e = b.d
      OBVIOUS
    <2>4. /\ Extending(d, n, old, s, splid, u) /\ OneEffect(a, d, n, old, u, s, splid, b)
          /\ Moves(a, b, n)
      BY <1>2, <2>1, <2>2, ExtendOneGood
    <2>5. Effect(d, old, u, s, splid, e) /\ Good(d) /\ n = Decoded(d) /\ Good(e) /\ Decoded(e) = n
      BY <2>1, <2>3, <2>4 DEF OneEffect, Extending, Moves, AccGood
    <2>6. Typed(d) /\ RowsOk(d) /\ Len(d.dmis) \in Nat /\ DmiEnd(Row(d, n)) = Len(d.dmis) /\ n \in 1..Decoded(d)
      BY <2>5, TypedIs DEF Good, RowsOk
    <2>7. /\ LastRead(d, n) /\ Row(d, old).nodes # <<>>
          /\ SplidByStr(SubSeq(d.pys, old + 1, n)).id = splid /\ e.pys = d.pys
      BY <2>1, <2>5 DEF Effect
    <2>8. CASE RunsOf(u, s, splid) = <<>>
      <3>1. PICK l \in Nat : l = LevelOf(d, s)
        BY <2>4, SourceIs
      <3>2. s # 0 => u \in Seq(PathsOf(l))
        BY <2>4, <3>1, SourceIs
      <3>3. LpisOf(u, s, splid) = <<>>
        BY <2>8, <3>1, <3>2, FoundIs
      <3>4. e.rows = d.rows /\ e.dmis = d.dmis /\ e.cleared = d.cleared
        BY <2>5, <2>8, <3>3 DEF Effect
      <3>5. LastRead(e, n)
        BY <2>7, <3>4 DEF LastRead, InRow, MatchRead, LenOf, Row
      <3> QED
        BY <2>3, <3>5
    <2>9. CASE RunsOf(u, s, splid) # <<>>
      <3>1. PICK t \in Nat : t = Len(d.dmis)
        BY <2>6
      <3>2. PICK x : x = NewDmi(d, s, splid, n - old)
        OBVIOUS
      <3>3. /\ RowsSame(d, e, n - 1) /\ Len(e.dmis) = t + 1 /\ MatchesSame(d, e, t) /\ e.dmis[t + 1] = x
            /\ Row(e, n) = CountedRow(Row(d, n), NodesPut(d, old, u, s, splid), splid)
        BY <2>4, <2>5, <2>9, <3>1, <3>2, AddedIs
      <3>4. Row(e, n).dmiPos = Row(d, n).dmiPos /\ Row(e, n).nodes = NodesPut(d, old, u, s, splid)
        BY <3>3 DEF CountedRow
      <3>5. FromRow(d, old, s) \in 0..old /\ x.len = n - FromRow(d, old, s) /\ x.fr = s /\ x.spl = splid
        BY <2>4, <3>2, SourceIs, NewMatchIs
      <3>6. ASSUME NEW k \in 1..t, InRow(e, n, k) PROVE MatchRead(e, n, e.dmis[k])
        <4>1. InRow(d, n, k)
          BY <2>6, <3>1, <3>4, <3>6 DEF InRow
        <4>2. PICK y : y = d.dmis[k]
          OBVIOUS
        <4>3. k \in Nat \ {0} /\ y \in MatchSet /\ y.fr < k
          BY <2>5, <2>6, <3>1, <4>1, <4>2, MatchOfRow
        <4>4. MatchRead(d, n, y)
          BY <2>7, <3>1, <4>1, <4>2 DEF LastRead
        <4>5. MatchesSame(d, e, k)
          BY <3>3 DEF MatchesSame
        <4>6. SameLetters(d, e, n)
          BY <2>7 DEF SameLetters
        <4>7. e.dmis[k] = y /\ MatchRead(e, n, y)
          BY <3>3, <4>2, <4>3, <4>4, <4>5, <4>6, MatchReadKept
        <4> QED
          BY <4>7
      <3>7. MatchRead(e, n, x)
        <4>1. LenOf(e, s) = LenOf(d, s)
          <5>1. CASE s = 0
            BY <5>1 DEF LenOf
          <5>2. CASE s # 0
            <6>1. s \in 1..t
              BY <2>4, <3>1, <5>2, SourceIs
            <6> QED
              BY <3>3, <5>2, <6>1 DEF LenOf, MatchesSame
          <5> QED
            BY <5>1, <5>2
        <4>2. FromRow(d, old, s) = old - LenOf(d, s)
          BY DEF FromRow, LenOf
        <4>3. LenOf(d, s) \in Nat
          <5>1. CASE s = 0
            BY <5>1 DEF LenOf
          <5>2. CASE s # 0
            <6>1. d.dmis[s].len \in 1..old
              BY <2>4, <5>2, SourceIs
            <6> QED
              BY <5>2, <6>1 DEF LenOf
          <5> QED
            BY <5>1, <5>2
        <4>4. PICK q : q = n - x.len + LenOf(e, x.fr)
          OBVIOUS
        <4>5. q = old
          BY <3>5, <4>1, <4>2, <4>3, <4>4
        <4>6. Row(e, old) = Row(d, old)
          BY <3>3 DEF RowsSame
        <4>7. q \in 0..(n - 1) /\ Row(e, q).nodes # <<>> /\ SplidByStr(SubSeq(e.pys, q + 1, n)).id = x.spl
          BY <2>7, <3>5, <4>5, <4>6
        <4> QED
          BY <4>4, <4>7 DEF MatchRead
      <3>8. ASSUME Row(e, n).nodes # <<>> PROVE n \in e.cleared
        <4>1. PICK fr : fr = FromRow(d, old, s)
          OBVIOUS
        <4>2. CASE LpisOf(u, s, splid) = <<>> \/ Row(d, fr).nodes = <<>>
          <5>1. e.cleared = d.cleared
            BY <2>5, <4>1, <4>2 DEF Effect
          <5>2. NodesPut(d, old, u, s, splid) = Row(d, n).nodes
            <6>1. CASE LpisOf(u, s, splid) = <<>>
              BY <2>5, <6>1 DEF NodesPut
            <6>2. CASE Row(d, fr).nodes = <<>>
              <7>1. PICK nodes : nodes = Row(d, n).nodes
                OBVIOUS
              <7>2. PICK lpis : lpis = LpisOf(u, s, splid)
                OBVIOUS
              <7>3. PutFrom(nodes, <<>>, lpis, n, fr, Len(d.dmis) + 1) = nodes
                BY PutFromNone
              <7> QED
                BY <2>5, <4>1, <6>2, <7>1, <7>2, <7>3 DEF NodesPut
            <6> QED
              BY <4>2, <6>1, <6>2
          <5> QED
            BY <2>7, <3>4, <3>8, <5>1, <5>2 DEF LastRead
        <4>3. CASE ~(LpisOf(u, s, splid) = <<>> \/ Row(d, fr).nodes = <<>>)
          <5>1. e.cleared = d.cleared \cup {Decoded(d)}
            BY <2>5, <4>1, <4>3 DEF Effect
          <5> QED
            BY <2>5, <5>1
        <4> QED
          BY <4>2, <4>3
      <3>9. \A k \in 1..(t + 1) : k \in 1..t \/ k = t + 1
        OBVIOUS
      <3>10. LastRead(e, n)
        BY <3>3, <3>6, <3>7, <3>8, <3>9 DEF LastRead
      <3> QED
        BY <2>3, <3>10
    <2> QED
      BY <2>8, <2>9
  <1> QED
    BY <1>1, <1>2

(* What the letters after row old are, up to row n.                        *)
ReadAs(d, n, old) == SplidByStr(SubSeq(d.pys, old + 1, n))

LEMMA ExtendRowRead ==
  ASSUME NEW n \in Nat \ {0}, NEW a, AccGood(a, n), NEW old \in 0..(n - 1), NEW splid \in Ids,
         Row(a.d, old).nodes # <<>>, ReadAs(a.d, n, old).id = splid, LastRead(a.d, n),
         NEW b, b = ExtendRow(a, old, splid)
  PROVE  LastRead(b.d, n)
  <1> DEFINE row == Row(a.d, old)
             num == Row(a.d, old).dmiNum
  <1>1. Good(a.d) /\ Decoded(a.d) = n
    BY DEF AccGood
  <1>2. num \in Nat /\ row.dmiPos \in Nat
    <2>1. old \in 0..n
      OBVIOUS
    <2> QED
      BY <1>1, <2>1, TypedIs DEF Good, RowsOk
  <1>n. PICK last \in Nat \ {0} : last = num + 1
    <2> HIDE DEF num
    <2>1. num + 1 \in Nat \ {0}
      BY <1>2
    <2> QED
      BY <2>1
  <1>3. PICK f : /\ f[0] = a
                 /\ \A k \in 1..last : f[k] = ExtendOne(f[k - 1], old, MatchAt(row, k), splid)
                 /\ ExtendRow(a, old, splid) = f[last]
    BY <1>2, <1>n, ExtendRowLoop
  <1> DEFINE S == {k \in Nat : Moves(a, f[k], n) /\ LastRead(f[k].d, n)}
  <1>4. 0 \in S
    BY <1>1, <1>3, KeepsItself DEF Moves
  <1>5. ASSUME NEW k \in 1..last, k - 1 \in S PROVE k \in S
    <2>1. PICK v : v = f[k - 1]
      OBVIOUS
    <2>2. Moves(a, v, n) /\ LastRead(v.d, n)
      BY <1>5, <2>1
    <2>3. AccGood(v, n) /\ Row(v.d, old) = row /\ v.d.pys = a.d.pys
      BY <1>1, <2>2 DEF Moves, Keeps, RowsSame
    <2>4. PICK s : s = MatchAt(row, k)
      OBVIOUS
    <2>5. s = 0 \/ (s \in Nat \ {0} /\ InRow(v.d, old, s))
      BY <1>2, <1>n, <2>3, <2>4, MatchInRow
    <2>6. PICK w : w = f[k]
      OBVIOUS
    <2>7. w = ExtendOne(v, old, s, splid)
      BY <1>3, <2>1, <2>4, <2>6
    <2> HIDE DEF S
    <2>8. Row(v.d, old).nodes # <<>> /\ SplidByStr(SubSeq(v.d.pys, old + 1, n)).id = splid
      BY <2>3 DEF ReadAs
    <2>9. n \in Nat \ {0} /\ old \in 0..(n - 1) /\ splid \in Ids
      OBVIOUS
    <2>10. Moves(v, w, n)
      BY ONLY <2>3, <2>5, <2>7, <2>9, ExtendOneGood
    <2>11. LastRead(w.d, n)
      BY ONLY <2>2, <2>3, <2>5, <2>7, <2>8, <2>9, ExtendOneRead
    <2>12. Moves(a, w, n)
      BY <2>2, <2>10, MovesOn
    <2> QED
      BY <2>6, <2>11, <2>12 DEF S
  <1>6. 0..last \subseteq S
    <2> HIDE DEF S, num
    <2> QED
      BY <1>4, <1>5, Upwards
  <1>7. last \in S
    <2> HIDE DEF S, num
    <2> QED
      BY <1>6
  <1> QED
    BY <1>3, <1>7

LEMMA ExtendByRead ==
  ASSUME NEW n \in Nat \ {0}, NEW a, AccGood(a, n), NEW old \in 0..(n - 1),
         Row(a.d, old).nodes # <<>>, NEW spl, spl = ReadAs(a.d, n, old),
         spl.id \in Ids \cup {0}, spl.pre \in BOOLEAN, LastRead(a.d, n),
         NEW b, b = ExtendBy(a, old, spl)
  PROVE  LastRead(b.d, n) /\ b.matched = (a.matched \/ spl.pre) /\ b.stopped = a.stopped
  <1>1. PICK matched : matched = (a.matched \/ spl.pre)
    OBVIOUS
  <1>2. PICK c : c = [a EXCEPT !.matched = @ \/ spl.pre]
    OBVIOUS
  <1>3. c = [a EXCEPT !.matched = matched]
    BY <1>1, <1>2
  <1>4. /\ AccShape(c) /\ c.d = a.d /\ c.longest = a.longest /\ c.matched = matched
        /\ c.stopped = a.stopped /\ matched \in BOOLEAN
    <2>1. AccShape(a)
      BY DEF AccGood
    <2>2. matched \in BOOLEAN
      BY <1>1
    <2> QED
      BY <1>3, <2>1, <2>2 DEF AccShape
  <1>5. AccGood(c, n)
    BY <1>4 DEF AccGood
  <1>6. b = IF spl.id = 0 THEN c ELSE ExtendRow(c, old, spl.id)
    BY <1>2 DEF ExtendBy
  <1>7. CASE spl.id = 0
    <2>1. b = c
      BY <1>6, <1>7
    <2> QED
      BY <1>1, <1>4, <2>1
  <1>8. CASE spl.id # 0
    <2>1. PICK splid \in Ids : splid = spl.id
      BY <1>8
    <2>2. b = ExtendRow(c, old, splid) /\ Row(c.d, old).nodes # <<>> /\ ReadAs(c.d, n, old).id = splid
      BY <1>4, <1>6, <1>8, <2>1 DEF ReadAs
    <2>3. Moves(c, b, n)
      BY <1>5, <2>2, ExtendRowGood
    <2>4. LastRead(b.d, n)
      BY <1>4, <1>5, <2>2, ExtendRowRead
    <2> QED
      BY <1>1, <1>4, <2>3, <2>4 DEF Moves
  <1> QED
    BY <1>7, <1>8

(* A round of the outer loop: it stops only with a node found, and the     *)
(* letters it looked at are accounted for.                                 *)
LEMMA ExtendBackRead ==
  ASSUME NEW n \in Nat \ {0}, NEW a, AccGood(a, n), NEW ext \in Nat \ {0}, LastRead(a.d, n),
         a.stopped => Row(a.d, n).nodes # <<>>, NEW old \in Int, old = n - ext,
         NEW b, b = ExtendBack(a, ext)
  PROVE  /\ LastRead(b.d, n) /\ (b.stopped => Row(b.d, n).nodes # <<>>) /\ (a.matched => b.matched)
         /\ b.matched => a.matched \/ (old >= 0 /\ Row(a.d, old).nodes # <<>> /\ ReadAs(a.d, n, old).pre)
         /\ Row(b.d, n).nodes = <<>> /\ old >= 0 /\ Row(a.d, old).nodes # <<>> =>
              ReadAs(a.d, n, old).id = 0 /\ (ReadAs(a.d, n, old).pre => b.matched)
  <1>1. /\ AccShape(a) /\ Good(a.d) /\ Decoded(a.d) = n /\ a.stopped \in BOOLEAN /\ a.matched \in BOOLEAN
        /\ (a.longest # 0 => Row(a.d, n).nodes # <<>>)
    BY DEF AccGood
  <1>2. PICK spl : spl = ReadAs(a.d, n, old)
    OBVIOUS
  <1>3. PICK full : full = Row(a.d, old).full
    OBVIOUS
  <1>4. b = CASE a.stopped \/ old < 0 -> a
             [] ~a.stopped /\ old >= 0 /\ ext > 1 /\ a.longest # 0 /\ ~full -> [a EXCEPT !.stopped = TRUE]
             [] OTHER -> IF Row(a.d, old).nodes = <<>> THEN a ELSE ExtendBy(a, old, spl)
    BY <1>1, <1>2, <1>3 DEF ExtendBack, ReadAs
  <1>5. CASE a.stopped \/ old < 0
    <2>1. b = a
      BY <1>4, <1>5
    <2> QED
      BY <1>5, <2>1
  <1>6. CASE ~a.stopped /\ old >= 0 /\ ext > 1 /\ a.longest # 0 /\ ~full
    <2>1. b = [a EXCEPT !.stopped = TRUE]
      BY <1>4, <1>6
    <2>2. b.d = a.d /\ b.matched = a.matched /\ Row(b.d, n).nodes # <<>>
      BY <1>1, <1>6, <2>1 DEF AccShape
    <2> QED
      BY <2>2
  <1>7. CASE ~a.stopped /\ old >= 0 /\ ~(ext > 1 /\ a.longest # 0 /\ ~full)
    <2>1. b = IF Row(a.d, old).nodes = <<>> THEN a ELSE ExtendBy(a, old, spl)
      BY <1>4, <1>7
    <2>2. CASE Row(a.d, old).nodes = <<>>
      BY <2>1, <2>2
    <2>3. CASE Row(a.d, old).nodes # <<>>
      <3>1. old \in 0..(n - 1)
        BY <1>7
      <3>2. spl.id \in Ids \cup {0} /\ spl.pre \in BOOLEAN
        BY <1>1, <1>2, <3>1, SpellingIs DEF ReadAs
      <3>3. b = ExtendBy(a, old, spl)
        BY <2>1, <2>3
      <3>4. LastRead(b.d, n) /\ b.matched = (a.matched \/ spl.pre) /\ b.stopped = a.stopped
        BY <1>2, <2>3, <3>1, <3>2, <3>3, ExtendByRead
      <3>5. /\ Keeps(a.d, b.d)
            /\ (spl.id = 0 /\ b.d = a.d) \/ Row(b.d, n).nodes # <<>>
        BY <2>3, <3>1, <3>2, <3>3, ExtendByGood
      <3> QED
        BY <1>2, <1>7, <2>3, <3>4, <3>5
    <2> QED
      BY <2>2, <2>3
  <1> QED
    BY <1>1, <1>5, <1>6, <1>7

(* The rows add_char_qwerty() extends.                                     *)
Tried(d, n, old) == n - old <= kMaxPinyinSize + 1 /\ Row(d, old).nodes # <<>>

LEMMA AddCharQwertyRead ==
  ASSUME NEW d, Good(d), NEW n \in Nat \ {0}, n = Decoded(d), LastRead(d, n),
         NEW b, b = AddCharQwerty(d)
  PROVE  /\ LastRead(b.d, n)
         /\ b.matched => \E old \in 0..(n - 1) : Tried(d, n, old) /\ ReadAs(d, n, old).pre
         /\ Row(b.d, n).nodes = <<>> =>
              \A old \in 0..(n - 1) : Tried(d, n, old) =>
                ReadAs(d, n, old).id = 0 /\ (ReadAs(d, n, old).pre => b.matched)
  <1> DEFINE last == kMaxPinyinSize + 1
  <1>1. last \in Nat /\ last \in 0..last
    BY Sizes
  <1>2. PICK f : /\ f[0] = Begin(d)
                 /\ \A k \in (0 + 1)..(kMaxPinyinSize + 1) : f[k] = ExtendBack(f[k - 1], kMaxPinyinSize + 1 + 1 - k)
                 /\ AddCharQwerty(d) = f[kMaxPinyinSize + 1]
    BY Sizes, AddCharLoop
  <1> DEFINE Some(a) == \E old \in 0..(n - 1) : Tried(d, n, old) /\ ReadAs(d, n, old).pre
             Looked(a, k) == \A old \in 0..(n - 1) : Tried(d, n, old) /\ n - old > last - k =>
                               ReadAs(d, n, old).id = 0 /\ (ReadAs(d, n, old).pre => a.matched)
             At(a, k) == /\ AccGood(a, n) /\ Keeps(d, a.d) /\ LastRead(a.d, n)
                         /\ a.stopped => Row(a.d, n).nodes # <<>>
                         /\ a.matched => Some(a)
                         /\ Row(a.d, n).nodes = <<>> => Looked(a, k)
             S == {k \in Nat : At(f[k], k)}
  <1>3. 0 \in S
    <2>1. /\ AccGood(Begin(d), n) /\ Begin(d).d = d /\ Begin(d).stopped = FALSE
          /\ Begin(d).matched = FALSE
      BY DEF AccGood, AccShape, Begin
    <2>2. Looked(Begin(d), 0)
      <3>1. \A old \in 0..(n - 1) : Tried(d, n, old) => ~(n - old > last - 0)
        BY <1>1 DEF Tried
      <3> QED
        BY <3>1
    <2> HIDE DEF Looked, Some, last
    <2> QED
      BY <1>2, <2>1, <2>2, KeepsItself
  <1>4. ASSUME NEW k \in 1..last, k - 1 \in S PROVE k \in S
    <2>1. PICK v : v = f[k - 1]
      OBVIOUS
    <2>2. At(v, k - 1)
      BY <1>4, <2>1
    <2>3. PICK ext \in Nat \ {0} : ext = kMaxPinyinSize + 1 + 1 - k
      BY Sizes
    <2>4. f[k] = ExtendBack(v, ext)
      BY <1>2, <2>1, <2>3
    <2>5. PICK w : w = f[k]
      OBVIOUS
    <2>6. PICK old \in Int : old = n - ext
      OBVIOUS
    <2>7. AccGood(w, n) /\ Keeps(v.d, w.d)
      BY <2>2, <2>4, <2>5, ExtendBackGood
    <2>8. Keeps(d, w.d)
      BY <2>2, <2>7, KeepsOn DEF AccGood
    <2>9. /\ LastRead(w.d, n) /\ (w.stopped => Row(w.d, n).nodes # <<>>) /\ (v.matched => w.matched)
          /\ w.matched => v.matched \/ (old >= 0 /\ Row(v.d, old).nodes # <<>> /\ ReadAs(v.d, n, old).pre)
          /\ Row(w.d, n).nodes = <<>> /\ old >= 0 /\ Row(v.d, old).nodes # <<>> =>
               ReadAs(v.d, n, old).id = 0 /\ (ReadAs(v.d, n, old).pre => w.matched)
      <3>1. n \in Nat \ {0} /\ AccGood(v, n) /\ LastRead(v.d, n) /\ (v.stopped => Row(v.d, n).nodes # <<>>)
        BY <2>2
      <3>2. w = ExtendBack(v, ext) /\ old = n - ext /\ old \in Int /\ ext \in Nat \ {0}
        BY <2>4, <2>5, <2>6
      <3> QED
        BY ONLY <3>1, <3>2, ExtendBackRead
    <2>10. v.d.pys = d.pys /\ \A q \in 0..(n - 1) : Row(v.d, q) = Row(d, q) /\ ReadAs(v.d, n, q) = ReadAs(d, n, q)
      BY <2>2 DEF Keeps, RowsSame, ReadAs
    <2>11. old <= n - 1 /\ (old >= 0 => old \in 0..(n - 1))
      BY <2>6
    <2>12. old >= 0 /\ Row(v.d, old).nodes # <<>> => old \in 0..(n - 1) /\ Tried(d, n, old)
      BY <2>3, <2>6, <2>10, <2>11, Sizes DEF Tried
    <2>13. w.matched => Some(w)
      BY <2>2, <2>9, <2>10, <2>11, <2>12
    <2>14. ASSUME Row(w.d, n).nodes = <<>> PROVE Looked(w, k)
      <3>1. Row(v.d, n).nodes = <<>>
        <4>1. Decoded(v.d) = n
          BY <2>2 DEF AccGood
        <4> QED
          BY <2>7, <2>14, <4>1 DEF Keeps
      <3>2. Looked(v, k - 1)
        BY <2>2, <3>1
      <3> SUFFICES ASSUME NEW q \in 0..(n - 1), Tried(d, n, q), n - q > last - k
                   PROVE  ReadAs(d, n, q).id = 0 /\ (ReadAs(d, n, q).pre => w.matched)
        OBVIOUS
      <3>3. CASE q = old
        <4>1. old >= 0 /\ Row(v.d, old).nodes # <<>>
          BY <2>10, <2>11, <3>3 DEF Tried
        <4> QED
          BY <2>9, <2>10, <2>14, <3>3, <4>1
      <3>4. CASE q # old
        <4>1. n - q > last - (k - 1)
          BY <1>1, <2>3, <2>6, <3>4, Sizes
        <4> QED
          BY <2>9, <3>2, <4>1
      <3> QED
        BY <3>3, <3>4
    <2>15. k \in Nat
      BY <1>1
    <2> HIDE DEF Some, Looked
    <2> QED
      BY <2>5, <2>7, <2>8, <2>9, <2>13, <2>14, <2>15
  <1>5. 0..last \subseteq S
    <2> HIDE DEF last, S
    <2> QED
      BY <1>1, <1>3, <1>4, Upwards
  <1>6. At(b, last)
    <2> HIDE DEF At
    <2> QED
      BY <1>1, <1>2, <1>5
  <1>7. ASSUME Row(b.d, n).nodes = <<>>, NEW old \in 0..(n - 1), Tried(d, n, old)
        PROVE  ReadAs(d, n, old).id = 0 /\ (ReadAs(d, n, old).pre => b.matched)
    <2>1. n - old > last - last
      BY <1>1
    <2> QED
      BY <1>6, <1>7, <2>1
  <1> QED
    BY <1>6, <1>7

(* Parts of sequences.                                                     *)
LEMMA SubSubSeq ==
  ASSUME NEW T, NEW p \in Seq(T), NEW o \in Nat, NEW n \in Nat, o <= n, n <= Len(p),
         NEW i \in Nat \ {0}, NEW j \in Nat, j <= n - o, i <= j + 1
  PROVE  SubSeq(SubSeq(p, o + 1, n), i, j) = SubSeq(p, o + i, o + j)
  <1>1. PICK s : s = SubSeq(p, o + 1, n)
    OBVIOUS
  <1>2. s \in Seq(T) /\ Len(s) = n - o /\ \A x \in 1..(n - o) : s[x] = p[o + x]
    BY <1>1
  <1>3. PICK a : a = SubSeq(s, i, j)
    OBVIOUS
  <1>4. a \in Seq(T) /\ Len(a) = j + 1 - i /\ \A x \in 1..(j + 1 - i) : a[x] = s[i + x - 1]
    BY <1>2, <1>3
  <1>5. PICK b : b = SubSeq(p, o + i, o + j)
    OBVIOUS
  <1>6. b \in Seq(T) /\ Len(b) = j + 1 - i /\ \A x \in 1..(j + 1 - i) : b[x] = p[o + i + x - 1]
    BY <1>5
  <1>7. ASSUME NEW x \in 1..(j + 1 - i) PROVE a[x] = b[x]
    <2>1. i + x - 1 \in 1..(n - o) /\ o + (i + x - 1) = o + i + x - 1
      OBVIOUS
    <2> QED
      BY <1>2, <1>4, <1>6, <2>1
  <1>8. a = b
    <2>1. Len(a) = Len(b) /\ \A x \in 1..Len(a) : a[x] = b[x]
      BY <1>4, <1>6, <1>7
    <2> QED
      BY ONLY <1>4, <1>6, <2>1, SeqEqual
  <1> QED
    BY <1>1, <1>3, <1>5, <1>8

LEMMA SubSeqSame ==
  ASSUME NEW T, NEW s \in Seq(T), NEW t \in Seq(T), NEW r \in Nat, r <= Len(s), r <= Len(t),
         \A x \in 1..r : s[x] = t[x], NEW i \in Nat \ {0}, i <= r + 1
  PROVE  SubSeq(s, i, r) = SubSeq(t, i, r)
  <1>1. PICK a : a = SubSeq(s, i, r)
    OBVIOUS
  <1>2. a \in Seq(T) /\ Len(a) = r + 1 - i /\ \A x \in 1..(r + 1 - i) : a[x] = s[i + x - 1]
    BY <1>1
  <1>3. PICK b : b = SubSeq(t, i, r)
    OBVIOUS
  <1>4. b \in Seq(T) /\ Len(b) = r + 1 - i /\ \A x \in 1..(r + 1 - i) : b[x] = t[i + x - 1]
    BY <1>3
  <1>5. ASSUME NEW x \in 1..(r + 1 - i) PROVE a[x] = b[x]
    <2>1. i + x - 1 \in 1..r
      OBVIOUS
    <2> QED
      BY <1>2, <1>4, <2>1
  <1>6. a = b
    <2>1. Len(a) = Len(b) /\ \A x \in 1..Len(a) : a[x] = b[x]
      BY <1>2, <1>4, <1>5
    <2> QED
      BY ONLY <1>2, <1>4, <2>1, SeqEqual
  <1> QED
    BY <1>1, <1>3, <1>6

(* A row without nodes ends in the beginning of a spelling that no id      *)
(* stands for; one with a spelling tried from a row with nodes has nodes.  *)
Unfinished == {n \in SplNodes : NodeId[n] = 0}
RowRead(d, r) ==
  /\ LastRead(d, r)
  /\ Row(d, r).nodes = <<>> => \E k \in 1..r : SubSeq(d.pys, k, r) \in Unfinished
  /\ \A old \in 0..(r - 1) : Tried(d, r, old) /\ ReadAs(d, r, old).id # 0 => Row(d, r).nodes # <<>>
AllRead(d) == \A r \in 1..Decoded(d) : RowRead(d, r)

LEMMA RowReadKept ==
  ASSUME NEW d, Good(d), NEW e, Good(e), NEW r \in 1..Decoded(d), NEW t, t = DmiEnd(Row(d, r)),
         RowsSame(d, e, r), MatchesSame(d, e, t), SameLetters(d, e, r),
         d.cleared \subseteq e.cleared, RowRead(d, r)
  PROVE  RowRead(e, r)
  <1>0. r \in Nat \ {0}
    BY TypedIs DEF Good, RowsOk
  <1>1. LastRead(e, r)
    BY LastReadKept DEF RowRead
  <1>2. Row(e, r) = Row(d, r) /\ \A q \in 0..(r - 1) : Row(e, q) = Row(d, q)
    BY <1>0 DEF RowsSame
  <1>3. ASSUME NEW old \in 0..(r - 1) PROVE ReadAs(e, r, old) = ReadAs(d, r, old)
    <2>1. old + 1 \in 1..r
      BY <1>0
    <2> QED
      BY <2>1 DEF ReadAs, SameLetters
  <1>4. Row(e, r).nodes = <<>> => \E k \in 1..r : SubSeq(e.pys, k, r) \in Unfinished
    BY <1>2 DEF RowRead, SameLetters
  <1>5. ASSUME NEW old \in 0..(r - 1), Tried(e, r, old), ReadAs(e, r, old).id # 0 PROVE Row(e, r).nodes # <<>>
    BY <1>2, <1>3, <1>5 DEF RowRead, Tried
  <1> QED
    BY <1>1, <1>4, <1>5 DEF RowRead

(* The row of a letter that add_char() just added.                         *)
LEMMA LengthenedRead ==
  ASSUME NEW d, Good(d), NEW ch \in 97..122, NEW e, e = Lengthened(d, ch), NEW n \in Nat, n = Decoded(d)
  PROVE  LastRead(e, n + 1)
  <1>1. /\ Good(e) /\ Decoded(e) = n + 1 /\ Row(e, n + 1).nodes = <<>> /\ e.dmis = d.dmis
        /\ Follows(d, ch, e)
    BY LengthenedIs
  <1>2. Len(d.dmis) \in Nat /\ DmiEnd(Row(d, n)) = Len(d.dmis)
    BY TypedIs DEF Good, RowsOk
  <1>3. Row(e, n + 1).dmiPos = DmiEnd(Row(e, n))
    <2>1. n + 1 \in 1..Decoded(e) /\ (n + 1) - 1 = n
      BY <1>1
    <2> QED
      BY <1>1, <2>1 DEF Good, RowsOk
  <1>4. Row(e, n) = Row(d, n)
    BY <1>1 DEF Follows, RowsSame
  <1>5. \A k \in 1..Len(e.dmis) : ~InRow(e, n + 1, k)
    BY <1>1, <1>2, <1>3, <1>4 DEF InRow
  <1> QED
    BY <1>1, <1>5 DEF LastRead

(* A letter leaves what the others were read as.                           *)
LEMMA FollowsLetters ==
  ASSUME NEW d, Good(d), NEW e, NEW ch \in 97..122, Follows(d, ch, e), NEW r \in 1..Decoded(d)
  PROVE  SameLetters(d, e, r)
  <1>1. PICK L : L = 97..122
    OBVIOUS
  <1>2. PICK p : p = d.pys
    OBVIOUS
  <1>3. p \in Seq(L) /\ Len(p) = Decoded(d) /\ ch \in L /\ Decoded(d) \in Nat
    BY <1>1, <1>2, TypedIs DEF Good, Typed, Decoded, RowsOk
  <1>4. PICK q : q = Append(p, ch)
    OBVIOUS
  <1>5. q \in Seq(L) /\ Len(q) = Len(p) + 1 /\ \A x \in 1..Len(p) : q[x] = p[x]
    BY ONLY <1>3, <1>4
  <1>6. r \in Nat /\ r <= Len(p) /\ r <= Len(q) /\ \A x \in 1..r : q[x] = p[x]
    BY <1>3, <1>5
  <1>7. ASSUME NEW i \in 1..r PROVE SubSeq(q, i, r) = SubSeq(p, i, r)
    <2>1. i \in Nat \ {0} /\ i <= r + 1
      BY <1>6
    <2> QED
      BY ONLY <1>3, <1>5, <1>6, <2>1, SubSeqSame
  <1> QED
    BY <1>2, <1>4, <1>7 DEF SameLetters, Follows

(* The letters after a row.                                                *)
LettersOf(d, n, old, s) ==
  /\ s \in Seq(97..122) /\ s # <<>> /\ Len(s) = n - old
  /\ \A j \in 1..(n - old) : SubSeq(s, 1, j) = SubSeq(d.pys, old + 1, old + j)
  /\ \A j \in 1..(n - old) : SubSeq(s, j + 1, n - old) = SubSeq(d.pys, old + j + 1, n)
LEMMA LettersAre ==
  ASSUME NEW d, Good(d), NEW n \in Nat, n <= Decoded(d), NEW old \in 0..(n - 1),
         NEW s, s = SubSeq(d.pys, old + 1, n)
  PROVE  LettersOf(d, n, old, s)
  <1>1. PICK L : L = 97..122
    OBVIOUS
  <1>2. PICK p : p = d.pys
    OBVIOUS
  <1>3. p \in Seq(L) /\ Len(p) = Decoded(d)
    BY <1>1, <1>2 DEF Good, Typed, Decoded
  <1>4. s = SubSeq(p, old + 1, n) /\ old \in Nat /\ old < n /\ n <= Len(p)
    BY <1>2, <1>3
  <1>5. s \in Seq(L) /\ Len(s) = n - old
    BY ONLY <1>3, <1>4, n \in Nat
  <1>6. s # <<>>
    <2>1. n - old # 0
      BY <1>4
    <2>2. Len(s) # 0
      BY <1>5, <2>1
    <2> QED
      BY <2>2
  <1>7. ASSUME NEW j \in 1..(n - old) PROVE SubSeq(s, 1, j) = SubSeq(p, old + 1, old + j)
    <2>1. j \in Nat /\ j <= n - old /\ 1 <= j + 1 /\ 1 \in Nat \ {0}
      BY <1>4
    <2> QED
      BY <1>3, <1>4, <2>1, SubSubSeq
  <1>8. ASSUME NEW j \in 1..(n - old) PROVE SubSeq(s, j + 1, n - old) = SubSeq(p, old + j + 1, n)
    <2>1. n - old \in Nat /\ j + 1 \in Nat \ {0} /\ j + 1 <= (n - old) + 1 /\ n - old <= n - old
      BY <1>4
    <2>2. SubSeq(s, j + 1, n - old) = SubSeq(p, old + (j + 1), old + (n - old))
      BY <1>3, <1>4, <2>1, SubSubSeq
    <2>3. old + (j + 1) = old + j + 1 /\ old + (n - old) = n
      BY <1>4
    <2> QED
      BY <2>2, <2>3
  <1> QED
    BY <1>1, <1>2, <1>5, <1>6, <1>7, <1>8 DEF LettersOf

LEMMA EmptyEnds ==
  ASSUME NEW d, Good(d), NEW n \in Nat \ {0}, n = Decoded(d), \A q \in 1..(n - 1) : RowRead(d, q),
         NEW old \in 0..(n - 1), Tried(d, n, old), ReadAs(d, n, old).pre,
         \A o \in 0..(n - 1) : Tried(d, n, o) => ReadAs(d, n, o).id = 0
  PROVE  \E k \in 1..n : SubSeq(d.pys, k, n) \in Unfinished
  <1>1. PICK s : s = SubSeq(d.pys, old + 1, n)
    OBVIOUS
  <1>2. /\ s \in Seq(97..122) /\ s # <<>> /\ Len(s) = n - old
        /\ \A j \in 1..(n - old) : SubSeq(s, 1, j) = SubSeq(d.pys, old + 1, old + j)
        /\ \A j \in 1..(n - old) : SubSeq(s, j + 1, n - old) = SubSeq(d.pys, old + j + 1, n)
    <2>1. n \in Nat /\ n <= Decoded(d)
      OBVIOUS
    <2>2. LettersOf(d, n, old, s)
      BY ONLY <1>1, <2>1, LettersAre, Good(d), old \in 0..(n - 1)
    <2> QED
      BY <2>2 DEF LettersOf
  <1>3. SplidByStr(s).pre /\ SplidByStr(s).id = 0
    BY <1>1 DEF ReadAs
  <1>4. Begins(s)
    BY <1>2, <1>3, BeginsIs
  <1>5. CASE s \in SplNodes
    <2>1. NodeId[s] = 0
      BY <1>3, <1>5, NodeParsed
    <2>2. old + 1 \in 1..n
      OBVIOUS
    <2> QED
      BY <1>1, <1>5, <2>1, <2>2 DEF Unfinished
  <1>6. ASSUME NEW j \in 1..(n - old - 1), Spelling1(s, j), SubSeq(s, j + 1, n - old) \in SplNodes
        PROVE  \E k \in 1..n : SubSeq(d.pys, k, n) \in Unfinished
    <2>1. PICK mid \in 1..(n - 1) : mid = old + j
      OBVIOUS
    <2>2. j \in 1..(n - old) /\ old \in 0..(mid - 1) /\ mid + 1 \in 1..n /\ mid \in 0..(n - 1)
      BY <2>1
    <2>3. ReadAs(d, mid, old).id # 0
      <3>1. PICK t : t = SubSeq(s, 1, j)
        OBVIOUS
      <3>2. t \in SplNodes /\ NodeId[t] # 0
        BY <1>6, <3>1 DEF Spelling1
      <3>3. SplidByStr(t).id # 0
        BY <3>2, NodeParsed
      <3>4. t = SubSeq(d.pys, old + 1, mid)
        BY <1>2, <2>1, <2>2, <3>1
      <3> QED
        BY <3>3, <3>4 DEF ReadAs
    <2>4. Tried(d, mid, old)
      <3>1. mid - old <= kMaxPinyinSize + 1
        BY <2>1, Sizes DEF Tried
      <3> QED
        BY <3>1 DEF Tried
    <2>5. Row(d, mid).nodes # <<>>
      BY <2>2, <2>3, <2>4 DEF RowRead
    <2>6. Tried(d, n, mid)
      <3>1. n - mid <= kMaxPinyinSize + 1
        BY <2>1, Sizes DEF Tried
      <3> QED
        BY <2>5, <3>1 DEF Tried
    <2>7. PICK t : t = SubSeq(s, j + 1, n - old)
      OBVIOUS
    <2>8. t = SubSeq(d.pys, mid + 1, n)
      <3>1. old + j + 1 = mid + 1
        BY <2>1
      <3> QED
        BY <1>2, <2>2, <2>7, <3>1
    <2>9. SplidByStr(t).id = 0 /\ t \in SplNodes
      BY <1>6, <2>2, <2>6, <2>7, <2>8 DEF ReadAs
    <2>10. NodeId[t] = 0
      BY <2>9, NodeParsed
    <2> QED
      BY <2>2, <2>8, <2>9, <2>10 DEF Unfinished
  <1> QED
    BY <1>2, <1>4, <1>5, <1>6 DEF Begins

(* A letter taken is read; the first letter is refused only when no        *)
(* spelling begins with it.                                                *)
LEMMA AddCharRead ==
  ASSUME NEW d, Good(d), Decoded(d) <= kMaxRowNum - 1, AllRead(d), NEW ch \in 97..122,
         NEW r, r = AddChar(d, ch)
  PROVE  /\ r.ok => AllRead(r.d)
         /\ ~r.ok /\ Decoded(d) = 0 => <<ch>> \notin SplNodes
  <1>1. PICK n \in Nat : n = Decoded(d)
    BY TypedIs DEF Good, RowsOk
  <1>2. CASE n >= kMaxRowNum - 1
    <2>1. r = [d |-> d, ok |-> FALSE]
      BY <1>1, <1>2 DEF AddChar
    <2>2. n # 0
      BY <1>2, Sizes
    <2> QED
      BY <1>1, <2>1, <2>2
  <1>3. CASE ~(n >= kMaxRowNum - 1)
    <2>1. PICK e : e = Lengthened(d, ch)
      OBVIOUS
    <2>2. PICK top \in Nat \ {0} : top = n + 1
      OBVIOUS
    <2>3. Good(e) /\ Decoded(e) = top /\ Follows(d, ch, e) /\ Row(e, top).nodes = <<>>
      BY <1>1, <2>1, <2>2, LengthenedIs
    <2>4. LastRead(e, top)
      BY <1>1, <2>1, <2>2, LengthenedRead
    <2>5. PICK a : a = AddCharQwerty(e)
      OBVIOUS
    <2>6. AccGood(a, top) /\ Keeps(e, a.d) /\ (a.d = e \/ Row(a.d, top).nodes # <<>>)
      BY <2>3, <2>5, AddCharQwertyGood
    <2>7. /\ LastRead(a.d, top)
          /\ a.matched => \E old \in 0..(top - 1) : Tried(e, top, old) /\ ReadAs(e, top, old).pre
          /\ Row(a.d, top).nodes = <<>> =>
               \A old \in 0..(top - 1) : Tried(e, top, old) =>
                 ReadAs(e, top, old).id = 0 /\ (ReadAs(e, top, old).pre => a.matched)
      BY <2>3, <2>4, <2>5, AddCharQwertyRead
    <2>8. Good(a.d) /\ Decoded(a.d) = top /\ a.matched \in BOOLEAN
      BY <2>6 DEF AccGood
    <2>9. Follows(d, ch, a.d)
      BY <1>1, <2>2, <2>3, <2>6, <2>8, KeepsFollows
    <2>10. ASSUME NEW f, Good(f), Follows(d, ch, f), NEW q \in 1..n PROVE RowRead(f, q)
      <3>1. q \in 1..Decoded(d) /\ RowRead(d, q)
        BY <1>1 DEF AllRead
      <3>2. SameLetters(d, f, q)
        BY <2>10, <3>1, FollowsLetters
      <3>3. RowsSame(d, f, q)
        BY <1>1, <2>10 DEF Follows, RowsSame
      <3>4. PICK t : t = DmiEnd(Row(d, q))
        OBVIOUS
      <3>5. t \in Nat /\ t <= Len(d.dmis) /\ Len(d.dmis) \in Nat
        <4>1. q \in 0..Decoded(d)
          BY <1>1
        <4> QED
          BY <3>4, <4>1, TypedIs, RowsAre DEF Good, RowsOk
      <3>6. MatchesSame(d, f, t) /\ d.cleared \subseteq f.cleared
        BY <2>10, <3>5 DEF Follows, MatchesSame
      <3> QED
        BY <2>10, <3>1, <3>2, <3>3, <3>4, <3>6, RowReadKept
    <2>11. r = Judged(d, a)
      BY <1>1, <1>3, <2>1, <2>5 DEF AddChar, Lengthened
    <2>12. CASE Row(a.d, top).nodes # <<>> \/ a.matched
      <3>1. r = [d |-> a.d, ok |-> TRUE]
        BY <2>8, <2>11, <2>12 DEF Judged
      <3>2. RowRead(a.d, top)
        <4>1. CASE Row(a.d, top).nodes # <<>>
          BY <2>7, <4>1 DEF RowRead
        <4>2. CASE Row(a.d, top).nodes = <<>>
          <5>1. a.d = e /\ a.matched
            BY <2>6, <2>12, <4>2
          <5>2. PICK old \in 0..(top - 1) : Tried(e, top, old) /\ ReadAs(e, top, old).pre
            BY <2>7, <5>1
          <5>3. \A o \in 0..(top - 1) : Tried(e, top, o) => ReadAs(e, top, o).id = 0
            BY <2>7, <4>2
          <5>4. \A q \in 1..(top - 1) : RowRead(e, q)
            BY <2>2, <2>3, <2>10
          <5>5. \E k \in 1..top : SubSeq(e.pys, k, top) \in Unfinished
            BY <2>3, <5>2, <5>3, <5>4, EmptyEnds
          <5> QED
            BY <2>7, <5>1, <5>3, <5>5 DEF RowRead
        <4> QED
          BY <4>1, <4>2
      <3>3. AllRead(a.d)
        <4>1. \A q \in 1..top : q \in 1..n \/ q = top
          BY <2>2
        <4> QED
          BY <2>8, <2>9, <2>10, <3>2, <4>1 DEF AllRead
      <3> QED
        BY <3>1, <3>3
    <2>13. CASE ~(Row(a.d, top).nodes # <<>> \/ a.matched)
      <3>1. r.ok = FALSE
        BY <2>8, <2>11, <2>13 DEF Judged
      <3>2. ASSUME n = 0 PROVE <<ch>> \notin SplNodes
        <4>1. top = 1 /\ 0 \in 0..(top - 1)
          BY <2>2, <3>2
        <4>2. Row(e, 0) = Row0 /\ Row0.nodes # <<>>
          BY <2>3 DEF Good, RowsOk, Row0
        <4>3. Tried(e, top, 0)
          BY <4>1, <4>2, Sizes DEF Tried
        <4>4. ~ReadAs(e, top, 0).pre
          BY <2>7, <2>13, <4>1, <4>3
        <4>5. SubSeq(e.pys, 0 + 1, top) = <<ch>>
          <5>1. PICK p : p = d.pys
            OBVIOUS
          <5>2. p \in Seq(97..122) /\ Len(p) = 0
            BY <1>1, <3>2, <5>1 DEF Good, Typed, Decoded
          <5>3. e.pys = Append(p, ch)
            BY <2>3, <5>1 DEF Follows
          <5>4. p = <<>>
            BY <5>2
          <5>5. ASSUME NEW x PROVE Append(<<>>, x) = <<x>> /\ SubSeq(<<x>>, 1, 1) = <<x>>
            <6>1. PICK T : T = {x}
              OBVIOUS
            <6>2. <<x>> \in Seq(T) /\ Len(<<x>>) = 1 /\ <<x>>[1] = x
              BY <6>1
            <6>3. SubSeq(<<x>>, 1, 1) = <<x>>
              <7>1. PICK w : w = <<x>>
                OBVIOUS
              <7>2. PICK y : y = SubSeq(w, 1, 1)
                OBVIOUS
              <7>3. w \in Seq(T) /\ Len(w) = 1
                BY <6>2, <7>1
              <7>4. y \in Seq(T) /\ Len(y) = 1 /\ y[1] = w[1]
                BY ONLY <7>2, <7>3
              <7>5. \A i \in 1..1 : w[i] = y[i]
                BY <7>4
              <7>6. w = y
                BY ONLY <7>3, <7>4, <7>5, SeqEqual
              <7> QED
                BY <7>1, <7>2, <7>6
            <6>4. Append(<<>>, x) = <<x>>
              BY ONLY <6>1
            <6> QED
              BY <6>3, <6>4
          <5>6. 0 + 1 = 1
            OBVIOUS
          <5> QED
            BY <4>1, <5>3, <5>4, <5>5, <5>6
        <4> QED
          BY <4>4, <4>5, NodeParsed DEF ReadAs
      <3> QED
        BY <1>1, <3>1, <3>2
    <2> QED
      BY <2>12, <2>13
  <1> QED
    BY <1>2, <1>3

(* What was read of the letters, through the letters of a search.          *)
LEMMA AddNextRead ==
  ASSUME NEW a, TakenGood(a), AllRead(a.d), NEW ch \in 97..122, NEW b, TakenNext(a, ch, b)
  PROVE  /\ AllRead(b.d)
         /\ a.ok /\ ~b.ok /\ Decoded(a.d) = 0 => <<ch>> \notin SplNodes
  <1>1. CASE a.ok
    <2>1. b = AddChar(a.d, ch) /\ Good(a.d) /\ Decoded(a.d) <= kMaxRowNum - 1
      BY <1>1 DEF AddNext, TakenNext, TakenGood, Fits
    <2>2. /\ b.ok => AllRead(b.d)
          /\ ~b.ok /\ Decoded(a.d) = 0 => <<ch>> \notin SplNodes
      BY <2>1, AddCharRead
    <2>3. ~b.ok => b.d = a.d
      BY DEF TakenNext
    <2> QED
      BY <2>2, <2>3
  <1>2. CASE ~a.ok
    <2>1. b = a
      BY <1>2 DEF AddNext, TakenNext
    <2> QED
      BY <1>2, <2>1
  <1> QED
    BY <1>1, <1>2

LEMMA AddCharsRead ==
  ASSUME NEW d, Good(d), Fits(d), AllRead(d), NEW py \in Seq(97..122), NEW pos \in Nat, pos <= Len(py),
         pos = Decoded(d), NEW e, e = AddChars(d, py, pos)
  PROVE  /\ AllRead(e) /\ Decoded(e) <= Len(py)
         /\ Decoded(e) = 0 => py = <<>> \/ <<py[1]>> \notin SplNodes
  <1>1. PICK f : /\ f[pos] = Start(d) /\ e = f[Len(py)].d
                 /\ \A k \in pos..Len(py) : TakenGood(f[k])
                 /\ \A k \in (pos + 1)..Len(py) : TakenNext(f[k - 1], py[k], f[k])
    BY AddCharsIs
  <1>2. PICK n \in Nat : n = Len(py)
    OBVIOUS
  <1>3. ASSUME NEW k \in 1..n PROVE py[k] \in 97..122
    <2>1. PICK L : L = 97..122
      OBVIOUS
    <2>2. py \in Seq(L) /\ k \in 1..Len(py)
      BY <1>2, <2>1
    <2>3. py[k] \in L
      BY ONLY <2>2, ElementOfSeq
    <2> QED
      BY <2>1, <2>3
  <1>4. \A k \in pos..n : Decoded(f[k].d) \in Nat
    BY <1>1, <1>2, TypedIs DEF TakenGood, Good, RowsOk
  <1> DEFINE S == {k \in Nat : AllRead(f[k].d)}
             T == {k \in Nat : Decoded(f[k].d) >= 1}
  <1>5. pos \in S
    BY <1>1 DEF Start
  <1>6. ASSUME NEW k \in (pos + 1)..n, k - 1 \in S
        PROVE  k \in S
    <2>1. PICK v, w, ch : v = f[k - 1] /\ w = f[k] /\ ch = py[k]
      OBVIOUS
    <2>2. AllRead(v.d) /\ k \in Nat /\ k \in 1..n /\ k - 1 \in pos..n
      BY <1>6, <2>1
    <2>3. ch \in 97..122 /\ TakenGood(v) /\ TakenNext(v, ch, w)
      BY <1>1, <1>2, <1>3, <2>1, <2>2
    <2>4. AllRead(w.d)
      BY <2>2, <2>3, AddNextRead
    <2> QED
      BY <2>1, <2>2, <2>4
  <1>7. \A k \in pos..n : k \in S
    <2> HIDE DEF S
    <2> QED
      BY <1>2, <1>5, <1>6, UpFrom
  <1>8. AllRead(e)
    <2>1. n \in S
      BY <1>2, <1>7
    <2> QED
      BY <1>1, <1>2, <2>1
  <1> DEFINE U == {k \in Nat : Decoded(f[k].d) <= k}
  <1>u. pos \in U
    BY <1>1 DEF Start
  <1>v. ASSUME NEW k \in (pos + 1)..n, k - 1 \in U PROVE k \in U
    <2>1. PICK v, w, ch : v = f[k - 1] /\ w = f[k] /\ ch = py[k]
      OBVIOUS
    <2>2. Decoded(v.d) <= k - 1 /\ k \in Nat /\ k - 1 \in pos..n /\ k \in pos..n
      BY <1>v, <2>1
    <2>3. TakenNext(v, ch, w)
      BY <1>1, <1>2, <2>1
    <2>4. Decoded(w.d) = Decoded(v.d) + 1 \/ w.d = v.d
      BY <2>3 DEF TakenNext, TakenGood
    <2>5. Decoded(w.d) <= k
      BY <1>4, <2>1, <2>2, <2>4
    <2> QED
      BY <2>1, <2>2, <2>5
  <1>w. Decoded(e) <= n
    <2>1. n \in U
      <3> HIDE DEF U
      <3>1. \A k \in pos..n : k \in U
        BY <1>2, <1>u, <1>v, UpFrom
      <3> QED
        BY <1>2, <3>1
    <2> QED
      BY <1>1, <1>2, <2>1
  <1>9. ASSUME NEW k \in (pos + 1)..n, k - 1 \in T PROVE k \in T
    <2>1. PICK v, w, ch : v = f[k - 1] /\ w = f[k] /\ ch = py[k]
      OBVIOUS
    <2>2. Decoded(v.d) >= 1 /\ k \in Nat /\ k - 1 \in pos..n /\ k \in pos..n
      BY <1>9, <2>1
    <2>3. TakenNext(v, ch, w)
      BY <1>1, <1>2, <2>1
    <2>4. Decoded(w.d) = Decoded(v.d) + 1 \/ w.d = v.d
      BY <2>3 DEF TakenNext, TakenGood
    <2>5. Decoded(w.d) >= 1
      BY <1>4, <2>1, <2>2, <2>4
    <2> QED
      BY <2>1, <2>2, <2>5
  <1>10. ASSUME Decoded(e) = 0, py # <<>> PROVE <<py[1]>> \notin SplNodes
    <2>1. n \in Nat \ {0} /\ n \notin T
      BY <1>1, <1>2, <1>10
    <2>2. ASSUME NEW j \in pos..n, j \in T PROVE FALSE
      <3>1. \A k \in (j + 1)..n : k - 1 \in T => k \in T
        BY <1>9, <2>2
      <3>2. j \in Nat /\ j <= n
        BY <2>2
      <3>3. \A k \in j..n : k \in T
        <4> HIDE DEF T
        <4> QED
          BY <1>2, <2>2, <3>1, <3>2, UpFrom
      <3> QED
        BY <2>1, <3>2, <3>3
    <2>3. pos = 0
      <3>1. pos \in pos..n
        BY <1>2
      <3>2. f[pos].d = d
        BY <1>1 DEF Start
      <3>3. pos \notin T
        BY <2>2, <3>1
      <3> QED
        BY <3>2, <3>3
    <2>4. PICK v, w, ch : v = f[0] /\ w = f[1] /\ ch = py[1]
      OBVIOUS
    <2>5. 1 \in 1..n /\ 1 \in (pos + 1)..n /\ 1 - 1 = 0 /\ 1 \in pos..n
      BY <2>1, <2>3
    <2>6. ch \in 97..122 /\ TakenNext(v, ch, w)
      BY <1>1, <1>2, <1>3, <2>4, <2>5
    <2>7. v = Start(d)
      BY <1>1, <2>3, <2>4
    <2>8. v.ok /\ v.d = d
      BY <2>7 DEF Start
    <2>9. TakenGood(v)
      BY <1>1, <1>2, <2>3, <2>4, <2>5
    <2>10. ~w.ok
      <3>1. SUFFICES ASSUME w.ok PROVE FALSE
        OBVIOUS
      <3>2. Decoded(w.d) = Decoded(d) + 1
        BY <2>6, <2>8, <3>1 DEF TakenNext
      <3>3. 1 \in T
        BY <2>3, <2>4, <3>2
      <3> QED
        BY <2>2, <2>5, <3>3
    <2> QED
      BY <2>3, <2>4, <2>6, <2>8, <2>9, <2>10, AddNextRead
  <1> QED
    BY <1>2, <1>w, <1>8, <1>10

(* reset_search() leaves what the rows before were read as.                *)
LEMMA CutRead ==
  ASSUME NEW d, Good(d), AllRead(d), NEW pos \in 0..Decoded(d), NEW e, Good(e), CutAt(d, pos, e)
  PROVE  AllRead(e)
  <1>1. SUFFICES ASSUME NEW r \in 1..pos PROVE RowRead(e, r)
    BY DEF CutAt, AllRead
  <1>2. Decoded(d) \in Nat /\ pos \in Nat /\ r \in 1..Decoded(d) /\ r \in 0..Decoded(d)
    BY TypedIs DEF Good, RowsOk
  <1>3. PICK t : t = DmiEnd(Row(d, r))
    OBVIOUS
  <1>4. PICK top : top = DmiEnd(Row(d, pos))
    OBVIOUS
  <1>5. t \in Nat /\ top \in Nat /\ t <= top
    <2>1. t \in Nat /\ top \in Nat
      BY <1>2, <1>3, <1>4, TypedIs DEF Good, RowsOk
    <2>2. CASE r = pos
      BY <1>3, <1>4, <2>1, <2>2
    <2>3. CASE r < pos
      <3>1. t <= Row(d, pos).dmiPos
        BY <1>2, <1>3, <2>3 DEF Good, RowsOk
      <3>2. Row(d, pos).dmiPos \in Nat /\ Row(d, pos).dmiNum \in Nat
        BY <1>2, TypedIs DEF Good, RowsOk
      <3>3. top = Row(d, pos).dmiPos + Row(d, pos).dmiNum
        BY <1>4 DEF DmiEnd
      <3> QED
        BY <2>1, <3>1, <3>2, <3>3
    <2> QED
      BY <1>2, <2>1, <2>2, <2>3
  <1>6. RowsSame(d, e, r)
    BY <1>2 DEF CutAt, RowsSame
  <1>7. MatchesSame(d, e, t)
    BY <1>4, <1>5 DEF CutAt, MatchesSame
  <1>8. SameLetters(d, e, r)
    <2>1. PICK L : L = 97..122
      OBVIOUS
    <2>2. PICK p : p = d.pys
      OBVIOUS
    <2>3. PICK q : q = e.pys
      OBVIOUS
    <2>4. p \in Seq(L) /\ Len(p) = Decoded(d)
      BY <2>1, <2>2 DEF Good, Typed, Decoded
    <2>5. q \in Seq(L) /\ Len(q) = pos
      BY <2>1, <2>3 DEF Good, Typed, Decoded, CutAt
    <2>6. q = SubSeq(p, 1, pos)
      BY <2>2, <2>3 DEF CutAt
    <2>7. \A x \in 1..pos : q[x] = p[x]
      <3>1. pos \in Nat /\ pos <= Len(p)
        BY <1>2, <2>4
      <3> QED
        BY ONLY <2>4, <2>6, <3>1
    <2>8. r \in Nat /\ r <= Len(p) /\ r <= Len(q) /\ \A x \in 1..r : q[x] = p[x]
      BY <1>2, <2>4, <2>5, <2>7
    <2>9. ASSUME NEW i \in 1..r PROVE SubSeq(q, i, r) = SubSeq(p, i, r)
      <3>1. i \in Nat \ {0} /\ i <= r + 1
        BY <2>8
      <3> QED
        BY ONLY <2>4, <2>5, <2>8, <3>1, SubSeqSame
    <2> QED
      BY <2>2, <2>3, <2>9 DEF SameLetters
  <1>9. d.cleared \subseteq e.cleared
    BY DEF CutAt
  <1> QED
    BY <1>2, <1>3, <1>6, <1>7, <1>8, <1>9, RowReadKept DEF AllRead

(* A search resumed reads what it decoded; it decodes nothing only when    *)
(* there is nothing to begin with.                                         *)
LEMMA ResumedRead ==
  ASSUME NEW d, Good(d), Fits(d), AllRead(d), NEW s \in Seq(97..122), NEW e, e = Resumed(d, s)
  PROVE  /\ AllRead(e) /\ Decoded(e) <= Len(Taken(s))
         /\ Decoded(e) = 0 => s = <<>> \/ <<s[1]>> \notin SplNodes
  <1>1. PICK pos : pos = CommonPrefix(d.pys, s)
    OBVIOUS
  <1>2. PICK t : t = Taken(s)
    OBVIOUS
  <1>3. pos \in 0..Decoded(d) /\ pos <= Len(t)
    BY <1>1, <1>2, PlaceIs
  <1>4. t \in Seq(97..122) /\ Len(t) \in Nat /\ Decoded(d) \in Nat /\ pos \in Nat
    BY <1>2, <1>3, TakenIs, TypedIs DEF Good, RowsOk
  <1>5. PICK c : c = ResetSearch(d, pos)
    OBVIOUS
  <1>6. Good(c) /\ CutAt(d, pos, c)
    BY <1>3, <1>5, ResetSearchIs
  <1>7. Fits(c) /\ pos = Decoded(c)
    BY <1>3, <1>4, <1>6, Sizes DEF CutAt, Fits
  <1>8. e = AddChars(c, t, pos)
    BY <1>1, <1>2, <1>5 DEF Resumed
  <1>9. AllRead(c)
    BY <1>3, <1>6, CutRead
  <1>10. AllRead(e) /\ Decoded(e) <= Len(t) /\ (Decoded(e) = 0 => t = <<>> \/ <<t[1]>> \notin SplNodes)
    BY <1>3, <1>4, <1>6, <1>7, <1>8, <1>9, AddCharsRead
  <1>11. s # <<>> => t # <<>> /\ t[1] = s[1]
    <2>1. PICK n \in Nat : n = Len(s)
      OBVIOUS
    <2>2. kMaxRowNum \in Nat /\ kMaxRowNum > 1
      BY Sizes
    <2>3. s # <<>> => n # 0
      BY <2>1
    <2>4. Len(t) = (IF n < kMaxRowNum - 1 THEN n ELSE kMaxRowNum - 1)
          /\ \A k \in 1..Len(t) : t[k] = s[k]
      BY <1>2, <2>1, TakenIs
    <2>5. s # <<>> => Len(t) >= 1
      BY <2>2, <2>3, <2>4
    <2>6. ASSUME s # <<>> PROVE t # <<>> /\ t[1] = s[1]
      <3>1. Len(t) # 0 /\ 1 \in 1..Len(t)
        BY <1>4, <2>5, <2>6
      <3> QED
        BY <2>4, <3>1
    <2> QED
      BY <2>6
  <1> QED
    BY <1>2, <1>10, <1>11

(***************************************************************************)
(* The segmentation read off the best path.                                *)
(***************************************************************************)
LEMMA FlattenAppend ==
  ASSUME NEW T, NEW seqs \in Seq(Seq(T)), NEW s \in Seq(T), NEW all, all = Append(seqs, s)
  PROVE  FlattenSeq(all) = FlattenSeq(seqs) \o s
  <1>1. PICK n \in Nat : n = Len(seqs)
    OBVIOUS
  <1>2. Len(all) = n + 1 /\ all[n + 1] = s /\ \A k \in 1..n : all[k] = seqs[k]
    BY <1>1
  <1>3. CASE n = 0
    <2>1. seqs = <<>>
      <3>1. PICK U : U = Seq(T)
        OBVIOUS
      <3>2. seqs \in Seq(U) /\ Len(seqs) = 0
        BY <1>1, <1>3, <3>1
      <3> QED
        BY ONLY <3>2
    <2>2. all = <<s>>
      BY <2>1
    <2>3. FlattenSeq(all) = s /\ FlattenSeq(seqs) = <<>>
      BY <2>1, <2>2, FlattenOne, FlattenNothing
    <2> QED
      BY <2>3
  <1>4. CASE n # 0
    <2>0. Len(seqs) \in Nat \ {0} /\ Len(all) \in Nat \ {0}
      BY <1>1, <1>2, <1>4
    <2>1. PICK f : /\ f[1] = seqs[1] /\ \A k \in 2..n : f[k] = f[k - 1] \o seqs[k]
                   /\ FlattenSeq(seqs) = f[n]
      BY <1>1, <2>0, FlattenGoes
    <2>2. PICK g : /\ g[1] = all[1] /\ \A k \in 2..(n + 1) : g[k] = g[k - 1] \o all[k]
                   /\ FlattenSeq(all) = g[n + 1]
      BY <1>2, <2>0, FlattenGoes
    <2> DEFINE S == {k \in Nat : g[k] = f[k]}
    <2>3. 1 \in S
      BY <1>2, <1>4, <2>1, <2>2
    <2>4. ASSUME NEW k \in (1 + 1)..n, k - 1 \in S PROVE k \in S
      <3>1. k \in 2..n /\ k \in 2..(n + 1) /\ k \in 1..n
        OBVIOUS
      <3>2. g[k - 1] = f[k - 1]
        BY <2>4
      <3>3. g[k] = g[k - 1] \o all[k] /\ all[k] = seqs[k] /\ f[k] = f[k - 1] \o seqs[k]
        BY <1>2, <2>1, <2>2, <3>1
      <3>4. g[k] = f[k]
        BY ONLY <3>2, <3>3
      <3> QED
        BY <3>4
    <2>5. \A k \in 1..n : k \in S
      <3>1. 1 \in Nat /\ 1 <= n
        BY <1>4
      <3> HIDE DEF S
      <3> QED
        BY <2>3, <2>4, <3>1, UpFrom
    <2>6. g[n] = f[n]
      BY <1>4, <2>5
    <2>7. n + 1 \in 2..(n + 1) /\ (n + 1) - 1 = n
      BY <1>4
    <2>8. g[n + 1] = g[n] \o s
      BY <1>2, <2>2, <2>7
    <2> QED
      BY <2>1, <2>2, <2>6, <2>8
  <1> QED
    BY <1>3, <1>4

(* Segments that cut the letters of rows from..to into spellings.          *)
SegSet == [spl : Ids, end : Nat]
EndOf(segs, k, from) == IF k = 0 THEN from ELSE segs[k].end
SegmentOk(d, at, seg) ==
  at < seg.end /\ seg.end \in d.cleared /\ ReadAs(d, seg.end, at).id = seg.spl
Covers(d, segs, from, to) ==
  /\ segs \in Seq(SegSet) /\ from \in Nat /\ to \in Nat
  /\ EndOf(segs, Len(segs), from) = to
  /\ \A k \in 1..Len(segs) : SegmentOk(d, EndOf(segs, k - 1, from), segs[k])
  /\ Len(segs) <= to - from

LEMMA CoversNothing ==
  ASSUME NEW d, NEW from \in Nat
  PROVE  Covers(d, <<>>, from, from)
  <1>1. <<>> \in Seq(SegSet) /\ Len(<<>>) = 0
    OBVIOUS
  <1>2. Len(<<>>) <= from - from /\ 1..Len(<<>>) = {}
    BY <1>1
  <1> QED
    BY <1>1, <1>2 DEF Covers, EndOf

LEMMA CoversOne ==
  ASSUME NEW d, NEW from \in Nat, NEW seg \in SegSet, SegmentOk(d, from, seg)
  PROVE  Covers(d, <<seg>>, from, seg.end)
  <1>1. <<seg>> \in Seq(SegSet) /\ Len(<<seg>>) = 1 /\ <<seg>>[1] = seg
    OBVIOUS
  <1>2. seg.end \in Nat /\ from < seg.end
    BY DEF SegSet, SegmentOk
  <1>3. Len(<<seg>>) <= seg.end - from
    BY <1>1, <1>2
  <1>4. EndOf(<<seg>>, 0, from) = from /\ EndOf(<<seg>>, 1, from) = seg.end
    BY <1>1 DEF EndOf
  <1>5. ASSUME NEW k \in 1..1 PROVE SegmentOk(d, EndOf(<<seg>>, k - 1, from), <<seg>>[k])
    <2>1. k = 1 /\ k - 1 = 0
      OBVIOUS
    <2> QED
      BY <1>1, <1>4, <2>1
  <1> QED
    BY <1>1, <1>2, <1>3, <1>4, <1>5 DEF Covers

LEMMA CoversOn ==
  ASSUME NEW d, NEW a, NEW b, NEW c, NEW s, NEW t, Covers(d, s, a, b), Covers(d, t, b, c),
         NEW u, u = s \o t
  PROVE  Covers(d, u, a, c)
  <1>1. PICK T : T = SegSet
    OBVIOUS
  <1>2. /\ s \in Seq(T) /\ t \in Seq(T) /\ a \in Nat /\ b \in Nat /\ c \in Nat
        /\ Len(s) <= b - a /\ Len(t) <= c - b
    BY <1>1 DEF Covers
  <1>3. PICK n \in Nat, p \in Nat : n = Len(s) /\ p = Len(t)
    BY <1>2
  <1>4. /\ u \in Seq(T) /\ Len(u) = n + p
        /\ \A k \in 1..n : u[k] = s[k]
        /\ \A k \in (n + 1)..(n + p) : u[k] = t[k - n]
    BY ONLY <1>2, <1>3, u = s \o t
  <1>5. EndOf(s, n, a) = b /\ EndOf(t, p, b) = c
    BY <1>3 DEF Covers
  <1>6. ASSUME NEW k \in 0..n PROVE EndOf(u, k, a) = EndOf(s, k, a)
    <2>1. k # 0 => k \in 1..n
      OBVIOUS
    <2> QED
      BY <1>4, <2>1 DEF EndOf
  <1>7. ASSUME NEW k \in n..(n + p) PROVE EndOf(u, k, a) = EndOf(t, k - n, b)
    <2>1. CASE k = n
      <3>1. k - n = 0 /\ n \in 0..n
        BY <2>1
      <3>2. EndOf(u, k, a) = b
        BY <1>5, <1>6, <2>1, <3>1
      <3> QED
        BY <3>1, <3>2 DEF EndOf
    <2>2. CASE k # n
      <3>1. k \in (n + 1)..(n + p) /\ k # 0 /\ k - n # 0
        BY <2>2
      <3> QED
        BY <1>4, <3>1 DEF EndOf
    <2> QED
      BY <2>1, <2>2
  <1>8. ASSUME NEW k \in 1..(n + p) PROVE SegmentOk(d, EndOf(u, k - 1, a), u[k])
    <2>1. CASE k <= n
      <3>1. k \in 1..n /\ k - 1 \in 0..n
        BY <2>1
      <3>2. SegmentOk(d, EndOf(s, k - 1, a), s[k])
        BY <1>3, <3>1 DEF Covers
      <3> QED
        BY <1>4, <1>6, <3>1, <3>2
    <2>2. CASE ~(k <= n)
      <3>1. k \in (n + 1)..(n + p) /\ k - 1 \in n..(n + p) /\ k - n \in 1..p /\ (k - 1) - n = (k - n) - 1
        BY <2>2
      <3>2. SegmentOk(d, EndOf(t, (k - n) - 1, b), t[k - n])
        BY <1>3, <3>1 DEF Covers
      <3>3. EndOf(u, k - 1, a) = EndOf(t, (k - n) - 1, b)
        BY <1>7, <3>1
      <3> QED
        BY <1>4, <3>1, <3>2, <3>3
    <2> QED
      BY <2>1, <2>2
  <1>9. EndOf(u, n + p, a) = c
    <2>1. n + p \in n..(n + p) /\ (n + p) - n = p
      OBVIOUS
    <2> QED
      BY <1>5, <1>7, <2>1
  <1>10. n + p <= c - a
    BY <1>2, <1>3
  <1> QED
    BY <1>1, <1>2, <1>4, <1>8, <1>9, <1>10 DEF Covers

(* DmiPath() goes from each match to the earlier one it extends.           *)
LEMMA DmiPathIs ==
  ASSUME NEW dmis, NEW n \in Nat, n = Len(dmis),
         \A i \in 1..n : dmis[i].fr \in 0..(i - 1)
  PROVE  \E f : /\ f[0] = <<>> /\ \A i \in 1..n : f[i] = Append(f[dmis[i].fr], i)
                /\ \A k : DmiPath(dmis, k) = f[k]
  <1> DEFINE Goes(top, f) == f = [i \in 0..top |-> IF i = 0 THEN <<>> ELSE Append(f[dmis[i].fr], i)]
             S == {top \in Nat : \E f : Goes(top, f)}
  <1>1. \A k : DmiPath(dmis, k) = (CHOOSE f : Goes(n, f))[k]
    BY DEF DmiPath
  <1>2. 0 \in S
    <2>1. Goes(0, [i \in 0..0 |-> <<>>])
      OBVIOUS
    <2> HIDE DEF Goes
    <2> QED
      BY <2>1
  <1>3. ASSUME NEW top \in 1..n, top - 1 \in S PROVE top \in S
    <2>1. PICK f : Goes(top - 1, f)
      BY <1>3
    <2>2. PICK e \in Nat : e = top - 1
      OBVIOUS
    <2>3. f = [i \in 0..e |-> IF i = 0 THEN <<>> ELSE Append(f[dmis[i].fr], i)]
      BY <2>1, <2>2
    <2>i. top = e + 1 /\ top # 0 /\ top \in Nat
      BY <2>2
    <2> DEFINE g == [i \in 0..top |-> IF i = top THEN Append(f[dmis[top].fr], top) ELSE f[i]]
    <2>4. \A i \in 0..e : g[i] = f[i]
      BY <2>i
    <2>5. g[top] = Append(f[dmis[top].fr], top)
      BY <2>i
    <2>6. DOMAIN g = 0..top /\ g = [i \in 0..top |-> g[i]]
      OBVIOUS
    <2> HIDE DEF g
    <2>7. ASSUME NEW i \in 0..top
          PROVE  g[i] = IF i = 0 THEN <<>> ELSE Append(g[dmis[i].fr], i)
      <3>1. CASE i = top
        <4>1. dmis[top].fr \in 0..e
          BY <2>i
        <4> QED
          BY <2>4, <2>5, <2>i, <3>1, <4>1
      <3>2. CASE i = 0
        <4>1. 0 \in 0..e
          BY <2>i
        <4> QED
          BY <2>3, <2>4, <3>2, <4>1
      <3>3. CASE i # top /\ i # 0
        <4>1. i \in 1..n /\ i \in 0..e
          BY <2>i, <3>3
        <4>2. dmis[i].fr \in 0..(i - 1)
          BY <4>1
        <4>3. dmis[i].fr \in 0..e
          BY <2>i, <4>1, <4>2
        <4>4. f[i] = Append(f[dmis[i].fr], i)
          BY <2>3, <3>3, <4>1
        <4> QED
          BY <2>4, <3>3, <4>1, <4>3, <4>4
      <3> QED
        BY <3>1, <3>2, <3>3
    <2>8. Goes(top, g)
      BY <2>6, <2>7
    <2> HIDE DEF Goes
    <2> QED
      BY <2>8, <2>i
  <1>4. \E f : Goes(n, f)
    <2>1. n \in S
      <3> HIDE DEF S
      <3>1. 0..n \subseteq S
        BY <1>2, <1>3, Upwards
      <3> QED
        BY <3>1
    <2> HIDE DEF Goes
    <2> QED
      BY <2>1
  <1> DEFINE f == CHOOSE f : Goes(n, f)
  <1>5. Goes(n, f)
    <2> HIDE DEF Goes
    <2> QED
      BY <1>4
  <1>6. f = [i \in 0..n |-> IF i = 0 THEN <<>> ELSE Append(f[dmis[i].fr], i)]
    BY <1>5
  <1>7. \A k : DmiPath(dmis, k) = f[k]
    BY <1>1
  <1> HIDE DEF f
  <1>8. f[0] = <<>> /\ \A i \in 1..n : f[i] = Append(f[dmis[i].fr], i)
    <2>1. 0 \in 0..n
      OBVIOUS
    <2>2. ASSUME NEW i \in 1..n PROVE i \in 0..n /\ i # 0
      OBVIOUS
    <2> QED
      BY <1>6, <2>1, <2>2
  <1> QED
    BY <1>7, <1>8

(* The spellings of a chain of matches that begins at row from.            *)
MarkOf(d, k, from) == [spl |-> d.dmis[k].spl, end |-> from + d.dmis[k].len]
Marked(d, p, from) == [i \in DOMAIN p |-> MarkOf(d, p[i], from)]

MarksOn(d, U, p, k, from) ==
  /\ Append(p, k) \in Seq(U) /\ MarkOf(d, k, from) \in SegSet
  /\ Marked(d, Append(p, k), from) = Marked(d, p, from) \o <<MarkOf(d, k, from)>>
LEMMA MarkedAppend ==
  ASSUME NEW d, Good(d), NEW U, U = DOMAIN d.dmis, NEW p \in Seq(U), NEW k \in U,
         NEW from \in Nat
  PROVE  MarksOn(d, U, p, k, from)
  <1>q. PICK q : q = Append(p, k)
    OBVIOUS
  <1>2. PICK T : T = SegSet
    OBVIOUS
  <1>3. p \in Seq(U) /\ k \in U
    OBVIOUS
  <1>4. ASSUME NEW i \in U PROVE MarkOf(d, i, from) \in T
    <2>1. i \in DOMAIN d.dmis
      OBVIOUS
    <2>2. d.dmis[i] \in MatchSet
      BY <2>1, TypedIs DEF Good, RowsOk
    <2>3. d.dmis[i].spl \in Ids /\ from + d.dmis[i].len \in Nat
      BY <2>2 DEF MatchSet
    <2> QED
      BY <1>2, <2>3 DEF MarkOf, SegSet
  <1>5. PICK l \in Nat : l = Len(p)
    BY <1>3
  <1>6. q \in Seq(U) /\ Len(q) = l + 1 /\ q[l + 1] = k /\ \A i \in 1..l : q[i] = p[i]
    BY ONLY <1>3, <1>5, <1>q
  <1>7. PICK a : a = Marked(d, p, from)
    OBVIOUS
  <1>8. PICK b : b = Marked(d, q, from)
    OBVIOUS
  <1>9. DOMAIN a = 1..l /\ \A i \in 1..l : a[i] = MarkOf(d, p[i], from)
    BY <1>3, <1>5, <1>7 DEF Marked
  <1>10. DOMAIN b = 1..(l + 1) /\ \A i \in 1..(l + 1) : b[i] = MarkOf(d, q[i], from)
    BY <1>6, <1>8 DEF Marked
  <1>11. a = [i \in 1..l |-> a[i]] /\ b = [i \in 1..(l + 1) |-> b[i]]
    BY <1>7, <1>8, <1>9, <1>10 DEF Marked
  <1>12. \A i \in 1..l : a[i] \in T
    <2>1. \A i \in 1..l : p[i] \in U
      BY <1>3, <1>5
    <2> QED
      BY <1>4, <1>9, <2>1
  <1>13. \A i \in 1..(l + 1) : b[i] \in T
    <2>1. \A i \in 1..(l + 1) : q[i] \in U
      BY <1>6
    <2> QED
      BY <1>4, <1>10, <2>1
  <1>14. a \in Seq(T) /\ Len(a) = l
    <2>1. a \in [1..l -> T]
      BY <1>11, <1>12
    <2> QED
      BY ONLY <2>1, l \in Nat
  <1>15. b \in Seq(T) /\ Len(b) = l + 1
    <2>1. b \in [1..(l + 1) -> T] /\ l + 1 \in Nat
      BY <1>11, <1>13
    <2> QED
      BY ONLY <2>1
  <1>16. PICK x \in T : x = MarkOf(d, k, from)
    BY <1>3, <1>4
  <1>17. PICK c : c = a \o <<x>>
    OBVIOUS
  <1>18. c \in Seq(T) /\ Len(c) = l + 1 /\ c[l + 1] = x /\ \A i \in 1..l : c[i] = a[i]
    BY ONLY <1>14, <1>17, l \in Nat, x \in T
  <1>19. \A i \in 1..(l + 1) : b[i] = c[i]
    <2>1. \A i \in 1..(l + 1) : i \in 1..l \/ i = l + 1
      OBVIOUS
    <2>2. \A i \in 1..l : b[i] = c[i]
      BY <1>6, <1>9, <1>10, <1>18
    <2>3. b[l + 1] = c[l + 1]
      BY <1>6, <1>10, <1>16, <1>18
    <2> QED
      BY <2>1, <2>2, <2>3
  <1>20. b = c
    BY ONLY <1>15, <1>18, <1>19, SeqEqual
  <1> QED
    BY <1>q, <1>2, <1>6, <1>7, <1>8, <1>14, <1>16, <1>17, <1>20 DEF MarksOn

(* The chain that leads to a match spells the letters before its row.      *)
ChainOk(d, p, k) ==
  \A r \in 1..Decoded(d) : InRow(d, r, k) /\ Row(d, r).nodes # <<>> =>
    /\ d.dmis[k].len \in 1..r /\ p \in Seq(1..Len(d.dmis))
    /\ Covers(d, Marked(d, p, r - d.dmis[k].len), r - d.dmis[k].len, r)
LEMMA ChainGoes ==
  ASSUME NEW d, Good(d), AllRead(d), NEW n \in Nat, n = Len(d.dmis), NEW k \in 1..n, NEW x, x = d.dmis[k],
         NEW p, x.fr = 0 => p = <<>>, x.fr # 0 => ChainOk(d, p, x.fr), NEW q, q = Append(p, k)
  PROVE  ChainOk(d, q, k)
  <1>1. SUFFICES ASSUME NEW r \in 1..Decoded(d), InRow(d, r, k), Row(d, r).nodes # <<>>
                 PROVE  /\ d.dmis[k].len \in 1..r /\ q \in Seq(1..n)
                        /\ Covers(d, Marked(d, q, r - x.len), r - x.len, r)
    BY DEF ChainOk
  <1>2. /\ r \in Nat \ {0} /\ x \in MatchSet /\ MatchOk(d, r, k) /\ x.fr \in Nat /\ x.fr < k
    BY <1>1, MatchOfRow
  <1>3. x.len \in 1..r /\ x.spl \in Ids
    BY <1>2 DEF MatchOk, MatchSet
  <1>4. PICK from \in Nat : from = r - x.len
    BY <1>2, <1>3
  <1>5. MatchRead(d, r, x) /\ r \in d.cleared
    BY <1>1 DEF AllRead, RowRead, LastRead
  <1>6. PICK at : at = r - x.len + LenOf(d, x.fr)
    OBVIOUS
  <1>7. at \in 0..(r - 1) /\ Row(d, at).nodes # <<>> /\ ReadAs(d, r, at).id = x.spl
    BY <1>5, <1>6 DEF MatchRead, ReadAs
  <1>8. PICK seg : seg = MarkOf(d, k, from)
    OBVIOUS
  <1>9. seg.spl = x.spl /\ seg.end = r
    BY <1>2, <1>3, <1>4, <1>8 DEF MarkOf
  <1>10. SegmentOk(d, at, seg)
    BY <1>2, <1>5, <1>7, <1>9 DEF SegmentOk
  <1>11. p \in Seq(1..n) /\ Covers(d, Marked(d, p, from), from, at)
    <2>1. CASE x.fr = 0
      <3>1. p = <<>> /\ at = from
        BY <1>2, <1>3, <1>4, <1>6, <2>1 DEF LenOf
      <3>2. Marked(d, p, from) = <<>>
        BY <3>1 DEF Marked
      <3>3. p \in Seq(1..n)
        BY <3>1
      <3> QED
        BY <3>1, <3>2, <3>3, CoversNothing
    <2>2. CASE x.fr # 0
      <3>1. PICK fr : fr = x.fr
        OBVIOUS
      <3>2. PICK y : y = d.dmis[fr]
        OBVIOUS
      <3>3. PICK b \in 1..(r - 1) : InRow(d, b, fr) /\ r - x.len = b - y.len
        BY <1>2, <2>2, <3>1, <3>2 DEF MatchOk
      <3>4. y.len \in Nat
        <4>1. fr \in 1..n
          BY <1>2, <2>2, <3>1
        <4>2. fr \in DOMAIN d.dmis
          BY <4>1, TypedIs DEF Good, RowsOk
        <4>3. y \in MatchSet
          BY <3>2, <4>2, TypedIs DEF Good, RowsOk
        <4> QED
          BY <4>3 DEF MatchSet
      <3>5. at = b
        <4>1. LenOf(d, x.fr) = y.len
          BY <2>2, <3>1, <3>2 DEF LenOf
        <4> QED
          BY <1>2, <1>3, <1>6, <3>3, <3>4, <4>1
      <3>6. from = b - y.len
        BY <1>4, <3>3
      <3>7. b \in 1..Decoded(d) /\ Row(d, b).nodes # <<>>
        <4>1. Decoded(d) \in Nat
          BY TypedIs DEF Good, RowsOk
        <4> QED
          BY <1>7, <3>5, <4>1
      <3>8. ChainOk(d, p, fr)
        BY <2>2, <3>1
      <3> QED
        BY <3>2, <3>3, <3>5, <3>6, <3>7, <3>8 DEF ChainOk
    <2> QED
      BY <2>1, <2>2
  <1>12. q \in Seq(1..n) /\ seg \in SegSet /\ Marked(d, q, from) = Marked(d, p, from) \o <<seg>>
    <2>1. PICK U : U = DOMAIN d.dmis
      OBVIOUS
    <2>2. U = 1..n
      BY <2>1, TypedIs DEF Good, RowsOk
    <2>3. p \in Seq(U) /\ k \in U
      BY <1>11, <2>2
    <2>4. MarksOn(d, U, p, k, from)
      BY ONLY <2>1, <2>3, MarkedAppend, Good(d), from \in Nat
    <2>5. /\ q \in Seq(U) /\ MarkOf(d, k, from) \in SegSet
          /\ Marked(d, q, from) = Marked(d, p, from) \o <<MarkOf(d, k, from)>>
      BY <2>4 DEF MarksOn
    <2> QED
      BY <1>8, <2>2, <2>5
  <1>13. at \in Nat
    BY <1>7
  <1>14. Covers(d, <<seg>>, at, r)
    BY <1>9, <1>10, <1>12, <1>13, CoversOne
  <1>15. Covers(d, Marked(d, q, from), from, r)
    BY <1>11, <1>12, <1>14, CoversOn
  <1> QED
    BY <1>3, <1>4, <1>12, <1>15

LEMMA ChainsAre ==
  ASSUME NEW d, Good(d), AllRead(d)
  PROVE  \A k \in 1..Len(d.dmis) : ChainOk(d, DmiPath(d.dmis, k), k)
  <1>1. PICK n \in Nat : n = Len(d.dmis)
    BY TypedIs DEF Good, RowsOk
  <1>2. ASSUME NEW k \in 1..n PROVE d.dmis[k].fr \in 0..(k - 1)
    <2>1. k \in DOMAIN d.dmis
      BY <1>1, TypedIs DEF Good, RowsOk
    <2>2. PICK r \in 1..Decoded(d) : InRow(d, r, k)
      BY <2>1, OneRow DEF Good
    <2>3. d.dmis[k].fr \in Nat /\ d.dmis[k].fr < k
      BY <1>1, <2>2, MatchOfRow
    <2> QED
      BY <2>3
  <1>3. PICK f : /\ f[0] = <<>> /\ \A i \in 1..n : f[i] = Append(f[d.dmis[i].fr], i)
                 /\ \A k : DmiPath(d.dmis, k) = f[k]
    BY <1>1, <1>2, DmiPathIs
  <1> DEFINE S == {k \in Nat : \A i \in 1..k : ChainOk(d, f[i], i)}
  <1>4. 0 \in S
    OBVIOUS
  <1>5. ASSUME NEW k \in 1..n, k - 1 \in S PROVE k \in S
    <2>1. PICK x : x = d.dmis[k]
      OBVIOUS
    <2>2. x.fr \in 0..(k - 1) /\ f[k] = Append(f[x.fr], k)
      BY <1>2, <1>3, <2>1
    <2>3. \A i \in 1..(k - 1) : ChainOk(d, f[i], i)
      BY <1>5
    <2>4. PICK p : p = f[x.fr]
      OBVIOUS
    <2>5. x.fr = 0 => p = <<>>
      BY <1>3, <2>4
    <2>6. x.fr # 0 => ChainOk(d, p, x.fr)
      <3>1. x.fr # 0 => x.fr \in 1..(k - 1)
        BY <2>2
      <3> QED
        BY <2>3, <2>4, <3>1
    <2>7. ChainOk(d, f[k], k)
      BY <1>1, <2>1, <2>2, <2>4, <2>5, <2>6, ChainGoes
    <2>8. \A i \in 1..k : i \in 1..(k - 1) \/ i = k
      OBVIOUS
    <2> QED
      BY <2>3, <2>7, <2>8
  <1>6. n \in S
    <2> HIDE DEF S
    <2>1. 0..n \subseteq S
      BY <1>4, <1>5, Upwards
    <2> QED
      BY <2>1
  <1> QED
    BY <1>1, <1>3, <1>6

LEMMA SpeltCovers ==
  ASSUME NEW d, Good(d), AllRead(d), NEW r \in 1..Decoded(d), NEW k \in DOMAIN Row(d, r).nodes,
         NEW node, node = Row(d, r).nodes[k]
  PROVE  /\ node \in NodeSet /\ node.from[1] \in 0..(r - 1)
         /\ node.from[2] \in DOMAIN Row(d, node.from[1]).nodes
         /\ Covers(d, Spelt(d.dmis, node), node.from[1], r)
  <1>0. Decoded(d) \in Nat /\ r \in Nat \ {0}
    BY TypedIs DEF Good, RowsOk
  <1>1. node \in NodeSet
    <2>1. PICK nodes : nodes = Row(d, r).nodes
      OBVIOUS
    <2>2. nodes \in Seq(NodeSet)
      <3>1. r \in 0..Decoded(d)
        BY <1>0
      <3> QED
        BY <2>1, <3>1, TypedIs DEF Good, RowsOk
    <2> QED
      BY ONLY <2>1, <2>2, node = Row(d, r).nodes[k], k \in DOMAIN Row(d, r).nodes, ElementOfSeq
  <1>2. NodeOk(d, r, node)
    BY DEF Good, RowGood
  <1>3. /\ node.row = r /\ node.from[1] \in 0..(r - 1)
        /\ node.from[2] \in DOMAIN Row(d, node.from[1]).nodes
    BY <1>2 DEF NodeOk
  <1>4. PICK i : i = node.dmi
    OBVIOUS
  <1>5. PICK n \in Nat : n = Len(d.dmis)
    BY TypedIs DEF Good, RowsOk
  <1>6. InRow(d, r, i) /\ i \in 1..n /\ d.dmis[i].len = r - node.from[1]
    <2>1. InRow(d, r, i) /\ d.dmis[i].len = r - node.from[1]
      BY <1>2, <1>4 DEF NodeOk
    <2>2. i \in Nat
      BY <1>1, <1>4 DEF NodeSet
    <2>3. r \in 0..Decoded(d)
      BY <1>0
    <2>4. i \in 1..DmiEnd(Row(d, r)) /\ DmiEnd(Row(d, r)) <= n /\ DmiEnd(Row(d, r)) \in Nat
      BY <1>5, <2>1, <2>2, <2>3, RowsAre, TypedIs DEF Good, RowsOk
    <2> QED
      BY <1>5, <2>1, <2>4
  <1>7. Row(d, r).nodes # <<>>
    OBVIOUS
  <1>8. PICK p : p = DmiPath(d.dmis, i)
    OBVIOUS
  <1>9. ChainOk(d, p, i)
    BY <1>5, <1>6, <1>8, ChainsAre
  <1>10. PICK from \in Nat : from = node.from[1]
    BY <1>3
  <1>11. from = r - d.dmis[i].len
    BY <1>0, <1>3, <1>6, <1>10
  <1>12. p \in Seq(1..n) /\ Covers(d, Marked(d, p, from), from, r)
    BY <1>5, <1>6, <1>7, <1>9, <1>11 DEF ChainOk
  <1>13. Spelt(d.dmis, node) = Marked(d, p, from)
    <2>1. Spelt(d.dmis, node) =
            [x \in DOMAIN p |->
               [spl |-> d.dmis[p[x]].spl, end |-> r - (d.dmis[i].len - d.dmis[p[x]].len)]]
      BY <1>3, <1>4, <1>8 DEF Spelt
    <2>2. ASSUME NEW x \in DOMAIN p
          PROVE  r - (d.dmis[i].len - d.dmis[p[x]].len) = from + d.dmis[p[x]].len
      <3>1. PICK y : y = p[x]
        OBVIOUS
      <3>2. y \in DOMAIN d.dmis
        <4>1. PICK U : U = 1..n
          OBVIOUS
        <4>2. p \in Seq(U)
          BY <1>12, <4>1
        <4>3. y \in U
          BY <3>1, <4>2, ElementOfSeq
        <4> QED
          BY <1>5, <4>1, <4>3, TypedIs DEF Good, RowsOk
      <3>3. d.dmis[y].len \in Nat
        <4>1. d.dmis[y] \in MatchSet
          BY <3>2, TypedIs DEF Good, RowsOk
        <4> QED
          BY <4>1 DEF MatchSet
      <3>4. d.dmis[i].len = r - from
        BY <1>6, <1>10
      <3> QED
        BY <1>0, <1>10, <3>1, <3>3, <3>4
    <2> QED
      BY <2>1, <2>2 DEF Marked, MarkOf
  <1> QED
    BY <1>1, <1>3, <1>10, <1>12, <1>13

(* As many spellings lead to a match as its level says.                    *)
LEMMA LevelsAre ==
  ASSUME NEW d, Good(d)
  PROVE  \A k \in 1..Len(d.dmis) : Len(DmiPath(d.dmis, k)) = d.dmis[k].level
  <1>1. PICK n \in Nat : n = Len(d.dmis)
    BY TypedIs DEF Good, RowsOk
  <1>2. ASSUME NEW k \in 1..n
        PROVE  /\ d.dmis[k].fr \in 0..(k - 1)
               /\ IF d.dmis[k].fr = 0 THEN d.dmis[k].level = 1
                  ELSE d.dmis[k].level = d.dmis[d.dmis[k].fr].level + 1
    <2>1. k \in DOMAIN d.dmis
      BY <1>1, TypedIs DEF Good, RowsOk
    <2>2. PICK r \in 1..Decoded(d) : InRow(d, r, k)
      BY <2>1, OneRow DEF Good
    <2>3. d.dmis[k].fr \in Nat /\ d.dmis[k].fr < k /\ MatchOk(d, r, k)
      BY <1>1, <2>2, MatchOfRow
    <2> QED
      BY <2>3 DEF MatchOk
  <1>3. PICK f : /\ f[0] = <<>> /\ \A i \in 1..n : f[i] = Append(f[d.dmis[i].fr], i)
                 /\ \A k : DmiPath(d.dmis, k) = f[k]
    <2>1. PICK dmis : dmis = d.dmis
      OBVIOUS
    <2>2. n = Len(dmis) /\ \A i \in 1..n : dmis[i].fr \in 0..(i - 1)
      BY ONLY <1>1, <1>2, <2>1
    <2>3. \E f : /\ f[0] = <<>> /\ \A i \in 1..n : f[i] = Append(f[dmis[i].fr], i)
                 /\ \A k : DmiPath(dmis, k) = f[k]
      BY ONLY <2>2, n \in Nat, DmiPathIs
    <2> QED
      BY ONLY <2>1, <2>3
  <1> DEFINE S == {k \in Nat : \A i \in 1..k : f[i] \in Seq(Nat) /\ Len(f[i]) = d.dmis[i].level}
  <1>4. 0 \in S
    OBVIOUS
  <1>5. ASSUME NEW k \in 1..n, k - 1 \in S PROVE k \in S
    <2>1. PICK fr : fr = d.dmis[k].fr
      OBVIOUS
    <2>2. fr \in 0..(k - 1) /\ f[k] = Append(f[fr], k)
      BY <1>2, <1>3, <2>1
    <2>3. \A i \in 1..(k - 1) : f[i] \in Seq(Nat) /\ Len(f[i]) = d.dmis[i].level
      BY <1>5
    <2>4. PICK p : p = f[fr]
      OBVIOUS
    <2>5. p \in Seq(Nat) /\ d.dmis[k].level = Len(p) + 1
      <3>1. CASE fr = 0
        <4>1. p = <<>> /\ d.dmis[k].level = 1
          BY <1>2, <1>3, <2>1, <2>4, <3>1
        <4> QED
          BY <4>1
      <3>2. CASE fr # 0
        <4>1. fr \in 1..(k - 1)
          BY <2>2, <3>2
        <4>2. d.dmis[k].level = d.dmis[fr].level + 1
          BY <1>2, <2>1, <3>2
        <4> QED
          BY <2>3, <2>4, <4>1, <4>2
      <3> QED
        BY <3>1, <3>2
    <2>6. f[k] \in Seq(Nat) /\ Len(f[k]) = d.dmis[k].level
      <3>1. k \in Nat /\ f[k] = Append(p, k)
        BY <2>2, <2>4
      <3> QED
        BY <2>5, <3>1
    <2>7. \A i \in 1..k : i \in 1..(k - 1) \/ i = k
      OBVIOUS
    <2> QED
      BY <2>3, <2>6, <2>7
  <1>6. n \in S
    <2> HIDE DEF S
    <2>1. 0..n \subseteq S
      BY <1>4, <1>5, Upwards
    <2> QED
      BY <2>1
  <1> QED
    BY <1>1, <1>3, <1>6

(* A node's word, unless it is the last lemma, which has none, has a       *)
(* character for each spelling of its match.                               *)
WordFits(d, node) ==
  LemmaStr[node.id] # <<>> => Len(LemmaStr[node.id]) = Len(Spelt(d.dmis, node))
LEMMA WordsFit ==
  ASSUME NEW d, Good(d), NEW r \in 1..Decoded(d), NEW k \in DOMAIN Row(d, r).nodes,
         NEW node, node = Row(d, r).nodes[k], node \in NodeSet
  PROVE  WordFits(d, node)
  <1>1. NodeOk(d, r, node)
    BY DEF Good, RowGood
  <1>2. PICK i : i = node.dmi
    OBVIOUS
  <1>3. PICK n \in Nat : n = Len(d.dmis)
    BY TypedIs DEF Good, RowsOk
  <1>4. i \in 1..n
    <2>1. InRow(d, r, i) /\ i \in Nat
      BY <1>1, <1>2 DEF NodeOk, NodeSet
    <2>2. r \in 0..Decoded(d)
      OBVIOUS
    <2>3. i \in 1..DmiEnd(Row(d, r)) /\ DmiEnd(Row(d, r)) <= n /\ DmiEnd(Row(d, r)) \in Nat
      BY <1>3, <2>1, <2>2, RowsAre, TypedIs DEF Good, RowsOk
    <2> QED
      BY <2>3
  <1>5. PICK p : p = DmiPath(d.dmis, i)
    OBVIOUS
  <1>6. Len(p) = Len(Lemmas[node.id].word)
    BY <1>1, <1>2, <1>3, <1>4, <1>5, LevelsAre DEF NodeOk
  <1>7. Len(Spelt(d.dmis, node)) = Len(p)
    <2>1. PICK s : s = Spelt(d.dmis, node)
      OBVIOUS
    <2>2. DOMAIN s = DOMAIN p
      BY <1>2, <1>5, <2>1 DEF Spelt
    <2> QED
      BY <2>1, <2>2
  <1>8. SUFFICES ASSUME LemmaStr[node.id] # <<>>
                 PROVE  LemmaStr[node.id] = Lemmas[node.id].word
    BY <1>6, <1>7 DEF WordFits
  <1>9. node.id \in 0..LemmaNum
    BY DEF NodeSet
  <1>10. node.id # 0
    <2>1. LemmaNum \in Nat
      BY WordsAre
    <2>2. LemmaStr[0] = <<>>
      BY <2>1 DEF LemmaStr
    <2> QED
      BY <1>8, <2>2
  <1> QED
    BY <1>8, <1>9, <1>10, WordsAre

(* The words on a path.                                                    *)
WordsOf(path) == [k \in DOMAIN path |-> LemmaStr[path[k].id]]
LEMMA WordsAppend ==
  ASSUME NEW path \in Seq(NodeSet), NEW node \in NodeSet
  PROVE  /\ LemmaStr[node.id] \in Seq(Nat) /\ WordsOf(path) \in Seq(Seq(Nat))
         /\ WordsOf(Append(path, node)) = Append(WordsOf(path), LemmaStr[node.id])
  <1>1. PICK U, T : U = NodeSet /\ T = Seq(Nat)
    OBVIOUS
  <1>2. \A y \in U : LemmaStr[y.id] \in T
    <2>1. ASSUME NEW id \in 0..LemmaNum PROVE LemmaStr[id] \in T
      <3>1. CASE id = 0
        <4>1. LemmaStr[id] = <<>>
          BY <3>1 DEF LemmaStr
        <4> QED
          BY <1>1, <4>1
      <3>2. CASE id # 0
        <4>1. id \in LemmaIds
          BY <3>2, WordsAre
        <4> QED
          BY <1>1, <4>1, WordsAre
      <3> QED
        BY <3>1, <3>2
    <2>2. \A y \in U : y.id \in 0..LemmaNum
      BY <1>1 DEF NodeSet
    <2> QED
      BY <2>1, <2>2
  <1>3. ASSUME NEW q \in Seq(U)
        PROVE  /\ WordsOf(q) \in Seq(T) /\ Len(WordsOf(q)) = Len(q)
               /\ \A k \in 1..Len(q) : WordsOf(q)[k] = LemmaStr[q[k].id]
    <2>1. PICK l \in Nat : l = Len(q) /\ DOMAIN q = 1..l
      OBVIOUS
    <2>2. \A k \in 1..l : q[k] \in U
      BY ONLY <2>1, q \in Seq(U), ElementOfSeq
    <2>3. PICK w : w = WordsOf(q)
      OBVIOUS
    <2>4. w = [k \in 1..l |-> LemmaStr[q[k].id]]
      BY <2>1, <2>3 DEF WordsOf
    <2>5. w \in [1..l -> T]
      BY <1>2, <2>2, <2>4
    <2> QED
      BY <2>1, <2>3, <2>4, <2>5
  <1>4. path \in Seq(U) /\ node \in U
    BY <1>1
  <1>5. PICK q : q = Append(path, node)
    OBVIOUS
  <1>6. PICK l \in Nat : l = Len(path)
    BY <1>4
  <1>7. q \in Seq(U) /\ Len(q) = l + 1 /\ q[l + 1] = node /\ \A k \in 1..l : q[k] = path[k]
    BY ONLY <1>4, <1>5, <1>6
  <1>8. PICK a, b, c : a = WordsOf(path) /\ b = WordsOf(q) /\ c = Append(a, LemmaStr[node.id])
    OBVIOUS
  <1>9. a \in Seq(T) /\ Len(a) = l /\ \A k \in 1..l : a[k] = LemmaStr[path[k].id]
    BY <1>3, <1>4, <1>6, <1>8
  <1>10. b \in Seq(T) /\ Len(b) = l + 1 /\ \A k \in 1..(l + 1) : b[k] = LemmaStr[q[k].id]
    BY <1>3, <1>7, <1>8
  <1>11. LemmaStr[node.id] \in T
    BY <1>2, <1>4
  <1>12. c \in Seq(T) /\ Len(c) = l + 1 /\ c[l + 1] = LemmaStr[node.id] /\ \A k \in 1..l : c[k] = a[k]
    <2>1. PICK word : word = LemmaStr[node.id]
      OBVIOUS
    <2> QED
      BY ONLY <1>6, <1>8, <1>9, <1>11, <2>1
  <1>13. ASSUME NEW k \in 1..(l + 1) PROVE b[k] = c[k]
    <2>1. CASE k = l + 1
      BY <1>7, <1>10, <1>12, <2>1
    <2>2. CASE k \in 1..l
      BY <1>7, <1>9, <1>10, <1>12, <2>2
    <2> QED
      BY <2>1, <2>2
  <1>14. b = c
    BY ONLY <1>10, <1>12, <1>13, SeqEqual
  <1> QED
    BY <1>1, <1>5, <1>8, <1>9, <1>11, <1>14

(* The best path goes from each node to the one it comes from.             *)
FromBefore(d, r) ==
  \A k \in DOMAIN Row(d, r).nodes : Row(d, r).nodes[k].from[1] \in 0..(r - 1)
Onward(d, f, r) ==
  [k \in DOMAIN Row(d, r).nodes |->
     LET node == Row(d, r).nodes[k] IN Append(f[node.from[1]][node.from[2]], node)]
LEMMA BestPathIs ==
  ASSUME NEW d, NEW n \in Nat, n = Decoded(d), \A r \in 1..n : FromBefore(d, r)
  PROVE  \E f : /\ f[0] = [k \in DOMAIN Row(d, 0).nodes |-> <<>>]
                /\ \A r \in 1..n : f[r] = Onward(d, f, r)
                /\ ~Dead(d) => BestPath(d) = f[n][1]
  <1> DEFINE Step(f, r) == [k \in DOMAIN Row(d, r).nodes |->
                              LET node == Row(d, r).nodes[k]
                              IN  IF r = 0 THEN <<>> ELSE Append(f[node.from[1]][node.from[2]], node)]
             Goes(top, f) == f = [r \in 0..top |-> Step(f, r)]
             S == {top \in Nat : \E f : Goes(top, f)}
  <1>1. ~Dead(d) => BestPath(d) = (CHOOSE f : Goes(n, f))[n][1]
    BY DEF BestPath
  <1>2. 0 \in S
    <2>1. PICK f : f = [r \in 0..0 |-> [k \in DOMAIN Row(d, 0).nodes |-> <<>>]]
      OBVIOUS
    <2>2. ASSUME NEW r \in 0..0 PROVE Step(f, r) = [k \in DOMAIN Row(d, 0).nodes |-> <<>>]
      <3>1. r = 0
        OBVIOUS
      <3> QED
        BY <3>1
    <2>3. Goes(0, f)
      <3> HIDE DEF Step
      <3> QED
        BY <2>1, <2>2
    <2> HIDE DEF Goes
    <2> QED
      BY <2>3
  <1>3. ASSUME NEW top \in 1..n, top - 1 \in S PROVE top \in S
    <2>1. PICK f : Goes(top - 1, f)
      BY <1>3
    <2>2. PICK e \in Nat : e = top - 1
      OBVIOUS
    <2>3. f = [r \in 0..e |-> Step(f, r)]
      BY <2>1, <2>2
    <2>i. top = e + 1 /\ top # 0 /\ top \in Nat
      BY <2>2
    <2> DEFINE g == [r \in 0..top |-> IF r = top THEN Step(f, top) ELSE f[r]]
    <2>4. \A r \in 0..e : g[r] = f[r]
      <3> HIDE DEF Step
      <3> QED
        BY <2>i
    <2>5. g[top] = Step(f, top)
      <3> HIDE DEF Step
      <3> QED
        BY <2>i
    <2>6. DOMAIN g = 0..top /\ g = [r \in 0..top |-> g[r]]
      <3> HIDE DEF Step
      <3> QED
        OBVIOUS
    <2> HIDE DEF g
    <2>7. ASSUME NEW r \in 0..top PROVE Step(g, r) = Step(f, r)
      <3>1. CASE r = 0
        BY <3>1
      <3>2. CASE r # 0
        <4>1. ASSUME NEW k \in DOMAIN Row(d, r).nodes
              PROVE  g[Row(d, r).nodes[k].from[1]] = f[Row(d, r).nodes[k].from[1]]
          <5>1. r \in 1..n
            BY <3>2
          <5>2. Row(d, r).nodes[k].from[1] \in 0..(r - 1)
            BY <5>1 DEF FromBefore
          <5>3. Row(d, r).nodes[k].from[1] \in 0..e
            BY <2>i, <5>2
          <5> QED
            BY <2>4, <5>3
        <4> QED
          BY <4>1
      <3> QED
        BY <3>1, <3>2
    <2>8. ASSUME NEW r \in 0..top PROVE g[r] = Step(g, r)
      <3>1. CASE r = top
        <4> HIDE DEF Step
        <4> QED
          BY <2>5, <2>7, <3>1
      <3>2. CASE r # top
        <4>1. r \in 0..e
          BY <2>i, <3>2
        <4> HIDE DEF Step
        <4>2. f[r] = Step(f, r)
          BY <2>3, <4>1
        <4> QED
          BY <2>4, <2>7, <4>1, <4>2
      <3> QED
        BY <3>1, <3>2
    <2>9. Goes(top, g)
      <3> HIDE DEF Step
      <3> QED
        BY <2>6, <2>8
    <2> HIDE DEF Goes
    <2> QED
      BY <2>9, <2>i
  <1>4. \E f : Goes(n, f)
    <2>1. n \in S
      <3> HIDE DEF S
      <3>1. 0..n \subseteq S
        BY <1>2, <1>3, Upwards
      <3> QED
        BY <3>1
    <2> HIDE DEF Goes
    <2> QED
      BY <2>1
  <1> DEFINE f == CHOOSE f : Goes(n, f)
  <1>5. Goes(n, f)
    <2> HIDE DEF Goes
    <2> QED
      BY <1>4
  <1>6. \A r \in 0..n : f[r] = Step(f, r)
    <2> HIDE DEF Step, f
    <2> QED
      BY <1>5
  <1>7. ~Dead(d) => BestPath(d) = f[n][1]
    <2> HIDE DEF Step
    <2> QED
      BY <1>1
  <1> HIDE DEF f
  <1>8. f[0] = [k \in DOMAIN Row(d, 0).nodes |-> <<>>]
    <2>1. 0 \in 0..n
      OBVIOUS
    <2>2. f[0] = Step(f, 0)
      <3> HIDE DEF Step
      <3> QED
        BY <1>6, <2>1
    <2> QED
      BY <2>2
  <1>9. ASSUME NEW r \in 1..n
        PROVE  f[r] = Onward(d, f, r)
    <2>1. r \in 0..n /\ r # 0
      OBVIOUS
    <2>2. f[r] = Step(f, r)
      <3> HIDE DEF Step
      <3> QED
        BY <1>6, <2>1
    <2> QED
      BY <2>1, <2>2 DEF Onward
  <1> QED
    BY <1>7, <1>8, <1>9

SpeltOf(d, path) == [k \in DOMAIN path |-> Spelt(d.dmis, path[k])]
PathFits(d, path) ==
  /\ FlattenSeq(WordsOf(path)) \in Seq(Nat)
  /\ (\A k \in DOMAIN path : LemmaStr[path[k].id] # <<>>) =>
       Len(FlattenSeq(WordsOf(path))) = Len(FlattenSeq(SpeltOf(d, path)))
PathOk(d, path, r) ==
  /\ path \in Seq(NodeSet) /\ SpeltOf(d, path) \in Seq(Seq(SegSet))
  /\ Covers(d, FlattenSeq(SpeltOf(d, path)), 0, r)
  /\ PathFits(d, path)

LEMMA SpeltAppend ==
  ASSUME NEW d, NEW U, NEW T, NEW path \in Seq(U), NEW node \in U, NEW one \in T,
         one = Spelt(d.dmis, node), SpeltOf(d, path) \in Seq(T)
  PROVE  SpeltOf(d, Append(path, node)) = Append(SpeltOf(d, path), one)
  <1>1. PICK l \in Nat : l = Len(path)
    OBVIOUS
  <1>2. PICK q : q = Append(path, node)
    OBVIOUS
  <1>3. q \in Seq(U) /\ Len(q) = l + 1 /\ q[l + 1] = node /\ \A i \in 1..l : q[i] = path[i]
    BY <1>1, <1>2
  <1>4. PICK a : a = SpeltOf(d, path)
    OBVIOUS
  <1>5. PICK b : b = SpeltOf(d, q)
    OBVIOUS
  <1>6. DOMAIN a = 1..l /\ \A i \in 1..l : a[i] = Spelt(d.dmis, path[i])
    BY <1>1, <1>4 DEF SpeltOf
  <1>7. DOMAIN b = 1..(l + 1) /\ \A i \in 1..(l + 1) : b[i] = Spelt(d.dmis, q[i])
    BY <1>3, <1>5 DEF SpeltOf
  <1>8. b = [i \in 1..(l + 1) |-> b[i]]
    BY <1>5, <1>7 DEF SpeltOf
  <1>9. a \in Seq(T) /\ Len(a) = l
    <2>1. a \in Seq(T)
      BY <1>4
    <2> QED
      BY <1>6, <2>1
  <1>10. \A i \in 1..(l + 1) : i \in 1..l \/ i = l + 1
    OBVIOUS
  <1>11. PICK c : c = Append(a, one)
    OBVIOUS
  <1>12. c \in Seq(T) /\ Len(c) = l + 1 /\ c[l + 1] = one /\ \A i \in 1..l : c[i] = a[i]
    BY <1>9, <1>11
  <1>13. \A i \in 1..(l + 1) : b[i] = c[i]
    <2>1. \A i \in 1..l : b[i] = c[i]
      BY <1>3, <1>6, <1>7, <1>12
    <2>2. b[l + 1] = c[l + 1]
      BY <1>3, <1>7, <1>12
    <2> QED
      BY <1>10, <2>1, <2>2
  <1>14. b \in Seq(T) /\ Len(b) = l + 1
    <2>1. \A i \in 1..(l + 1) : c[i] \in T
      BY <1>12, ElementOfSeq
    <2>2. \A i \in 1..(l + 1) : b[i] \in T
      BY <1>13, <2>1
    <2>3. b \in [1..(l + 1) -> T] /\ l + 1 \in Nat
      BY <1>8, <2>2
    <2> QED
      BY ONLY <2>3
  <1>15. b = c
    BY ONLY <1>12, <1>13, <1>14, SeqEqual
  <1> QED
    BY <1>2, <1>4, <1>5, <1>11, <1>15

LEMMA PathGoes ==
  ASSUME NEW d, NEW path, NEW q \in Nat, PathOk(d, path, q), NEW node \in NodeSet, NEW r,
         Covers(d, Spelt(d.dmis, node), q, r), WordFits(d, node)
  PROVE  PathOk(d, Append(path, node), r)
  <1>1. PICK U, T : U = NodeSet /\ T = SegSet
    OBVIOUS
  <1>2. PICK one : one = Spelt(d.dmis, node)
    OBVIOUS
  <1>3. PICK all : all = SpeltOf(d, path)
    OBVIOUS
  <1>4. one \in Seq(T) /\ Covers(d, one, q, r)
    BY <1>1, <1>2 DEF Covers
  <1>5. path \in Seq(U) /\ node \in U /\ all \in Seq(Seq(T)) /\ Covers(d, FlattenSeq(all), 0, q)
    BY <1>1, <1>3 DEF PathOk
  <1>6. SpeltOf(d, Append(path, node)) = Append(all, one)
    BY <1>2, <1>3, <1>4, <1>5, SpeltAppend
  <1>7. FlattenSeq(Append(all, one)) = FlattenSeq(all) \o one
    BY <1>4, <1>5, FlattenAppend
  <1>8. Covers(d, FlattenSeq(Append(all, one)), 0, r)
    BY <1>4, <1>5, <1>7, CoversOn
  <1>9. Append(path, node) \in Seq(U)
    BY ONLY <1>5
  <1>10. Append(all, one) \in Seq(Seq(T))
    <2>1. PICK V : V = Seq(T)
      OBVIOUS
    <2>2. all \in Seq(V) /\ one \in V
      BY <1>4, <1>5, <2>1
    <2>3. Append(all, one) \in Seq(V)
      BY ONLY <2>2
    <2> QED
      BY <2>1, <2>3
  <1>11. PathFits(d, Append(path, node))
    <2>1. PICK all2, one2 : all2 = FlattenSeq(all) /\ one2 = FlattenSeq(Append(all, one))
      OBVIOUS
    <2>2. all2 \in Seq(T) /\ one2 = all2 \o one
      BY <1>1, <1>5, <1>7, <2>1 DEF Covers
    <2>3. Len(one2) = Len(all2) + Len(one)
      BY ONLY <1>4, <2>2
    <2>4. PICK ws, w : ws = WordsOf(path) /\ w = LemmaStr[node.id]
      OBVIOUS
    <2>5. w \in Seq(Nat) /\ ws \in Seq(Seq(Nat)) /\ WordsOf(Append(path, node)) = Append(ws, w)
      BY <1>1, <1>5, <2>4, WordsAppend
    <2>6. FlattenSeq(Append(ws, w)) = FlattenSeq(ws) \o w
      BY <2>5, FlattenAppend
    <2>7. PICK str : str = FlattenSeq(ws)
      OBVIOUS
    <2>8. str \in Seq(Nat)
      BY <2>4, <2>7 DEF PathOk, PathFits
    <2>9. str \o w \in Seq(Nat) /\ Len(str \o w) = Len(str) + Len(w)
      BY ONLY <2>5, <2>8
    <2>10. ASSUME \A k \in DOMAIN Append(path, node) : LemmaStr[Append(path, node)[k].id] # <<>>
           PROVE  Len(str \o w) = Len(one2)
      <3>1. PICK l \in Nat : l = Len(path)
        BY <1>5
      <3>2. /\ DOMAIN Append(path, node) = 1..(l + 1) /\ Append(path, node)[l + 1] = node
            /\ DOMAIN path = 1..l /\ \A k \in 1..l : Append(path, node)[k] = path[k]
        BY ONLY <1>5, <3>1
      <3>3. l + 1 \in 1..(l + 1) /\ \A k \in 1..l : k \in 1..(l + 1)
        OBVIOUS
      <3>4. w # <<>>
        BY <2>4, <2>10, <3>2, <3>3
      <3>5. \A k \in DOMAIN path : LemmaStr[path[k].id] # <<>>
        BY <2>10, <3>2, <3>3
      <3>6. Len(str) = Len(all2)
        BY <1>3, <2>1, <2>4, <2>7, <3>5 DEF PathOk, PathFits
      <3>7. Len(w) = Len(one)
        BY <1>2, <2>4, <3>4 DEF WordFits
      <3> QED
        BY ONLY <2>3, <2>9, <3>6, <3>7
    <2> QED
      BY <1>6, <2>1, <2>5, <2>6, <2>7, <2>9, <2>10 DEF PathFits
  <1> QED
    BY <1>1, <1>6, <1>8, <1>9, <1>10, <1>11 DEF PathOk

(* The sentence is the words of the path: none, or a character for each    *)
(* spelling.                                                               *)
SentenceFits(sent, n) == sent = <<>> \/ (Len(sent) = n /\ n <= kMaxLemmaSize)
LEMMA SentenceIs ==
  ASSUME NEW d, PathFits(d, BestPath(d)), NEW segs, segs = Segments(d), NEW n \in Nat, n = Len(segs)
  PROVE  SentenceFits(Sentence(d, kMaxLemmaSize), n)
  <1>1. PICK path : path = BestPath(d)
    OBVIOUS
  <1>2. PICK words : words = WordsOf(path)
    OBVIOUS
  <1>3. PICK str : str = FlattenSeq(words)
    OBVIOUS
  <1>4. Sentence(d, kMaxLemmaSize) =
          IF Len(str) > kMaxLemmaSize \/ \E k \in DOMAIN words : words[k] = <<>> THEN <<>> ELSE str
    BY <1>1, <1>2, <1>3 DEF Sentence, WordsOf
  <1>5. str \in Seq(Nat)
    BY <1>1, <1>2, <1>3 DEF PathFits
  <1>6. segs = FlattenSeq(SpeltOf(d, path))
    BY <1>1 DEF Segments, SpeltOf
  <1>7. CASE Len(str) > kMaxLemmaSize \/ \E k \in DOMAIN words : words[k] = <<>>
    BY <1>4, <1>7 DEF SentenceFits
  <1>8. CASE ~(Len(str) > kMaxLemmaSize \/ \E k \in DOMAIN words : words[k] = <<>>)
    <2>1. \A k \in DOMAIN path : LemmaStr[path[k].id] # <<>>
      <3>1. DOMAIN words = DOMAIN path /\ \A k \in DOMAIN path : words[k] = LemmaStr[path[k].id]
        BY <1>2 DEF WordsOf
      <3> QED
        BY <1>8, <3>1
    <2>2. Len(str) = n
      BY <1>1, <1>2, <1>3, <1>6, <2>1 DEF PathFits
    <2>3. n <= kMaxLemmaSize
      BY <1>8, <2>2 DEF kMaxLemmaSize
    <2> QED
      BY <1>4, <1>8, <2>2, <2>3 DEF SentenceFits
  <1> QED
    BY <1>7, <1>8

LEMMA SegmentsAre ==
  ASSUME NEW d, Good(d), AllRead(d), NEW segs, segs = Segments(d)
  PROVE  /\ IF Dead(d) THEN segs = <<>> ELSE Covers(d, segs, 0, Decoded(d))
         /\ SentenceFits(Sentence(d, kMaxLemmaSize), Len(segs))
  <1>0. PICK path : path = BestPath(d)
    OBVIOUS
  <1>1. segs = FlattenSeq(SpeltOf(d, path))
    BY <1>0 DEF Segments, SpeltOf
  <1>2. CASE Dead(d)
    <2>1. path = <<>>
      BY <1>0, <1>2 DEF BestPath
    <2>2. SpeltOf(d, path) = <<>>
      BY <2>1 DEF SpeltOf
    <2>3. segs = <<>> /\ Len(segs) = 0
      BY <1>1, <2>2, FlattenNothing
    <2>4. WordsOf(<<>>) = <<>>
      BY DEF WordsOf
    <2>5. PathFits(d, path)
      <3>1. <<>> \in Seq(Nat)
        OBVIOUS
      <3> QED
        BY <2>1, <2>2, <2>4, <3>1, FlattenNothing DEF PathFits
    <2> QED
      BY <1>0, <1>2, <2>3, <2>5, SentenceIs
  <1>3. CASE ~Dead(d)
    <2>1. PICK n \in Nat : n = Decoded(d)
      BY TypedIs DEF Good, RowsOk
    <2>2. n # 0 /\ Row(d, n).nodes # <<>>
      <3>1. Row(d, n).nodes # <<>> /\ d.pys # <<>>
        BY <1>3, <2>1 DEF Dead
      <3>2. d.pys \in Seq(97..122)
        BY DEF Good, Typed
      <3> QED
        BY <2>1, <3>1, <3>2 DEF Decoded
    <2>3. ASSUME NEW r \in 1..n, NEW k \in DOMAIN Row(d, r).nodes
          PROVE  LET node == Row(d, r).nodes[k]
                 IN  /\ node \in NodeSet /\ node.from[1] \in 0..(r - 1)
                     /\ node.from[2] \in DOMAIN Row(d, node.from[1]).nodes
                     /\ Covers(d, Spelt(d.dmis, node), node.from[1], r)
      BY <2>1, SpeltCovers
    <2>4. PICK f : /\ f[0] = [k \in DOMAIN Row(d, 0).nodes |-> <<>>]
                   /\ \A r \in 1..n : f[r] = Onward(d, f, r)
                   /\ path = f[n][1]
      <3>1. \A r \in 1..n : FromBefore(d, r)
        BY <2>3 DEF FromBefore
      <3> QED
        BY <1>0, <1>3, <2>1, <3>1, BestPathIs
    <2> DEFINE S == {r \in Nat : \A q \in 0..r : \A k \in DOMAIN Row(d, q).nodes : PathOk(d, f[q][k], q)}
    <2>5. PathOk(d, <<>>, 0)
      <3>1. SpeltOf(d, <<>>) = <<>>
        BY DEF SpeltOf
      <3>2. <<>> \in Seq(NodeSet) /\ <<>> \in Seq(Seq(SegSet)) /\ <<>> \in Seq(Nat)
        OBVIOUS
      <3>3. WordsOf(<<>>) = <<>>
        BY DEF WordsOf
      <3>4. PathFits(d, <<>>)
        BY <3>1, <3>2, <3>3, FlattenNothing DEF PathFits
      <3> QED
        BY <3>1, <3>2, <3>4, FlattenNothing, CoversNothing DEF PathOk
    <2>6. 0 \in S
      <3>1. \A k \in DOMAIN Row(d, 0).nodes : f[0][k] = <<>>
        BY <2>4
      <3> QED
        BY <2>5, <3>1
    <2>7. ASSUME NEW r \in 1..n, r - 1 \in S PROVE r \in S
      <3>1. ASSUME NEW k \in DOMAIN Row(d, r).nodes PROVE PathOk(d, f[r][k], r)
        <4>1. PICK node : node = Row(d, r).nodes[k]
          OBVIOUS
        <4>2. /\ node \in NodeSet /\ node.from[1] \in 0..(r - 1)
              /\ node.from[2] \in DOMAIN Row(d, node.from[1]).nodes
              /\ Covers(d, Spelt(d.dmis, node), node.from[1], r)
          BY <2>3, <4>1
        <4>3. PICK q, i : q = node.from[1] /\ i = node.from[2]
          OBVIOUS
        <4>4. q \in 0..(r - 1) /\ i \in DOMAIN Row(d, q).nodes
          BY <4>2, <4>3
        <4>5. PathOk(d, f[q][i], q)
          BY <2>7, <4>4
        <4>6. f[r][k] = Append(f[q][i], node)
          <5>1. f[r] = Onward(d, f, r)
            BY <2>4
          <5> QED
            BY <4>1, <4>3, <5>1 DEF Onward
        <4>7. Covers(d, Spelt(d.dmis, node), q, r) /\ q \in Nat
          BY <4>2, <4>3
        <4>8. WordFits(d, node)
          BY <2>1, <4>1, <4>2, WordsFit
        <4> QED
          BY <4>2, <4>5, <4>6, <4>7, <4>8, PathGoes
      <3>2. \A q \in 0..r : q \in 0..(r - 1) \/ q = r
        OBVIOUS
      <3>3. \A q \in 0..(r - 1) : \A k \in DOMAIN Row(d, q).nodes : PathOk(d, f[q][k], q)
        BY <2>7
      <3> QED
        BY <3>1, <3>2, <3>3
    <2>8. n \in S
      <3> HIDE DEF S
      <3>1. 0..n \subseteq S
        BY <2>6, <2>7, Upwards
      <3> QED
        BY <3>1
    <2>9. 1 \in DOMAIN Row(d, n).nodes
      <3>1. PICK nodes : nodes = Row(d, n).nodes
        OBVIOUS
      <3>2. nodes \in Seq(NodeSet) /\ nodes # <<>>
        <4>1. n \in 0..Decoded(d)
          BY <2>1
        <4> QED
          BY <2>2, <3>1, <4>1, TypedIs DEF Good, RowsOk
      <3>3. 1 \in DOMAIN nodes
        BY ONLY <3>2
      <3> QED
        BY <3>1, <3>3
    <2>10. PathOk(d, f[n][1], n)
      <3>1. n \in 0..n
        OBVIOUS
      <3> QED
        BY <2>8, <2>9, <3>1
    <2>11. PathOk(d, path, n)
      BY <2>4, <2>10
    <2>12. Covers(d, segs, 0, n)
      BY <1>1, <2>11 DEF PathOk
    <2>13. SentenceFits(Sentence(d, kMaxLemmaSize), Len(segs))
      <3>1. Len(segs) \in Nat
        BY <2>12 DEF Covers
      <3>2. PathFits(d, BestPath(d))
        BY <1>0, <2>11 DEF PathOk
      <3> QED
        BY <3>1, <3>2, SentenceIs
    <2> QED
      BY <1>3, <2>1, <2>12, <2>13
  <1> QED
    BY <1>2, <1>3

(* The segmentation that get_spl_start_id() leaves.                        *)
Segmented(d) ==
  /\ d.spl \in Seq(Ids) /\ Len(d.spl) \in Nat /\ DOMAIN d.spl = 1..Len(d.spl)
  /\ Len(d.start) = Len(d.spl) + 1 /\ d.start[1] = 0
  /\ \A k \in DOMAIN d.spl :
       /\ d.start[k] < d.start[k + 1] /\ d.start[k + 1] \in d.cleared
       /\ SplidByStr(SubSeq(d.pys, d.start[k] + 1, d.start[k + 1])).id = d.spl[k]
  /\ IF Dead(d) THEN d.spl = <<>>
     ELSE Len(d.spl) <= Decoded(d) /\ d.start[Len(d.start)] = Decoded(d)
  /\ SentenceFits(Sentence(d, kMaxLemmaSize), Len(d.spl))

LEMMA SameRead ==
  ASSUME NEW d, AllRead(d), NEW e, e.pys = d.pys, e.rows = d.rows, e.dmis = d.dmis, e.cleared = d.cleared
  PROVE  AllRead(e)
  <1>1. Decoded(e) = Decoded(d) /\ (\A r : Row(e, r) = Row(d, r)) /\ \A s : LenOf(e, s) = LenOf(d, s)
    BY DEF Decoded, Row, LenOf
  <1>2. \A r : LastRead(d, r) => LastRead(e, r)
    <2>1. \A r, k : InRow(e, r, k) <=> InRow(d, r, k)
      BY <1>1 DEF InRow
    <2>2. \A r, x : MatchRead(e, r, x) <=> MatchRead(d, r, x)
      BY <1>1 DEF MatchRead
    <2> QED
      BY <1>1, <2>1, <2>2 DEF LastRead
  <1>3. \A r, old : (Tried(e, r, old) <=> Tried(d, r, old)) /\ ReadAs(e, r, old) = ReadAs(d, r, old)
    BY <1>1 DEF Tried, ReadAs
  <1>4. ASSUME NEW r \in 1..Decoded(e) PROVE RowRead(e, r)
    <2>1. RowRead(d, r)
      BY <1>1 DEF AllRead
    <2> QED
      BY <1>1, <1>2, <1>3, <2>1 DEF RowRead
  <1> QED
    BY <1>4 DEF AllRead

LEMMA SegmentedRead ==
  ASSUME NEW d, Good(d), AllRead(d), NEW e, e = GetSplStartId(d)
  PROVE  /\ Good(e) /\ AllRead(e) /\ Segmented(e) /\ Decoded(e) = Decoded(d) /\ e.rows = d.rows
  <1>1. /\ Good(e) /\ Decoded(e) = Decoded(d) /\ e.pys = d.pys /\ e.rows = d.rows
        /\ e.dmis = d.dmis /\ e.cleared = d.cleared
    BY SegmentsGood
  <1>2. AllRead(e)
    BY <1>1, SameRead
  <1>3. PICK segs : segs = Segments(d)
    OBVIOUS
  <1>4. /\ IF Dead(d) THEN segs = <<>> ELSE Covers(d, segs, 0, Decoded(d))
        /\ SentenceFits(Sentence(e, kMaxLemmaSize), Len(segs))
    <2>1. BestPath(e) = BestPath(d)
      BY <1>1, PathIs
    <2>2. Sentence(e, kMaxLemmaSize) = Sentence(d, kMaxLemmaSize)
      BY <2>1 DEF Sentence
    <2> QED
      BY <1>3, <2>2, SegmentsAre
  <1>5. PICK spl : spl = [k \in DOMAIN segs |-> segs[k].spl]
    OBVIOUS
  <1>6. PICK ends : ends = [k \in DOMAIN segs |-> segs[k].end]
    OBVIOUS
  <1>7. e.spl = spl /\ e.start = <<0>> \o ends
    <2>1. e = [d EXCEPT !.spl = spl, !.start = <<0>> \o ends]
      BY <1>3, <1>5, <1>6 DEF GetSplStartId, SetSegments
    <2>2. Shape(d)
      BY DEF Good, Typed
    <2> QED
      BY <2>1, <2>2 DEF Shape, Fields
  <1>8. Dead(e) <=> Dead(d)
    BY <1>1 DEF Dead, Row
  <1>9. CASE Dead(d)
    <2>1. segs = <<>>
      BY <1>4, <1>9
    <2>2. spl = <<>> /\ ends = <<>>
      BY <1>5, <1>6, <2>1
    <2>3. <<0>> \o <<>> = <<0>> /\ Len(<<0>>) = 1 /\ <<0>>[1] = 0
      OBVIOUS
    <2>4. e.spl = <<>> /\ e.start = <<0>>
      BY <1>7, <2>2, <2>3
    <2>5. Len(<<>>) = 0 /\ DOMAIN <<>> = 1..0 /\ DOMAIN <<>> = {} /\ <<>> \in Seq(Ids)
      OBVIOUS
    <2> QED
      BY <1>1, <1>2, <1>4, <1>8, <1>9, <2>1, <2>3, <2>4, <2>5 DEF Segmented
  <1>10. CASE ~Dead(d)
    <2>1. Covers(d, segs, 0, Decoded(d))
      BY <1>4, <1>10
    <2>2. PICK T : T = SegSet
      OBVIOUS
    <2>3. segs \in Seq(T)
      BY <2>1, <2>2 DEF Covers
    <2>4. PICK n \in Nat : n = Len(segs)
      BY <2>3
    <2>5. /\ EndOf(segs, n, 0) = Decoded(d) /\ n <= Decoded(d) /\ Decoded(d) \in Nat
          /\ \A k \in 1..n : SegmentOk(d, EndOf(segs, k - 1, 0), segs[k])
      BY <2>1, <2>4 DEF Covers
    <2>6. DOMAIN segs = 1..n
      BY <2>3, <2>4
    <2>7. DOMAIN spl = 1..n /\ \A k \in 1..n : spl[k] = segs[k].spl
      BY <1>5, <2>6
    <2>8. spl \in Seq(Ids) /\ Len(spl) = n
      <3>1. PICK I : I = Ids
        OBVIOUS
      <3>2. \A k \in 1..n : segs[k] \in T
        BY <2>3, <2>6
      <3>3. \A k \in 1..n : spl[k] \in I
        BY <2>2, <2>7, <3>1, <3>2 DEF SegSet
      <3>4. spl \in [1..n -> I]
        BY <1>5, <2>6, <2>7, <3>3
      <3>5. spl \in Seq(I) /\ Len(spl) = n
        BY ONLY <3>4, n \in Nat
      <3> QED
        BY <3>1, <3>5
    <2>9. ends \in Seq(Nat) /\ Len(ends) = n /\ \A k \in 1..n : ends[k] = segs[k].end
      <3>1. \A k \in 1..n : segs[k] \in T
        BY <2>3, <2>6
      <3>2. \A k \in 1..n : segs[k].end \in Nat
        BY <2>2, <3>1 DEF SegSet
      <3>3. ends \in [1..n -> Nat]
        BY <1>6, <2>6, <3>2
      <3> QED
        BY <1>6, <2>6, <3>3
    <2>10. PICK start : start = <<0>> \o ends
      OBVIOUS
    <2>11. Len(start) = n + 1 /\ start[1] = 0 /\ \A k \in 1..n : start[k + 1] = ends[k]
      <3>1. <<0>> \in Seq(Nat) /\ Len(<<0>>) = 1 /\ <<0>>[1] = 0
        OBVIOUS
      <3> QED
        BY ONLY <2>9, <2>10, <3>1, n \in Nat
    <2>12. ASSUME NEW k \in 0..n PROVE EndOf(segs, k, 0) = start[k + 1]
      <3>1. CASE k = 0
        BY <2>11, <3>1 DEF EndOf
      <3>2. CASE k # 0
        <4>1. k \in 1..n
          BY <3>2
        <4> QED
          BY <2>9, <2>11, <3>2, <4>1 DEF EndOf
      <3> QED
        BY <3>1, <3>2
    <2>13. ASSUME NEW k \in 1..n
           PROVE  /\ start[k] < start[k + 1] /\ start[k + 1] \in d.cleared
                  /\ SplidByStr(SubSeq(d.pys, start[k] + 1, start[k + 1])).id = spl[k]
      <3>1. k - 1 \in 0..n /\ k \in 0..n /\ (k - 1) + 1 = k
        OBVIOUS
      <3>2. EndOf(segs, k - 1, 0) = start[k] /\ segs[k].end = start[k + 1]
        BY <2>9, <2>11, <2>12, <3>1
      <3>3. SegmentOk(d, start[k], segs[k])
        BY <2>5, <3>2
      <3> QED
        BY <2>7, <3>2, <3>3 DEF SegmentOk, ReadAs
    <2>14. start[n + 1] = Decoded(d)
      <3>1. n \in 0..n
        OBVIOUS
      <3> QED
        BY <2>5, <2>12, <3>1
    <2>15. Segmented(e)
      <3>1. e.spl = spl /\ e.start = start /\ Decoded(e) = Decoded(d) /\ ~Dead(e)
        BY <1>1, <1>7, <1>8, <1>10, <2>10
      <3>2. SentenceFits(Sentence(e, kMaxLemmaSize), n)
        BY <1>4, <2>4
      <3> QED
        BY <1>1, <2>5, <2>7, <2>8, <2>11, <2>13, <2>14, <3>1, <3>2 DEF Segmented
    <2> QED
      BY <1>1, <1>2, <2>15
  <1> QED
    BY <1>9, <1>10

(* Each round that cuts takes the last letter; the last one never goes,    *)
(* since it is one spelling only.                                          *)
Short(d, n) ==
  Good(d) /\ AllRead(d) /\ Segmented(d) /\ (Len(d.spl) <= kMaxSpellings \/ Decoded(d) <= n)

LEMMA CutToRead ==
  ASSUME NEW d, NEW n \in Nat, Short(d, n + 1), NEW e, e = CutTo(d, n)
  PROVE  Short(e, n) /\ (Decoded(d) >= 1 => Decoded(e) >= 1)
  <1>1. Good(d) /\ AllRead(d) /\ Segmented(d)
    BY DEF Short
  <1>2. CASE Len(d.spl) <= kMaxSpellings
    <2>1. e = d
      BY <1>2 DEF CutTo
    <2> QED
      BY <1>1, <1>2, <2>1 DEF Short
  <1>3. CASE ~(Len(d.spl) <= kMaxSpellings)
    <2>1. PICK p \in Nat, max \in Nat \ {0} : p = Decoded(d) /\ max = kMaxSpellings
      BY <1>1, Sizes, TypedIs DEF Good, RowsOk
    <2>2. p <= n + 1
      BY <1>3, <2>1 DEF Short
    <2>3. PICK l \in Nat : l = Len(d.spl)
      BY <1>1 DEF Segmented
    <2>4. l > max
      BY <1>3, <2>1, <2>3
    <2>5. ~Dead(d)
      <3>1. d.spl # <<>>
        BY <2>3, <2>4
      <3> QED
        BY <1>1, <3>1 DEF Segmented
    <2>6. l <= p
      BY <1>1, <2>1, <2>3, <2>5 DEF Segmented
    <2>7. n >= 1 /\ p >= 1
      BY <2>2, <2>4, <2>6
    <2>8. PICK c : c = ResetSearch(d, n)
      OBVIOUS
    <2>9. Good(c) /\ AllRead(c) /\ Decoded(c) \in Nat /\ Decoded(c) <= n /\ Decoded(c) >= 1
      <3>1. CASE n > p
        <4>1. c = d
          BY <2>1, <2>8, <3>1 DEF ResetSearch
        <4> QED
          BY <1>1, <2>1, <2>7, <3>1, <4>1
      <3>2. CASE ~(n > p)
        <4>1. n \in 0..Decoded(d)
          BY <2>1, <3>2
        <4>2. Good(c) /\ CutAt(d, n, c)
          BY <1>1, <2>8, <4>1, ResetSearchIs
        <4>3. AllRead(c)
          BY <1>1, <4>1, <4>2, CutRead
        <4>4. Decoded(c) = n
          BY <4>2 DEF CutAt
        <4> QED
          BY <2>7, <4>2, <4>3, <4>4
      <3> QED
        BY <3>1, <3>2
    <2>10. e = GetSplStartId(c)
      BY <1>3, <2>8 DEF CutTo
    <2>11. Good(e) /\ AllRead(e) /\ Segmented(e) /\ Decoded(e) = Decoded(c)
      BY <2>9, <2>10, SegmentedRead
    <2> QED
      BY <2>9, <2>11 DEF Short
  <1> QED
    BY <1>2, <1>3

LEMMA CutSpellingsRead ==
  ASSUME NEW d, NEW len \in Nat, Short(d, len), NEW e, e = CutSpellings(d, len)
  PROVE  /\ Good(e) /\ AllRead(e) /\ Segmented(e) /\ Len(e.spl) <= kMaxSpellings
         /\ Decoded(d) >= 1 => Decoded(e) >= 1
  <1>1. PICK f : /\ f[0] = d /\ \A k \in (0 + 1)..(len) : f[k] = CutTo(f[k - 1], len - k)
                 /\ CutSpellings(d, len) = f[len]
    BY CutLoop
  <1> DEFINE S == {k \in Nat : Short(f[k], len - k) /\ (Decoded(d) >= 1 => Decoded(f[k]) >= 1)}
  <1>2. 0 \in S
    <2>1. len - 0 = len
      OBVIOUS
    <2> QED
      BY <1>1, <2>1
  <1>3. ASSUME NEW k \in 1..len, k - 1 \in S PROVE k \in S
    <2>1. PICK n \in Nat : n = len - k
      OBVIOUS
    <2>2. PICK v : v = f[k - 1]
      OBVIOUS
    <2>3. len - (k - 1) = n + 1 /\ k \in (0 + 1)..len /\ k \in Nat
      BY <2>1
    <2>4. f[k] = CutTo(v, n)
      BY <1>1, <2>1, <2>2, <2>3
    <2>5. Short(v, n + 1) /\ (Decoded(d) >= 1 => Decoded(v) >= 1)
      BY <1>3, <2>2, <2>3
    <2>6. Short(f[k], n) /\ (Decoded(v) >= 1 => Decoded(f[k]) >= 1)
      BY <2>4, <2>5, CutToRead
    <2> QED
      BY <2>1, <2>3, <2>5, <2>6
  <1>4. len \in S
    <2> HIDE DEF S
    <2>1. 0..len \subseteq S
      BY <1>2, <1>3, Upwards
    <2> QED
      BY <2>1
  <1>5. Short(e, 0) /\ (Decoded(d) >= 1 => Decoded(e) >= 1)
    <2>1. len - len = 0
      OBVIOUS
    <2> QED
      BY <1>1, <1>4, <2>1
  <1>6. Good(e) /\ AllRead(e) /\ Segmented(e) /\ (Len(e.spl) <= kMaxSpellings \/ Decoded(e) <= 0)
    BY <1>5 DEF Short
  <1>7. Len(e.spl) <= kMaxSpellings
    <2>1. CASE Decoded(e) <= 0
      <3>1. Len(e.spl) = 0
        <4>1. Dead(e) => Len(e.spl) = 0
          BY <1>6 DEF Segmented
        <4>2. ~Dead(e) => Len(e.spl) <= Decoded(e) /\ Len(e.spl) \in Nat
          BY <1>6 DEF Segmented
        <4>3. Decoded(e) \in Nat
          BY <1>6, TypedIs DEF Good, RowsOk
        <4> QED
          BY <2>1, <4>1, <4>2, <4>3
      <3> QED
        BY <3>1, Sizes
    <2> QED
      BY <1>6, <2>1
  <1> QED
    BY <1>5, <1>6, <1>7

(* What a search reads of a string s.                                      *)
CoverOf(d, s) ==
  /\ Len(d.start) = Len(d.spl) + 1 /\ Len(d.spl) <= kMaxSpellings
  /\ d.start[1] = 0
  /\ \A k \in DOMAIN d.spl :
       /\ d.start[k] < d.start[k + 1] /\ d.start[k + 1] \in d.cleared
       /\ SplidByStr(SubSeq(d.pys, d.start[k] + 1, d.start[k + 1])).id = d.spl[k]
  /\ d.spl # <<>> => d.start[Len(d.start)] = Decoded(d)
  /\ d.spl = <<>> =>
       \/ s = <<>> \/ <<s[1]>> \notin SplNodes
       \/ \E k \in 1..Decoded(d) : SubSeq(d.pys, k, Decoded(d)) \in Unfinished

(* What a search lists for the spellings.                                  *)
Longest(d) == IF Len(d.spl) < kMaxLemmaSize THEN Len(d.spl) ELSE kMaxLemmaSize
Offered(d) ==
  /\ d.spl \in Seq(Ids)
  /\ Collected(d.spl, Longest(d), Sentence(d, kMaxLemmaSize), 1, d.lpis)

LEMMA OfferedIs ==
  ASSUME NEW d, d.spl \in Seq(Ids), SentenceFits(Sentence(d, kMaxLemmaSize), Len(d.spl)), Shape(d),
         NEW e, e = PrepareCandidates(d)
  PROVE  Offered(e)
  <1>1. PICK spl, sent, max : spl = d.spl /\ sent = Sentence(d, kMaxLemmaSize) /\ max = Longest(d)
    OBVIOUS
  <1>2. PICK n \in Nat : n = Len(spl)
    BY <1>1
  <1>3. max = (IF n < 8 THEN n ELSE 8) /\ max \in Nat /\ max <= n
    BY <1>1, <1>2 DEF Longest, kMaxLemmaSize
  <1>4. sent = <<>> \/ Len(sent) = max
    <2>1. sent = <<>> \/ (Len(sent) = n /\ n <= 8)
      BY <1>1, <1>2 DEF SentenceFits, kMaxLemmaSize
    <2>2. n <= 8 => max = n
      BY <1>3
    <2> QED
      BY <2>1, <2>2
  <1>5. PICK list : list = InOrder(Collect(spl, max, sent), max)
    OBVIOUS
  <1>6. Collected(spl, max, sent, 1, list)
    BY <1>1, <1>2, <1>3, <1>4, <1>5, ListedAll
  <1>7. e = [d EXCEPT !.lpis = list]
    BY <1>1, <1>5 DEF PrepareCandidates, Longest
  <1>8. e.spl = spl /\ e.lpis = list /\ e.pys = d.pys /\ e.rows = d.rows
    BY <1>1, <1>7 DEF Shape, Fields
  <1>9. Sentence(e, kMaxLemmaSize) = sent
    <2>1. BestPath(e) = BestPath(d)
      BY <1>8, PathIs
    <2> QED
      BY <1>1, <2>1 DEF Sentence
  <1>10. Longest(e) = max
    BY <1>1, <1>8 DEF Longest
  <1> QED
    BY <1>1, <1>6, <1>8, <1>9, <1>10 DEF Offered

LEMMA SearchRead ==
  ASSUME NEW d, Good(d), Fits(d), AllRead(d), NEW s \in Seq(97..122), NEW e, e = SearchFor(d, s)
  PROVE  AllRead(e) /\ CoverOf(e, s) /\ Offered(e)
  <1>1. PICK r : r = Resumed(d, s)
    OBVIOUS
  <1>2. Good(r) /\ Fits(r)
    BY <1>1, ResumedGood
  <1>3. /\ AllRead(r) /\ Decoded(r) <= Len(Taken(s))
        /\ Decoded(r) = 0 => s = <<>> \/ <<s[1]>> \notin SplNodes
    BY <1>1, ResumedRead
  <1>4. PICK g : g = GetSplStartId(r)
    OBVIOUS
  <1>5. PICK len \in Nat : len = Len(Taken(s))
    BY TakenIs
  <1>6. Good(g) /\ AllRead(g) /\ Segmented(g) /\ Decoded(g) = Decoded(r)
    BY <1>2, <1>3, <1>4, SegmentedRead
  <1>7. Short(g, len)
    BY <1>3, <1>5, <1>6 DEF Short
  <1>8. PICK c : c = CutSpellings(g, len)
    OBVIOUS
  <1>9. /\ Good(c) /\ AllRead(c) /\ Segmented(c) /\ Len(c.spl) <= kMaxSpellings
        /\ Decoded(g) >= 1 => Decoded(c) >= 1
    BY <1>7, <1>8, CutSpellingsRead
  <1>10. e = PrepareCandidates(c)
    BY <1>1, <1>4, <1>5, <1>8 DEF SearchFor
  <1>11. /\ Decoded(e) = Decoded(c) /\ e.pys = c.pys /\ e.rows = c.rows /\ e.dmis = c.dmis
         /\ e.cleared = c.cleared
    BY <1>9, <1>10, PreparedGood
  <1>12. e.spl = c.spl /\ e.start = c.start
    <2>1. PICK x : e = [c EXCEPT !.lpis = x]
      BY <1>10 DEF PrepareCandidates
    <2>2. Shape(c)
      BY <1>9 DEF Good, Typed
    <2> QED
      BY <2>1, <2>2 DEF Shape, Fields
  <1>13. AllRead(e)
    BY <1>9, <1>11, SameRead
  <1>14. Dead(e) <=> Dead(c)
    BY <1>11 DEF Dead, Row
  <1>15. ASSUME e.spl = <<>>
         PROVE  \/ s = <<>> \/ <<s[1]>> \notin SplNodes
                \/ \E k \in 1..Decoded(e) : SubSeq(e.pys, k, Decoded(e)) \in Unfinished
    <2>1. PICK n \in Nat : n = Decoded(e)
      BY <1>9, <1>11, TypedIs DEF Good, RowsOk
    <2>2. CASE n = 0
      <3>1. Decoded(r) \in Nat
        BY <1>2, TypedIs DEF Good, RowsOk
      <3>2. Decoded(r) = 0
        BY <1>6, <1>9, <1>11, <2>1, <2>2, <3>1
      <3> QED
        BY <1>3, <3>2
    <2>3. CASE n # 0
      <3>1. Dead(e)
        <4>1. SUFFICES ASSUME ~Dead(e) PROVE FALSE
          OBVIOUS
        <4>2. Len(c.start) = Len(c.spl) + 1 /\ c.start[1] = 0 /\ c.start[Len(c.start)] = Decoded(c)
          BY <1>9, <1>14, <4>1 DEF Segmented
        <4>3. Len(c.spl) = 0
          BY <1>12, <1>15
        <4>4. Len(c.start) = 1
          BY <4>2, <4>3
        <4> QED
          BY <1>11, <2>1, <2>3, <4>2, <4>4
      <3>2. e.pys # <<>>
        BY <2>1, <2>3 DEF Decoded
      <3>3. Row(e, n).nodes = <<>>
        BY <2>1, <3>1, <3>2 DEF Dead
      <3>4. RowRead(e, n)
        BY <1>13, <2>1, <2>3 DEF AllRead
      <3> QED
        BY <2>1, <3>3, <3>4 DEF RowRead
    <2> QED
      BY <2>2, <2>3
  <1>16. e.spl # <<>> => e.start[Len(e.start)] = Decoded(e)
    BY <1>9, <1>11, <1>12 DEF Segmented
  <1>17. CoverOf(e, s)
    BY <1>9, <1>11, <1>12, <1>15, <1>16 DEF CoverOf, Segmented
  <1>18. Offered(e)
    <2>1. Shape(c) /\ c.spl \in Seq(Ids) /\ SentenceFits(Sentence(c, kMaxLemmaSize), Len(c.spl))
      BY <1>9 DEF Good, Typed, Segmented
    <2> QED
      BY <1>10, <2>1, OfferedIs
  <1> QED
    BY <1>13, <1>17, <1>18

LEMMA CoverIs ==
  SegmentsCover <=> CoverOf(m, asked)
  BY DEF SegmentsCover, CoverOf, Unfinished

(* The inductive invariant: the decoder is good, and what its rows hold is *)
(* what their letters were read as.                                        *)
HoldsRead == Holds /\ AllRead(m) /\ SegmentsCover

LEMMA DecoderReads == Spec => []HoldsRead
  <1>1. Init => HoldsRead
    <2> SUFFICES ASSUME Init PROVE HoldsRead
      OBVIOUS
    <2>1. m = Closed /\ asked = <<>>
      BY DEF Init
    <2>2. Good(m) /\ Fits(m) /\ Decoded(m) = 0
      BY <2>1, ClosedIs
    <2>3. AllRead(m)
      BY <2>2 DEF AllRead
    <2>4. CoverOf(m, asked)
      <3>1. m.spl = <<>> /\ m.start = <<0>>
        BY <2>1 DEF Closed
      <3>2. Len(<<>>) = 0 /\ Len(<<0>>) = 1 /\ <<0>>[1] = 0 /\ DOMAIN <<>> = {}
        OBVIOUS
      <3>3. 0 <= kMaxSpellings
        BY Sizes
      <3> QED
        BY <2>1, <3>1, <3>2, <3>3 DEF CoverOf
    <2> QED
      BY <2>2, <2>3, <2>4, CoverIs DEF HoldsRead, Holds
  <1>2. HoldsRead /\ [Next]_vars => HoldsRead'
    <2> SUFFICES ASSUME HoldsRead, [Next]_vars PROVE HoldsRead'
      OBVIOUS
    <2>0. HoldsRead' <=> Good(m') /\ Fits(m') /\ AllRead(m') /\ CoverOf(m', asked')
      BY CoverIs DEF HoldsRead, Holds, SegmentsCover, CoverOf, Unfinished
    <2>1. ASSUME NEW s \in Queries, Search(s) PROVE HoldsRead'
      <3>1. s \in Seq(97..122) /\ Good(m) /\ Fits(m) /\ AllRead(m)
        BY QueriesAre DEF HoldsRead, Holds
      <3>2. PICK e : e = SearchFor(m, s)
        OBVIOUS
      <3>3. Good(e) /\ Fits(e)
        BY <3>1, <3>2, SearchGood
      <3>4. AllRead(e) /\ CoverOf(e, s)
        BY <3>1, <3>2, SearchRead
      <3>5. m' = e /\ asked' = s
        BY <2>1, <3>2 DEF Search
      <3> QED
        BY <2>0, <3>3, <3>4, <3>5
    <2>2. ASSUME UNCHANGED vars PROVE HoldsRead'
      <3>1. m' = m /\ asked' = asked
        BY <2>2 DEF vars
      <3> QED
        BY <2>0, <3>1, CoverIs DEF HoldsRead, Holds
    <2> QED
      BY <2>1, <2>2 DEF Next
  <1> QED
    BY <1>1, <1>2, PTL DEF Spec

(* Whatever was searched before, the segmentation get_spl_start_id() reads *)
(* off the best path leaves no letter out, each piece is the spelling of   *)
(* its letters and ends at a row whose fixed node was cleared, and what    *)
(* search() cuts off leaves at most kMaxSpellings of them; there is none   *)
(* only when the letters cannot be cut into spellings.                     *)
THEOREM DecoderSegmentsCover == Spec => []SegmentsCover
  <1>1. HoldsRead => SegmentsCover
    BY DEF HoldsRead
  <1> QED
    BY <1>1, DecoderReads, PTL

(***************************************************************************)
(* The candidates.                                                         *)
(***************************************************************************)
LEMMA ForIs ==
  ASSUME m.spl \in Seq(Ids), NEW n \in 1..Len(m.spl), NEW id \in LemmaIds
  PROVE  IsFor(id, n) <=> IsForAll(SubSeq(m.spl, 1, n), id)
  <1>1. PICK k \in Nat : k = Len(m.spl)
    OBVIOUS
  <1>2. PICK s : s = SubSeq(m.spl, 1, n)
    OBVIOUS
  <1>3. n \in Nat \ {0} /\ s \in Seq(Ids) /\ Len(s) = n /\ \A i \in 1..n : s[i] = m.spl[i]
    BY <1>1, <1>2
  <1>4. PICK spl : spl = Lemmas[id].spl
    OBVIOUS
  <1>5. IsForAll(s, id) <=> /\ Len(spl) = n /\ \A i \in 1..n : spl[i] \in IdRange(s[i])
                            /\ n = 1 /\ IsHalfIdYunmu(s[1]) => spl[1] = IdStart(s[1])
    BY <1>3, <1>4 DEF IsForAll, Among
  <1>6. IsFor(id, n) <=> /\ Len(spl) = n /\ \A i \in 1..n : spl[i] \in IdRange(m.spl[i])
                         /\ n = 1 /\ IsHalfIdYunmu(m.spl[1]) => spl[1] = IdStart(m.spl[1])
    BY <1>4 DEF IsFor
  <1>7. s[1] = m.spl[1]
    <2>1. 1 \in 1..n
      BY <1>3
    <2> QED
      BY <1>3, <2>1
  <1>8. \A i \in 1..n : spl[i] \in IdRange(s[i]) <=> spl[i] \in IdRange(m.spl[i])
    BY <1>3
  <1> QED
    BY <1>2, <1>5, <1>6, <1>7, <1>8

(* Twice in the list is twice in the dictionary.                           *)
LEMMA TwiceIs ==
  ASSUME m.spl \in Seq(Ids), NEW n \in 1..Len(m.spl), NEW sent, SplTwice(SubSeq(m.spl, 1, n), sent)
  PROVE  SentenceTwice(sent)
  <1>1. PICK s : s = SubSeq(m.spl, 1, n)
    OBVIOUS
  <1>2. n \in Nat \ {0} /\ Len(s) = n
    <2>1. PICK k \in Nat : k = Len(m.spl)
      OBVIOUS
    <2> QED
      BY <1>1, <2>1
  <1>3. PICK i \in LemmaIds, j \in LemmaIds :
          /\ LemmaStr[i] = sent /\ LemmaStr[j] = sent /\ Len(s) # 1
          /\ IsForAll(s, i) /\ IsForAll(s, j)
          /\ Before(Lemmas[i].spl, Lemmas[j].spl) /\ LmaPsb[j] < LmaPsb[i]
    BY <1>1 DEF SplTwice
  <1>4. sent # <<>>
    BY <1>1, NeverTwice
  <1>5. i # LemmaNum /\ j # LemmaNum
    BY <1>3, <1>4, WordsAre
  <1>6. Lemmas[i].word = sent /\ Lemmas[j].word = sent
    BY <1>3, <1>5, WordsAre
  <1>7. Len(sent) = n
    <2>1. Len(Lemmas[i].spl) = n
      BY <1>2, <1>3 DEF IsForAll
    <2> QED
      BY <1>6, <2>1, WordsAre
  <1>8. IsFor(i, n) /\ IsFor(j, n)
    BY <1>1, <1>3, ForIs
  <1>9. Len(sent) > 1
    BY <1>2, <1>3, <1>7
  <1> QED
    BY <1>3, <1>6, <1>7, <1>8, <1>9 DEF SentenceTwice

LEMMA OfferedMatch ==
  ASSUME Offered(m)
  PROVE  CandidatesMatch
  <1> DEFINE words == [k \in 1..Len(m.lpis) |-> CandidateStr(m, k, 240)]
             sent  == Sentence(m, kMaxLemmaSize)
  <1>1. words = [k \in 1..Len(m.lpis) |-> CandidateStr(m, k, 240)]
    OBVIOUS
  <1>2. sent = Sentence(m, kMaxLemmaSize)
    OBVIOUS
  <1> HIDE DEF words, sent
  <1>3. PICK max : max = Longest(m)
    OBVIOUS
  <1>4. m.spl \in Seq(Ids) /\ Collected(m.spl, max, sent, 1, m.lpis)
    BY <1>2, <1>3 DEF Offered
  <1>5. PICK l \in Nat : l = Len(m.spl)
    BY <1>4
  <1>6. max = (IF l < 8 THEN l ELSE 8) /\ max \in Nat /\ max <= l
    BY <1>3, <1>5 DEF Longest, kMaxLemmaSize
  <1>7. PICK c \in Nat : c = Len(m.lpis) /\ DOMAIN m.lpis = 1..c
    BY <1>4 DEF Collected
  <1>8. DOMAIN words = 1..c /\ Len(words) = c /\ \A k \in 1..c : words[k] = LemmaStr[m.lpis[k].id]
    <2>1. ASSUME NEW k \in 1..c PROVE CandidateStr(m, k, 240) = LemmaStr[m.lpis[k].id]
      <3>1. k # 0 /\ m.lpis # <<>>
        BY <1>7
      <3> QED
        BY <3>1 DEF CandidateStr
    <2>2. words = [k \in 1..c |-> LemmaStr[m.lpis[k].id]]
      BY <1>1, <1>7, <2>1
    <2> QED
      BY <2>2
  <1>9. ASSUME NEW k \in DOMAIN m.lpis
        PROVE  /\ IsFor(m.lpis[k].id, m.lpis[k].len)
               /\ m.lpis[k].id # LemmaNum =>
                    LemmaSplids(m.lpis[k].id, SubSeq(m.spl, 1, m.lpis[k].len)) =
                      {Lemmas[m.lpis[k].id].spl}
    <2>1. PICK id, n : id = m.lpis[k].id /\ n = m.lpis[k].len
      OBVIOUS
    <2>2. id \in LemmaIds /\ n \in 1..max /\ IsForAll(SubSeq(m.spl, 1, n), id)
      BY <1>4, <2>1 DEF Collected, ItemGood, ItemSet
    <2>3. n \in 1..Len(m.spl)
      BY <1>5, <1>6, <2>2
    <2>4. IsFor(id, n)
      BY <1>4, <2>2, <2>3, ForIs
    <2>5. PICK known : known = SubSeq(m.spl, 1, n)
      OBVIOUS
    <2>6. known \in Seq(Ids)
      BY <1>4, <1>5, <2>3, <2>5
    <2>7. id # LemmaNum => LemmaSplids(id, known) = {Lemmas[id].spl}
      BY <2>2, <2>5, <2>6, SpellingFound
    <2> QED
      BY <2>1, <2>4, <2>5, <2>7
  <1>10. ASSUME NEW j \in DOMAIN words, NEW k \in DOMAIN words, j < k PROVE words[j] # words[k]
    <2>1. j \in DOMAIN m.lpis /\ k \in DOMAIN m.lpis /\ j # k
      BY <1>7, <1>8, <1>10
    <2>2. ~SameWord(m.lpis[j], m.lpis[k])
      BY <1>4, <2>1 DEF Collected
    <2> QED
      BY <1>8, <2>2 DEF SameWord
  <1>11. ASSUME ~SentenceTwice(sent)
         PROVE  /\ \A k \in DOMAIN words : sent # <<>> => words[k] # sent
                /\ \A n \in 1..Len(m.spl) : \A id \in LemmaIds \ {LemmaNum} :
                     IsFor(id, n) => \/ Lemmas[id].word = sent
                                    \/ \E k \in DOMAIN words : words[k] = Lemmas[id].word
    <2>1. ASSUME NEW n \in 1..max PROVE ~SplTwice(SubSeq(m.spl, 1, n), sent)
      <3>1. n \in 1..Len(m.spl)
        BY <1>5, <1>6
      <3> QED
        BY <1>4, <1>11, <3>1, TwiceIs
    <2>2. /\ \A x \in DOMAIN m.lpis : sent # <<>> => LemmaStr[m.lpis[x].id] # sent
          /\ \A n \in 1..max : \A id \in LemmaIds \ {LemmaNum} :
               IsForAll(SubSeq(m.spl, 1, n), id) =>
                 \/ LemmaStr[id] = sent
                 \/ \E x \in DOMAIN m.lpis : LemmaStr[m.lpis[x].id] = LemmaStr[id]
      BY <1>4, <2>1 DEF Collected
    <2>3. ASSUME NEW n \in 1..Len(m.spl), NEW id \in LemmaIds \ {LemmaNum}, IsFor(id, n)
          PROVE  Lemmas[id].word = sent \/ \E k \in DOMAIN words : words[k] = Lemmas[id].word
      <3>1. LemmaStr[id] = Lemmas[id].word
        BY WordsAre
      <3>2. n \in 1..max
        <4>1. Len(Lemmas[id].spl) = n
          BY <2>3 DEF IsFor
        <4>2. n \in 1..8
          BY <4>1, WordsAre DEF kMaxLemmaSize
        <4> QED
          BY <1>5, <1>6, <4>2
      <3>3. IsForAll(SubSeq(m.spl, 1, n), id)
        BY <1>4, <2>3, ForIs
      <3>4. CASE LemmaStr[id] = sent
        BY <3>1, <3>4
      <3>5. CASE LemmaStr[id] # sent
        <4>1. PICK x \in DOMAIN m.lpis : LemmaStr[m.lpis[x].id] = LemmaStr[id]
          BY <2>2, <3>2, <3>3, <3>5
        <4>2. x \in DOMAIN words /\ words[x] = Lemmas[id].word
          BY <1>7, <1>8, <3>1, <4>1
        <4> QED
          BY <4>2
      <3> QED
        BY <3>4, <3>5
    <2>4. \A k \in DOMAIN words : sent # <<>> => words[k] # sent
      BY <1>7, <1>8, <2>2
    <2> QED
      BY <2>3, <2>4
  <1>12. Dead(m) \/ CandidateNum(m) = 1 + Len(words)
    BY <1>7, <1>8 DEF CandidateNum
  <1>13. \/ SentenceTwice(sent)
         \/ /\ \A k \in DOMAIN words : sent # <<>> => words[k] # sent
            /\ \A n \in 1..Len(m.spl) : \A id \in LemmaIds \ {LemmaNum} :
                 IsFor(id, n) => \/ Lemmas[id].word = sent
                                \/ \E k \in DOMAIN words : words[k] = Lemmas[id].word
    BY <1>11
  <1> QED
    BY ONLY <1>9, <1>10, <1>12, <1>13, Zenon DEF CandidatesMatch, words, sent

(* Whatever was searched before, the list offered is, each once, every     *)
(* word the dictionary has for the first spellings, and the sentence: the  *)
(* sorting, the removal of repeated words and the order of the rounds in   *)
(* get_lpis() and prepare_candidates() lose none and repeat none, unless   *)
(* the sentence is in the dictionary twice; and get_lemma_splids() finds   *)
(* each word's own spelling again, no other.                               *)
THEOREM DecoderCandidatesMatch == Spec => []CandidatesMatch
  <1>1. Init => Offered(m)
    <2> SUFFICES ASSUME Init PROVE Offered(m)
      OBVIOUS
    <2>1. m.spl = <<>> /\ m.lpis = <<>>
      BY DEF Init, Closed
    <2>2. Len(<<>>) = 0 /\ <<>> \in Seq(Ids) /\ <<>> \in Seq(ItemSet) /\ DOMAIN <<>> = {}
      OBVIOUS
    <2>3. Longest(m) = 0
      BY <2>1, <2>2 DEF Longest, kMaxLemmaSize
    <2>4. 1..0 = {}
      OBVIOUS
    <2> QED
      BY <2>1, <2>2, <2>3, <2>4 DEF Offered, Collected
  <1>2. Offered(m) /\ HoldsRead /\ [Next]_vars => Offered(m)'
    <2> SUFFICES ASSUME Offered(m), HoldsRead, [Next]_vars PROVE Offered(m')
      OBVIOUS
    <2>1. ASSUME NEW s \in Queries, Search(s) PROVE Offered(m')
      <3>1. s \in Seq(97..122) /\ Good(m) /\ Fits(m) /\ AllRead(m)
        BY QueriesAre DEF HoldsRead, Holds
      <3>2. PICK e : e = SearchFor(m, s)
        OBVIOUS
      <3>3. Offered(e)
        BY <3>1, <3>2, SearchRead
      <3>4. m' = e
        BY <2>1, <3>2 DEF Search
      <3> QED
        BY <3>3, <3>4
    <2>2. ASSUME UNCHANGED vars PROVE Offered(m')
      <3>1. m' = m
        BY <2>2 DEF vars
      <3> QED
        BY <3>1
    <2> QED
      BY <2>1, <2>2 DEF Next
  <1>3. Offered(m) => CandidatesMatch
    BY OfferedMatch
  <1> QED
    BY <1>1, <1>2, <1>3, DecoderReads, PTL DEF Spec
=============================================================================
