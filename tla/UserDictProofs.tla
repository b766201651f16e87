--------------------------- MODULE UserDictProofs ---------------------------
(***************************************************************************)
(* For any lemmas, queries, sizes of the caches, room, limit and ratio:    *)
(* lookups are right whatever is cached, what is flushed is read back, and *)
(* a lemma is put once.                                                    *)
(***************************************************************************)
EXTENDS UserDict, FiniteSetTheorems, SequenceTheorems, WellFoundedInduction, TLAPS

(***************************************************************************)
(* Numbers, and recursion over them.                                       *)
(***************************************************************************)
LEMMA LeastNumber ==
  ASSUME NEW S, S \subseteq Nat, S # {}
  PROVE  Least(S) \in S /\ \A k \in S : Least(S) <= k
  <1>1. PICK n \in S : \A k \in S : ~(<<k, n>> \in OpToRel(<, Nat))
    BY NatLessThanWellFounded, WFMin
  <1>2. \A k \in S : ~(k < n)
    BY <1>1 DEF OpToRel
  <1>3. \A k \in S : n <= k
    BY <1>2
  <1> QED
    BY <1>3 DEF Least

(* Induction over the naturals, for a set.                                 *)
LEMMA Induction ==
  ASSUME NEW S, 0 \in S, \A n \in Nat : n \in S => n + 1 \in S
  PROVE  Nat \subseteq S
  <1> SUFFICES ASSUME Nat \ S # {} PROVE FALSE
    OBVIOUS
  <1>1. PICK n \in Nat \ S : \A k \in Nat \ S : n <= k
    BY LeastNumber
  <1>2. n # 0
    BY <1>1
  <1>3. n - 1 \in Nat /\ ~(n <= n - 1)
    BY <1>1, <1>2
  <1>4. n - 1 \in S
    BY <1>1, <1>3
  <1>5. (n - 1) + 1 \in S
    BY <1>3, <1>4
  <1> QED
    BY <1>1, <1>5

(* A step that stays in V can be repeated from first to last.              *)
Repeats(f, base, first, last, step) ==
  f = [k \in first..last |-> IF k = first THEN base ELSE step[<<k, f[k - 1]>>]]

LEMMA Repetition ==
  ASSUME NEW V, NEW base \in V, NEW first \in Nat, NEW last \in Nat,
         NEW step, \A k \in Nat, v \in V : step[<<k, v>>] \in V
  PROVE  \E f : Repeats(f, base, first, last, step)
  <1> DEFINE Upto(m, f) ==
               /\ f = [k \in first..m |-> IF k = first THEN base ELSE step[<<k, f[k - 1]>>]]
               /\ \A k \in first..m : f[k] \in V
             S == {n \in Nat : \E f : Upto(first + n, f)}
  <1>1. 0 \in S
    <2>1. Upto(first, [k \in first..first |-> base])
      OBVIOUS
    <2>2. first + 0 = first
      OBVIOUS
    <2> QED
      BY <2>1, <2>2
  <1>2. ASSUME NEW n \in Nat, n \in S PROVE n + 1 \in S
    <2>1. PICK f : Upto(first + n, f)
      BY <1>2
    <2> DEFINE m == first + n
               g == [k \in first..(m + 1) |-> IF k \in first..m THEN f[k] ELSE step[<<m + 1, f[m]>>]]
    <2>2. \A k \in first..m : g[k] = f[k] /\ f[k] \in V
      BY <2>1
    <2>3. g[m + 1] = step[<<m + 1, f[m]>>] /\ g[m + 1] \in V
      <3>1. m \in first..m /\ m + 1 \notin first..m /\ m + 1 \in first..(m + 1) /\ m + 1 \in Nat
        OBVIOUS
      <3> QED
        BY <2>1, <3>1
    <2>4. ASSUME NEW k \in first..(m + 1)
          PROVE  g[k] = (IF k = first THEN base ELSE step[<<k, g[k - 1]>>]) /\ g[k] \in V
      <3>1. CASE k = m + 1
        <4>1. k # first /\ k - 1 = m /\ m \in first..m
          BY <3>1
        <4> HIDE DEF g
        <4> QED
          BY <2>2, <2>3, <3>1, <4>1
      <3>2. CASE k \in first..m
        <4>1. k # first => k - 1 \in first..m
          BY <3>2
        <4>2. f[k] = IF k = first THEN base ELSE step[<<k, f[k - 1]>>]
          BY <2>1, <3>2
        <4> HIDE DEF g
        <4> QED
          BY <2>2, <3>2, <4>1, <4>2
      <3> QED
        BY <3>1, <3>2
    <2>5. Upto(m + 1, g)
      BY <2>4
    <2>6. m + 1 = first + (n + 1) /\ n + 1 \in Nat
      OBVIOUS
    <2>7. \E h : Upto(m + 1, h)
      BY <2>5
    <2> HIDE DEF m, g, Upto
    <2> QED
      BY <2>6, <2>7
  <1>3. S = Nat
    <2> HIDE DEF S
    <2>1. Nat \subseteq S
      BY <1>1, <1>2, Induction
    <2> QED
      BY <2>1 DEF S
  <1>4. CASE last >= first
    <2>1. last - first \in Nat /\ first + (last - first) = last
      BY <1>4
    <2>2. \E f : Upto(first + (last - first), f)
      BY <1>3, <2>1
    <2> QED
      BY <2>1, <2>2 DEF Repeats
  <1>5. CASE ~(last >= first)
    <2> DEFINE f == [k \in first..last |-> base]
    <2>1. Repeats(f, base, first, last, step)
      BY <1>5 DEF Repeats
    <2> QED
      BY <2>1
  <1> QED
    BY <1>4, <1>5

(***************************************************************************)
(* The order of initial letters: by length, then by the first letter that  *)
(* differs.                                                                *)
(***************************************************************************)
IsLetters(s) == s \in Seq(Nat)

(* Sequences of letters are equal when their letters are.                  *)
LEMMA LettersAre ==
  /\ \A s : IsLetters(s) => Len(s) \in Nat /\ DOMAIN s = 1..Len(s) /\ \A k \in DOMAIN s : s[k] \in Nat
  /\ \A s, t : IsLetters(s) /\ IsLetters(t) /\ Len(s) = Len(t) /\ (\A k \in 1..Len(s) : s[k] = t[k]) => s = t
  BY LenProperties, ElementOfSeq, SeqEqual DEF IsLetters

(* Two sequences of one length differ somewhere first.                     *)
LEMMA FirstDifference ==
  ASSUME NEW s, IsLetters(s), NEW t, IsLetters(t), Len(s) = Len(t), s # t
  PROVE  \E k \in DOMAIN s : s[k] # t[k] /\ \A i \in 1..(k - 1) : s[i] = t[i]
  <1> DEFINE D == {k \in 1..Len(s) : s[k] # t[k]}
  <1>1. D # {}
    BY LettersAre
  <1>2. D \subseteq Nat /\ DOMAIN s = 1..Len(s) /\ Len(s) \in Nat
    BY LettersAre
  <1>3. Least(D) \in D /\ \A k \in D : Least(D) <= k
    BY <1>1, <1>2, LeastNumber
  <1>4. \A i \in 1..(Least(D) - 1) : s[i] = t[i]
    <2> DEFINE k == Least(D)
    <2> HIDE DEF k
    <2>1. k \in 1..Len(s) /\ \A j \in D : k <= j
      BY <1>3 DEF k
    <2>2. \A i \in 1..(k - 1) : i \in 1..Len(s) /\ ~(k <= i)
      BY <1>2, <2>1
    <2> QED
      BY <2>1, <2>2 DEF k
  <1> QED
    BY <1>2, <1>3, <1>4

(* fuzzy_compare_spell_id() tells any two sequences of letters apart.      *)
LEMMA BeforeTotal ==
  ASSUME NEW s, IsLetters(s), NEW t, IsLetters(t), ~FuzzyBefore(s, t), ~FuzzyBefore(t, s)
  PROVE  s = t
  <1>1. Len(s) = Len(t)
    BY LettersAre DEF FuzzyBefore
  <1> SUFFICES ASSUME s # t PROVE FALSE
    OBVIOUS
  <1>2. PICK k \in DOMAIN s : s[k] # t[k] /\ \A i \in 1..(k - 1) : s[i] = t[i]
    BY <1>1, FirstDifference
  <1>3. k \in DOMAIN t /\ s[k] \in Nat /\ t[k] \in Nat
    BY <1>1, LettersAre
  <1>4. s[k] < t[k] \/ t[k] < s[k]
    BY <1>2, <1>3
  <1> QED
    BY <1>1, <1>2, <1>3, <1>4 DEF FuzzyBefore

(* Nothing is before what is before it, or before itself.                  *)
LEMMA BeforeNotAfter ==
  ASSUME NEW s, IsLetters(s), NEW t, IsLetters(t), FuzzyBefore(s, t)
  PROVE  ~FuzzyBefore(t, s) /\ s # t
  <1>0. Len(s) \in Nat /\ Len(t) \in Nat
    BY LettersAre
  <1>1. DOMAIN s = 1..Len(s) /\ DOMAIN t = 1..Len(t)
    BY LettersAre
  <1>2. (\A k \in DOMAIN s : s[k] \in Nat) /\ (\A k \in DOMAIN t : t[k] \in Nat)
    BY LettersAre
  <1>3. CASE Len(s) < Len(t)
    <2>1. s # t /\ ~(Len(t) < Len(s)) /\ Len(t) # Len(s)
      BY <1>0, <1>3
    <2> QED
      BY <2>1 DEF FuzzyBefore
  <1>4. CASE Len(s) = Len(t)
    <2>1. PICK k \in DOMAIN s : s[k] < t[k] /\ \A i \in 1..(k - 1) : s[i] = t[i]
      BY <1>1, <1>4 DEF FuzzyBefore
    <2>2. s # t
      BY <1>1, <1>2, <1>4, <2>1
    <2>3. ASSUME NEW j \in DOMAIN t, t[j] < s[j], \A i \in 1..(j - 1) : t[i] = s[i] PROVE FALSE
      <3>0. /\ k \in Nat \ {0} /\ j \in Nat \ {0}
            /\ s[j] \in Nat /\ t[j] \in Nat /\ s[k] \in Nat /\ t[k] \in Nat
        BY <1>1, <1>2, <1>4
      <3>1. CASE j < k
        BY <2>1, <2>3, <3>0, <3>1
      <3>2. CASE k < j
        BY <2>1, <2>3, <3>0, <3>2
      <3>3. CASE j = k
        BY <2>1, <2>3, <3>0, <3>3
      <3> QED
        BY <3>0, <3>1, <3>2, <3>3
    <2> QED
      BY <1>1, <1>4, <2>2, <2>3 DEF FuzzyBefore
  <1> QED
    BY <1>3, <1>4 DEF FuzzyBefore

(* The order can be followed along.                                        *)
LEMMA BeforeTransitive ==
  ASSUME NEW s, IsLetters(s), NEW t, IsLetters(t), NEW u, IsLetters(u),
         FuzzyBefore(s, t), FuzzyBefore(t, u)
  PROVE  FuzzyBefore(s, u)
  <1>a. Len(s) \in Nat /\ Len(t) \in Nat /\ Len(u) \in Nat
    BY LettersAre
  <1>1. DOMAIN s = 1..Len(s) /\ DOMAIN t = 1..Len(t) /\ DOMAIN u = 1..Len(u)
    BY LettersAre
  <1>2. /\ \A k \in DOMAIN s : s[k] \in Nat
        /\ \A k \in DOMAIN t : t[k] \in Nat
        /\ \A k \in DOMAIN u : u[k] \in Nat
    BY LettersAre
  <1>0. Len(s) <= Len(t) /\ Len(t) <= Len(u)
    BY <1>a DEF FuzzyBefore
  <1>3. CASE Len(s) < Len(u)
    BY <1>3 DEF FuzzyBefore
  <1>4. CASE Len(s) = Len(u) /\ Len(s) = Len(t)
    <2>1. PICK k \in DOMAIN s : s[k] < t[k] /\ \A i \in 1..(k - 1) : s[i] = t[i]
      BY <1>1, <1>4 DEF FuzzyBefore
    <2>2. PICK j \in DOMAIN t : t[j] < u[j] /\ \A i \in 1..(j - 1) : t[i] = u[i]
      BY <1>1, <1>4 DEF FuzzyBefore
    <2>3. /\ k \in Nat \ {0} /\ j \in Nat \ {0} /\ j \in DOMAIN s
          /\ s[k] \in Nat /\ t[k] \in Nat /\ u[k] \in Nat
          /\ s[j] \in Nat /\ t[j] \in Nat /\ u[j] \in Nat
      BY <1>1, <1>2, <1>4
    <2>4. CASE k <= j
      <3>1. t[k] <= u[k]
        <4>1. k \in 1..(j - 1) \/ k = j
          BY <2>3, <2>4
        <4> QED
          BY <2>2, <2>3, <4>1
      <3>2. ASSUME NEW i \in 1..(k - 1) PROVE s[i] = u[i]
        BY <2>1, <2>2, <2>3, <2>4
      <3>3. s[k] < u[k]
        BY <2>1, <2>3, <3>1
      <3> QED
        BY <1>4, <3>2, <3>3 DEF FuzzyBefore
    <2>5. CASE j < k
      <3>1. s[j] = t[j]
        <4>1. j \in 1..(k - 1)
          BY <1>1, <2>3, <2>5
        <4> QED
          BY <2>1, <4>1
      <3>2. ASSUME NEW i \in 1..(j - 1) PROVE s[i] = u[i]
        BY <2>1, <2>2, <2>3, <2>5
      <3>3. s[j] < u[j]
        BY <2>2, <3>1
      <3> QED
        BY <1>4, <2>3, <3>2, <3>3 DEF FuzzyBefore
    <2> QED
      BY <2>3, <2>4, <2>5
  <1>5. Len(s) < Len(u) \/ (Len(s) = Len(u) /\ Len(s) = Len(t))
    BY <1>a, <1>0
  <1> QED
    BY <1>3, <1>4, <1>5

(* Not being before is an order too.                                       *)
LEMMA NotBeforeTransitive ==
  ASSUME NEW s, IsLetters(s), NEW t, IsLetters(t), NEW u, IsLetters(u),
         ~FuzzyBefore(s, t), ~FuzzyBefore(t, u)
  PROVE  ~FuzzyBefore(s, u)
  <1> SUFFICES ASSUME FuzzyBefore(s, u) PROVE FALSE
    OBVIOUS
  <1>1. s = t \/ FuzzyBefore(t, s)
    BY BeforeTotal
  <1>2. t = u \/ FuzzyBefore(u, t)
    BY BeforeTotal
  <1> QED
    BY <1>1, <1>2, BeforeTransitive, BeforeNotAfter

(* Letters come before their continuations.                                *)
LEMMA PrefixNotBefore ==
  ASSUME NEW s, IsLetters(s), NEW t, IsLetters(t), IsPrefix(s, t)
  PROVE  ~FuzzyBefore(t, s)
  <1> SUFFICES ASSUME FuzzyBefore(t, s) PROVE FALSE
    OBVIOUS
  <1>1. Len(s) <= Len(t) /\ SubSeq(s, 1, Len(s)) = SubSeq(t, 1, Len(s))
    BY DEF IsPrefix
  <1>2. Len(t) = Len(s)
    BY <1>1, LettersAre DEF FuzzyBefore
  <1>3. SubSeq(s, 1, Len(s)) = s /\ SubSeq(t, 1, Len(t)) = t
    BY SubSeqFull DEF IsLetters
  <1>4. s = t
    BY <1>1, <1>2, <1>3
  <1> QED
    BY <1>4, BeforeNotAfter

(***************************************************************************)
(* What a dictionary is.                                                   *)
(***************************************************************************)
Fields == {"state", "lemmas", "size", "list", "byId", "syncs", "countLeft", "sizeLeft",
           "limit", "ratio", "cache", "misses", "fresh"}
Entry == [at : Nat, gone : BOOLEAN, score : Nat, id : Nat]
Lengths == {Len(l.spl) : l \in Lemmas} \cup {Len(q) : q \in Queries}
Key(d, k) == Initials(LemmaAt(d, k).spl)

(* A block of lemmas, of a size.                                           *)
Block(lemmas, size) ==
  /\ lemmas \in [DOMAIN lemmas -> Lemmas] /\ size \in Nat
  /\ \A o \in DOMAIN lemmas : o \in Nat /\ o < size

IsDict(d) ==
  /\ DOMAIN d = Fields
  /\ d.state \in NONE..DEFRAGMENTED /\ d.fresh \in BOOLEAN
  /\ Block(d.lemmas, d.size)
  /\ d.list \in Seq(Entry) /\ d.byId \in Seq(Nat) /\ d.syncs \in Seq(Nat)
  /\ d.sizeLeft \in Int /\ d.countLeft \in Int /\ d.limit \in Nat /\ d.ratio \in 0..99
  /\ Len(d.byId) = Len(d.list)

(* Every place has a lemma, and its id leads there.                        *)
Linked(d) ==
  \A k \in DOMAIN d.list :
    /\ d.list[k].at \in DOMAIN d.lemmas /\ d.list[k].id \in DOMAIN d.byId
    /\ d.byId[d.list[k].id] = d.list[k].at

(* The list is in the order of the initial letters.                        *)
Sorted(d) == \A j, k \in DOMAIN d.list : j < k => ~FuzzyBefore(Key(d, k), Key(d, j))

(* A cached range has all the lemmas in use with its letters; for cached   *)
(* misses there are none.                                                  *)
RangesHold(d) ==
  /\ DOMAIN d.cache = Lengths
  /\ \A n \in Lengths : d.cache[n] \in Seq(Range(d.cache[n]))
  /\ \A n \in Lengths : \A c \in DOMAIN d.cache[n] :
       /\ d.cache[n][c].start \in Nat \ {0} /\ d.cache[n][c].count \in Nat
       /\ \A k \in InUse(d) : Key(d, k) = d.cache[n][c].sig =>
            k \in d.cache[n][c].start..(d.cache[n][c].start + d.cache[n][c].count - 1)
MissesHold(d) ==
  /\ DOMAIN d.misses = Lengths
  /\ \A n \in Lengths : d.misses[n] \in Seq(Range(d.misses[n]))
  /\ \A n \in Lengths : \A c \in DOMAIN d.misses[n] : \A k \in InUse(d) : Key(d, k) # d.misses[n][c]

Good(d) == IsDict(d) /\ Linked(d) /\ Sorted(d) /\ RangesHold(d) /\ MissesHold(d)

(* What a lemma's spelling is made of.                                     *)
LEMMA LemmaFacts ==
  ASSUME NEW l \in Lemmas
  PROVE  /\ l.spl \in Seq(Nat) /\ Len(l.spl) \in Nat \ {0} /\ DOMAIN l.spl = 1..Len(l.spl)
         /\ IsLetters(Initials(l.spl)) /\ Len(Initials(l.spl)) = Len(l.spl)
         /\ DOMAIN Initials(l.spl) = DOMAIN l.spl
         /\ Size(l) \in Nat \ {0} /\ Len(l.spl) \in Lengths
  <1> DEFINE s == l.spl
             i == Initials(s)
  <1>1. s \in Seq(Nat) /\ s # <<>> /\ \A k \in DOMAIN s : Initial(s[k]) \in Nat
    BY LemmasAssumption
  <1>2. Len(s) \in Nat \ {0} /\ DOMAIN s = 1..Len(s)
    BY <1>1, EmptySeq, LenProperties
  <1>3. i \in [1..Len(s) -> Nat]
    BY <1>1, <1>2 DEF Initials
  <1>4. i \in Seq(Nat)
    BY <1>2, <1>3, SeqDef
  <1>5. DOMAIN i = 1..Len(i) /\ Len(i) \in Nat /\ DOMAIN i = 1..Len(s)
    BY <1>3, <1>4, LenProperties
  <1>6. Len(i) = Len(s)
    BY <1>2, <1>5
  <1>7. Size(l) \in Nat \ {0}
    BY <1>2 DEF Size
  <1> QED
    BY <1>1, <1>2, <1>4, <1>5, <1>6, <1>7 DEF IsLetters, Lengths

(* What a place in the list leads to.                                      *)
LEMMA PlaceFacts ==
  ASSUME NEW d, IsDict(d), Linked(d)
  PROVE  /\ Len(d.list) \in Nat /\ DOMAIN d.list = 1..Len(d.list)
         /\ \A k \in DOMAIN d.list : /\ d.list[k] \in Entry /\ LemmaAt(d, k) \in Lemmas
                                     /\ IsLetters(Key(d, k))
  <1>1. Len(d.list) \in Nat /\ DOMAIN d.list = 1..Len(d.list)
    BY LenProperties DEF IsDict
  <1>2. ASSUME NEW k \in DOMAIN d.list
        PROVE  d.list[k] \in Entry /\ LemmaAt(d, k) \in Lemmas
    BY <1>1, ElementOfSeq DEF IsDict, Linked, Block, LemmaAt
  <1> QED
    BY <1>1, <1>2, LemmaFacts DEF Key

(***************************************************************************)
(* The binary search.  If the list has the letters, it ends at the first   *)
(* place that has them.                                                    *)
(***************************************************************************)
Searches(n) == [begin : 1..(n + 1), end : 0..n, first : 0..n]
SearchStep(d, sig, f, r) ==
  LET middle == (r.begin + r.end) \div 2
      here   == Initials(LemmaAt(d, middle).spl)
      seen   == IF IsPrefix(sig, here) THEN middle ELSE r.first
  IN  IF r.begin > r.end THEN r.first
      ELSE IF FuzzyBefore(here, sig) THEN f[[r EXCEPT !.begin = middle + 1, !.first = seen]]
      ELSE f[[r EXCEPT !.end = middle - 1, !.first = seen]]
MiddleOf(r) == (r.begin + r.end) \div 2
Search(d, sig, n, f) == f = [r \in Searches(n) |-> SearchStep(d, sig, f, r)]

(* The middle of a range lies in it.                                       *)
LEMMA Middle ==
  ASSUME NEW b \in Nat, NEW e \in Nat, b <= e
  PROVE  (b + e) \div 2 \in Nat /\ b <= (b + e) \div 2 /\ (b + e) \div 2 <= e
  OBVIOUS

(* A step is the end, or it goes on in what is left of the range.          *)
LEMMA SearchGoesOn ==
  ASSUME NEW d, NEW sig, NEW n \in Nat, NEW r \in Searches(n), r.begin <= r.end
  PROVE  \E s \in Searches(n) :
           /\ s.end - s.begin < r.end - r.begin
           /\ \A f : SearchStep(d, sig, f, r) = f[s]
           /\ s.first = IF IsPrefix(sig, Key(d, MiddleOf(r))) THEN MiddleOf(r) ELSE r.first
           /\ IF FuzzyBefore(Key(d, MiddleOf(r)), sig) THEN s.begin = MiddleOf(r) + 1 /\ s.end = r.end
              ELSE s.begin = r.begin /\ s.end = MiddleOf(r) - 1
  <1> DEFINE middle == MiddleOf(r)
             seen == IF IsPrefix(sig, Key(d, middle)) THEN middle ELSE r.first
             s == IF FuzzyBefore(Key(d, middle), sig)
                    THEN [r EXCEPT !.begin = middle + 1, !.first = seen]
                    ELSE [r EXCEPT !.end = middle - 1, !.first = seen]
  <1>1. r.begin \in 1..(n + 1) /\ r.end \in 0..n /\ r.first \in 0..n
    BY DEF Searches
  <1>2. middle \in Nat /\ r.begin <= middle /\ middle <= r.end
    BY <1>1, Middle DEF MiddleOf
  <1>3. ~(r.begin > r.end)
    BY <1>1
  <1>4. \A f : SearchStep(d, sig, f, r) = f[s]
    BY <1>3 DEF SearchStep, Key, MiddleOf
  <1> HIDE DEF middle
  <1>5. seen \in 0..n
    BY <1>1, <1>2
  <1> HIDE DEF seen
  <1>6. /\ s \in Searches(n) /\ s.end - s.begin < r.end - r.begin /\ s.first = seen
        /\ IF FuzzyBefore(Key(d, middle), sig) THEN s.begin = middle + 1 /\ s.end = r.end
           ELSE s.begin = r.begin /\ s.end = middle - 1
    <2>0. r = [begin |-> r.begin, end |-> r.end, first |-> r.first]
      BY DEF Searches
    <2>1. CASE FuzzyBefore(Key(d, middle), sig)
      <3>1. s = [begin |-> middle + 1, end |-> r.end, first |-> seen]
        BY <2>0, <2>1
      <3>2. middle + 1 \in 1..(n + 1) /\ r.end - (middle + 1) < r.end - r.begin
        BY <1>1, <1>2
      <3> QED
        BY <1>1, <1>5, <2>1, <3>1, <3>2 DEF Searches
    <2>2. CASE ~FuzzyBefore(Key(d, middle), sig)
      <3>1. s = [begin |-> r.begin, end |-> middle - 1, first |-> seen]
        BY <2>0, <2>2
      <3>2. middle - 1 \in 0..n /\ (middle - 1) - r.begin < r.end - r.begin
        BY <1>1, <1>2
      <3> QED
        BY <1>1, <1>5, <2>2, <3>1, <3>2 DEF Searches
    <2> QED
      BY <2>1, <2>2
  <1> HIDE DEF s
  <1> QED
    BY <1>4, <1>6 DEF middle, seen

(* An empty range ends the search.                                         *)
LEMMA SearchEnds ==
  ASSUME NEW d, NEW sig, NEW n \in Nat, NEW r \in Searches(n), ~(r.begin <= r.end), NEW f
  PROVE  SearchStep(d, sig, f, r) = r.first
  <1>1. r.begin > r.end
    BY DEF Searches
  <1> QED
    BY <1>1 DEF SearchStep

(* The search goes on in shorter ranges, so there is such a function.      *)
LEMMA SearchExists ==
  ASSUME NEW d, NEW sig, NEW n \in Nat
  PROVE  \E f : Search(d, sig, n, f)
  <1> DEFINE Upto(m, f) == \A r \in Searches(n) : r.end - r.begin < m => f[r] = SearchStep(d, sig, f, r)
             S == {m \in Nat : \E f : DOMAIN f = Searches(n) /\ Upto(m, f)}
  <1>1. 0 \in S
    <2> DEFINE f == [r \in Searches(n) |-> r.first]
    <2>1. ASSUME NEW r \in Searches(n), r.end - r.begin < 0 PROVE f[r] = SearchStep(d, sig, f, r)
      <3>1. ~(r.begin <= r.end)
        BY <2>1 DEF Searches
      <3> QED
        BY <3>1, SearchEnds
    <2>2. DOMAIN f = Searches(n) /\ Upto(0, f)
      BY <2>1
    <2> HIDE DEF f
    <2> QED
      BY <2>2
  <1>2. ASSUME NEW m \in Nat, m \in S PROVE m + 1 \in S
    <2>1. PICK f : DOMAIN f = Searches(n) /\ Upto(m, f)
      BY <1>2
    <2> DEFINE g == [r \in Searches(n) |-> IF r.end - r.begin < m THEN f[r] ELSE SearchStep(d, sig, f, r)]
    <2>2. ASSUME NEW r \in Searches(n), r.end - r.begin < m + 1
          PROVE  g[r] = SearchStep(d, sig, g, r)
      <3>1. g[r] = SearchStep(d, sig, f, r)
        BY <2>1
      <3>2. CASE r.begin <= r.end
        <4>1. PICK s \in Searches(n) : /\ s.end - s.begin < r.end - r.begin
                                      /\ \A h : SearchStep(d, sig, h, r) = h[s]
          BY <3>2, SearchGoesOn
        <4>2. s.end - s.begin < m
          BY <2>2, <4>1 DEF Searches
        <4>3. g[s] = f[s]
          BY <4>2
        <4> HIDE DEF g
        <4> QED
          BY <3>1, <4>1, <4>3
      <3>3. CASE ~(r.begin <= r.end)
        <4> HIDE DEF g
        <4> QED
          BY <3>1, <3>3, SearchEnds
      <3> QED
        BY <3>2, <3>3
    <2>3. DOMAIN g = Searches(n) /\ Upto(m + 1, g)
      BY <2>2
    <2>4. m + 1 \in Nat
      OBVIOUS
    <2> HIDE DEF g, Upto
    <2> QED
      BY <2>3, <2>4
  <1>3. n + 1 \in S
    <2> HIDE DEF S
    <2> QED
      BY <1>1, <1>2, Induction
  <1>4. PICK f : DOMAIN f = Searches(n) /\ Upto(n + 1, f)
    BY <1>3
  <1> DEFINE g == [r \in Searches(n) |-> f[r]]
  <1>5. ASSUME NEW r \in Searches(n) PROVE g[r] = SearchStep(d, sig, g, r)
    <2>1. r.end - r.begin < n + 1
      BY DEF Searches
    <2>2. f[r] = SearchStep(d, sig, f, r) /\ g[r] = f[r]
      BY <1>4, <2>1
    <2>3. CASE r.begin <= r.end
      <3>1. PICK s \in Searches(n) : \A h : SearchStep(d, sig, h, r) = h[s]
        BY <2>3, SearchGoesOn
      <3>2. g[s] = f[s]
        OBVIOUS
      <3> HIDE DEF g
      <3> QED
        BY <2>2, <3>1, <3>2
    <2>4. CASE ~(r.begin <= r.end)
      <3> HIDE DEF g
      <3> QED
        BY <2>2, <2>4, SearchEnds
    <2> QED
      BY <2>3, <2>4
  <1>6. Search(d, sig, n, g)
    BY <1>5 DEF Search
  <1> QED
    BY <1>6

(* locate_first_in_offsets() is this search.                               *)
LEMMA LocateIsSearch ==
  ASSUME NEW d, NEW sig, Len(d.list) \in Nat
  PROVE  \E f : /\ Search(d, sig, Len(d.list), f)
                /\ LocateFirst(d, sig) = f[[begin |-> 1, end |-> Len(d.list), first |-> 0]]
  <1> DEFINE n == Len(d.list)
             f == CHOOSE g : Search(d, sig, n, g)
  <1>1. Search(d, sig, n, f)
    BY SearchExists
  <1>2. LocateFirst(d, sig) = f[[begin |-> 1, end |-> n, first |-> 0]]
    BY DEF LocateFirst, Search, SearchStep, Searches
  <1> QED
    BY <1>1, <1>2

(* What is found is a place, or 0.                                         *)
LEMMA LocateInRange ==
  ASSUME NEW d, NEW sig, Len(d.list) \in Nat
  PROVE  LocateFirst(d, sig) \in 0..Len(d.list)
  <1> DEFINE n == Len(d.list)
             start == [begin |-> 1, end |-> n, first |-> 0]
  <1>1. PICK f : Search(d, sig, n, f) /\ LocateFirst(d, sig) = f[start]
    BY LocateIsSearch
  <1> DEFINE S == {m \in Nat : \A r \in Searches(n) : r.end - r.begin < m => f[r] \in 0..n}
  <1> HIDE DEF n
  <1>0. n \in Nat
    BY DEF n
  <1>e. ASSUME NEW r \in Searches(n), ~(r.begin <= r.end) PROVE f[r] \in 0..n
    <2>1. f[r] = r.first
      BY <1>0, <1>1, <1>e, SearchEnds DEF Search
    <2> QED
      BY <2>1 DEF Searches
  <1>2. 0 \in S
    <2>1. ASSUME NEW r \in Searches(n), r.end - r.begin < 0 PROVE f[r] \in 0..n
      <3>1. ~(r.begin <= r.end)
        BY <1>0, <2>1 DEF Searches
      <3> QED
        BY <1>e, <3>1
    <2> QED
      BY <2>1
  <1>3. ASSUME NEW m \in Nat, m \in S PROVE m + 1 \in S
    <2>1. ASSUME NEW r \in Searches(n), r.end - r.begin < m + 1, r.begin <= r.end PROVE f[r] \in 0..n
      <3>1. PICK s \in Searches(n) : s.end - s.begin < r.end - r.begin
                                     /\ \A g : SearchStep(d, sig, g, r) = g[s]
        <4> HIDE DEF S
        <4> QED
          BY ONLY <1>0, <2>1, SearchGoesOn, r \in Searches(n)
      <3>2. s.end - s.begin < m
        BY <1>0, <2>1, <3>1 DEF Searches
      <3>3. SearchStep(d, sig, f, r) = f[s]
        BY <3>1
      <3> QED
        BY <1>1, <1>3, <3>2, <3>3 DEF Search
    <2> QED
      BY <1>e, <2>1
  <1>4. n + 1 \in S
    <2> HIDE DEF S
    <2> QED
      BY <1>0, <1>2, <1>3, Induction
  <1>5. start \in Searches(n) /\ start.end - start.begin < n + 1
    BY <1>0 DEF Searches
  <1> HIDE DEF start
  <1> QED
    BY <1>1, <1>4, <1>5 DEF n

(* The first place with its letters is the one found.                      *)
LEMMA LocateIsFirst ==
  ASSUME NEW d, IsDict(d), Linked(d), Sorted(d), NEW p \in DOMAIN d.list,
         \A k \in DOMAIN d.list : Key(d, k) = Key(d, p) => p <= k
  PROVE  LocateFirst(d, Key(d, p)) = p
  <1> DEFINE n == Len(d.list)
             sig == Key(d, p)
             start == [begin |-> 1, end |-> n, first |-> 0]
  <1>0. n \in Nat /\ DOMAIN d.list = 1..n /\ \A k \in DOMAIN d.list : IsLetters(Key(d, k))
    BY PlaceFacts
  <1>1. PICK f : Search(d, sig, n, f) /\ LocateFirst(d, sig) = f[start]
    BY LocateIsSearch, <1>0
  (* The range has the place, or was entered below it with first there.    *)
  <1> DEFINE On(r) == /\ r.begin <= p /\ p <= r.end + 1
                      /\ (p = r.end + 1 => r.first = p)
  <1> DEFINE S == {m \in Nat : \A r \in Searches(n) : r.end - r.begin < m /\ On(r) => f[r] = p}
  <1>a. sig = Key(d, p) /\ IsLetters(sig)
    BY <1>0
  <1> HIDE DEF n, sig
  <1>e. ASSUME NEW r \in Searches(n), ~(r.begin <= r.end), On(r) PROVE f[r] = p
    <2>1. f[r] = r.first
      BY <1>0, <1>1, <1>e, SearchEnds DEF Search
    <2>2. p = r.end + 1
      BY <1>0, <1>e DEF Searches
    <2> QED
      BY <1>e, <2>1, <2>2
  <1>2. 0 \in S
    <2>1. ASSUME NEW r \in Searches(n), r.end - r.begin < 0, On(r) PROVE f[r] = p
      <3>1. ~(r.begin <= r.end)
        BY <1>0, <2>1 DEF Searches
      <3> QED
        BY <1>e, <2>1, <3>1
    <2> QED
      BY <2>1
  <1>3. ASSUME NEW m \in Nat, m \in S PROVE m + 1 \in S
    <2>1. ASSUME NEW r \in Searches(n), r.end - r.begin < m + 1, r.begin <= r.end, On(r)
          PROVE  f[r] = p
      <3> DEFINE middle == MiddleOf(r)
      <3>1. PICK s \in Searches(n) :
              /\ s.end - s.begin < r.end - r.begin /\ SearchStep(d, sig, f, r) = f[s]
              /\ s.first = IF IsPrefix(sig, Key(d, middle)) THEN middle ELSE r.first
              /\ IF FuzzyBefore(Key(d, middle), sig) THEN s.begin = middle + 1 /\ s.end = r.end
                 ELSE s.begin = r.begin /\ s.end = middle - 1
        BY <1>0, <2>1, SearchGoesOn
      <3>2. s.end - s.begin < m
        BY <1>0, <2>1, <3>1 DEF Searches
      <3>3. r.begin \in 1..(n + 1) /\ r.end \in 0..n
        BY DEF Searches
      <3>4. middle \in 1..n /\ r.begin <= middle /\ middle <= r.end
        BY <1>0, <2>1, <3>3, Middle DEF MiddleOf
      <3> HIDE DEF middle
      <3>5. middle \in DOMAIN d.list /\ p \in 1..n
        BY <1>0, <3>4
      <3>6. CASE FuzzyBefore(Key(d, middle), sig)
        <4>1. middle < p
          <5>1. CASE p = middle
            BY <1>0, <1>a, <3>5, <3>6, <5>1, BeforeNotAfter
          <5>2. CASE p < middle
            BY <1>a, <3>5, <3>6, <5>2 DEF Sorted
          <5> QED
            BY <3>4, <3>5, <5>1, <5>2
        <4>2. ~IsPrefix(sig, Key(d, middle))
          BY <1>0, <1>a, <3>5, <3>6, PrefixNotBefore
        <4>3. s.first = r.first /\ s.begin = middle + 1 /\ s.end = r.end
          BY <3>1, <3>6, <4>2
        <4>4. On(s)
          BY <2>1, <3>4, <3>5, <4>1, <4>3
        <4> QED
          BY <1>1, <1>3, <3>1, <3>2, <4>4 DEF Search
      <3>7. CASE ~FuzzyBefore(Key(d, middle), sig)
        <4>1. p <= middle
          <5> SUFFICES ASSUME middle < p PROVE FALSE
            BY <3>4, <3>5
          <5>1. ~FuzzyBefore(sig, Key(d, middle))
            BY <1>a, <3>5 DEF Sorted
          <5>2. Key(d, middle) = sig
            BY <1>0, <1>a, <3>5, <3>7, <5>1, BeforeTotal
          <5>3. p <= middle
            BY <1>a, <3>5, <5>2
          <5> QED
            BY <3>4, <3>5, <5>3
        <4>2. s.begin = r.begin /\ s.end = middle - 1
          BY <3>1, <3>7
        <4>3. p = middle => s.first = p
          <5> SUFFICES ASSUME p = middle PROVE s.first = p
            OBVIOUS
          <5>1. IsPrefix(sig, Key(d, middle))
            BY <1>a, LettersAre DEF IsPrefix
          <5> QED
            BY <3>1, <5>1
        <4>4. On(s)
          BY <2>1, <3>4, <3>5, <4>1, <4>2, <4>3
        <4> QED
          BY <1>1, <1>3, <3>1, <3>2, <4>4 DEF Search
      <3> QED
        BY <3>6, <3>7
    <2> HIDE DEF On
    <2> QED
      BY <1>e, <2>1
  <1>4. n + 1 \in S
    <2> HIDE DEF S
    <2> QED
      BY <1>0, <1>2, <1>3, Induction
  <1>5. start \in Searches(n) /\ start.end - start.begin < n + 1
    BY <1>0 DEF Searches
  <1>6. On(start)
    BY <1>0
  <1> HIDE DEF start, On
  <1>7. f[start] = p
    BY <1>4, <1>5, <1>6
  <1> QED
    BY <1>1, <1>7, <1>a

(* So it finds the first of the places that have the letters.              *)
LEMMA LocateFinds ==
  ASSUME NEW d, IsDict(d), Linked(d), Sorted(d), NEW k \in DOMAIN d.list
  PROVE  /\ LocateFirst(d, Key(d, k)) \in DOMAIN d.list /\ LocateFirst(d, Key(d, k)) <= k
         /\ \A j \in DOMAIN d.list : LocateFirst(d, Key(d, k)) <= j /\ j <= k => Key(d, j) = Key(d, k)
  <1> DEFINE P == {j \in DOMAIN d.list : Key(d, j) = Key(d, k)}
             p == Least(P)
  <1>0. DOMAIN d.list \subseteq Nat /\ \A j \in DOMAIN d.list : IsLetters(Key(d, j))
    BY PlaceFacts
  <1>1. p \in P /\ \A j \in P : p <= j
    <2>1. P \subseteq Nat /\ k \in P
      BY <1>0
    <2> HIDE DEF P
    <2> QED
      BY <2>1, LeastNumber
  <1> HIDE DEF p
  <1>2. p \in DOMAIN d.list /\ Key(d, p) = Key(d, k) /\ p <= k
    BY <1>1
  <1>3. LocateFirst(d, Key(d, p)) = p
    BY <1>1, <1>2, LocateIsFirst
  <1>4. ASSUME NEW j \in DOMAIN d.list, p <= j, j <= k PROVE Key(d, j) = Key(d, k)
    <2>1. CASE j = p \/ j = k
      BY <1>2, <2>1
    <2>2. CASE p < j /\ j < k
      <3>1. ~FuzzyBefore(Key(d, j), Key(d, p)) /\ ~FuzzyBefore(Key(d, k), Key(d, j))
        BY <1>2, <2>2 DEF Sorted
      <3> QED
        BY <1>0, <1>2, <3>1, BeforeTotal
    <2> QED
      BY <1>0, <1>2, <1>4, <2>1, <2>2
  <1> QED
    BY <1>2, <1>3, <1>4

(***************************************************************************)
(* Lookups.                                                                *)
(***************************************************************************)
LEMMA QueryFacts ==
  ASSUME NEW q \in Queries
  PROVE  /\ Len(q) \in Nat /\ DOMAIN q = 1..Len(q)
         /\ DOMAIN Signature(q) = 1..Len(q) /\ Len(Signature(q)) = Len(q) /\ Len(q) \in Lengths
  <1>1. Len(q) \in Nat /\ DOMAIN q = 1..Len(q)
    BY QueriesAssumption, LenProperties
  <1> DEFINE S == {Signature(q)[k] : k \in 1..Len(q)}
  <1>2. DOMAIN Signature(q) = 1..Len(q) /\ Signature(q) \in [1..Len(q) -> S]
    BY <1>1 DEF Signature
  <1> HIDE DEF S
  <1>3. Signature(q) \in Seq(S)
    BY <1>1, <1>2, SeqDef
  <1>4. Len(Signature(q)) \in Nat /\ DOMAIN Signature(q) = 1..Len(Signature(q))
    BY <1>3, LenProperties
  <1>5. Len(Signature(q)) = Len(q)
    BY <1>1, <1>2, <1>4
  <1> QED
    BY <1>1, <1>2, <1>5 DEF Lengths

(* A lemma that is spelt so has the initial letters that are looked for.   *)
LEMMA SpeltHasSignature ==
  ASSUME NEW l \in Lemmas, NEW q \in Queries, EqualSpell(l.spl, q)
  PROVE  Initials(l.spl) = Signature(q)
  <1>1. DOMAIN l.spl = 1..Len(l.spl) /\ DOMAIN q = 1..Len(q) /\ Len(l.spl) = Len(q)
    BY LemmaFacts, QueryFacts DEF EqualSpell
  <1>2. ASSUME NEW k \in DOMAIN q PROVE Initial(l.spl[k]) = Initial(CHOOSE f \in q[k] : TRUE)
    <2>1. l.spl[k] \in q[k]
      BY DEF EqualSpell
    <2>2. (CHOOSE f \in q[k] : TRUE) \in q[k]
      BY <2>1
    <2> QED
      BY <2>1, <2>2, QueriesAssumption
  <1> QED
    BY <1>1, <1>2 DEF Initials, Signature

LEMMA InUseIs == \A d : InUse(d) \subseteq DOMAIN d.list
  BY DEF InUse

(* Whatever is cached, the range that is looked through has every lemma in *)
(* use with the letters.                                                   *)
LEMMA LookedCovers ==
  ASSUME NEW d, Good(d), NEW sig, Len(sig) \in Lengths
  PROVE  /\ Looked(d, sig).start \in Nat /\ Looked(d, sig).count \in Nat
         /\ \A k \in InUse(d) : Key(d, k) = sig =>
              k \in Looked(d, sig).start..(Looked(d, sig).start + Looked(d, sig).count - 1)
  <1> DEFINE r == Looked(d, sig)
             n == Len(d.list)
             first == LocateFirst(d, sig)
             ends == {k \in first..n : k \in InUse(d) /\ Key(d, k) # sig}
             last == Least(ends \cup {n})
  <1>0. n \in Nat /\ DOMAIN d.list = 1..n /\ InUse(d) \subseteq DOMAIN d.list
    BY PlaceFacts, InUseIs DEF Good
  <1>1. CASE Missed(d, sig)
    <2>1. r = [start |-> 0, count |-> 0]
      BY <1>1 DEF Looked
    <2>2. PICK c \in DOMAIN d.misses[Len(sig)] : d.misses[Len(sig)][c] = sig
      BY <1>1 DEF Missed
    <2>3. \A k \in InUse(d) : Key(d, k) # sig
      BY <2>2 DEF Good, MissesHold
    <2> QED
      BY <2>1, <2>3
  <1>2. CASE ~Missed(d, sig) /\ Cached(d, sig) # {}
    <2> DEFINE c == Least(Cached(d, sig))
    <2>1. r = [start |-> CachedRange(d, sig).start, count |-> CachedRange(d, sig).count]
      BY <1>2 DEF Looked
    <2>2. c \in Cached(d, sig)
      <3>1. Cached(d, sig) \subseteq Nat
        BY LenProperties DEF Cached, Good, RangesHold
      <3> QED
        BY <1>2, <3>1, LeastNumber
    <2>3. /\ CachedRange(d, sig) = d.cache[Len(sig)][c] /\ c \in DOMAIN d.cache[Len(sig)]
          /\ d.cache[Len(sig)][c].sig = sig
      BY <2>2 DEF Cached, CachedRange
    <2> HIDE DEF c
    <2> QED
      BY <2>1, <2>3 DEF Good, RangesHold
  <1>3. CASE ~Missed(d, sig) /\ Cached(d, sig) = {}
    <2>1. r = [start |-> first, count |-> IF first = 0 THEN 0 ELSE last - first + 1]
      BY <1>3 DEF Looked, Key
    <2>2. first \in 0..n
      BY <1>0, LocateInRange
    <2>3. last \in ends \cup {n} /\ \A k \in ends : last <= k
      <3>1. ends \cup {n} \subseteq Nat
        BY <1>0, <2>2
      <3> HIDE DEF ends
      <3> QED
        BY <3>1, LeastNumber
    <2> HIDE DEF last
    <2>4. last \in first..n
      BY <1>0, <2>2, <2>3
    <2>5. r.start \in Nat /\ r.count \in Nat /\ r.start = first
      BY <1>0, <2>1, <2>2, <2>4
    <2>6. ASSUME NEW k \in InUse(d), Key(d, k) = sig PROVE k \in first..last /\ first # 0
      <3>1. /\ first \in DOMAIN d.list /\ first <= k
            /\ \A j \in DOMAIN d.list : first <= j /\ j <= k => Key(d, j) = sig
        BY <1>0, <2>6, LocateFinds DEF Good
      <3>2. k <= last
        <4> SUFFICES ASSUME last < k PROVE FALSE
          BY <1>0, <2>2, <2>4
        <4>1. last # n
          BY <1>0, <2>4
        <4>2. last \in DOMAIN d.list /\ Key(d, last) # sig
          BY <1>0, <2>3, <4>1
        <4> QED
          BY <1>0, <2>4, <3>1, <4>2
      <3> QED
        BY <1>0, <2>2, <2>4, <3>1, <3>2
    <2>7. first # 0 => r.start + r.count - 1 = last
      BY <2>1, <2>2, <2>4, <1>0
    <2> HIDE DEF r, first
    <2> QED
      BY <2>5, <2>6, <2>7 DEF r
  <1> HIDE DEF r
  <1> QED
    BY <1>1, <1>2, <1>3 DEF r

(* A lookup that finds no place to begin at misses all.                    *)
LEMMA FoundIsSpelt ==
  ASSUME NEW d, Good(d), NEW q \in Queries
  PROVE  Found(d, q) = {k \in InUse(d) : EqualSpell(LemmaAt(d, k).spl, q)}
  <1> DEFINE sig == Signature(q)
             r == Looked(d, sig)
  <1>1. Len(sig) \in Lengths
    BY QueryFacts
  <1>2. ASSUME NEW k \in InUse(d), EqualSpell(LemmaAt(d, k).spl, q)
        PROVE  k \in r.start..(r.start + r.count - 1)
    <2>1. LemmaAt(d, k) \in Lemmas
      BY PlaceFacts, InUseIs DEF Good
    <2>2. Key(d, k) = sig
      BY <1>2, <2>1, SpeltHasSignature DEF Key
    <2> HIDE DEF sig
    <2> QED
      BY <1>1, <2>2, LookedCovers
  <1> HIDE DEF sig
  <1>3. Found(d, q) = {k \in InUse(d) : /\ k \in r.start..(r.start + r.count - 1)
                                        /\ EqualSpell(LemmaAt(d, k).spl, q)}
    BY DEF Found, sig
  <1> HIDE DEF r
  <1> QED
    BY <1>2, <1>3

(***************************************************************************)
(* A dictionary and the file it was loaded from: what is written depends   *)
(* on how far it was changed.                                              *)
(***************************************************************************)
Matches(d, f) ==
  /\ d.state < DEFRAGMENTED =>
       /\ d.size - (Room - d.sizeLeft) = f.size /\ f.size <= d.size
       /\ \A o \in DOMAIN f.lemmas : o \in DOMAIN d.lemmas /\ d.lemmas[o] = f.lemmas[o]
       /\ \A o \in DOMAIN d.lemmas : o < f.size => o \in DOMAIN f.lemmas
  /\ d.state < LEMMA_DIRTY =>
       /\ d.size = f.size /\ Len(d.list) = Len(f.offsets)
       /\ \A k \in DOMAIN d.list : d.list[k].at = f.offsets[k].at
  /\ d.state < OFFSET_DIRTY => \A k \in DOMAIN d.list : d.list[k].gone = f.offsets[k].gone
  /\ d.state < SCORE_DIRTY => \A k \in DOMAIN d.list : d.list[k].score = f.scores[k]
  /\ d.state < SYNC_DIRTY => d.syncs = f.syncs

Stands(d, f) == d.fresh => d.state \in SYNC..DEFRAGMENTED /\ Matches(d, f)

(* What a change of scores, of what is gone and of what is to be handed    *)
(* out leaves alone, and how dirty it makes the dictionary.                *)
Changed(d, e) ==
  /\ DOMAIN e = Fields
  /\ e.lemmas = d.lemmas /\ e.size = d.size /\ e.byId = d.byId /\ e.sizeLeft = d.sizeLeft
  /\ e.countLeft = d.countLeft /\ e.cache = d.cache /\ e.misses = d.misses /\ e.fresh = d.fresh
  /\ e.limit \in Nat /\ e.ratio \in 0..99 /\ e.syncs \in Seq(Nat)
  /\ e.list \in Seq(Entry) /\ Len(e.list) = Len(d.list)
  /\ \A k \in DOMAIN d.list : /\ e.list[k].at = d.list[k].at /\ e.list[k].id = d.list[k].id
                              /\ d.list[k].gone => e.list[k].gone
  /\ e.state \in NONE..DEFRAGMENTED /\ d.state <= e.state
  /\ d.state <= LEMMA_DIRTY => e.state <= LEMMA_DIRTY
  /\ e.state < OFFSET_DIRTY => \A k \in DOMAIN d.list : e.list[k].gone = d.list[k].gone
  /\ e.state < SCORE_DIRTY => \A k \in DOMAIN d.list : e.list[k].score = d.list[k].score
  /\ e.state < SYNC_DIRTY => e.syncs = d.syncs

States == NONE = 0 /\ SYNC = 1 /\ SYNC_DIRTY = 2 /\ SCORE_DIRTY = 3 /\ OFFSET_DIRTY = 4
          /\ LEMMA_DIRTY = 5 /\ DEFRAGMENTED = 6
LEMMA StatesAre == States
  BY DEF States, NONE, SYNC, SYNC_DIRTY, SCORE_DIRTY, OFFSET_DIRTY, LEMMA_DIRTY, DEFRAGMENTED

(* A change leaves a good dictionary good, with every lemma where it was.  *)
LEMMA ChangeKeepsGood ==
  ASSUME NEW d, Good(d), NEW e, Changed(d, e)
  PROVE  Good(e) /\ DOMAIN e.list = DOMAIN d.list /\ \A k \in DOMAIN d.list : LemmaAt(e, k) = LemmaAt(d, k)
  <1>1. DOMAIN d.list = 1..Len(d.list) /\ DOMAIN e.list = 1..Len(d.list) /\ Len(d.list) \in Nat
    BY LenProperties DEF Good, IsDict, Changed
  <1>2. \A k \in DOMAIN d.list : LemmaAt(e, k) = LemmaAt(d, k) /\ Key(e, k) = Key(d, k)
    BY DEF Changed, LemmaAt, Key
  <1>3. IsDict(e)
    BY DEF Good, IsDict, Changed
  <1>4. Linked(e)
    BY <1>1 DEF Good, Linked, Changed
  <1>5. Sorted(e)
    BY <1>1, <1>2 DEF Good, Sorted
  <1>6. InUse(e) \subseteq InUse(d)
    BY <1>1 DEF InUse, Changed
  <1>7. e.cache = d.cache /\ e.misses = d.misses
    BY DEF Changed
  <1>8. \A k \in InUse(e) : k \in InUse(d) /\ Key(e, k) = Key(d, k)
    BY <1>2, <1>6, InUseIs
  <1>9. RangesHold(e)
    BY <1>7, <1>8 DEF Good, RangesHold
  <1>10. MissesHold(e)
    BY <1>7, <1>8 DEF Good, MissesHold
  <1> QED
    BY <1>1, <1>2, <1>3, <1>4, <1>5, <1>9, <1>10 DEF Good

(* A change raises the state enough for what it changed.                   *)
LEMMA ChangeStands ==
  ASSUME NEW d, Good(d), NEW e, Changed(d, e), NEW f, Stands(d, f)
  PROVE  Stands(e, f)
  <1> SUFFICES ASSUME e.fresh PROVE e.state \in SYNC..DEFRAGMENTED /\ Matches(e, f)
    BY DEF Stands
  <1>1. d.fresh /\ d.state \in SYNC..DEFRAGMENTED /\ Matches(d, f)
    BY DEF Stands, Changed
  <1>2. e.state \in SYNC..DEFRAGMENTED /\ d.state <= e.state
    BY <1>1, StatesAre DEF Changed, States
  <1>3. DOMAIN e.list = DOMAIN d.list
    BY LenProperties DEF Good, IsDict, Changed
  <1>4. d.state \in Nat /\ e.state \in Nat
    BY <1>1, <1>2, StatesAre DEF States
  <1>5. /\ e.state < LEMMA_DIRTY => d.state < LEMMA_DIRTY
        /\ e.state < OFFSET_DIRTY => d.state < OFFSET_DIRTY
        /\ e.state < SCORE_DIRTY => d.state < SCORE_DIRTY
        /\ e.state < SYNC_DIRTY => d.state < SYNC_DIRTY
        /\ e.state < DEFRAGMENTED => d.state < DEFRAGMENTED
    BY <1>1, <1>2, <1>4, StatesAre DEF States
  <1>6. e.state < DEFRAGMENTED =>
          /\ e.size - (Room - e.sizeLeft) = f.size /\ f.size <= e.size
          /\ \A o \in DOMAIN f.lemmas : o \in DOMAIN e.lemmas /\ e.lemmas[o] = f.lemmas[o]
          /\ \A o \in DOMAIN e.lemmas : o < f.size => o \in DOMAIN f.lemmas
    BY <1>1, <1>5 DEF Matches, Changed
  <1>7. e.state < LEMMA_DIRTY =>
          /\ e.size = f.size /\ Len(e.list) = Len(f.offsets)
          /\ \A k \in DOMAIN e.list : e.list[k].at = f.offsets[k].at
    BY <1>1, <1>3, <1>5 DEF Matches, Changed
  <1>8. e.state < OFFSET_DIRTY => \A k \in DOMAIN e.list : e.list[k].gone = f.offsets[k].gone
    BY <1>1, <1>3, <1>5 DEF Matches, Changed
  <1>9. e.state < SCORE_DIRTY => \A k \in DOMAIN e.list : e.list[k].score = f.scores[k]
    BY <1>1, <1>3, <1>5 DEF Matches, Changed
  <1>10. e.state < SYNC_DIRTY => e.syncs = f.syncs
    BY <1>1, <1>3, <1>5 DEF Matches, Changed
  <1> QED
    BY <1>2, <1>6, <1>7, <1>8, <1>9, <1>10 DEF Matches

(* A state is only raised.                                                 *)
LEMMA AtLeastIs ==
  ASSUME NEW s \in NONE..DEFRAGMENTED, NEW t \in SYNC..LEMMA_DIRTY
  PROVE  /\ AtLeast(s, t) \in NONE..DEFRAGMENTED /\ s <= AtLeast(s, t) /\ t <= AtLeast(s, t)
         /\ s <= LEMMA_DIRTY => AtLeast(s, t) <= LEMMA_DIRTY
         /\ s >= t => AtLeast(s, t) = s
  BY StatesAre DEF AtLeast, States

(* A new score is such a change, and the state tells of it.                *)
LEMMA RescoredChanges ==
  ASSUME NEW d, Good(d), NEW k \in DOMAIN d.list, NEW count \in Nat
  PROVE  /\ Changed(d, Rescored(d, k, count)) /\ Rescored(d, k, count).state >= SCORE_DIRTY
         /\ Rescored(d, k, count).syncs = d.syncs /\ InUse(Rescored(d, k, count)) = InUse(d)
  <1> DEFINE e == Rescored(d, k, count)
             list == [d.list EXCEPT ![k].score = count]
  <1>0. DOMAIN d = Fields /\ d.state \in NONE..DEFRAGMENTED
    BY DEF Good, IsDict
  <1>1. DOMAIN e = Fields
    BY <1>0 DEF Rescored
  <1>2. /\ e.lemmas = d.lemmas /\ e.size = d.size /\ e.byId = d.byId /\ e.sizeLeft = d.sizeLeft
        /\ e.countLeft = d.countLeft /\ e.cache = d.cache /\ e.misses = d.misses /\ e.fresh = d.fresh
        /\ e.limit = d.limit /\ e.ratio = d.ratio /\ e.syncs = d.syncs
        /\ e.state = AtLeast(d.state, SCORE_DIRTY) /\ e.list = list
    BY <1>0 DEF Rescored, Fields
  <1>3. DOMAIN d.list = 1..Len(d.list) /\ d.list[k] \in Entry
    BY PlaceFacts DEF Good
  <1>4. [d.list[k] EXCEPT !.score = count] \in Entry
    BY <1>3 DEF Entry
  <1>5. list = [d.list EXCEPT ![k] = [d.list[k] EXCEPT !.score = count]]
    OBVIOUS
  <1>6. list \in Seq(Entry) /\ Len(list) = Len(d.list)
    BY <1>3, <1>4, <1>5, ExceptSeq DEF Good, IsDict
  <1>7. \A j \in DOMAIN d.list : /\ list[j].at = d.list[j].at /\ list[j].id = d.list[j].id
                                 /\ list[j].gone = d.list[j].gone
    BY <1>3, <1>4, <1>5 DEF Entry
  <1>8. /\ e.state \in NONE..DEFRAGMENTED /\ d.state <= e.state /\ SCORE_DIRTY <= e.state
        /\ d.state <= LEMMA_DIRTY => e.state <= LEMMA_DIRTY
    BY <1>0, <1>2, AtLeastIs, StatesAre DEF States
  <1>9. ~(e.state < SCORE_DIRTY) /\ e.state >= SCORE_DIRTY
    BY <1>8, StatesAre DEF States
  <1>10. DOMAIN list = DOMAIN d.list
    BY <1>5
  <1> HIDE DEF e, list
  <1>11. InUse(e) = InUse(d)
    BY <1>2, <1>7, <1>10 DEF InUse
  <1>12. Changed(d, e)
    BY <1>1, <1>2, <1>6, <1>7, <1>8, <1>9 DEF Good, IsDict, Changed
  <1> QED
    BY <1>2, <1>9, <1>11, <1>12 DEF e

LEMMA WithoutSyncIs == ASSUME NEW s \in Seq(Nat), NEW at PROVE WithoutSync(s, at) \in Seq(Nat)
  <1> DEFINE ks == {k \in DOMAIN s : s[k] = at}
             t == [s EXCEPT ![Least(ks)] = Last(s)]
  <1>1. DOMAIN s = 1..Len(s) /\ Len(s) \in Nat
    BY LenProperties
  <1>2. CASE ks = {}
    BY <1>2 DEF WithoutSync
  <1>3. CASE ks # {}
    <2>1. Least(ks) \in ks
      <3>1. ks \subseteq Nat
        BY <1>1
      <3> HIDE DEF ks
      <3> QED
        BY <1>3, <3>1, LeastNumber
    <2>2. Least(ks) \in 1..Len(s) /\ Len(s) \in 1..Len(s)
      BY <1>1, <2>1
    <2>3. Last(s) \in Nat
      BY <2>2, ElementOfSeq DEF Last
    <2>4. t \in Seq(Nat) /\ Len(t) = Len(s)
      BY <2>2, <2>3, ExceptSeq
    <2> HIDE DEF t
    <2>5. Front(t) \in Seq(Nat)
      <3>1. \A i \in 1..(Len(t) - 1) : t[i] \in Nat
        BY <1>1, <2>4, ElementOfSeq
      <3>2. SubSeq(t, 1, Len(t) - 1) \in Seq(Nat)
        BY <1>1, <2>4, <3>1, SubSeqProperties
      <3> QED
        BY <3>2 DEF Front
    <2>6. WithoutSync(s, at) = Front(t)
      BY <1>3 DEF WithoutSync, t
    <2> QED
      BY <2>5, <2>6
  <1> QED
    BY <1>2, <1>3

(* So is marking a lemma as gone.                                          *)
LEMMA RemovedChanges ==
  ASSUME NEW d, Good(d), NEW k \in DOMAIN d.list
  PROVE  /\ Changed(d, Removed(d, k)) /\ Removed(d, k).ratio = d.ratio
         /\ \A j \in DOMAIN d.list : Removed(d, k).list[j].score = d.list[j].score
  <1> DEFINE e == Removed(d, k)
             list == [d.list EXCEPT ![k].gone = TRUE]
  <1>0. DOMAIN d = Fields /\ d.state \in NONE..DEFRAGMENTED
    BY DEF Good, IsDict
  <1>1. DOMAIN e = Fields
    BY <1>0 DEF Removed
  <1>2. /\ e.lemmas = d.lemmas /\ e.size = d.size /\ e.byId = d.byId /\ e.sizeLeft = d.sizeLeft
        /\ e.countLeft = d.countLeft /\ e.cache = d.cache /\ e.misses = d.misses /\ e.fresh = d.fresh
        /\ e.limit = d.limit /\ e.ratio = d.ratio /\ e.syncs = WithoutSync(d.syncs, d.list[k].at)
        /\ e.state = AtLeast(d.state, OFFSET_DIRTY) /\ e.list = list
    BY <1>0 DEF Removed, Fields
  <1>3. DOMAIN d.list = 1..Len(d.list) /\ d.list[k] \in Entry
    BY PlaceFacts DEF Good
  <1>4. [d.list[k] EXCEPT !.gone = TRUE] \in Entry
    BY <1>3 DEF Entry
  <1>5. list = [d.list EXCEPT ![k] = [d.list[k] EXCEPT !.gone = TRUE]]
    OBVIOUS
  <1>6. list \in Seq(Entry) /\ Len(list) = Len(d.list)
    BY <1>3, <1>4, <1>5, ExceptSeq DEF Good, IsDict
  <1>7. \A j \in DOMAIN d.list : /\ list[j].at = d.list[j].at /\ list[j].id = d.list[j].id
                                 /\ list[j].score = d.list[j].score
                                 /\ d.list[j].gone => list[j].gone
    BY <1>3, <1>4, <1>5 DEF Entry
  <1>8. /\ e.state \in NONE..DEFRAGMENTED /\ d.state <= e.state /\ OFFSET_DIRTY <= e.state
        /\ d.state <= LEMMA_DIRTY => e.state <= LEMMA_DIRTY
    BY <1>0, <1>2, AtLeastIs, StatesAre DEF States
  <1>9. ~(e.state < OFFSET_DIRTY) /\ ~(e.state < SCORE_DIRTY) /\ ~(e.state < SYNC_DIRTY)
    BY <1>8, StatesAre DEF States
  <1>10. e.syncs \in Seq(Nat)
    BY <1>2, WithoutSyncIs DEF Good, IsDict
  <1> HIDE DEF e, list
  <1>12. Changed(d, e)
    BY <1>1, <1>2, <1>6, <1>7, <1>8, <1>9, <1>10 DEF Good, IsDict, Changed
  <1> QED
    BY <1>2, <1>7, <1>12 DEF e

(* So are additions to, and removals from, the list to hand out.           *)
LEMMA SyncsChange ==
  ASSUME NEW d, Good(d), NEW s \in Seq(Nat), NEW e,
         \/ d.state >= SYNC_DIRTY /\ e = [d EXCEPT !.syncs = s]
         \/ e = [d EXCEPT !.syncs = s, !.state = AtLeast(@, SYNC_DIRTY)]
         \/ s = d.syncs /\ e = [d EXCEPT !.state = AtLeast(@, SYNC_DIRTY)]
  PROVE  Changed(d, e) /\ InUse(e) = InUse(d)
  <1>0. DOMAIN d = Fields /\ d.state \in NONE..DEFRAGMENTED /\ d.list \in Seq(Entry)
    BY DEF Good, IsDict
  <1>1. DOMAIN e = Fields
    BY <1>0
  <1>2. /\ e.lemmas = d.lemmas /\ e.size = d.size /\ e.byId = d.byId /\ e.sizeLeft = d.sizeLeft
        /\ e.countLeft = d.countLeft /\ e.cache = d.cache /\ e.misses = d.misses /\ e.fresh = d.fresh
        /\ e.limit = d.limit /\ e.ratio = d.ratio /\ e.syncs = s /\ e.list = d.list
        /\ (e.state = d.state /\ d.state >= SYNC_DIRTY) \/ e.state = AtLeast(d.state, SYNC_DIRTY)
    <2>1. CASE d.state >= SYNC_DIRTY /\ e = [d EXCEPT !.syncs = s]
      BY <1>0, <2>1 DEF Fields
    <2>2. CASE e = [d EXCEPT !.syncs = s, !.state = AtLeast(@, SYNC_DIRTY)]
      BY <1>0, <2>2 DEF Fields
    <2>3. CASE s = d.syncs /\ e = [d EXCEPT !.state = AtLeast(@, SYNC_DIRTY)]
      BY <1>0, <2>3 DEF Fields
    <2> QED
      BY <2>1, <2>2, <2>3
  <1>3. /\ e.state \in NONE..DEFRAGMENTED /\ d.state <= e.state /\ SYNC_DIRTY <= e.state
        /\ d.state <= LEMMA_DIRTY => e.state <= LEMMA_DIRTY
    BY <1>0, <1>2, AtLeastIs, StatesAre DEF States
  <1>4. ~(e.state < SYNC_DIRTY)
    BY <1>3, StatesAre DEF States
  <1>5. InUse(e) = InUse(d)
    BY <1>2 DEF InUse
  <1> QED
    BY <1>1, <1>2, <1>3, <1>4, <1>5 DEF Good, IsDict, Changed

(* So is a new limit.                                                      *)
LEMMA LimitsChange ==
  ASSUME NEW d, Good(d), NEW limit \in Nat, NEW ratio \in 0..99
  PROVE  Changed(d, [d EXCEPT !.limit = limit, !.ratio = ratio])
  <1> DEFINE e == [d EXCEPT !.limit = limit, !.ratio = ratio]
  <1>0. DOMAIN d = Fields /\ d.state \in NONE..DEFRAGMENTED
    BY DEF Good, IsDict
  <1>1. DOMAIN e = Fields
    BY <1>0
  <1>2. /\ e.lemmas = d.lemmas /\ e.size = d.size /\ e.byId = d.byId /\ e.sizeLeft = d.sizeLeft
        /\ e.countLeft = d.countLeft /\ e.cache = d.cache /\ e.misses = d.misses /\ e.fresh = d.fresh
        /\ e.limit = limit /\ e.ratio = ratio /\ e.syncs = d.syncs /\ e.list = d.list
        /\ e.state = d.state
    BY <1>0 DEF Fields
  <1>3. d.state <= e.state
    BY <1>0, <1>2, StatesAre DEF States
  <1> HIDE DEF e
  <1> QED
    BY <1>1, <1>2, <1>3 DEF Good, IsDict, Changed

(* A ring keeps what it had, but for the oldest, and has the new one.      *)
LEMMA PushedIs ==
  ASSUME NEW S, NEW ring \in Seq(S), NEW e \in S, NEW size \in Nat \ {0, 1}
  PROVE  /\ Pushed(ring, e, size) \in Seq(Range(Pushed(ring, e, size)))
         /\ \A c \in DOMAIN Pushed(ring, e, size) :
              \/ Pushed(ring, e, size)[c] = e
              \/ \E b \in DOMAIN ring : Pushed(ring, e, size)[c] = ring[b]
  <1> DEFINE p == Pushed(ring, e, size)
  <1>0. Len(ring) \in Nat /\ DOMAIN ring = 1..Len(ring)
    BY LenProperties
  <1>1. PICK t \in Seq(S) : /\ p = Append(t, e)
                           /\ \A c \in 1..Len(t) : \E b \in DOMAIN ring : t[c] = ring[b]
    <2>1. CASE Len(ring) < size - 1
      BY <1>0, <2>1 DEF Pushed
    <2>2. CASE ~(Len(ring) < size - 1)
      <3>1. ring # <<>>
        BY <1>0, <2>2, EmptySeq
      <3>2. Tail(ring) \in Seq(S) /\ Len(Tail(ring)) = Len(ring) - 1
            /\ \A i \in 1..Len(Tail(ring)) : Tail(ring)[i] = ring[i + 1]
        BY <3>1, HeadTailProperties
      <3>3. \A i \in 1..Len(Tail(ring)) : i + 1 \in DOMAIN ring
        BY <1>0, <3>2
      <3>4. p = Append(Tail(ring), e)
        BY <2>2 DEF Pushed
      <3> QED
        BY <3>2, <3>3, <3>4
    <2> QED
      BY <2>1, <2>2
  <1> HIDE DEF p
  <1>2. /\ p \in Seq(S) /\ Len(p) = Len(t) + 1 /\ p[Len(t) + 1] = e
        /\ \A c \in 1..Len(t) : p[c] = t[c]
    BY <1>1, AppendProperties
  <1>3. DOMAIN p = 1..(Len(t) + 1) /\ Len(t) \in Nat
    BY <1>1, <1>2, LenProperties
  <1>4. \A c \in DOMAIN p : p[c] = e \/ \E b \in DOMAIN ring : p[c] = ring[b]
    <2>1. \A c \in DOMAIN p : c \in 1..Len(t) \/ c = Len(t) + 1
      BY <1>3
    <2> QED
      BY <1>1, <1>2, <2>1
  <1>5. p \in Seq(Range(p))
    BY <1>2, SeqOfRange
  <1> QED
    BY <1>4, <1>5 DEF p

(***************************************************************************)
(* A lookup changes nothing but the caches, and leaves them right.         *)
(***************************************************************************)
LEMMA CachesKeep ==
  ASSUME NEW d, Good(d), NEW cache, NEW misses, NEW e,
         e = [d EXCEPT !.cache = cache, !.misses = misses], RangesHold(e), MissesHold(e)
  PROVE  /\ Good(e) /\ \A f : Stands(d, f) => Stands(e, f)
         /\ InUse(e) = InUse(d) /\ \A k : LemmaAt(e, k) = LemmaAt(d, k)
  <1>0. DOMAIN d = Fields
    BY DEF Good, IsDict
  <1>1. DOMAIN e = Fields
    BY <1>0
  <1>2. /\ e.lemmas = d.lemmas /\ e.size = d.size /\ e.byId = d.byId /\ e.sizeLeft = d.sizeLeft
        /\ e.countLeft = d.countLeft /\ e.fresh = d.fresh
        /\ e.limit = d.limit /\ e.ratio = d.ratio /\ e.syncs = d.syncs /\ e.list = d.list
        /\ e.state = d.state
    BY <1>0 DEF Fields
  <1>3. \A k : LemmaAt(e, k) = LemmaAt(d, k) /\ Key(e, k) = Key(d, k)
    BY <1>2 DEF LemmaAt, Key
  <1>4. InUse(e) = InUse(d)
    BY <1>2 DEF InUse
  <1>5. IsDict(e)
    BY <1>1, <1>2 DEF Good, IsDict
  <1>6. Linked(e) /\ Sorted(e)
    BY <1>2, <1>3 DEF Good, Linked, Sorted
  <1>7. ASSUME NEW f, Stands(d, f) PROVE Stands(e, f)
    BY <1>2, <1>7 DEF Stands, Matches
  <1> QED
    BY <1>3, <1>4, <1>5, <1>6, <1>7 DEF Good

(* Filling the caches by a lookup keeps everything else and is right.      *)
LEMMA LookupKeeps ==
  ASSUME NEW d, Good(d), NEW sig, Len(sig) \in Lengths
  PROVE  /\ Good(AfterLookup(d, sig)) /\ \A f : Stands(d, f) => Stands(AfterLookup(d, sig), f)
  <1> DEFINE e == AfterLookup(d, sig)
             r == Looked(d, sig)
             n == Len(sig)
             entry == [sig |-> sig, start |-> r.start, count |-> r.count]
  <1>0. DOMAIN d = Fields /\ DOMAIN d.cache = Lengths /\ DOMAIN d.misses = Lengths /\ n \in Lengths
    BY DEF Good, IsDict, RangesHold, MissesHold
  <1>r. /\ r.start \in Nat /\ r.count \in Nat
        /\ \A k \in InUse(d) : Key(d, k) = sig => k \in r.start..(r.start + r.count - 1)
    BY LookedCovers
  <1>1. CASE Missed(d, sig) \/ Cached(d, sig) # {}
    BY <1>1 DEF AfterLookup
  <1>2. CASE ~(Missed(d, sig) \/ Cached(d, sig) # {}) /\ r.start = 0
    <2> DEFINE p == Pushed(d.misses[n], sig, kUserDictMissCacheSize)
               misses == [d.misses EXCEPT ![n] = p]
    <2>1. e = [d EXCEPT !.misses[n] = Pushed(@, sig, kUserDictMissCacheSize)]
      BY <1>2 DEF AfterLookup
    <2>2. e = [d EXCEPT !.cache = d.cache, !.misses = misses]
      <3>1. [d EXCEPT !.misses[n] = Pushed(@, sig, kUserDictMissCacheSize)] = [d EXCEPT !.misses = misses]
        BY <1>0 DEF Fields
      <3>2. DOMAIN d = Fields => [d EXCEPT !.misses = misses] = [d EXCEPT !.cache = d.cache, !.misses = misses]
        BY DEF Fields
      <3> QED
        BY <1>0, <2>1, <3>1, <3>2
    <2>3. e.cache = d.cache /\ e.misses = misses /\ e.list = d.list /\ e.lemmas = d.lemmas
      BY <1>0, <2>2 DEF Fields
    <2>4. InUse(e) = InUse(d) /\ \A k : Key(e, k) = Key(d, k)
      BY <2>3 DEF InUse, Key, LemmaAt
    <2>5. \A k \in InUse(d) : Key(d, k) # sig
      <3>1. r.count = 0
        BY <1>2 DEF Looked
      <3> QED
        BY <1>2, <1>r, <3>1
    <2>6. RangesHold(e)
      BY <2>3, <2>4 DEF Good, RangesHold
    <2>7. /\ p \in Seq(Range(p))
          /\ \A c \in DOMAIN p : p[c] = sig \/ \E b \in DOMAIN d.misses[n] : p[c] = d.misses[n][b]
      <3> DEFINE S == Range(d.misses[n]) \cup {sig}
      <3>1. d.misses[n] \in Seq(S)
        BY <1>0, SeqMonotonic DEF Good, MissesHold
      <3>2. sig \in S /\ kUserDictMissCacheSize \in Nat \ {0, 1}
        BY SizesAssumption
      <3> HIDE DEF S
      <3> QED
        BY <3>1, <3>2, PushedIs
    <2> HIDE DEF p
    <2>8. ASSUME NEW m \in Lengths PROVE misses[m] = IF m = n THEN p ELSE d.misses[m]
      BY <1>0
    <2>9. DOMAIN misses = Lengths
      BY <1>0
    <2> HIDE DEF misses, e
    <2>10. ASSUME NEW m \in Lengths
           PROVE  /\ e.misses[m] \in Seq(Range(e.misses[m]))
                  /\ \A c \in DOMAIN e.misses[m] : \A k \in InUse(e) : Key(e, k) # e.misses[m][c]
      <3>1. CASE m = n
        BY <1>0, <2>3, <2>4, <2>5, <2>7, <2>8, <3>1 DEF Good, MissesHold
      <3>2. CASE m # n
        BY <2>3, <2>4, <2>8, <3>2 DEF Good, MissesHold
      <3> QED
        BY <3>1, <3>2
    <2>11. MissesHold(e)
      BY <2>3, <2>9, <2>10 DEF MissesHold
    <2> HIDE DEF n
    <2> QED
      BY <2>2, <2>6, <2>11, CachesKeep DEF e
  <1>3. CASE ~(Missed(d, sig) \/ Cached(d, sig) # {}) /\ r.start # 0
    <2> DEFINE p == Pushed(d.cache[n], entry, kUserDictCacheSize)
               cache == [d.cache EXCEPT ![n] = p]
    <2>1. e = [d EXCEPT !.cache[n] = Pushed(@, entry, kUserDictCacheSize)]
      BY <1>3 DEF AfterLookup
    <2>2. e = [d EXCEPT !.cache = cache, !.misses = d.misses]
      <3>1. [d EXCEPT !.cache[n] = Pushed(@, entry, kUserDictCacheSize)] = [d EXCEPT !.cache = cache]
        BY <1>0 DEF Fields
      <3>2. DOMAIN d = Fields => [d EXCEPT !.cache = cache] = [d EXCEPT !.cache = cache, !.misses = d.misses]
        BY DEF Fields
      <3> QED
        BY <1>0, <2>1, <3>1, <3>2
    <2>3. e.cache = cache /\ e.misses = d.misses /\ e.list = d.list /\ e.lemmas = d.lemmas
      BY <1>0, <2>2 DEF Fields
    <2>4. InUse(e) = InUse(d) /\ \A k : Key(e, k) = Key(d, k)
      BY <2>3 DEF InUse, Key, LemmaAt
    <2>6. MissesHold(e)
      BY <2>3, <2>4 DEF Good, MissesHold
    <2>7. /\ p \in Seq(Range(p))
          /\ \A c \in DOMAIN p : p[c] = entry \/ \E b \in DOMAIN d.cache[n] : p[c] = d.cache[n][b]
      <3> DEFINE S == Range(d.cache[n]) \cup {entry}
      <3>1. d.cache[n] \in Seq(S)
        BY <1>0, SeqMonotonic DEF Good, RangesHold
      <3>2. entry \in S /\ kUserDictCacheSize \in Nat \ {0, 1}
        BY SizesAssumption
      <3> HIDE DEF S, entry
      <3> QED
        BY <3>1, <3>2, PushedIs
    <2>e. entry.sig = sig /\ entry.start = r.start /\ entry.count = r.count
      OBVIOUS
    <2> HIDE DEF p, entry, r
    <2>8. ASSUME NEW m \in Lengths PROVE cache[m] = IF m = n THEN p ELSE d.cache[m]
      BY <1>0
    <2>9. DOMAIN cache = Lengths
      BY <1>0
    <2> HIDE DEF cache, e
    <2>10. ASSUME NEW m \in Lengths
           PROVE  /\ e.cache[m] \in Seq(Range(e.cache[m]))
                  /\ \A c \in DOMAIN e.cache[m] :
                       /\ e.cache[m][c].start \in Nat \ {0} /\ e.cache[m][c].count \in Nat
                       /\ \A k \in InUse(e) : Key(e, k) = e.cache[m][c].sig =>
                            k \in e.cache[m][c].start..(e.cache[m][c].start + e.cache[m][c].count - 1)
      <3> DEFINE Fits(x) == /\ x.start \in Nat \ {0} /\ x.count \in Nat
                            /\ \A k \in InUse(e) : Key(e, k) = x.sig => k \in x.start..(x.start + x.count - 1)
      <3>1. \A b \in DOMAIN d.cache[m] : Fits(d.cache[m][b])
        BY <2>4 DEF Good, RangesHold
      <3>2. Fits(entry)
        BY <1>3, <1>r, <2>4, <2>e
      <3>3. CASE m = n
        <4>1. e.cache[m] = p
          BY <2>3, <2>8, <3>3
        <4>2. \A c \in DOMAIN p : Fits(p[c])
          <5> HIDE DEF Fits
          <5> QED
            BY <2>7, <3>1, <3>2, <3>3
        <4> QED
          BY <2>7, <4>1, <4>2
      <3>4. CASE m # n
        <4>1. e.cache[m] = d.cache[m]
          BY <2>3, <2>8, <3>4
        <4>2. d.cache[m] \in Seq(Range(d.cache[m]))
          BY DEF Good, RangesHold
        <4> QED
          BY <3>1, <4>1, <4>2
      <3> QED
        BY <3>3, <3>4
    <2>11. RangesHold(e)
      BY <2>3, <2>9, <2>10 DEF RangesHold
    <2> HIDE DEF n
    <2> QED
      BY <2>2, <2>6, <2>11, CachesKeep DEF e
  <1> QED
    BY <1>1, <1>2, <1>3

(***************************************************************************)
(* Adding a lemma: the place it goes to keeps the order, the others move   *)
(* up behind it.                                                           *)
(***************************************************************************)
Moved(p, k) == IF k < p THEN k ELSE k + 1

(* What an insertion puts where.                                           *)
LEMMA InsertedIs ==
  ASSUME NEW S, NEW s \in Seq(S), NEW x \in S, NEW p \in 1..(Len(s) + 1)
  PROVE  /\ InsertAt(s, p, x) \in Seq(S) /\ Len(InsertAt(s, p, x)) = Len(s) + 1
         /\ InsertAt(s, p, x)[p] = x
         /\ \A k \in 1..Len(s) : InsertAt(s, p, x)[Moved(p, k)] = s[k]
  <1> DEFINE a == SubSeq(s, 1, p - 1)
             b == SubSeq(s, p, Len(s))
  <1>0. Len(s) \in Nat /\ p \in Nat \ {0} /\ p <= Len(s) + 1
    BY LenProperties
  <1>1. /\ a \in Seq(S) /\ Len(a) = p - 1
        /\ \A i \in 1..(p - 1) : a[i] = s[i]
    <2>1. \A i \in 1..(p - 1) : s[i] \in S
      BY <1>0, ElementOfSeq
    <2>2. 1 \in Int /\ p - 1 \in Int
      BY <1>0
    <2>3. /\ a \in Seq(S) /\ Len(a) = IF 1 <= p - 1 THEN (p - 1) - 1 + 1 ELSE 0
          /\ \A i \in 1..((p - 1) - 1 + 1) : a[i] = s[1 + i - 1]
      BY <2>1, <2>2, SubSeqProperties
    <2>4. \A i \in 1..(p - 1) : i \in 1..((p - 1) - 1 + 1) /\ 1 + i - 1 = i
      BY <1>0
    <2> QED
      BY <1>0, <2>3, <2>4
  <1>2. /\ b \in Seq(S) /\ Len(b) = Len(s) - p + 1
        /\ \A i \in 1..(Len(s) - p + 1) : b[i] = s[p + i - 1]
    <2>1. \A i \in p..Len(s) : s[i] \in S
      BY <1>0, ElementOfSeq
    <2>2. /\ b \in Seq(S) /\ Len(b) = IF p <= Len(s) THEN Len(s) - p + 1 ELSE 0
          /\ \A i \in 1..(Len(s) - p + 1) : b[i] = s[p + i - 1]
      BY <1>0, <2>1, SubSeqProperties
    <2> QED
      BY <1>0, <2>2
  <1>3. <<x>> \in Seq(S) /\ Len(<<x>>) = 1 /\ <<x>>[1] = x
    OBVIOUS
  <1> HIDE DEF a, b
  <1> DEFINE c == a \o <<x>>
  <1>4. /\ c \in Seq(S) /\ Len(c) = p
        /\ \A i \in 1..p : c[i] = IF i <= p - 1 THEN a[i] ELSE <<x>>[i - (p - 1)]
    <2>1. /\ c \in Seq(S) /\ Len(c) = (p - 1) + 1
          /\ \A i \in 1..((p - 1) + 1) : c[i] = IF i <= p - 1 THEN a[i] ELSE <<x>>[i - (p - 1)]
      BY <1>1, <1>3, ConcatProperties
    <2>2. (p - 1) + 1 = p
      BY <1>0
    <2> QED
      BY <2>1, <2>2
  <1> HIDE DEF c
  <1> DEFINE w == c \o b
  <1>5. /\ w \in Seq(S) /\ Len(w) = Len(s) + 1
        /\ \A i \in 1..(Len(s) + 1) : w[i] = IF i <= p THEN c[i] ELSE b[i - p]
    <2>0. b \in Seq(S) /\ c \in Seq(S)
      BY <1>2, <1>4
    <2>1. /\ w \in Seq(S) /\ Len(w) = Len(c) + Len(b)
          /\ \A i \in 1..(Len(c) + Len(b)) : w[i] = IF i <= Len(c) THEN c[i] ELSE b[i - Len(c)]
      BY <2>0, ConcatProperties
    <2>2. Len(c) + Len(b) = Len(s) + 1 /\ Len(c) = p
      BY <1>0, <1>2, <1>4
    <2> QED
      BY <2>1, <2>2
  <1>6. InsertAt(s, p, x) = w
    BY DEF InsertAt, w, c, a, b
  <1> HIDE DEF w
  <1>7. w[p] = x
    <2>1. p \in 1..p /\ ~(p <= p - 1) /\ p - (p - 1) = 1
      BY <1>0
    <2>2. c[p] = x
      BY <1>3, <1>4, <2>1
    <2> QED
      BY <1>0, <1>5, <2>2
  <1>8. ASSUME NEW k \in 1..Len(s) PROVE w[Moved(p, k)] = s[k]
    <2>1. CASE k < p
      <3>1. k \in 1..p /\ k <= p - 1 /\ k \in 1..(p - 1) /\ k <= p /\ k \in 1..(Len(s) + 1)
        BY <1>0, <2>1
      <3> QED
        BY <1>1, <1>4, <1>5, <2>1, <3>1 DEF Moved
    <2>2. CASE ~(k < p)
      <3>1. /\ k + 1 \in 1..(Len(s) + 1) /\ ~(k + 1 <= p)
            /\ (k + 1) - p \in 1..(Len(s) - p + 1) /\ p + ((k + 1) - p) - 1 = k
        BY <1>0, <2>2
      <3> QED
        BY <1>2, <1>5, <2>2, <3>1 DEF Moved
    <2> QED
      BY <2>1, <2>2
  <1> QED
    BY <1>5, <1>6, <1>7, <1>8

(* Places move in their order, and around the new one.                     *)
LEMMA MovedIs ==
  ASSUME NEW n \in Nat, NEW p \in 1..(n + 1)
  PROVE  /\ \A k \in 1..n : Moved(p, k) \in 1..(n + 1) /\ Moved(p, k) # p
         /\ \A j, k \in 1..n : j < k <=> Moved(p, j) < Moved(p, k)
         /\ \A j, k \in 1..n : j = k <=> Moved(p, j) = Moved(p, k)
         /\ \A k \in 1..n : Moved(p, k) < p <=> k < p
         /\ \A m \in 1..(n + 1) : m # p => \E k \in 1..n : m = Moved(p, k)
  <1>1. ASSUME NEW m \in 1..(n + 1), m # p PROVE \E k \in 1..n : m = Moved(p, k)
    <2>1. CASE m < p
      <3>1. m \in 1..n
        BY <2>1
      <3> QED
        BY <2>1, <3>1 DEF Moved
    <2>2. CASE m > p
      <3>1. m - 1 \in 1..n /\ ~(m - 1 < p) /\ (m - 1) + 1 = m
        BY <2>2
      <3>2. Moved(p, m - 1) = m
        BY <3>1 DEF Moved
      <3> QED
        BY <3>1, <3>2
    <2> QED
      BY <1>1, <2>1, <2>2
  <1> QED
    BY <1>1 DEF Moved

(* Empty caches are right.                                                 *)
LEMMA NoCacheHolds ==
  ASSUME NEW e, e.cache = NoCache, e.misses = NoCache
  PROVE  RangesHold(e) /\ MissesHold(e)
  <1>1. NoCache = [n \in Lengths |-> <<>>]
    BY DEF NoCache, Lengths
  <1>2. <<>> \in Seq(Range(<<>>)) /\ DOMAIN <<>> = {}
    BY EmptySeq
  <1> QED
    BY <1>1, <1>2 DEF RangesHold, MissesHold

(* Where a lemma with these letters goes.                                  *)
Behind(d, sig) == {k \in DOMAIN d.list : ~FuzzyBefore(Key(d, k), sig)}
PlaceOf(d, l) == Least(Behind(d, Initials(l.spl)) \cup {Len(d.list) + 1})

(* What is before that place is not after the lemma, nor the other way.    *)
LEMMA PlaceOfIs ==
  ASSUME NEW d, Good(d), NEW l \in Lemmas
  PROVE  /\ PlaceOf(d, l) \in 1..(Len(d.list) + 1)
         /\ \A k \in DOMAIN d.list : k < PlaceOf(d, l) => ~FuzzyBefore(Initials(l.spl), Key(d, k))
         /\ \A k \in DOMAIN d.list : k >= PlaceOf(d, l) => ~FuzzyBefore(Key(d, k), Initials(l.spl))
  <1> DEFINE sig == Initials(l.spl)
             n == Len(d.list)
             S == Behind(d, sig) \cup {n + 1}
             p == Least(S)
  <1>0. n \in Nat /\ DOMAIN d.list = 1..n /\ IsLetters(sig) /\ \A k \in DOMAIN d.list : IsLetters(Key(d, k))
    BY PlaceFacts, LemmaFacts DEF Good
  <1>1. S \subseteq 1..(n + 1)
    BY <1>0 DEF Behind
  <1>2. p \in S /\ \A k \in S : p <= k
    <2>1. S \subseteq Nat /\ n + 1 \in S
      BY <1>0, <1>1
    <2> HIDE DEF S
    <2> QED
      BY <2>1, LeastNumber
  <1>3. p = PlaceOf(d, l)
    BY DEF PlaceOf
  <1> HIDE DEF p
  <1>4. ASSUME NEW k \in DOMAIN d.list, k < p PROVE ~FuzzyBefore(sig, Key(d, k))
    <2>1. k \notin S
      BY <1>0, <1>1, <1>2, <1>4
    <2>2. FuzzyBefore(Key(d, k), sig)
      BY <2>1 DEF Behind
    <2> QED
      BY <1>0, <2>2, BeforeNotAfter
  <1>5. ASSUME NEW k \in DOMAIN d.list, k >= p PROVE ~FuzzyBefore(Key(d, k), sig)
    <2>1. p \in Behind(d, sig)
      BY <1>0, <1>1, <1>2, <1>5
    <2>2. p \in DOMAIN d.list /\ ~FuzzyBefore(Key(d, p), sig)
      BY <2>1 DEF Behind
    <2>3. CASE k = p
      BY <2>2, <2>3
    <2>4. CASE p < k
      <3>1. ~FuzzyBefore(Key(d, k), Key(d, p))
        BY <2>2, <2>4 DEF Good, Sorted
      <3> QED
        BY <1>0, <2>2, <3>1, NotBeforeTransitive
    <2> QED
      BY <1>0, <1>5, <2>2, <2>3, <2>4
  <1> HIDE DEF S, sig
  <1> QED
    BY <1>1, <1>2, <1>3, <1>4, <1>5 DEF sig

(* What adding a lemma makes of a dictionary.                              *)
AddsAt(d, l, count, p, e) ==
  /\ DOMAIN e = Fields /\ e.limit = d.limit /\ e.ratio = d.ratio
  /\ e.lemmas = Joined([at \in {d.size} |-> l], d.lemmas) /\ e.size = d.size + Size(l)
  /\ e.list = InsertAt(d.list, p, [at |-> d.size, gone |-> FALSE, score |-> count, id |-> Len(d.list) + 1])
  /\ e.byId = Append(d.byId, d.size)
  /\ e.sizeLeft = d.sizeLeft - Size(l) /\ e.countLeft = d.countLeft - 1 /\ e.syncs = d.syncs
  /\ e.fresh = d.fresh /\ e.state = AtLeast(d.state, LEMMA_DIRTY)
  /\ e.cache = NoCache /\ e.misses = NoCache

LEMMA AppendedAdds ==
  ASSUME NEW d, DOMAIN d = Fields, NEW l, NEW count
  PROVE  AddsAt(d, l, count, PlaceOf(d, l), Appended(d, l, count))
  <1>1. DOMAIN Appended(d, l, count) = Fields
    BY DEF Appended
  <1> QED
    BY <1>1 DEF AddsAt, Appended, Fields, PlaceOf, Behind, Key

(* The block keeps its lemmas.                                             *)
LEMMA AddsToBlock ==
  ASSUME NEW d, Good(d), NEW l, NEW count, NEW p, NEW e, AddsAt(d, l, count, p, e)
  PROVE  /\ d.size \notin DOMAIN d.lemmas /\ DOMAIN e.lemmas = DOMAIN d.lemmas \cup {d.size}
         /\ e.lemmas[d.size] = l /\ \A o \in DOMAIN d.lemmas : e.lemmas[o] = d.lemmas[o]
  <1>1. d.size \notin DOMAIN d.lemmas
    BY DEF Good, IsDict, Block
  <1> QED
    BY <1>1 DEF AddsAt, Joined

(* The list keeps its entries, moved, and the ids lead where they led.     *)
LEMMA AddsToList ==
  ASSUME NEW d, Good(d), NEW l \in Lemmas, NEW count \in Nat, NEW p \in 1..(Len(d.list) + 1), NEW e,
         AddsAt(d, l, count, p, e)
  PROVE  /\ e.list \in Seq(Entry) /\ Len(e.list) = Len(d.list) + 1 /\ DOMAIN e.list = 1..(Len(d.list) + 1)
         /\ e.list[p] = [at |-> d.size, gone |-> FALSE, score |-> count, id |-> Len(d.list) + 1]
         /\ LemmaAt(e, p) = l
         /\ \A k \in DOMAIN d.list : e.list[Moved(p, k)] = d.list[k] /\ LemmaAt(e, Moved(p, k)) = LemmaAt(d, k)
  <1> DEFINE x == [at |-> d.size, gone |-> FALSE, score |-> count, id |-> Len(d.list) + 1]
  <1>0. /\ Len(d.list) \in Nat /\ DOMAIN d.list = 1..Len(d.list) /\ d.size \in Nat /\ d.list \in Seq(Entry)
        /\ \A o \in DOMAIN d.lemmas : o \in Nat /\ o < d.size
    BY PlaceFacts DEF Good, IsDict, Block
  <1>1. x \in Entry
    BY <1>0 DEF Entry
  <1>2. /\ e.list \in Seq(Entry) /\ Len(e.list) = Len(d.list) + 1 /\ e.list[p] = x
        /\ \A k \in 1..Len(d.list) : e.list[Moved(p, k)] = d.list[k]
    <2>1. e.list = InsertAt(d.list, p, x)
      BY DEF AddsAt
    <2> HIDE DEF x
    <2>2. /\ InsertAt(d.list, p, x) \in Seq(Entry) /\ Len(InsertAt(d.list, p, x)) = Len(d.list) + 1
          /\ InsertAt(d.list, p, x)[p] = x
          /\ \A k \in 1..Len(d.list) : InsertAt(d.list, p, x)[Moved(p, k)] = d.list[k]
      BY <1>0, <1>1, InsertedIs
    <2> QED
      BY <2>1, <2>2
  <1>3. DOMAIN e.list = 1..(Len(d.list) + 1)
    BY <1>2, LenProperties
  <1>5. e.lemmas[d.size] = l /\ \A o \in DOMAIN d.lemmas : e.lemmas[o] = d.lemmas[o]
    BY AddsToBlock
  <1>6. LemmaAt(e, p) = l
    BY <1>2, <1>5 DEF LemmaAt
  <1>7. \A k \in DOMAIN d.list : LemmaAt(e, Moved(p, k)) = LemmaAt(d, k)
    BY <1>0, <1>2, <1>5 DEF LemmaAt, Good, Linked
  <1> QED
    BY <1>0, <1>2, <1>3, <1>6, <1>7

(* With a lemma more the dictionary is good, and has no stale caches.      *)
LEMMA AddsKeepsGood ==
  ASSUME NEW d, Good(d), NEW l \in Lemmas, NEW count \in Nat, NEW e,
         AddsAt(d, l, count, PlaceOf(d, l), e)
  PROVE  Good(e)
  <1> DEFINE p == PlaceOf(d, l)
             n == Len(d.list)
             sig == Initials(l.spl)
  <1>p. /\ p \in 1..(n + 1)
        /\ \A k \in DOMAIN d.list : k < p => ~FuzzyBefore(sig, Key(d, k))
        /\ \A k \in DOMAIN d.list : k >= p => ~FuzzyBefore(Key(d, k), sig)
    BY PlaceOfIs
  <1>e. AddsAt(d, l, count, p, e)
    OBVIOUS
  <1> HIDE DEF p
  <1>0. /\ n \in Nat /\ DOMAIN d.list = 1..n /\ d.size \in Nat /\ Size(l) \in Nat \ {0}
        /\ Len(d.byId) = n /\ d.byId \in Seq(Nat)
        /\ \A o \in DOMAIN d.lemmas : o \in Nat /\ o < d.size /\ d.lemmas[o] \in Lemmas
    BY PlaceFacts, LemmaFacts DEF Good, IsDict, Block
  <1>1. /\ e.list \in Seq(Entry) /\ Len(e.list) = n + 1 /\ DOMAIN e.list = 1..(n + 1)
        /\ e.list[p] = [at |-> d.size, gone |-> FALSE, score |-> count, id |-> n + 1]
        /\ LemmaAt(e, p) = l
        /\ \A k \in DOMAIN d.list : e.list[Moved(p, k)] = d.list[k] /\ LemmaAt(e, Moved(p, k)) = LemmaAt(d, k)
        /\ d.size \notin DOMAIN d.lemmas /\ DOMAIN e.lemmas = DOMAIN d.lemmas \cup {d.size}
        /\ e.lemmas[d.size] = l /\ \A o \in DOMAIN d.lemmas : e.lemmas[o] = d.lemmas[o]
    <2>1. /\ d.size \notin DOMAIN d.lemmas /\ DOMAIN e.lemmas = DOMAIN d.lemmas \cup {d.size}
          /\ e.lemmas[d.size] = l /\ \A o \in DOMAIN d.lemmas : e.lemmas[o] = d.lemmas[o]
      BY AddsToBlock
    <2> QED
      BY <1>p, <1>e, <2>1, AddsToList
  <1>2. Key(e, p) = sig /\ \A k \in DOMAIN d.list : Key(e, Moved(p, k)) = Key(d, k)
    BY <1>1 DEF Key
  <1>3. /\ e.byId \in Seq(Nat) /\ Len(e.byId) = n + 1 /\ DOMAIN e.byId = 1..(n + 1)
        /\ e.byId[n + 1] = d.size /\ \A k \in 1..n : e.byId[k] = d.byId[k]
    <2>1. e.byId = Append(d.byId, d.size)
      BY <1>e DEF AddsAt
    <2>2. /\ e.byId \in Seq(Nat) /\ Len(e.byId) = n + 1
          /\ e.byId[n + 1] = d.size /\ \A k \in 1..n : e.byId[k] = d.byId[k]
      BY <1>0, <2>1, AppendProperties
    <2> QED
      BY <2>2, LenProperties
  <1>4. /\ \A k \in 1..n : Moved(p, k) \in 1..(n + 1) /\ Moved(p, k) # p
        /\ \A j, k \in 1..n : j < k <=> Moved(p, j) < Moved(p, k)
        /\ \A k \in 1..n : Moved(p, k) < p <=> k < p
        /\ \A m \in 1..(n + 1) : m # p => \E k \in 1..n : m = Moved(p, k)
    BY <1>0, <1>p, MovedIs
  <1>5. IsDict(e)
    <2>1. Block(e.lemmas, e.size)
      <3>1. e.size = d.size + Size(l)
        BY <1>e DEF AddsAt
      <3>2. \A o \in DOMAIN e.lemmas : o \in Nat /\ o < e.size /\ e.lemmas[o] \in Lemmas
        BY <1>0, <1>1, <3>1
      <3>3. e.lemmas = [o \in DOMAIN e.lemmas |-> e.lemmas[o]]
        <4>1. e.lemmas = Joined([at \in {d.size} |-> l], d.lemmas)
          BY <1>e DEF AddsAt
        <4> QED
          BY <4>1 DEF Joined
      <3>4. e.lemmas \in [DOMAIN e.lemmas -> Lemmas]
        BY <3>2, <3>3
      <3> QED
        BY <1>0, <3>1, <3>2, <3>4 DEF Block
    <2>2. e.state \in NONE..DEFRAGMENTED
      <3>1. LEMMA_DIRTY \in SYNC..LEMMA_DIRTY
        BY StatesAre DEF States
      <3>2. e.state = AtLeast(d.state, LEMMA_DIRTY) /\ d.state \in NONE..DEFRAGMENTED
        BY <1>e DEF AddsAt, Good, IsDict
      <3> QED
        BY <3>1, <3>2, AtLeastIs
    <2>3. /\ e.syncs \in Seq(Nat) /\ e.sizeLeft \in Int /\ e.countLeft \in Int /\ e.fresh \in BOOLEAN
          /\ e.limit \in Nat /\ e.ratio \in 0..99 /\ DOMAIN e = Fields
      <3>1. /\ d.syncs \in Seq(Nat) /\ d.sizeLeft \in Int /\ d.countLeft \in Int /\ d.fresh \in BOOLEAN
            /\ d.limit \in Nat /\ d.ratio \in 0..99
        BY ONLY Good(d) DEF Good, IsDict
      <3>2. /\ e.syncs = d.syncs /\ e.sizeLeft = d.sizeLeft - Size(l) /\ e.countLeft = d.countLeft - 1
            /\ e.fresh = d.fresh /\ e.limit = d.limit /\ e.ratio = d.ratio /\ DOMAIN e = Fields
        BY ONLY <1>e DEF AddsAt
      <3>3. Size(l) \in Nat
        BY <1>0
      <3>4. d.sizeLeft - Size(l) \in Int /\ d.countLeft - 1 \in Int
        BY ONLY <3>1, <3>3
      <3> QED
        BY ONLY <3>1, <3>2, <3>4
    <2> QED
      BY <1>1, <1>3, <2>1, <2>2, <2>3 DEF IsDict
  <1>6. Linked(e)
    <2>1. ASSUME NEW m \in DOMAIN e.list
          PROVE  /\ e.list[m].at \in DOMAIN e.lemmas /\ e.list[m].id \in DOMAIN e.byId
                 /\ e.byId[e.list[m].id] = e.list[m].at
      <3>1. CASE m = p
        <4>1. e.list[m].at = d.size /\ e.list[m].id = n + 1
          BY <1>1, <3>1
        <4>2. d.size \in DOMAIN e.lemmas /\ n + 1 \in 1..(n + 1)
          BY <1>0, <1>1
        <4> QED
          BY <1>3, <4>1, <4>2
      <3>2. CASE m # p
        <4>1. PICK k \in 1..n : m = Moved(p, k)
          BY <1>1, <1>4, <3>2
        <4>2. e.list[m] = d.list[k]
          BY <1>0, <1>1, <4>1
        <4>3. DOMAIN d.byId = 1..n
          BY <1>0, LenProperties
        <4>4. d.list[k].at \in DOMAIN d.lemmas /\ d.list[k].id \in 1..n /\ d.byId[d.list[k].id] = d.list[k].at
          BY <1>0, <4>3 DEF Good, Linked
        <4>5. d.list[k].id \in 1..(n + 1)
          BY <1>0, <4>4
        <4> QED
          <5>1. PICK x : x = d.list[k]
            OBVIOUS
          <5>2. e.list[m] = x /\ x.at \in DOMAIN d.lemmas /\ d.byId[x.id] = x.at /\ x.id \in 1..n
            BY ONLY <4>2, <4>4, <5>1
          <5>3. x.at \in DOMAIN e.lemmas
            BY <1>1, <5>2
          <5>4. x.id \in DOMAIN e.byId /\ e.byId[x.id] = x.at
            BY ONLY <1>3, <4>5, <5>1, <5>2
          <5> QED
            BY ONLY <5>2, <5>3, <5>4
      <3> QED
        BY <3>1, <3>2
    <2> QED
      BY <2>1 DEF Linked
  <1>7. Sorted(e)
    <2>1. ASSUME NEW i \in DOMAIN e.list, NEW j \in DOMAIN e.list, i < j
          PROVE  ~FuzzyBefore(Key(e, j), Key(e, i))
      <3>1. CASE i # p /\ j # p
        <4>1. PICK a \in 1..n : i = Moved(p, a)
          BY <1>1, <1>4, <3>1
        <4>2. PICK b \in 1..n : j = Moved(p, b)
          BY <1>1, <1>4, <3>1
        <4>3. a < b
          BY <1>4, <2>1, <4>1, <4>2
        <4> QED
          BY <1>0, <1>2, <4>1, <4>2, <4>3 DEF Good, Sorted
      <3>2. CASE i = p
        <4>0. j # p
          BY <1>p, <2>1, <3>2
        <4>1. PICK b \in 1..n : j = Moved(p, b)
          BY <1>1, <1>4, <4>0
        <4>2. ~(b < p)
          BY <1>0, <1>1, <1>4, <1>p, <2>1, <3>2, <4>1
        <4>3. b \in DOMAIN d.list /\ b >= p
          BY <1>0, <1>p, <4>2
        <4> QED
          BY <1>2, <1>p, <3>2, <4>1, <4>3
      <3>3. CASE j = p
        <4>0. i # p
          BY <1>p, <2>1, <3>3
        <4>1. PICK a \in 1..n : i = Moved(p, a)
          BY <1>1, <1>4, <4>0
        <4>2. a < p /\ a \in DOMAIN d.list
          BY <1>0, <1>4, <2>1, <3>3, <4>1
        <4> QED
          BY <1>2, <1>p, <3>3, <4>1, <4>2
      <3> QED
        BY <3>1, <3>2, <3>3
    <2> QED
      BY <2>1 DEF Sorted
  <1>8. RangesHold(e) /\ MissesHold(e)
    BY <1>e, NoCacheHolds DEF AddsAt
  <1> QED
    BY <1>5, <1>6, <1>7, <1>8 DEF Good

(* It stands on its file as before.                                        *)
LEMMA AddsStands ==
  ASSUME NEW d, Good(d), NEW l \in Lemmas, NEW count \in Nat, NEW e,
         AddsAt(d, l, count, PlaceOf(d, l), e), NEW f, Stands(d, f)
  PROVE  Stands(e, f)
  <1> SUFFICES ASSUME e.fresh PROVE e.state \in SYNC..DEFRAGMENTED /\ Matches(e, f)
    BY DEF Stands
  <1>1. /\ DOMAIN e.lemmas = DOMAIN d.lemmas \cup {d.size} /\ d.size \notin DOMAIN d.lemmas
        /\ \A o \in DOMAIN d.lemmas : e.lemmas[o] = d.lemmas[o]
    BY AddsToBlock
  <1>2. d.fresh /\ d.state \in SYNC..DEFRAGMENTED /\ Matches(d, f)
    BY DEF AddsAt, Stands
  <1>s. (d.state \in SYNC..LEMMA_DIRTY /\ e.state = LEMMA_DIRTY) \/ e.state = DEFRAGMENTED
    BY <1>2, StatesAre DEF AddsAt, AtLeast, States
  <1>d. CASE e.state = DEFRAGMENTED
    BY <1>d, StatesAre DEF Matches, States
  <1> SUFFICES ASSUME d.state \in SYNC..LEMMA_DIRTY, e.state = LEMMA_DIRTY
               PROVE  e.state \in SYNC..DEFRAGMENTED /\ Matches(e, f)
    BY <1>s, <1>d
  <1>3. /\ d.size - (Room - d.sizeLeft) = f.size /\ f.size <= d.size
        /\ \A o \in DOMAIN f.lemmas : o \in DOMAIN d.lemmas /\ d.lemmas[o] = f.lemmas[o]
        /\ \A o \in DOMAIN d.lemmas : o < f.size => o \in DOMAIN f.lemmas
    BY <1>2, StatesAre DEF Matches, States
  <1>5. e.size = d.size + Size(l) /\ e.sizeLeft = d.sizeLeft - Size(l) /\ Size(l) \in Nat
        /\ d.size \in Nat /\ d.sizeLeft \in Int
    BY LemmaFacts DEF AddsAt, Good, IsDict, Block
  <1>6. Room \in Int
    BY SizesAssumption DEF Room
  <1>7. f.size \in Int /\ e.size - (Room - e.sizeLeft) = f.size /\ f.size <= e.size
    BY <1>3, <1>5, <1>6
  <1>8. \A o \in DOMAIN f.lemmas : o \in DOMAIN e.lemmas /\ e.lemmas[o] = f.lemmas[o]
    BY <1>1, <1>3
  <1>9. \A o \in DOMAIN e.lemmas : o < f.size => o \in DOMAIN f.lemmas
    <2>1. ~(d.size < f.size)
      BY <1>3, <1>5, <1>7
    <2> QED
      BY <1>1, <1>3, <2>1
  <1> QED
    BY <1>7, <1>8, <1>9, StatesAre DEF Matches, States

(***************************************************************************)
(* The file.                                                               *)
(***************************************************************************)
FileFields == {"lemmas", "size", "offsets", "scores", "syncs", "info"}
InfoFields == {"count", "size", "sync", "limit", "ratio"}
Offset == [at : Nat, gone : BOOLEAN]

(* A file, but for the number of lemmas to hand out in its last record.    *)
IsNearlyFile(f) ==
  /\ DOMAIN f = FileFields /\ DOMAIN f.info = InfoFields /\ Block(f.lemmas, f.size)
  /\ f.offsets \in Seq(Offset) /\ f.scores \in Seq(Nat) /\ f.syncs \in Seq(Nat)
  /\ f.info.limit \in Nat /\ f.info.ratio \in 0..99 /\ f.info.size = f.size
  /\ f.info.count = Len(f.offsets) /\ Len(f.scores) = Len(f.offsets) /\ f.info.sync \in Nat
IsFile(f) == IsNearlyFile(f) /\ f.info.sync = Len(f.syncs)
Whole(f) == IsFile(f) /\ Good(Loaded(f))

(* validate() refuses exactly the files whose record is wrong.             *)
LEMMA ValidIs == ASSUME NEW f, IsNearlyFile(f) PROVE Valid(f) <=> IsFile(f)
  <1>1. Len(f.offsets) \in Nat /\ Len(f.syncs) \in Nat /\ f.info.sync \in Nat /\ f.size \in Nat
    BY LenProperties DEF IsNearlyFile, Block
  <1>2. f.info.size = f.size /\ f.info.count = Len(f.offsets) /\ Len(f.scores) = Len(f.offsets)
    BY DEF IsNearlyFile
  <1>3. Valid(f) <=> f.info.sync = Len(f.syncs)
    <2> DEFINE o == Len(f.offsets)
    <2>1. Valid(f) <=> f.size + 4 * (o + o + Len(f.syncs)) = f.size + 8 * o + 4 * f.info.sync
      BY <1>2 DEF Valid
    <2>2. \A z, a, b, c \in Nat : z + 4 * (a + a + b) = z + 8 * a + 4 * c <=> c = b
      OBVIOUS
    <2>3. o \in Nat
      BY <1>1
    <2> HIDE DEF o
    <2>4. ASSUME NEW z \in Nat, NEW m \in Nat, NEW n \in Nat
          PROVE  z + 4 * (o + o + m) = z + 8 * o + 4 * n <=> n = m
      BY <2>2, <2>3
    <2>5. f.size \in Nat /\ Len(f.syncs) \in Nat /\ f.info.sync \in Nat
      BY <1>1
    <2>6. f.size + 4 * (o + o + Len(f.syncs)) = f.size + 8 * o + 4 * f.info.sync <=> f.info.sync = Len(f.syncs)
      BY <2>4, <2>5
    <2> QED
      BY <2>1, <2>6
  <1> QED
    BY <1>3 DEF IsFile

(* What load() makes of a file, field by field.                            *)
LEMMA LoadedIs ==
  ASSUME NEW f
  PROVE  LET e == Loaded(f) IN
         /\ DOMAIN e = Fields /\ e.state = SYNC /\ e.lemmas = f.lemmas /\ e.size = f.size
         /\ e.list = [k \in DOMAIN f.offsets |-> [at |-> f.offsets[k].at, gone |-> f.offsets[k].gone,
                                                  score |-> f.scores[k], id |-> k]]
         /\ e.byId = [k \in DOMAIN f.offsets |-> f.offsets[k].at]
         /\ e.syncs = f.syncs /\ e.countLeft = kUserDictPreAlloc /\ e.sizeLeft = Room
         /\ e.limit = f.info.limit /\ e.ratio = f.info.ratio /\ e.fresh = TRUE
         /\ e.cache = NoCache /\ e.misses = NoCache
  BY DEF Loaded, Closed, Fields

LEMMA ClosedIs ==
  /\ DOMAIN Closed = Fields /\ Closed.state = NONE /\ Closed.lemmas = <<>> /\ Closed.size = 0
  /\ Closed.list = <<>> /\ Closed.byId = <<>> /\ Closed.syncs = <<>> /\ Closed.countLeft = 0
  /\ Closed.sizeLeft = 0 /\ Closed.limit = 0 /\ Closed.ratio = 0 /\ Closed.cache = NoCache
  /\ Closed.misses = NoCache /\ Closed.fresh = FALSE
  BY DEF Closed, Fields

LEMMA EmptyIs == \A S : <<>> \in Seq(S) /\ Len(<<>>) = 0 /\ DOMAIN <<>> = {} /\ <<>> \in [{} -> S]
  BY EmptySeq

LEMMA EmptyBlock == Block(<<>>, 0)
  BY EmptyIs DEF Block

(* A closed object is good, and stands on no file.                         *)
LEMMA ClosedIsGood == Good(Closed) /\ ~Closed.fresh
  <1> DEFINE d == Closed
  <1>0. /\ DOMAIN d = Fields /\ d.state = NONE /\ d.lemmas = <<>> /\ d.size = 0
        /\ d.list = <<>> /\ d.byId = <<>> /\ d.syncs = <<>> /\ d.countLeft = 0
        /\ d.sizeLeft = 0 /\ d.limit = 0 /\ d.ratio = 0 /\ d.cache = NoCache
        /\ d.misses = NoCache /\ d.fresh = FALSE
    BY ClosedIs
  <1> HIDE DEF d
  <1>1. IsDict(d)
    <2>1. d.state \in NONE..DEFRAGMENTED
      BY <1>0, StatesAre DEF States
    <2>2. Block(d.lemmas, d.size)
      BY <1>0, EmptyBlock
    <2>3. d.list \in Seq(Entry) /\ d.byId \in Seq(Nat) /\ d.syncs \in Seq(Nat) /\ Len(d.byId) = Len(d.list)
      BY <1>0, EmptyIs
    <2>4. d.sizeLeft \in Int /\ d.countLeft \in Int /\ d.limit \in Nat /\ d.ratio \in 0..99
      BY <1>0
    <2> QED
      BY <1>0, <2>1, <2>2, <2>3, <2>4 DEF IsDict
  <1>2. DOMAIN d.list = {}
    BY <1>0, EmptyIs
  <1>3. Linked(d) /\ Sorted(d)
    BY <1>2 DEF Linked, Sorted
  <1>4. RangesHold(d) /\ MissesHold(d)
    BY <1>0, NoCacheHolds
  <1> QED
    BY <1>0, <1>1, <1>3, <1>4 DEF Good, d

(* What a dictionary says and what its file says.                          *)
OffsetsOf(d) == [k \in DOMAIN d.list |-> [at |-> d.list[k].at, gone |-> d.list[k].gone]]
ScoresOf(d) == [k \in DOMAIN d.list |-> d.list[k].score]
Says(f, d, syncs) ==
  /\ IsNearlyFile(f)
  /\ f.lemmas = d.lemmas /\ f.size = d.size /\ f.offsets = OffsetsOf(d) /\ f.scores = ScoresOf(d)
  /\ f.syncs = syncs

(* The sections of offsets and scores that a dictionary writes.            *)
LEMMA ListSays ==
  ASSUME NEW d, Good(d)
  PROVE  /\ OffsetsOf(d) \in Seq(Offset) /\ Len(OffsetsOf(d)) = Len(d.list)
         /\ ScoresOf(d) \in Seq(Nat) /\ Len(ScoresOf(d)) = Len(d.list)
  <1>1. Len(d.list) \in Nat /\ DOMAIN d.list = 1..Len(d.list) /\ \A k \in DOMAIN d.list : d.list[k] \in Entry
    BY PlaceFacts DEF Good
  <1>2. OffsetsOf(d) \in [1..Len(d.list) -> Offset]
    BY <1>1 DEF OffsetsOf, Offset, Entry
  <1>3. ScoresOf(d) \in [1..Len(d.list) -> Nat]
    BY <1>1 DEF ScoresOf, Entry
  <1>4. OffsetsOf(d) \in Seq(Offset) /\ ScoresOf(d) \in Seq(Nat)
    BY <1>1, <1>2, <1>3, SeqDef
  <1>5. DOMAIN OffsetsOf(d) = 1..Len(d.list) /\ DOMAIN ScoresOf(d) = 1..Len(d.list)
    BY <1>2, <1>3
  <1>6. DOMAIN OffsetsOf(d) = 1..Len(OffsetsOf(d)) /\ DOMAIN ScoresOf(d) = 1..Len(ScoresOf(d))
        /\ Len(OffsetsOf(d)) \in Nat /\ Len(ScoresOf(d)) \in Nat
    BY <1>4, LenProperties
  <1> QED
    BY <1>1, <1>4, <1>5, <1>6

(* A file that says what a dictionary says loads as one with its content.  *)
LEMMA SaysLoads ==
  ASSUME NEW d, Good(d), NEW syncs, NEW f, Says(f, d, syncs)
  PROVE  /\ Good(Loaded(f)) /\ DOMAIN Loaded(f).list = DOMAIN d.list /\ InUse(Loaded(f)) = InUse(d)
         /\ \A k \in DOMAIN d.list : LemmaAt(Loaded(f), k) = LemmaAt(d, k)
         /\ syncs = d.syncs => Content(Loaded(f)) = Content(d)
  <1> DEFINE e == Loaded(f)
             n == Len(d.list)
  <1>0. /\ n \in Nat /\ DOMAIN d.list = 1..n
        /\ \A k \in DOMAIN d.list : d.list[k] \in Entry /\ d.list[k].at \in DOMAIN d.lemmas
    BY PlaceFacts DEF Good, Linked
  <1>1. /\ DOMAIN f.offsets = DOMAIN d.list /\ DOMAIN f.scores = DOMAIN d.list
        /\ \A k \in DOMAIN d.list : /\ f.offsets[k].at = d.list[k].at /\ f.offsets[k].gone = d.list[k].gone
                                    /\ f.scores[k] = d.list[k].score
    BY DEF Says, OffsetsOf, ScoresOf
  <1>2. /\ DOMAIN e = Fields /\ e.state = SYNC /\ e.lemmas = f.lemmas /\ e.size = f.size
        /\ e.list = [k \in DOMAIN f.offsets |-> [at |-> f.offsets[k].at, gone |-> f.offsets[k].gone,
                                                 score |-> f.scores[k], id |-> k]]
        /\ e.byId = [k \in DOMAIN f.offsets |-> f.offsets[k].at]
        /\ e.syncs = f.syncs /\ e.countLeft = kUserDictPreAlloc /\ e.sizeLeft = Room
        /\ e.limit = f.info.limit /\ e.ratio = f.info.ratio /\ e.fresh = TRUE
        /\ e.cache = NoCache /\ e.misses = NoCache
    BY LoadedIs
  <1> HIDE DEF e
  <1>3. /\ DOMAIN e.list = 1..n /\ DOMAIN e.byId = 1..n
        /\ \A k \in 1..n : /\ e.list[k] = [at |-> d.list[k].at, gone |-> d.list[k].gone,
                                           score |-> d.list[k].score, id |-> k]
                           /\ e.byId[k] = d.list[k].at
    BY <1>0, <1>1, <1>2
  <1>f. \A k \in 1..n : /\ e.list[k].at = d.list[k].at /\ e.list[k].gone = d.list[k].gone
                        /\ e.list[k].score = d.list[k].score /\ e.list[k].id = k
    <2> SUFFICES ASSUME NEW k \in 1..n
                 PROVE  /\ e.list[k].at = d.list[k].at /\ e.list[k].gone = d.list[k].gone
                        /\ e.list[k].score = d.list[k].score /\ e.list[k].id = k
      OBVIOUS
    <2> DEFINE x == [at |-> d.list[k].at, gone |-> d.list[k].gone, score |-> d.list[k].score, id |-> k]
    <2>1. e.list[k] = x
      BY <1>3
    <2>2. x.at = d.list[k].at /\ x.gone = d.list[k].gone /\ x.score = d.list[k].score /\ x.id = k
      OBVIOUS
    <2> HIDE DEF x
    <2> QED
      BY <2>1, <2>2
  <1>4. e.lemmas = d.lemmas /\ e.size = d.size /\ e.syncs = syncs
    BY <1>2 DEF Says
  <1>5. /\ e.list \in Seq(Entry) /\ e.byId \in Seq(Nat) /\ Len(e.list) = n /\ Len(e.byId) = n
    <2>1. ASSUME NEW k \in 1..n PROVE e.list[k] \in Entry /\ e.byId[k] \in Nat
      <3>1. d.list[k].at \in Nat /\ d.list[k].gone \in BOOLEAN /\ d.list[k].score \in Nat /\ k \in Nat
        BY <1>0 DEF Entry
      <3> QED
        <4> DEFINE x == [at |-> d.list[k].at, gone |-> d.list[k].gone, score |-> d.list[k].score, id |-> k]
        <4>1. x \in Entry
          BY <3>1 DEF Entry
        <4>2. e.list[k] = x
          BY <1>3
        <4>3. e.byId[k] \in Nat
          BY <1>3, <3>1
        <4> HIDE DEF x
        <4> QED
          BY <4>1, <4>2, <4>3
    <2>2. e.list = [k \in 1..n |-> e.list[k]] /\ e.byId = [k \in 1..n |-> e.byId[k]]
      BY <1>0, <1>1, <1>2
    <2>3. e.list \in [1..n -> Entry] /\ e.byId \in [1..n -> Nat]
      BY <2>1, <2>2
    <2>4. e.list \in Seq(Entry) /\ e.byId \in Seq(Nat)
      BY <1>0, <2>3, SeqDef
    <2>5. DOMAIN e.list = 1..Len(e.list) /\ DOMAIN e.byId = 1..Len(e.byId) /\ Len(e.list) \in Nat /\ Len(e.byId) \in Nat
      BY <2>4, LenProperties
    <2>6. Len(e.list) = n /\ Len(e.byId) = n
      BY <1>0, <1>3, <2>5
    <2> QED
      BY <2>4, <2>6
  <1>6. \A k \in DOMAIN d.list : LemmaAt(e, k) = LemmaAt(d, k) /\ Key(e, k) = Key(d, k)
    BY <1>0, <1>f, <1>4 DEF LemmaAt, Key
  <1>7. IsDict(e)
    <2>1. Block(e.lemmas, e.size)
      BY <1>4 DEF Good, IsDict
    <2>2. e.state \in NONE..DEFRAGMENTED /\ e.fresh \in BOOLEAN
      <3>1. e.state = SYNC /\ e.fresh = TRUE
        BY <1>2
      <3>2. SYNC \in NONE..DEFRAGMENTED
        BY StatesAre DEF States
      <3> QED
        BY <3>1, <3>2, Zenon
    <2>3. e.sizeLeft \in Int /\ e.countLeft \in Int
      BY <1>2, SizesAssumption DEF Room
    <2>4. e.limit \in Nat /\ e.ratio \in 0..99 /\ e.syncs \in Seq(Nat)
      BY <1>2 DEF Says, IsNearlyFile
    <2> QED
      BY <1>2, <1>5, <2>1, <2>2, <2>3, <2>4 DEF IsDict
  <1>8. Linked(e)
    <2>1. DOMAIN e.list = 1..n /\ DOMAIN e.byId = 1..n /\ \A k \in 1..n : e.byId[k] = d.list[k].at
      BY <1>3
    <2> QED
      BY <1>0, <1>f, <1>4, <2>1 DEF Linked
  <1>9. Sorted(e)
    BY <1>0, <1>3, <1>6 DEF Good, Sorted
  <1>10. RangesHold(e) /\ MissesHold(e)
    BY <1>2, NoCacheHolds
  <1>11. InUse(e) = InUse(d)
    <2>1. DOMAIN e.list = DOMAIN d.list
      BY <1>0, <1>3
    <2> QED
      BY <1>0, <1>f, <2>1 DEF InUse
  <1>12. ASSUME syncs = d.syncs PROVE Content(e) = Content(d)
    <2>1. ASSUME NEW k \in 1..n PROVE [e.list[k] EXCEPT !.id = 0] = [d.list[k] EXCEPT !.id = 0]
      <3>1. d.list[k] = [at |-> d.list[k].at, gone |-> d.list[k].gone, score |-> d.list[k].score, id |-> d.list[k].id]
        BY <1>0 DEF Entry
      <3> DEFINE x == [at |-> d.list[k].at, gone |-> d.list[k].gone, score |-> d.list[k].score, id |-> k]
                 y == [at |-> d.list[k].at, gone |-> d.list[k].gone, score |-> d.list[k].score,
                       id |-> d.list[k].id]
      <3>2. [x EXCEPT !.id = 0] = [y EXCEPT !.id = 0]
        OBVIOUS
      <3>3. e.list[k] = x
        BY <1>3
      <3> HIDE DEF x, y
      <3>4. d.list[k] = y
        BY <3>1 DEF y
      <3> QED
        BY <3>2, <3>3, <3>4
    <2> QED
      BY <1>0, <1>3, <1>4, <1>12, <2>1 DEF Content
  <1>13. Good(e)
    BY <1>7, <1>8, <1>9, <1>10 DEF Good
  <1> QED
    BY <1>0, <1>3, <1>6, <1>11, <1>12, <1>13 DEF e

(* What was just loaded stands on the file.                                *)
LEMMA LoadedStands == ASSUME NEW f, IsFile(f) PROVE Stands(Loaded(f), f)
  <1> DEFINE e == Loaded(f)
  <1>0. /\ Len(f.offsets) \in Nat /\ DOMAIN f.offsets = 1..Len(f.offsets)
        /\ \A o \in DOMAIN f.lemmas : o \in Nat /\ o < f.size
        /\ f.size \in Nat
    BY LenProperties DEF IsFile, IsNearlyFile, Block
  <1>1. /\ e.state = SYNC /\ e.lemmas = f.lemmas /\ e.size = f.size
        /\ e.list = [k \in DOMAIN f.offsets |-> [at |-> f.offsets[k].at, gone |-> f.offsets[k].gone,
                                                 score |-> f.scores[k], id |-> k]]
        /\ e.syncs = f.syncs /\ e.sizeLeft = Room
    BY LoadedIs
  <1> HIDE DEF e
  <1>2. DOMAIN e.list = 1..Len(f.offsets)
    BY <1>0, <1>1
  <1>3. Len(e.list) = Len(f.offsets)
    <2> DEFINE S == {e.list[k] : k \in 1..Len(f.offsets)}
    <2>1. e.list \in [1..Len(f.offsets) -> S]
      BY <1>0, <1>1
    <2> HIDE DEF S
    <2>2. e.list \in Seq(S)
      BY <1>0, <2>1, SeqDef
    <2>3. DOMAIN e.list = 1..Len(e.list) /\ Len(e.list) \in Nat
      BY <2>2, LenProperties
    <2> QED
      BY <1>0, <1>2, <2>3
  <1>4. e.state \in SYNC..DEFRAGMENTED
    BY <1>1, StatesAre DEF States
  <1>5. e.size - (Room - e.sizeLeft) = f.size /\ f.size <= e.size
    <2>1. Room \in Int
      BY SizesAssumption DEF Room
    <2> QED
      BY <1>0, <1>1, <2>1
  <1>6. \A k \in DOMAIN e.list : /\ e.list[k].at = f.offsets[k].at /\ e.list[k].gone = f.offsets[k].gone
                                 /\ e.list[k].score = f.scores[k]
    BY <1>1
  <1> QED
    BY <1>0, <1>1, <1>3, <1>4, <1>5, <1>6 DEF Stands, Matches, e

(* The file that reset() writes can be loaded.                             *)
LEMMA EmptyFileIsWhole == Whole(EmptyFile)
  <1> DEFINE f == EmptyFile
  <1>1. /\ DOMAIN f = FileFields /\ DOMAIN f.info = InfoFields /\ f.lemmas = <<>> /\ f.size = 0
        /\ f.offsets = <<>> /\ f.scores = <<>> /\ f.syncs = <<>>
        /\ f.info.count = 0 /\ f.info.size = 0 /\ f.info.sync = 0 /\ f.info.limit = 0 /\ f.info.ratio = 0
    BY DEF EmptyFile, FileFields, InfoFields
  <1> HIDE DEF f
  <1>2. Block(f.lemmas, f.size)
    BY <1>1, EmptyBlock
  <1>3. f.offsets \in Seq(Offset) /\ f.scores \in Seq(Nat) /\ f.syncs \in Seq(Nat)
    BY <1>1, EmptyIs
  <1>4. Len(f.offsets) = 0 /\ Len(f.scores) = 0 /\ Len(f.syncs) = 0
    BY <1>1, EmptyIs
  <1>5. f.info.limit \in Nat /\ f.info.ratio \in 0..99 /\ f.info.sync \in Nat
    BY <1>1
  <1>6. IsNearlyFile(f) /\ IsFile(f)
    BY <1>1, <1>2, <1>3, <1>4, <1>5 DEF IsNearlyFile, IsFile
  <1>7. Good(Loaded(f))
    <2> DEFINE d == Closed
    <2>1. Good(d) /\ d.lemmas = <<>> /\ d.size = 0 /\ d.list = <<>>
      BY ClosedIs, ClosedIsGood
    <2> HIDE DEF d
    <2>2. DOMAIN d.list = {}
      BY <2>1, EmptyIs
    <2>3. OffsetsOf(d) = <<>> /\ ScoresOf(d) = <<>>
      <3>1. Len(OffsetsOf(d)) = 0 /\ Len(ScoresOf(d)) = 0 /\ OffsetsOf(d) \in Seq(Offset) /\ ScoresOf(d) \in Seq(Nat)
        BY <2>1, ListSays, EmptyIs
      <3> QED
        BY <3>1, EmptySeq
    <2>4. Says(f, d, <<>>)
      BY <1>1, <1>6, <2>1, <2>3 DEF Says
    <2> QED
      BY <2>1, <2>4, SaysLoads
  <1> QED
    BY <1>6, <1>7 DEF Whole, f

(* What was not changed, the file says.                                    *)
LEMMA MatchesBlock ==
  ASSUME NEW d, Good(d), NEW f, IsFile(f), Matches(d, f), d.state < LEMMA_DIRTY
  PROVE  f.lemmas = d.lemmas /\ f.size = d.size
  <1>0. d.state \in NONE..DEFRAGMENTED
    BY DEF Good, IsDict
  <1>1. d.state < DEFRAGMENTED
    BY <1>0, StatesAre DEF States
  <1>2. /\ \A o \in DOMAIN f.lemmas : o \in DOMAIN d.lemmas /\ d.lemmas[o] = f.lemmas[o]
        /\ \A o \in DOMAIN d.lemmas : o < f.size => o \in DOMAIN f.lemmas
        /\ d.size = f.size
    BY <1>1 DEF Matches
  <1>3. /\ d.lemmas \in [DOMAIN d.lemmas -> Lemmas] /\ f.lemmas \in [DOMAIN f.lemmas -> Lemmas]
        /\ \A o \in DOMAIN d.lemmas : o < d.size
    BY DEF Good, IsDict, Block, IsFile, IsNearlyFile
  <1>4. DOMAIN d.lemmas = DOMAIN f.lemmas
    BY <1>2, <1>3
  <1> QED
    BY <1>2, <1>3, <1>4

(* Below OFFSET_DIRTY the offsets are those of the file.                   *)
LEMMA MatchesOffsets ==
  ASSUME NEW d, Good(d), NEW f, IsFile(f), Matches(d, f), d.state < OFFSET_DIRTY
  PROVE  f.offsets = OffsetsOf(d)
  <1>0. d.state \in NONE..DEFRAGMENTED
    BY DEF Good, IsDict
  <1>1. d.state < LEMMA_DIRTY
    BY <1>0, StatesAre DEF States
  <1>2. Len(d.list) = Len(f.offsets) /\ \A k \in DOMAIN d.list : d.list[k].at = f.offsets[k].at
                                                              /\ d.list[k].gone = f.offsets[k].gone
    BY <1>1 DEF Matches
  <1>3. /\ f.offsets \in Seq(Offset) /\ DOMAIN d.list = 1..Len(d.list) /\ Len(d.list) \in Nat
        /\ OffsetsOf(d) \in Seq(Offset) /\ Len(OffsetsOf(d)) = Len(d.list)
    BY ListSays, PlaceFacts DEF Good, IsFile, IsNearlyFile
  <1>4. ASSUME NEW k \in 1..Len(d.list) PROVE f.offsets[k] = OffsetsOf(d)[k]
    <2>1. f.offsets[k] \in Offset
      BY <1>2, <1>3, ElementOfSeq
    <2>2. f.offsets[k] = [at |-> f.offsets[k].at, gone |-> f.offsets[k].gone]
      BY <2>1 DEF Offset
    <2>3. OffsetsOf(d)[k] = [at |-> d.list[k].at, gone |-> d.list[k].gone]
      BY <1>3 DEF OffsetsOf
    <2> QED
      BY <1>2, <1>3, <2>2, <2>3
  <1> QED
    BY <1>2, <1>3, <1>4, SeqEqual

(* Below SCORE_DIRTY the scores are.                                       *)
LEMMA MatchesScores ==
  ASSUME NEW d, Good(d), NEW f, IsFile(f), Matches(d, f), d.state < SCORE_DIRTY
  PROVE  f.scores = ScoresOf(d)
  <1>0. d.state \in NONE..DEFRAGMENTED
    BY DEF Good, IsDict
  <1>1. d.state < LEMMA_DIRTY
    BY <1>0, StatesAre DEF States
  <1>2. Len(d.list) = Len(f.offsets) /\ \A k \in DOMAIN d.list : d.list[k].score = f.scores[k]
    BY <1>1 DEF Matches
  <1>3. /\ f.scores \in Seq(Nat) /\ DOMAIN d.list = 1..Len(d.list) /\ Len(f.scores) = Len(f.offsets)
        /\ ScoresOf(d) \in Seq(Nat) /\ Len(ScoresOf(d)) = Len(d.list)
    BY ListSays, PlaceFacts DEF Good, IsFile, IsNearlyFile
  <1>4. ASSUME NEW k \in 1..Len(d.list) PROVE f.scores[k] = ScoresOf(d)[k]
    BY <1>2, <1>3 DEF ScoresOf
  <1> QED
    BY <1>2, <1>3, <1>4, SeqEqual

(* What is kept of the block and what was added since are all of it.       *)
LEMMA MatchesAdded ==
  ASSUME NEW d, Good(d), NEW f, IsFile(f), Matches(d, f), d.state < DEFRAGMENTED
  PROVE  LET start == d.size - (Room - d.sizeLeft)
         IN  Joined(Restricted(f.lemmas, 0..(start - 1)), Restricted(d.lemmas, start..d.size)) = d.lemmas
  <1> DEFINE start == d.size - (Room - d.sizeLeft)
             a == Restricted(f.lemmas, 0..(start - 1))
             b == Restricted(d.lemmas, start..d.size)
  <1>1. /\ start = f.size /\ f.size \in Nat /\ d.size \in Nat
        /\ \A o \in DOMAIN f.lemmas : o \in DOMAIN d.lemmas /\ d.lemmas[o] = f.lemmas[o]
        /\ \A o \in DOMAIN d.lemmas : o < f.size => o \in DOMAIN f.lemmas
        /\ \A o \in DOMAIN d.lemmas : o \in Nat /\ o < d.size
        /\ \A o \in DOMAIN f.lemmas : o \in Nat /\ o < f.size
        /\ d.lemmas \in [DOMAIN d.lemmas -> Lemmas]
    BY DEF Matches, Good, IsDict, Block, IsFile, IsNearlyFile
  <1> HIDE DEF start
  <1>2. DOMAIN a = DOMAIN f.lemmas /\ \A o \in DOMAIN f.lemmas : a[o] = d.lemmas[o]
    <2>1. DOMAIN f.lemmas \subseteq 0..(start - 1)
      BY <1>1
    <2> QED
      BY <1>1, <2>1 DEF Restricted
  <1>3. DOMAIN b \subseteq DOMAIN d.lemmas /\ \A o \in DOMAIN b : b[o] = d.lemmas[o]
    BY DEF Restricted
  <1>4. \A o \in DOMAIN d.lemmas : o \in DOMAIN a \/ o \in DOMAIN b
    <2>1. ASSUME NEW o \in DOMAIN d.lemmas, o \notin DOMAIN f.lemmas PROVE o \in start..d.size
      BY <1>1, <2>1
    <2> QED
      BY <1>2, <2>1 DEF Restricted
  <1> HIDE DEF a, b
  <1>5. DOMAIN Joined(a, b) = DOMAIN d.lemmas /\ \A o \in DOMAIN d.lemmas : Joined(a, b)[o] = d.lemmas[o]
    BY <1>1, <1>2, <1>3, <1>4 DEF Joined
  <1>6. Joined(a, b) = [o \in DOMAIN Joined(a, b) |-> Joined(a, b)[o]]
    BY DEF Joined
  <1> QED
    BY <1>1, <1>5, <1>6 DEF a, b, start

InfoOf(d) == [count |-> Len(d.list), size |-> d.size, sync |-> Len(d.syncs), limit |-> d.limit, ratio |-> d.ratio]

(* Whatever part of the file is written, it says all the dictionary says.  *)
LEMMA WriteBackSays ==
  ASSUME NEW d, Good(d), NEW f, IsFile(f), Matches(d, f), d.state \in SYNC_DIRTY..DEFRAGMENTED,
         NEW syncs \in Seq(Nat)
  PROVE  Says(WriteBack(f, d, syncs), d, syncs) /\ WriteBack(f, d, syncs).info.sync = Len(d.syncs)
  <1> DEFINE g == WriteBack(f, d, syncs)
             start == d.size - (Room - d.sizeLeft)
             lemmas == Joined(Restricted(f.lemmas, 0..(start - 1)), Restricted(d.lemmas, start..d.size))
             h == [f EXCEPT !.syncs = syncs, !.info = InfoOf(d)]
  <1>0. DOMAIN f = FileFields
    BY DEF IsFile, IsNearlyFile
  <1>1. /\ DOMAIN h = FileFields /\ h.lemmas = f.lemmas /\ h.size = f.size /\ h.offsets = f.offsets
        /\ h.scores = f.scores /\ h.syncs = syncs /\ h.info = InfoOf(d)
    <2>1. DOMAIN h = FileFields
      BY <1>0
    <2> QED
      BY <1>0, <2>1 DEF FileFields
  <1>2. g = CASE d.state = DEFRAGMENTED ->
                   [h EXCEPT !.lemmas = d.lemmas, !.size = d.size, !.offsets = OffsetsOf(d), !.scores = ScoresOf(d)]
              [] d.state = LEMMA_DIRTY ->
                   [h EXCEPT !.lemmas = lemmas, !.size = d.size, !.offsets = OffsetsOf(d), !.scores = ScoresOf(d)]
              [] d.state = OFFSET_DIRTY -> [h EXCEPT !.offsets = OffsetsOf(d), !.scores = ScoresOf(d)]
              [] d.state = SCORE_DIRTY -> [h EXCEPT !.scores = ScoresOf(d)]
              [] OTHER -> h
    BY DEF WriteBack, InfoOf, OffsetsOf, ScoresOf
  <1> HIDE DEF g, h
  <1>3. /\ DOMAIN g = FileFields /\ g.lemmas = d.lemmas /\ g.size = d.size /\ g.offsets = OffsetsOf(d)
        /\ g.scores = ScoresOf(d) /\ g.syncs = syncs /\ g.info = InfoOf(d)
    <2>1. CASE d.state = DEFRAGMENTED
      <3>1. g = [h EXCEPT !.lemmas = d.lemmas, !.size = d.size, !.offsets = OffsetsOf(d), !.scores = ScoresOf(d)]
        BY <1>2, <2>1, StatesAre DEF States
      <3>2. DOMAIN g = FileFields
        BY <1>1, <3>1
      <3> QED
        BY <1>1, <3>1, <3>2 DEF FileFields
    <2>2. CASE d.state = LEMMA_DIRTY
      <3>1. g = [h EXCEPT !.lemmas = lemmas, !.size = d.size, !.offsets = OffsetsOf(d), !.scores = ScoresOf(d)]
        BY <1>2, <2>2, StatesAre DEF States
      <3>2. DOMAIN g = FileFields
        BY <1>1, <3>1
      <3>3. lemmas = d.lemmas
        BY <2>2, MatchesAdded, StatesAre DEF States
      <3> HIDE DEF lemmas
      <3> QED
        BY <1>1, <3>1, <3>2, <3>3 DEF FileFields
    <2>3. CASE d.state = OFFSET_DIRTY
      <3>1. g = [h EXCEPT !.offsets = OffsetsOf(d), !.scores = ScoresOf(d)]
        BY <1>2, <2>3, StatesAre DEF States
      <3>2. DOMAIN g = FileFields
        BY <1>1, <3>1
      <3>3. f.lemmas = d.lemmas /\ f.size = d.size
        BY <2>3, MatchesBlock, StatesAre DEF States
      <3> QED
        BY <1>1, <3>1, <3>2, <3>3 DEF FileFields
    <2>4. CASE d.state = SCORE_DIRTY
      <3>1. g = [h EXCEPT !.scores = ScoresOf(d)]
        BY <1>2, <2>4, StatesAre DEF States
      <3>2. DOMAIN g = FileFields
        BY <1>1, <3>1
      <3>3. f.lemmas = d.lemmas /\ f.size = d.size /\ f.offsets = OffsetsOf(d)
        BY <2>4, MatchesBlock, MatchesOffsets, StatesAre DEF States
      <3> QED
        BY <1>1, <3>1, <3>2, <3>3 DEF FileFields
    <2>5. CASE d.state = SYNC_DIRTY
      <3>1. g = h
        BY <1>2, <2>5, StatesAre DEF States
      <3>3. f.lemmas = d.lemmas /\ f.size = d.size /\ f.offsets = OffsetsOf(d) /\ f.scores = ScoresOf(d)
        BY <2>5, MatchesBlock, MatchesOffsets, MatchesScores, StatesAre DEF States
      <3> QED
        BY <1>1, <3>1, <3>3
    <2> QED
      BY <2>1, <2>2, <2>3, <2>4, <2>5, StatesAre DEF States
  <1>4. /\ DOMAIN InfoOf(d) = InfoFields /\ InfoOf(d).count = Len(d.list) /\ InfoOf(d).size = d.size
        /\ InfoOf(d).sync = Len(d.syncs) /\ InfoOf(d).limit = d.limit /\ InfoOf(d).ratio = d.ratio
    BY DEF InfoOf, InfoFields
  <1>5. /\ OffsetsOf(d) \in Seq(Offset) /\ Len(OffsetsOf(d)) = Len(d.list)
        /\ ScoresOf(d) \in Seq(Nat) /\ Len(ScoresOf(d)) = Len(d.list)
    BY ListSays
  <1>6. Block(d.lemmas, d.size) /\ d.limit \in Nat /\ d.ratio \in 0..99 /\ Len(d.syncs) \in Nat
    BY LenProperties DEF Good, IsDict
  <1>7. IsNearlyFile(g)
    BY <1>3, <1>4, <1>5, <1>6 DEF IsNearlyFile
  <1>8. Says(g, d, syncs)
    BY <1>3, <1>7 DEF Says
  <1> QED
    BY <1>3, <1>4, <1>8 DEF g

(* Unchanged, the dictionary says what the file says.                      *)
LEMMA SyncedSays ==
  ASSUME NEW d, Good(d), NEW f, IsFile(f), Matches(d, f), d.state = SYNC
  PROVE  Says(f, d, d.syncs)
  <1>1. d.state < LEMMA_DIRTY /\ d.state < OFFSET_DIRTY /\ d.state < SCORE_DIRTY /\ d.state < SYNC_DIRTY
    BY StatesAre DEF States
  <1>2. f.lemmas = d.lemmas /\ f.size = d.size /\ f.offsets = OffsetsOf(d) /\ f.scores = ScoresOf(d)
    BY <1>1, MatchesBlock, MatchesOffsets, MatchesScores
  <1>3. f.syncs = d.syncs
    BY <1>1 DEF Matches
  <1> QED
    BY <1>2, <1>3 DEF Says, IsFile

(***************************************************************************)
(* The two objects and the file.  Sync does not look up.                   *)
(***************************************************************************)
Bare(d) == d.cache = NoCache /\ d.misses = NoCache
Holds(w) ==
  /\ DOMAIN w = {"dicts", "file"} /\ DOMAIN w.dicts = Dicts /\ Whole(w.file)
  /\ \A i \in Dicts : Good(w.dicts[i]) /\ Stands(w.dicts[i], w.file)
  /\ Bare(w.dicts[Syncing])

Writes(d) == d.state > SYNC /\ d.fresh

(* Closing writes all; the other object no longer stands on the file.      *)
LEMMA CloseIs ==
  ASSUME NEW w, Holds(w), NEW i \in Dicts, NEW syncs \in Seq(Nat)
  PROVE  LET v == Close(w, i, syncs)  d == w.dicts[i] IN
         /\ DOMAIN v = {"dicts", "file"} /\ DOMAIN v.dicts = Dicts
         /\ v.dicts[i] = Closed
         /\ \A j \in Dicts \ {i} : /\ Good(v.dicts[j]) /\ Stands(v.dicts[j], v.file)
                                   /\ Writes(d) => ~v.dicts[j].fresh
                                   /\ Bare(w.dicts[j]) => Bare(v.dicts[j])
         /\ ~Writes(d) => v.file = w.file
         /\ Writes(d) => Says(v.file, d, syncs) /\ v.file.info.sync = Len(d.syncs)
         /\ d.fresh /\ ~Writes(d) => Says(v.file, d, d.syncs)
  <1> DEFINE v == Close(w, i, syncs)
             d == w.dicts[i]
  <1>0. Good(d) /\ Stands(d, w.file) /\ IsFile(w.file)
    BY DEF Holds, Whole
  <1>1. /\ DOMAIN v = {"dicts", "file"}
        /\ v.dicts = [j \in Dicts |-> IF j = i THEN Closed
                                      ELSE [w.dicts[j] EXCEPT !.fresh = @ /\ ~(d.state > SYNC /\ d.fresh)]]
        /\ v.file = IF d.state > SYNC /\ d.fresh THEN WriteBack(w.file, d, syncs) ELSE w.file
    BY DEF Close
  <1> HIDE DEF v, d
  <1>2. ASSUME NEW j \in Dicts \ {i}
        PROVE  /\ Good(v.dicts[j]) /\ Stands(v.dicts[j], v.file) /\ (Writes(d) => ~v.dicts[j].fresh)
               /\ Bare(w.dicts[j]) => Bare(v.dicts[j])
    <2> DEFINE e == w.dicts[j]
               u == v.dicts[j]
    <2>1. u = [e EXCEPT !.fresh = e.fresh /\ ~Writes(d)]
      BY <1>1 DEF Writes
    <2>2. Good(e) /\ DOMAIN e = Fields /\ Stands(e, w.file)
      BY DEF Holds, Good, IsDict
    <2> HIDE DEF e, u
    <2>3. DOMAIN u = Fields
      BY <2>1, <2>2
    <2>4. /\ u.state = e.state /\ u.lemmas = e.lemmas /\ u.size = e.size /\ u.list = e.list
          /\ u.byId = e.byId /\ u.syncs = e.syncs /\ u.countLeft = e.countLeft /\ u.sizeLeft = e.sizeLeft
          /\ u.limit = e.limit /\ u.ratio = e.ratio /\ u.cache = e.cache /\ u.misses = e.misses
      BY <2>1, <2>2 DEF Fields
    <2>f. u.fresh = (e.fresh /\ ~Writes(d))
      BY <2>1, <2>2 DEF Fields
    <2>5. InUse(u) = InUse(e) /\ \A k : Key(u, k) = Key(e, k)
      BY <2>4 DEF InUse, Key, LemmaAt
    <2>6. IsDict(u)
      <3>1. u.fresh \in BOOLEAN
        BY <2>f, Zenon
      <3> QED
        BY <2>2, <2>3, <2>4, <3>1 DEF Good, IsDict
    <2>7. Linked(u) /\ Sorted(u)
      BY <2>2, <2>4, <2>5 DEF Good, Linked, Sorted
    <2>8. RangesHold(u) /\ MissesHold(u)
      BY <2>2, <2>4, <2>5 DEF Good, RangesHold, MissesHold
    <2>9. ASSUME u.fresh PROVE u.state \in SYNC..DEFRAGMENTED /\ Matches(u, v.file)
      <3>1. e.fresh /\ ~Writes(d)
        BY <2>f, <2>9
      <3>2. v.file = w.file
        BY <1>1, <3>1 DEF Writes
      <3>3. e.state \in SYNC..DEFRAGMENTED /\ Matches(e, w.file)
        BY <2>2, <3>1 DEF Stands
      <3> QED
        BY <2>4, <3>2, <3>3 DEF Matches
    <2> QED
      BY <2>f, <2>4, <2>6, <2>7, <2>8, <2>9 DEF Good, Stands, Bare, e, u
  <1>3. DOMAIN v.dicts = Dicts /\ v.dicts[i] = Closed
    BY <1>1
  <1>4. d.state \in NONE..DEFRAGMENTED
    BY <1>0 DEF Good, IsDict
  <1>5. ASSUME Writes(d) PROVE Says(v.file, d, syncs) /\ v.file.info.sync = Len(d.syncs)
    <2>1. v.file = WriteBack(w.file, d, syncs) /\ d.fresh /\ d.state > SYNC
      BY <1>1, <1>5 DEF Writes
    <2>2. d.state \in SYNC_DIRTY..DEFRAGMENTED
      BY <1>4, <2>1, StatesAre DEF States
    <2>3. Matches(d, w.file)
      BY <1>0, <2>1 DEF Stands
    <2> QED
      BY <1>0, <2>1, <2>2, <2>3, WriteBackSays
  <1>6. ASSUME ~Writes(d) PROVE v.file = w.file
    BY <1>1, <1>6 DEF Writes
  <1>7. ASSUME d.fresh, ~Writes(d) PROVE Says(v.file, d, d.syncs)
    <2>1. d.state = SYNC
      BY <1>0, <1>4, <1>7, StatesAre DEF Stands, Writes, States
    <2>2. Matches(d, w.file)
      BY <1>0, <1>7 DEF Stands
    <2> QED
      BY <1>0, <1>6, <1>7, <2>1, <2>2, SyncedSays
  <1> QED
    BY <1>1, <1>2, <1>3, <1>5, <1>6, <1>7 DEF v, d

(* Loading gives a good object, an empty one if the file is not valid.     *)
LEMMA LoadIs ==
  ASSUME NEW w, DOMAIN w.dicts = Dicts, IsNearlyFile(w.file), IsFile(w.file) => Good(Loaded(w.file)),
         NEW i \in Dicts, i = Syncing \/ Bare(w.dicts[Syncing]),
         \A j \in Dicts \ {i} : /\ Good(w.dicts[j]) /\ Stands(w.dicts[j], w.file)
                                /\ ~IsFile(w.file) => ~w.dicts[j].fresh
  PROVE  LET v == Load(w, i) IN
         /\ Holds(v) /\ v.dicts[i] = Loaded(v.file) /\ v.dicts[i].fresh /\ v.dicts[i].state = SYNC
         /\ IsFile(w.file) => v.file = w.file
         /\ \A j \in Dicts \ {i} : v.dicts[j] = w.dicts[j]
  <1> DEFINE v == Load(w, i)
             f == IF Valid(w.file) THEN w.file ELSE EmptyFile
  <1>1. v = [dicts |-> [w.dicts EXCEPT ![i] = Loaded(f)], file |-> f]
    BY DEF Load
  <1>2. Whole(f) /\ (IsFile(w.file) => f = w.file) /\ (~IsFile(w.file) => f = EmptyFile)
    BY ValidIs, EmptyFileIsWhole DEF Whole
  <1> HIDE DEF f
  <1>3. /\ DOMAIN v = {"dicts", "file"} /\ DOMAIN v.dicts = Dicts /\ v.file = f /\ v.dicts[i] = Loaded(f)
        /\ \A j \in Dicts \ {i} : v.dicts[j] = w.dicts[j]
    BY <1>1
  <1> HIDE DEF v
  <1>4. Good(Loaded(f)) /\ Stands(Loaded(f), f)
    BY <1>2, LoadedStands DEF Whole
  <1>5. \A j \in Dicts \ {i} : Good(v.dicts[j]) /\ Stands(v.dicts[j], f)
    BY <1>2, <1>3 DEF Stands
  <1>b. Bare(v.dicts[Syncing])
    <2>1. CASE i = Syncing
      <3>1. Loaded(f).cache = NoCache /\ Loaded(f).misses = NoCache
        BY LoadedIs
      <3> QED
        BY <1>3, <2>1, <3>1 DEF Bare
    <2>2. CASE i # Syncing
      BY <1>3, <2>2 DEF Dicts
    <2> QED
      BY <2>1, <2>2
  <1>6. Holds(v)
    BY <1>2, <1>3, <1>4, <1>5, <1>b DEF Holds
  <1>7. Loaded(f).fresh /\ Loaded(f).state = SYNC
    BY LoadedIs
  <1> QED
    BY <1>2, <1>3, <1>6, <1>7 DEF v

(* Loading keeps the invariant and a whole file.                           *)
LEMMA LoadKeeps ==
  ASSUME NEW w, Holds(w), NEW i \in Dicts
  PROVE  LET v == Load(w, i) IN
         /\ Holds(v) /\ v.file = w.file /\ v.dicts[i] = Loaded(v.file) /\ v.dicts[i].fresh
         /\ v.dicts[i].state = SYNC
         /\ \A j \in Dicts \ {i} : v.dicts[j] = w.dicts[j]
  <1>1. /\ DOMAIN w.dicts = Dicts /\ IsNearlyFile(w.file) /\ IsFile(w.file) /\ Good(Loaded(w.file))
        /\ Bare(w.dicts[Syncing])
        /\ \A j \in Dicts : Good(w.dicts[j]) /\ Stands(w.dicts[j], w.file)
    BY DEF Holds, Whole, IsFile
  <1> QED
    BY <1>1, LoadIs

(* So does closing, which writes what the object says, if it may.          *)
LEMMA CloseKeeps ==
  ASSUME NEW w, Holds(w), NEW i \in Dicts
  PROVE  LET d == w.dicts[i]  v == Close(w, i, d.syncs) IN
         /\ Holds(v) /\ (IF d.fresh THEN Says(v.file, d, d.syncs) ELSE v.file = w.file)
  <1> DEFINE d == w.dicts[i]
             v == Close(w, i, d.syncs)
  <1>0. Good(d) /\ d.syncs \in Seq(Nat)
    BY DEF Holds, Good, IsDict
  <1>1. /\ DOMAIN v = {"dicts", "file"} /\ DOMAIN v.dicts = Dicts
        /\ v.dicts[i] = Closed
        /\ \A j \in Dicts \ {i} : /\ Good(v.dicts[j]) /\ Stands(v.dicts[j], v.file)
                                  /\ Bare(w.dicts[j]) => Bare(v.dicts[j])
        /\ ~Writes(d) => v.file = w.file
        /\ Writes(d) => Says(v.file, d, d.syncs) /\ v.file.info.sync = Len(d.syncs)
        /\ d.fresh /\ ~Writes(d) => Says(v.file, d, d.syncs)
    BY <1>0, CloseIs
  <1> HIDE DEF v, d
  <1>2. Whole(v.file)
    <2>1. CASE Writes(d)
      <3>1. Says(v.file, d, d.syncs) /\ v.file.info.sync = Len(d.syncs)
        BY <1>1, <2>1
      <3>2. IsFile(v.file)
        BY <3>1 DEF Says, IsFile
      <3>3. Good(Loaded(v.file))
        BY <1>0, <3>1, SaysLoads
      <3> QED
        BY <3>2, <3>3 DEF Whole
    <2>2. CASE ~Writes(d)
      BY <1>1, <2>2 DEF Holds
    <2> QED
      BY <2>1, <2>2
  <1>3. Good(Closed) /\ Stands(Closed, v.file)
    BY ClosedIsGood DEF Stands
  <1>b. Bare(v.dicts[Syncing])
    BY <1>1, ClosedIs DEF Holds, Bare, Dicts
  <1>4. Holds(v)
    BY <1>1, <1>2, <1>3, <1>b DEF Holds
  <1>5. IF d.fresh THEN Says(v.file, d, d.syncs) ELSE v.file = w.file
    BY <1>1 DEF Writes
  <1> QED
    BY <1>4, <1>5 DEF v, d

(* The lemmas to hand out that are written may be another object's.        *)
LEMMA FlushKeeps ==
  ASSUME NEW w, Holds(w), NEW i \in Dicts, NEW syncs \in Seq(Nat)
  PROVE  LET d == w.dicts[i]  v == Flush(w, i, syncs) IN
         /\ Holds(v) /\ v.dicts[i] = Loaded(v.file) /\ v.dicts[i].fresh /\ v.dicts[i].state = SYNC
         /\ ~Writes(d) => v.file = w.file
         /\ d.fresh /\ syncs = d.syncs => Says(v.file, d, d.syncs)
  <1> DEFINE d == w.dicts[i]
             u == Close(w, i, syncs)
             v == Load(u, i)
  <1>0. Good(d) /\ d.syncs \in Seq(Nat) /\ Whole(w.file)
    BY DEF Holds, Good, IsDict
  <1>1. /\ DOMAIN u.dicts = Dicts
        /\ \A j \in Dicts \ {i} : /\ Good(u.dicts[j]) /\ Stands(u.dicts[j], u.file)
                                  /\ Writes(d) => ~u.dicts[j].fresh
                                  /\ Bare(w.dicts[j]) => Bare(u.dicts[j])
        /\ ~Writes(d) => u.file = w.file
        /\ Writes(d) => Says(u.file, d, syncs) /\ u.file.info.sync = Len(d.syncs)
        /\ d.fresh /\ ~Writes(d) => Says(u.file, d, d.syncs)
    BY CloseIs
  <1>v. v = Flush(w, i, syncs)
    BY DEF Flush
  <1> HIDE DEF u, v, d
  <1>2. IsNearlyFile(u.file) /\ (IsFile(u.file) => Good(Loaded(u.file)))
    <2>1. CASE Writes(d)
      BY <1>0, <1>1, <2>1, SaysLoads DEF Says
    <2>2. CASE ~Writes(d)
      BY <1>0, <1>1, <2>2 DEF Whole, IsFile
    <2> QED
      BY <2>1, <2>2
  <1>3. ~Writes(d) => IsFile(u.file)
    BY <1>0, <1>1 DEF Whole
  <1>4. \A j \in Dicts \ {i} : ~IsFile(u.file) => ~u.dicts[j].fresh
    BY <1>1, <1>3
  <1>b. i = Syncing \/ Bare(u.dicts[Syncing])
    BY <1>1 DEF Holds, Dicts
  <1>5. /\ Holds(v) /\ v.dicts[i] = Loaded(v.file) /\ v.dicts[i].fresh /\ v.dicts[i].state = SYNC
        /\ IsFile(u.file) => v.file = u.file
    <2>1. v = Load(u, i)
      BY DEF v
    <2> QED
      BY <1>1, <1>2, <1>4, <1>b, <2>1, LoadIs
  <1>6. ~Writes(d) => v.file = w.file
    BY <1>1, <1>3, <1>5
  <1>7. ASSUME d.fresh, syncs = d.syncs PROVE Says(v.file, d, d.syncs)
    <2>1. Says(u.file, d, d.syncs)
      BY <1>1, <1>7
    <2>2. IsFile(u.file)
      <3>1. CASE Writes(d)
        BY <1>1, <1>7, <3>1 DEF Says, IsFile
      <3> QED
        BY <1>3, <3>1
    <2> QED
      BY <1>5, <2>1, <2>2
  <1> QED
    BY <1>v, <1>5, <1>6, <1>7 DEF d

(***************************************************************************)
(* More on recursion: what is repeated stays in V, and a function that     *)
(* goes on at what is nearer the end exists and has its values in V.       *)
(***************************************************************************)
Descends(f, R, done, out, next) == f = [r \in R |-> IF r \in done THEN out[r] ELSE f[next[r]]]

(* What passes from each number to the next holds up to the last.          *)
LEMMA Upwards ==
  ASSUME NEW V, NEW first \in Nat, NEW last \in Nat, NEW f, f[first] \in V,
         \A k \in (first + 1)..last : f[k - 1] \in V => f[k] \in V
  PROVE  \A k \in first..last : f[k] \in V
  <1> DEFINE S == {n \in Nat : first + n <= last => f[first + n] \in V}
  <1>1. 0 \in S
    <2>1. first + 0 = first
      OBVIOUS
    <2> QED
      BY <2>1
  <1>2. ASSUME NEW n \in Nat, n \in S PROVE n + 1 \in S
    <2> SUFFICES ASSUME first + (n + 1) <= last PROVE f[first + (n + 1)] \in V
      OBVIOUS
    <2> DEFINE k == first + (n + 1)
    <2>1. k \in (first + 1)..last /\ k - 1 = first + n /\ first + n <= last
      OBVIOUS
    <2>2. f[first + n] \in V
      BY <1>2, <2>1
    <2> HIDE DEF k
    <2>3. f[k] \in V
      BY <2>1, <2>2
    <2> QED
      BY <2>3 DEF k
  <1>3. Nat \subseteq S
    <2> HIDE DEF S
    <2> QED
      BY <1>1, <1>2, Induction
  <1>4. ASSUME NEW k \in first..last PROVE f[k] \in V
    <2>1. k - first \in Nat /\ first + (k - first) = k /\ k <= last
      OBVIOUS
    <2>2. k - first \in S
      BY <1>3, <2>1
    <2> QED
      BY <2>1, <2>2
  <1> QED
    BY <1>4

(* Repeating a step ends in V.                                             *)
LEMMA RepetitionStays ==
  ASSUME NEW V, NEW base \in V, NEW first \in Nat, NEW last \in Nat, first <= last,
         NEW step, \A k \in Nat, v \in V : step[<<k, v>>] \in V
  PROVE  \E f : Repeats(f, base, first, last, step) /\ \A k \in first..last : f[k] \in V
  <1>1. PICK f : Repeats(f, base, first, last, step)
    BY Repetition
  <1>2. f[first] \in V
    <2>1. first \in first..last
      OBVIOUS
    <2> QED
      BY <1>1, <2>1 DEF Repeats
  <1>3. ASSUME NEW k \in (first + 1)..last, f[k - 1] \in V PROVE f[k] \in V
    <2>1. k \in first..last /\ k # first /\ k \in Nat
      OBVIOUS
    <2>2. f[k] = step[<<k, f[k - 1]>>]
      BY <1>1, <2>1 DEF Repeats
    <2> QED
      BY <1>3, <2>1, <2>2
  <1>4. \A k \in first..last : f[k] \in V
    BY <1>2, <1>3, Upwards
  <1> QED
    BY <1>1, <1>4

(* A function that goes on at what is nearer the end exists.               *)
LEMMA DescentExists ==
  ASSUME NEW R, NEW left \in [R -> Nat], NEW done, NEW out, NEW next,
         \A r \in R \ done : next[r] \in R /\ left[next[r]] < left[r]
  PROVE  \E f : Descends(f, R, done, out, next)
  <1> DEFINE Upto(m, f) == /\ DOMAIN f = R
                           /\ \A r \in R : left[r] < m => f[r] = IF r \in done THEN out[r] ELSE f[next[r]]
             S == {m \in Nat : \E f : Upto(m, f)}
  <1>1. 0 \in S
    <2> DEFINE f == [r \in R |-> r]
    <2>0. \A r \in R : ~(left[r] < 0)
      <3>1. \A r \in R : left[r] \in Nat
        OBVIOUS
      <3>2. \A n \in Nat : ~(n < 0)
        OBVIOUS
      <3> HIDE DEF f, S
      <3> QED
        BY <3>1, <3>2
    <2>1. Upto(0, f)
      BY <2>0
    <2> HIDE DEF f
    <2> QED
      BY <2>1
  <1>2. ASSUME NEW m \in Nat, m \in S PROVE m + 1 \in S
    <2>1. PICK f : Upto(m, f)
      BY <1>2
    <2> DEFINE g == [r \in R |-> IF left[r] < m THEN f[r] ELSE IF r \in done THEN out[r] ELSE f[next[r]]]
    <2>2. ASSUME NEW r \in R, left[r] < m + 1
          PROVE  g[r] = IF r \in done THEN out[r] ELSE g[next[r]]
      <3>1. g[r] = IF r \in done THEN out[r] ELSE f[next[r]]
        BY <2>1
      <3>2. CASE r \in done
        BY <3>1, <3>2
      <3>3. CASE r \notin done
        <4>1. next[r] \in R /\ left[next[r]] < m
          <5>1. next[r] \in R /\ left[next[r]] < left[r]
            BY <3>3
          <5>2. left[next[r]] \in Nat /\ left[r] \in Nat
            BY <5>1
          <5> QED
            BY <2>2, <5>1, <5>2
        <4>2. g[next[r]] = f[next[r]]
          BY <4>1
        <4> HIDE DEF g
        <4> QED
          BY <3>1, <3>3, <4>2
      <3> QED
        BY <3>2, <3>3
    <2>3. Upto(m + 1, g)
      BY <2>2
    <2>4. m + 1 \in Nat
      OBVIOUS
    <2> HIDE DEF g, Upto
    <2> QED
      BY <2>3, <2>4
  <1>3. S = Nat
    <2>1. Nat \subseteq S
      <3> HIDE DEF S
      <3> QED
        BY <1>1, <1>2, Induction
    <2> QED
      BY <2>1
  (* Upto(m, _) for all m at once: take what the smallest that reaches has. *)
  <1> DEFINE F(m) == CHOOSE f : Upto(m, f)
             g == [r \in R |-> F(left[r] + 1)[r]]
  <1>4. ASSUME NEW m \in Nat PROVE Upto(m, F(m))
    <2>1. \E f : Upto(m, f)
      BY <1>3
    <2> HIDE DEF Upto
    <2> QED
      BY <2>1
  <1>5. ASSUME NEW m \in Nat, NEW n \in Nat, NEW f, Upto(m, f), NEW h, Upto(n, h)
        PROVE  \A r \in R : left[r] < m /\ left[r] < n => f[r] = h[r]
    <2> DEFINE T == {k \in Nat : \A r \in R : left[r] < k /\ left[r] < m /\ left[r] < n => f[r] = h[r]}
    <2>1. 0 \in T
      <3>1. \A r \in R : ~(left[r] < 0)
        OBVIOUS
      <3> QED
        BY <3>1
    <2>2. ASSUME NEW k \in Nat, k \in T PROVE k + 1 \in T
      <3>1. ASSUME NEW r \in R, left[r] < k + 1, left[r] < m, left[r] < n PROVE f[r] = h[r]
        <4>1. /\ f[r] = IF r \in done THEN out[r] ELSE f[next[r]]
              /\ h[r] = IF r \in done THEN out[r] ELSE h[next[r]]
          BY <1>5, <3>1
        <4>2. CASE r \in done
          BY <4>1, <4>2
        <4>3. CASE r \notin done
          <5>1. next[r] \in R /\ left[next[r]] < left[r]
            BY <4>3
          <5>2. left[next[r]] \in Nat /\ left[r] \in Nat
            BY <5>1
          <5>3. left[next[r]] < k /\ left[next[r]] < m /\ left[next[r]] < n
            BY <3>1, <5>1, <5>2
          <5>4. f[next[r]] = h[next[r]]
            BY <2>2, <5>1, <5>3
          <5> QED
            BY <4>1, <4>3, <5>4
        <4> QED
          BY <4>2, <4>3
      <3> QED
        BY <3>1
    <2>3. Nat \subseteq T
      <3> HIDE DEF T
      <3> QED
        BY <2>1, <2>2, Induction
    <2>4. ASSUME NEW r \in R, left[r] < m, left[r] < n PROVE f[r] = h[r]
      <3>1. left[r] + 1 \in Nat /\ left[r] < left[r] + 1
        OBVIOUS
      <3>2. left[r] + 1 \in T
        BY <2>3, <3>1
      <3> QED
        BY <2>4, <3>1, <3>2
    <2> QED
      BY <2>4
  <1>6. ASSUME NEW r \in R PROVE g[r] = IF r \in done THEN out[r] ELSE g[next[r]]
    <2> DEFINE m == left[r] + 1
    <2>1. m \in Nat /\ left[r] < m
      OBVIOUS
    <2>2. g[r] = F(m)[r]
      OBVIOUS
    <2>3. F(m)[r] = IF r \in done THEN out[r] ELSE F(m)[next[r]]
      <3> HIDE DEF m, F
      <3> QED
        BY <1>4, <2>1
    <2>4. ASSUME r \notin done PROVE g[next[r]] = F(m)[next[r]]
      <3>1. next[r] \in R /\ left[next[r]] < left[r] /\ left[next[r]] \in Nat
        BY <2>4
      <3> DEFINE n == left[next[r]] + 1
      <3>2. n \in Nat /\ left[next[r]] < n /\ left[next[r]] < m
        BY <3>1
      <3>3. g[next[r]] = F(n)[next[r]]
        BY <3>1
      <3> HIDE DEF m, n, F, g, Upto
      <3>4. Upto(m, F(m)) /\ Upto(n, F(n))
        BY <1>4, <2>1, <3>2
      <3> QED
        BY <1>5, <2>1, <3>1, <3>2, <3>3, <3>4
    <2> HIDE DEF g, m, F
    <2> QED
      BY <2>2, <2>3, <2>4
  <1>7. g = [r \in R |-> IF r \in done THEN out[r] ELSE g[next[r]]]
    <2>1. g = [r \in R |-> g[r]]
      OBVIOUS
    <2> HIDE DEF g
    <2> QED
      BY <1>6, <2>1
  <1> HIDE DEF g
  <1> QED
    BY <1>7 DEF Descends

(* Its values are those of the ends.                                       *)
LEMMA DescentStays ==
  ASSUME NEW R, NEW left \in [R -> Nat], NEW done, NEW out, NEW next, NEW V,
         \A r \in R \ done : next[r] \in R /\ left[next[r]] < left[r],
         \A r \in R \cap done : out[r] \in V,
         NEW f, Descends(f, R, done, out, next)
  PROVE  \A r \in R : f[r] \in V
  <1>0. f = [r \in R |-> IF r \in done THEN out[r] ELSE f[next[r]]]
    BY DEF Descends
  <1> DEFINE S == {m \in Nat : \A r \in R : left[r] < m => f[r] \in V}
  <1>1. 0 \in S
    <2>1. \A r \in R : ~(left[r] < 0)
      OBVIOUS
    <2> QED
      BY <2>1
  <1>2. ASSUME NEW m \in Nat, m \in S PROVE m + 1 \in S
    <2>1. ASSUME NEW r \in R, left[r] < m + 1 PROVE f[r] \in V
      <3>1. f[r] = IF r \in done THEN out[r] ELSE f[next[r]]
        BY <1>0
      <3>2. CASE r \in done
        BY <3>1, <3>2
      <3>3. CASE r \notin done
        <4>1. next[r] \in R /\ left[next[r]] < left[r]
          BY <3>3
        <4>2. left[next[r]] \in Nat /\ left[r] \in Nat
          BY <4>1
        <4>3. left[next[r]] < m
          BY <2>1, <4>1, <4>2
        <4> QED
          BY <1>2, <3>1, <3>3, <4>1, <4>3
      <3> QED
        BY <3>2, <3>3
    <2> QED
      BY <2>1
  <1>3. Nat \subseteq S
    <2> HIDE DEF S
    <2> QED
      BY <1>1, <1>2, Induction
  <1>4. ASSUME NEW r \in R PROVE f[r] \in V
    <2>1. left[r] + 1 \in Nat /\ left[r] < left[r] + 1
      OBVIOUS
    <2>2. left[r] + 1 \in S
      BY <1>3, <2>1
    <2> QED
      BY <2>1, <2>2
  <1> QED
    BY <1>4

(***************************************************************************)
(* Reclaiming: a heap of places stays one, and what is in it in the end    *)
(* is removed.                                                             *)
(***************************************************************************)
Heaps(d, n) == [1..n -> DOMAIN d.list]

LEMMA HeapIs ==
  ASSUME NEW d, NEW n \in Nat, NEW heap \in Heaps(d, n)
  PROVE  Len(heap) = n
  <1>1. heap \in Seq(DOMAIN d.list)
    BY SeqDef DEF Heaps
  <1>2. DOMAIN heap = 1..Len(heap) /\ Len(heap) \in Nat /\ DOMAIN heap = 1..n
    BY <1>1, LenProperties DEF Heaps
  <1>3. \A m \in Nat : 1..m = 1..n => m = n
    OBVIOUS
  <1> QED
    BY <1>2, <1>3

(* shift_down() leaves places in the heap.                                 *)
LEMMA ShiftDownKeepsHeap ==
  ASSUME NEW d, NEW n \in Nat, NEW heap \in Heaps(d, n), NEW par \in 0..n
  PROVE  ShiftDown(d, heap, par) \in Heaps(d, n)
  <1> DEFINE R == [heap : Heaps(d, n), par : 0..n]
             score(r, k) == d.list[r.heap[k + 1]].score
             children(r) == {k \in {2 * r.par + 1, 2 * r.par + 2} : k < n}
             above(r) == {k \in children(r) : /\ score(r, k) > score(r, r.par)
                                              /\ \A j \in children(r) \ {k} : score(r, k) > score(r, j)}
             child(r) == CHOOSE k \in above(r) : TRUE
             swapped(r) == [r.heap EXCEPT ![child(r) + 1] = r.heap[r.par + 1],
                                          ![r.par + 1] = r.heap[child(r) + 1]]
             done == {r \in R : above(r) = {}}
             next == [r \in R |-> [heap |-> swapped(r), par |-> child(r)]]
             out == [r \in R |-> r.heap]
             left == [r \in R |-> n - r.par]
             Sifts(f) == f = [r \in R |-> IF above(r) = {} THEN r.heap
                                          ELSE f[[heap |-> swapped(r), par |-> child(r)]]]
             sift == CHOOSE f : Sifts(f)
  <1>1. ShiftDown(d, heap, par) = sift[[heap |-> heap, par |-> par]]
    <2>1. Len(heap) = n
      BY HeapIs
    <2> QED
      BY <2>1 DEF ShiftDown, Heaps
  <1>2. left \in [R -> Nat]
    OBVIOUS
  <1>3. ASSUME NEW r \in R \ done PROVE next[r] \in R /\ left[next[r]] < left[r]
    <2>1. r.par \in 0..n /\ r.heap \in Heaps(d, n) /\ above(r) # {}
      OBVIOUS
    <2>2. child(r) \in above(r)
      BY <2>1
    <2> DEFINE c == child(r)
    <2>3. c \in {2 * r.par + 1, 2 * r.par + 2} /\ c < n
      BY <2>2
    <2> HIDE DEF c, above
    <2>4. c \in 0..n /\ c > r.par /\ c + 1 \in 1..n /\ r.par + 1 \in 1..n
      BY <2>1, <2>3
    <2>5. swapped(r) \in Heaps(d, n)
      BY <2>1, <2>4 DEF Heaps, c
    <2>6. next[r] = [heap |-> swapped(r), par |-> c]
      BY DEF c
    <2> HIDE DEF swapped
    <2>7. next[r] \in R /\ left[next[r]] = n - c /\ left[r] = n - r.par
      <3> HIDE DEF next
      <3>1. next[r] \in R /\ next[r].par = c
        BY <2>4, <2>5, <2>6
      <3> QED
        BY <3>1
    <2> QED
      BY <2>1, <2>4, <2>7
  <1>4. \A r \in R \cap done : out[r] \in Heaps(d, n)
    OBVIOUS
  <1>5. \A f : Sifts(f) <=> Descends(f, R, done, out, next)
    BY DEF Descends
  <1>6. [heap |-> heap, par |-> par] \in R
    OBVIOUS
  <1> HIDE DEF R, done, next, out, left, Sifts
  <1>7. \E f : Sifts(f)
    <2>1. \E f : Descends(f, R, done, out, next)
      BY <1>2, <1>3, DescentExists
    <2> QED
      BY <1>5, <2>1
  <1>8. Sifts(sift)
    BY <1>7
  <1> HIDE DEF sift
  <1>9. \A r \in R : sift[r] \in Heaps(d, n)
    <2>1. Descends(sift, R, done, out, next)
      BY <1>5, <1>8
    <2> QED
      BY <1>2, <1>3, <1>4, <2>1, DescentStays
  <1> QED
    BY <1>1, <1>6, <1>9

(* Changes add up.                                                         *)
LEMMA ChangedRepeats ==
  ASSUME NEW d, Good(d), NEW e, Changed(d, e), NEW g, Changed(e, g)
  PROVE  Changed(d, g)
  <1>1. d.state \in NONE..DEFRAGMENTED /\ e.state \in NONE..DEFRAGMENTED /\ g.state \in NONE..DEFRAGMENTED
    BY DEF Good, IsDict, Changed
  <1>2. /\ d.state <= g.state /\ (d.state <= LEMMA_DIRTY => g.state <= LEMMA_DIRTY)
        /\ g.state < OFFSET_DIRTY => e.state < OFFSET_DIRTY
        /\ g.state < SCORE_DIRTY => e.state < SCORE_DIRTY
        /\ g.state < SYNC_DIRTY => e.state < SYNC_DIRTY
    <2>1. /\ d.state <= e.state /\ (d.state <= LEMMA_DIRTY => e.state <= LEMMA_DIRTY)
          /\ e.state <= g.state /\ (e.state <= LEMMA_DIRTY => g.state <= LEMMA_DIRTY)
      BY DEF Changed
    <2> QED
      BY <1>1, <2>1, StatesAre DEF States
  <1>3. DOMAIN e.list = DOMAIN d.list
    BY ChangeKeepsGood
  <1> QED
    BY <1>1, <1>2, <1>3 DEF Changed

LEMMA UnchangedIsChanged == ASSUME NEW d, Good(d) PROVE Changed(d, d)
  <1>1. d.state <= d.state
    BY StatesAre DEF Good, IsDict, States
  <1> QED
    BY <1>1 DEF Good, IsDict, Changed

(* The part of a list that a ratio is.                                     *)
LEMMA PartOf == ASSUME NEW n \in Nat, NEW r \in 0..99 PROVE (n * r) \div 100 \in 0..n
  <1>1. n * r \in Nat /\ n * r <= n * 100
    OBVIOUS
  <1> DEFINE m == n * r
  <1>2. \A k \in Nat : k <= n * 100 => k \div 100 \in 0..n
    OBVIOUS
  <1> QED
    BY <1>1, <1>2

(* The heap of the first places can be built.                              *)
LEMMA BuiltExists ==
  ASSUME NEW d, NEW rc \in Nat, 1..rc \subseteq DOMAIN d.list, NEW half \in Nat, half <= rc
  PROVE  LET V == Heaps(d, rc)
             Built(f) == f = [k \in 0..(half + 1) |-> IF k = 0 THEN [j \in 1..rc |-> j]
                                                      ELSE ShiftDown(d, f[k - 1], half + 1 - k)]
         IN  (\E f : Built(f)) /\ \A f : Built(f) => f[half + 1] \in V
  <1> DEFINE V == Heaps(d, rc)
             base == [j \in 1..rc |-> j]
             Built(f) == f = [k \in 0..(half + 1) |-> IF k = 0 THEN base ELSE ShiftDown(d, f[k - 1], half + 1 - k)]
             step == [p \in Nat \X V |-> IF p[1] \in 1..(half + 1) THEN ShiftDown(d, p[2], half + 1 - p[1])
                                         ELSE p[2]]
  <1>1. base \in V
    BY DEF Heaps
  <1>2. ASSUME NEW k \in 1..(half + 1), NEW v \in V PROVE ShiftDown(d, v, half + 1 - k) \in V
    <2>1. half + 1 - k \in 0..rc
      OBVIOUS
    <2> QED
      BY <2>1, ShiftDownKeepsHeap
  <1>3. ASSUME NEW k \in Nat, NEW v \in V
        PROVE  /\ step[<<k, v>>] \in V
               /\ k \in 1..(half + 1) => step[<<k, v>>] = ShiftDown(d, v, half + 1 - k)
    BY <1>2
  <1> HIDE DEF V, base, step
  <1>4. \E f : Built(f)
    <2>1. PICK f : Repeats(f, base, 0, half + 1, step) /\ \A k \in 0..(half + 1) : f[k] \in V
      <3>1. 0 \in Nat /\ half + 1 \in Nat /\ 0 <= half + 1
        OBVIOUS
      <3> QED
        BY <1>1, <1>3, <3>1, RepetitionStays
    <2>2. ASSUME NEW k \in 0..(half + 1)
          PROVE  f[k] = IF k = 0 THEN base ELSE ShiftDown(d, f[k - 1], half + 1 - k)
      <3>1. f[k] = IF k = 0 THEN base ELSE step[<<k, f[k - 1]>>]
        BY <2>1 DEF Repeats
      <3>2. k # 0 => k - 1 \in 0..(half + 1) /\ k \in 1..(half + 1) /\ k \in Nat
        OBVIOUS
      <3> QED
        BY <1>3, <2>1, <3>1, <3>2
    <2>3. f = [k \in 0..(half + 1) |-> f[k]]
      BY <2>1 DEF Repeats
    <2>4. Built(f)
      BY <2>2, <2>3
    <2> QED
      BY <2>4
  <1>5. ASSUME NEW f, Built(f) PROVE f[half + 1] \in V
    <2>1. 0 \in 0..(half + 1) /\ half + 1 \in 0..(half + 1) /\ 0 \in Nat /\ half + 1 \in Nat
      OBVIOUS
    <2>2. f[0] \in V
      BY <1>1, <1>5, <2>1
    <2>3. ASSUME NEW k \in (0 + 1)..(half + 1), f[k - 1] \in V PROVE f[k] \in V
      <3>1. k \in 0..(half + 1) /\ k # 0 /\ k \in 1..(half + 1)
        OBVIOUS
      <3>2. f[k] = ShiftDown(d, f[k - 1], half + 1 - k)
        BY <1>5, <3>1
      <3> QED
        BY <1>2, <2>3, <3>1, <3>2
    <2> HIDE DEF Built
    <2>4. \A k \in 0..(half + 1) : f[k] \in V
      BY <2>1, <2>2, <2>3, Upwards
    <2> QED
      BY <2>1, <2>4
  <1> QED
    BY <1>4, <1>5 DEF V, base

(* It can be led over the rest of the list.                                *)
LEMMA LowestExists ==
  ASSUME NEW d, NEW n \in Nat, DOMAIN d.list = 1..n, NEW rc \in 0..n, NEW heap \in Heaps(d, rc)
  PROVE  LET V == Heaps(d, rc)
             Later(h, k) == IF d.list[k].score < d.list[h[1]].score
                             THEN ShiftDown(d, [h EXCEPT ![1] = k], 0) ELSE h
             Lowest(f) == f = [k \in rc..n |-> IF k = rc THEN heap ELSE Later(f[k - 1], k)]
         IN  (\E f : Lowest(f)) /\ \A f : Lowest(f) => f[n] \in V
  <1> DEFINE V == Heaps(d, rc)
             Later(h, k) == IF d.list[k].score < d.list[h[1]].score
                             THEN ShiftDown(d, [h EXCEPT ![1] = k], 0) ELSE h
             Lowest(f) == f = [k \in rc..n |-> IF k = rc THEN heap ELSE Later(f[k - 1], k)]
             step == [p \in Nat \X V |-> IF p[1] \in 1..n THEN Later(p[2], p[1]) ELSE p[2]]
  <1>1. ASSUME NEW k \in 1..n, NEW v \in V PROVE Later(v, k) \in V
    <2>1. [v EXCEPT ![1] = k] \in V
      BY DEF Heaps
    <2>2. ShiftDown(d, [v EXCEPT ![1] = k], 0) \in V
      BY <2>1, ShiftDownKeepsHeap
    <2> QED
      BY <2>2
  <1> HIDE DEF Later
  <1>2. ASSUME NEW k \in Nat, NEW v \in V
        PROVE  step[<<k, v>>] \in V /\ (k \in 1..n => step[<<k, v>>] = Later(v, k))
    BY <1>1
  <1> HIDE DEF V, step
  <1>3. \E f : Lowest(f)
    <2>1. PICK f : Repeats(f, heap, rc, n, step) /\ \A k \in rc..n : f[k] \in V
      <3>1. rc \in Nat /\ rc <= n
        OBVIOUS
      <3>2. heap \in V
        BY DEF V
      <3> QED
        BY <1>2, <3>1, <3>2, RepetitionStays
    <2>2. ASSUME NEW k \in rc..n PROVE f[k] = IF k = rc THEN heap ELSE Later(f[k - 1], k)
      <3>1. f[k] = IF k = rc THEN heap ELSE step[<<k, f[k - 1]>>]
        BY <2>1 DEF Repeats
      <3>2. k # rc => k - 1 \in rc..n /\ k \in 1..n /\ k \in Nat
        OBVIOUS
      <3> QED
        BY <1>2, <2>1, <3>1, <3>2
    <2>3. f = [k \in rc..n |-> f[k]]
      BY <2>1 DEF Repeats
    <2>4. Lowest(f)
      BY <2>2, <2>3
    <2> QED
      BY <2>4
  <1>4. ASSUME NEW f, Lowest(f) PROVE f[n] \in V
    <2>1. rc \in rc..n /\ n \in rc..n /\ rc \in Nat
      OBVIOUS
    <2>2. f[rc] \in V
      BY <1>4, <2>1 DEF V
    <2>3. ASSUME NEW k \in (rc + 1)..n, f[k - 1] \in V PROVE f[k] \in V
      <3>1. k \in rc..n /\ k # rc /\ k \in 1..n
        OBVIOUS
      <3>2. f[k] = Later(f[k - 1], k)
        BY <1>4, <3>1
      <3> QED
        BY <1>1, <2>3, <3>1, <3>2 DEF V
    <2> HIDE DEF Lowest
    <2>4. \A k \in rc..n : f[k] \in V
      BY <2>1, <2>2, <2>3, Upwards
    <2> QED
      BY <2>1, <2>4
  <1> QED
    BY <1>3, <1>4 DEF V, Later

(* What can become of d: other fields stay.                                *)
With(d, s, t, u) == [d EXCEPT !.list = s, !.syncs = t, !.state = u]
Results(d) == {e \in {d} \cup {With(d, s, t, u) : s \in Seq(Entry), t \in Seq(Nat), u \in NONE..DEFRAGMENTED} :
                 Changed(d, e)}

(* Removing from what can become of d gives such a dictionary.             *)
LEMMA RemovedResults ==
  ASSUME NEW d, Good(d), NEW v \in Results(d), NEW k \in DOMAIN d.list
  PROVE  Removed(v, k) \in Results(d)
  <1> DEFINE e == Removed(v, k)
  <1>1. Changed(d, v)
    BY DEF Results
  <1>2. Good(v) /\ DOMAIN v.list = DOMAIN d.list
    BY <1>1, ChangeKeepsGood
  <1>3. Changed(d, e)
    <2>1. Changed(v, e)
      BY <1>2, RemovedChanges
    <2> QED
      BY <1>1, <2>1, ChangedRepeats
  <1>4. e.list \in Seq(Entry) /\ e.syncs \in Seq(Nat) /\ e.state \in NONE..DEFRAGMENTED
    BY <1>3 DEF Changed
  <1>5. v = d \/ \E s, t, u : v = With(d, s, t, u)
    BY DEF Results
  <1>6. DOMAIN d = Fields
    BY DEF Good, IsDict
  <1>7. \E s, t, u : e = With(d, s, t, u)
    <2>1. CASE v = d
      BY <2>1 DEF Removed, With
    <2>2. CASE \E s, t, u : v = With(d, s, t, u)
      <3>1. PICK s, t, u : v = With(d, s, t, u)
        BY <2>2
      <3> DEFINE s2 == [v.list EXCEPT ![k].gone = TRUE]
                 t2 == WithoutSync(v.syncs, v.list[k].at)
                 u2 == AtLeast(v.state, OFFSET_DIRTY)
      <3>2. e = [v EXCEPT !.list = s2, !.syncs = t2, !.state = u2]
        BY DEF Removed
      <3> HIDE DEF s2, t2, u2, e
      <3>3. e = With(d, s2, t2, u2)
        BY <1>6, <3>1, <3>2 DEF With, Fields
      <3> QED
        BY <3>3
    <2> QED
      BY <1>5, <2>1, <2>2
  <1> HIDE DEF e
  <1>8. PICK s, t, u : e = With(d, s, t, u)
    BY <1>7
  <1>9. e.list = s /\ e.syncs = t /\ e.state = u
    BY <1>6, <1>8 DEF With, Fields
  <1>10. e \in Results(d)
    BY <1>3, <1>4, <1>8, <1>9 DEF Results
  <1> QED
    BY <1>10 DEF e

(* Removing all of the heap is a change.                                   *)
LEMMA WithoutExists ==
  ASSUME NEW d, Good(d), NEW rc \in Nat, NEW heap \in Heaps(d, rc)
  PROVE  LET Without(f) == f = [k \in 0..rc |-> IF k = 0 THEN d ELSE Removed(f[k - 1], heap[k])]
         IN  (\E f : Without(f)) /\ \A f : Without(f) => Changed(d, f[rc])
  <1> DEFINE V == Results(d)
             Without(f) == f = [k \in 0..rc |-> IF k = 0 THEN d ELSE Removed(f[k - 1], heap[k])]
             step == [p \in Nat \X V |-> IF p[1] \in 1..rc THEN Removed(p[2], heap[p[1]]) ELSE p[2]]
  <1>1. d \in V
    BY UnchangedIsChanged DEF Results
  <1>2. ASSUME NEW k \in 1..rc, NEW v \in V PROVE Removed(v, heap[k]) \in V
    BY RemovedResults DEF Heaps
  <1> HIDE DEF V
  <1>3. ASSUME NEW k \in Nat, NEW v \in V
        PROVE  step[<<k, v>>] \in V /\ (k \in 1..rc => step[<<k, v>>] = Removed(v, heap[k]))
    BY <1>2
  <1> HIDE DEF step
  <1>4. \E f : Without(f)
    <2>1. PICK f : Repeats(f, d, 0, rc, step) /\ \A k \in 0..rc : f[k] \in V
      <3>1. 0 \in Nat /\ 0 <= rc
        OBVIOUS
      <3> QED
        BY <1>1, <1>3, <3>1, RepetitionStays
    <2>2. ASSUME NEW k \in 0..rc PROVE f[k] = IF k = 0 THEN d ELSE Removed(f[k - 1], heap[k])
      <3>1. f[k] = IF k = 0 THEN d ELSE step[<<k, f[k - 1]>>]
        BY <2>1 DEF Repeats
      <3>2. k # 0 => k - 1 \in 0..rc /\ k \in 1..rc /\ k \in Nat
        OBVIOUS
      <3> QED
        BY <1>3, <2>1, <3>1, <3>2
    <2>3. f = [k \in 0..rc |-> f[k]]
      BY <2>1 DEF Repeats
    <2>4. Without(f)
      BY <2>2, <2>3
    <2> QED
      BY <2>4
  <1>5. ASSUME NEW f, Without(f) PROVE Changed(d, f[rc])
    <2>1. 0 \in 0..rc /\ rc \in 0..rc /\ 0 \in Nat
      OBVIOUS
    <2>2. f[0] \in V
      BY <1>1, <1>5, <2>1
    <2>3. ASSUME NEW k \in (0 + 1)..rc, f[k - 1] \in V PROVE f[k] \in V
      <3>1. k \in 0..rc /\ k # 0 /\ k \in 1..rc
        OBVIOUS
      <3>2. f[k] = Removed(f[k - 1], heap[k])
        BY <1>5, <3>1
      <3> QED
        BY <1>2, <2>3, <3>1, <3>2
    <2> HIDE DEF Without
    <2>4. \A k \in 0..rc : f[k] \in V
      BY <2>1, <2>2, <2>3, Upwards
    <2> QED
      BY <2>1, <2>4 DEF V, Results
  <1> QED
    BY <1>4, <1>5

(* reclaim() only scores and removes.                                      *)
LEMMA ReclaimedChanges == ASSUME NEW d, Good(d) PROVE Changed(d, Reclaimed(d))
  <1> DEFINE n == Len(d.list)
             rc == (n * d.ratio) \div 100
             half == (rc + 1) \div 2
             Built(f) == f = [k \in 0..(half + 1) |-> IF k = 0 THEN [j \in 1..rc |-> j]
                                                      ELSE ShiftDown(d, f[k - 1], half + 1 - k)]
             built == CHOOSE f : Built(f)
             heap == built[half + 1]
             Later(h, k) == IF d.list[k].score < d.list[h[1]].score
                             THEN ShiftDown(d, [h EXCEPT ![1] = k], 0) ELSE h
             Lowest(f) == f = [k \in rc..n |-> IF k = rc THEN heap ELSE Later(f[k - 1], k)]
             lowest == CHOOSE f : Lowest(f)
             Without(f) == f = [k \in 0..rc |-> IF k = 0 THEN d ELSE Removed(f[k - 1], lowest[n][k])]
             without == CHOOSE f : Without(f)
  <1>1. Reclaimed(d) = without[rc]
    BY DEF Reclaimed
  <1>2. n \in Nat /\ DOMAIN d.list = 1..n /\ d.ratio \in 0..99
    BY PlaceFacts DEF Good, IsDict
  <1>3. rc \in 0..n /\ rc \in Nat
    <2>1. rc \in 0..n
      BY <1>2, PartOf
    <2> HIDE DEF rc
    <2> QED
      BY <1>2, <2>1
  <1> HIDE DEF rc, n
  <1>4. half \in Nat /\ half <= rc
    BY <1>3
  <1>5. 1..rc \subseteq DOMAIN d.list
    BY <1>2, <1>3
  <1> HIDE DEF half
  <1>6. Built(built) /\ heap \in Heaps(d, rc)
    <2>1. (\E f : Built(f)) /\ \A f : Built(f) => f[half + 1] \in Heaps(d, rc)
      BY <1>3, <1>4, <1>5, BuiltExists
    <2> HIDE DEF Built
    <2> QED
      BY <2>1
  <1> HIDE DEF heap, built
  <1>7. Lowest(lowest) /\ lowest[n] \in Heaps(d, rc)
    <2>1. (\E f : Lowest(f)) /\ \A f : Lowest(f) => f[n] \in Heaps(d, rc)
      BY <1>2, <1>3, <1>6, LowestExists
    <2> HIDE DEF Lowest
    <2> QED
      BY <2>1
  <1> HIDE DEF lowest
  <1>8. Changed(d, without[rc])
    <2>1. (\E f : Without(f)) /\ \A f : Without(f) => Changed(d, f[rc])
      BY <1>3, <1>7, WithoutExists
    <2> HIDE DEF Without
    <2> QED
      BY <2>1
  <1> QED
    BY <1>1, <1>8

(***************************************************************************)
(* Defragmenting: what is in use stays in the order it has, and the        *)
(* lemmas move down over the ones that are gone.                           *)
(***************************************************************************)
EntryKey(d, e) == Initials(d.lemmas[e.at].spl)
Kept(d, k, s) ==
  /\ s \in Seq(Entry) /\ \A j \in DOMAIN s : \E i \in 1..k : s[j] = d.list[i]
  /\ \A i, j \in DOMAIN s : i < j => ~FuzzyBefore(EntryKey(d, s[j]), EntryKey(d, s[i]))

(* What is kept of a list up to a place, from what is kept before it.      *)
LEMMA KeptGoesOn ==
  ASSUME NEW d, Good(d), NEW k \in DOMAIN d.list, NEW s, Kept(d, k - 1, s)
  PROVE  Kept(d, k, s) /\ Kept(d, k, Append(s, d.list[k]))
  <1> DEFINE x == d.list[k]
             t == Append(s, x)
  <1>1. Len(d.list) \in Nat /\ DOMAIN d.list = 1..Len(d.list) /\ x \in Entry
    BY PlaceFacts DEF Good
  <1>2. s \in Seq(Entry) /\ DOMAIN s = 1..Len(s) /\ Len(s) \in Nat
    BY LenProperties DEF Kept
  <1>3. t \in Seq(Entry) /\ DOMAIN t = 1..(Len(s) + 1) /\ t[Len(s) + 1] = x /\ \A j \in 1..Len(s) : t[j] = s[j]
    <2> HIDE DEF x
    <2> QED
      BY <1>1, <1>2, AppendProperties, LenProperties
  <1>4. \A j \in DOMAIN s : \E i \in 1..(k - 1) : s[j] = d.list[i]
    BY DEF Kept
  <1>5. 1..(k - 1) \subseteq 1..k /\ k \in 1..k /\ \A i \in 1..(k - 1) : i \in DOMAIN d.list /\ i < k
    BY <1>1
  <1>6. \A i, j \in DOMAIN s : i < j => ~FuzzyBefore(EntryKey(d, s[j]), EntryKey(d, s[i]))
    BY DEF Kept
  <1>7. Kept(d, k, s)
    BY <1>2, <1>4, <1>5, <1>6 DEF Kept
  <1>8. ASSUME NEW j \in DOMAIN t PROVE \E i \in 1..k : t[j] = d.list[i]
    <2>1. j \in DOMAIN s \/ j = Len(s) + 1
      BY <1>2, <1>3
    <2> HIDE DEF t
    <2> QED
      BY <1>2, <1>3, <1>4, <1>5, <2>1
  <1>9. ASSUME NEW i \in DOMAIN t, NEW j \in DOMAIN t, i < j
        PROVE  ~FuzzyBefore(EntryKey(d, t[j]), EntryKey(d, t[i]))
    <2>1. i \in DOMAIN s /\ (j \in DOMAIN s \/ j = Len(s) + 1)
      BY <1>2, <1>3, <1>9
    <2>2. CASE j \in DOMAIN s
      <3> HIDE DEF t
      <3> QED
        BY <1>2, <1>3, <1>6, <1>9, <2>1, <2>2
    <2>3. CASE j = Len(s) + 1
      <3>1. PICK m \in 1..(k - 1) : s[i] = d.list[m]
        BY <1>4, <2>1
      <3>2. ~FuzzyBefore(Key(d, k), Key(d, m))
        BY <1>5 DEF Good, Sorted
      <3>3. t[i] = d.list[m] /\ t[j] = d.list[k]
        <4> HIDE DEF t
        <4> QED
          BY <1>2, <1>3, <2>1, <2>3, <3>1
      <3> HIDE DEF t
      <3> QED
        BY <3>2, <3>3 DEF Key, EntryKey, LemmaAt
    <2> QED
      BY <2>1, <2>2, <2>3
  <1>10. Kept(d, k, t)
    <2> HIDE DEF t
    <2> QED
      BY <1>3, <1>8, <1>9 DEF Kept
  <1> QED
    BY <1>7, <1>10

(* What is kept of all the list can be computed place by place.            *)
LEMMA KeptExists ==
  ASSUME NEW d, Good(d)
  PROVE  LET InUseOf(f) == f = [k \in 0..Len(d.list) |->
                                 IF k = 0 THEN <<>>
                                 ELSE IF d.list[k].gone THEN f[k - 1] ELSE Append(f[k - 1], d.list[k])]
         IN  (\E f : InUseOf(f)) /\ \A f : InUseOf(f) => Kept(d, Len(d.list), f[Len(d.list)])
  <1> DEFINE n == Len(d.list)
             Then(k, s) == IF d.list[k].gone THEN s ELSE Append(s, d.list[k])
             InUseOf(f) == f = [k \in 0..n |-> IF k = 0 THEN <<>> ELSE Then(k, f[k - 1])]
             step == [p \in Nat \X Seq(Entry) |-> IF p[1] \in 1..n THEN Then(p[1], p[2]) ELSE p[2]]
  <1>1. n \in Nat /\ DOMAIN d.list = 1..n /\ \A k \in 1..n : d.list[k] \in Entry
    BY PlaceFacts DEF Good
  <1> HIDE DEF n
  <1>2. ASSUME NEW k \in 1..n, NEW s \in Seq(Entry) PROVE Then(k, s) \in Seq(Entry)
    BY <1>1, AppendProperties
  <1>3. ASSUME NEW k \in Nat, NEW s \in Seq(Entry)
        PROVE  step[<<k, s>>] \in Seq(Entry) /\ (k \in 1..n => step[<<k, s>>] = Then(k, s))
    <2> HIDE DEF Then
    <2> QED
      BY <1>2
  <1> HIDE DEF step
  <1>4. \E f : InUseOf(f)
    <2> HIDE DEF Then
    <2>1. PICK f : Repeats(f, <<>>, 0, n, step) /\ \A k \in 0..n : f[k] \in Seq(Entry)
      <3>1. 0 \in Nat /\ 0 <= n /\ <<>> \in Seq(Entry)
        BY <1>1
      <3> QED
        BY <1>1, <1>3, <3>1, RepetitionStays
    <2>2. ASSUME NEW k \in 0..n PROVE f[k] = IF k = 0 THEN <<>> ELSE Then(k, f[k - 1])
      <3>1. f[k] = IF k = 0 THEN <<>> ELSE step[<<k, f[k - 1]>>]
        BY <2>1 DEF Repeats
      <3>2. k # 0 => k - 1 \in 0..n /\ k \in 1..n /\ k \in Nat
        BY <1>1
      <3> QED
        BY <1>3, <2>1, <3>1, <3>2
    <2>3. f = [k \in 0..n |-> f[k]]
      BY <2>1 DEF Repeats
    <2>4. InUseOf(f)
      BY <2>2, <2>3
    <2> QED
      BY <2>4
  <1>5. ASSUME NEW f, InUseOf(f) PROVE Kept(d, n, f[n])
    <2> DEFINE V == {p \in Nat \X Seq(Entry) : Kept(d, p[1], p[2])}
               h == [k \in 0..n |-> <<k, f[k]>>]
    <2>1. 0 \in 0..n /\ n \in 0..n /\ 0 \in Nat
      BY <1>1
    <2>2. Kept(d, 0, <<>>)
      BY EmptyIs DEF Kept
    <2>a. ASSUME NEW k \in Nat, NEW s \in Seq(Entry), Kept(d, k, s) PROVE <<k, s>> \in V
      BY <2>a
    <2>3. h[0] \in V
      <3>1. h[0] = <<0, <<>>>> /\ <<>> \in Seq(Entry)
        BY <1>5, <2>1
      <3> HIDE DEF h, V
      <3> QED
        BY <2>1, <2>2, <2>a, <3>1
    <2>4. ASSUME NEW k \in (0 + 1)..n, h[k - 1] \in V PROVE h[k] \in V
      <3>1. k \in 0..n /\ k # 0 /\ k \in 1..n /\ k - 1 \in 0..n /\ k \in Nat
        BY <1>1
      <3>2. f[k] = Then(k, f[k - 1])
        <4> HIDE DEF Then
        <4> QED
          BY <1>5, <3>1
      <3>3. h[k - 1] = <<k - 1, f[k - 1]>> /\ h[k] = <<k, f[k]>>
        BY <3>1
      <3> HIDE DEF h, InUseOf
      <3>4. Kept(d, k - 1, f[k - 1])
        BY <2>4, <3>3
      <3>5. Kept(d, k, f[k])
        BY <1>1, <3>1, <3>2, <3>4, KeptGoesOn
      <3>6. f[k] \in Seq(Entry)
        BY <3>5 DEF Kept
      <3> QED
        BY <3>1, <3>3, <3>5, <3>6
    <2>5. \A k \in 0..n : h[k] \in V
      <3> HIDE DEF h, V, InUseOf
      <3> QED
        BY <1>1, <2>1, <2>3, <2>4, Upwards
    <2>6. h[n] = <<n, f[n]>> /\ h[n] \in V
      BY <2>1, <2>5
    <2> HIDE DEF h
    <2> QED
      BY <2>6
  <1> QED
    BY <1>4, <1>5 DEF n

(* Where what is used up to an offset ends when nothing lies between.      *)
Sums(d, used, h) ==
  h = [k \in 0..d.size |-> IF k = 0 THEN 0
                           ELSE IF k - 1 \in used THEN h[k - 1] + Size(d.lemmas[k - 1]) ELSE h[k - 1]]
LastOf(S) == CHOOSE o \in S : \A p \in S : p <= o
End(d, S, to) == IF S = {} THEN 0 ELSE to[LastOf(S)] + Size(d.lemmas[LastOf(S)])
Before(used, at) == {o \in used : o < at}
Moves(d, used, to) == to = [at \in used |-> End(d, Before(used, at), to)]

(* A set of numbers with a bound has a last one.                           *)
LEMMA LastOfIs ==
  ASSUME NEW S, S \subseteq Nat, S # {}, NEW n \in Nat, \A o \in S : o < n
  PROVE  LastOf(S) \in S /\ \A p \in S : p <= LastOf(S)
  <1> DEFINE T == {m \in Nat : \A p \in S : p <= m}
             m == Least(T)
  <1>1. n \in T
    OBVIOUS
  <1>2. m \in T /\ \A k \in T : m <= k
    <2>1. T \subseteq Nat /\ T # {}
      BY <1>1
    <2> HIDE DEF T
    <2> QED
      BY <2>1, LeastNumber
  <1> HIDE DEF m
  <1>3. m \in Nat /\ \A p \in S : p <= m
    BY <1>2
  <1>4. m \in S
    <2> SUFFICES ASSUME m \notin S PROVE FALSE
      OBVIOUS
    <2>1. PICK p \in S : TRUE
      OBVIOUS
    <2>2. m # 0
      BY <1>3, <2>1
    <2>3. m - 1 \in Nat /\ ~(m <= m - 1)
      BY <1>3, <2>2
    <2>4. \A q \in S : q <= m - 1
      BY <1>3
    <2>5. m - 1 \in T
      BY <2>3, <2>4
    <2> HIDE DEF T
    <2> QED
      BY <1>2, <2>3, <2>5
  <1> QED
    BY <1>3, <1>4 DEF LastOf

(* The sizes of what is used can be summed up, offset by offset,           *)
LEMMA SumsExist ==
  ASSUME NEW d, Block(d.lemmas, d.size), NEW used, used \subseteq DOMAIN d.lemmas
  PROVE  \E h : Sums(d, used, h) /\ \A k \in 0..d.size : h[k] \in Nat
  <1> DEFINE n == d.size
             Then(k, s) == IF k - 1 \in used THEN s + Size(d.lemmas[k - 1]) ELSE s
             step == [p \in Nat \X Nat |-> Then(p[1], p[2])]
  <1>1. n \in Nat /\ \A o \in used : Size(d.lemmas[o]) \in Nat
    BY LemmaFacts DEF Block
  <1>2. ASSUME NEW k \in Nat, NEW s \in Nat PROVE Then(k, s) \in Nat
    BY <1>1
  <1>3. \A k \in Nat, s \in Nat : step[<<k, s>>] = Then(k, s) /\ step[<<k, s>>] \in Nat
    BY <1>2
  <1> HIDE DEF step
  <1>4. PICK h : Repeats(h, 0, 0, n, step) /\ \A k \in 0..n : h[k] \in Nat
    <2>1. 0 \in Nat /\ 0 <= n
      BY <1>1
    <2> HIDE DEF n, Then
    <2> QED
      BY <1>1, <1>3, <2>1, RepetitionStays
  <1>5. ASSUME NEW k \in 0..n PROVE h[k] = IF k = 0 THEN 0 ELSE Then(k, h[k - 1])
    <2>1. h[k] = IF k = 0 THEN 0 ELSE step[<<k, h[k - 1]>>]
      BY <1>4 DEF Repeats
    <2>2. k # 0 => k - 1 \in 0..n /\ k \in Nat
      BY <1>1
    <2> HIDE DEF n, Then
    <2> QED
      BY <1>3, <1>4, <2>1, <2>2
  <1>6. h = [k \in 0..n |-> h[k]]
    BY <1>4 DEF Repeats
  <1>7. h = [k \in 0..n |-> IF k = 0 THEN 0 ELSE Then(k, h[k - 1])]
    <2> HIDE DEF n, Then
    <2> QED
      BY <1>5, <1>6
  <1> QED
    BY <1>4, <1>7 DEF Sums

(* each from the one before;                                               *)
LEMMA SumsStep ==
  ASSUME NEW d, NEW used, NEW h, Sums(d, used, h), NEW k \in 1..d.size
  PROVE  h[k] = IF k - 1 \in used THEN h[k - 1] + Size(d.lemmas[k - 1]) ELSE h[k - 1]
  <1>1. k \in 0..d.size /\ k # 0
    OBVIOUS
  <1> QED
    BY <1>1 DEF Sums

(* they stay where nothing is used,                                        *)
LEMMA SumsStay ==
  ASSUME NEW d, Block(d.lemmas, d.size), NEW used, NEW h, Sums(d, used, h),
         NEW p \in Nat, NEW q \in p..d.size, \A o \in used : ~(p <= o /\ o < q)
  PROVE  h[q] = h[p]
  <1> DEFINE V == {h[p]}
  <1>1. h[p] \in V
    OBVIOUS
  <1>2. ASSUME NEW k \in (p + 1)..q, h[k - 1] \in V PROVE h[k] \in V
    <2>1. d.size \in Nat
      BY DEF Block
    <2>2. k \in 1..d.size /\ p <= k - 1 /\ k - 1 < q
      BY <2>1
    <2>3. k - 1 \notin used
      BY <2>2
    <2> QED
      BY <1>2, <2>2, <2>3, SumsStep
  <1>3. q \in Nat /\ q \in p..q
    BY DEF Block
  <1>4. \A k \in p..q : h[k] \in V
    <2> HIDE DEF V
    <2> QED
      BY <1>1, <1>2, <1>3, Upwards
  <1> QED
    BY <1>3, <1>4

(* grow by each lemma that is,                                             *)
LEMMA SumsGrow ==
  ASSUME NEW d, Block(d.lemmas, d.size), NEW used, used \subseteq DOMAIN d.lemmas, NEW h, Sums(d, used, h),
         \A k \in 0..d.size : h[k] \in Nat, NEW o \in used, NEW q \in (o + 1)..d.size
  PROVE  h[o] + Size(d.lemmas[o]) <= h[q]
  <1> DEFINE x == h[o] + Size(d.lemmas[o])
             V == {y \in Nat : x <= y}
  <1>1. d.size \in Nat /\ o \in Nat /\ o < d.size /\ \A p \in used : Size(d.lemmas[p]) \in Nat
    BY LemmaFacts DEF Block
  <1>2. o \in 0..d.size /\ o + 1 \in 1..d.size /\ o + 1 \in Nat /\ (o + 1) - 1 = o
    BY <1>1
  <1>3. h[o + 1] = x /\ x \in Nat
    <2>1. h[o + 1] = x
      BY <1>2, SumsStep
    <2> QED
      BY <1>1, <1>2, <2>1
  <1> HIDE DEF x
  <1>4. h[o + 1] \in V
    BY <1>3
  <1>5. ASSUME NEW k \in ((o + 1) + 1)..q, h[k - 1] \in V PROVE h[k] \in V
    <2>1. k \in 1..d.size
      BY <1>1
    <2>2. h[k] = h[k - 1] \/ (k - 1 \in used /\ h[k] = h[k - 1] + Size(d.lemmas[k - 1]))
      BY <2>1, SumsStep
    <2>3. h[k - 1] \in Nat /\ x <= h[k - 1]
      BY <1>5
    <2>4. CASE h[k] = h[k - 1]
      BY <2>3, <2>4
    <2>5. CASE k - 1 \in used /\ h[k] = h[k - 1] + Size(d.lemmas[k - 1])
      <3>1. Size(d.lemmas[k - 1]) \in Nat
        BY <1>1, <2>5
      <3> QED
        BY <1>3, <2>3, <2>5, <3>1
    <2> QED
      BY <2>2, <2>4, <2>5
  <1>6. q \in Nat /\ q \in (o + 1)..q
    BY <1>1
  <1>7. \A k \in (o + 1)..q : h[k] \in V
    <2> HIDE DEF V
    <2> QED
      BY <1>2, <1>4, <1>5, <1>6, Upwards
  <1> QED
    BY <1>6, <1>7 DEF x

(* and end where the lemmas before them end.                               *)
LEMMA SumsEnd ==
  ASSUME NEW d, Block(d.lemmas, d.size), NEW used, used \subseteq DOMAIN d.lemmas, NEW h, Sums(d, used, h),
         NEW p \in 0..d.size, NEW to, \A o \in Before(used, p) : to[o] = h[o]
  PROVE  End(d, Before(used, p), to) = h[p]
  <1> DEFINE S == Before(used, p)
  <1>1. d.size \in Nat /\ \A o \in used : o \in Nat /\ o < d.size
    BY DEF Block
  <1>2. CASE S = {}
    <2>1. \A o \in used : ~(0 <= o /\ o < p)
      BY <1>2 DEF Before
    <2>2. h[p] = h[0]
      BY <2>1, SumsStay
    <2>3. h[0] = 0
      <3>1. 0 \in 0..d.size
        BY <1>1
      <3> QED
        BY <3>1 DEF Sums
    <2> QED
      BY <1>2, <2>2, <2>3 DEF End
  <1>3. CASE S # {}
    <2> DEFINE o == LastOf(S)
    <2>1. o \in S /\ \A x \in S : x <= o
      <3>1. S \subseteq Nat /\ (\A x \in S : x < p) /\ p \in Nat
        BY <1>1 DEF Before
      <3> HIDE DEF S
      <3> QED
        BY <1>3, <3>1, LastOfIs
    <2>2. End(d, S, to) = to[o] + Size(d.lemmas[o])
      BY <1>3 DEF End
    <2> HIDE DEF o
    <2>3. o \in used /\ o < p /\ o \in Nat /\ to[o] = h[o]
      BY <1>1, <2>1 DEF Before
    <2>4. o + 1 \in 1..d.size /\ o + 1 \in Nat /\ p \in (o + 1)..d.size /\ (o + 1) - 1 = o
      BY <1>1, <2>3
    <2>5. h[o + 1] = h[o] + Size(d.lemmas[o])
      BY <2>3, <2>4, SumsStep
    <2>6. \A x \in used : ~(o + 1 <= x /\ x < p)
      BY <1>1, <2>1, <2>3 DEF Before
    <2>7. h[p] = h[o + 1]
      BY <2>4, <2>6, SumsStay
    <2> QED
      BY <2>2, <2>3, <2>5, <2>7
  <1> QED
    BY <1>2, <1>3

(* So the places to move to can be computed,                               *)
LEMMA MovesExist ==
  ASSUME NEW d, Block(d.lemmas, d.size), NEW used, used \subseteq DOMAIN d.lemmas, NEW h, Sums(d, used, h)
  PROVE  \E to : Moves(d, used, to)
  <1>1. d.size \in Nat /\ \A o \in used : o \in Nat /\ o \in 0..d.size
    BY DEF Block
  <1> DEFINE to == [at \in used |-> h[at]]
  <1>2. ASSUME NEW at \in used PROVE End(d, Before(used, at), to) = h[at]
    <2>1. \A o \in Before(used, at) : to[o] = h[o]
      BY DEF Before
    <2> HIDE DEF to
    <2> QED
      BY <1>1, <2>1, SumsEnd
  <1>3. to = [at \in used |-> End(d, Before(used, at), to)]
    BY <1>2
  <1>4. Moves(d, used, to)
    BY <1>3 DEF Moves
  <1> QED
    BY <1>4

(* and are the sums.                                                       *)
LEMMA MovesAre ==
  ASSUME NEW d, Block(d.lemmas, d.size), NEW used, used \subseteq DOMAIN d.lemmas, NEW h, Sums(d, used, h),
         NEW to, Moves(d, used, to)
  PROVE  \A at \in used : to[at] = h[at]
  <1>0. d.size \in Nat /\ \A o \in used : o \in Nat /\ o \in 0..d.size
    BY DEF Block
  <1> DEFINE S == {at \in used : to[at] # h[at]}
  <1> SUFFICES ASSUME S # {} PROVE FALSE
    OBVIOUS
  <1>1. Least(S) \in S /\ \A k \in S : Least(S) <= k
    <2>1. S \subseteq Nat
      BY <1>0
    <2> HIDE DEF S
    <2> QED
      BY <2>1, LeastNumber
  <1> DEFINE m == Least(S)
  <1> HIDE DEF m
  <1>2. m \in used /\ to[m] # h[m] /\ \A k \in S : m <= k
    BY <1>1 DEF m
  <1>3. \A o \in Before(used, m) : to[o] = h[o]
    <2>1. \A o \in Before(used, m) : o \in used /\ ~(m <= o)
      BY <1>0, <1>2 DEF Before
    <2> QED
      BY <1>2, <2>1
  <1>4. End(d, Before(used, m), to) = h[m]
    BY <1>0, <1>2, <1>3, SumsEnd
  <1>5. to[m] = End(d, Before(used, m), to)
    BY <1>2 DEF Moves
  <1> QED
    BY <1>2, <1>4, <1>5

(* What defragmenting gives, for what is in use and where it goes.         *)
UsedBy(list) == {list[k].at : k \in DOMAIN list}
Packed(d, list, used, to) ==
  [d EXCEPT !.list = [k \in DOMAIN list |-> [list[k] EXCEPT !.at = to[@], !.id = k]],
            !.lemmas = [o \in {to[at] : at \in used} |-> d.lemmas[CHOOSE at \in used : to[at] = o]],
            !.size = End(d, used, to), !.sizeLeft = @ + d.size - End(d, used, to),
            !.byId = [k \in DOMAIN list |-> to[list[k].at]],
            !.syncs = [k \in DOMAIN @ |-> IF @[k] \in used THEN to[@[k]] ELSE @[k]],
            !.state = DEFRAGMENTED]

LEMMA DefragmentedIs ==
  ASSUME NEW d, Good(d)
  PROVE  \/ Defragmented(d) = d
         \/ \E list, used, to : /\ Kept(d, Len(d.list), list) /\ used = UsedBy(list)
                                /\ used \subseteq DOMAIN d.lemmas /\ Moves(d, used, to)
                                /\ Defragmented(d) = Packed(d, list, used, to)
  <1> DEFINE n == Len(d.list)
             InUseOf(f) == f = [k \in 0..n |-> IF k = 0 THEN <<>>
                                 ELSE IF d.list[k].gone THEN f[k - 1] ELSE Append(f[k - 1], d.list[k])]
             inUse == CHOOSE f : InUseOf(f)
             list == inUse[n]
             used == {list[k].at : k \in DOMAIN list}
             to == CHOOSE t : Moves(d, used, t)
  <1>1. Kept(d, n, list)
    <2>1. (\E f : InUseOf(f)) /\ \A f : InUseOf(f) => Kept(d, n, f[n])
      BY KeptExists
    <2> HIDE DEF InUseOf, n
    <2> QED
      BY <2>1
  <1>2. Defragmented(d) = IF used = DOMAIN d.lemmas THEN d ELSE Packed(d, list, used, to)
    BY DEF Defragmented, Packed, Moves, End, Before, LastOf
  <1> HIDE DEF list, n
  <1>3. used \subseteq DOMAIN d.lemmas
    <2>1. n \in Nat /\ DOMAIN d.list = 1..n
      BY PlaceFacts DEF Good, n
    <2>2. ASSUME NEW k \in DOMAIN list PROVE list[k].at \in DOMAIN d.lemmas
      <3>1. PICK i \in 1..n : list[k] = d.list[i]
        BY <1>1 DEF Kept
      <3> QED
        BY <2>1, <3>1 DEF Good, Linked
    <2> QED
      BY <2>2
  <1> HIDE DEF used
  <1>4. Moves(d, used, to)
    <2>0. Block(d.lemmas, d.size)
      BY DEF Good, IsDict
    <2>1. PICK h : Sums(d, used, h)
      BY <1>3, <2>0, SumsExist
    <2>2. \E t : Moves(d, used, t)
      BY <1>3, <2>0, <2>1, MovesExist
    <2> QED
      BY <2>2
  <1> HIDE DEF to
  <1>5. used = UsedBy(list)
    BY DEF used, UsedBy
  <1> QED
    BY <1>1, <1>2, <1>3, <1>4, <1>5 DEF n

PackedTo(d, list, used, to, e) ==
  /\ DOMAIN e = Fields /\ e.state = DEFRAGMENTED /\ e.size = End(d, used, to)
  /\ e.list = [k \in DOMAIN list |-> [list[k] EXCEPT !.at = to[@], !.id = k]]
  /\ e.lemmas = [o \in {to[at] : at \in used} |-> d.lemmas[CHOOSE at \in used : to[at] = o]]
  /\ e.sizeLeft = d.sizeLeft + d.size - End(d, used, to)
  /\ e.byId = [k \in DOMAIN list |-> to[list[k].at]]
  /\ e.syncs = [k \in DOMAIN d.syncs |-> IF d.syncs[k] \in used THEN to[d.syncs[k]] ELSE d.syncs[k]]
  /\ e.countLeft = d.countLeft /\ e.limit = d.limit /\ e.ratio = d.ratio /\ e.fresh = d.fresh
  /\ e.cache = d.cache /\ e.misses = d.misses

LEMMA PackedIs ==
  ASSUME NEW d, DOMAIN d = Fields, NEW list, NEW used, NEW to
  PROVE  PackedTo(d, list, used, to, Packed(d, list, used, to))
  BY DEF Packed, PackedTo, Fields

(* What defragment() makes is good, of an object without caches.           *)
LEMMA PackedKeepsGood ==
  ASSUME NEW d, Good(d), Bare(d), NEW list, Kept(d, Len(d.list), list), NEW used,
         \A k \in DOMAIN list : list[k].at \in used, used \subseteq DOMAIN d.lemmas,
         NEW to, Moves(d, used, to)
  PROVE  LET e == Packed(d, list, used, to)
         IN  Good(e) /\ Bare(e) /\ e.state = DEFRAGMENTED
  <1> DEFINE e == Packed(d, list, used, to)
  <1>0. IsDict(d) /\ Block(d.lemmas, d.size) /\ DOMAIN d = Fields /\ d.size \in Nat
    BY DEF Good, IsDict, Block
  <1>1. PICK h : Sums(d, used, h) /\ \A k \in 0..d.size : h[k] \in Nat
    BY <1>0, SumsExist
  <1>2. \A at \in used : to[at] = h[at]
    <2>1. Block(d.lemmas, d.size) /\ used \subseteq DOMAIN d.lemmas /\ Sums(d, used, h) /\ Moves(d, used, to)
      BY <1>0, <1>1
    <2> HIDE DEF e
    <2> QED
      BY ONLY <2>1, MovesAre
  <1>3. \A o \in used : o \in Nat /\ o < d.size /\ o \in 0..d.size /\ Size(d.lemmas[o]) \in Nat \ {0} /\ d.lemmas[o] \in Lemmas
    <2>1. \A o \in used : o \in Nat /\ o < d.size /\ d.lemmas[o] \in Lemmas
      BY <1>0 DEF Block
    <2>2. \A o \in used : Size(d.lemmas[o]) \in Nat \ {0}
      BY <2>1, LemmaFacts
    <2>3. \A o \in used : o \in 0..d.size
      BY <1>0, <2>1
    <2> QED
      BY <2>1, <2>2, <2>3
  <1>4. \A o \in used : to[o] \in Nat
    BY <1>1, <1>2, <1>3
  <1>5. ASSUME NEW o \in used, NEW q \in 0..d.size, o < q PROVE to[o] < h[q]
    <2>1. q \in (o + 1)..d.size
      BY <1>0, <1>3, <1>5
    <2>2. h[o] + Size(d.lemmas[o]) <= h[q]
      BY <1>0, <1>1, <2>1, SumsGrow
    <2>3. h[o] \in Nat /\ h[q] \in Nat /\ Size(d.lemmas[o]) \in Nat \ {0}
      BY <1>1, <1>3
    <2> QED
      BY <1>2, <2>2, <2>3
  <1>6. End(d, used, to) = h[d.size]
    <2>1. Before(used, d.size) = used
      BY <1>3 DEF Before
    <2>2. d.size \in 0..d.size
      BY <1>0
    <2> QED
      BY <1>0, <1>1, <1>2, <2>1, <2>2, SumsEnd
  <1>7. End(d, used, to) \in Nat /\ \A o \in used : to[o] < End(d, used, to)
    <2>1. d.size \in 0..d.size
      BY <1>0
    <2> QED
      BY <1>1, <1>3, <1>5, <1>6, <2>1
  <1>8. \A o, p \in used : to[o] = to[p] => o = p
    <2>1. ASSUME NEW o \in used, NEW p \in used, o < p PROVE to[o] # to[p]
      BY <1>1, <1>2, <1>3, <1>4, <1>5, <2>1
    <2> QED
      BY <1>3, <2>1
  <1>9. \A o \in used : (CHOOSE at \in used : to[at] = to[o]) = o
    BY <1>8
  <1>10. /\ list \in Seq(Entry) /\ DOMAIN list = 1..Len(list) /\ Len(list) \in Nat
         /\ \A k \in DOMAIN list : list[k] \in Entry /\ list[k].at \in used
    <2>1. list \in Seq(Entry)
      BY DEF Kept
    <2> QED
      BY <2>1, LenProperties, ElementOfSeq
  <1> DEFINE n == Len(list)
  <1>p. PackedTo(d, list, used, to, e)
    BY <1>0, PackedIs
  <1> HIDE DEF e
  <1>11. /\ DOMAIN e = Fields /\ e.state = DEFRAGMENTED /\ e.size = End(d, used, to)
         /\ e.sizeLeft = d.sizeLeft + d.size - End(d, used, to)
         /\ e.countLeft = d.countLeft /\ e.limit = d.limit /\ e.ratio = d.ratio /\ e.fresh = d.fresh
         /\ e.cache = d.cache /\ e.misses = d.misses
    BY <1>p DEF PackedTo
  <1>l. e.list = [k \in DOMAIN list |-> [list[k] EXCEPT !.at = to[@], !.id = k]]
    BY <1>p DEF PackedTo
  <1>m. e.lemmas = [o \in {to[at] : at \in used} |-> d.lemmas[CHOOSE at \in used : to[at] = o]]
    BY <1>p DEF PackedTo
  <1>b. e.byId = [k \in DOMAIN list |-> to[list[k].at]]
    BY <1>p DEF PackedTo
  <1>s. e.syncs = [k \in DOMAIN d.syncs |-> IF d.syncs[k] \in used THEN to[d.syncs[k]] ELSE d.syncs[k]]
    BY <1>p DEF PackedTo
  <1>12. /\ e.list \in [1..n -> Entry]
         /\ \A k \in 1..n : e.list[k].at = to[list[k].at] /\ e.list[k].id = k
    <2>1. ASSUME NEW k \in 1..n
          PROVE  /\ e.list[k] \in Entry /\ e.list[k].at = to[list[k].at] /\ e.list[k].id = k
      <3> DEFINE x == list[k]
      <3>1. x \in Entry /\ to[x.at] \in Nat /\ k \in Nat
        BY <1>4, <1>10
      <3>2. e.list[k] = [x EXCEPT !.at = to[@], !.id = k]
        BY <1>10, <1>l
      <3> DEFINE a == to[x.at]
                 y == [x EXCEPT !.at = a, !.id = k]
      <3>3. e.list[k] = y /\ a \in Nat
        BY <3>1, <3>2
      <3> HIDE DEF x, a
      <3>4. y \in Entry /\ y.at = a /\ y.id = k
        BY <3>1, <3>3 DEF Entry
      <3> HIDE DEF y
      <3>5. e.list[k] \in Entry
        BY <3>3, <3>4
      <3>6. e.list[k].at = to[x.at] /\ e.list[k].id = k
        BY <3>3, <3>4 DEF a
      <3> QED
        BY <3>5, <3>6 DEF x
    <2>2. DOMAIN e.list = 1..n /\ e.list = [k \in 1..n |-> e.list[k]]
      BY <1>10, <1>l
    <2> QED
      BY <2>1, <2>2
  <1>13. e.list \in Seq(Entry) /\ Len(e.list) = n /\ DOMAIN e.list = 1..n
    <2>1. e.list \in Seq(Entry)
      BY <1>10, <1>12, SeqDef
    <2>2. DOMAIN e.list = 1..Len(e.list) /\ Len(e.list) \in Nat
      BY <2>1, LenProperties
    <2>3. DOMAIN e.list = 1..n
      BY <1>12
    <2>4. \A m \in Nat : 1..m = 1..n => m = n
      <3>1. n \in Nat
        BY <1>10
      <3> HIDE DEF n
      <3> QED
        BY <3>1
    <2> QED
      BY <2>1, <2>2, <2>3, <2>4
  <1>14. e.byId \in Seq(Nat) /\ Len(e.byId) = n /\ DOMAIN e.byId = 1..n /\ \A k \in 1..n : e.byId[k] = to[list[k].at]
    <2>1. e.byId \in [1..n -> Nat] /\ \A k \in 1..n : e.byId[k] = to[list[k].at]
      BY <1>4, <1>10, <1>b
    <2>2. e.byId \in Seq(Nat)
      BY <1>10, <2>1, SeqDef
    <2>3. DOMAIN e.byId = 1..Len(e.byId) /\ Len(e.byId) \in Nat /\ DOMAIN e.byId = 1..n
      BY <2>1, <2>2, LenProperties
    <2>4. \A m \in Nat : 1..m = 1..n => m = n
      <3>1. n \in Nat
        BY <1>10
      <3> HIDE DEF n
      <3> QED
        BY <3>1
    <2> QED
      BY <2>1, <2>2, <2>3, <2>4
  <1>15. e.syncs \in Seq(Nat)
    <2>1. d.syncs \in Seq(Nat)
      BY <1>0 DEF IsDict
    <2>2. DOMAIN d.syncs = 1..Len(d.syncs) /\ Len(d.syncs) \in Nat /\ \A k \in DOMAIN d.syncs : d.syncs[k] \in Nat
      BY <2>1, LenProperties, ElementOfSeq
    <2>3. e.syncs \in [1..Len(d.syncs) -> Nat]
      BY <1>4, <1>s, <2>2
    <2> QED
      BY <2>2, <2>3, SeqDef
  <1>16. DOMAIN e.lemmas = {to[at] : at \in used} /\ \A o \in used : e.lemmas[to[o]] = d.lemmas[o]
    <2>1. DOMAIN e.lemmas = {to[at] : at \in used}
      BY <1>m
    <2>2. ASSUME NEW o \in used PROVE e.lemmas[to[o]] = d.lemmas[o]
      <3>1. to[o] \in {to[at] : at \in used}
        OBVIOUS
      <3>2. e.lemmas[to[o]] = d.lemmas[CHOOSE at \in used : to[at] = to[o]]
        BY <1>m, <3>1
      <3> QED
        BY <1>9, <3>2
    <2> QED
      BY <2>1, <2>2
  <1>17. Block(e.lemmas, e.size)
    <2>1. ASSUME NEW o \in DOMAIN e.lemmas PROVE o \in Nat /\ o < e.size /\ e.lemmas[o] \in Lemmas
      <3>1. PICK at \in used : o = to[at]
        BY <1>16
      <3> QED
        BY <1>3, <1>4, <1>7, <1>11, <1>16, <3>1
    <2>2. e.lemmas = [o \in DOMAIN e.lemmas |-> e.lemmas[o]]
      BY <1>m
    <2>3. e.lemmas \in [DOMAIN e.lemmas -> Lemmas]
      BY <2>1, <2>2
    <2> QED
      BY <1>7, <1>11, <2>1, <2>3 DEF Block
  <1>18. IsDict(e)
    <2>1. d.sizeLeft \in Int /\ d.countLeft \in Int /\ d.limit \in Nat /\ d.ratio \in 0..99 /\ d.fresh \in BOOLEAN
      BY <1>0 DEF IsDict
    <2>2. e.sizeLeft \in Int
      BY <1>0, <1>7, <1>11, <2>1
    <2>3. e.state \in NONE..DEFRAGMENTED
      BY <1>11, StatesAre DEF States
    <2>4. e.fresh \in BOOLEAN
      BY <1>11, <2>1
    <2> QED
      BY <1>11, <1>13, <1>14, <1>15, <1>17, <2>1, <2>2, <2>3, <2>4 DEF IsDict
  <1>19. \A k \in 1..n : LemmaAt(e, k) = d.lemmas[list[k].at]
    BY <1>10, <1>12, <1>16 DEF LemmaAt
  <1>20. Linked(e)
    BY <1>10, <1>12, <1>13, <1>14, <1>16 DEF Linked
  <1>21. Sorted(e)
    <2>1. ASSUME NEW i \in 1..n, NEW j \in 1..n, i < j PROVE ~FuzzyBefore(Key(e, j), Key(e, i))
      <3>1. ~FuzzyBefore(EntryKey(d, list[j]), EntryKey(d, list[i]))
        BY <1>10, <2>1 DEF Kept
      <3> QED
        BY <1>19, <3>1 DEF Key, EntryKey
    <2> QED
      BY <1>13, <2>1 DEF Sorted
  <1>22. Bare(e)
    BY <1>11 DEF Bare
  <1>23. RangesHold(e) /\ MissesHold(e)
    BY <1>22, NoCacheHolds DEF Bare
  <1> QED
    BY <1>11, <1>18, <1>20, <1>21, <1>22, <1>23 DEF Good, e

(* So defragment() keeps the invariant of Sync's object.                   *)
LEMMA DefragmentedKeeps ==
  ASSUME NEW d, Good(d), Bare(d)
  PROVE  LET e == Defragmented(d)
         IN  Good(e) /\ Bare(e) /\ e.fresh = d.fresh /\ \A f : Stands(d, f) => Stands(e, f)
  <1> DEFINE e == Defragmented(d)
  <1>1. CASE e = d
    BY <1>1
  <1>2. CASE e # d
    <2>1. PICK list, used, to :
            /\ Kept(d, Len(d.list), list) /\ used = UsedBy(list)
            /\ used \subseteq DOMAIN d.lemmas /\ Moves(d, used, to)
            /\ e = Packed(d, list, used, to)
      BY <1>2, DefragmentedIs
    <2> HIDE DEF e
    <2>a. \A k \in DOMAIN list : list[k].at \in used
      BY <2>1 DEF UsedBy
    <2>2. Good(e) /\ Bare(e) /\ e.state = DEFRAGMENTED
      BY <2>1, <2>a, PackedKeepsGood
    <2>3. e.fresh = d.fresh
      <3>1. DOMAIN d = Fields
        BY DEF Good, IsDict
      <3>2. PackedTo(d, list, used, to, e)
        BY <2>1, <3>1, PackedIs
      <3> QED
        BY <3>2 DEF PackedTo
    <2>4. \A f : Stands(e, f)
      BY <2>2, StatesAre DEF Stands, Matches, States
    <2> QED
      BY <2>2, <2>3, <2>4 DEF e
  <1> QED
    BY <1>1, <1>2

(***************************************************************************)
(* Looking for a lemma to change.                                          *)
(***************************************************************************)
LocateIn(d, l, sig, isHit, first, last) ==
  {k \in InUse(d) : /\ k \in first..last /\ Begins(LemmaAt(d, k), l)
                    /\ \A j \in InUse(d) : j \in first..k => isHit \/ IsPrefix(sig, Initials(LemmaAt(d, j).spl))}

(* _locate_lemma() takes the first that fits in its range.                 *)
LEMMA LocateChooses ==
  ASSUME NEW d, Good(d), NEW l
  PROVE  LET sig   == Initials(l.spl)
             isHit == Cached(d, sig) # {}
             hit   == CachedRange(d, sig)
             first == IF isHit THEN hit.start ELSE LocateFirst(d, sig)
             last  == IF isHit THEN hit.start + hit.count - 1 ELSE Len(d.list)
             ks    == LocateIn(d, l, sig, isHit, first, last)
         IN  /\ Locate(d, l) = IF first = 0 \/ ks = {} THEN 0 ELSE Least(ks)
             /\ ks # {} => Least(ks) \in ks
  <1> DEFINE sig == Initials(l.spl)
             isHit == Cached(d, sig) # {}
             hit == CachedRange(d, sig)
             first == IF isHit THEN hit.start ELSE LocateFirst(d, sig)
             last == IF isHit THEN hit.start + hit.count - 1 ELSE Len(d.list)
             ks == LocateIn(d, l, sig, isHit, first, last)
  <1>1. Locate(d, l) = IF first = 0 \/ ks = {} THEN 0 ELSE Least(ks)
    BY DEF Locate, LocateIn
  <1>2. ks # {} => Least(ks) \in ks
    <2>1. ks \subseteq Nat
      <3>1. InUse(d) \subseteq Nat
        BY PlaceFacts, InUseIs DEF Good
      <3> QED
        BY <3>1 DEF LocateIn
    <2> HIDE DEF ks
    <2> QED
      BY <2>1, LeastNumber
  <1> QED
    BY <1>1, <1>2

(* What it finds is in use and begins the lemma.                           *)
LEMMA LocateIs ==
  ASSUME NEW d, Good(d), NEW l, Locate(d, l) # 0
  PROVE  Locate(d, l) \in InUse(d) /\ Locate(d, l) \in DOMAIN d.list /\ Begins(LemmaAt(d, Locate(d, l)), l)
  <1>1. \E sig, isHit, first, last : Locate(d, l) \in LocateIn(d, l, sig, isHit, first, last)
    BY LocateChooses
  <1> QED
    BY <1>1, InUseIs DEF LocateIn

LEMMA BeginsItself == ASSUME NEW l \in Lemmas PROVE Begins(l, l)
  <1>1. Len(l.spl) \in Nat /\ Len(l.word) = Len(l.spl)
    BY LemmaFacts, LemmasAssumption
  <1> QED
    BY <1>1 DEF Begins, IsPrefix

(* A lemma that is there is not missed.                                    *)
LEMMA LocateFindsCopy ==
  ASSUME NEW d, Good(d), NEW l \in Lemmas, Copies(d, l) # {}
  PROVE  Locate(d, l) # 0
  <1> DEFINE sig == Initials(l.spl)
             isHit == Cached(d, sig) # {}
             hit == CachedRange(d, sig)
             first == IF isHit THEN hit.start ELSE LocateFirst(d, sig)
             last == IF isHit THEN hit.start + hit.count - 1 ELSE Len(d.list)
             ks == LocateIn(d, l, sig, isHit, first, last)
  <1>1. PICK c \in InUse(d) : LemmaAt(d, c) = l
    BY DEF Copies
  <1>2. c \in DOMAIN d.list /\ Key(d, c) = sig /\ Begins(LemmaAt(d, c), l) /\ InUse(d) \subseteq DOMAIN d.list
    BY <1>1, InUseIs, BeginsItself DEF Key
  <1>3. Len(d.list) \in Nat /\ DOMAIN d.list = 1..Len(d.list)
    BY PlaceFacts DEF Good
  <1>4. Locate(d, l) = (IF first = 0 \/ ks = {} THEN 0 ELSE Least(ks)) /\ (ks # {} => Least(ks) \in ks)
    BY LocateChooses
  <1>5. CASE isHit
    <2> DEFINE m == Least(Cached(d, sig))
    <2>1. Len(sig) \in Lengths
      BY LemmaFacts
    <2>2. m \in Cached(d, sig)
      <3>1. Cached(d, sig) \subseteq Nat
        BY <2>1, LenProperties DEF Cached, Good, RangesHold
      <3> QED
        BY <1>5, <3>1, LeastNumber
    <2>3. /\ hit = d.cache[Len(sig)][m] /\ m \in DOMAIN d.cache[Len(sig)]
          /\ d.cache[Len(sig)][m].sig = sig
      BY <2>2 DEF Cached, CachedRange
    <2> HIDE DEF m, hit, sig, ks
    <2>4. hit.start \in Nat \ {0} /\ c \in hit.start..(hit.start + hit.count - 1)
      BY <1>1, <1>2, <2>1, <2>3 DEF Good, RangesHold
    <2>5. c \in ks /\ first # 0
      BY <1>1, <1>2, <1>5, <2>4 DEF LocateIn, ks
    <2>6. Least(ks) \in Nat \ {0}
      BY <1>2, <1>3, <1>4, <2>5 DEF ks, LocateIn
    <2> QED
      BY <1>4, <2>5, <2>6
  <1>6. CASE ~isHit
    <2>1. /\ first \in DOMAIN d.list /\ first <= c
          /\ \A j \in DOMAIN d.list : first <= j /\ j <= c => Key(d, j) = sig
      <3> HIDE DEF sig
      <3> QED
        BY <1>2, <1>6, LocateFinds DEF Good
    <2>2. IsPrefix(sig, sig)
      BY LemmaFacts DEF IsPrefix
    <2>3. last = Len(d.list)
      BY <1>6
    <2> HIDE DEF first, last, sig, isHit
    <2>4. c \in ks
      <3>1. c \in first..last
        BY <1>2, <1>3, <2>1, <2>3
      <3>2. ASSUME NEW j \in InUse(d), j \in first..c PROVE IsPrefix(sig, Initials(LemmaAt(d, j).spl))
        <4>1. j \in DOMAIN d.list /\ first <= j /\ j <= c
          BY <1>2, <1>3, <2>1, <3>2
        <4> QED
          BY <2>1, <2>2, <4>1 DEF Key
      <3> QED
        BY <1>1, <1>2, <3>1, <3>2 DEF LocateIn
    <2>5. first # 0 /\ ks # {}
      BY <1>3, <2>1, <2>4
    <2>6. Least(ks) \in Nat \ {0}
      BY <1>2, <1>3, <1>4, <2>5 DEF LocateIn
    <2> QED
      BY <1>4, <2>5, <2>6
  <1> QED
    BY <1>5, <1>6

(***************************************************************************)
(* How many copies of a lemma there are.                                   *)
(***************************************************************************)
LEMMA CopiesFinite == ASSUME NEW d, Good(d), NEW o PROVE IsFiniteSet(Copies(d, o))
  <1>1. Len(d.list) \in Int /\ 1 \in Int /\ Copies(d, o) \in SUBSET (1..Len(d.list))
    BY PlaceFacts, InUseIs DEF Good, Copies
  <1>2. IsFiniteSet(1..Len(d.list))
    BY <1>1, FS_Interval
  <1> QED
    BY <1>1, <1>2, FS_Subset

(* What only moves is as many as before.                                   *)
LEMMA MovedAsMany ==
  ASSUME NEW S, IsFiniteSet(S), NEW n \in Nat, S \subseteq 1..n, NEW p \in 1..(n + 1),
         NEW T, T = {Moved(p, k) : k \in S}
  PROVE  Cardinality(T) = Cardinality(S)
  <1> DEFINE f == [k \in S |-> Moved(p, k)]
  <1>1. \A j, k \in S : Moved(p, j) = Moved(p, k) => j = k
    <2>1. \A j, k \in 1..n : Moved(p, j) = Moved(p, k) => j = k
      BY MovedIs
    <2> QED
      BY <2>1
  <1>2. f \in Bijection(S, T)
    <2>1. f \in [S -> T] /\ \A t \in T : \E k \in S : f[k] = t
      OBVIOUS
    <2>2. \A j, k \in S : f[j] = f[k] => j = k
      BY <1>1
    <2> HIDE DEF f
    <2> QED
      BY <2>1, <2>2 DEF Bijection, Injection, Surjection, IsInjective
  <1>3. ExistsBijection(S, T)
    <2> HIDE DEF f
    <2> QED
      BY <1>2 DEF ExistsBijection
  <1> QED
    BY <1>3, FS_Bijection

(* Adding a lemma adds one copy, of that lemma only.                       *)
LEMMA AddsCopies ==
  ASSUME NEW d, Good(d), NEW l \in Lemmas, NEW count \in Nat, NEW e, AddsAt(d, l, count, PlaceOf(d, l), e)
  PROVE  /\ \A o \in Lemmas \ {l} : Cardinality(Copies(e, o)) = Cardinality(Copies(d, o))
         /\ Copies(d, l) = {} => Cardinality(Copies(e, l)) = 1
  <1> DEFINE p == PlaceOf(d, l)
             n == Len(d.list)
  <1>1. p \in 1..(n + 1) /\ n \in Nat /\ DOMAIN d.list = 1..n
    BY PlaceOfIs, PlaceFacts DEF Good
  <1>2. /\ DOMAIN e.list = 1..(n + 1) /\ e.list[p].gone = FALSE /\ LemmaAt(e, p) = l
        /\ \A k \in DOMAIN d.list : e.list[Moved(p, k)] = d.list[k] /\ LemmaAt(e, Moved(p, k)) = LemmaAt(d, k)
    <2> HIDE DEF p
    <2>1. /\ DOMAIN e.list = 1..(n + 1)
          /\ e.list[p] = [at |-> d.size, gone |-> FALSE, score |-> count, id |-> n + 1] /\ LemmaAt(e, p) = l
          /\ \A k \in DOMAIN d.list : e.list[Moved(p, k)] = d.list[k] /\ LemmaAt(e, Moved(p, k)) = LemmaAt(d, k)
      BY <1>1, AddsToList DEF p
    <2> QED
      BY <2>1
  <1> HIDE DEF p, n
  <1>3. /\ \A k \in 1..n : Moved(p, k) \in 1..(n + 1) /\ Moved(p, k) # p
        /\ \A m \in 1..(n + 1) : m # p => \E k \in 1..n : m = Moved(p, k)
    BY <1>1, MovedIs
  <1>4. ASSUME NEW o PROVE Copies(e, o) \ {p} = {Moved(p, k) : k \in Copies(d, o)}
    <2>1. ASSUME NEW m \in Copies(e, o), m # p PROVE \E k \in Copies(d, o) : m = Moved(p, k)
      <3>1. m \in 1..(n + 1) /\ ~e.list[m].gone /\ LemmaAt(e, m) = o
        BY <1>2, <2>1 DEF Copies, InUse
      <3>2. PICK k \in 1..n : m = Moved(p, k)
        BY <1>3, <2>1, <3>1
      <3>3. k \in Copies(d, o)
        BY <1>1, <1>2, <3>1, <3>2 DEF Copies, InUse
      <3> QED
        BY <3>2, <3>3
    <2>2. ASSUME NEW k \in Copies(d, o) PROVE Moved(p, k) \in Copies(e, o) /\ Moved(p, k) # p
      <3>1. k \in 1..n /\ ~d.list[k].gone /\ LemmaAt(d, k) = o
        BY <1>1 DEF Copies, InUse
      <3> QED
        BY <1>1, <1>2, <1>3, <3>1 DEF Copies, InUse
    <2> QED
      BY <2>1, <2>2
  <1>5. p \in InUse(e)
    BY <1>1, <1>2 DEF InUse
  <1>6. ASSUME NEW o \in Lemmas \ {l} PROVE Cardinality(Copies(e, o)) = Cardinality(Copies(d, o))
    <2>1. p \notin Copies(e, o)
      BY <1>2 DEF Copies
    <2>2. Copies(e, o) = {Moved(p, k) : k \in Copies(d, o)}
      BY <1>4, <2>1
    <2>3. IsFiniteSet(Copies(d, o)) /\ Copies(d, o) \subseteq 1..n
      BY <1>1, CopiesFinite, InUseIs DEF Copies
    <2> QED
      BY <1>1, <2>2, <2>3, MovedAsMany
  <1>7. ASSUME Copies(d, l) = {} PROVE Cardinality(Copies(e, l)) = 1
    <2>1. Copies(e, l) \ {p} = {}
      BY <1>4, <1>7
    <2>2. p \in Copies(e, l)
      BY <1>2, <1>5 DEF Copies
    <2>3. Copies(e, l) = {p}
      BY <2>1, <2>2
    <2> QED
      BY <2>3, FS_Singleton
  <1> QED
    BY <1>6, <1>7

(* Copies are seen by the list and the block alone.                        *)
LEMMA SameCopies ==
  ASSUME NEW d, NEW e, InUse(e) = InUse(d), \A k \in InUse(d) : LemmaAt(e, k) = LemmaAt(d, k)
  PROVE  \A o : Copies(e, o) = Copies(d, o)
  BY DEF Copies

(***************************************************************************)
(* What the actions do to the objects and the file.                        *)
(***************************************************************************)
LEMMA Update ==
  ASSUME NEW w, Holds(w), NEW i \in Dicts, NEW e, Good(e), Stands(e, w.file), i = Syncing => Bare(e)
  PROVE  LET v == [w EXCEPT !.dicts[i] = e] IN
         /\ Holds(v) /\ v.file = w.file /\ v.dicts[i] = e
         /\ \A j \in Dicts \ {i} : v.dicts[j] = w.dicts[j]
  <1> DEFINE v == [w EXCEPT !.dicts[i] = e]
  <1>1. DOMAIN w = {"dicts", "file"} /\ DOMAIN w.dicts = Dicts
    BY DEF Holds
  <1>2. /\ DOMAIN v = {"dicts", "file"} /\ v.file = w.file /\ DOMAIN v.dicts = Dicts /\ v.dicts[i] = e
        /\ \A j \in Dicts \ {i} : v.dicts[j] = w.dicts[j]
    BY <1>1
  <1> HIDE DEF v
  <1>3. Bare(v.dicts[Syncing])
    BY <1>2 DEF Holds, Dicts
  <1>4. Holds(v)
    BY <1>2, <1>3 DEF Holds
  <1> QED
    BY <1>2, <1>4 DEF v

(* A change of one object keeps the invariant.                             *)
LEMMA UpdateChanged ==
  ASSUME NEW w, Holds(w), NEW i \in Dicts, NEW e, Changed(w.dicts[i], e)
  PROVE  LET v == [w EXCEPT !.dicts[i] = e] IN
         /\ Holds(v) /\ v.file = w.file /\ v.dicts[i] = e
         /\ \A j \in Dicts \ {i} : v.dicts[j] = w.dicts[j]
  <1>1. Good(w.dicts[i]) /\ Stands(w.dicts[i], w.file) /\ (i = Syncing => Bare(w.dicts[i]))
    BY DEF Holds
  <1>2. Good(e) /\ Stands(e, w.file)
    BY <1>1, ChangeKeepsGood, ChangeStands
  <1>3. i = Syncing => Bare(e)
    BY <1>1 DEF Bare, Changed
  <1> QED
    BY <1>2, <1>3, Update

(* So does _put_lemma() of a new lemma, whether it must flush or not.      *)
LEMMA AddedKeeps ==
  ASSUME NEW w, Holds(w), NEW i \in Dicts, NEW l \in Lemmas, NEW count \in Nat, NEW syncs \in Seq(Nat)
  PROVE  LET d == w.dicts[i]
             u == IF NoRoom(d, l) THEN Flush(w, i, syncs) ELSE w
             v == Added(w, i, l, count, syncs) IN
         /\ Holds(v) /\ v.dicts[i] = Appended(u.dicts[i], l, count) /\ Good(u.dicts[i])
         /\ AddsAt(u.dicts[i], l, count, PlaceOf(u.dicts[i], l), v.dicts[i])
         /\ v.dicts[i].state >= SYNC_DIRTY
  <1> DEFINE d == w.dicts[i]
             u == IF NoRoom(d, l) THEN Flush(w, i, syncs) ELSE w
             b == u.dicts[i]
             e == Appended(b, l, count)
             v == Added(w, i, l, count, syncs)
  <1>1. Holds(u)
    BY FlushKeeps
  <1>2. v = [u EXCEPT !.dicts[i] = e]
    BY DEF Added
  <1> HIDE DEF u, v
  <1>3. Good(b) /\ Stands(b, u.file) /\ DOMAIN b = Fields
    BY <1>1 DEF Holds, Good, IsDict
  <1>4. AddsAt(b, l, count, PlaceOf(b, l), e)
    BY <1>3, AppendedAdds
  <1> HIDE DEF e, b
  <1>5. Good(e) /\ Stands(e, u.file)
    BY <1>3, <1>4, AddsKeepsGood, AddsStands
  <1>6. Bare(e)
    BY <1>4 DEF AddsAt, Bare
  <1>7. Holds(v) /\ v.dicts[i] = e
    BY <1>1, <1>2, <1>5, <1>6, Update
  <1>8. e.state >= SYNC_DIRTY
    <2>1. b.state \in NONE..DEFRAGMENTED /\ e.state = AtLeast(b.state, LEMMA_DIRTY)
      BY <1>3, <1>4 DEF Good, IsDict, AddsAt
    <2>2. LEMMA_DIRTY \in SYNC..LEMMA_DIRTY
      BY StatesAre DEF States
    <2>3. LEMMA_DIRTY <= AtLeast(b.state, LEMMA_DIRTY) /\ AtLeast(b.state, LEMMA_DIRTY) \in NONE..DEFRAGMENTED
      BY <2>1, <2>2, AtLeastIs
    <2> QED
      BY <2>1, <2>3, StatesAre DEF States
  <1> QED
    BY <1>3, <1>4, <1>7, <1>8 DEF u, v, b, e

(***************************************************************************)
(* The invariant, action by action.                                        *)
(***************************************************************************)
IInv == Holds(World) /\ got \in Nat

LEMMA BecomesKeeps ==
  ASSUME NEW v, Holds(v), Becomes(v)
  PROVE  Holds(World)'
  BY DEF Holds, Becomes, World

(* What the invariant says of the variables.                               *)
LEMMA WorldIs ==
  ASSUME Holds(World), NEW i \in Dicts
  PROVE  /\ World.dicts = dicts /\ World.file = file /\ World.dicts[i] = dicts[i] /\ Good(dicts[i])
         /\ dicts[i].syncs \in Seq(Nat) /\ Len(dicts[i].syncs) \in Nat /\ DOMAIN dicts = Dicts
         /\ DOMAIN dicts[i] = Fields
  <1>1. World.dicts = dicts /\ World.file = file
    BY DEF World
  <1>2. Good(dicts[i]) /\ DOMAIN dicts = Dicts
    BY <1>1 DEF Holds
  <1> QED
    BY <1>1, <1>2, LenProperties DEF Good, IsDict

LEMMA DictsAre == Ime \in Dicts /\ Syncing \in Dicts /\ Ime # Syncing
  BY DEF Ime, Syncing, Dicts

LEMMA OpensKeep == ASSUME Holds(World), ImeOpens PROVE Holds(World)'
  <1>1. Holds(Load(World, Ime))
    BY LoadKeeps, DictsAre
  <1> QED
    BY <1>1, BecomesKeeps DEF ImeOpens

LEMMA LooksKeeps == ASSUME Holds(World), NEW q \in Queries, Looks(q) PROVE Holds(World)'
  <1> DEFINE w == IF dicts[Ime].fresh THEN World ELSE Flush(World, Ime, dicts[Ime].syncs)
             e == AfterLookup(w.dicts[Ime], Signature(q))
             v == [w EXCEPT !.dicts[Ime] = e]
  <1>1. Becomes(v)
    BY DEF Looks
  <1>2. Holds(w)
    <2>1. dicts[Ime].syncs \in Seq(Nat)
      BY WorldIs, DictsAre
    <2>2. Holds(Flush(World, Ime, dicts[Ime].syncs))
      BY <2>1, FlushKeeps, DictsAre
    <2> QED
      BY <2>2
  <1> HIDE DEF w
  <1>3. Good(e) /\ Stands(e, w.file)
    <2>1. Good(w.dicts[Ime]) /\ Stands(w.dicts[Ime], w.file)
      BY <1>2, DictsAre DEF Holds
    <2>2. Len(Signature(q)) \in Lengths
      BY QueryFacts
    <2> QED
      BY <2>1, <2>2, LookupKeeps
  <1> HIDE DEF e
  <1>4. Holds(v)
    BY <1>2, <1>3, Update, DictsAre
  <1> HIDE DEF v
  <1> QED
    BY <1>1, <1>4, BecomesKeeps

(* A change of an object, as far as the world goes.                        *)
LEMMA ChangeKeepsWorld ==
  ASSUME Holds(World), NEW i \in Dicts, NEW e, Changed(dicts[i], e), Becomes([World EXCEPT !.dicts[i] = e])
  PROVE  Holds(World)'
  <1> DEFINE v == [World EXCEPT !.dicts[i] = e]
  <1>1. Changed(World.dicts[i], e)
    BY WorldIs
  <1>2. Holds(v)
    BY <1>1, UpdateChanged
  <1> HIDE DEF v
  <1>3. Becomes(v)
    BY DEF v
  <1> QED
    BY <1>2, <1>3, BecomesKeeps

(* The list grows by one.                                                  *)
LEMMA AddsOne ==
  ASSUME NEW d, Good(d), NEW l \in Lemmas, NEW count \in Nat, NEW e, AddsAt(d, l, count, PlaceOf(d, l), e)
  PROVE  Len(e.list) = Len(d.list) + 1
  <1> DEFINE p == PlaceOf(d, l)
  <1>1. p \in 1..(Len(d.list) + 1)
    BY PlaceOfIs
  <1> HIDE DEF p
  <1>2. AddsAt(d, l, count, p, e)
    BY DEF p
  <1>3. /\ e.list \in Seq(Entry) /\ Len(e.list) = Len(d.list) + 1 /\ DOMAIN e.list = 1..(Len(d.list) + 1)
        /\ e.list[p] = [at |-> d.size, gone |-> FALSE, score |-> count, id |-> Len(d.list) + 1]
        /\ LemmaAt(e, p) = l
        /\ \A k \in DOMAIN d.list : e.list[Moved(p, k)] = d.list[k] /\ LemmaAt(e, Moved(p, k)) = LemmaAt(d, k)
    BY <1>1, <1>2, AddsToList
  <1> QED
    BY <1>3

(* put_lemma() of the decoder, when the lemma is new.                      *)
LEMMA PutsNew ==
  ASSUME Holds(World), NEW l \in Lemmas
  PROVE  LET d == dicts[Ime]
             u == IF NoRoom(d, l) THEN Flush(World, Ime, d.syncs) ELSE World
             w == Added(World, Ime, l, 1, d.syncs)
             a == w.dicts[Ime]
             v == [w EXCEPT !.dicts[Ime] = QueuedForSync(a, Len(a.list))]
         IN  /\ Holds(v) /\ Good(u.dicts[Ime]) /\ v.dicts[Ime] = QueuedForSync(a, Len(a.list))
             /\ AddsAt(u.dicts[Ime], l, 1, PlaceOf(u.dicts[Ime], l), a)
             /\ \A o : Copies(v.dicts[Ime], o) = Copies(a, o)
  <1> DEFINE d == dicts[Ime]
             u == IF NoRoom(d, l) THEN Flush(World, Ime, d.syncs) ELSE World
             w == Added(World, Ime, l, 1, d.syncs)
             a == w.dicts[Ime]
             id == Len(a.list)
             s == Append(a.syncs, a.byId[id])
             e == QueuedForSync(a, id)
             v == [w EXCEPT !.dicts[Ime] = e]
  <1>1. d = World.dicts[Ime] /\ d.syncs \in Seq(Nat)
    BY WorldIs, DictsAre
  <1>2. /\ Holds(w) /\ Good(u.dicts[Ime]) /\ a.state >= SYNC_DIRTY
        /\ AddsAt(u.dicts[Ime], l, 1, PlaceOf(u.dicts[Ime], l), a)
    BY <1>1, AddedKeeps, DictsAre
  <1>3. e = [a EXCEPT !.syncs = s]
    BY DEF QueuedForSync
  <1> HIDE DEF w, u, d
  <1>4. Good(a)
    BY <1>2, DictsAre DEF Holds
  <1> HIDE DEF a, e
  <1>5. s \in Seq(Nat)
    <2>1. /\ a.syncs \in Seq(Nat) /\ a.byId \in Seq(Nat) /\ Len(a.byId) = Len(a.list)
          /\ Len(a.list) \in Nat /\ DOMAIN a.list = 1..Len(a.list)
      BY <1>4, PlaceFacts DEF Good, IsDict
    <2>2. Len(a.list) # 0
      <3> DEFINE b == u.dicts[Ime]
      <3>1. PlaceOf(b, l) \in 1..(Len(b.list) + 1) /\ Len(b.list) \in Nat
        BY <1>2, PlaceOfIs, PlaceFacts DEF Good
      <3> HIDE DEF b
      <3>2. Good(b) /\ AddsAt(b, l, 1, PlaceOf(b, l), a) /\ 1 \in Nat
        BY <1>2 DEF b
      <3>3. Len(a.list) = Len(b.list) + 1
        BY <3>2, AddsOne
      <3> QED
        BY <3>1, <3>3
    <2>3. id \in 1..Len(a.byId)
      BY <2>1, <2>2
    <2>4. a.byId[id] \in Nat
      BY <2>1, <2>3, ElementOfSeq
    <2> QED
      BY <2>1, <2>4, AppendProperties
  <1> HIDE DEF s
  <1>6. Changed(a, e) /\ InUse(e) = InUse(a)
    BY <1>2, <1>3, <1>4, <1>5, SyncsChange
  <1>7. Holds(v) /\ v.dicts[Ime] = e
    <2>1. Changed(w.dicts[Ime], e)
      BY <1>6 DEF a
    <2> HIDE DEF v
    <2>2. Holds(w) /\ v = [w EXCEPT !.dicts[Ime] = e]
      BY <1>2 DEF v
    <2> QED
      BY ONLY <2>1, <2>2, UpdateChanged, DictsAre
  <1>8. \A o : Copies(e, o) = Copies(a, o)
    <2>1. \A k \in InUse(a) : LemmaAt(e, k) = LemmaAt(a, k)
      BY <1>4, <1>6, ChangeKeepsGood, InUseIs
    <2> QED
      BY <1>6, <2>1, SameCopies
  <1> QED
    BY <1>2, <1>7, <1>8 DEF a, e, u, w, d

LEMMA PutsKeeps == ASSUME Holds(World), NEW l \in Phrases, Puts(l) PROVE Holds(World)'
  <1> DEFINE d == dicts[Ime]
             k == Locate(d, l)
             w == Added(World, Ime, l, 1, d.syncs)
             a == w.dicts[Ime]
  <1>1. l \in Lemmas /\ Good(d)
    BY LemmasAssumption, WorldIs, DictsAre
  <1>2. CASE k # 0
    <2>1. Becomes([World EXCEPT !.dicts[Ime] = Rescored(d, k, 1)])
      BY <1>2 DEF Puts
    <2>2. k \in DOMAIN d.list
      BY <1>1, <1>2, LocateIs
    <2> HIDE DEF k
    <2>3. Changed(d, Rescored(d, k, 1))
      BY <1>1, <2>2, RescoredChanges
    <2> QED
      BY <2>1, <2>3, ChangeKeepsWorld, DictsAre
  <1>3. CASE k = 0 /\ AtLimit(d)
    <2>1. Becomes(World)
      BY <1>3 DEF Puts
    <2> QED
      BY <2>1, BecomesKeeps
  <1>4. CASE k = 0 /\ ~AtLimit(d)
    <2> DEFINE v == [w EXCEPT !.dicts[Ime] = QueuedForSync(a, Len(a.list))]
    <2>1. Becomes(v)
      BY <1>4 DEF Puts
    <2>2. Holds(v)
      BY <1>1, PutsNew
    <2> HIDE DEF v
    <2> QED
      BY <2>1, <2>2, BecomesKeeps
  <1> QED
    BY <1>2, <1>3, <1>4

LEMMA ChoosesKeeps ==
  ASSUME Holds(World), NEW id \in DOMAIN dicts[Ime].byId, Chooses(id)
  PROVE  Holds(World)'
  <1> DEFINE d == dicts[Ime]
             k == Locate(d, d.lemmas[d.byId[id]])
             count == Least({d.list[k].score + 1, kUserDictMaxFrequency})
             r == Rescored(d, k, count)
             e == QueuedForSync(r, d.list[k].id)
  <1>1. Good(d)
    BY WorldIs, DictsAre
  <1>2. k # 0 /\ Becomes([World EXCEPT !.dicts[Ime] = e])
    BY DEF Chooses
  <1>3. k \in DOMAIN d.list
    BY <1>1, <1>2, LocateIs
  <1> HIDE DEF k
  <1>4. d.list[k] \in Entry /\ d.list[k].id \in DOMAIN d.byId /\ d.byId \in Seq(Nat)
    BY <1>1, <1>3, PlaceFacts DEF Good, IsDict, Linked
  <1>5. count \in Nat
    <2> DEFINE S == {d.list[k].score + 1, kUserDictMaxFrequency}
    <2>1. S \subseteq Nat /\ S # {}
      <3>1. d.list[k].score \in Nat
        BY <1>4 DEF Entry
      <3>2. kUserDictMaxFrequency \in Nat
        BY SizesAssumption
      <3> HIDE DEF d
      <3> QED
        BY <3>1, <3>2
    <2>2. Least(S) \in S
      BY ONLY <2>1, LeastNumber
    <2> QED
      BY <2>1, <2>2
  <1> HIDE DEF count
  <1>6. Changed(d, r) /\ r.state >= SCORE_DIRTY /\ r.syncs = d.syncs
    BY <1>1, <1>3, <1>5, RescoredChanges
  <1> DEFINE s == Append(r.syncs, r.byId[d.list[k].id])
  <1>7. e = [r EXCEPT !.syncs = s]
    BY DEF QueuedForSync
  <1> HIDE DEF r, e, d
  <1>8. Good(r) /\ r.byId = d.byId /\ r.syncs \in Seq(Nat)
    BY <1>1, <1>6, ChangeKeepsGood DEF Changed
  <1>9. s \in Seq(Nat)
    <2>1. d.byId[d.list[k].id] \in Nat
      BY <1>4, ElementOfSeq, LenProperties
    <2> QED
      BY <1>8, <2>1, AppendProperties
  <1>10. r.state >= SYNC_DIRTY
    BY <1>6, <1>8, StatesAre DEF States, Good, IsDict
  <1> HIDE DEF s
  <1>11. Changed(r, e)
    BY <1>7, <1>8, <1>9, <1>10, SyncsChange
  <1>12. Changed(d, e)
    BY <1>1, <1>6, <1>11, ChangedRepeats
  <1> QED
    BY <1>2, <1>12, ChangeKeepsWorld, DictsAre DEF d

LEMMA RemovesKeeps ==
  ASSUME Holds(World), NEW id \in DOMAIN dicts[Ime].byId, Removes(id)
  PROVE  Holds(World)'
  <1> DEFINE d == dicts[Ime]
             k == Locate(d, d.lemmas[d.byId[id]])
  <1>1. Good(d)
    BY WorldIs, DictsAre
  <1>2. k # 0 /\ Becomes([World EXCEPT !.dicts[Ime] = Removed(d, k)])
    BY DEF Removes
  <1>3. k \in DOMAIN d.list
    BY <1>1, <1>2, LocateIs
  <1> HIDE DEF k
  <1>4. Changed(d, Removed(d, k))
    BY <1>1, <1>3, RemovedChanges
  <1> QED
    BY <1>2, <1>4, ChangeKeepsWorld, DictsAre

(* What closing and flushing write, for the invariant and for FlushIsExact.*)
LEMMA ImeFlushesIs ==
  ASSUME Holds(World), ImeFlushes
  PROVE  /\ Holds(World)' /\ Whole(file')
         /\ IF dicts[Ime].fresh THEN Says(file', dicts[Ime], dicts[Ime].syncs) ELSE file' = file
  <1> DEFINE d == dicts[Ime]
             v == Flush(World, Ime, d.syncs)
  <1>1. d = World.dicts[Ime] /\ d.syncs \in Seq(Nat) /\ World.file = file
    BY WorldIs, DictsAre
  <1>2. Becomes(v)
    BY DEF ImeFlushes
  <1>3. Holds(v) /\ (~Writes(d) => v.file = file) /\ (d.fresh => Says(v.file, d, d.syncs))
    BY <1>1, FlushKeeps, DictsAre
  <1> HIDE DEF v
  <1>4. Holds(World)'
    BY <1>2, <1>3, BecomesKeeps
  <1>5. file' = v.file /\ Whole(v.file)
    BY <1>2, <1>3 DEF Becomes, Holds
  <1> QED
    BY <1>3, <1>4, <1>5 DEF Writes

(* Closing the decoder's object writes what it says, if it may.            *)
LEMMA ImeClosesIs ==
  ASSUME Holds(World), ImeCloses
  PROVE  /\ Holds(World)' /\ Whole(file')
         /\ IF dicts[Ime].fresh THEN Says(file', dicts[Ime], dicts[Ime].syncs) ELSE file' = file
  <1> DEFINE d == dicts[Ime]
             w == Flush(World, Ime, d.syncs)
             b == w.dicts[Ime]
             v == Close(w, Ime, b.syncs)
  <1>1. d = World.dicts[Ime] /\ d.syncs \in Seq(Nat) /\ World.file = file
    BY WorldIs, DictsAre
  <1>2. Becomes(v)
    BY DEF ImeCloses
  <1>3. /\ Holds(w) /\ (~Writes(d) => w.file = file) /\ (d.fresh => Says(w.file, d, d.syncs))
        /\ b.state = SYNC
    BY <1>1, FlushKeeps, DictsAre
  <1> HIDE DEF w
  <1>4. Holds(v)
    BY <1>3, CloseKeeps, DictsAre
  <1>5. ~Writes(b)
    BY <1>3, StatesAre DEF Writes, States
  <1>6. v.file = w.file
    BY <1>5 DEF Close, Writes
  <1> HIDE DEF v
  <1>7. Holds(World)'
    BY <1>2, <1>4, BecomesKeeps
  <1>8. file' = v.file /\ Whole(v.file)
    BY <1>2, <1>4 DEF Becomes, Holds
  <1> QED
    BY <1>3, <1>6, <1>7, <1>8 DEF Writes

(* So does closing Sync's.                                                 *)
LEMMA SyncFinishesIs ==
  ASSUME Holds(World), SyncFinishes
  PROVE  /\ Holds(World)' /\ Whole(file')
         /\ IF dicts[Syncing].fresh THEN Says(file', dicts[Syncing], dicts[Syncing].syncs) ELSE file' = file
  <1> DEFINE d == dicts[Syncing]
             v == Close(World, Syncing, d.syncs)
  <1>1. d = World.dicts[Syncing] /\ World.file = file
    BY WorldIs, DictsAre
  <1>2. Becomes(v)
    BY DEF SyncFinishes
  <1>3. Holds(v) /\ (IF d.fresh THEN Says(v.file, d, d.syncs) ELSE v.file = file)
    BY <1>1, CloseKeeps, DictsAre
  <1> HIDE DEF v
  <1>4. Holds(World)'
    BY <1>2, <1>3, BecomesKeeps
  <1>5. file' = v.file /\ Whole(v.file)
    BY <1>2, <1>3 DEF Becomes, Holds
  <1> QED
    BY <1>3, <1>4, <1>5

LEMMA SyncBeginsKeeps == ASSUME Holds(World), SyncBegins PROVE Holds(World)'
  <1> DEFINE w == Load(World, Syncing)
             d == w.dicts[Syncing]
             e == [d EXCEPT !.limit = kUserDictMaxLemmaCount, !.ratio = kUserDictRatio]
             v == [w EXCEPT !.dicts[Syncing].limit = kUserDictMaxLemmaCount,
                            !.dicts[Syncing].ratio = kUserDictRatio]
             u == [w EXCEPT !.dicts[Syncing] = e]
  <1>1. Becomes(v)
    BY DEF SyncBegins
  <1>2. Holds(w)
    BY LoadKeeps, DictsAre
  <1>3. Good(d) /\ DOMAIN w = {"dicts", "file"} /\ DOMAIN w.dicts = Dicts
    BY <1>2, DictsAre DEF Holds
  <1> HIDE DEF w
  <1>4. v = u
    BY <1>3, DictsAre
  <1>5. Changed(d, e)
    <2>1. kUserDictMaxLemmaCount \in Nat /\ kUserDictRatio \in 0..99
      BY SizesAssumption
    <2> HIDE DEF d
    <2> QED
      BY <1>3, <2>1, LimitsChange
  <1>6. Holds(u)
    <2> HIDE DEF e, u, v
    <2>1. Changed(w.dicts[Syncing], e) /\ u = [w EXCEPT !.dicts[Syncing] = e]
      BY <1>5 DEF u
    <2> QED
      BY ONLY <1>2, <2>1, UpdateChanged, DictsAre
  <1> HIDE DEF u, v
  <1> QED
    BY <1>1, <1>4, <1>6, BecomesKeeps

(* The list to hand out may become any, in an object that is marked.       *)
LEMMA SyncsKeep ==
  ASSUME NEW w, Holds(w), NEW i \in Dicts, w.dicts[i].state >= SYNC_DIRTY, NEW s \in Seq(Nat)
  PROVE  Holds([w EXCEPT !.dicts[i].syncs = s])
  <1> DEFINE d == w.dicts[i]
             e == [d EXCEPT !.syncs = s]
             v == [w EXCEPT !.dicts[i] = e]
  <1>1. Good(d) /\ DOMAIN w = {"dicts", "file"} /\ DOMAIN w.dicts = Dicts
    BY DEF Holds
  <1>2. v = [w EXCEPT !.dicts[i].syncs = s]
    OBVIOUS
  <1>3. Changed(d, e)
    <2> HIDE DEF d
    <2> QED
      BY <1>1, SyncsChange DEF d
  <1>4. Holds(v)
    <2> HIDE DEF e, v
    <2>1. Changed(w.dicts[i], e) /\ v = [w EXCEPT !.dicts[i] = e]
      BY <1>3 DEF v
    <2> QED
      BY <2>1, UpdateChanged
  <1> QED
    BY <1>2, <1>4

(* put_lemma_no_sync() keeps the invariant, even if it flushes in between. *)
LEMMA PutNoSyncKeeps ==
  ASSUME NEW w, Holds(w), NEW l \in Lemmas, NEW count \in Nat, NEW junk \in Nat
  PROVE  Holds(PutNoSync(w, l, count, junk))
  <1> DEFINE d == w.dicts[Syncing]
             k == Locate(d, l)
             v == Added(w, Syncing, l, count, <<>>)
             m == Len(v.dicts[Syncing].syncs) + 1
             swapped == [j \in 1..m |-> IF j \in DOMAIN d.syncs THEN d.syncs[j] ELSE junk]
             p == PutNoSync(w, l, count, junk)
  <1>1. Good(d)
    BY DictsAre DEF Holds
  <1>2. CASE k # 0
    <2>1. p = [w EXCEPT !.dicts[Syncing] = Rescored(d, k, count)]
      BY <1>2 DEF PutNoSync
    <2>2. k \in DOMAIN d.list
      BY <1>1, <1>2, LocateIs
    <2> HIDE DEF k
    <2>3. Changed(d, Rescored(d, k, count))
      BY <1>1, <2>2, RescoredChanges
    <2> QED
      BY <2>1, <2>3, UpdateChanged, DictsAre
  <1>3. CASE k = 0 /\ AtLimit(d)
    BY <1>3 DEF PutNoSync
  <1>4. CASE k = 0 /\ ~AtLimit(d)
    <2>1. p = IF NoRoom(d, l) THEN [v EXCEPT !.dicts[Syncing].syncs = swapped] ELSE v
      BY <1>4 DEF PutNoSync
    <2>2. Holds(v) /\ v.dicts[Syncing].state >= SYNC_DIRTY
      <3>1. <<>> \in Seq(Nat)
        BY EmptyIs
      <3> QED
        BY <3>1, AddedKeeps, DictsAre
    <2> HIDE DEF v
    <2>3. m \in Nat
      <3>1. v.dicts[Syncing].syncs \in Seq(Nat)
        BY <2>2, DictsAre DEF Holds, Good, IsDict
      <3> QED
        BY <3>1, LenProperties
    <2> HIDE DEF m
    <2>4. swapped \in Seq(Nat)
      <3>1. \A j \in DOMAIN d.syncs : d.syncs[j] \in Nat
        BY <1>1, LenProperties, ElementOfSeq DEF Good, IsDict
      <3>2. swapped \in [1..m -> Nat]
        BY <3>1
      <3> HIDE DEF swapped
      <3> QED
        BY <2>3, <3>2, SeqDef
    <2> HIDE DEF swapped
    <2>5. Holds([v EXCEPT !.dicts[Syncing].syncs = swapped])
      BY <2>2, <2>4, SyncsKeep, DictsAre
    <2> QED
      BY <2>1, <2>2, <2>5
  <1> QED
    BY <1>2, <1>3, <1>4

LEMMA SyncPutsKeeps ==
  ASSUME Holds(World), NEW l \in Downloads, NEW count \in Counts,
         NEW junk \in {dicts[Syncing].size} \cup DOMAIN dicts[Syncing].lemmas, SyncPuts(l, count, junk)
  PROVE  Holds(World)'
  <1> DEFINE d == dicts[Syncing]
             e == Defragmented(Reclaimed(d))
             r == [World EXCEPT !.dicts[Syncing] = e]
             w == IF Locate(d, l) = 0 /\ AtLimit(d) THEN Flush(r, Syncing, r.dicts[Syncing].syncs) ELSE World
             p == PutNoSync(w, l, count, junk)
  <1>1. l \in Lemmas /\ count \in Nat
    BY LemmasAssumption, SizesAssumption
  <1>2. Good(d) /\ Bare(d) /\ Stands(d, file) /\ World.dicts[Syncing] = d /\ World.file = file
    <2>1. World.dicts = dicts /\ World.file = file
      BY DEF World
    <2> QED
      BY <2>1, DictsAre DEF Holds
  <1>3. junk \in Nat
    BY <1>2 DEF Good, IsDict, Block
  <1>4. Becomes(p)
    <2>1. [World EXCEPT !.dicts[Syncing] = Defragmented(Reclaimed(@))] = r
      BY <1>2 DEF World
    <2> QED
      BY <2>1 DEF SyncPuts
  <1>5. Good(e) /\ Stands(e, file) /\ Bare(e)
    <2> DEFINE c == Reclaimed(d)
    <2>1. Changed(d, c)
      BY <1>2, ReclaimedChanges
    <2> HIDE DEF c
    <2>2. Good(c) /\ Stands(c, file)
      BY <1>2, <2>1, ChangeKeepsGood, ChangeStands
    <2>3. Bare(c)
      BY <1>2, <2>1 DEF Changed, Bare
    <2>4. e = Defragmented(c)
      BY DEF c
    <2> HIDE DEF e
    <2> QED
      BY <2>2, <2>3, <2>4, DefragmentedKeeps
  <1> HIDE DEF e
  <1>6. Holds(r)
    BY <1>2, <1>5, Update, DictsAre
  <1> HIDE DEF r
  <1>7. Holds(w)
    <2>1. r.dicts[Syncing].syncs \in Seq(Nat)
      BY <1>6, DictsAre DEF Holds, Good, IsDict
    <2>2. Holds(Flush(r, Syncing, r.dicts[Syncing].syncs))
      BY <1>6, <2>1, FlushKeeps, DictsAre
    <2> QED
      BY <2>2
  <1> HIDE DEF w
  <1>8. Holds(p)
    BY <1>1, <1>3, <1>7, PutNoSyncKeeps
  <1> HIDE DEF p
  <1> QED
    BY <1>4, <1>8, BecomesKeeps

LEMMA SyncGetsKeeps == ASSUME Holds(World), SyncGets PROVE Holds(World)' /\ got' \in Nat
  <1> DEFINE d == dicts[Syncing]
             e == [d EXCEPT !.state = AtLeast(@, SYNC_DIRTY)]
             v == [World EXCEPT !.dicts[Syncing] = e]
  <1>1. Good(d) /\ d.syncs \in Seq(Nat) /\ Len(d.syncs) \in Nat
    BY WorldIs, DictsAre
  <1>2. Changed(d, e)
    BY <1>1, SyncsChange
  <1>3. Becomes(v)
    BY DEF SyncGets, World, Becomes
  <1> HIDE DEF e, v
  <1>4. Holds(World)'
    BY <1>2, <1>3, ChangeKeepsWorld, DictsAre DEF v
  <1>5. got' \in Nat
    BY <1>1 DEF SyncGets
  <1> QED
    BY <1>4, <1>5

LEMMA SyncClearsKeeps == ASSUME Holds(World), got \in Nat, SyncClears PROVE Holds(World)' /\ got' \in Nat
  <1> DEFINE d == dicts[Syncing]
             n == Len(d.syncs)
             first == Least({got, n}) + 1
             s == SubSeq(d.syncs, first, n)
             e == [d EXCEPT !.syncs = s, !.state = AtLeast(@, SYNC_DIRTY)]
             v == [World EXCEPT !.dicts[Syncing] = e]
  <1>1. Good(d) /\ d.syncs \in Seq(Nat) /\ n \in Nat
    BY WorldIs, DictsAre
  <1>2. s \in Seq(Nat)
    <2>1. Least({got, n}) \in {got, n}
      <3>1. {got, n} \subseteq Nat /\ {got, n} # {}
        BY <1>1
      <3> QED
        BY ONLY <3>1, LeastNumber
    <2>2. first \in Nat \ {0}
      BY <1>1, <2>1
    <2> HIDE DEF first
    <2> QED
      BY <1>1, <2>2, SubSeqProperties
  <1>3. Becomes(v)
    BY DEF SyncClears, World, Becomes
  <1> HIDE DEF s
  <1>4. Changed(d, e)
    BY <1>1, <1>2, SyncsChange
  <1> HIDE DEF e, v
  <1>5. Holds(World)'
    BY <1>3, <1>4, ChangeKeepsWorld, DictsAre DEF v
  <1> QED
    BY <1>5 DEF SyncClears

(* The inductive argument: at the start,                                   *)
LEMMA InitHolds == ASSUME Init PROVE IInv
  <1> DEFINE w == [dicts |-> [i \in Dicts |-> Closed], file |-> EmptyFile]
  <1>1. World = w /\ got = 0
    BY DEF Init, World
  <1>2. DOMAIN w = {"dicts", "file"} /\ DOMAIN w.dicts = Dicts /\ w.file = EmptyFile /\ \A i \in Dicts : w.dicts[i] = Closed
    OBVIOUS
  <1> HIDE DEF w
  <1>3. Good(Closed) /\ Stands(Closed, EmptyFile) /\ Bare(Closed)
    BY ClosedIsGood, ClosedIs DEF Stands, Bare
  <1>4. Holds(w)
    BY <1>2, <1>3, EmptyFileIsWhole, DictsAre DEF Holds
  <1> QED
    BY <1>1, <1>4 DEF IInv

(* and step by step.                                                       *)
LEMMA StepHolds == ASSUME IInv, [Next]_vars PROVE IInv'
  <1>0. Holds(World) /\ got \in Nat
    BY DEF IInv
  <1>1. CASE ImeOpens
    BY <1>0, <1>1, OpensKeep DEF ImeOpens, IInv
  <1>2. CASE ImeFlushes
    BY <1>0, <1>2, ImeFlushesIs DEF ImeFlushes, IInv
  <1>3. CASE ImeCloses
    BY <1>0, <1>3, ImeClosesIs DEF ImeCloses, IInv
  <1>4. ASSUME NEW q \in Queries, Looks(q) PROVE IInv'
    BY <1>0, <1>4, LooksKeeps DEF Looks, IInv
  <1>5. ASSUME NEW l \in Phrases, Puts(l) PROVE IInv'
    BY <1>0, <1>5, PutsKeeps DEF Puts, IInv
  <1>6. ASSUME NEW id \in DOMAIN dicts[Ime].byId, Chooses(id) PROVE IInv'
    BY <1>0, <1>6, ChoosesKeeps DEF Chooses, IInv
  <1>7. ASSUME NEW id \in DOMAIN dicts[Ime].byId, Removes(id) PROVE IInv'
    BY <1>0, <1>7, RemovesKeeps DEF Removes, IInv
  <1>8. CASE SyncBegins
    BY <1>0, <1>8, SyncBeginsKeeps DEF SyncBegins, IInv
  <1>9. CASE SyncFinishes
    BY <1>0, <1>9, SyncFinishesIs DEF SyncFinishes, IInv
  <1>10. CASE SyncClears
    BY <1>0, <1>10, SyncClearsKeeps DEF IInv
  <1>11. CASE SyncGets
    BY <1>0, <1>11, SyncGetsKeeps DEF IInv
  <1>12. ASSUME NEW l \in Downloads, NEW count \in Counts,
                NEW junk \in {dicts[Syncing].size} \cup DOMAIN dicts[Syncing].lemmas, SyncPuts(l, count, junk)
         PROVE  IInv'
    BY <1>0, <1>12, SyncPutsKeeps DEF SyncPuts, IInv
  <1>13. CASE UNCHANGED vars
    BY <1>0, <1>13 DEF vars, IInv, World
  <1> QED
    BY <1>1, <1>2, <1>3, <1>4, <1>5, <1>6, <1>7, <1>8, <1>9, <1>10, <1>11, <1>12, <1>13 DEF Next

(* The strengthening: both objects are good, what they have not marked as  *)
(* changed is what the file has while they stand on it, and the file loads *)
(* as a good object (userdict.cpp).                                        *)
THEOREM Invariance == Spec => []IInv
  <1> QED
    BY InitHolds, StepHolds, PTL DEF Spec

(* A lookup finds exactly the lemmas in use that are spelt so, whatever    *)
(* was cached, and an id leads to the lemma it was given to.               *)
THEOREM LookupsAreRight == Spec => []FoundAsSpelt
  <1>1. IInv => FoundAsSpelt
    <2> SUFFICES ASSUME IInv, Open(Ime) PROVE
          /\ \A q \in Queries : Found(dicts[Ime], q) = {k \in InUse(dicts[Ime]) : EqualSpell(LemmaAt(dicts[Ime], k).spl, q)}
          /\ \A k \in DOMAIN dicts[Ime].list : dicts[Ime].byId[dicts[Ime].list[k].id] = dicts[Ime].list[k].at
      BY DEF FoundAsSpelt
    <2>1. Good(dicts[Ime])
      BY WorldIs, DictsAre DEF IInv
    <2> QED
      BY <2>1, FoundIsSpelt DEF Good, Linked
  <1> QED
    BY <1>1, Invariance, PTL

(* Whatever is flushed or closed is what a load reads again, and an object *)
(* whose file another has written leaves it alone.                         *)
THEOREM NothingIsLost == Spec => FlushIsExact
  <1> DEFINE Exact == \A i \in Dicts :
                        (IF i = Ime THEN ImeFlushes \/ ImeCloses ELSE SyncFinishes) =>
                          IF dicts[i].fresh THEN Content(Loaded(file')) = Content(dicts[i]) /\ Valid(file')
                          ELSE file' = file
  <1>1. ASSUME IInv, [Next]_vars PROVE Exact
    <2> SUFFICES ASSUME NEW i \in Dicts, IF i = Ime THEN ImeFlushes \/ ImeCloses ELSE SyncFinishes
                 PROVE  IF dicts[i].fresh THEN Content(Loaded(file')) = Content(dicts[i]) /\ Valid(file')
                        ELSE file' = file
      OBVIOUS
    <2>1. Holds(World) /\ Good(dicts[i])
      BY <1>1, WorldIs DEF IInv
    <2>2. Whole(file') /\ IF dicts[i].fresh THEN Says(file', dicts[i], dicts[i].syncs) ELSE file' = file
      <3>1. CASE i = Ime
        BY <2>1, <3>1, ImeFlushesIs, ImeClosesIs
      <3>2. CASE i # Ime
        BY <2>1, <3>2, SyncFinishesIs DEF Dicts
      <3> QED
        BY <3>1, <3>2
    <2>3. Valid(file')
      <3>1. IsNearlyFile(file') /\ IsFile(file')
        BY <2>2 DEF Whole, IsFile
      <3> QED
        BY <3>1, ValidIs
    <2>4. ASSUME dicts[i].fresh PROVE Content(Loaded(file')) = Content(dicts[i])
      BY <2>1, <2>2, <2>4, SaysLoads
    <2> QED
      BY <2>2, <2>3, <2>4
  <1> QED
    BY <1>1, Invariance, PTL DEF Spec, FlushIsExact

(* The steps of put_lemma(): what is found is scored anew, what is not is  *)
(* inserted once, in the object as it is or as it is loaded again.         *)
LEMMA PutIsOnce ==
  ASSUME Holds(World), NEW l \in Phrases, Puts(l)
  PROVE  LET d == dicts[Ime]  e == dicts'[Ime] IN
         \/ /\ Cardinality(Copies(e, l)) = IF Copies(d, l) = {} THEN 1 ELSE Cardinality(Copies(d, l))
            /\ \A o \in Lemmas \ {l} : Cardinality(Copies(e, o)) = Cardinality(Copies(d, o))
         \/ Copies(d, l) = {} /\ AtLimit(d)
         \/ NoRoom(d, l) /\ ~d.fresh
         \/ \E k \in InUse(d) : LemmaAt(d, k) # l /\ Begins(LemmaAt(d, k), l)
  <1> DEFINE d == dicts[Ime]
             e == dicts'[Ime]
             k == Locate(d, l)
             u == IF NoRoom(d, l) THEN Flush(World, Ime, d.syncs) ELSE World
             b == u.dicts[Ime]
             w == Added(World, Ime, l, 1, d.syncs)
             a == w.dicts[Ime]
  <1>1. l \in Lemmas /\ Good(d) /\ DOMAIN dicts = Dicts /\ World.dicts = dicts /\ d.syncs \in Seq(Nat)
    BY LemmasAssumption, WorldIs, DictsAre
  <1>2. CASE k # 0
    <2>1. k \in InUse(d) /\ k \in DOMAIN d.list /\ Begins(LemmaAt(d, k), l)
      BY <1>1, <1>2, LocateIs
    <2>2. e = Rescored(d, k, 1)
      <3>1. Becomes([World EXCEPT !.dicts[Ime] = Rescored(d, k, 1)])
        BY <1>2 DEF Puts
      <3> QED
        BY <1>1, <3>1, DictsAre DEF Becomes, World
    <2> HIDE DEF k, d, e
    <2>3. Changed(d, e) /\ InUse(e) = InUse(d)
      BY <1>1, <2>1, <2>2, RescoredChanges
    <2>4. \A o : Copies(e, o) = Copies(d, o)
      <3>1. \A j \in InUse(d) : LemmaAt(e, j) = LemmaAt(d, j)
        BY <1>1, <2>3, ChangeKeepsGood, InUseIs
      <3> QED
        BY <2>3, <3>1, SameCopies
    <2>5. Copies(d, l) = {} => LemmaAt(d, k) # l
      BY <2>1 DEF Copies
    <2> QED
      BY <2>1, <2>4, <2>5 DEF d, e
  <1>3. CASE k = 0
    <2>1. Copies(d, l) = {}
      BY <1>1, <1>3, LocateFindsCopy
    <2>2. CASE AtLimit(d)
      BY <2>1, <2>2
    <2>3. CASE NoRoom(d, l) /\ ~d.fresh
      BY <2>3
    <2>4. CASE ~AtLimit(d) /\ ~(NoRoom(d, l) /\ ~d.fresh)
      <3> DEFINE v == [w EXCEPT !.dicts[Ime] = QueuedForSync(a, Len(a.list))]
      <3>1. Becomes(v)
        BY <1>3, <2>4 DEF Puts
      <3>2. /\ Good(b) /\ AddsAt(b, l, 1, PlaceOf(b, l), a)
            /\ \A o : Copies(v.dicts[Ime], o) = Copies(a, o)
        BY <1>1, PutsNew
      <3>3. \A o : Copies(b, o) = Copies(d, o)
        <4>1. CASE NoRoom(d, l)
          <5> DEFINE f == Flush(World, Ime, d.syncs).file
          <5>1. b = Loaded(f) /\ Says(f, d, d.syncs)
            BY <1>1, <2>4, <4>1, FlushKeeps, DictsAre
          <5> HIDE DEF b, f, d
          <5>2. InUse(b) = InUse(d) /\ \A j \in DOMAIN d.list : LemmaAt(b, j) = LemmaAt(d, j)
            BY <1>1, <5>1, SaysLoads
          <5> QED
            BY <5>2, InUseIs, SameCopies
        <4>2. CASE ~NoRoom(d, l)
          BY <1>1, <4>2
        <4> QED
          BY <4>1, <4>2
      <3>4. e = v.dicts[Ime]
        BY <3>1 DEF Becomes
      <3> HIDE DEF v, a, b, d, e
      <3>5. /\ \A o \in Lemmas \ {l} : Cardinality(Copies(a, o)) = Cardinality(Copies(b, o))
            /\ Copies(b, l) = {} => Cardinality(Copies(a, l)) = 1
        BY <1>1, <3>2, AddsCopies
      <3> QED
        BY <2>1, <3>2, <3>3, <3>4, <3>5 DEF d, e
    <2> QED
      BY <2>2, <2>3, <2>4
  <1> QED
    BY <1>2, <1>3

(* A lemma that is put is in the dictionary once and nothing else changes, *)
(* outside of the three cases where it may (_put_lemma()).                 *)
THEOREM PutOnlyOnce == Spec => PutsOnce
  <1> DEFINE Once ==
        \A l \in Phrases : Puts(l) =>
          LET d == dicts[Ime]  e == dicts'[Ime] IN
          \/ /\ Cardinality(Copies(e, l)) = IF Copies(d, l) = {} THEN 1 ELSE Cardinality(Copies(d, l))
             /\ \A o \in Lemmas \ {l} : Cardinality(Copies(e, o)) = Cardinality(Copies(d, o))
          \/ Copies(d, l) = {} /\ AtLimit(d)
          \/ NoRoom(d, l) /\ ~d.fresh
          \/ \E k \in InUse(d) : LemmaAt(d, k) # l /\ Begins(LemmaAt(d, k), l)
  <1>1. ASSUME IInv, [Next]_vars PROVE Once
    BY <1>1, PutIsOnce DEF IInv
  <1> QED
    BY <1>1, Invariance, PTL DEF Spec, PutsOnce
=============================================================================
