--------------------------- MODULE WubiTrieProofs ----------------------------
(***************************************************************************)
(* The wubi dictionary, for any letters, lengths of codes, words,          *)
(* frequencies and number of lines: the trie is a table, its ends have     *)
(* words, exact words are never hidden, and hints name first codes.        *)
(*                                                                         *)
(* All of it rests on one fact: the trie has every prefix of a node, so a  *)
(* search arrives exactly at the nodes there are.                          *)
(***************************************************************************)
EXTENDS WubiTrie, SequenceTheorems, WellFoundedInduction, TLAPS

IInv == TypeOK /\ EndsHaveWords /\ HintIsFirstCode

(***************************************************************************)
(* Codes and maps.                                                         *)
(***************************************************************************)
LEMMA CodeIsSequence ==
  ASSUME NEW code \in Codes
  PROVE  code \in Seq(Letters) /\ Len(code) \in 0..MaxCode
  <1>1. PICK n \in 0..MaxCode : code \in [1..n -> Letters]
    BY DEF Codes
  <1>2. n \in Nat
    BY <1>1, WubiAssumption
  <1> QED
    BY <1>1, <1>2

LEMMA PrefixIsCode ==
  ASSUME NEW code \in Codes, NEW p \in Prefixes(code)
  PROVE  p \in Codes /\ Prefixes(p) \subseteq Prefixes(code)
  <1>1. code \in Seq(Letters) /\ Len(code) \in 0..MaxCode /\ MaxCode \in Nat
    BY CodeIsSequence, WubiAssumption
  <1>2. PICK n \in 0..Len(code) : p = SubSeq(code, 1, n)
    BY DEF Prefixes
  <1>3. n \in 0..MaxCode /\ \A i \in 1..n : code[i] \in Letters
    BY <1>1, <1>2
  <1>4. p \in [1..n -> Letters] /\ Len(p) = n
    <2>1. n \in Nat /\ \A i \in 1..n : SubSeq(code, 1, n)[i] = code[i]
      BY <1>1, <1>2
    <2>2. p \in Seq(Letters) /\ Len(p) = n
      BY <1>2, <1>3, <2>1, SubSeqProperties
    <2> QED
      BY <2>2, LenProperties
  <1>5. ASSUME NEW m \in 0..n PROVE SubSeq(p, 1, m) = SubSeq(code, 1, m)
    BY <1>1, <1>2, <1>3, <1>4, <1>5
  <1>6. \A m \in 0..n : m \in 0..Len(code)
    BY <1>1, <1>2
  <1> QED
    BY <1>3, <1>4, <1>5, <1>6 DEF Codes, Prefixes

LEMMA CodeIsPrefix == ASSUME NEW code \in Codes PROVE code \in Prefixes(code)
  <1>1. code \in Seq(Letters) /\ Len(code) \in Nat
    BY CodeIsSequence, WubiAssumption
  <1>2. SubSeq(code, 1, Len(code)) = code
    BY <1>1, SubSeqFull
  <1>3. Len(code) \in 0..Len(code)
    BY <1>1
  <1> QED
    BY <1>2, <1>3 DEF Prefixes

LEMMA RootIsCode == <<>> \in Codes /\ Prefixes(<<>>) = {<<>>}
  <1>1. <<>> \in [1..0 -> Letters] /\ 0 \in 0..MaxCode
    BY WubiAssumption
  <1>2. SubSeq(<<>>, 1, 0) = <<>> /\ 0..Len(<<>>) = {0}
    BY EmptySeq, SubSeqEmpty
  <1>3. <<>> \in Codes
    BY <1>1 DEF Codes
  <1>4. ASSUME NEW p \in Prefixes(<<>>) PROVE p = <<>>
    <2>1. PICK n \in 0..Len(<<>>) : p = SubSeq(<<>>, 1, n)
      BY DEF Prefixes
    <2>2. n = 0
      BY <1>2, <2>1
    <2> QED
      BY <1>2, <2>1, <2>2
  <1> QED
    BY <1>3, <1>4, CodeIsPrefix

Values == UNION {[fs -> Texts] : fs \in SUBSET Freqs}

LEMMA ValuesAre ==
  ASSUME NEW m
  PROVE  m \in Values <=>
           /\ m = [k \in DOMAIN m |-> m[k]] /\ DOMAIN m \subseteq Freqs
           /\ \A k \in DOMAIN m : m[k] \in Texts
  BY DEF Values

LEMMA PutIsValues ==
  ASSUME NEW m \in Values, NEW k \in Freqs, NEW v \in Texts
  PROVE  Put(m, k, v) \in Values /\ Put(m, k, v) # Empty
  <1>1. /\ DOMAIN Put(m, k, v) = DOMAIN m \cup {k}
        /\ \A j \in DOMAIN m : Put(m, k, v)[j] = m[j]
        /\ k \notin DOMAIN m => Put(m, k, v)[k] = v
    BY DEF Put
  <1>2. Put(m, k, v) = [j \in DOMAIN Put(m, k, v) |-> Put(m, k, v)[j]]
    BY ValuesAre DEF Put
  <1>3. Put(m, k, v) \in Values
    BY <1>1, <1>2, ValuesAre
  <1>4. Put(m, k, v) # Empty
    BY <1>1 DEF Empty
  <1> QED
    BY <1>3, <1>4

LEMMA EmptyIsValues == Empty \in Values
  <1>1. Empty \in [{} -> Texts] /\ {} \in SUBSET Freqs
    BY DEF Empty
  <1> QED
    BY <1>1 DEF Values

(***************************************************************************)
(* The nodes.                                                              *)
(***************************************************************************)
Sound(nodes) ==
  /\ DOMAIN nodes \subseteq Codes
  /\ \A p \in DOMAIN nodes : /\ nodes[p] \in Node
                             /\ nodes[p].isEndOfWord <=> nodes[p].values # Empty
                             /\ Prefixes(p) \subseteq DOMAIN nodes

LEMMA NewNodeIsNode == NewNode \in Node /\ NewNode.values = Empty /\ ~NewNode.isEndOfWord
  BY EmptyIsValues DEF NewNode, Node, Values

(* What an insertion makes of the nodes: one has a word more, and those    *)
(* that are new on the way to it are empty.                                *)
LEMMA InsertKeepsSound ==
  ASSUME NEW nodes, Sound(nodes), NEW code \in Codes, NEW text \in Texts, NEW freq \in Freqs,
         NEW new, new = TrieInsert(nodes, code, text, freq)
  PROVE  /\ Sound(new)
         /\ DOMAIN new = DOMAIN nodes \cup Prefixes(code)
         /\ new[code].values =
              Put(IF code \in DOMAIN nodes THEN nodes[code].values ELSE Empty, freq, text)
         /\ \A p \in DOMAIN new \ {code} :
              new[p].values = IF p \in DOMAIN nodes THEN nodes[p].values ELSE Empty
  <1> DEFINE old == IF code \in DOMAIN nodes THEN nodes[code] ELSE NewNode
  <1>0. code \in Prefixes(code)
    BY CodeIsPrefix
  <1>1. old \in Node /\ old.values \in Values
    BY NewNodeIsNode DEF Sound, Node, Values
  <1>2. DOMAIN new = DOMAIN nodes \cup Prefixes(code)
    BY DEF TrieInsert
  <1>3. new[code] = [isEndOfWord |-> TRUE, values |-> Put(old.values, freq, text)]
    BY <1>0 DEF TrieInsert
  <1>4. \A p \in DOMAIN new \ {code} : new[p] = IF p \in DOMAIN nodes THEN nodes[p] ELSE NewNode
    BY <1>2 DEF TrieInsert
  <1> HIDE DEF old
  <1>5. new[code] \in Node /\ new[code].isEndOfWord /\ new[code].values # Empty
    <2>1. Put(old.values, freq, text) \in Values /\ Put(old.values, freq, text) # Empty
      BY <1>1, PutIsValues
    <2> QED
      BY <1>3, <2>1 DEF Node, Values
  <1>6. ASSUME NEW p \in DOMAIN new
        PROVE  /\ p \in Codes /\ new[p] \in Node
               /\ new[p].isEndOfWord <=> new[p].values # Empty
               /\ Prefixes(p) \subseteq DOMAIN new
    <2>1. p \in Codes /\ Prefixes(p) \subseteq DOMAIN new
      BY <1>2, PrefixIsCode DEF Sound
    <2>2. CASE p = code
      BY <1>5, <2>1, <2>2
    <2>3. CASE p # code
      BY <1>4, <2>1, <2>3, NewNodeIsNode DEF Sound
    <2> QED
      BY <2>2, <2>3
  <1>7. Sound(new)
    BY <1>6 DEF Sound
  <1>8. old.values = IF code \in DOMAIN nodes THEN nodes[code].values ELSE Empty
    BY NewNodeIsNode DEF old
  <1> QED
    BY <1>2, <1>3, <1>4, <1>7, <1>8, NewNodeIsNode

LEMMA FoundIfThere == ASSUME Sound(trie), NEW code \in Codes PROVE Found(code) <=> code \in DOMAIN trie
  BY CodeIsPrefix DEF Found, Sound

LEMMA TypesAreSound == TypeOK /\ EndsHaveWords <=> TypeOK /\ Sound(trie)
  BY DEF TypeOK, EndsHaveWords, Sound

(***************************************************************************)
(* The invariant.                                                          *)
(***************************************************************************)
LEMMA InitIInv == Init => IInv
  <1> SUFFICES ASSUME Init PROVE IInv
    OBVIOUS
  <1> USE DEF Init
  <1>1. DOMAIN trie = {<<>>} /\ trie[<<>>] = NewNode
    OBVIOUS
  <1>2. Sound(trie)
    BY <1>1, RootIsCode, NewNodeIsNode DEF Sound
  <1>3. TypeOK
    BY <1>2, EmptySeq DEF TypeOK, Sound, Empty
  <1>4. HintIsFirstCode
    BY EmptySeq DEF HintIsFirstCode, Empty
  <1> QED
    BY <1>2, <1>3, <1>4, TypesAreSound DEF IInv

LEMMA EntryKeepsTypes ==
  ASSUME TypeOK, EndsHaveWords, NEW code \in Codes, NEW text \in Texts, NEW freq \in Freqs,
         Entry(code, text, freq)
  PROVE  TypeOK' /\ EndsHaveWords'
  <1>1. Sound(trie')
    BY InsertKeepsSound, TypesAreSound DEF Entry
  <1>2. DOMAIN codeOf' = DOMAIN codeOf \cup {text} /\ \A t \in DOMAIN codeOf' : codeOf'[t] \in Codes
    BY DEF Entry, CodeKept, Put, TypeOK
  <1>3. entries' \in Seq([code : Codes, text : Texts, freq : Freqs])
    BY AppendProperties DEF Entry, TypeOK
  <1> QED
    BY <1>1, <1>2, <1>3 DEF TypeOK, EndsHaveWords, Sound, Entry

LEMMA EntryInserts ==
  ASSUME IInv, NEW code \in Codes, NEW text \in Texts, NEW freq \in Freqs, Entry(code, text, freq)
  PROVE  /\ DOMAIN trie' = DOMAIN trie \cup Prefixes(code) /\ code \in DOMAIN trie'
         /\ trie'[code].values =
              Put(IF code \in DOMAIN trie THEN trie[code].values ELSE Empty, freq, text)
         /\ \A p \in DOMAIN trie' \ {code} :
              trie'[p].values = IF p \in DOMAIN trie THEN trie[p].values ELSE Empty
  <1> DEFINE old == IF code \in DOMAIN trie THEN trie[code] ELSE NewNode
  <1>0. code \in Prefixes(code)
    BY CodeIsPrefix
  <1>1. DOMAIN trie' = DOMAIN trie \cup Prefixes(code)
    BY DEF Entry, TrieInsert
  <1>2. trie'[code] = [isEndOfWord |-> TRUE, values |-> Put(old.values, freq, text)]
    BY <1>0 DEF Entry, TrieInsert
  <1>3. \A p \in DOMAIN trie' \ {code} : trie'[p] = IF p \in DOMAIN trie THEN trie[p] ELSE NewNode
    BY <1>1 DEF Entry, TrieInsert
  <1>4. old.values = IF code \in DOMAIN trie THEN trie[code].values ELSE Empty
    BY NewNodeIsNode
  <1> HIDE DEF old
  <1>5. trie'[code].values =
          Put(IF code \in DOMAIN trie THEN trie[code].values ELSE Empty, freq, text)
    BY <1>2, <1>4
  <1>6. \A p \in DOMAIN trie' \ {code} :
          trie'[p].values = IF p \in DOMAIN trie THEN trie[p].values ELSE Empty
    BY <1>3, NewNodeIsNode
  <1> QED
    BY <1>0, <1>1, <1>5, <1>6

LEMMA EntryKeepsHints ==
  ASSUME IInv, NEW code \in Codes, NEW text \in Texts, NEW freq \in Freqs, Entry(code, text, freq)
  PROVE  HintIsFirstCode'
  <1> DEFINE Lines(es, t) == {i \in DOMAIN es : es[i].text = t}
             n == Len(entries)
             First(es, m, t) == IF Lines(es, t) = {} THEN t \notin DOMAIN m
                                ELSE \E i \in Lines(es, t) :
                                       /\ \A j \in Lines(es, t) : i <= j
                                       /\ t \in DOMAIN m /\ m[t] = es[i].code
  <1> SUFFICES ASSUME NEW t \in Texts PROVE First(entries', codeOf', t)
    BY DEF HintIsFirstCode
  <1>1. First(entries, codeOf, t)
    BY DEF IInv, HintIsFirstCode
  <1>2. n \in Nat /\ DOMAIN entries = 1..n
    BY LenProperties DEF IInv, TypeOK
  <1>3. /\ DOMAIN entries' = 1..(n + 1)
        /\ \A i \in 1..n : entries'[i] = entries[i]
        /\ entries'[n + 1].text = text /\ entries'[n + 1].code = code
    BY <1>2, AppendProperties DEF IInv, TypeOK, Entry
  <1>4. /\ DOMAIN codeOf' = DOMAIN codeOf \cup {text}
        /\ \A s \in DOMAIN codeOf : codeOf'[s] = codeOf[s]
        /\ text \notin DOMAIN codeOf => codeOf'[text] = code
    BY DEF Entry, CodeKept, Put
  <1> HIDE DEF n
  <1>5. CASE t # text
    <2>1. Lines(entries', t) = Lines(entries, t)
      BY <1>2, <1>3, <1>5
    <2> QED
      BY <1>1, <1>2, <1>3, <1>4, <1>5, <2>1
  <1>6. CASE t = text /\ Lines(entries, t) = {}
    <2>1. Lines(entries', t) = {n + 1}
      BY <1>2, <1>3, <1>6
    <2> QED
      BY <1>1, <1>2, <1>3, <1>4, <1>6, <2>1
  <1>7. CASE t = text /\ Lines(entries, t) # {}
    <2>1. Lines(entries', t) = Lines(entries, t) \cup {n + 1}
      BY <1>2, <1>3, <1>7
    <2>2. PICK i \in Lines(entries, t) :
            /\ \A j \in Lines(entries, t) : i <= j
            /\ t \in DOMAIN codeOf /\ codeOf[t] = entries[i].code
      BY <1>1, <1>7
    <2>3. i <= n + 1 /\ entries'[i] = entries[i] /\ codeOf'[t] = codeOf[t]
      BY <1>2, <1>3, <1>4, <2>2
    <2> QED
      BY <1>4, <2>1, <2>2, <2>3
  <1> QED
    BY <1>5, <1>6, <1>7

LEMMA NextIInv == IInv /\ [Next]_vars => IInv'
  <1> SUFFICES ASSUME IInv, [Next]_vars PROVE IInv'
    OBVIOUS
  <1>1. CASE Begin
    BY <1>1 DEF Begin, IInv, TypeOK, EndsHaveWords, HintIsFirstCode
  <1>2. CASE BadLine
    BY <1>2 DEF BadLine, IInv, TypeOK, EndsHaveWords, HintIsFirstCode
  <1>3. ASSUME NEW code \in Codes, NEW text \in Texts, NEW freq \in Freqs, Entry(code, text, freq)
        PROVE  IInv'
    BY <1>3, EntryKeepsTypes, EntryKeepsHints DEF IInv
  <1>4. CASE UNCHANGED vars
    BY <1>4 DEF vars, IInv, TypeOK, EndsHaveWords, HintIsFirstCode
  <1> QED
    BY <1>1, <1>2, <1>3, <1>4 DEF Next

LEMMA AlwaysIInv == Spec => []IInv
  BY InitIInv, NextIInv, PTL DEF Spec

(***************************************************************************)
(* The theorems.                                                           *)
(***************************************************************************)

(* Every variable has a value of its kind.                                 *)
THEOREM TypeCorrect == Spec => []TypeOK
  <1>1. IInv => TypeOK
    BY DEF IInv
  <1> QED
    BY <1>1, AlwaysIInv, PTL

(* The engine never takes the last value of a node that has none.          *)
THEOREM EndsAlwaysHaveWords == Spec => []EndsHaveWords
  <1>1. IInv => EndsHaveWords
    BY DEF IInv
  <1> QED
    BY <1>1, AlwaysIInv, PTL

(* The hint is the code the table lists first for the word.                *)
THEOREM HintAlwaysFirst == Spec => []HintIsFirstCode
  <1>1. IInv => HintIsFirstCode
    BY DEF IInv
  <1> QED
    BY <1>1, AlwaysIInv, PTL

(* No word of exactly the letters typed is hidden, whatever the words      *)
(* below it in the trie are.                                               *)
THEOREM ExactAlwaysOffered == Spec => []ExactNeverHidden
  <1>1. ASSUME IInv, NEW code \in Codes, NEW f \in DOMAIN WordsOf(code)
        PROVE  WordsOf(code)[f] \in Offered(code)
    <2> DEFINE own == trie[code].values
               best == Greatest(DOMAIN own)
    <2>1. Found(code) /\ code \in DOMAIN trie /\ WordsOf(code) = own
      BY <1>1, CodeIsPrefix DEF WordsOf, Empty, Found
    <2>2. trie[code].isEndOfWord
      BY <1>1, <2>1 DEF IInv, EndsHaveWords, Empty
    <2>3. CASE f = best
      <3>1. Exact(code) = <<own[best]>>
        BY <2>1, <2>2 DEF Exact
      <3>2. 1 \in DOMAIN Exact(code) /\ Exact(code)[1] = own[f]
        BY <2>3, <3>1
      <3> QED
        BY <2>1, <3>2 DEF Offered
    <2>4. CASE f # best
      <3>1. Others(code) = Merged(Without(own, best), SubTree[code])
        BY <2>1, <2>2 DEF Others
      <3>2. f \in DOMAIN Others(code) /\ Others(code)[f] = own[f]
        BY <2>1, <2>4, <3>1 DEF Merged, Without
      <3> QED
        BY <2>1, <3>2 DEF Offered
    <2> QED
      BY <2>3, <2>4
  <1>2. IInv => ExactNeverHidden
    BY <1>1 DEF ExactNeverHidden
  <1> QED
    BY <1>2, AlwaysIInv, PTL

(***************************************************************************)
(* The refinement.                                                         *)
(***************************************************************************)
Words == [code \in Codes |-> WordsOf(code)]

LEMMA WordsAre ==
  ASSUME Sound(trie), NEW code \in Codes
  PROVE  WordsOf(code) = IF code \in DOMAIN trie THEN trie[code].values ELSE Empty
  BY FoundIfThere DEF WordsOf

(* The trie implements WubiTable: a line changes the words of its own code *)
(* and of no other, however the codes overlap.                             *)
THEOREM TrieKeepsTable == Spec => KeepsTable
  <1>1. Init => Table!Init
    <2> SUFFICES ASSUME Init, NEW code \in Codes PROVE WordsOf(code) = Table!Empty
      BY DEF Table!Init
    <2>1. Sound(trie)
      BY InitIInv, TypesAreSound DEF IInv
    <2>2. DOMAIN trie = {<<>>} /\ trie[<<>>] = NewNode
      BY DEF Init
    <2> QED
      BY <2>1, <2>2, WordsAre, NewNodeIsNode DEF Empty, Table!Empty
  <1>2. ASSUME IInv, [Next]_vars PROVE [Table!Next]_Words
    <2>1. CASE UNCHANGED trie
      BY <2>1 DEF Words, WordsOf, Found
    <2>2. ASSUME NEW code \in Codes, NEW text \in Texts, NEW freq \in Freqs,
                 Entry(code, text, freq)
          PROVE  Table!Insert(code, text, freq)
      <3>1. Sound(trie) /\ Sound(trie') /\ trie' = TrieInsert(trie, code, text, freq)
        BY <1>2, <2>2, InsertKeepsSound, TypesAreSound DEF IInv, Entry
      <3>2. \A c \in Codes : WordsOf(c)' = IF c \in DOMAIN trie' THEN trie'[c].values ELSE Empty
        BY <3>1, CodeIsPrefix DEF WordsOf, Found, Sound
      <3>3. /\ DOMAIN trie' = DOMAIN trie \cup Prefixes(code) /\ code \in Prefixes(code)
            /\ trie'[code].values =
                 Put(IF code \in DOMAIN trie THEN trie[code].values ELSE Empty, freq, text)
            /\ \A p \in DOMAIN trie' \ {code} :
                 trie'[p].values = IF p \in DOMAIN trie THEN trie[p].values ELSE Empty
        BY <1>2, <2>2, EntryInserts, CodeIsPrefix
      <3>4. WordsOf(code)' = Put(WordsOf(code), freq, text)
        BY <3>1, <3>2, <3>3, WordsAre
      <3>5. \A c \in Codes \ {code} : WordsOf(c)' = WordsOf(c)
        BY <3>1, <3>2, <3>3, WordsAre
      <3> QED
        BY <3>4, <3>5 DEF Table!Insert, Table!Put, Put
    <2> QED
      BY <1>2, <2>1, <2>2 DEF Next, Begin, BadLine, vars, Table!Next, Words
  <1> QED
    BY <1>1, <1>2, AlwaysIInv, PTL DEF Spec, KeepsTable, Table!Spec, Words

(***************************************************************************)
(* Recursion.  A recursive function is what its equation says if there is  *)
(* such a function; that there is one is shown by induction on the number  *)
(* of places it is correct at.                                             *)
(***************************************************************************)
LEMMA LeastNumber ==
  ASSUME NEW S, S \subseteq Nat, S # {}
  PROVE  \E n \in S : \A k \in S : n <= k
  <1>1. PICK n \in S : \A k \in S : ~(<<k, n>> \in OpToRel(<, Nat))
    BY NatLessThanWellFounded, WFMin
  <1>2. \A k \in S : ~(k < n)
    BY <1>1 DEF OpToRel
  <1> QED
    BY <1>2

LEMMA Induction ==
  ASSUME NEW S, 0 \in S, \A n \in Nat : n \in S => n + 1 \in S
  PROVE  Nat \subseteq S
  <1> SUFFICES ASSUME Nat \ S # {} PROVE FALSE
    OBVIOUS
  <1>1. PICK n \in Nat \ S : \A k \in Nat \ S : n <= k
    BY LeastNumber
  <1>2. n # 0
    BY <1>1
  <1>3. n - 1 \in Nat /\ ~(n <= n - 1)
    BY <1>1, <1>2
  <1>4. n - 1 \in S
    BY <1>1, <1>3
  <1>5. (n - 1) + 1 \in S
    BY <1>3, <1>4
  <1> QED
    BY <1>1, <1>5

(* One round of the loop of SubTreeTraversal(), and the whole loop.        *)
Round(sub, p, m, l) ==
  IF Append(p, l) \notin DOMAIN trie THEN m
  ELSE Merged(m, Merged(trie[Append(p, l)].values, sub[Append(p, l)]))

Loop(sub, p, n, g) ==
  g = [l \in 0..n |-> IF l = 0 THEN Empty ELSE Round(sub, p, g[l - 1], l)]

LEMMA LoopExists == ASSUME NEW sub, NEW p PROVE \E g : Loop(sub, p, LetterCount, g)
  <1> DEFINE S == {n \in Nat : \E g : Loop(sub, p, n, g)}
  <1>1. 0 \in S
    <2>1. Loop(sub, p, 0, [l \in 0..0 |-> Empty])
      BY DEF Loop
    <2> QED
      BY <2>1
  <1>2. ASSUME NEW n \in Nat, n \in S PROVE n + 1 \in S
    <2>1. PICK g : Loop(sub, p, n, g)
      BY <1>2
    <2> DEFINE h == [l \in 0..(n + 1) |-> IF l = n + 1 THEN Round(sub, p, g[n], n + 1) ELSE g[l]]
    <2>2. ASSUME NEW l \in 0..(n + 1)
          PROVE  h[l] = IF l = 0 THEN Empty ELSE Round(sub, p, h[l - 1], l)
      <3>1. CASE l = n + 1
        <4>1. l # 0 /\ l - 1 = n /\ n \in 0..(n + 1) /\ n # n + 1
          BY <3>1
        <4>2. h[l - 1] = g[n]
          BY <4>1
        <4> QED
          BY <3>1, <4>1, <4>2
      <3>2. CASE l # n + 1
        <4>1. l \in 0..n /\ h[l] = g[l]
          BY <3>2
        <4>2. g[l] = IF l = 0 THEN Empty ELSE Round(sub, p, g[l - 1], l)
          BY <2>1, <4>1 DEF Loop
        <4>3. l # 0 => l - 1 \in 0..(n + 1) /\ l - 1 # n + 1
          BY <4>1
        <4>4. l # 0 => h[l - 1] = g[l - 1]
          BY <4>3
        <4> QED
          BY <4>1, <4>2, <4>4
      <3> QED
        BY <3>1, <3>2
    <2>3. h = [l \in 0..(n + 1) |-> IF l = 0 THEN Empty ELSE Round(sub, p, h[l - 1], l)]
      BY <2>2
    <2> HIDE DEF h
    <2>4. Loop(sub, p, n + 1, h)
      BY <2>3 DEF Loop
    <2> QED
      BY <2>4
  <1> HIDE DEF S
  <1>3. LetterCount \in S
    BY <1>1, <1>2, Induction, WubiAssumption
  <1> QED
    BY <1>3 DEF S

LEMMA BelowIsLoop ==
  ASSUME NEW sub, NEW p
  PROVE  \E g : Loop(sub, p, LetterCount, g) /\ Below(sub, p) = g[LetterCount]
  <1> DEFINE R(g) == [l \in 0..LetterCount |->
                        IF l = 0 THEN Empty
                        ELSE LET child == Append(p, l)
                             IN  IF child \notin DOMAIN trie THEN g[l - 1]
                                 ELSE Merged(g[l - 1], Merged(trie[child].values, sub[child]))]
  <1> DEFINE b == CHOOSE g : g = R(g)
  <1>1. \E g : g = R(g)
    BY LoopExists DEF Loop, Round
  <1>2. b = R(b)
    BY <1>1
  <1>3. Loop(sub, p, LetterCount, b)
    BY <1>2 DEF Loop, Round
  <1>4. Below(sub, p) = b[LetterCount]
    BY DEF Below
  <1> QED
    BY <1>3, <1>4

(* What the loop collects: all that the children and their subtrees have,  *)
(* and nothing else.                                                       *)
HasOf(sub, q, f) == f \in DOMAIN trie[q].values \/ f \in DOMAIN sub[q]
IsOf(sub, q, f, text) ==
  \/ f \in DOMAIN trie[q].values /\ text = trie[q].values[f]
  \/ f \in DOMAIN sub[q] /\ text = sub[q][f]

LEMMA BelowCollects ==
  ASSUME NEW sub, NEW p
  PROVE  /\ \A l \in Letters : \A f : Append(p, l) \in DOMAIN trie /\ HasOf(sub, Append(p, l), f)
                                    => f \in DOMAIN Below(sub, p)
         /\ \A f \in DOMAIN Below(sub, p) : \E l \in Letters :
              Append(p, l) \in DOMAIN trie /\ IsOf(sub, Append(p, l), f, Below(sub, p)[f])
  <1>1. PICK g : Loop(sub, p, LetterCount, g) /\ Below(sub, p) = g[LetterCount]
    BY BelowIsLoop
  <1> DEFINE Has(n) == \A l \in 1..n : \A f : Append(p, l) \in DOMAIN trie /\ HasOf(sub, Append(p, l), f)
                                            => f \in DOMAIN g[n]
  <1> DEFINE Is(n) == \A f \in DOMAIN g[n] : \E l \in 1..n :
                        Append(p, l) \in DOMAIN trie /\ IsOf(sub, Append(p, l), f, g[n][f])
  <1> DEFINE S == {n \in Nat : n <= LetterCount => Has(n) /\ Is(n)}
  <1>2. 0 \in S
    <2>1. g[0] = Empty /\ DOMAIN g[0] = {}
      BY <1>1, WubiAssumption DEF Loop, Empty
    <2> QED
      BY <2>1
  <1>3. ASSUME NEW n \in Nat, n \in S PROVE n + 1 \in S
    <2> SUFFICES ASSUME n + 1 <= LetterCount PROVE Has(n + 1) /\ Is(n + 1)
      BY DEF S
    <2>0. Has(n) /\ Is(n)
      BY <1>3, WubiAssumption
    <2>1. g[n + 1] = Round(sub, p, g[n], n + 1)
      <3>1. n + 1 \in 0..LetterCount /\ n + 1 # 0 /\ (n + 1) - 1 = n
        BY WubiAssumption
      <3> QED
        BY <1>1, <3>1 DEF Loop
    <2> DEFINE child == Append(p, n + 1)
    <2>2. \A l \in 1..(n + 1) : l \in 1..n \/ l = n + 1
      OBVIOUS
    <2>3. CASE child \notin DOMAIN trie
      <3>1. g[n + 1] = g[n]
        BY <2>1, <2>3 DEF Round
      <3> QED
        BY <2>0, <2>2, <2>3, <3>1
    <2>4. CASE child \in DOMAIN trie
      <3> DEFINE new == Merged(trie[child].values, sub[child])
      <3>1. g[n + 1] = Merged(g[n], new)
        BY <2>1, <2>4 DEF Round
      <3>2. /\ DOMAIN g[n + 1] = DOMAIN g[n] \cup DOMAIN new
            /\ \A f \in DOMAIN g[n] : g[n + 1][f] = g[n][f]
            /\ \A f \in DOMAIN new \ DOMAIN g[n] : g[n + 1][f] = new[f]
        BY <3>1 DEF Merged
      <3>3. /\ \A f : f \in DOMAIN new <=> HasOf(sub, child, f)
            /\ \A f \in DOMAIN new : IsOf(sub, child, f, new[f])
        BY DEF Merged, HasOf, IsOf
      <3> HIDE DEF new
      <3>4. Has(n + 1)
        BY <2>0, <2>2, <3>2, <3>3
      <3>5. Is(n + 1)
        <4> SUFFICES ASSUME NEW f \in DOMAIN g[n + 1]
                     PROVE  \E l \in 1..(n + 1) :
                              Append(p, l) \in DOMAIN trie /\ IsOf(sub, Append(p, l), f, g[n + 1][f])
          OBVIOUS
        <4>1. CASE f \in DOMAIN g[n]
          <5>1. PICK l \in 1..n : Append(p, l) \in DOMAIN trie /\ IsOf(sub, Append(p, l), f, g[n][f])
            BY <2>0, <4>1
          <5>2. l \in 1..(n + 1) /\ g[n + 1][f] = g[n][f]
            BY <3>2, <4>1
          <5> QED
            BY <5>1, <5>2
        <4>2. CASE f \notin DOMAIN g[n]
          <5>1. f \in DOMAIN new /\ g[n + 1][f] = new[f]
            BY <3>2, <4>2
          <5>2. IsOf(sub, child, f, g[n + 1][f]) /\ n + 1 \in 1..(n + 1)
            BY <3>3, <5>1
          <5> QED
            BY <2>4, <5>2
        <4> QED
          BY <4>1, <4>2
      <3> QED
        BY <3>4, <3>5
    <2> QED
      BY <2>3, <2>4
  <1> HIDE DEF S
  <1>4. LetterCount \in S
    BY <1>2, <1>3, Induction, WubiAssumption
  <1>5. Has(LetterCount) /\ Is(LetterCount)
    BY <1>4, WubiAssumption DEF S
  <1> QED
    BY <1>1, <1>5 DEF Letters

(* It looks at nothing but the children there are.                         *)
LEMMA BelowLooksDown ==
  ASSUME NEW sub, NEW tub, NEW p,
         \A l \in Letters : Append(p, l) \in DOMAIN trie => sub[Append(p, l)] = tub[Append(p, l)]
  PROVE  Below(sub, p) = Below(tub, p)
  <1>1. PICK g : Loop(sub, p, LetterCount, g) /\ Below(sub, p) = g[LetterCount]
    BY BelowIsLoop
  <1>2. PICK h : Loop(tub, p, LetterCount, h) /\ Below(tub, p) = h[LetterCount]
    BY BelowIsLoop
  <1> DEFINE S == {n \in Nat : n <= LetterCount => g[n] = h[n]}
  <1>3. 0 \in S
    BY <1>1, <1>2, WubiAssumption DEF Loop
  <1>4. ASSUME NEW n \in Nat, n \in S PROVE n + 1 \in S
    <2> SUFFICES ASSUME n + 1 <= LetterCount PROVE g[n + 1] = h[n + 1]
      BY DEF S
    <2>1. g[n] = h[n]
      BY <1>4, WubiAssumption
    <2>2. n + 1 \in 0..LetterCount /\ n + 1 # 0 /\ (n + 1) - 1 = n /\ n + 1 \in Letters
      BY WubiAssumption DEF Letters
    <2>3. g[n + 1] = Round(sub, p, g[n], n + 1) /\ h[n + 1] = Round(tub, p, h[n], n + 1)
      BY <1>1, <1>2, <2>2 DEF Loop
    <2>4. Round(sub, p, g[n], n + 1) = Round(tub, p, g[n], n + 1)
      BY <2>2 DEF Round
    <2> QED
      BY <2>1, <2>3, <2>4
  <1> HIDE DEF S
  <1>5. LetterCount \in S
    BY <1>3, <1>4, Induction, WubiAssumption
  <1>6. g[LetterCount] = h[LetterCount]
    BY <1>5, WubiAssumption DEF S
  <1> QED
    BY <1>1, <1>2, <1>6

LEMMA ChildIsLonger ==
  ASSUME Sound(trie), NEW p \in Codes, NEW l \in Letters, Append(p, l) \in DOMAIN trie
  PROVE  /\ Append(p, l) \in Codes /\ Len(Append(p, l)) = Len(p) + 1
         /\ Len(p) \in Nat /\ Len(p) < MaxCode
  <1>1. Append(p, l) \in Codes
    BY DEF Sound
  <1>2. p \in Seq(Letters) /\ Len(p) \in 0..MaxCode /\ Len(Append(p, l)) \in 0..MaxCode
    BY <1>1, CodeIsSequence
  <1>3. Len(Append(p, l)) = Len(p) + 1
    BY <1>2, AppendProperties
  <1> QED
    BY <1>1, <1>2, <1>3, WubiAssumption

Traversed(t, n) ==
  /\ t = [p \in Codes |-> t[p]]
  /\ \A p \in Codes : Len(p) + n >= MaxCode => t[p] = Below(t, p)

LEMMA TraversalExists == ASSUME Sound(trie) PROVE \E t : t = [p \in Codes |-> Below(t, p)]
  <1> DEFINE S == {n \in Nat : \E t : Traversed(t, n)}
  <1>0. \A p \in Codes : Len(p) \in Nat /\ Len(p) <= MaxCode
    BY CodeIsSequence, WubiAssumption
  <1>1. 0 \in S
    <2> DEFINE t == [p \in Codes |-> Below(Empty, p)]
    <2>1. ASSUME NEW p \in Codes, Len(p) + 0 >= MaxCode PROVE t[p] = Below(t, p)
      <3>1. \A l \in Letters : Append(p, l) \notin DOMAIN trie
        BY <1>0, <2>1, ChildIsLonger, WubiAssumption
      <3> HIDE DEF t
      <3>2. Below(Empty, p) = Below(t, p)
        BY <3>1, BelowLooksDown
      <3> QED
        BY <3>2 DEF t
    <2>2. Traversed(t, 0)
      BY <2>1 DEF Traversed
    <2> QED
      BY <2>2
  <1>2. ASSUME NEW n \in Nat, n \in S PROVE n + 1 \in S
    <2>1. PICK t : Traversed(t, n)
      BY <1>2
    <2> DEFINE u == [p \in Codes |-> Below(t, p)]
    <2>2. ASSUME NEW p \in Codes, Len(p) + (n + 1) >= MaxCode PROVE u[p] = Below(u, p)
      <3>1. ASSUME NEW l \in Letters, Append(p, l) \in DOMAIN trie
            PROVE  t[Append(p, l)] = u[Append(p, l)]
        <4>1. Append(p, l) \in Codes /\ Len(Append(p, l)) + n >= MaxCode
          BY <2>2, <3>1, ChildIsLonger, WubiAssumption
        <4> QED
          BY <2>1, <4>1 DEF Traversed
      <3> HIDE DEF u
      <3>2. Below(t, p) = Below(u, p)
        BY <3>1, BelowLooksDown
      <3> QED
        BY <3>2 DEF u
    <2>3. Traversed(u, n + 1)
      BY <2>2 DEF Traversed
    <2> QED
      BY <2>3
  <1> HIDE DEF S
  <1>3. MaxCode \in S
    BY <1>1, <1>2, Induction, WubiAssumption
  <1>4. PICK t : Traversed(t, MaxCode)
    BY <1>3 DEF S
  <1>5. \A p \in Codes : Len(p) + MaxCode >= MaxCode
    BY <1>0, WubiAssumption
  <1>6. t = [p \in Codes |-> Below(t, p)]
    BY <1>4, <1>5 DEF Traversed
  <1> QED
    BY <1>6

LEMMA SubTreeIs ==
  ASSUME Sound(trie), NEW p \in Codes
  PROVE  SubTree[p] = Below(SubTree, p)
  <1> DEFINE s == CHOOSE t : t = [q \in Codes |-> Below(t, q)]
  <1>1. s = [q \in Codes |-> Below(s, q)]
    BY TraversalExists
  <1>2. SubTree = s
    BY DEF SubTree
  <1> QED
    BY <1>1, <1>2

(***************************************************************************)
(* What lies below a code.                                                 *)
(***************************************************************************)
LEMMA PrefixStarts ==
  ASSUME NEW q \in Codes, NEW p \in Codes, StartsWith(q, p)
  PROVE  p \in Prefixes(q)
  <1>1. Len(p) \in Nat /\ Len(q) \in Nat /\ Len(p) <= Len(q) /\ p = SubSeq(q, 1, Len(p))
    BY CodeIsSequence, WubiAssumption DEF StartsWith
  <1>2. Len(p) \in 0..Len(q)
    BY <1>1
  <1> QED
    BY <1>1, <1>2 DEF Prefixes

LEMMA StartsIs ==
  ASSUME NEW q \in Codes, NEW p \in Codes
  PROVE  StartsWith(q, p) <=> Len(p) <= Len(q) /\ \A i \in 1..Len(p) : q[i] = p[i]
  <1>1. q \in Seq(Letters) /\ p \in Seq(Letters) /\ Len(p) \in Nat /\ Len(q) \in Nat
    BY CodeIsSequence, WubiAssumption
  <1>2. ASSUME Len(p) <= Len(q)
        PROVE  SubSeq(q, 1, Len(p)) = p <=> \A i \in 1..Len(p) : q[i] = p[i]
    <2> DEFINE s == SubSeq(q, 1, Len(p))
    <2>1. Len(p) \in 0..Len(q) /\ 1 \in 1..(Len(q) + 1)
      BY <1>1, <1>2
    <2>2. /\ s \in Seq(Letters) /\ Len(s) = Len(p)
          /\ \A i \in 1..Len(p) : s[i] = q[i]
      BY <1>1, <1>2, <2>1, SubSeqProperties
    <2> HIDE DEF s
    <2>3. s = p <=> \A i \in 1..Len(p) : s[i] = p[i]
      BY <1>1, <2>2, SeqEqual
    <2>4. s = p <=> \A i \in 1..Len(p) : q[i] = p[i]
      BY <2>2, <2>3
    <2> QED
      BY <2>4 DEF s
  <1> QED
    BY <1>2 DEF StartsWith

LEMMA AppendCode ==
  ASSUME Sound(trie), NEW p \in Codes, NEW l \in Letters, Append(p, l) \in DOMAIN trie
  PROVE  /\ \A i \in 1..Len(p) : Append(p, l)[i] = p[i]
         /\ Append(p, l)[Len(p) + 1] = l
  BY CodeIsSequence, AppendProperties

(* A node below p is a child of p or lies below one.                       *)
LEMMA ThroughChild ==
  ASSUME Sound(trie), NEW p \in Codes, NEW q \in DOMAIN trie, StartsWith(q, p), q # p
  PROVE  \E l \in Letters : Append(p, l) \in DOMAIN trie /\ StartsWith(q, Append(p, l))
  <1>1. q \in Codes /\ q \in Seq(Letters) /\ p \in Seq(Letters) /\ Len(p) \in Nat /\ Len(q) \in Nat
    BY CodeIsSequence, WubiAssumption DEF Sound
  <1>2. Len(p) <= Len(q) /\ \A i \in 1..Len(p) : q[i] = p[i]
    BY <1>1, StartsIs
  <1>3. Len(p) # Len(q)
    BY <1>1, <1>2, SeqEqual
  <1> DEFINE n == Len(p) + 1
             l == q[n]
             c == SubSeq(q, 1, n)
  <1>4. n \in 1..Len(q) /\ l \in Letters
    BY <1>1, <1>2, <1>3, ElementOfSeq
  <1>5. c \in Prefixes(q)
    BY <1>4, <1>1 DEF Prefixes
  <1>6. c \in DOMAIN trie /\ c \in Codes
    BY <1>5 DEF Sound
  <1>7. c \in Seq(Letters) /\ Len(c) = n /\ \A i \in 1..n : c[i] = q[i]
    <2>1. n \in 0..Len(q) /\ 1 \in 1..(Len(q) + 1)
      BY <1>1, <1>4
    <2> QED
      BY <1>1, <2>1, SubSeqProperties
  <1>8. Append(p, l) = c
    <2> DEFINE a == Append(p, l)
    <2>1. a \in Seq(Letters) /\ Len(a) = n /\ a[n] = l /\ \A i \in 1..Len(p) : a[i] = p[i]
      BY <1>1, <1>4, AppendProperties
    <2> HIDE DEF a
    <2>2. \A i \in 1..n : a[i] = c[i]
      BY <1>1, <1>2, <1>4, <1>7, <2>1
    <2> QED
      BY <1>7, <2>1, <2>2, SeqEqual DEF a
  <1>9. StartsWith(q, c)
    BY <1>1, <1>4, <1>7 DEF StartsWith
  <1> QED
    BY <1>4, <1>6, <1>8, <1>9

LEMMA ChildStarts ==
  ASSUME Sound(trie), NEW p \in Codes, NEW l \in Letters, Append(p, l) \in DOMAIN trie,
         NEW q \in DOMAIN trie, StartsWith(q, Append(p, l))
  PROVE  StartsWith(q, p)
  <1>1. q \in Codes /\ Append(p, l) \in Codes /\ Len(Append(p, l)) = Len(p) + 1
        /\ Len(p) \in Nat /\ Len(q) \in Nat
    BY ChildIsLonger, CodeIsSequence, WubiAssumption DEF Sound
  <1>2. Len(Append(p, l)) <= Len(q) /\ \A i \in 1..(Len(p) + 1) : q[i] = Append(p, l)[i]
    BY <1>1, StartsIs
  <1>3. Len(p) <= Len(q) /\ \A i \in 1..Len(p) : q[i] = p[i]
    BY <1>1, <1>2, AppendCode
  <1> QED
    BY <1>1, <1>3, StartsIs

LEMMA CodeStartsItself == ASSUME NEW p \in Codes PROVE StartsWith(p, p)
  BY CodeIsSequence, WubiAssumption, StartsIs

(* The traversal collects every frequency there is below p, with a word of *)
(* a node below p.                                                         *)
LEMMA SubTreeCollects ==
  ASSUME Sound(trie), NEW p \in Codes
  PROVE  /\ \A q \in DOMAIN trie : \A f \in DOMAIN trie[q].values :
              StartsWith(q, p) /\ q # p => f \in DOMAIN SubTree[p]
         /\ \A f \in DOMAIN SubTree[p] : \E q \in DOMAIN trie :
              /\ StartsWith(q, p) /\ f \in DOMAIN trie[q].values
              /\ SubTree[p][f] = trie[q].values[f]
  <1> DEFINE All(c) == \A q \in DOMAIN trie : \A f \in DOMAIN trie[q].values :
                         StartsWith(q, c) /\ q # c => f \in DOMAIN SubTree[c]
  <1> DEFINE Only(c) == \A f \in DOMAIN SubTree[c] : \E q \in DOMAIN trie :
                          /\ StartsWith(q, c) /\ f \in DOMAIN trie[q].values
                          /\ SubTree[c][f] = trie[q].values[f]
  <1> DEFINE S == {n \in Nat : \A c \in Codes : Len(c) + n > MaxCode => All(c) /\ Only(c)}
  <1>0. \A c \in Codes : Len(c) \in Nat /\ Len(c) <= MaxCode
    BY CodeIsSequence, WubiAssumption
  <1>1. 0 \in S
    BY <1>0, WubiAssumption
  <1>2. ASSUME NEW n \in Nat, n \in S PROVE n + 1 \in S
    <2> SUFFICES ASSUME NEW c \in Codes, Len(c) + (n + 1) > MaxCode PROVE All(c) /\ Only(c)
      BY DEF S
    <2>1. ASSUME NEW l \in Letters, Append(c, l) \in DOMAIN trie
          PROVE  All(Append(c, l)) /\ Only(Append(c, l))
      <3>1. Append(c, l) \in Codes /\ Len(Append(c, l)) + n > MaxCode
        BY <2>1, ChildIsLonger, WubiAssumption
      <3> QED
        BY <1>2, <3>1
    <2>2. SubTree[c] = Below(SubTree, c)
      BY SubTreeIs
    <2>3. All(c)
      <3> SUFFICES ASSUME NEW q \in DOMAIN trie, NEW f \in DOMAIN trie[q].values,
                          StartsWith(q, c), q # c
                   PROVE  f \in DOMAIN SubTree[c]
        OBVIOUS
      <3>1. PICK l \in Letters : Append(c, l) \in DOMAIN trie /\ StartsWith(q, Append(c, l))
        BY ThroughChild
      <3>2. HasOf(SubTree, Append(c, l), f)
        BY <2>1, <3>1 DEF HasOf
      <3> QED
        BY <2>2, <3>1, <3>2, BelowCollects
    <2>4. Only(c)
      <3> SUFFICES ASSUME NEW f \in DOMAIN SubTree[c]
                   PROVE  \E q \in DOMAIN trie : /\ StartsWith(q, c) /\ f \in DOMAIN trie[q].values
                                                 /\ SubTree[c][f] = trie[q].values[f]
        OBVIOUS
      <3>1. PICK l \in Letters : Append(c, l) \in DOMAIN trie /\ IsOf(SubTree, Append(c, l), f, SubTree[c][f])
        BY <2>2, BelowCollects
      <3>2. CASE /\ f \in DOMAIN trie[Append(c, l)].values
                 /\ SubTree[c][f] = trie[Append(c, l)].values[f]
        <4>1. StartsWith(Append(c, l), c)
          BY <3>1, ChildIsLonger, CodeStartsItself, ChildStarts
        <4> QED
          BY <3>1, <3>2, <4>1
      <3>3. CASE f \in DOMAIN SubTree[Append(c, l)] /\ SubTree[c][f] = SubTree[Append(c, l)][f]
        <4>1. PICK q \in DOMAIN trie : /\ StartsWith(q, Append(c, l)) /\ f \in DOMAIN trie[q].values
                                       /\ SubTree[Append(c, l)][f] = trie[q].values[f]
          BY <2>1, <3>1, <3>3
        <4>2. StartsWith(q, c)
          BY <3>1, <4>1, ChildStarts
        <4> QED
          BY <3>3, <4>1, <4>2
      <3> QED
        BY <3>1, <3>2, <3>3 DEF IsOf
    <2> QED
      BY <2>3, <2>4
  <1> HIDE DEF S
  <1>3. MaxCode + 1 \in S
    BY <1>1, <1>2, Induction, WubiAssumption
  <1>4. Len(p) + (MaxCode + 1) > MaxCode
    BY <1>0, WubiAssumption
  <1>5. All(p) /\ Only(p)
    BY <1>3, <1>4 DEF S
  <1> QED
    BY <1>5

(***************************************************************************)
(* The lines.  Every line has a word of its code and frequency in the      *)
(* trie, if not its own, and every word in the trie is that of a line.     *)
(***************************************************************************)
LinesKept(nodes, es) ==
  /\ \A i \in DOMAIN es : es[i].code \in DOMAIN nodes /\ es[i].freq \in DOMAIN nodes[es[i].code].values
  /\ \A p \in DOMAIN nodes : \A f \in DOMAIN nodes[p].values : \E i \in DOMAIN es :
       es[i].code = p /\ es[i].freq = f /\ es[i].text = nodes[p].values[f]

LEMMA InitLines == Init => LinesKept(trie, entries)
  BY EmptySeq, NewNodeIsNode DEF Init, LinesKept, Empty

LEMMA EntryKeepsLines ==
  ASSUME IInv, LinesKept(trie, entries),
         NEW code \in Codes, NEW text \in Texts, NEW freq \in Freqs, Entry(code, text, freq)
  PROVE  LinesKept(trie', entries')
  <1> DEFINE n == Len(entries)
             old == IF code \in DOMAIN trie THEN trie[code].values ELSE Empty
  <1>1. n \in Nat /\ DOMAIN entries = 1..n
    BY LenProperties DEF IInv, TypeOK
  <1>2. /\ DOMAIN entries' = 1..(n + 1)
        /\ \A i \in 1..n : entries'[i] = entries[i]
        /\ entries'[n + 1] = [code |-> code, text |-> text, freq |-> freq]
    BY <1>1, AppendProperties DEF IInv, TypeOK, Entry
  <1>3. /\ DOMAIN trie' = DOMAIN trie \cup Prefixes(code) /\ code \in DOMAIN trie'
        /\ trie'[code].values = Put(old, freq, text)
        /\ \A p \in DOMAIN trie' \ {code} :
             trie'[p].values = IF p \in DOMAIN trie THEN trie[p].values ELSE Empty
    BY EntryInserts
  <1>4. /\ DOMAIN trie'[code].values = DOMAIN old \cup {freq}
        /\ \A f \in DOMAIN old : trie'[code].values[f] = old[f]
        /\ freq \notin DOMAIN old => trie'[code].values[freq] = text
    BY <1>3 DEF Put
  <1>5. \A p \in DOMAIN trie : p \in DOMAIN trie' /\ DOMAIN trie[p].values \subseteq DOMAIN trie'[p].values
    BY <1>3, <1>4
  <1> HIDE DEF n
  <1>6. ASSUME NEW i \in DOMAIN entries'
        PROVE  /\ entries'[i].code \in DOMAIN trie'
               /\ entries'[i].freq \in DOMAIN trie'[entries'[i].code].values
    <2>1. CASE i \in 1..n
      BY <1>1, <1>2, <1>5, <2>1 DEF LinesKept
    <2>2. CASE i = n + 1
      BY <1>2, <1>3, <1>4, <2>2
    <2> QED
      BY <1>1, <1>2, <2>1, <2>2
  <1>7. ASSUME NEW p \in DOMAIN trie', NEW f \in DOMAIN trie'[p].values
        PROVE  \E i \in DOMAIN entries' :
                 /\ entries'[i].code = p /\ entries'[i].freq = f
                 /\ entries'[i].text = trie'[p].values[f]
    <2>1. ASSUME p \in DOMAIN trie, f \in DOMAIN trie[p].values, trie'[p].values[f] = trie[p].values[f]
          PROVE  \E i \in DOMAIN entries' :
                   /\ entries'[i].code = p /\ entries'[i].freq = f
                   /\ entries'[i].text = trie'[p].values[f]
      <3>1. PICK i \in DOMAIN entries : entries[i].code = p /\ entries[i].freq = f
                                        /\ entries[i].text = trie[p].values[f]
        BY <2>1 DEF LinesKept
      <3>2. i \in DOMAIN entries' /\ entries'[i] = entries[i]
        BY <1>1, <1>2
      <3> QED
        BY <2>1, <3>1, <3>2
    <2>2. CASE p # code
      BY <1>3, <2>1, <2>2 DEF Empty
    <2>3. CASE p = code /\ f \in DOMAIN old
      BY <1>4, <2>1, <2>3 DEF Empty
    <2>4. CASE p = code /\ f \notin DOMAIN old
      <3>1. f = freq /\ trie'[p].values[f] = text
        BY <1>4, <2>4
      <3>2. n + 1 \in DOMAIN entries'
        BY <1>1, <1>2
      <3> QED
        BY <1>2, <2>4, <3>1, <3>2
    <2> QED
      BY <2>2, <2>3, <2>4
  <1> QED
    BY <1>6, <1>7 DEF LinesKept

LEMMA NextLines ==
  IInv /\ LinesKept(trie, entries) /\ [Next]_vars => LinesKept(trie', entries')
  <1> SUFFICES ASSUME IInv, LinesKept(trie, entries), [Next]_vars PROVE LinesKept(trie', entries')
    OBVIOUS
  <1>1. CASE UNCHANGED <<trie, entries>>
    BY <1>1
  <1>2. ASSUME NEW code \in Codes, NEW text \in Texts, NEW freq \in Freqs, Entry(code, text, freq)
        PROVE  LinesKept(trie', entries')
    BY <1>2, EntryKeepsLines
  <1> QED
    BY <1>1, <1>2 DEF Next, Begin, BadLine, vars

LEMMA LinesOffered ==
  ASSUME IInv, ExactNeverHidden, LinesKept(trie, entries)
  PROVE  LostOnlyToEqual
  <1> SUFFICES ASSUME NEW code \in Codes, NEW i \in DOMAIN entries, StartsWith(entries[i].code, code)
               PROVE  \E j \in DOMAIN entries :
                        /\ StartsWith(entries[j].code, code) /\ entries[j].freq = entries[i].freq
                        /\ entries[j].text \in Offered(code)
    BY DEF LostOnlyToEqual
  <1> DEFINE q == entries[i].code
             f == entries[i].freq
  <1>1. Sound(trie) /\ q \in DOMAIN trie /\ q \in Codes /\ f \in DOMAIN trie[q].values
    BY TypesAreSound DEF IInv, LinesKept, Sound
  <1>2. code \in DOMAIN trie /\ Found(code)
    BY <1>1, PrefixStarts, FoundIfThere DEF Sound
  <1>3. ASSUME NEW c \in DOMAIN trie, StartsWith(c, code), f \in DOMAIN trie[c].values,
               trie[c].values[f] \in Offered(code)
        PROVE  \E j \in DOMAIN entries :
                 /\ StartsWith(entries[j].code, code) /\ entries[j].freq = f
                 /\ entries[j].text \in Offered(code)
    <2>1. PICK j \in DOMAIN entries : entries[j].code = c /\ entries[j].freq = f
                                      /\ entries[j].text = trie[c].values[f]
      BY <1>3 DEF LinesKept
    <2> QED
      BY <1>3, <2>1
  <1>4. CASE f \in DOMAIN trie[code].values
    <2>1. trie[code].values[f] \in Offered(code)
      BY <1>2, <1>4 DEF ExactNeverHidden, WordsOf
    <2> QED
      BY <1>2, <1>3, <1>4, <2>1, CodeStartsItself
  <1>5. CASE f \notin DOMAIN trie[code].values
    <2>1. q # code
      BY <1>1, <1>5
    <2>2. f \in DOMAIN SubTree[code]
      BY <1>1, <2>1, SubTreeCollects
    <2>3. PICK c \in DOMAIN trie : /\ StartsWith(c, code) /\ f \in DOMAIN trie[c].values
                                   /\ SubTree[code][f] = trie[c].values[f]
      BY <1>1, <2>2, SubTreeCollects
    <2> DEFINE own == IF trie[code].isEndOfWord
                        THEN Without(trie[code].values, Greatest(DOMAIN trie[code].values))
                        ELSE Empty
    <2>4. Others(code) = Merged(own, SubTree[code])
      BY <1>2 DEF Others
    <2>5. f \notin DOMAIN own
      BY <1>5 DEF Without, Empty
    <2> HIDE DEF own
    <2>6. f \in DOMAIN Others(code) /\ Others(code)[f] = SubTree[code][f]
      BY <2>2, <2>4, <2>5 DEF Merged
    <2>7. SubTree[code][f] \in Offered(code)
      BY <2>6 DEF Offered
    <2> QED
      BY <1>3, <2>3, <2>7
  <1> QED
    BY <1>4, <1>5

(* No line is lost to anything but a line with its very frequency.         *)
THEOREM OnlyLostToEqual == Spec => []LostOnlyToEqual
  <1>1. Init => LinesKept(trie, entries)
    BY InitLines
  <1>2. IInv /\ LinesKept(trie, entries) /\ [Next]_vars => LinesKept(trie, entries)'
    BY NextLines DEF LinesKept
  <1>3. IInv /\ ExactNeverHidden /\ LinesKept(trie, entries) => LostOnlyToEqual
    BY LinesOffered
  <1> QED
    BY <1>1, <1>2, <1>3, AlwaysIInv, ExactAlwaysOffered, PTL DEF Spec
=============================================================================
