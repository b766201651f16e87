---------------------------- MODULE EngineProofs ----------------------------
(* Theorems about the module Engine, for any number of engines, any        *)
(* dictionaries and any bounds.                                            *)
EXTENDS Engine, SequenceTheorems, TLAPS

(***************************************************************************)
(* What every query returns, for every dictionary: a list of candidates,   *)
(* each with a text some dictionary holds for the letters queried.         *)
(***************************************************************************)
LEMMA FunctionIsSeq ==
  ASSUME NEW S, NEW n \in Nat, NEW f \in [1..n -> S]
  PROVE  f \in Seq(S)
BY SeqDef

(* The bounded inputs are the sequences of at most MaxInput letters.       *)
LEMMA InputsAreSequences ==
  \A s : s \in Inputs <=> s \in Seq(Letters) /\ Len(s) <= MaxInput
<1>1. ASSUME NEW s \in Inputs PROVE s \in Seq(Letters) /\ Len(s) <= MaxInput
  <2>1. PICK n \in 0..MaxInput : s \in [1..n -> Letters]
    BY <1>1 DEF Inputs
  <2>2. n \in Nat /\ n <= MaxInput
    BY <2>1, MaxInputAssumption
  <2>3. s \in Seq(Letters)
    BY <2>1, <2>2, SeqDef
  <2>4. Len(s) = n
    BY <2>1, <2>2, <2>3, LenProperties
  <2> QED BY <2>2, <2>3, <2>4
<1>2. ASSUME NEW s \in Seq(Letters), Len(s) <= MaxInput PROVE s \in Inputs
  <2>1. Len(s) \in 0..MaxInput /\ s \in [1..Len(s) -> Letters]
    BY <1>2, LenProperties, MaxInputAssumption
  <2> QED BY <2>1 DEF Inputs
<1> QED BY <1>1, <1>2

(* Typing and erasing a letter stay within the inputs.                     *)
LEMMA InputsClosed ==
  /\ <<>> \in Inputs
  /\ \A s \in Inputs, l \in Letters : Len(s) < MaxInput => Append(s, l) \in Inputs
  /\ \A s \in Inputs : s # <<>> => SubSeq(s, 1, Len(s) - 1) \in Inputs
<1>1. <<>> \in Inputs
  <2>1. <<>> \in Seq(Letters) /\ Len(<<>>) <= MaxInput
    BY EmptySeq, MaxInputAssumption
  <2> QED BY <2>1, InputsAreSequences, Zenon
<1>2. ASSUME NEW s \in Inputs, NEW l \in Letters, Len(s) < MaxInput
      PROVE  Append(s, l) \in Inputs
  <2>1. s \in Seq(Letters) /\ Len(s) \in Nat
    BY InputsAreSequences, LenProperties
  <2>2. Append(s, l) \in Seq(Letters) /\ Len(Append(s, l)) = Len(s) + 1
    BY <2>1
  <2>3. Len(Append(s, l)) <= MaxInput
    BY <1>2, <2>1, <2>2, MaxInputAssumption
  <2> QED BY <2>2, <2>3, InputsAreSequences, Zenon
<1>3. ASSUME NEW s \in Inputs, s # <<>>
      PROVE  SubSeq(s, 1, Len(s) - 1) \in Inputs
  <2>1. s \in Seq(Letters) /\ Len(s) \in Nat \ {0} /\ Len(s) <= MaxInput
    BY <1>3, InputsAreSequences, LenProperties, EmptySeq
  <2>2. \A i \in 1..(Len(s) - 1) : s[i] \in Letters
    BY <2>1, ElementOfSeq
  <2>3. /\ SubSeq(s, 1, Len(s) - 1) \in Seq(Letters)
        /\ Len(SubSeq(s, 1, Len(s) - 1)) = IF 1 <= Len(s) - 1 THEN Len(s) - 1 - 1 + 1 ELSE 0
    BY <2>1, <2>2, SubSeqProperties
  <2>4. Len(SubSeq(s, 1, Len(s) - 1)) <= MaxInput
    BY <2>1, <2>3, MaxInputAssumption
  <2> QED BY <2>3, <2>4, InputsAreSequences, Zenon
<1> QED BY <1>1, <1>2, <1>3

(* Marking texts makes candidates of them, with the same texts.            *)
LEMMA MarkedType ==
  ASSUME NEW T, T \subseteq Texts, NEW words \in Seq(T), NEW pinyin \in BOOLEAN
  PROVE  Marked(words, pinyin) \in Seq([text : T, isPinyin : BOOLEAN])
<1>1. Len(words) \in Nat /\ \A k \in 1..Len(words) : words[k] \in T
  BY LenProperties, ElementOfSeq
<1>2. Marked(words, pinyin) \in [1..Len(words) -> [text : T, isPinyin : BOOLEAN]]
  BY <1>1 DEF Marked
<1> QED BY <1>1, <1>2, FunctionIsSeq, Zenon

(* Alternating two sequences makes a sequence of their elements.           *)
LEMMA AlternateType ==
  ASSUME NEW S, NEW a \in Seq(S), NEW b \in Seq(S)
  PROVE  Alternate(a, b) \in Seq(S)
<1> DEFINE m == IF Len(a) < Len(b) THEN Len(a) ELSE Len(b)
<1> DEFINE n == Len(a) + Len(b)
<1>1. Len(a) \in Nat /\ Len(b) \in Nat /\ m \in Nat /\ m <= Len(a) /\ m <= Len(b) /\ n \in Nat
  BY LenProperties
<1>2. /\ \A k \in 1..Len(a) : a[k] \in S
      /\ \A k \in 1..Len(b) : b[k] \in S
  BY ElementOfSeq
<1>3. ASSUME NEW k \in 1..n
      PROVE  (IF k > 2 * m
                THEN IF Len(a) > m THEN a[k - m] ELSE b[k - m]
                ELSE IF k % 2 = 1 THEN a[(k + 1) \div 2] ELSE b[k \div 2]) \in S
  <2>1. CASE k > 2 * m /\ Len(a) > m
    <3>1. m = Len(b) /\ k - m \in 1..Len(a)
      BY <1>1, <1>3, <2>1
    <3> QED BY <1>2, <2>1, <3>1
  <2>2. CASE k > 2 * m /\ ~(Len(a) > m)
    <3>1. m = Len(a) /\ k - m \in 1..Len(b)
      BY <1>1, <1>3, <2>2
    <3> QED BY <1>2, <2>2, <3>1
  <2>3. CASE ~(k > 2 * m) /\ k % 2 = 1
    <3>1. (k + 1) \div 2 \in 1..Len(a)
      BY <1>1, <1>3, <2>3
    <3> QED BY <1>2, <2>3, <3>1
  <2>4. CASE ~(k > 2 * m) /\ k % 2 # 1
    <3>1. k \div 2 \in 1..Len(b)
      BY <1>1, <1>3, <2>4
    <3> QED BY <1>2, <2>4, <3>1
  <2> QED BY <2>1, <2>2, <2>3, <2>4
<1> HIDE DEF n
<1>4. Alternate(a, b) \in [1..n -> S]
  BY <1>3 DEF Alternate, n
<1> QED BY <1>1, <1>4, SeqDef

(* The sequences the dictionaries hold for s are sequences of texts        *)
(* offered for s.                                                          *)
LEMMA SeqOfItsTexts ==
  ASSUME NEW words \in Seq(Texts), NEW T, TextsOf(words) \subseteq T
  PROVE  words \in Seq(T)
<1>1. Len(words) \in Nat /\ words \in [1..Len(words) -> Texts] /\ DOMAIN words = 1..Len(words)
  BY LenProperties
<1>2. words \in [1..Len(words) -> T]
  BY <1>1 DEF TextsOf
<1> QED BY <1>1, <1>2, FunctionIsSeq

LEMMA OfferedSequences ==
  ASSUME NEW s \in Inputs
  PROVE  /\ PinyinWords[s] \in Seq(Offered[s])
         /\ \A t \in WubiTables : /\ WubiExact[t][s] \in Seq(Offered[s])
                                 /\ WubiOthers[t][s] \in Seq(Offered[s])
         /\ \A f \in FastFiles : FastOutput[f][s] \in Seq(Offered[s])
<1>1. /\ PinyinWords[s] \in Seq(Texts)
      /\ \A t \in WubiTables : WubiExact[t][s] \in Seq(Texts) /\ WubiOthers[t][s] \in Seq(Texts)
      /\ \A f \in FastFiles : FastOutput[f][s] \in Seq(Texts)
  BY DictionaryAssumption
<1>2. ASSUME NEW words \in Seq(Texts) PROVE TextsOf(words) \subseteq Texts
  BY LenProperties DEF TextsOf
<1>3. Offered[s] = {x \in Texts :
        \/ x \in TextsOf(PinyinWords[s])
        \/ \E t \in WubiTables : x \in TextsOf(WubiExact[t][s]) \cup TextsOf(WubiOthers[t][s])
        \/ \E f \in FastFiles : x \in TextsOf(FastOutput[f][s])}
  BY DEF Offered
<1>4. TextsOf(PinyinWords[s]) \subseteq Offered[s]
  BY <1>1, <1>2, <1>3
<1>5. ASSUME NEW t \in WubiTables
      PROVE  /\ TextsOf(WubiExact[t][s]) \subseteq Offered[s]
             /\ TextsOf(WubiOthers[t][s]) \subseteq Offered[s]
  BY <1>1, <1>2, <1>3
<1>6. ASSUME NEW f \in FastFiles
      PROVE  TextsOf(FastOutput[f][s]) \subseteq Offered[s]
  BY <1>1, <1>2, <1>3
<1> QED BY <1>1, <1>4, <1>5, <1>6, SeqOfItsTexts

LEMMA OfferedInTexts ==
  ASSUME NEW s \in Inputs
  PROVE  Offered[s] \subseteq Texts
BY DEF Offered

(* A query only returns texts a dictionary holds for the letters queried.  *)
LEMMA QueryType ==
  ASSUME NEW s \in Inputs, NEW pinyin \in BOOLEAN,
         NEW wanted, NEW t \in WubiTables \cup {None}
  PROVE  WubiPinyinQuery(s, pinyin, wanted, t) \in Seq([text : Offered[s], isPinyin : BOOLEAN])
<1> DEFINE C == [text : Offered[s], isPinyin : BOOLEAN]
<1> DEFINE wubiOn == wanted # None /\ t # None
<1> DEFINE exact == IF wubiOn THEN WubiExact[t][s] ELSE <<>>
<1> DEFINE others == IF wubiOn THEN WubiOthers[t][s] ELSE <<>>
<1> DEFINE decoded == IF pinyin THEN PinyinWords[s] ELSE <<>>
<1>1. Offered[s] \subseteq Texts
  BY OfferedInTexts
<1>2. exact \in Seq(Offered[s])
  BY OfferedSequences, EmptySeq
<1>3. others \in Seq(Offered[s])
  BY OfferedSequences, EmptySeq
<1>4. decoded \in Seq(Offered[s])
  BY OfferedSequences, EmptySeq
<1>5. Marked(exact, FALSE) \in Seq(C) /\ Marked(others, FALSE) \in Seq(C) /\ Marked(decoded, TRUE) \in Seq(C)
  BY <1>1, <1>2, <1>3, <1>4, MarkedType
<1>6. Alternate(Marked(others, FALSE), Marked(decoded, TRUE)) \in Seq(C)
  BY <1>5, AlternateType
<1>7. Marked(exact, FALSE) \o Alternate(Marked(others, FALSE), Marked(decoded, TRUE)) \in Seq(C)
  BY <1>5, <1>6, ConcatProperties
<1> QED BY <1>7 DEF WubiPinyinQuery

LEMMA FastType ==
  ASSUME NEW s \in Inputs, NEW f \in FastFiles \cup {None}
  PROVE  FastQuery(s, f) \in Seq([text : Offered[s], isPinyin : BOOLEAN])
<1>1. CASE f = None
  BY <1>1, EmptySeq DEF FastQuery
<1>2. CASE f # None
  <2>1. FastOutput[f][s] \in Seq(Offered[s]) /\ Offered[s] \subseteq Texts
    BY <1>2, OfferedSequences, OfferedInTexts
  <2> QED BY <1>2, <2>1, MarkedType DEF FastQuery
<1> QED BY <1>1, <1>2

LEMMA ListType ==
  ASSUME NEW s \in Inputs, NEW f \in FastFiles \cup {None}, NEW pinyin \in BOOLEAN,
         NEW wanted, NEW t \in WubiTables \cup {None}
  PROVE  FastQuery(s, f) \o WubiPinyinQuery(s, pinyin, wanted, t)
           \in Seq([text : Offered[s], isPinyin : BOOLEAN])
BY FastType, QueryType, ConcatProperties

(* Whatever the options are and whatever is installed, the list a query    *)
(* makes is one of Lists.                                                  *)
LEMMA ListInLists ==
  ASSUME NEW s \in Inputs, NEW f \in FastFiles \cup {None}, NEW pinyin \in BOOLEAN,
         NEW wanted, NEW t \in WubiTables \cup {None}
  PROVE  FastQuery(s, f) \o WubiPinyinQuery(s, pinyin, wanted, t) \in Lists(s)
<1> DEFINE w == IF wanted # None THEN t ELSE None
<1>1. w \in WubiTables \cup {None}
  OBVIOUS
<1>2. WubiPinyinQuery(s, pinyin, wanted, t) = WubiPinyinQuery(s, pinyin, w, w)
  <2>1. (wanted # None /\ t # None) <=> (w # None /\ w # None)
    OBVIOUS
  <2>2. w # None => w = t
    OBVIOUS
  <2> QED BY <2>1, <2>2 DEF WubiPinyinQuery
<1>3. FastQuery(s, f) \o WubiPinyinQuery(s, pinyin, w, w) \in Lists(s)
  BY <1>1 DEF Lists
<1> QED BY <1>2, <1>3

(* Every text in a list for s is offered for s.                            *)
LEMMA ListsAreOffered ==
  ASSUME NEW s \in Inputs, NEW list \in Lists(s)
  PROVE  list \in Seq([text : Offered[s], isPinyin : BOOLEAN])
<1>1. PICK f \in FastFiles \cup {None}, p \in BOOLEAN, w \in WubiTables \cup {None} :
        list = FastQuery(s, f) \o WubiPinyinQuery(s, p, w, w)
  BY DEF Lists
<1> QED BY <1>1, ListType

(***************************************************************************)
(* No paging and no cursor key takes the cursor out of the list, and the   *)
(* guint arithmetic of a digit key finds the place on the cursor's page.   *)
(***************************************************************************)
(* A list of elements of S with its cursor inside; 0 in the empty list.    *)
Sound(t, S) ==
  /\ t \in [cands : Seq(S), cursor : Nat]
  /\ IF t.cands = <<>> THEN t.cursor = 0 ELSE t.cursor < Size(t)

LEMMA Remainder ==
  ASSUME NEW n \in Nat
  PROVE  n % PageSize \in 0..(PageSize - 1) /\ n % PageSize <= n
BY PageSizeAssumption

LEMMA FilledSound ==
  ASSUME NEW S, NEW list \in Seq(S)
  PROVE  Sound(Filled(list), S)
BY EmptySeq DEF Sound, Filled, Size

LEMMA EmptySound == ASSUME NEW S PROVE Sound(EmptyTable, S)
BY EmptySeq DEF Sound, EmptyTable

LEMMA PageLengthType ==
  ASSUME NEW S, NEW t, Sound(t, S)
  PROVE  PageLength(t) \in 0..PageSize
<1>1. Size(t) \in Nat /\ t.cursor \in Nat
  BY LenProperties DEF Sound, Size
<1>2. CursorInPage(t) \in 0..(PageSize - 1) /\ CursorInPage(t) <= t.cursor
  BY <1>1, Remainder DEF CursorInPage
<1>3. CASE t.cands # <<>>
  BY <1>1, <1>2, <1>3, PageSizeAssumption DEF Sound, PageLength, PageStart
<1>4. CASE t.cands = <<>>
  <2>1. t.cursor = 0 /\ Size(t) = 0
    BY <1>4, EmptySeq DEF Sound, Size
  <2>2. PageStart(t) = 0
    BY <1>2, <2>1 DEF PageStart
  <2> QED BY <2>1, <2>2, PageSizeAssumption DEF PageLength
<1> QED BY <1>3, <1>4

LEMMA MovesSound ==
  ASSUME NEW S, NEW t, Sound(t, S), NEW u \in Moves(t)
  PROVE  Sound(u, S) /\ u.cands = t.cands
<1>1. CASE t.cands = <<>>
  BY <1>1 DEF Moves, CursorDown, CursorUp, PageDown, PageUp, Moved
<1>2. CASE t.cands # <<>>
  <2>1. Size(t) \in Nat \ {0} /\ t.cursor \in 0..(Size(t) - 1)
    BY <1>2, EmptySeq, LenProperties DEF Sound, Size
  <2>2. /\ CursorInPage(t) \in 0..(PageSize - 1) /\ CursorInPage(t) <= t.cursor
        /\ LastPageStart(t) \in 0..(Size(t) - 1)
    BY <2>1, Remainder DEF CursorInPage, LastPageStart
  <2>3. ASSUME NEW c \in 0..(Size(t) - 1)
        PROVE  Sound(Moved(t, c), S) /\ Moved(t, c).cands = t.cands
    BY <1>2, <2>1, <2>3 DEF Sound, Moved, Size
  <2>4. ASSUME NEW c \in Nat
        PROVE  Within(t, c) \in 0..(Size(t) - 1)
    BY <2>1 DEF Within
  <2>5. CASE u = CursorDown(t)
    BY <2>1, <2>3, <2>5 DEF CursorDown
  <2>6. CASE u = CursorUp(t)
    BY <2>1, <2>3, <2>6 DEF CursorUp
  <2>7. CASE u = PageDown(t)
    <3>1. Within(t, t.cursor + PageSize) \in 0..(Size(t) - 1)
      BY <2>1, <2>4, PageSizeAssumption
    <3>2. CursorInPage(t) \in 0..(Size(t) - 1)
      BY <2>1, <2>2
    <3> QED BY <2>3, <2>7, <3>1, <3>2 DEF PageDown
  <2>8. CASE u = PageUp(t)
    <3>1. Within(t, LastPageStart(t) + t.cursor) \in 0..(Size(t) - 1)
      BY <2>1, <2>2, <2>4
    <3>2. ~(t.cursor < PageSize) => t.cursor - PageSize \in 0..(Size(t) - 1)
      BY <2>1, PageSizeAssumption
    <3> QED BY <2>3, <2>8, <3>1, <3>2 DEF PageUp
  <2> QED BY <2>5, <2>6, <2>7, <2>8 DEF Moves
<1> QED BY <1>1, <1>2

(* The digits 1..PageSize mean the candidates of the cursor's page.        *)
LEMMA DigitPlace ==
  ASSUME NEW S, NEW t, Sound(t, S), Size(t) <= GuintRange,
         NEW k \in 1..PageSize, k <= PageLength(t)
  PROVE  GlobalCursor(t, k) = PageStart(t) + k - 1
<1>1. Size(t) \in Nat /\ t.cursor \in Nat
  BY LenProperties DEF Sound, Size
<1>2. CursorInPage(t) \in 0..(PageSize - 1) /\ CursorInPage(t) <= t.cursor
  BY <1>1, Remainder DEF CursorInPage
<1> DEFINE g == PageStart(t) + k - 1
<1>3. g \in 0..(GuintRange - 1)
  BY <1>1, <1>2, GuintAssumption, PageSizeAssumption DEF PageStart, PageLength
<1>4. t.cursor + (k - CursorInPage(t)) - 1 = g
  BY <1>1, <1>2, PageSizeAssumption DEF PageStart
<1>5. g % GuintRange = g
  BY <1>3, GuintAssumption
<1>6. ~(k < 0)
  BY PageSizeAssumption
<1> QED BY <1>4, <1>5, <1>6 DEF GlobalCursor

(***************************************************************************)
(* The inductive invariant.  Types alone are not inductive: the size of    *)
(* the displayed page is bounded only while the cursor is in the list, and *)
(* the cursor stays in the list only if the list it was in stays or is     *)
(* replaced together with it.                                              *)
(***************************************************************************)
ListOK(t, s) == Sound(t, Candidate) /\ (t.cands = <<>> \/ t.cands \in Lists(s))

Composed ==
  /\ input \in [Engines -> Inputs]
  /\ table \in [Engines -> Tables]
  /\ panel \in [Engines -> [size : 0..PageSize, visible : BOOLEAN]]
  /\ \A e \in Engines : ListOK(table[e], input[e])

Settings ==
  /\ lock \in BOOLEAN
  /\ focus \in Engines \cup {None}
  /\ opts \in Options
  /\ symbol \in [Engines -> {"none", "speech", "english", "mixed", "pinyin", "wubi", "X"}]
  /\ crashed \in BOOLEAN

Threads ==
  /\ dict \in [Dictionaries -> Contents \cup {None}]
  /\ dict["wubi"] \in WubiTables \cup {None} /\ dict["fast"] \in FastFiles \cup {None}
  /\ loaders \in [Dictionaries -> [LoaderStates -> Nat]]
  /\ \A c \in Contents : loaders["wubi"][c] > 0 => c \in WubiTables
  /\ \A c \in Contents : loaders["fast"][c] > 0 => c \in FastFiles
  /\ recording \in [Engines -> BOOLEAN]
  /\ starting \in [Engines -> Nat]
  /\ capturing \in [Engines -> BOOLEAN]

IInv == Composed /\ Settings /\ Threads

LEMMA CandidateLists ==
  ASSUME NEW s \in Inputs, NEW list \in Lists(s)
  PROVE  list \in Seq(Candidate)
<1>1. [text : Offered[s], isPinyin : BOOLEAN] \subseteq Candidate
  BY OfferedInTexts DEF Candidate
<1> QED BY <1>1, ListsAreOffered, SeqMonotonic

LEMMA EmptyOK == ASSUME NEW s PROVE ListOK(EmptyTable, s) /\ EmptyTable \in Tables
BY EmptySound DEF ListOK, EmptyTable, Sound, Tables

(* What e's own list, letters and page become, and nothing else, keeps the *)
(* composing part of the invariant when the new list fits the new letters. *)
LEMMA ComposedStep ==
  ASSUME Composed, NEW e \in Engines, NEW s \in Inputs, NEW t, ListOK(t, s),
         NEW p \in [size : 0..PageSize, visible : BOOLEAN],
         input' = [input EXCEPT ![e] = s], table' = [table EXCEPT ![e] = t],
         panel' = [panel EXCEPT ![e] = p]
  PROVE  Composed'
<1>1. t \in Tables
  BY DEF ListOK, Sound, Tables
<1>2. input' \in [Engines -> Inputs] /\ table' \in [Engines -> Tables]
  BY <1>1 DEF Composed
<1>3. panel' \in [Engines -> [size : 0..PageSize, visible : BOOLEAN]]
  BY DEF Composed
<1>4. \A x \in Engines : ListOK(table'[x], input'[x])
  BY DEF Composed
<1> QED BY <1>2, <1>3, <1>4 DEF Composed

LEMMA ClearKeeps ==
  ASSUME Composed, NEW e \in Engines, Clear(e)
  PROVE  Composed'
<1>1. Hidden(panel[e]) \in [size : 0..PageSize, visible : BOOLEAN]
  BY DEF Composed, Hidden
<1>2. <<>> \in Inputs
  BY InputsClosed
<1> QED BY <1>1, <1>2, EmptyOK, ComposedStep DEF Clear, SetTable, SetPanel

LEMMA QueryKeeps ==
  ASSUME Composed, Settings, Threads, NEW e \in Engines, NEW s \in Inputs, Query(e, s)
  PROVE  Composed'
<1> DEFINE file == IF opts.dictFastEnabled THEN dict["fast"] ELSE None
<1> DEFINE fast == FastQuery(s, file)
<1> DEFINE list == fast \o WubiPinyinQuery(s, opts.pinyin, opts.wubi_table, dict["wubi"])
<1> DEFINE t == IF fast # <<>> /\ Len(list) > 1 THEN CursorDown(Filled(list)) ELSE Filled(list)
<1>1. file \in FastFiles \cup {None} /\ dict["wubi"] \in WubiTables \cup {None} /\ opts.pinyin \in BOOLEAN
  BY DEF Settings, Threads, Options
<1>2. list \in Lists(s)
  BY <1>1, ListInLists
<1>3. list \in Seq(Candidate)
  BY <1>2, CandidateLists
<1>4. input' = [input EXCEPT ![e] = s] /\ table' = [table EXCEPT ![e] = t]
      /\ panel' = [panel EXCEPT ![e] = Displaying(t)]
  BY DEF Query, SetTable, SetPanel
<1> HIDE DEF list, fast
<1>5. Sound(Filled(list), Candidate) /\ Filled(list).cands = list
  BY <1>3, FilledSound DEF Filled
<1>6. CursorDown(Filled(list)) \in Moves(Filled(list))
  BY DEF Moves
<1>7. Sound(t, Candidate) /\ t.cands = list
  BY <1>5, <1>6, MovesSound
<1>8. Displaying(t) \in [size : 0..PageSize, visible : BOOLEAN]
  BY <1>7, PageLengthType DEF Displaying
<1>9. ListOK(t, s)
  BY <1>2, <1>7 DEF ListOK
<1> QED BY <1>4, <1>8, <1>9, ComposedStep

LEMMA SelectKeeps ==
  ASSUME Composed, Settings, NEW e \in Engines, NEW index, NEW ignoreText,
         CandidateSelected(e, index, ignoreText)
  PROVE  Composed' /\ crashed' \in BOOLEAN
<1>1. CASE index >= Size(table[e])
  BY <1>1 DEF CandidateSelected, composing, Composed
<1>2. CASE ~(index >= Size(table[e]))
  <2>1. /\ input' = [input EXCEPT ![e] = <<>>]
        /\ table' = [table EXCEPT ![e] = EmptyTable]
        /\ panel' = [panel EXCEPT ![e] = [size |-> 0, visible |-> FALSE]]
        /\ crashed' = crashed
    BY <1>2 DEF CandidateSelected, SetTable, SetPanel
  <2>2. [size |-> 0, visible |-> FALSE] \in [size : 0..PageSize, visible : BOOLEAN]
    BY PageSizeAssumption
  <2>3. <<>> \in Inputs
    BY InputsClosed
  <2> QED BY <2>1, <2>2, <2>3, EmptyOK, ComposedStep DEF Settings
<1> QED BY <1>1, <1>2

LEMMA MoveKeeps ==
  ASSUME Composed, NEW e \in Engines, NEW t \in Moves(table[e])
  PROVE  ListOK(t, input[e]) /\ Displaying(t) \in [size : 0..PageSize, visible : BOOLEAN]
<1>1. ListOK(table[e], input[e])
  BY DEF Composed
<1>2. Sound(t, Candidate) /\ t.cands = table[e].cands
  BY <1>1, MovesSound DEF ListOK
<1>3. PageLength(t) \in 0..PageSize
  BY <1>2, PageLengthType
<1> QED BY <1>1, <1>2, <1>3 DEF ListOK, Displaying

(* UpdateInputMode() keeps the settings part.                              *)
LEMMA SetOptionsKeeps ==
  ASSUME Settings, NEW e \in Engines, NEW o \in Options, SetOptions(e, o)
  PROVE  /\ opts' \in Options
         /\ symbol' \in [Engines -> {"none", "speech", "english", "mixed", "pinyin", "wubi", "X"}]
<1>1. ModeSymbol(o) \in {"speech", "english", "mixed", "pinyin", "wubi", "X"}
  BY DEF ModeSymbol
<1> QED BY <1>1 DEF SetOptions, Settings

LEMMA ReloadKeeps ==
  ASSUME Composed, Threads, NEW e \in Engines, NEW d \in Dictionaries, Reload(e, d)
  PROVE  /\ Composed'
         /\ dict' \in [Dictionaries -> Contents \cup {None}]
         /\ dict'["wubi"] \in WubiTables \cup {None} /\ dict'["fast"] \in FastFiles \cup {None}
         /\ loaders' \in [Dictionaries -> [LoaderStates -> Nat]]
         /\ \A c \in Contents : loaders'["wubi"][c] > 0 => c \in WubiTables
         /\ \A c \in Contents : loaders'["fast"][c] > 0 => c \in FastFiles
<1>1. Composed'
  BY ClearKeeps DEF Reload
<1>2. dict' = [dict EXCEPT ![d] = None]
      /\ loaders' = [loaders EXCEPT ![d]["spawned"] = @ + 1]
  BY DEF Reload
<1>3. "spawned" \in LoaderStates /\ "spawned" \notin Contents
  BY SpawnedAssumption DEF LoaderStates, Contents
<1>4. /\ dict' \in [Dictionaries -> Contents \cup {None}]
      /\ dict'["wubi"] \in WubiTables \cup {None} /\ dict'["fast"] \in FastFiles \cup {None}
  BY <1>2 DEF Threads, Dictionaries
<1>5. loaders' \in [Dictionaries -> [LoaderStates -> Nat]]
  BY <1>2, <1>3 DEF Threads
<1>6. \A c \in Contents : loaders'["wubi"][c] = loaders["wubi"][c] /\ loaders'["fast"][c] = loaders["fast"][c]
  BY <1>2, <1>3 DEF Threads, Dictionaries, LoaderStates
<1> QED BY <1>1, <1>4, <1>5, <1>6 DEF Threads

LEMMA InitIInv == Init => IInv
<1> SUFFICES ASSUME Init PROVE IInv
  OBVIOUS
<1>1. Composed
  <2>1. [size |-> 0, visible |-> FALSE] \in [size : 0..PageSize, visible : BOOLEAN]
    BY PageSizeAssumption
  <2>2. <<>> \in Inputs
    BY InputsClosed
  <2> QED BY <2>1, <2>2, EmptyOK DEF Init, Composed
<1>2. Settings
  BY DEF Init, Settings
<1>3. Threads
  BY SpawnedAssumption, Wubi86Assumption DEF Init, Threads, Dictionaries, Contents, LoaderStates
<1> QED BY <1>1, <1>2, <1>3 DEF IInv

LEMMA NextIInv == IInv /\ [Next]_vars => IInv'
<1> SUFFICES ASSUME IInv, [Next]_vars PROVE IInv'
  OBVIOUS
<1>0. Composed /\ Settings /\ Threads
  BY DEF IInv
<1> USE DEF composing, statics, speech
<1>1. CASE UNCHANGED vars
  BY <1>0, <1>1 DEF vars, IInv, Composed, Settings, Threads
<1>2. ASSUME NEW e \in Engines, PassedKey(e) PROVE IInv'
  BY <1>0, <1>2 DEF PassedKey, IInv, Composed, Settings, Threads
<1>3. ASSUME NEW e \in Engines, SwallowedKey(e) PROVE IInv'
  BY <1>0, <1>3 DEF SwallowedKey, IInv, Composed, Settings, Threads
<1>4. ASSUME NEW e \in Engines, SpeechKey(e) PROVE IInv'
  <2>1. Composed'
    <3>1. Shown(panel[e]) \in [size : 0..PageSize, visible : BOOLEAN]
      BY <1>0 DEF Composed, Shown
    <3> QED BY <1>0, <1>4, <3>1 DEF SpeechKey, SetPanel, Composed
  <2>2. CASE recording[e] /\ recording' = [recording EXCEPT ![e] = FALSE]
             /\ UNCHANGED <<starting, opts, symbol>>
    BY <1>0, <1>4, <2>1, <2>2 DEF SpeechKey, IInv, Settings, Threads
  <2>3. CASE /\ starting' = [starting EXCEPT ![e] = @ + 1]
             /\ SetOptions(e, [opts EXCEPT !.speechOn = TRUE])
             /\ UNCHANGED recording
    <3>1. [opts EXCEPT !.speechOn = TRUE] \in Options
      BY <1>0 DEF Settings, Options
    <3>2. Settings'
      BY <1>0, <1>4, <2>3, <3>1, SetOptionsKeeps DEF SpeechKey, Settings
    <3>3. Threads'
      BY <1>0, <1>4, <2>3 DEF SpeechKey, Threads
    <3> QED BY <2>1, <3>2, <3>3 DEF IInv
  <2> QED BY <1>4, <2>2, <2>3 DEF SpeechKey
<1>5. ASSUME NEW e \in Engines, CapsToEnglish(e) PROVE IInv'
  <2>1. [opts EXCEPT !.capsOn = FALSE] \in Options
    BY <1>0 DEF Settings, Options
  <2>2. Composed'
    BY <1>0, <1>5, ClearKeeps DEF CapsToEnglish
  <2>3. Settings'
    BY <1>0, <1>5, <2>1, SetOptionsKeeps DEF CapsToEnglish, Settings
  <2>4. Threads'
    BY <1>0, <1>5 DEF CapsToEnglish, Threads
  <2> QED BY <2>2, <2>3, <2>4 DEF IInv
<1>6. ASSUME NEW e \in Engines, EnglishKey(e) PROVE IInv'
  <2>1. [opts EXCEPT !.capsOn = lock'] \in Options
    BY <1>0, <1>6 DEF EnglishKey, Settings, Options
  <2>2. Composed'
    <3>1. Hidden(panel[e]) \in [size : 0..PageSize, visible : BOOLEAN]
      BY <1>0 DEF Composed, Hidden
    <3> QED BY <1>0, <1>6, <3>1 DEF EnglishKey, SetPanel, Composed
  <2>3. Settings'
    BY <1>0, <1>6, <2>1, SetOptionsKeeps DEF EnglishKey, Settings
  <2>4. Threads'
    BY <1>0, <1>6 DEF EnglishKey, Threads
  <2> QED BY <2>2, <2>3, <2>4 DEF IInv
<1>7. ASSUME NEW e \in Engines, NavigateKey(e) PROVE IInv'
  <2>1. PICK t \in Moves(table[e]) : SetTable(e, t) /\ SetPanel(e, Displaying(t))
    BY <1>7 DEF NavigateKey
  <2>2. input' = [input EXCEPT ![e] = input[e]]
    BY <1>0, <1>7 DEF NavigateKey, Composed
  <2>3. Composed'
    BY <1>0, <2>1, <2>2, MoveKeeps, ComposedStep DEF SetTable, SetPanel, Composed
  <2> QED BY <1>0, <1>7, <2>3 DEF NavigateKey, IInv, Settings, Threads
<1>8. ASSUME NEW e \in Engines, PunctuationKey(e) PROVE IInv'
  BY <1>0, <1>8 DEF PunctuationKey, IInv, Composed, Settings, Threads
<1>9. ASSUME NEW e \in Engines, NEW index \in Indices, NEW ignoreText \in BOOLEAN,
             SelectKey(e, index, ignoreText)
      PROVE  IInv'
  <2>1. Composed' /\ crashed' \in BOOLEAN
    BY <1>0, <1>9, SelectKeeps DEF SelectKey
  <2> QED BY <1>0, <1>9, <2>1 DEF SelectKey, IInv, Settings, Threads
<1>10. ASSUME NEW e \in Engines, LetterKey(e) PROVE IInv'
  <2>1. PICK l \in Letters : Query(e, Append(input[e], l))
    BY <1>10 DEF LetterKey
  <2>2. Append(input[e], l) \in Inputs
    BY <1>0, <1>10, InputsClosed DEF LetterKey, Composed
  <2>3. Composed'
    BY <1>0, <2>1, <2>2, QueryKeeps
  <2> QED BY <1>0, <1>10, <2>3 DEF LetterKey, IInv, Settings, Threads
<1>11. ASSUME NEW e \in Engines, BackSpaceKey(e) PROVE IInv'
  <2>1. SubSeq(input[e], 1, Len(input[e]) - 1) \in Inputs
    BY <1>0, <1>11, InputsClosed DEF BackSpaceKey, Composed
  <2>2. Composed'
    BY <1>0, <1>11, <2>1, QueryKeeps DEF BackSpaceKey
  <2> QED BY <1>0, <1>11, <2>2 DEF BackSpaceKey, IInv, Settings, Threads
<1>12. ASSUME NEW e \in Engines, PanelMove(e) PROVE IInv'
  <2>1. PICK t \in Moves(table[e]) : SetTable(e, t)
    BY <1>12 DEF PanelMove
  <2>2. input' = [input EXCEPT ![e] = input[e]] /\ panel' = [panel EXCEPT ![e] = panel[e]]
    BY <1>0, <1>12 DEF PanelMove, Composed
  <2>3. Composed'
    BY <1>0, <2>1, <2>2, MoveKeeps, ComposedStep DEF SetTable, Composed
  <2> QED BY <1>0, <1>12, <2>3 DEF PanelMove, IInv, Settings, Threads
<1>13. ASSUME NEW e \in Engines, Click(e) PROVE IInv'
  <2>1. Composed' /\ crashed' \in BOOLEAN
    BY <1>0, <1>13, SelectKeeps DEF Click
  <2> QED BY <1>0, <1>13, <2>1 DEF Click, IInv, Settings, Threads
<1>14. ASSUME NEW e \in Engines, NEW t \in WubiTables \cup {None}, ChooseWubi(e, t) PROVE IInv'
  <2>1. [opts EXCEPT !.wubi_table = t] \in Options
    BY <1>0 DEF Settings, Options
  <2>2. Settings'
    BY <1>0, <1>14, <2>1, SetOptionsKeeps DEF ChooseWubi, Settings
  <2>3. CASE t # opts.wubi_table
    <3>1. Reload(e, "wubi") /\ "wubi" \in Dictionaries
      BY <1>14, <2>3 DEF ChooseWubi, Dictionaries
    <3> QED BY <1>0, <1>14, <2>2, <3>1, ReloadKeeps DEF ChooseWubi, IInv, Threads
  <2>4. CASE ~(t # opts.wubi_table)
    BY <1>0, <1>14, <2>2, <2>4 DEF ChooseWubi, IInv, Composed, Threads
  <2> QED BY <2>3, <2>4
<1>15. ASSUME NEW e \in Engines, SwitchFast(e) PROVE IInv'
  <2>1. PICK on \in BOOLEAN : SetOptions(e, [opts EXCEPT !.dictFastEnabled = on])
    BY <1>15 DEF SwitchFast
  <2>2. [opts EXCEPT !.dictFastEnabled = on] \in Options
    BY <1>0 DEF Settings, Options
  <2>3. Settings'
    BY <1>0, <1>15, <2>1, <2>2, SetOptionsKeeps DEF SwitchFast, Settings
  <2>4. Reload(e, "fast") /\ "fast" \in Dictionaries
    BY <1>15 DEF SwitchFast, Dictionaries
  <2> QED BY <1>0, <1>15, <2>3, <2>4, ReloadKeeps DEF SwitchFast, IInv, Threads
<1>16. ASSUME NEW e \in Engines, SwitchPinyin(e) PROVE IInv'
  <2>1. PICK on \in BOOLEAN : SetOptions(e, [opts EXCEPT !.pinyin = on])
    BY <1>16 DEF SwitchPinyin
  <2>2. [opts EXCEPT !.pinyin = on] \in Options
    BY <1>0 DEF Settings, Options
  <2>3. Settings'
    BY <1>0, <1>16, <2>1, <2>2, SetOptionsKeeps DEF SwitchPinyin, Settings
  <2> QED BY <1>0, <1>16, <2>3 DEF SwitchPinyin, IInv, Composed, Threads
<1>17. CASE ReloadRequested
  BY <1>0, <1>17 DEF ReloadRequested, IInv, Composed, Settings, Threads, Options
<1>18. ASSUME NEW e \in Engines, FocusIn(e) PROVE IInv'
  <2>1. [opts EXCEPT !.dictFastPendingReload = FALSE] \in Options
    BY <1>0 DEF Settings, Options
  <2>2. Settings'
    BY <1>0, <1>18, <2>1, SetOptionsKeeps DEF FocusIn, Settings
  <2>3. CASE opts.dictFastPendingReload
    <3>1. Reload(e, "fast") /\ "fast" \in Dictionaries
      BY <1>18, <2>3 DEF FocusIn, Dictionaries
    <3> QED BY <1>0, <1>18, <2>2, <3>1, ReloadKeeps DEF FocusIn, IInv, Threads
  <2>4. CASE ~opts.dictFastPendingReload
    BY <1>0, <1>18, <2>2, <2>4 DEF FocusIn, IInv, Composed, Threads
  <2> QED BY <2>3, <2>4
<1>19. CASE FocusOut
  BY <1>0, <1>19 DEF FocusOut, IInv, Composed, Settings, Threads
<1>20. CASE CapsElsewhere
  BY <1>0, <1>20 DEF CapsElsewhere, IInv, Composed, Settings, Threads
<1>21. ASSUME NEW e \in Engines, RecorderStarts(e) PROVE IInv'
  <2>1. starting' \in [Engines -> Nat]
    <3>1. starting[e] \in Nat /\ starting[e] > 0
      BY <1>0, <1>21 DEF RecorderStarts, Threads
    <3>2. starting[e] - 1 \in Nat
      BY <3>1
    <3> QED BY <1>0, <1>21, <3>2 DEF RecorderStarts, Threads
  <2>2. recording' \in [Engines -> BOOLEAN] /\ capturing' \in [Engines -> BOOLEAN]
    BY <1>0, <1>21 DEF RecorderStarts, Threads
  <2>3. Threads'
    BY <1>0, <1>21, <2>1, <2>2 DEF RecorderStarts, Threads
  <2> QED BY <1>0, <1>21, <2>3 DEF RecorderStarts, IInv, Composed, Settings
<1>22. ASSUME NEW e \in Engines, Frame(e) PROVE IInv'
  <2>1. CASE crashed' = TRUE /\ UNCHANGED <<table, panel, opts, symbol>>
    BY <1>0, <1>22, <2>1 DEF Frame, IInv, Composed, Settings, Threads
  <2>2. CASE /\ SetTable(e, EmptyTable) /\ SetPanel(e, Hidden(panel[e]))
             /\ SetOptions(e, [opts EXCEPT !.speechOn = FALSE]) /\ UNCHANGED crashed
    <3>1. [opts EXCEPT !.speechOn = FALSE] \in Options
      BY <1>0 DEF Settings, Options
    <3>2. Settings'
      BY <1>0, <1>22, <2>2, <3>1, SetOptionsKeeps DEF Frame, Settings
    <3>3. Hidden(panel[e]) \in [size : 0..PageSize, visible : BOOLEAN]
      BY <1>0 DEF Composed, Hidden
    <3>4. input[e] \in Inputs /\ input' = [input EXCEPT ![e] = input[e]]
      BY <1>0, <1>22 DEF Frame, Composed
    <3>5. Composed'
      BY <1>0, <2>2, <3>3, <3>4, EmptyOK, ComposedStep DEF SetTable, SetPanel
    <3> QED BY <1>0, <1>22, <3>2, <3>5 DEF Frame, IInv, Threads
  <2> QED BY <1>22, <2>1, <2>2 DEF Frame
<1>23. ASSUME NEW d \in Dictionaries, LoaderReads(d) PROVE IInv'
  <2>1. dict' = dict /\ recording' = recording /\ starting' = starting /\ capturing' = capturing
    BY <1>23 DEF LoaderReads
  <2> DEFINE rest == [loaders[d] EXCEPT !["spawned"] = @ - 1]
  <2>2. rest \in [LoaderStates -> Nat] /\ \A c \in Contents : rest[c] = loaders[d][c]
    BY <1>0, <1>23, SpawnedAssumption DEF LoaderReads, Threads, LoaderStates, Contents
  <2>3. ASSUME NEW r \in [LoaderStates -> Nat], loaders' = [loaders EXCEPT ![d] = r],
               \A c \in Contents : r[c] > loaders[d][c] => c \in Wanted(d)
        PROVE  Threads'
    <3>1. loaders' \in [Dictionaries -> [LoaderStates -> Nat]]
      BY <1>0, <2>3 DEF Threads
    <3>2. \A c \in Wanted("wubi") : c \in WubiTables
      BY <1>0 DEF Settings, Options, Wanted
    <3>3. \A c \in Wanted("fast") : c \in FastFiles
      BY DEF Wanted
    <3>4. \A c \in Contents : loaders'["wubi"][c] > 0 => c \in WubiTables
      BY <1>0, <2>3, <3>2 DEF Threads, Dictionaries, LoaderStates
    <3>5. \A c \in Contents : loaders'["fast"][c] > 0 => c \in FastFiles
      BY <1>0, <2>3, <3>3 DEF Threads, Dictionaries, LoaderStates
    <3> QED BY <1>0, <2>1, <3>1, <3>4, <3>5 DEF Threads
  <2>4. CASE loaders' = [loaders EXCEPT ![d] = rest]
    <3>1. \A c \in Contents : ~(rest[c] > loaders[d][c])
      BY <1>0, <2>2 DEF Threads, LoaderStates
    <3> QED BY <1>0, <1>23, <2>2, <2>3, <2>4, <3>1 DEF LoaderReads, IInv, Composed, Settings
  <2>5. ASSUME NEW c \in Wanted(d), loaders' = [loaders EXCEPT ![d] = [rest EXCEPT ![c] = @ + 1]]
        PROVE  IInv'
    <3>1. c \in LoaderStates
      BY <1>0 DEF Wanted, Settings, Options, LoaderStates, Contents
    <3>2. [rest EXCEPT ![c] = @ + 1] \in [LoaderStates -> Nat]
      BY <2>2, <3>1
    <3>3. \A x \in Contents : [rest EXCEPT ![c] = @ + 1][x] > loaders[d][x] => x \in Wanted(d)
      BY <1>0, <2>2, <2>5, <3>1 DEF Threads, LoaderStates
    <3>4. Threads'
      BY <2>3, <2>5, <3>2, <3>3
    <3> QED BY <1>0, <1>23, <3>4 DEF LoaderReads, IInv, Composed, Settings
  <2> QED BY <1>23, <2>4, <2>5 DEF LoaderReads
<1>24. ASSUME NEW d \in Dictionaries, NEW c \in Contents, LoaderInstalls(d, c) PROVE IInv'
  <2>1. /\ loaders[d][c] > 0
        /\ loaders' = [loaders EXCEPT ![d][c] = @ - 1]
        /\ dict' = [dict EXCEPT ![d] = c]
    BY <1>24 DEF LoaderInstalls
  <2>2. c \in LoaderStates
    BY DEF LoaderStates
  <2>3. loaders' \in [Dictionaries -> [LoaderStates -> Nat]]
    BY <1>0, <2>1, <2>2 DEF Threads
  <2>4. \A b \in Dictionaries, x \in Contents : loaders'[b][x] > 0 => loaders[b][x] > 0
    BY <1>0, <2>1, <2>2 DEF Threads, LoaderStates
  <2>5. /\ d = "wubi" => c \in WubiTables
        /\ d = "fast" => c \in FastFiles
    BY <1>0, <2>1 DEF Threads
  <2>6. /\ dict' \in [Dictionaries -> Contents \cup {None}]
        /\ dict'["wubi"] \in WubiTables \cup {None} /\ dict'["fast"] \in FastFiles \cup {None}
    BY <1>0, <2>1, <2>5 DEF Threads, Dictionaries
  <2>7. Threads'
    BY <1>0, <1>24, <2>3, <2>4, <2>6 DEF LoaderInstalls, Threads, Dictionaries
  <2> QED BY <1>0, <1>24, <2>7 DEF LoaderInstalls, IInv, Composed, Settings
<1>25. ASSUME NEW e \in Engines, Key(e) PROVE IInv'
  <2>1. -1 \in Indices /\ TRUE \in BOOLEAN /\ FALSE \in BOOLEAN
    BY DEF Indices
  <2> QED BY <1>2, <1>3, <1>4, <1>5, <1>6, <1>7, <1>8, <1>9, <1>10, <1>11, <1>25, <2>1, Zenon DEF Key
<1>26. ASSUME NEW e \in Engines, Property(e) PROVE IInv'
  BY <1>14, <1>15, <1>16, <1>26, Zenon DEF Property
<1>27. CASE Next
  BY <1>12, <1>13, <1>17, <1>18, <1>19, <1>20, <1>21, <1>22, <1>23, <1>24, <1>25, <1>26, <1>27, Zenon
  DEF Next
<1> QED BY <1>1, <1>27

(* What the invariant gives: types, lists for the letters typed, cursors   *)
(* in their lists, digits that find their candidates.                      *)
LEMMA IInvImplies ==
  IInv => TypeOK /\ ListFollowsInput /\ CursorInList /\ DigitsFollowPage
<1> SUFFICES ASSUME IInv PROVE TypeOK /\ ListFollowsInput /\ CursorInList /\ DigitsFollowPage
  OBVIOUS
<1>0. Composed /\ Settings /\ Threads
  BY DEF IInv
<1>1. TypeOK
  BY <1>0 DEF TypeOK, Composed, Settings, Threads
<1>2. ListFollowsInput
  BY <1>0 DEF ListFollowsInput, Composed, ListOK
<1>3. CursorInList
  BY <1>0 DEF CursorInList, Composed, ListOK, Sound
<1>4. DigitsFollowPage
  <2> SUFFICES ASSUME NEW e \in Engines, NEW k \in 1..PageSize, k <= PageLength(table[e])
               PROVE  GlobalCursor(table[e], k) = PageStart(table[e]) + k - 1
    BY DEF DigitsFollowPage
  <2>1. ListOK(table[e], input[e]) /\ input[e] \in Inputs
    BY <1>0 DEF Composed
  <2>2. Size(table[e]) <= GuintRange
    <3>1. Len(<<>>) <= GuintRange
      BY GuintAssumption, EmptySeq
    <3> QED BY <2>1, <3>1, ListLengthAssumption DEF ListOK, Size
  <2> QED BY <2>1, <2>2, DigitPlace DEF ListOK
<1> QED BY <1>1, <1>2, <1>3, <1>4

THEOREM AlwaysIInv == Spec => []IInv
BY InitIInv, NextIInv, PTL DEF Spec

(* Every variable keeps its type, with any number of loader and recorder   *)
(* threads and in every order of handlers and threads.                     *)
THEOREM TypeCorrect == Spec => []TypeOK
BY AlwaysIInv, IInvImplies, PTL

(* No key, click, switch or thread leaves candidates to select from that   *)
(* are not those of the letters typed.                                     *)
THEOREM ListAlwaysFollowsInput == Spec => []ListFollowsInput
BY AlwaysIInv, IInvImplies, PTL

(* The cursor that Space and Return select from never leaves the list.     *)
THEOREM CursorAlwaysInList == Spec => []CursorInList
BY AlwaysIInv, IInvImplies, PTL

(* The digits select from the cursor's page, for every page size and       *)
(* every width of the guint that can count a list.                         *)
THEOREM DigitsAlwaysFollowPage == Spec => []DigitsFollowPage
BY AlwaysIInv, IInvImplies, PTL

(***************************************************************************)
(* The mode indicator.  The invariant is inductive beside the types,       *)
(* because an engine changes the options only while it has the focus (and  *)
(* refreshes its own symbol with them) or from its own recorder.           *)
(***************************************************************************)
Shows(e) == symbol[e] = ModeSymbol(opts)

LEMMA SetOptionsShows ==
  ASSUME Settings, NEW e \in Engines, NEW o, SetOptions(e, o)
  PROVE  Shows(e)'
BY DEF Settings, SetOptions, Shows

LEMMA NextIndicator == IInv /\ IndicatorCurrent /\ [Next]_vars => IndicatorCurrent'
<1> SUFFICES ASSUME IInv, IndicatorCurrent, [Next]_vars,
                    NEW x \in Engines, focus' = x, \A d \in Engines \ {x} : ~capturing'[d]
             PROVE  Shows(x)'
  BY DEF IndicatorCurrent, Shows
<1>0. Settings /\ Threads
  BY DEF IInv
<1> USE DEF composing, statics, speech
<1>1. ASSUME focus = x, \A d \in Engines \ {x} : ~capturing[d]
      PROVE  Shows(x)
  BY <1>1 DEF IndicatorCurrent, Shows
<1>2. CASE UNCHANGED <<focus, opts, symbol, capturing>>
  BY <1>1, <1>2 DEF Shows
<1>3. ASSUME NEW e \in Engines, Key(e) PROVE Shows(x)'
  <2>1. focus = e /\ focus' = focus /\ capturing' = capturing
    BY <1>3, Zenon
    DEF Key, PassedKey, SwallowedKey, SpeechKey, CapsToEnglish, EnglishKey, NavigateKey,
        PunctuationKey, SelectKey, LetterKey, BackSpaceKey, Chinese, English, Keyed
  <2>2. x = e
    BY <2>1
  <2>3. CASE UNCHANGED <<opts, symbol>>
    BY <1>2, <2>1, <2>3
  <2>4. CASE \E o : SetOptions(e, o)
    BY <1>0, <2>2, <2>4, SetOptionsShows
  <2>5. UNCHANGED <<opts, symbol>> \/ \E o : SetOptions(e, o)
    BY <1>3, Zenon
    DEF Key, PassedKey, SwallowedKey, SpeechKey, CapsToEnglish, EnglishKey, NavigateKey,
        PunctuationKey, SelectKey, LetterKey, BackSpaceKey
  <2> QED BY <2>3, <2>4, <2>5
<1>4. ASSUME NEW e \in Engines, Property(e) PROVE Shows(x)'
  <2>1. focus = e /\ focus' = focus
    BY <1>4 DEF Property, ChooseWubi, SwitchFast, SwitchPinyin
  <2>2. \E o : SetOptions(e, o)
    BY <1>4, Zenon DEF Property, ChooseWubi, SwitchFast, SwitchPinyin
  <2> QED BY <1>0, <2>1, <2>2, SetOptionsShows
<1>5. ASSUME NEW e \in Engines, PanelMove(e) \/ Click(e) PROVE Shows(x)'
  BY <1>2, <1>5 DEF PanelMove, Click
<1>6. ASSUME NEW e \in Engines, FocusIn(e) PROVE Shows(x)'
  BY <1>0, <1>6, SetOptionsShows DEF FocusIn
<1>7. ASSUME NEW e \in Engines, RecorderStarts(e) PROVE Shows(x)'
  <2>1. UNCHANGED <<focus, opts, symbol>>
    BY <1>7 DEF RecorderStarts
  <2>2. \A d \in Engines \ {x} : ~capturing[d]
    BY <1>0, <1>7 DEF RecorderStarts, Threads
  <2> QED BY <1>1, <2>1, <2>2 DEF Shows
<1>8. ASSUME NEW e \in Engines, Frame(e) PROVE Shows(x)'
  <2>1. capturing[e] /\ focus' = focus /\ capturing' = capturing
    BY <1>8 DEF Frame
  <2>2. x = e
    BY <2>1
  <2>3. UNCHANGED <<opts, symbol>> \/ \E o : SetOptions(e, o)
    BY <1>8, Zenon DEF Frame
  <2> QED BY <1>0, <1>2, <2>1, <2>2, <2>3, SetOptionsShows
<1>9. CASE FocusOut
  BY <1>0, <1>9, NoEngineAssumption DEF FocusOut
<1>10. CASE CapsElsewhere
  BY <1>2, <1>10 DEF CapsElsewhere
<1>11. CASE ReloadRequested
  <2>1. ModeSymbol(opts)' = ModeSymbol(opts)
    BY <1>0, <1>11 DEF ReloadRequested, ModeSymbol, Settings, Options
  <2>2. UNCHANGED <<focus, symbol, capturing>>
    BY <1>11 DEF ReloadRequested
  <2> QED BY <1>1, <2>1, <2>2 DEF Shows
<1>12. ASSUME NEW d \in Dictionaries,
              LoaderReads(d) \/ \E c \in Contents : LoaderInstalls(d, c)
       PROVE  Shows(x)'
  BY <1>2, <1>12 DEF LoaderReads, LoaderInstalls
<1>13. CASE UNCHANGED vars
  BY <1>2, <1>13 DEF vars
<1>14. CASE Next
  BY <1>3, <1>4, <1>5, <1>6, <1>7, <1>8, <1>9, <1>10, <1>11, <1>12, <1>14, Zenon DEF Next
<1> QED BY <1>13, <1>14

(* The mode shown for the engine in focus is the mode it is in, unless a   *)
(* recorder of another engine is capturing.                                *)
THEOREM IndicatorAlwaysCurrent == Spec => []IndicatorCurrent
<1>1. Init => IndicatorCurrent
  BY NoEngineAssumption DEF Init, IndicatorCurrent
<1> QED BY <1>1, AlwaysIInv, NextIndicator, PTL DEF Spec

(***************************************************************************)
(* The list and the options.  With one engine every change of the wubi     *)
(* table or of the fast-input setting empties the list that was made       *)
(* before it; whatever else changes the options leaves both settings.      *)
(***************************************************************************)
MadeFor(list, s, o) ==
  list = <<>> \/
  \E p \in BOOLEAN, w \in WubiTables \cup {None}, f \in FastFiles \cup {None} :
    /\ o.dictFastEnabled \/ f = None
    /\ list = FastQuery(s, f) \o WubiPinyinQuery(s, p, o.wubi_table, w)

LEMMA QueryMakes ==
  ASSUME Composed, Settings, Threads, NEW e \in Engines, NEW s \in Inputs, Query(e, s)
  PROVE  input'[e] = s /\ MadeFor(table'[e].cands, s, opts)
<1> DEFINE file == IF opts.dictFastEnabled THEN dict["fast"] ELSE None
<1> DEFINE fast == FastQuery(s, file)
<1> DEFINE list == fast \o WubiPinyinQuery(s, opts.pinyin, opts.wubi_table, dict["wubi"])
<1> DEFINE t == IF fast # <<>> /\ Len(list) > 1 THEN CursorDown(Filled(list)) ELSE Filled(list)
<1>1. /\ file \in FastFiles \cup {None} /\ dict["wubi"] \in WubiTables \cup {None}
      /\ opts.pinyin \in BOOLEAN /\ (opts.dictFastEnabled \/ file = None)
  BY DEF Settings, Threads, Options
<1>2. list \in Seq(Candidate)
  BY <1>1, ListInLists, CandidateLists
<1>3. input' = [input EXCEPT ![e] = s] /\ table' = [table EXCEPT ![e] = t]
  BY DEF Query, SetTable
<1>4. MadeFor(list, s, opts)
  BY <1>1 DEF MadeFor
<1> HIDE DEF list, fast
<1>5. Sound(Filled(list), Candidate) /\ Filled(list).cands = list
  BY <1>2, FilledSound DEF Filled
<1>6. CursorDown(Filled(list)) \in Moves(Filled(list))
  BY DEF Moves
<1>7. t.cands = list
  BY <1>5, <1>6, MovesSound
<1> QED BY <1>3, <1>4, <1>7 DEF Composed

LEMMA NextOptions ==
  ASSUME \A d, e \in Engines : d = e
  PROVE  IInv /\ ListFollowsOptions /\ [Next]_vars => ListFollowsOptions'
<1> SUFFICES ASSUME IInv, ListFollowsOptions, [Next]_vars, NEW x \in Engines
             PROVE  MadeFor(table'[x].cands, input'[x], opts')
  BY DEF ListFollowsOptions, MadeFor
<1>0. Composed /\ Settings /\ Threads
  BY DEF IInv
<1> USE DEF composing, statics, speech
<1> DEFINE Made == MadeFor(table'[x].cands, input'[x], opts')
<1>1. MadeFor(table[x].cands, input[x], opts)
  BY DEF ListFollowsOptions, MadeFor
<1>2. ASSUME opts'.wubi_table = opts.wubi_table, opts'.dictFastEnabled = opts.dictFastEnabled,
             input'[x] = input[x], table'[x].cands = table[x].cands
      PROVE  Made
  BY <1>1, <1>2 DEF MadeFor
<1>3. ASSUME table'[x].cands = <<>>
      PROVE  Made
  BY <1>3 DEF MadeFor
<1>4. ASSUME NEW e \in Engines, NEW t \in Moves(table[e]), SetTable(e, t)
      PROVE  table'[x].cands = table[x].cands
  <2>1. t.cands = table[e].cands
    BY <1>0, MovesSound DEF Composed, ListOK
  <2> QED BY <1>0, <1>4, <2>1 DEF SetTable, Composed
<1>5. ASSUME NEW e \in Engines, SetTable(e, EmptyTable)
      PROVE  Made
  <2>1. x = e /\ table'[x] = EmptyTable
    BY <1>0, <1>5 DEF SetTable, Composed
  <2> QED BY <1>3, <2>1 DEF EmptyTable
<1>6. ASSUME NEW e \in Engines,
             PassedKey(e) \/ SwallowedKey(e) \/ SpeechKey(e) \/ EnglishKey(e) \/ PunctuationKey(e)
      PROVE  Made
  <2>1. UNCHANGED composing
    BY <1>6, Zenon DEF PassedKey, SwallowedKey, SpeechKey, EnglishKey, PunctuationKey
  <2>2. \/ opts' = opts
        \/ opts' = [opts EXCEPT !.speechOn = TRUE]
        \/ opts' = [opts EXCEPT !.capsOn = lock']
    BY <1>6, Zenon DEF PassedKey, SwallowedKey, SpeechKey, EnglishKey, PunctuationKey, SetOptions
  <2>3. opts'.wubi_table = opts.wubi_table /\ opts'.dictFastEnabled = opts.dictFastEnabled
    BY <1>0, <2>2 DEF Settings, Options
  <2> QED BY <1>2, <2>1, <2>3
<1>7. ASSUME NEW e \in Engines, CapsToEnglish(e) PROVE Made
  BY <1>5, <1>7 DEF CapsToEnglish, Clear
<1>8. ASSUME NEW e \in Engines, NavigateKey(e) \/ PanelMove(e) PROVE Made
  <2>1. PICK t \in Moves(table[e]) : SetTable(e, t)
    BY <1>8 DEF NavigateKey, PanelMove
  <2>2. table'[x].cands = table[x].cands
    BY <1>4, <2>1
  <2>3. input' = input /\ opts' = opts
    BY <1>8 DEF NavigateKey, PanelMove
  <2> QED BY <1>2, <2>2, <2>3
<1>9. ASSUME NEW e \in Engines, NEW index, NEW ignoreText,
             CandidateSelected(e, index, ignoreText), opts' = opts
      PROVE  Made
  <2>1. UNCHANGED composing \/ SetTable(e, EmptyTable)
    BY <1>9 DEF CandidateSelected
  <2> QED BY <1>2, <1>5, <1>9, <2>1
<1>10. ASSUME NEW e \in Engines, NEW index, NEW ignoreText, SelectKey(e, index, ignoreText)
       PROVE  Made
  BY <1>9, <1>10 DEF SelectKey
<1>11. ASSUME NEW e \in Engines, Click(e) PROVE Made
  <2>1. PICK index : CandidateSelected(e, index, FALSE)
    BY <1>11 DEF Click
  <2> QED BY <1>9, <1>11, <2>1 DEF Click
<1>12. ASSUME NEW e \in Engines, NEW s \in Inputs, Query(e, s), opts' = opts
       PROVE  Made
  <2>1. x = e
    OBVIOUS
  <2> QED BY <1>0, <1>12, <2>1, QueryMakes
<1>13. ASSUME NEW e \in Engines, LetterKey(e) PROVE Made
  <2>1. PICK l \in Letters : Query(e, Append(input[e], l))
    BY <1>13 DEF LetterKey
  <2>2. Append(input[e], l) \in Inputs
    BY <1>0, <1>13, InputsClosed DEF LetterKey, Composed
  <2> QED BY <1>12, <1>13, <2>1, <2>2 DEF LetterKey
<1>14. ASSUME NEW e \in Engines, BackSpaceKey(e) PROVE Made
  <2>1. SubSeq(input[e], 1, Len(input[e]) - 1) \in Inputs
    BY <1>0, <1>14, InputsClosed DEF BackSpaceKey, Composed
  <2> QED BY <1>12, <1>14, <2>1 DEF BackSpaceKey
<1>15. ASSUME NEW e \in Engines, NEW d, Reload(e, d) PROVE Made
  BY <1>5, <1>15 DEF Reload, Clear
<1>16. ASSUME NEW e \in Engines, NEW t, ChooseWubi(e, t) PROVE Made
  <2>1. CASE t # opts.wubi_table
    BY <1>15, <1>16, <2>1 DEF ChooseWubi
  <2>2. CASE t = opts.wubi_table
    <3>1. opts' = opts
      BY <1>0, <1>16, <2>2 DEF ChooseWubi, SetOptions, Settings, Options
    <3> QED BY <1>2, <1>16, <2>2, <3>1 DEF ChooseWubi
  <2> QED BY <2>1, <2>2
<1>17. ASSUME NEW e \in Engines, SwitchFast(e) PROVE Made
  BY <1>15, <1>17 DEF SwitchFast
<1>18. ASSUME NEW e \in Engines, SwitchPinyin(e) PROVE Made
  BY <1>0, <1>2, <1>18 DEF SwitchPinyin, SetOptions, Settings, Options
<1>19. ASSUME NEW e \in Engines, FocusIn(e) PROVE Made
  <2>1. CASE opts.dictFastPendingReload
    BY <1>15, <1>19, <2>1 DEF FocusIn
  <2>2. CASE ~opts.dictFastPendingReload
    BY <1>0, <1>2, <1>19, <2>2 DEF FocusIn, SetOptions, Settings, Options
  <2> QED BY <2>1, <2>2
<1>20. ASSUME NEW e \in Engines, RecorderStarts(e) PROVE Made
  BY <1>2, <1>20 DEF RecorderStarts
<1>21. ASSUME NEW e \in Engines, Frame(e) PROVE Made
  BY <1>2, <1>5, <1>21 DEF Frame
<1>22. CASE FocusOut \/ CapsElsewhere
  BY <1>2, <1>22 DEF FocusOut, CapsElsewhere
<1>23. CASE ReloadRequested
  BY <1>0, <1>2, <1>23 DEF ReloadRequested, Settings, Options
<1>24. ASSUME NEW d, LoaderReads(d) \/ \E c \in Contents : LoaderInstalls(d, c) PROVE Made
  BY <1>2, <1>24 DEF LoaderReads, LoaderInstalls
<1>25. CASE UNCHANGED vars
  BY <1>2, <1>25 DEF vars
<1>26. ASSUME NEW e \in Engines, Key(e) PROVE Made
  BY <1>6, <1>7, <1>8, <1>10, <1>13, <1>14, <1>26, Zenon DEF Key
<1>27. ASSUME NEW e \in Engines, Property(e) PROVE Made
  BY <1>16, <1>17, <1>18, <1>27, Zenon DEF Property
<1>28. CASE Next
  BY <1>8, <1>11, <1>19, <1>20, <1>21, <1>22, <1>23, <1>24, <1>26, <1>27, <1>28, Zenon DEF Next
<1> QED BY <1>25, <1>28

(* One engine never lets the user select from a list made with a wubi      *)
(* table choice or a fast-input setting that has been changed since.  With *)
(* two engines it does: the options are shared and only the engine that    *)
(* changes them drops its list.                                            *)
THEOREM ListAlwaysFollowsOptions ==
  ASSUME \A d, e \in Engines : d = e
  PROVE  Spec => []ListFollowsOptions
<1>1. Init => ListFollowsOptions
  BY DEF Init, ListFollowsOptions, EmptyTable
<1>2. IInv /\ ListFollowsOptions /\ [Next]_vars => ListFollowsOptions'
  BY NextOptions
<1> QED BY <1>1, <1>2, AlwaysIInv, PTL DEF Spec

(***************************************************************************)
(* The loaders.  A step that empties a dictionary spawns the thread that   *)
(* is to fill it; a thread that gives up finds nothing wanted, and a       *)
(* setting that makes something wanted reloads.                            *)
(***************************************************************************)
Loading(d) == \E s \in LoaderStates : loaders[d][s] > 0

LEMMA ReloadLoads ==
  ASSUME Threads, NEW e \in Engines, NEW d \in Dictionaries, Reload(e, d)
  PROVE  /\ Loading(d)'
         /\ \A b \in Dictionaries \ {d} : dict'[b] = dict[b] /\ loaders'[b] = loaders[b]
<1>1. "spawned" \in LoaderStates
  BY DEF LoaderStates
<1>2. loaders' = [loaders EXCEPT ![d]["spawned"] = @ + 1] /\ dict' = [dict EXCEPT ![d] = None]
  BY DEF Reload
<1>3. loaders[d]["spawned"] \in Nat /\ loaders'[d]["spawned"] = loaders[d]["spawned"] + 1
  BY <1>1, <1>2 DEF Threads
<1>4. Loading(d)'
  BY <1>1, <1>3 DEF Loading
<1> QED BY <1>2, <1>4 DEF Threads

LEMMA NextLoading == IInv /\ MissingIsLoading /\ [Next]_vars => MissingIsLoading'
<1> SUFFICES ASSUME IInv, MissingIsLoading, [Next]_vars,
                    NEW b \in Dictionaries, Wanted(b)' # {}, dict'[b] = None
             PROVE  Loading(b)'
  BY DEF MissingIsLoading, Loading
<1>0. Settings /\ Threads
  BY DEF IInv
<1> USE DEF composing, statics, speech
<1>1. CASE Wanted(b) # {} /\ dict[b] = None /\ loaders'[b] = loaders[b]
  <2>1. Loading(b)
    BY <1>1 DEF MissingIsLoading, Loading
  <2> QED BY <1>1, <2>1 DEF Loading
<1>2. ASSUME UNCHANGED statics,
             opts'.wubi_table = opts.wubi_table, opts'.dictFastEnabled = opts.dictFastEnabled
      PROVE  Loading(b)'
  <2>1. Wanted(b)' = Wanted(b)
    BY <1>2 DEF Wanted
  <2> QED BY <1>1, <1>2, <2>1
<1>3. ASSUME NEW e \in Engines, Key(e) PROVE Loading(b)'
  <2>1. UNCHANGED statics
    BY <1>3, Zenon
    DEF Key, PassedKey, SwallowedKey, SpeechKey, CapsToEnglish, EnglishKey, NavigateKey,
        PunctuationKey, SelectKey, LetterKey, BackSpaceKey
  <2>2. \/ opts' = opts
        \/ opts' = [opts EXCEPT !.speechOn = TRUE]
        \/ opts' = [opts EXCEPT !.capsOn = FALSE]
        \/ opts' = [opts EXCEPT !.capsOn = lock']
    BY <1>3, Zenon
    DEF Key, PassedKey, SwallowedKey, SpeechKey, CapsToEnglish, EnglishKey, NavigateKey,
        PunctuationKey, SelectKey, LetterKey, BackSpaceKey, SetOptions
  <2>3. opts'.wubi_table = opts.wubi_table /\ opts'.dictFastEnabled = opts.dictFastEnabled
    BY <1>0, <2>2 DEF Settings, Options
  <2> QED BY <1>2, <2>1, <2>3
<1>4. ASSUME NEW e \in Engines, NEW t \in WubiTables \cup {None}, ChooseWubi(e, t)
      PROVE  Loading(b)'
  <2>1. opts' = [opts EXCEPT !.wubi_table = t]
    BY <1>4 DEF ChooseWubi, SetOptions
  <2>2. CASE t # opts.wubi_table
    <3>1. Reload(e, "wubi") /\ "wubi" \in Dictionaries
      BY <1>4, <2>2 DEF ChooseWubi, Dictionaries
    <3>2. b = "wubi" => Loading(b)'
      BY <1>0, <3>1, ReloadLoads
    <3>3. b = "fast" => Wanted(b)' = Wanted(b)
      BY <1>0, <2>1 DEF Wanted, Settings, Options
    <3>4. b # "wubi" => dict'[b] = dict[b] /\ loaders'[b] = loaders[b]
      BY <1>0, <3>1, ReloadLoads
    <3> QED BY <1>1, <3>2, <3>3, <3>4 DEF Dictionaries
  <2>3. CASE t = opts.wubi_table
    <3>1. opts' = opts
      BY <1>0, <2>1, <2>3 DEF Settings, Options
    <3> QED BY <1>2, <1>4, <2>3, <3>1 DEF ChooseWubi
  <2> QED BY <2>2, <2>3
<1>5. ASSUME NEW e \in Engines, SwitchFast(e) PROVE Loading(b)'
  <2>1. PICK on \in BOOLEAN : opts' = [opts EXCEPT !.dictFastEnabled = on]
    BY <1>5 DEF SwitchFast, SetOptions
  <2>2. Reload(e, "fast") /\ "fast" \in Dictionaries
    BY <1>5 DEF SwitchFast, Dictionaries
  <2>3. b = "fast" => Loading(b)'
    BY <1>0, <2>2, ReloadLoads
  <2>4. b = "wubi" => Wanted(b)' = Wanted(b)
    BY <1>0, <2>1 DEF Wanted, Settings, Options
  <2>5. b # "fast" => dict'[b] = dict[b] /\ loaders'[b] = loaders[b]
    BY <1>0, <2>2, ReloadLoads
  <2> QED BY <1>1, <2>3, <2>4, <2>5 DEF Dictionaries
<1>6. ASSUME NEW e \in Engines, SwitchPinyin(e) PROVE Loading(b)'
  BY <1>0, <1>2, <1>6 DEF SwitchPinyin, SetOptions, Settings, Options
<1>7. ASSUME NEW e \in Engines, FocusIn(e) PROVE Loading(b)'
  <2>1. opts'.wubi_table = opts.wubi_table /\ opts'.dictFastEnabled = opts.dictFastEnabled
    BY <1>0, <1>7 DEF FocusIn, SetOptions, Settings, Options
  <2>2. CASE opts.dictFastPendingReload
    <3>1. Reload(e, "fast") /\ "fast" \in Dictionaries
      BY <1>7, <2>2 DEF FocusIn, Dictionaries
    <3>2. b = "fast" => Loading(b)'
      BY <1>0, <3>1, ReloadLoads
    <3>3. b # "fast" => dict'[b] = dict[b] /\ loaders'[b] = loaders[b]
      BY <1>0, <3>1, ReloadLoads
    <3>4. Wanted(b)' = Wanted(b)
      BY <2>1 DEF Wanted
    <3> QED BY <1>1, <3>2, <3>3, <3>4
  <2>3. CASE ~opts.dictFastPendingReload
    BY <1>2, <1>7, <2>1, <2>3 DEF FocusIn
  <2> QED BY <2>2, <2>3
<1>8. ASSUME NEW e \in Engines, PanelMove(e) \/ Click(e) \/ RecorderStarts(e) PROVE Loading(b)'
  BY <1>2, <1>8 DEF PanelMove, Click, RecorderStarts
<1>9. ASSUME NEW e \in Engines, Frame(e) PROVE Loading(b)'
  <2>1. UNCHANGED statics /\ (opts' = opts \/ opts' = [opts EXCEPT !.speechOn = FALSE])
    BY <1>9, Zenon DEF Frame, SetOptions
  <2>2. opts'.wubi_table = opts.wubi_table /\ opts'.dictFastEnabled = opts.dictFastEnabled
    BY <1>0, <2>1 DEF Settings, Options
  <2> QED BY <1>2, <2>1, <2>2
<1>10. CASE FocusOut \/ CapsElsewhere
  BY <1>2, <1>10 DEF FocusOut, CapsElsewhere
<1>11. CASE ReloadRequested
  BY <1>0, <1>2, <1>11 DEF ReloadRequested, Settings, Options
<1>12. ASSUME NEW d \in Dictionaries, LoaderReads(d) PROVE Loading(b)'
  <2> DEFINE rest == [loaders[d] EXCEPT !["spawned"] = @ - 1]
  <2>1. dict' = dict /\ opts' = opts
    BY <1>12 DEF LoaderReads
  <2>2. Wanted(b)' = Wanted(b)
    BY <2>1 DEF Wanted
  <2>3. CASE Wanted(d) = {} /\ loaders' = [loaders EXCEPT ![d] = rest]
    <3>1. b # d
      BY <2>2, <2>3
    <3>2. loaders'[b] = loaders[b]
      BY <1>0, <2>3, <3>1 DEF Threads
    <3> QED BY <1>1, <2>1, <2>2, <3>2
  <2>4. ASSUME NEW c \in Wanted(d), loaders' = [loaders EXCEPT ![d] = [rest EXCEPT ![c] = @ + 1]]
        PROVE  Loading(b)'
    <3>1. c \in Contents
      BY <1>0 DEF Wanted, Settings, Options, Contents
    <3>2. CASE b = d
      <4>1. c \in LoaderStates /\ rest[c] = loaders[d][c] /\ loaders[d][c] \in Nat
        BY <1>0, <3>1, SpawnedAssumption DEF Threads, LoaderStates, Contents
      <4>2. loaders'[d][c] = loaders[d][c] + 1
        BY <1>0, <2>4, <4>1 DEF Threads
      <4> QED BY <3>2, <4>1, <4>2 DEF Loading
    <3>3. CASE b # d
      BY <1>0, <1>1, <2>1, <2>2, <2>4, <3>3 DEF Threads
    <3> QED BY <3>2, <3>3
  <2> QED BY <1>12, <2>3, <2>4 DEF LoaderReads
<1>13. ASSUME NEW d \in Dictionaries, NEW c \in Contents, LoaderInstalls(d, c) PROVE Loading(b)'
  <2>1. dict' = [dict EXCEPT ![d] = c] /\ loaders' = [loaders EXCEPT ![d][c] = @ - 1]
        /\ Wanted(b)' = Wanted(b)
    BY <1>13 DEF LoaderInstalls, Wanted
  <2>2. b # d
    BY <1>0, <2>1, NoneAssumption DEF Threads, Contents
  <2> QED BY <1>0, <1>1, <2>1, <2>2 DEF Threads
<1>14. ASSUME NEW e \in Engines, Property(e) PROVE Loading(b)'
  BY <1>4, <1>5, <1>6, <1>14, Zenon DEF Property
<1>15. CASE UNCHANGED vars
  BY <1>2, <1>15 DEF vars
<1>16. CASE Next
  BY <1>3, <1>7, <1>8, <1>9, <1>10, <1>11, <1>12, <1>13, <1>14, <1>16, Zenon DEF Next
<1> QED BY <1>15, <1>16

(* A wanted dictionary that is not installed always has a thread on its    *)
(* way to install one.                                                     *)
THEOREM MissingIsAlwaysLoading == Spec => []MissingIsLoading
<1>1. Init => MissingIsLoading
  BY NoneAssumption, Wubi86Assumption DEF Init, MissingIsLoading, Dictionaries
<1> QED BY <1>1, AlwaysIInv, NextLoading, PTL DEF Spec

(***************************************************************************)
(* The promise: every step of the engines is a step of Composition, or a   *)
(* stutter of it, with m_input as the pending letters.                     *)
(***************************************************************************)
PromiseStep == [Promise!Next]_<<input, out>>

LEMMA QuietStep ==
  ASSUME input' = input, out' = <<>> \/ out' = Passed \/ out' = out
  PROVE  PromiseStep
BY DEF PromiseStep, Promise!Next, Promise!Rest, Promise!PassOn, Promise!Passed, Passed,
       Event, Promise!Event

LEMMA InsertStep ==
  ASSUME input' = input, NEW kind \in {"punctuation", "speech"},
         out' # <<>>, \A k \in DOMAIN out' : out'[k].kind = kind
  PROVE  PromiseStep
BY DEF PromiseStep, Promise!Next, Promise!Insert

LEMMA SpellStep ==
  ASSUME NEW e \in Engines, Clear(e)
  PROVE  PromiseStep
BY DEF Clear, PromiseStep, Promise!Next, Promise!Spell, Promise!Leaves, Promise!Event, Event

LEMMA ReloadSpells ==
  ASSUME NEW e \in Engines, NEW d, Reload(e, d)
  PROVE  PromiseStep
BY SpellStep DEF Reload

(* A candidate selected from a list for the letters typed is a text the    *)
(* dictionaries offer for these letters.                                   *)
LEMMA SelectStep ==
  ASSUME Composed, NEW e \in Engines, NEW index \in Nat, NEW ignoreText \in BOOLEAN,
         CandidateSelected(e, index, ignoreText)
  PROVE  PromiseStep
<1>1. CASE index >= Size(table[e])
  BY <1>1, QuietStep DEF CandidateSelected, composing
<1>2. CASE ~(index >= Size(table[e])) /\ ignoreText
  <2>1. out' = <<>> /\ input' = [input EXCEPT ![e] = <<>>]
    BY <1>2 DEF CandidateSelected
  <2> QED BY <2>1 DEF PromiseStep, Promise!Next, Promise!Cancel, Promise!Leaves
<1>3. CASE ~(index >= Size(table[e])) /\ ~ignoreText
  <2>1. ListOK(table[e], input[e]) /\ input[e] \in Inputs
    BY DEF Composed
  <2>2. index + 1 \in 1..Len(table[e].cands) /\ table[e].cands # <<>>
    BY <1>3, <2>1, EmptySeq, LenProperties DEF ListOK, Sound, Size
  <2>3. table[e].cands \in Seq([text : Offered[input[e]], isPinyin : BOOLEAN])
    BY <2>1, <2>2, ListsAreOffered DEF ListOK
  <2>4. table[e].cands[index + 1].text \in Offered[input[e]]
    <3>1. table[e].cands[index + 1] \in [text : Offered[input[e]], isPinyin : BOOLEAN]
      BY <2>2, <2>3, ElementOfSeq
    <3> QED BY <3>1
  <2>5. /\ out' = <<Event("candidate", table[e].cands[index + 1].text)>>
        /\ input' = [input EXCEPT ![e] = <<>>]
    BY <1>3 DEF CandidateSelected
  <2> QED BY <2>4, <2>5 DEF PromiseStep, Promise!Next, Promise!Choose, Promise!Leaves,
                          Promise!Event, Event
<1> QED BY <1>1, <1>2, <1>3

LEMMA NextPromise == IInv /\ [Next]_vars => PromiseStep
<1> SUFFICES ASSUME IInv, [Next]_vars PROVE PromiseStep
  OBVIOUS
<1>0. Composed /\ Settings /\ Threads
  BY DEF IInv
<1> USE DEF composing, statics, speech
<1>1. CASE UNCHANGED vars
  BY <1>1, QuietStep DEF vars
<1>2. ASSUME NEW e \in Engines,
             PassedKey(e) \/ SwallowedKey(e) \/ SpeechKey(e) \/ EnglishKey(e) \/ NavigateKey(e)
      PROVE  PromiseStep
  BY <1>2, QuietStep, Zenon DEF PassedKey, SwallowedKey, SpeechKey, EnglishKey, NavigateKey
<1>3. ASSUME NEW e \in Engines, CapsToEnglish(e) PROVE PromiseStep
  BY <1>3, SpellStep DEF CapsToEnglish
<1>4. ASSUME NEW e \in Engines, PunctuationKey(e) PROVE PromiseStep
  <2>1. PICK n \in 1..2 : out' = [k \in 1..n |-> Event("punctuation", "mark")]
    BY <1>4 DEF PunctuationKey
  <2>2. 1 \in DOMAIN out' /\ \A k \in DOMAIN out' : out'[k].kind = "punctuation"
    BY <2>1 DEF Event
  <2>3. out' # <<>>
    BY <2>2
  <2> QED BY <1>4, <2>2, <2>3, InsertStep DEF PunctuationKey
<1>5. ASSUME NEW e \in Engines, NEW index \in Indices, NEW ignoreText \in BOOLEAN,
             SelectKey(e, index, ignoreText)
      PROVE  PromiseStep
  <2>1. table[e].cursor \in Nat
    BY <1>0 DEF Composed, ListOK, Sound
  <2>2. CursorInPage(table[e]) \in Int
    BY <2>1, PageSizeAssumption DEF CursorInPage
  <2>3. GlobalCursor(table[e], index) \in Nat
    BY <2>1, <2>2, GuintAssumption DEF GlobalCursor, Indices
  <2> QED BY <1>0, <1>5, <2>3, SelectStep DEF SelectKey
<1>6. ASSUME NEW e \in Engines, LetterKey(e) PROVE PromiseStep
  <2>1. PICK l \in Letters : Query(e, Append(input[e], l))
    BY <1>6 DEF LetterKey
  <2>2. input' = [input EXCEPT ![e] = Append(@, l)] /\ out' = <<>>
    BY <1>0, <2>1 DEF Query, Composed
  <2> QED BY <2>2 DEF PromiseStep, Promise!Next, Promise!Compose
<1>7. ASSUME NEW e \in Engines, BackSpaceKey(e) PROVE PromiseStep
  <2>1. input' = [input EXCEPT ![e] = SubSeq(@, 1, Len(@) - 1)] /\ out' = <<>> /\ input[e] # <<>>
    BY <1>0, <1>7 DEF BackSpaceKey, Query, Composed
  <2> QED BY <2>1 DEF PromiseStep, Promise!Next, Promise!Erase
<1>8. ASSUME NEW e \in Engines, PanelMove(e) \/ RecorderStarts(e) PROVE PromiseStep
  BY <1>8, QuietStep DEF PanelMove, RecorderStarts
<1>9. ASSUME NEW e \in Engines, Click(e) PROVE PromiseStep
  <2>1. panel[e].size \in Nat
    BY <1>0, PageSizeAssumption DEF Composed
  <2>2. PICK index \in 0..(panel[e].size - 1) : CandidateSelected(e, index, FALSE)
    BY <1>9 DEF Click
  <2>3. index \in Nat /\ FALSE \in BOOLEAN
    BY <2>1, <2>2
  <2> QED BY <1>0, <2>2, <2>3, SelectStep, Zenon
<1>10. ASSUME NEW e \in Engines, NEW t, ChooseWubi(e, t) PROVE PromiseStep
  BY <1>10, ReloadSpells, QuietStep DEF ChooseWubi
<1>11. ASSUME NEW e \in Engines, SwitchFast(e) PROVE PromiseStep
  BY <1>11, ReloadSpells DEF SwitchFast
<1>12. ASSUME NEW e \in Engines, SwitchPinyin(e) PROVE PromiseStep
  BY <1>12, QuietStep DEF SwitchPinyin
<1>13. ASSUME NEW e \in Engines, FocusIn(e) PROVE PromiseStep
  BY <1>13, ReloadSpells, QuietStep DEF FocusIn
<1>14. ASSUME NEW e \in Engines, Frame(e) PROVE PromiseStep
  <2>1. input' = input
    BY <1>14 DEF Frame
  <2>2. CASE out' = <<>>
    BY <2>1, <2>2, QuietStep
  <2>3. ASSUME NEW answer, out' = <<Event("speech", answer)>> PROVE PromiseStep
    <3>1. out' # <<>> /\ \A k \in DOMAIN out' : out'[k].kind = "speech"
      BY <2>3 DEF Event
    <3> QED BY <2>1, <3>1, InsertStep
  <2> QED BY <1>14, <2>2, <2>3 DEF Frame
<1>15. CASE FocusOut \/ CapsElsewhere \/ ReloadRequested
  BY <1>15, QuietStep DEF FocusOut, CapsElsewhere, ReloadRequested
<1>16. ASSUME NEW d, LoaderReads(d) \/ \E c \in Contents : LoaderInstalls(d, c) PROVE PromiseStep
  BY <1>16, QuietStep DEF LoaderReads, LoaderInstalls
<1>17. ASSUME NEW e \in Engines, Key(e) PROVE PromiseStep
  <2>1. -1 \in Indices /\ TRUE \in BOOLEAN /\ FALSE \in BOOLEAN
    BY DEF Indices
  <2> QED BY <1>2, <1>3, <1>4, <1>5, <1>6, <1>7, <1>17, <2>1, Zenon DEF Key
<1>18. ASSUME NEW e \in Engines, Property(e) PROVE PromiseStep
  BY <1>10, <1>11, <1>12, <1>18, Zenon DEF Property
<1>19. CASE Next
  BY <1>8, <1>9, <1>13, <1>14, <1>15, <1>16, <1>17, <1>18, <1>19, Zenon DEF Next
<1> QED BY <1>1, <1>19

(* The engines keep the promise to the application: what was typed leaves  *)
(* a composition once, as it was typed or as a candidate for it, whatever  *)
(* keys, clicks, switches, focus changes and threads come in between.      *)
THEOREM EngineKeepsPromise == Spec => KeepsPromise
<1>1. Init => Promise!Init
  BY DEF Init, Promise!Init
<1>2. IInv /\ [Next]_vars => [Promise!Next]_<<input, out>>
  BY NextPromise DEF PromiseStep
<1> QED BY <1>1, <1>2, AlwaysIInv, PTL DEF Spec, KeepsPromise, Promise!Spec
=============================================================================
