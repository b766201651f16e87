------------------------------ MODULE WubiTrie ------------------------------
(***************************************************************************)
(* A wubi dictionary (class Wubi, src/src/DictWubi.cpp): the lines of a    *)
(* table file become a trie and a map from words to codes; a query walks   *)
(* the trie, and the engine merges what it finds (Engine.cpp:260-296).     *)
(*                                                                         *)
(* A node is named by the code it was made for, so the child of a node by  *)
(* a letter is the name with the letter appended.  A line that is neither  *)
(* a marker nor an entry with a number, or has a code beyond a..z, ends    *)
(* the process.                                                            *)
(***************************************************************************)
EXTENDS Naturals, Sequences

CONSTANTS
  LetterCount,   \* the letters are 1..LetterCount, in their order
  MaxCode,       \* the longest code of a line
  Texts,         \* words
  Freqs,         \* frequencies
  MaxLines       \* bound of the model: entries of the file

ASSUME WubiAssumption ==
  LetterCount \in Nat /\ MaxCode \in Nat /\ MaxLines \in Nat /\ Freqs \subseteq Nat

VARIABLES
  began,         \* has_began
  trie,          \* the nodes: isEndOfWord and values of each
  codeOf,        \* m_wubiCodeSearcher
  entries,       \* the entries read so far, in their order
  crashed        \* the process has died

vars == <<began, trie, codeOf, entries, crashed>>

Letters == 1..LetterCount
Codes == UNION {[1..n -> Letters] : n \in 0..MaxCode}
Put(m, k, v) ==
  IF k \in DOMAIN m THEN m ELSE [j \in DOMAIN m \cup {k} |-> IF j = k THEN v ELSE m[j]]
Merged(m, n) == [k \in DOMAIN m \cup DOMAIN n |-> IF k \in DOMAIN m THEN m[k] ELSE n[k]]
Empty == [f \in {} |-> f]

NewNode == [isEndOfWord |-> FALSE, values |-> Empty]
Prefixes(code) == {SubSeq(code, 1, n) : n \in 0..Len(code)}

(* Mutant of TrieInsert: every node on the way is marked.                  *)
TrieInsertMarking(nodes, code, text, freq) ==
  [p \in DOMAIN nodes \cup Prefixes(code) |->
     LET old == IF p \in DOMAIN nodes THEN nodes[p] ELSE NewNode
     IN  [isEndOfWord |-> old.isEndOfWord \/ p \in Prefixes(code),
          values |-> IF p = code THEN Put(old.values, freq, text) ELSE old.values]]

(* Mutant of TrieInsert: a node is made anew on the way.                   *)
TrieInsertAnew(nodes, code, text, freq) ==
  [p \in DOMAIN nodes \cup Prefixes(code) |->
     IF p = code THEN [isEndOfWord |-> TRUE, values |-> Put(Empty, freq, text)]
     ELSE IF p \in DOMAIN nodes THEN nodes[p] ELSE NewNode]

(* TrieInsert(): missing nodes on the way are made, the last is marked.    *)
TrieInsert(nodes, code, text, freq) ==
  LET old == IF code \in DOMAIN nodes THEN nodes[code] ELSE NewNode
  IN  [p \in DOMAIN nodes \cup Prefixes(code) |->
         IF p = code
           THEN [isEndOfWord |-> TRUE, values |-> Put(old.values, freq, text)]
           ELSE IF p \in DOMAIN nodes THEN nodes[p] ELSE NewNode]

(* TrieSearch(): whether the walk from the root arrives.                   *)
Found(code) == Prefixes(code) \subseteq DOMAIN trie

(* The loop of SubTreeTraversal(), letter by letter: a child's words, then *)
(* those below it, which sub has; of two words with one frequency the      *)
(* first is kept.                                                          *)
Below(sub, p) ==
  LET below[l \in 0..LetterCount] ==
        IF l = 0 THEN Empty
        ELSE LET child == Append(p, l)
             IN  IF child \notin DOMAIN trie THEN below[l - 1]
                 ELSE Merged(below[l - 1], Merged(trie[child].values, sub[child]))
  IN  below[LetterCount]

(* SubTreeTraversal() into an empty map: the words of the nodes below p by *)
(* frequency.                                                              *)
SubTree[p \in Codes] == Below(SubTree, p)

----------------------------------------------------------------------------
(* The engine's query.                                                     *)

Greatest(s) == CHOOSE x \in s : \A y \in s : y <= x
Without(m, k) == [j \in DOMAIN m \ {k} |-> m[j]]

(* The best exact match, apart; <<>> if there is none.                     *)
Exact(code) ==
  IF Found(code) /\ trie[code].isEndOfWord
    THEN <<trie[code].values[Greatest(DOMAIN trie[code].values)]>>
    ELSE <<>>

(* Mutant of Others: longer codes first.                                   *)
OthersLate(code) ==
  IF ~Found(code) THEN Empty
  ELSE LET own == trie[code].values
       IN  Merged(SubTree[code],
                  IF trie[code].isEndOfWord THEN Without(own, Greatest(DOMAIN own)) ELSE Empty)

(* Mutant of Others: of the exact matches only the best is taken.          *)
OthersBelow(code) == IF Found(code) THEN SubTree[code] ELSE Empty

(* The other exact matches, then the words of longer codes, by frequency.  *)
Others(code) ==
  IF ~Found(code) THEN Empty
  ELSE LET own == trie[code].values
       IN  Merged(IF trie[code].isEndOfWord THEN Without(own, Greatest(DOMAIN own)) ELSE Empty,
                  SubTree[code])

Offered(code) ==
  {Exact(code)[i] : i \in DOMAIN Exact(code)} \cup {Others(code)[f] : f \in DOMAIN Others(code)}

(* Mutant of CodeKept: the two are swapped.                                *)
CodeSwapped(m, text, code) == Put(m, code, text)

(* Mutant of CodeKept: a word's last code is kept.                 *)
CodeLast(m, text, code) == [t \in DOMAIN m \cup {text} |-> IF t = text THEN code ELSE m[t]]

(* m_wubiCodeSearcher.insert().                                            *)
CodeKept(m, text, code) == Put(m, text, code)

----------------------------------------------------------------------------
(* The lines of the file.                                                  *)

Begin ==   \* BEGIN_TABLE
  /\ ~began /\ began' = TRUE
  /\ UNCHANGED <<trie, codeOf, entries, crashed>>

(* Anything before BEGIN_TABLE, and markers later on, are skipped.         *)
Entry(code, text, freq) ==
  /\ began /\ Len(entries) < MaxLines
  /\ trie' = TrieInsert(trie, code, text, freq)
  /\ codeOf' = CodeKept(codeOf, text, code)
  /\ entries' = Append(entries, [code |-> code, text |-> text, freq |-> freq])
  /\ UNCHANGED <<began, crashed>>

BadLine ==
  /\ began /\ crashed' = TRUE
  /\ UNCHANGED <<began, trie, codeOf, entries>>

Init ==
  /\ began = FALSE
  /\ trie = [p \in {<<>>} |-> NewNode]
  /\ codeOf = Empty /\ entries = <<>>
  /\ crashed = FALSE

Next ==
  /\ ~crashed
  /\ \/ Begin \/ BadLine
     \/ \E code \in Codes, text \in Texts, freq \in Freqs : Entry(code, text, freq)

Spec == Init /\ [][Next]_vars

----------------------------------------------------------------------------
(* Correctness.                                                            *)

Node == [isEndOfWord : BOOLEAN, values : UNION {[fs -> Texts] : fs \in SUBSET Freqs}]

(* Every variable has a value of its kind.                                 *)
TypeOK ==
  /\ began \in BOOLEAN /\ crashed \in BOOLEAN
  /\ DOMAIN trie \subseteq Codes /\ \A p \in DOMAIN trie : trie[p] \in Node
  /\ DOMAIN codeOf \subseteq Texts /\ \A t \in DOMAIN codeOf : codeOf[t] \in Codes
  /\ entries \in Seq([code : Codes, text : Texts, freq : Freqs])

(* The trie is a table of codes: a search finds exactly the words that     *)
(* were inserted under the code, whatever codes share its beginning and in *)
(* whatever order the lines came.                                          *)
WordsOf(code) == IF Found(code) THEN trie[code].values ELSE Empty
Table == INSTANCE WubiTable WITH words <- [code \in Codes |-> WordsOf(code)]
KeepsTable == Table!Spec

(* A node ends a word exactly if it has one: the engine takes the last     *)
(* value of such a node without asking whether there is any.               *)
EndsHaveWords ==
  /\ \A p \in DOMAIN trie : trie[p].isEndOfWord <=> trie[p].values # Empty
  /\ \A p \in DOMAIN trie : Prefixes(p) \subseteq DOMAIN trie

StartsWith(code, prefix) == Len(prefix) <= Len(code) /\ SubSeq(code, 1, Len(prefix)) = prefix

(* The words of exactly the letters typed are never hidden by those of     *)
(* longer codes that have the same frequency.                              *)
ExactNeverHidden ==
  \A code \in Codes : \A f \in DOMAIN WordsOf(code) : WordsOf(code)[f] \in Offered(code)

(* A line whose code starts with the letters typed is offered, or has lost *)
(* its place to another line with its very frequency.                      *)
LostOnlyToEqual ==
  \A code \in Codes : \A i \in DOMAIN entries :
    StartsWith(entries[i].code, code) =>
      \/ entries[i].text \in Offered(code)
      \/ \E j \in DOMAIN entries \ {i} :
           /\ StartsWith(entries[j].code, code) /\ entries[j].freq = entries[i].freq
           /\ entries[j].text \in Offered(code)

(* The hint after a pinyin selection names the code that the table lists   *)
(* first for the word, and no word is without its hint.                    *)
HintIsFirstCode ==
  \A t \in Texts :
    LET lines == {i \in DOMAIN entries : entries[i].text = t}
    IN  IF lines = {} THEN t \notin DOMAIN codeOf
        ELSE \E i \in lines :
               /\ \A j \in lines : i <= j
               /\ t \in DOMAIN codeOf /\ codeOf[t] = entries[i].code
=============================================================================
