----------------------------- MODULE Candidates -----------------------------
(***************************************************************************)
(* What a query puts in the candidate list: the fast-input output first,   *)
(* then the best exact wubi word, then the other wubi words and the pinyin *)
(* candidates one after another (Engine::ProcessKeyEvent and               *)
(* Engine::WubiPinyinQuery).  The dictionaries are constants: which words  *)
(* a table, the pinyin decoder or the user's file holds for an input.      *)
(***************************************************************************)
EXTENDS Integers, Sequences

CONSTANTS
  Letters,      \* a..z
  MaxInput,     \* bound of the model: the longest composition typed
  Texts,        \* texts a dictionary can offer
  None,         \* no table chosen; no dictionary installed
  WubiTables,   \* the wubi tables on disk, by path
  FastFiles,    \* contents of the user's fast-input file
  WubiExact,    \* WubiExact[t][s]: the most frequent word of code s, or none
  WubiOthers,   \* WubiOthers[t][s]: other words of s and of longer codes
  PinyinWords,  \* PinyinWords[s]: the decoder's candidates for s
  FastOutput    \* FastOutput[f][s]: what the command bound to s prints, or none

Inputs == UNION {[1..n -> Letters] : n \in 0..MaxInput}

ASSUME MaxInputAssumption == MaxInput \in Nat

ASSUME NoneAssumption == None \notin WubiTables \cup FastFiles

ASSUME DictionaryAssumption ==
  /\ WubiExact \in [WubiTables -> [Inputs -> Seq(Texts)]]
  /\ WubiOthers \in [WubiTables -> [Inputs -> Seq(Texts)]]
  /\ PinyinWords \in [Inputs -> Seq(Texts)]
  /\ FastOutput \in [FastFiles -> [Inputs -> Seq(Texts)]]

Candidate == [text : Texts, isPinyin : BOOLEAN]

(* One Append() per text, with its attribute.                              *)
Marked(texts, pinyin) ==
  [k \in 1..Len(texts) |-> [text |-> texts[k], isPinyin |-> pinyin]]

(* The merging loop: one of a, one of b, and so on; the longer sequence    *)
(* goes on alone when the other has ended.                                 *)
Alternate(a, b) ==
  LET m == IF Len(a) < Len(b) THEN Len(a) ELSE Len(b)
  IN  [k \in 1..(Len(a) + Len(b)) |->
         IF k > 2 * m
           THEN IF Len(a) > m THEN a[k - m] ELSE b[k - m]
           ELSE IF k % 2 = 1 THEN a[(k + 1) \div 2] ELSE b[k \div 2]]

(* WubiPinyinQuery(s): wanted is the table the options name, table the     *)
(* one that is installed; without either no wubi word is looked up.        *)
WubiPinyinQuery(s, pinyin, wanted, table) ==
  LET wubiOn == wanted # None /\ table # None
      exact  == IF wubiOn THEN WubiExact[table][s] ELSE <<>>
      others == IF wubiOn THEN WubiOthers[table][s] ELSE <<>>
      decoded == IF pinyin THEN PinyinWords[s] ELSE <<>>
  IN  Marked(exact, FALSE)
        \o Alternate(Marked(others, FALSE), Marked(decoded, TRUE))

(* The fast-input part of a query; file is None when fast input is off or  *)
(* no dictionary is installed.                                             *)
FastQuery(s, file) == IF file = None THEN <<>> ELSE Marked(FastOutput[file][s], FALSE)

(* Every list a query for s can produce, whatever the options are and      *)
(* whichever dictionaries are installed.                                   *)
Lists(s) ==
  {FastQuery(s, f) \o WubiPinyinQuery(s, p, w, w) :
     f \in FastFiles \cup {None}, p \in BOOLEAN, w \in WubiTables \cup {None}}

TextsOf(words) == {words[k] : k \in DOMAIN words}

(* The texts any dictionary holds for the letters s.                       *)
Offered == [s \in Inputs |-> {x \in Texts :
  \/ x \in TextsOf(PinyinWords[s])
  \/ \E t \in WubiTables : x \in TextsOf(WubiExact[t][s]) \cup TextsOf(WubiOthers[t][s])
  \/ \E f \in FastFiles : x \in TextsOf(FastOutput[f][s])}]
=============================================================================
