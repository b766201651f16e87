---------------------------- MODULE DictBuilder -----------------------------
(***************************************************************************)
(* What the dictionary builder takes from the text it is given             *)
(* (DictBuilder::read_raw_dict, src/pinyin/dictbuilder.cpp): which lines   *)
(* become lemmas, the table of spellings those lines leave behind, and the *)
(* lemmas in the order of their ids.                                       *)
(* A letter is its code, 97..122; a spelling and a word are sequences.     *)
(***************************************************************************)
EXTENDS Spelling, SequencesExt

CONSTANTS
  RawLines,     \* the file: [word, freq, gbk, py] of each line, py per character
  ValidHanzis   \* the list of accepted characters; empty without a list

ASSUME RawLinesAssumption ==
  \A k \in DOMAIN RawLines : Len(RawLines[k].py) >= Len(RawLines[k].word)

kMaxReadSize == 4    \* longer words are skipped
kMinFreq == 60       \* rarer words of several characters are skipped
kNotSupported == {<<104, 109>>, <<104, 110, 103>>, <<110, 103>>}    \* HM HNG NG

(* Gone through before the spellings of a line are looked at.              *)
Accepted(line) ==
  /\ Len(line.word) <= kMaxReadSize
  /\ Len(line.word) > 1 => line.freq >= kMinFreq
  /\ IF ValidHanzis = {} THEN line.gbk = 0
     ELSE \A k \in DOMAIN line.word : line.word[k] \in ValidHanzis

(* The spellings of a line that reach the table: up to the first one it    *)
(* refuses.                                                                *)
PutSpellings(line) ==
  {line.py[k] : k \in {i \in DOMAIN line.word :
                         \A j \in 1..i : line.py[j] \notin kNotSupported}}

(* A line becomes a lemma when all its spellings were put and it has none  *)
(* left over.                                                              *)
IsLemma(line) ==
  /\ Accepted(line)
  /\ Len(line.py) = Len(line.word)
  /\ \A k \in DOMAIN line.word : line.py[k] \notin kNotSupported

RawLemmas == SelectSeq(RawLines, IsLemma)

(* spl_table_: every spelling once, those of a line dropped for a later    *)
(* one of its spellings included.                                          *)
SpellingTable ==
  UNION {PutSpellings(RawLines[k]) : k \in {i \in DOMAIN RawLines : Accepted(RawLines[i])}}

(* build_dict(): the full id of each syllable; where a spelling is read as *)
(* a half id, the first full id it stands for.                             *)
SplIdxOf(spl) == IdStart(ParseSpl(spl, 2).idxs[1])

(* sort_lemmas_by_hz(): ids from 1 in the order of length, then of the     *)
(* word; the same word with another spelling is another lemma.             *)
ByHanzi ==
  LET entries == [k \in DOMAIN RawLemmas |->
                    [word |-> RawLemmas[k].word, freq |-> RawLemmas[k].freq,
                     spl |-> [i \in DOMAIN RawLemmas[k].word |-> SplIdxOf(RawLemmas[k].py[i])]]]
  IN  SortSeq(entries, LAMBDA e, f : \/ Len(e.word) < Len(f.word)
                                     \/ Len(e.word) = Len(f.word) /\ Before(e.word, f.word))
=============================================================================
