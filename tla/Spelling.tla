------------------------------ MODULE Spelling ------------------------------
(***************************************************************************)
(* The spelling trie and the parser that cuts a string of letters into     *)
(* spelling ids (src/pinyin/spellingtrie.cpp, src/pinyin/splparser.cpp).   *)
(* A node of the trie is named by the letters that lead to it.  The first  *)
(* letter of a spelling, and zh, ch, sh, stand for every spelling they     *)
(* begin: their ids are the half ids; a whole spelling has a full id.      *)
(***************************************************************************)
EXTENDS Integers, Sequences, FiniteSets

CONSTANT Spellings    \* the letters of each spelling, lower case

ASSUME SpellingsAssumption ==
  IsFiniteSet(Spellings) /\ \A s \in Spellings : s \in Seq(97..122) /\ s # <<>>

kFullSplIdStart == 30
IsLetter(ch) == ch \in 97..122

(* char_flags_: a e o are Yunmu, i u v nothing, the others Shengmu.        *)
IsYunmu(ch) == ch \in {97, 101, 111}
IsSzm(ch) == IsLetter(ch) /\ ch \notin {105, 117, 118}

AtMost(s, n) == SubSeq(s, 1, IF Len(s) < n THEN Len(s) ELSE n)

(* format_spelling_str(): the h of zh, ch, sh is kept in lower case, which *)
(* sorts after every other letter.                                         *)
Doubled == {<<99, 104>>, <<115, 104>>, <<122, 104>>}
Format(spl) ==
  IF AtMost(spl, 2) \in Doubled THEN [spl EXCEPT ![2] = 200] ELSE spl

(* strcmp() < 0 on zero-terminated sequences.                              *)
Before(s, t) ==
  \E k \in 1..Len(t) :
    /\ Len(s) >= k - 1
    /\ \A i \in 1..(k - 1) : s[i] = t[i]
    /\ Len(s) >= k => s[k] < t[k]

(* spelling_buf_ after construct() sorted it: the full id of a spelling    *)
(* counts those before it.                                                 *)
FullIds == kFullSplIdStart..(kFullSplIdStart + Cardinality(Spellings) - 1)
FullId == [s \in Spellings |->
  kFullSplIdStart + Cardinality({t \in Spellings : Before(Format(t), Format(s))})]

SplNodes == UNION {{SubSeq(s, 1, n) : n \in 1..Len(s)} : s \in Spellings}
HalfNodes == {n \in SplNodes : (Len(n) = 1 /\ IsSzm(n[1])) \/ n \in Doubled}

(* Positions in kHalfId2Sc_, "0ABCcDEFGHIJKLMNOPQRSsTUVWXYZz".             *)
HalfId(n) ==
  n[1] - 96 + Cardinality({d \in Doubled : d[1] < n[1]}) + (Len(n) - 1)
HalfIds == {HalfId(n) : n \in HalfNodes}

(* construct_spellings_subset(): a half id replaces the full id of a       *)
(* spelling of one letter; an inner node has none.                         *)
NodeId == [n \in SplNodes |->
  IF n \in HalfNodes THEN HalfId(n) ELSE IF n \in Spellings THEN FullId[n] ELSE 0]

HalfNode == [h \in HalfIds |-> CHOOSE n \in HalfNodes : HalfId(n) = h]
FullsOf(n) == {FullId[s] : s \in {t \in Spellings : AtMost(t, Len(n)) = n}}
H2FNum == [h \in HalfIds |-> Cardinality(FullsOf(HalfNode[h]))]
H2FStart == [h \in HalfIds |->
  CHOOSE f \in FullsOf(HalfNode[h]) : \A g \in FullsOf(HalfNode[h]) : f <= g]

IsHalfId(id) == 0 < id /\ id < kFullSplIdStart
IsHalfIdYunmu(id) == IsHalfId(id) /\ Len(HalfNode[id]) = 1 /\ IsYunmu(HalfNode[id][1])

(* half_to_full(), or the full id itself: the ids an id stands for.        *)
IdStart(id) == IF IsHalfId(id) THEN H2FStart[id] ELSE id
IdNum(id) == IF IsHalfId(id) THEN H2FNum[id] ELSE 1
IdRange(id) == IdStart(id)..(IdStart(id) + IdNum(id) - 1)

(* build_f2h(): the later half id wins, so a spelling in sh has sh.        *)
FullToHalf == [f \in FullIds |->
  LET hs == {h \in HalfIds : f \in IdRange(h)}
  IN  IF hs = {} THEN 0 ELSE CHOOSE h \in hs : \A g \in hs : g <= h]

(* half_full_compatible().                                                 *)
HalfFullCompatible(h, f) ==
  \/ FullToHalf[f] = h
  \/ FullToHalf[f] # 0 /\ Len(HalfNode[h]) = 1 /\ HalfNode[FullToHalf[f]][1] = HalfNode[h][1]

(* if_valid_id_update(): the root and inner nodes end no spelling; every   *)
(* half id is enabled.                                                     *)
ValidId(node) == node # <<>> /\ NodeId[node] # 0

(* One round of the loop of splstr_to_idxs(): p.pos letters read, the trie *)
(* walked to p.node, p.idxs and p.starts found; done when it returned.     *)
ParseStep(str, max, p) ==
  LET ch    == str[p.pos + 1]
      ended == ValidId(p.node)
      found(start) == [p EXCEPT !.idxs = Append(@, NodeId[p.node]), !.node = <<>>,
                                !.starts = Append(@, start), !.pos = start,
                                !.done = Len(p.idxs) + 1 >= max]
      stop == [p EXCEPT !.done = TRUE]
  IN  CASE p.done -> p
        [] ~p.done /\ p.pos = Len(str) ->
             [(IF ended THEN found(p.pos) ELSE p) EXCEPT !.done = TRUE, !.pre = ~p.split]
        [] ~p.done /\ p.pos < Len(str) /\ IsLetter(ch) /\ Append(p.node, ch) \in SplNodes ->
             [p EXCEPT !.pos = @ + 1, !.node = Append(@, ch), !.split = FALSE]
        [] ~p.done /\ p.pos < Len(str) /\ IsLetter(ch) /\ Append(p.node, ch) \notin SplNodes ->
             IF ended THEN [found(p.pos) EXCEPT !.split = FALSE] ELSE stop
        [] ~p.done /\ p.pos < Len(str) /\ ~IsLetter(ch) ->
             IF ended THEN [found(p.pos + 1) EXCEPT !.split = TRUE]
             ELSE IF p.split
               THEN [p EXCEPT !.pos = @ + 1, !.starts[Len(p.idxs) + 1] = p.pos + 1]
               ELSE stop

(* splstr_to_idxs(): the ids, where each starts and the last ends, and     *)
(* whether the whole string was a prefix of something.  A letter is looked *)
(* at twice at most: where a spelling ends and where the next begins.      *)
ParseSpl(str, max) ==
  LET begin == [pos |-> 0, node |-> <<>>, idxs |-> <<>>, starts |-> <<0>>, split |-> FALSE,
                done |-> str = <<>> \/ ~IsLetter(str[1]), pre |-> FALSE]
      round[k \in 0..(2 * Len(str) + 1) ] ==
        IF k = 0 THEN begin ELSE ParseStep(str, max, round[k - 1])
  IN  round[2 * Len(str) + 1]

(* get_splid_by_str(): the id when the whole string is one spelling.       *)
WholeId(p, len) ==
  [id |-> IF Len(p.idxs) = 1 /\ p.starts[2] = len THEN p.idxs[1] ELSE 0, pre |-> p.pre]
SplidByStr(str) == WholeId(ParseSpl(str, 2), Len(str))
=============================================================================
