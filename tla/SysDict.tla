------------------------------ MODULE SysDict -------------------------------
(***************************************************************************)
(* The system dictionary: the list of the lemmas' words                    *)
(* (src/pinyin/dictlist.cpp) and the trie of their spellings               *)
(* (construct_subset() of src/pinyin/dictbuilder.cpp) with its parsing     *)
(* state (src/pinyin/dicttrie.cpp).  The lemmas are those of DictBuilder,  *)
(* or any others.                                                          *)
(*                                                                         *)
(* A node of the trie is named by the full ids that lead to it; its sons   *)
(* stand together in the arrays.  A parsing mark is a run of sons, where   *)
(* they begin and how many: here the sequence of those nodes.              *)
(***************************************************************************)
EXTENDS Spelling, SequencesExt

CONSTANTS
  Lemmas,         \* by id, from 1: [word, spl, freq]; the shorter words first
  Psb(_),         \* NGram: the score of a frequency; the lower the likelier
  kMaxMileStone,  \* 100, of which the first is never used
  kMaxParsingMark \* 600

(* The longest lemma, in characters.                                       *)
kMaxLemmaSize == 8

ASSUME LemmasAssumption ==
  /\ Lemmas \in Seq([word : Seq(Nat), spl : Seq(FullIds), freq : Nat])
  /\ \A id \in DOMAIN Lemmas :
       /\ Len(Lemmas[id].spl) = Len(Lemmas[id].word) /\ Len(Lemmas[id].word) \in 1..kMaxLemmaSize
       /\ Psb(Lemmas[id].freq) \in Nat
       /\ id > 1 => Len(Lemmas[id - 1].word) <= Len(Lemmas[id].word)
  /\ \A i, j \in DOMAIN Lemmas :
       Lemmas[i].freq <= Lemmas[j].freq => Psb(Lemmas[j].freq) <= Psb(Lemmas[i].freq)

(* A finite set in the order of a strict total relation.                   *)
Listed(S, R) ==
  LET rank == [x \in S |-> Cardinality({y \in S : <<y, x>> \in R})]
  IN  [k \in 1..Cardinality(S) |-> CHOOSE x \in S : rank[x] = k - 1]

(* A sequence in the order of lt, pairs of its positions; what lt does not *)
(* order stays as it was.                                                  *)
Sorted(s, lt) ==
  LET order == Listed(DOMAIN s, {p \in (DOMAIN s) \X (DOMAIN s) :
                                   p \in lt \/ (<<p[2], p[1]>> \notin lt /\ p[1] < p[2])})
  IN  [k \in DOMAIN s |-> s[order[k]]]

LemmaNum == Len(Lemmas)
LemmaIds == DOMAIN Lemmas
LmaPsb == [id \in LemmaIds |-> Psb(Lemmas[id].freq)]

(* build_scis(): the pairs of a character and its spellings.               *)
Scis == UNION {{<<Lemmas[id].word[k], Lemmas[id].spl[k]>> : k \in DOMAIN Lemmas[id].word} :
                 id \in LemmaIds}

(* calculate_size(): the first id of each length.  Lengths nobody has, at  *)
(* the end, get the last id instead of the one after it.                   *)
OfLength(n) == {id \in LemmaIds : Len(Lemmas[id].word) = n}
StartId == [n \in 1..(kMaxLemmaSize + 1) |->
  IF n <= kMaxLemmaSize /\ OfLength(n) # {}
    THEN CHOOSE id \in OfLength(n) : \A j \in OfLength(n) : id <= j
    ELSE LemmaNum]

(* get_lemma_str(): no word for an id past the last start.                 *)
LemmaStr == [id \in 0..LemmaNum |->
  IF id # 0 /\ id < StartId[kMaxLemmaSize + 1] THEN Lemmas[id].word ELSE <<>>]

(* construct_subset(): a node for every prefix of a lemma's spelling; its  *)
(* homophones as compare_py() sorted them, the more frequent first.        *)
Paths == UNION {{SubSeq(Lemmas[id].spl, 1, n) : n \in 0..Len(Lemmas[id].spl)} : id \in LemmaIds}
MoreFrequent ==
  {p \in LemmaIds \X LemmaIds :
     \/ Lemmas[p[1]].freq > Lemmas[p[2]].freq
     \/ Lemmas[p[1]].freq = Lemmas[p[2]].freq /\ p[1] < p[2]}
Homos == [p \in Paths |-> Listed({id \in LemmaIds : Lemmas[id].spl = p}, MoreFrequent)]

(* get_splids_for_hanzi(): the spellings of a character, those of the half *)
(* id when one is given.                                                   *)
SplidsForHanzi(hz, half) ==
  {f \in FullIds : <<hz, f>> \in Scis /\ (half = 0 \/ HalfFullCompatible(half, f))}

(* get_lemma_splids(): the spellings tried one after another until the     *)
(* trie holds the lemma there; full ids the caller knows are kept.         *)
LemmaSplids(id, known) ==
  LET word  == LemmaStr[id]
      may(k) == IF known # <<>> /\ known[k] >= kFullSplIdStart THEN {known[k]}
                ELSE SplidsForHanzi(word[k], IF known = <<>> THEN 0 ELSE known[k])
  IN  {p \in Paths : /\ Len(p) = Len(word)
                     /\ \A k \in DOMAIN p : p[k] \in may(k)
                     /\ \E i \in DOMAIN Homos[p] : Homos[p][i] = id}

(* What extend_dmi() asserts: every spelling is that of some character.    *)
ASSUME SpellingAssumption == \A f \in FullIds : <<f>> \in Paths /\ Homos[<<f>>] # <<>>

-----------------------------------------------------------------------------
(* fill_lpi_buffer(): the homophones of a node with their scores.          *)
Items(p) ==
  [k \in DOMAIN Homos[p] |->
     [id |-> Homos[p][k], len |-> Len(p), psb |-> LmaPsb[Homos[p][k]]]]

(* The sons of a node whose spellings are among ids, which are id_start    *)
(* and the id_num - 1 after it, in their order; for each of several nodes  *)
(* that has any.                                                           *)
SonRun(p, ids) ==
  LET sons == Listed({f \in ids : Append(p, f) \in Paths}, {g \in ids \X ids : g[1] < g[2]})
  IN  [k \in DOMAIN sons |-> Append(p, sons[k])]
SonRuns(nodes, ids) ==
  LET run(k) == SonRun(nodes[k], ids)
  IN  FlattenSeq([k \in DOMAIN nodes |-> IF run(k) = <<>> THEN <<>> ELSE <<run(k)>>])
ItemsOf(nodes) == FlattenSeq([k \in DOMAIN nodes |-> Items(nodes[k])])

(* A mile stone with a mark for each run; no run, no mile stone.           *)
NewStone(d, runs, lpis) ==
  IF runs = <<>> THEN [dict |-> d, handle |-> 0, lpis |-> <<>>]
  ELSE [dict |-> [stones |-> Append(d.stones, [start |-> Len(d.marks) + 1, num |-> Len(runs)]),
                  marks |-> d.marks \o runs],
        handle |-> Len(d.stones) + 1, lpis |-> lpis]

(* extend_dict0(): from the root.  A cached id fills no items; of a Yunmu  *)
(* half id only the first spelling does.                                   *)
RootRun(splid) == SonRun(<<>>, IdRange(splid))
RootItems(splid) ==
  ItemsOf(IF IsHalfIdYunmu(splid) THEN AtMost(RootRun(splid), 1) ELSE RootRun(splid))
ExtendDict0(d, splid, cached) ==
  NewStone(d, <<RootRun(splid)>>, IF cached THEN <<>> ELSE RootItems(splid))

(* extend_dict1() and extend_dict2(): from every node the mile stone's     *)
(* marks hold; a mark for each of them that has sons in the range.         *)
StoneNodes(d, h) ==
  FlattenSeq(SubSeq(d.marks, d.stones[h].start, d.stones[h].start + d.stones[h].num - 1))
ExtendRuns(d, runs) == NewStone(d, runs, ItemsOf(FlattenSeq(runs)))
ExtendDict1(d, from, splid) == ExtendRuns(d, SonRuns(StoneNodes(d, from), IdRange(splid)))

(* What the arrays hold.  Past it extend_dict1() and extend_dict2() write  *)
(* beyond them.                                                            *)
HasRoom(d) == Len(d.stones) < kMaxMileStone /\ Len(d.marks) <= kMaxParsingMark

(* reset_milestones().                                                     *)
ResetMilestones(d, step, from) ==
  IF step = 0 THEN [d EXCEPT !.stones = <<>>, !.marks = <<>>]
  ELSE IF from > 0 /\ from <= Len(d.stones)
         THEN [d EXCEPT !.stones = SubSeq(@, 1, from - 1),
                        !.marks = SubSeq(@, 1, d.stones[from].start - 1)]
         ELSE d

(* DictTrie::get_lpis(): the lemmas whose spelling the ids stand for; of   *)
(* one Yunmu letter only those of the first node.                          *)
NodesFor(splids) ==
  LET nodes[k \in 0..Len(splids)] ==
        IF k = 0 THEN <<<<>>>>
        ELSE FlattenSeq(SonRuns(nodes[k - 1], IdRange(splids[k])))
  IN  nodes[Len(splids)]
DictLpis(splids) ==
  IF Len(splids) = 1 /\ IsHalfIdYunmu(splids[1]) THEN ItemsOf(AtMost(NodesFor(splids), 1))
  ELSE ItemsOf(NodesFor(splids))
=============================================================================
