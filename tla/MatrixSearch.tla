---------------------------- MODULE MatrixSearch ----------------------------
(***************************************************************************)
(* The pinyin decoder (src/pinyin/matrixsearch.cpp) as the program uses    *)
(* it: one decoder, shared by every engine, searches one string after      *)
(* another.  A search keeps the rows of the letters it shares with the     *)
(* last one, extends the matrix letter by letter, reads the segmentation   *)
(* off the best path and collects the candidates.                          *)
(*                                                                         *)
(* The decoder is one record: letters decoded (pys), rows 0..Len(pys), the *)
(* pool of dictionary matches (dmis) and the mile stone of each (handles), *)
(* the pools of mile stones and marks (dict), the items left by the last   *)
(* call (lpis), the half ids already looked up (cache, which outlives a    *)
(* search), the rows whose fixed node was cleared, the segmentation.  A    *)
(* matrix node is named by its row and its place there.  The user          *)
(* dictionary is empty, nothing is ever fixed.                             *)
(***************************************************************************)
EXTENDS SysDict

CONSTANTS
  Queries,          \* bound of the model: the strings searched
  kMaxRowNum,       \* 40
  kMaxPinyinSize,   \* 6
  kMaxSpellings,    \* 9: the spellings a search keeps
  kMaxNodeARow,     \* 5
  kMtrxNdPoolSize,  \* 200
  kDmiPoolSize,     \* 800
  kMaxLpiCachePerId \* 15

ASSUME QueriesAssumption == Queries \subseteq Seq(97..122)
ASSUME SizesAssumption ==
  /\ {kMaxRowNum, kMaxPinyinSize, kMaxSpellings, kMaxNodeARow, kMtrxNdPoolSize,
      kDmiPoolSize, kMaxLpiCachePerId} \subseteq Nat \ {0}
  /\ kMaxRowNum > 1

(* The pools of nodes and of matches are never the first to be full: every *)
(* row can have its nodes, every mile stone its match.  The branches that  *)
(* refuse a node or a match for want of room are left out.                 *)
ASSUME PoolsAssumption ==
  /\ 1 + (kMaxRowNum - 2) * kMaxNodeARow < kMtrxNdPoolSize - kMaxNodeARow
  /\ kMaxMileStone <= kDmiPoolSize

PrunningScore == 8000

VARIABLES
  asked,            \* the string of the last search
  m                 \* the decoder

vars == <<asked, m>>

-----------------------------------------------------------------------------
RootNode == [id |-> 0, score |-> 0, row |-> 0, from |-> <<0, 0>>, dmi |-> 0]
Row0 == [nodes |-> <<RootNode>>, dmiPos |-> 0, dmiNum |-> 0, full |-> TRUE]
EmptyDict == [stones |-> <<>>, marks |-> <<>>]

Closed ==
  [pys |-> <<>>, rows |-> <<Row0>>, dmis |-> <<>>, handles |-> <<>>, dict |-> EmptyDict,
   lpis |-> <<>>, cache |-> [h \in HalfIds |-> <<>>], cleared |-> {}, spl |-> <<>>,
   start |-> <<0>>]

Row(d, r) == d.rows[r + 1]
Decoded(d) == Len(d.pys)
DmiEnd(row) == row.dmiPos + row.dmiNum

(* Mutant of ResetSearch: the rows are cut, the pool of matches is not.    *)
ResetSearchKeeping(d, pos) ==
  [d EXCEPT !.pys = SubSeq(@, 1, pos), !.rows = SubSeq(@, 1, pos + 1)]

(* reset_search(pos, ...): nothing beyond the letters decoded; otherwise   *)
(* the mile stones of the first match of the next row go, if it has any,   *)
(* and the pools are cut after row pos.                                    *)
ResetSearch(d, pos) ==
  LET next == Row(d, pos + 1)
      used == DmiEnd(Row(d, pos))
      dict == CASE pos = 0 -> EmptyDict
                [] 0 < pos /\ pos < Decoded(d) /\ next.dmiNum > 0 ->
                     ResetMilestones(d.dict, pos, d.handles[next.dmiPos + 1])
                [] OTHER -> d.dict
  IN  IF pos > Decoded(d) THEN d
      ELSE [d EXCEPT !.pys = SubSeq(@, 1, pos), !.rows = SubSeq(@, 1, pos + 1),
                     !.dmis = SubSeq(@, 1, used), !.handles = SubSeq(@, 1, used),
                     !.dict = dict]

-----------------------------------------------------------------------------
ByPsb(lpis) ==
  Sorted(lpis, {p \in (DOMAIN lpis) \X (DOMAIN lpis) : lpis[p[1]].psb < lpis[p[2]].psb})

(* extend_dmi(): match s (0: the root) extended by a spelling id.  A half  *)
(* id from the root is looked up once; put_cache() keeps the first items,  *)
(* and no others are used.                                                 *)
FromCache(d, s, splid) == s = 0 /\ IsHalfId(splid) /\ d.cache[splid] # <<>>
ExtendDict(d, s, splid) ==
  IF s = 0 THEN ExtendDict0(d.dict, splid, FromCache(d, s, splid))
  ELSE ExtendDict1(d.dict, d.handles[s], splid)
NewDmi(d, s, splid, extLen) ==
  [fr |-> s, spl |-> splid, level |-> IF s = 0 THEN 1 ELSE d.dmis[s].level + 1,
   len |-> extLen + IF s = 0 THEN 0 ELSE d.dmis[s].len]

(* Mutant of PutItems: what is not kept is used all the same.              *)
PutItemsAll(d, half, splid, lpis) ==
  [d EXCEPT !.lpis = lpis,
            !.cache = IF half THEN [@ EXCEPT ![splid] = AtMost(lpis, kMaxLpiCachePerId)] ELSE @]
PutItems(d, half, splid, lpis) ==
  LET kept == IF half THEN AtMost(lpis, kMaxLpiCachePerId) ELSE lpis
  IN  [d EXCEPT !.lpis = kept, !.cache = IF half THEN [@ EXCEPT ![splid] = kept] ELSE @]
AddDmi(d, s, splid, extLen, ext) ==
  LET added == IF ext.handle = 0 THEN d
               ELSE [d EXCEPT !.dict = ext.dict,
                              !.dmis = Append(@, NewDmi(d, s, splid, extLen)),
                              !.handles = Append(@, ext.handle)]
  IN  IF FromCache(d, s, splid) THEN [added EXCEPT !.lpis = d.cache[splid]]
      ELSE PutItems(added, s = 0 /\ IsHalfId(splid), splid, ByPsb(ext.lpis))
ExtendDmi(d, s, splid, extLen) == AddDmi(d, s, splid, extLen, ExtendDict(d, s, splid))

(* The loop of extend_mtrx_nd(): an item is put after the nodes that score *)
(* as low or lower; at most kMaxNodeARow nodes stay.  Items come in the    *)
(* order of their scores: after one that is pruned all are.                *)
PutItem(nodes, new, item, first) ==
  LET score == new.score + item.psb
      node  == [new EXCEPT !.id = item.id, !.score = score]
      place == 1 + Cardinality({j \in DOMAIN nodes : nodes[j].score <= score})
  IN  IF ~first /\ score - PrunningScore > nodes[1].score THEN nodes
      ELSE AtMost(InsertAt(nodes, place, node), kMaxNodeARow)
PutNodes(nodes, lpis, new) ==
  LET put[k \in 0..Len(lpis)] ==
        IF k = 0 THEN nodes ELSE PutItem(put[k - 1], new, lpis[k], k = 1)
  IN  put[Len(lpis)]

(* extend_mtrx_nd(): from the n-th node of row fr to the last row.         *)
ExtendMtrxNd(d, nodes, fr, n, dmi) ==
  LET node == Row(d, fr).nodes[n]
  IN  PutNodes(nodes, IF node.row = 0 THEN AtMost(d.lpis, kMaxNodeARow) ELSE d.lpis,
               [id |-> 0, score |-> node.score, row |-> Decoded(d), from |-> <<fr, n>>,
                dmi |-> dmi])
ExtendNodes(d, fr, dmi) ==
  LET from == Row(d, fr).nodes
      put[n \in 0..Len(from)] ==
        IF n = 0 THEN Row(d, Decoded(d)).nodes ELSE ExtendMtrxNd(d, put[n - 1], fr, n, dmi)
  IN  [d EXCEPT !.rows[Decoded(d) + 1].nodes = put[Len(from)],
                !.cleared = IF from = <<>> THEN @ ELSE @ \cup {Decoded(d)}]

(* One round of the inner loop of add_char_qwerty(): match s of the old    *)
(* row, or the root, extended by splid; longest is longest_ext.  The last  *)
(* row counts the match, and the nodes it comes from are extended.         *)
Skipped(a, old, s) ==
  LET ext == Decoded(a.d) - old
  IN  \/ a.longest > ext /\ s = 0 /\ ~Row(a.d, old).full
      \/ a.longest > ext /\ s # 0 /\ IsHalfId(a.d.dmis[s].spl)
      \/ s # 0 /\ a.d.dmis[s].level >= kMaxLemmaSize
CountDmi(d, old, splid) ==
  [d EXCEPT !.rows[Decoded(d) + 1].dmiNum = @ + (Len(d.dmis) - old),
            !.rows[Decoded(d) + 1].full = @ \/ (Len(d.dmis) > old /\ ~IsHalfId(splid))]
ExtendFrom(a, d, ext, fr) ==
  IF d.lpis = <<>> THEN [a EXCEPT !.d = d]
  ELSE [a EXCEPT !.d = ExtendNodes(d, fr, Len(a.d.dmis) + 1),
                 !.longest = IF @ = 0 /\ Row(d, fr).nodes # <<>> THEN ext ELSE @]
ExtendOne(a, old, s, splid) ==
  LET ext == Decoded(a.d) - old
  IN  IF Skipped(a, old, s) THEN a
      ELSE ExtendFrom(a, CountDmi(ExtendDmi(a.d, s, splid, ext), Len(a.d.dmis), splid), ext,
                      old - IF s = 0 THEN 0 ELSE a.d.dmis[s].len)

(* The matches of the old row one after another, the root last.            *)
ExtendRow(a, old, splid) ==
  LET row == Row(a.d, old)
      extended[k \in 0..(row.dmiNum + 1)] ==
        IF k = 0 THEN a
        ELSE ExtendOne(extended[k - 1], old, IF k > row.dmiNum THEN 0 ELSE row.dmiPos + k, splid)
  IN  extended[row.dmiNum + 1]

(* A round of the outer loop: the row ext letters back.                    *)
ExtendBy(a, old, spl) ==
  LET b == [a EXCEPT !.matched = @ \/ spl.pre]
  IN  IF spl.id = 0 THEN b ELSE ExtendRow(b, old, spl.id)
ExtendBack(a, ext) ==
  LET old == Decoded(a.d) - ext
  IN  CASE a.stopped \/ old < 0 -> a
        [] ~a.stopped /\ old >= 0 /\ ext > 1 /\ a.longest # 0 /\ ~Row(a.d, old).full ->
             [a EXCEPT !.stopped = TRUE]
        [] OTHER ->
             IF Row(a.d, old).nodes = <<>> THEN a
             ELSE ExtendBy(a, old, SplidByStr(SubSeq(a.d.pys, old + 1, Decoded(a.d))))

(* add_char_qwerty(): from the longest spelling on.                        *)
AddCharQwerty(d) ==
  LET most == kMaxPinyinSize + 1
      tried[k \in 0..most] ==
        IF k = 0 THEN [d |-> d, longest |-> 0, matched |-> FALSE, stopped |-> FALSE]
        ELSE ExtendBack(tried[k - 1], most + 1 - k)
  IN  tried[most]

(* add_char(): a row for the letter; ok when it got a node or may yet.     *)
(* When not, search() takes the length back, and the row with it; what the *)
(* attempt left in the pools stays.                                        *)
Judged(d, a) ==
  IF Row(a.d, Decoded(a.d)).nodes # <<>> \/ a.matched THEN [d |-> a.d, ok |-> TRUE]
  ELSE [d |-> [a.d EXCEPT !.pys = d.pys, !.rows = d.rows], ok |-> FALSE]
NewRow(d) == [nodes |-> <<>>, dmiPos |-> Len(d.dmis), dmiNum |-> 0, full |-> FALSE]
AddChar(d, ch) ==
  IF Decoded(d) >= kMaxRowNum - 1 THEN [d |-> d, ok |-> FALSE]
  ELSE Judged(d, AddCharQwerty([d EXCEPT !.pys = Append(@, ch), !.rows = Append(@, NewRow(d))]))

(* The letters after the first pos, until one is refused.                  *)
AddNext(a, ch) == IF a.ok THEN AddChar(a.d, ch) ELSE a
AddChars(d, py, pos) ==
  LET added[k \in pos..Len(py)] ==
        IF k = pos THEN [d |-> d, ok |-> TRUE] ELSE AddNext(added[k - 1], py[k])
  IN  added[Len(py)].d

-----------------------------------------------------------------------------
(* The matches that lead to the k-th, the first spelling first.            *)
DmiPath(dmis, k) ==
  LET path[i \in 0..Len(dmis)] == IF i = 0 THEN <<>> ELSE Append(path[dmis[i].fr], i)
  IN  path[k]

(* The spellings of a node's word, each with the letter it ends at.        *)
Spelt(dmis, node) ==
  LET path == DmiPath(dmis, node.dmi)
  IN  [k \in DOMAIN path |->
         [spl |-> dmis[path[k]].spl, end |-> node.row - (dmis[node.dmi].len - dmis[path[k]].len)]]

(* The nodes on the way to the best node of the last row.                  *)
Dead(d) == d.pys = <<>> \/ Row(d, Decoded(d)).nodes = <<>>
BestPath(d) ==
  LET path[r \in 0..Decoded(d)] ==
        [k \in DOMAIN Row(d, r).nodes |->
           LET node == Row(d, r).nodes[k]
           IN  IF r = 0 THEN <<>> ELSE Append(path[node.from[1]][node.from[2]], node)]
  IN  IF Dead(d) THEN <<>> ELSE path[Decoded(d)][1]

(* get_spl_start_id(): the segmentation of the best path.                  *)
SetSegments(d, segs) ==
  [d EXCEPT !.spl = [k \in DOMAIN segs |-> segs[k].spl],
            !.start = <<0>> \o [k \in DOMAIN segs |-> segs[k].end]]
Segments(d) ==
  LET path == BestPath(d) IN FlattenSeq([k \in DOMAIN path |-> Spelt(d.dmis, path[k])])
GetSplStartId(d) == SetSegments(d, Segments(d))

(* Mutant of CutSpellings: one letter at most goes.                        *)
CutSpellingsOnce(d, len) ==
  IF Len(d.spl) <= kMaxSpellings THEN d ELSE GetSplStartId(ResetSearch(d, len - 1))

(* The last letters go until the spellings are few enough.                 *)
CutTo(d, len) ==
  IF Len(d.spl) <= kMaxSpellings THEN d ELSE GetSplStartId(ResetSearch(d, len))
CutSpellings(d, len) ==
  LET cut[k \in 0..len] == IF k = 0 THEN d ELSE CutTo(cut[k - 1], len - k)
  IN  cut[len]

(* get_candidate0(): the lemmas of the best path; no string when one of    *)
(* them has none or they are longer than max.                              *)
Sentence(d, max) ==
  LET path  == BestPath(d)
      words == [k \in DOMAIN path |-> LemmaStr[path[k].id]]
      str   == FlattenSeq(words)
  IN  IF Len(str) > max \/ \E k \in DOMAIN words : words[k] = <<>> THEN <<>> ELSE str

(* Repeated items go: of the same word the later one only replaces when    *)
(* it scores lower, and what it replaces is the last item kept, whichever  *)
(* word that is.  The word of the sentence is not kept.  The lemma with    *)
(* the last id has what its buffer held for a word: an empty one here.     *)
KeepItem(kept, items, k, sent) ==
  LET word(i) == LemmaStr[items[i].id]
  IN  CASE k > 1 /\ word(k) = word(k - 1) ->
             IF items[k].psb < items[k - 1].psb /\ ~(items[k].len = 1 /\ word(k) = sent)
               THEN [kept EXCEPT ![Len(kept)] = items[k]] ELSE kept
        [] (k > 1 => word(k) # word(k - 1)) /\ word(k) = sent -> kept
        [] OTHER -> Append(kept, items[k])
Remaining(items, sent) ==
  LET kept[k \in 0..Len(items)] ==
        IF k = 0 THEN <<>> ELSE KeepItem(kept[k - 1], items, k, sent)
  IN  kept[Len(items)]

(* Mutant of GetLpis: the word of the sentence stays.                      *)
ByWord(lpis) ==
  Sorted(lpis, {p \in (DOMAIN lpis) \X (DOMAIN lpis) :
                  Before(LemmaStr[lpis[p[1]].id], LemmaStr[lpis[p[2]].id])})
GetLpisTwice(splids, sent, longest) ==
  IF longest THEN ByPsb(Remaining(ByWord(DictLpis(splids)), <<>>))
  ELSE Remaining(ByWord(DictLpis(splids)), <<>>)

(* get_lpis(): the lemmas for the spellings, each word once.               *)
GetLpis(splids, sent, longest) ==
  IF longest THEN ByPsb(Remaining(ByWord(DictLpis(splids)), sent))
  ELSE Remaining(ByWord(DictLpis(splids)), sent)

(* The loop of prepare_candidates(): n spellings, then fewer; only the     *)
(* first lemmas found are compared with the sentence.                      *)
CollectFor(got, splids, n, max, sent) ==
  got \o GetLpis(SubSeq(splids, 1, n), IF got = <<>> THEN sent ELSE <<>>, n = max)
Collect(splids, max, sent) ==
  LET got[k \in 0..max] ==
        IF k = 0 THEN <<>> ELSE CollectFor(got[k - 1], splids, max + 1 - k, max, sent)
  IN  got[max]

(* prepare_candidates(): those of all spellings by score, the others after *)
(* them by their score per character.                                      *)
InOrder(all, max) ==
  Sorted(all, {p \in (DOMAIN all) \X (DOMAIN all) :
                 LET i == all[p[1]]  j == all[p[2]]
                 IN  j.len # max /\ (i.len = max \/ i.psb * j.len < j.psb * i.len)})
PrepareCandidates(d) ==
  LET max == IF Len(d.spl) < kMaxLemmaSize THEN Len(d.spl) ELSE kMaxLemmaSize
  IN  [d EXCEPT !.lpis = InOrder(Collect(d.spl, max, Sentence(d, kMaxLemmaSize)), max)]

-----------------------------------------------------------------------------
CommonPrefix(s, t) ==
  CHOOSE n \in 0..Len(s) :
    /\ n <= Len(t)
    /\ \A k \in 1..n : s[k] = t[k]
    /\ n < Len(s) /\ n < Len(t) => s[n + 1] # t[n + 1]

(* search().                                                               *)
Taken(s) == AtMost(s, kMaxRowNum - 1)
Resumed(d, s) ==
  LET pos == CommonPrefix(d.pys, s) IN AddChars(ResetSearch(d, pos), Taken(s), pos)
SearchFor(d, s) ==
  PrepareCandidates(CutSpellings(GetSplStartId(Resumed(d, s)), Len(Taken(s))))

(* get_candidate_num() and get_candidate(): the sentence, then the items.  *)
CandidateNum(d) == IF Dead(d) THEN 0 ELSE 1 + Len(d.lpis)
CandidateStr(d, k, max) ==
  IF k = 0 \/ d.lpis = <<>> THEN Sentence(d, max) ELSE LemmaStr[d.lpis[k].id]

(* im_open_decoder(): matches, rows and caches are empty.                  *)
Init == asked = <<>> /\ m = Closed

(* im_search(s), by whichever engine has the next key; no search that runs *)
(* out of mile stones or marks.                                            *)
Search(s) ==
  /\ HasRoom(Resumed(m, s).dict)
  /\ asked' = s
  /\ m' = SearchFor(m, s)

Next == \E s \in Queries : Search(s)

Spec == Init /\ [][Next]_vars

-----------------------------------------------------------------------------
(* Rows, pools and mile stones account for each other after any searches:  *)
(* matches belong to rows without gap; the mile stones of later matches    *)
(* are later ones, and marks are shared out among them; a match extends an *)
(* earlier one that ends where its own letters begin, and its mile stone   *)
(* stands on the nodes its spelling leads to from where that one's stood;  *)
(* a node comes from a node of the row where its word begins, and its word *)
(* is spelt as its match is (reset_search() and the failed add_char()).    *)
RowOf(d, k) == CHOOSE r \in 1..Decoded(d) : Row(d, r).dmiPos < k /\ k <= DmiEnd(Row(d, r))
Standing(d, k) == StoneNodes(d.dict, d.handles[k])
ReferencesLive ==
  LET d == m.dmis  st == m.dict.stones
  IN  /\ Len(m.rows) = Decoded(m) + 1 /\ m.rows[1] = Row0
      /\ \A r \in 1..Decoded(m) : Row(m, r).dmiPos = DmiEnd(Row(m, r - 1))
      /\ DmiEnd(Row(m, Decoded(m))) = Len(d)
      /\ Len(m.handles) = Len(d)
      /\ \A k \in DOMAIN d :
           /\ m.handles[k] \in DOMAIN st
           /\ \A j \in 1..(k - 1) : m.handles[j] < m.handles[k]
      /\ \A k \in DOMAIN st :
           st[k].start + st[k].num =
             IF k = Len(st) THEN Len(m.dict.marks) + 1 ELSE st[k + 1].start
      /\ \A k \in DOMAIN d :
           IF d[k].fr = 0
             THEN Standing(m, k) = RootRun(d[k].spl) /\ d[k].level = 1
             ELSE /\ d[k].fr < k /\ d[k].level = d[d[k].fr].level + 1
                  /\ RowOf(m, k) - d[k].len = RowOf(m, d[k].fr) - d[d[k].fr].len
                  /\ Standing(m, k) =
                       FlattenSeq(SonRuns(Standing(m, d[k].fr), IdRange(d[k].spl)))
      /\ \A r \in 1..Decoded(m) : \A k \in DOMAIN Row(m, r).nodes :
           LET node == Row(m, r).nodes[k]
           IN  /\ node.row = r /\ node.from[2] \in DOMAIN Row(m, node.from[1]).nodes
               /\ RowOf(m, node.dmi) = r /\ d[node.dmi].len = r - node.from[1]
               /\ Len(Lemmas[node.id].word) = d[node.dmi].level
               /\ \E i \in DOMAIN Standing(m, node.dmi) :
                    Standing(m, node.dmi)[i] = Lemmas[node.id].spl

(* Whatever was searched before, by any engine, a search leaves what the   *)
(* same search leaves in a decoder just opened: search() resumes after the *)
(* letters shared with the last string (matrixsearch.cpp:442-453).  Only   *)
(* the numbers of the mile stones may differ, not where they stand: those  *)
(* of a row without matches stay behind.                                   *)
SearchedAnew ==
  LET fresh == SearchFor([Closed EXCEPT !.cache = m.cache], asked)
  IN  /\ m = [fresh EXCEPT !.cleared = m.cleared, !.dict = m.dict, !.handles = m.handles]
      /\ \A k \in DOMAIN m.dmis : Standing(m, k) = Standing(fresh, k)

(* The segmentation cuts the letters decoded into spellings without a gap, *)
(* at most kMaxSpellings of them, at rows whose fixed node was cleared     *)
(* (get_spl_start_id() reads it).  There is none only when nothing was     *)
(* asked or the string begins with no spelling, or its end, however it was *)
(* cut, is the beginning of a spelling that no id stands for.              *)
SegmentsCover ==
  /\ Len(m.start) = Len(m.spl) + 1 /\ Len(m.spl) <= kMaxSpellings
  /\ m.start[1] = 0
  /\ \A k \in DOMAIN m.spl :
       /\ m.start[k] < m.start[k + 1] /\ m.start[k + 1] \in m.cleared
       /\ SplidByStr(SubSeq(m.pys, m.start[k] + 1, m.start[k + 1])).id = m.spl[k]
  /\ m.spl # <<>> => m.start[Len(m.start)] = Decoded(m)
  /\ m.spl = <<>> =>
       \/ asked = <<>> \/ <<asked[1]>> \notin SplNodes
       \/ \E k \in 1..Decoded(m) :
            SubSeq(m.pys, k, Decoded(m)) \in {n \in SplNodes : NodeId[n] = 0}

(* A lemma is for the first n spellings when its ids are what they stand   *)
(* for; of a single Yunmu letter only its own spelling counts.             *)
IsFor(id, n) ==
  LET spl == Lemmas[id].spl
  IN  /\ Len(spl) = n /\ \A k \in 1..n : spl[k] \in IdRange(m.spl[k])
      /\ n = 1 /\ IsHalfIdYunmu(m.spl[1]) => spl[1] = IdStart(m.spl[1])

(* Two lemmas of several characters have the word of the sentence, the one *)
(* spelt later is the likelier: get_lpis() skips the first and puts the    *)
(* second in the place of the last word kept (matrixsearch.cpp:1733-1735). *)
SentenceTwice(sent) ==
  \E i, j \in LemmaIds :
    /\ Lemmas[i].word = sent /\ Lemmas[j].word = sent /\ Len(sent) > 1
    /\ IsFor(i, Len(sent)) /\ IsFor(j, Len(sent))
    /\ Before(Lemmas[i].spl, Lemmas[j].spl) /\ LmaPsb[j] < LmaPsb[i]

(* The list offered for the letters is the sentence and, each once, every  *)
(* word the dictionary has for the first spellings, whatever rows, caches  *)
(* and pools were reused; a sentence found twice takes the place of        *)
(* another word.  The spelling of a word offered is found again from its   *)
(* characters and the ids it was offered for (get_lemma_splids()).  Only   *)
(* the lemma with the last id has no word: when it is among the first      *)
(* lemmas found, beside a sentence, an empty place is offered for it.      *)
CandidatesMatch ==
  LET words == [k \in 1..Len(m.lpis) |-> CandidateStr(m, k, 240)]
      sent  == Sentence(m, kMaxLemmaSize)
  IN  /\ \A k \in DOMAIN m.lpis :
           /\ IsFor(m.lpis[k].id, m.lpis[k].len)
           /\ m.lpis[k].id # LemmaNum =>
                LemmaSplids(m.lpis[k].id, SubSeq(m.spl, 1, m.lpis[k].len)) =
                  {Lemmas[m.lpis[k].id].spl}
      /\ \A j, k \in DOMAIN words : j < k => words[j] # words[k]
      /\ \/ SentenceTwice(sent)
         \/ /\ \A k \in DOMAIN words : sent # <<>> => words[k] # sent
            /\ \A n \in 1..Len(m.spl) : \A id \in LemmaIds \ {LemmaNum} :
                 IsFor(id, n) => \/ Lemmas[id].word = sent
                                \/ \E k \in DOMAIN words : words[k] = Lemmas[id].word
      /\ Dead(m) \/ CandidateNum(m) = 1 + Len(words)
=============================================================================
