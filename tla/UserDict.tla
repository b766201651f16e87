------------------------------ MODULE UserDict ------------------------------
(***************************************************************************)
(* The user dictionary (src/pinyin/userdict.cpp) with its two users: the   *)
(* decoder, which searches it and adds what was chosen                     *)
(* (src/pinyin/matrixsearch.cpp), and Sync (src/pinyin/sync.cpp), which    *)
(* merges downloaded lemmas and hands out new ones.  Each has an object of *)
(* its own, in one process and on one file.                                *)
(*                                                                         *)
(* An object keeps the block of lemmas by byte offset, a list of offsets   *)
(* in the order of initial letters with scores and ids, the offsets of     *)
(* lemmas to be handed out, and caches of ranges of the list.  What was    *)
(* changed is written into the file when the object is closed.             *)
(*                                                                         *)
(* Abstractions: a query is a sequence of sets of full ids, an id being    *)
(* that of a spelling or, for a half id, of all it stands for; a score is  *)
(* its frequency; two readings of the clock differ; files and memory do    *)
(* not fail.  Left out: the list for predictions and the total of the      *)
(* frequencies, which no lookup reads.                                     *)
(***************************************************************************)
EXTENDS Integers, Sequences, FiniteSets, SequencesExt

CONSTANTS
  Lemmas,             \* records of spl, full ids, and word, as long
  Phrases,            \* those the decoder may add
  Downloads,          \* those that Sync may download
  Initial(_),         \* the first letter of a full id's spelling
  Queries,            \* what the decoder searches: sets with one initial
  Counts,             \* the frequencies of downloaded lemmas
  MaxLemmas, MaxSyncs, MaxGone, \* bounds of the model
  kUserDictPreAlloc,  \* 32: lemmas there is room for after a load
  kUserDictAverageNchar, \* 8
  kUserDictCacheSize, \* 4
  kUserDictMissCacheSize, \* 7
  kUserDictMaxFrequency, \* 0xFFFF
  kUserDictMaxLemmaCount, \* 5000
  kUserDictRatio      \* 20

ASSUME LemmasAssumption ==
  /\ Phrases \cup Downloads \subseteq Lemmas
  /\ \A l \in Lemmas : l.spl \in Seq(Nat) \ {<<>>} /\ Len(l.word) = Len(l.spl)
  /\ \A l \in Lemmas : \A k \in DOMAIN l.spl : Initial(l.spl[k]) \in Nat
ASSUME QueriesAssumption ==
  \A q \in Queries : /\ q \in Seq(SUBSET Nat)
                     /\ \A k \in DOMAIN q : \A f, g \in q[k] : Initial(f) = Initial(g)
ASSUME SizesAssumption ==
  /\ Counts \subseteq Nat
  /\ {kUserDictPreAlloc, kUserDictAverageNchar, kUserDictMaxFrequency, kUserDictMaxLemmaCount} \subseteq Nat
  /\ {kUserDictCacheSize, kUserDictMissCacheSize} \subseteq Nat \ {0, 1}
  /\ kUserDictRatio \in 1..99

VARIABLES
  dicts,              \* the objects of the decoder and of Sync
  file,               \* the dictionary file
  got                 \* last_count_ of Sync

vars == <<dicts, file, got>>

Ime == "decoder"
Syncing == "sync"
Dicts == {Ime, Syncing}

NONE == 0  SYNC == 1  SYNC_DIRTY == 2  SCORE_DIRTY == 3
OFFSET_DIRTY == 4  LEMMA_DIRTY == 5  DEFRAGMENTED == 6

-----------------------------------------------------------------------------
Size(l) == 2 + 4 * Len(l.spl)
Room == kUserDictPreAlloc * (2 + 4 * kUserDictAverageNchar)
AtLeast(state, least) == IF state < least THEN least ELSE state
Least(S) == CHOOSE k \in S : \A j \in S : k <= j
Restricted(f, S) == [x \in DOMAIN f \cap S |-> f[x]]
Joined(f, g) == [x \in DOMAIN f \cup DOMAIN g |-> IF x \in DOMAIN f THEN f[x] ELSE g[x]]

LemmaAt(d, k) == d.lemmas[d.list[k].at]
InUse(d) == {k \in DOMAIN d.list : ~d.list[k].gone}

(* signature of a spelling, and of a query.                                *)
Initials(spl) == [k \in DOMAIN spl |-> Initial(spl[k])]
Signature(q) == [k \in DOMAIN q |-> Initial(CHOOSE f \in q[k] : TRUE)]

(* fuzzy_compare_spell_id() < 0: by length, then by initial letters.       *)
FuzzyBefore(s, t) ==
  \/ Len(s) < Len(t)
  \/ /\ Len(s) = Len(t)
     /\ \E k \in DOMAIN s : s[k] < t[k] /\ \A i \in 1..(k - 1) : s[i] = t[i]

(* equal_spell_id().                                                       *)
EqualSpell(spl, q) == Len(spl) = Len(q) /\ \A k \in DOMAIN q : spl[k] \in q[k]

(* locate_first_in_offsets(): a binary search; the last place it came by   *)
(* that begins with the letters, 0 if none.                                *)
LocateFirst(d, sig) ==
  LET n == Len(d.list)
      search[r \in [begin : 1..(n + 1), end : 0..n, first : 0..n]] ==
        LET middle == (r.begin + r.end) \div 2
            here   == Initials(LemmaAt(d, middle).spl)
            seen   == IF IsPrefix(sig, here) THEN middle ELSE r.first
        IN  IF r.begin > r.end THEN r.first
            ELSE IF FuzzyBefore(here, sig) THEN search[[r EXCEPT !.begin = middle + 1, !.first = seen]]
            ELSE search[[r EXCEPT !.end = middle - 1, !.first = seen]]
  IN  search[[begin |-> 1, end |-> n, first |-> 0]]

(* The rings of cached ranges and of cached misses, the oldest first; one  *)
(* place of a ring stays free.                                             *)
Pushed(ring, e, size) == IF Len(ring) < size - 1 THEN Append(ring, e) ELSE Append(Tail(ring), e)
Cached(d, sig) == {k \in DOMAIN d.cache[Len(sig)] : d.cache[Len(sig)][k].sig = sig}
CachedRange(d, sig) == d.cache[Len(sig)][Least(Cached(d, sig))]
NoCache == [n \in {Len(l.spl) : l \in Lemmas} \cup {Len(q) : q \in Queries} |-> <<>>]

-----------------------------------------------------------------------------
Closed ==
  [state |-> NONE, lemmas |-> <<>>, size |-> 0, list |-> <<>>, byId |-> <<>>, syncs |-> <<>>,
   countLeft |-> 0, sizeLeft |-> 0, limit |-> 0, ratio |-> 0, cache |-> NoCache,
   misses |-> NoCache, fresh |-> FALSE]

(* reset(): a file without lemmas.                                         *)
EmptyFile ==
  [lemmas |-> <<>>, size |-> 0, offsets |-> <<>>, scores |-> <<>>, syncs |-> <<>>,
   info |-> [count |-> 0, size |-> 0, sync |-> 0, limit |-> 0, ratio |-> 0]]

(* validate(): the length of the file is what its last record says.        *)
Valid(f) ==
  f.size + 4 * (Len(f.offsets) + Len(f.scores) + Len(f.syncs)) =
    f.info.size + 8 * f.info.count + 4 * f.info.sync

(* load(): ids from the first on.                                          *)
Loaded(f) ==
  [Closed EXCEPT !.state = SYNC, !.lemmas = f.lemmas, !.size = f.size,
     !.list = [k \in DOMAIN f.offsets |->
                 [at |-> f.offsets[k].at, gone |-> f.offsets[k].gone, score |-> f.scores[k], id |-> k]],
     !.byId = [k \in DOMAIN f.offsets |-> f.offsets[k].at],
     !.syncs = f.syncs, !.countLeft = kUserDictPreAlloc, !.sizeLeft = Room,
     !.limit = f.info.limit, !.ratio = f.info.ratio, !.fresh = TRUE]

(* load_dict(): a file that is not valid is replaced by an empty one.      *)
Load(w, i) ==
  LET f == IF Valid(w.file) THEN w.file ELSE EmptyFile
  IN  [dicts |-> [w.dicts EXCEPT ![i] = Loaded(f)], file |-> f]

(* Mutant of WriteBack: removals are taken for changes of scores.          *)
WriteBackScores(f, d, syncs) ==
  LET start   == d.size - (Room - d.sizeLeft)
      lemmas  == Joined(Restricted(f.lemmas, 0..(start - 1)), Restricted(d.lemmas, start..d.size))
      offsets == [k \in DOMAIN d.list |-> [at |-> d.list[k].at, gone |-> d.list[k].gone]]
      scores  == [k \in DOMAIN d.list |-> d.list[k].score]
      info    == [count |-> Len(d.list), size |-> d.size, sync |-> Len(d.syncs),
                  limit |-> d.limit, ratio |-> d.ratio]
      g       == [f EXCEPT !.syncs = syncs, !.info = info]
  IN  CASE d.state = DEFRAGMENTED ->
             [g EXCEPT !.lemmas = d.lemmas, !.size = d.size, !.offsets = offsets, !.scores = scores]
        [] d.state = LEMMA_DIRTY ->
             [g EXCEPT !.lemmas = lemmas, !.size = d.size, !.offsets = offsets, !.scores = scores]
        [] d.state \in {OFFSET_DIRTY, SCORE_DIRTY} -> [g EXCEPT !.scores = scores]
        [] OTHER -> g

(* write_back(): from the first section that was changed on; of the block  *)
(* of lemmas what was added since the load, unless it was defragmented.    *)
WriteBack(f, d, syncs) ==
  LET start   == d.size - (Room - d.sizeLeft)
      lemmas  == Joined(Restricted(f.lemmas, 0..(start - 1)), Restricted(d.lemmas, start..d.size))
      offsets == [k \in DOMAIN d.list |-> [at |-> d.list[k].at, gone |-> d.list[k].gone]]
      scores  == [k \in DOMAIN d.list |-> d.list[k].score]
      info    == [count |-> Len(d.list), size |-> d.size, sync |-> Len(d.syncs),
                  limit |-> d.limit, ratio |-> d.ratio]
      g       == [f EXCEPT !.syncs = syncs, !.info = info]
  IN  CASE d.state = DEFRAGMENTED ->
             [g EXCEPT !.lemmas = d.lemmas, !.size = d.size, !.offsets = offsets, !.scores = scores]
        [] d.state = LEMMA_DIRTY ->
             [g EXCEPT !.lemmas = lemmas, !.size = d.size, !.offsets = offsets, !.scores = scores]
        [] d.state = OFFSET_DIRTY -> [g EXCEPT !.offsets = offsets, !.scores = scores]
        [] d.state = SCORE_DIRTY -> [g EXCEPT !.scores = scores]
        [] OTHER -> g

(* close_dict(): changes are dropped if the file was written since this    *)
(* object loaded it; syncs is what syncs_ points to.                       *)
Close(w, i, syncs) ==
  LET d      == w.dicts[i]
      writes == d.state > SYNC /\ d.fresh
  IN  [dicts |-> [j \in Dicts |-> IF j = i THEN Closed
                                  ELSE [w.dicts[j] EXCEPT !.fresh = @ /\ ~writes]],
       file |-> IF writes THEN WriteBack(w.file, d, syncs) ELSE w.file]

(* flush_cache().                                                          *)
Flush(w, i, syncs) == Load(Close(w, i, syncs), i)

-----------------------------------------------------------------------------
(* _get_lpis(): the range looked through, from the first place with the    *)
(* letters to the first in use that has others.                            *)
Missed(d, sig) == \E k \in DOMAIN d.misses[Len(sig)] : d.misses[Len(sig)][k] = sig
Looked(d, sig) ==
  LET hit   == CachedRange(d, sig)
      first == LocateFirst(d, sig)
      ends  == {k \in first..Len(d.list) : k \in InUse(d) /\ Initials(LemmaAt(d, k).spl) # sig}
  IN  IF Missed(d, sig) THEN [start |-> 0, count |-> 0]
      ELSE IF Cached(d, sig) # {} THEN [start |-> hit.start, count |-> hit.count]
      ELSE [start |-> first,
            count |-> IF first = 0 THEN 0 ELSE Least(ends \cup {Len(d.list)}) - first + 1]

Found(d, q) ==
  LET r == Looked(d, Signature(q))
  IN  {k \in InUse(d) : k \in r.start..(r.start + r.count - 1) /\ EqualSpell(LemmaAt(d, k).spl, q)}

(* What a lookup leaves in the caches.                                     *)
AfterLookup(d, sig) ==
  LET r == Looked(d, sig)  n == Len(sig)
      e == [sig |-> sig, start |-> r.start, count |-> r.count]
  IN  IF Missed(d, sig) \/ Cached(d, sig) # {} THEN d
      ELSE IF r.start = 0
             THEN [d EXCEPT !.misses[n] = Pushed(@, sig, kUserDictMissCacheSize)]
             ELSE [d EXCEPT !.cache[n] = Pushed(@, e, kUserDictCacheSize)]

Begins(e, l) == IsPrefix(l.spl, e.spl) /\ IsPrefix(l.word, e.word)

(* Mutant of Locate: lemmas that are gone are found as well.               *)
LocateGone(d, l) ==
  LET sig   == Initials(l.spl)
      isHit == Cached(d, sig) # {}
      hit   == CachedRange(d, sig)
      first == IF isHit THEN hit.start ELSE LocateFirst(d, sig)
      last  == IF isHit THEN hit.start + hit.count - 1 ELSE Len(d.list)
      same(k) == isHit \/ IsPrefix(sig, Initials(LemmaAt(d, k).spl))
      ks    == {k \in DOMAIN d.list : /\ k \in first..last /\ Begins(LemmaAt(d, k), l)
                                      /\ \A j \in InUse(d) : j \in first..k => same(j)}
  IN  IF first = 0 \/ ks = {} THEN 0 ELSE Least(ks)

(* locate_in_offsets(): a lemma that begins with l's spellings and word,   *)
(* before one with other letters; the cache of misses is not asked.        *)
Locate(d, l) ==
  LET sig   == Initials(l.spl)
      isHit == Cached(d, sig) # {}
      hit   == CachedRange(d, sig)
      first == IF isHit THEN hit.start ELSE LocateFirst(d, sig)
      last  == IF isHit THEN hit.start + hit.count - 1 ELSE Len(d.list)
      same(k) == isHit \/ IsPrefix(sig, Initials(LemmaAt(d, k).spl))
      ks    == {k \in InUse(d) : /\ k \in first..last /\ Begins(LemmaAt(d, k), l)
                                 /\ \A j \in InUse(d) : j \in first..k => same(j)}
  IN  IF first = 0 \/ ks = {} THEN 0 ELSE Least(ks)

-----------------------------------------------------------------------------
(* Mutant of Appended: the caches stay.                                    *)
AppendedKeepingCache(d, l, count) ==
  LET id    == Len(d.list) + 1
      entry == [at |-> d.size, gone |-> FALSE, score |-> count, id |-> id]
      after == {k \in DOMAIN d.list : ~FuzzyBefore(Initials(LemmaAt(d, k).spl), Initials(l.spl))}
  IN  [d EXCEPT !.lemmas = Joined([at \in {d.size} |-> l], @), !.size = @ + Size(l),
                !.list = InsertAt(@, Least(after \cup {id}), entry), !.byId = Append(@, d.size),
                !.countLeft = @ - 1, !.sizeLeft = @ - Size(l), !.state = AtLeast(@, LEMMA_DIRTY)]

(* append_a_lemma(): before the first that does not sort before it.        *)
Appended(d, l, count) ==
  LET id    == Len(d.list) + 1
      entry == [at |-> d.size, gone |-> FALSE, score |-> count, id |-> id]
      after == {k \in DOMAIN d.list : ~FuzzyBefore(Initials(LemmaAt(d, k).spl), Initials(l.spl))}
  IN  [d EXCEPT !.lemmas = Joined([at \in {d.size} |-> l], @), !.size = @ + Size(l),
                !.list = InsertAt(@, Least(after \cup {id}), entry), !.byId = Append(@, d.size),
                !.countLeft = @ - 1, !.sizeLeft = @ - Size(l),
                !.state = AtLeast(@, LEMMA_DIRTY), !.cache = NoCache, !.misses = NoCache]

QueuedForSync(d, id) == [d EXCEPT !.syncs = Append(@, d.byId[id])]

AtLimit(d) == d.limit > 0 /\ Len(d.list) >= d.limit
NoRoom(d, l) == d.countLeft = 0 \/ d.sizeLeft < Size(l)

(* _put_lemma(), the lemma not being there and the limit not reached;      *)
(* syncs is what syncs_ points to, so NULL is the empty sequence.          *)
Added(w, i, l, count, syncs) ==
  LET v == IF NoRoom(w.dicts[i], l) THEN Flush(w, i, syncs) ELSE w
  IN  [v EXCEPT !.dicts[i] = Appended(@, l, count)]

Rescored(d, k, count) ==
  [d EXCEPT !.list[k].score = count, !.state = AtLeast(@, SCORE_DIRTY)]

(* remove_lemma_by_offset_index(): the first entry for it in the list of   *)
(* lemmas to hand out is replaced by the last one.                         *)
WithoutSync(syncs, at) ==
  LET ks == {k \in DOMAIN syncs : syncs[k] = at}
  IN  IF ks = {} THEN syncs ELSE Front([syncs EXCEPT ![Least(ks)] = Last(syncs)])
Removed(d, k) ==
  [d EXCEPT !.list[k].gone = TRUE, !.syncs = WithoutSync(@, d.list[k].at),
            !.state = AtLeast(@, OFFSET_DIRTY)]

(* shift_down() on a heap of places in the list, by their scores: while a  *)
(* child scores more than its parent and more than the other child.        *)
ShiftDown(d, heap, par) ==
  LET n == Len(heap)
      sift[r \in [heap : [1..n -> DOMAIN d.list], par : 0..n]] ==
        LET score(k) == d.list[r.heap[k + 1]].score
            children == {k \in {2 * r.par + 1, 2 * r.par + 2} : k < n}
            above    == {k \in children : /\ score(k) > score(r.par)
                                          /\ \A j \in children \ {k} : score(k) > score(j)}
            k        == CHOOSE k \in above : TRUE
        IN  IF above = {} THEN r.heap
            ELSE sift[[heap |-> [r.heap EXCEPT ![k + 1] = r.heap[r.par + 1], ![r.par + 1] = r.heap[k + 1]],
                       par  |-> k]]
  IN  sift[[heap |-> heap, par |-> par]]

(* reclaim(): of all places, those left in a heap of the lowest scores.    *)
Reclaimed(d) ==
  LET n    == Len(d.list)
      rc   == (n * d.ratio) \div 100
      half == (rc + 1) \div 2
      built[k \in 0..(half + 1)] ==
        IF k = 0 THEN [j \in 1..rc |-> j] ELSE ShiftDown(d, built[k - 1], half + 1 - k)
      lowest[k \in rc..n] ==
        LET heap == lowest[k - 1]
        IN  IF k = rc THEN built[half + 1]
            ELSE IF d.list[k].score < d.list[heap[1]].score
                   THEN ShiftDown(d, [heap EXCEPT ![1] = k], 0) ELSE heap
      without[k \in 0..rc] == IF k = 0 THEN d ELSE Removed(without[k - 1], lowest[n][k])
  IN  without[rc]

(* defragment(): the lemmas that are gone are cut out of the list and of   *)
(* the block, ids are given anew.  What an offset without a lemma in use   *)
(* points to stays as it was.                                              *)
Defragmented(d) ==
  LET inUse[k \in 0..Len(d.list)] ==
        IF k = 0 THEN <<>>
        ELSE IF d.list[k].gone THEN inUse[k - 1] ELSE Append(inUse[k - 1], d.list[k])
      list  == inUse[Len(d.list)]
      used  == {list[k].at : k \in DOMAIN list}
      last(S) == CHOOSE o \in S : \A p \in S : p <= o
      end(S, to) == IF S = {} THEN 0 ELSE to[last(S)] + Size(d.lemmas[last(S)])
      to[at \in used] == end({o \in used : o < at}, to)
      size  == end(used, to)
  IN  IF used = DOMAIN d.lemmas THEN d
      ELSE [d EXCEPT !.list = [k \in DOMAIN list |-> [list[k] EXCEPT !.at = to[@], !.id = k]],
                     !.lemmas = [o \in {to[at] : at \in used} |->
                                   d.lemmas[CHOOSE at \in used : to[at] = o]],
                     !.size = size, !.sizeLeft = @ + d.size - size,
                     !.byId = [k \in DOMAIN list |-> to[list[k].at]],
                     !.syncs = [k \in DOMAIN @ |-> IF @[k] \in used THEN to[@[k]] ELSE @[k]],
                     !.state = DEFRAGMENTED]

-----------------------------------------------------------------------------
World == [dicts |-> dicts, file |-> file]
Becomes(w) == dicts' = w.dicts /\ file' = w.file
Open(i) == dicts[i].state # NONE

(* MatrixSearch::init().                                                   *)
ImeOpens == ~Open(Ime) /\ Becomes(Load(World, Ime)) /\ UNCHANGED got

(* extend_dict(), get_lpis(): a file written by another is loaded first.   *)
Looks(q) ==
  LET w == IF dicts[Ime].fresh THEN World ELSE Flush(World, Ime, dicts[Ime].syncs)
  IN  /\ Open(Ime)
      /\ Becomes([w EXCEPT !.dicts[Ime] = AfterLookup(@, Signature(q))])
      /\ UNCHANGED got

(* put_lemma(), for the words of a sentence the user chose.                *)
Puts(l) ==
  LET d == dicts[Ime]
      k == Locate(d, l)
      w == Added(World, Ime, l, 1, d.syncs)
      a == w.dicts[Ime]
  IN  /\ Open(Ime) /\ Len(d.syncs) < MaxSyncs /\ Cardinality(DOMAIN d.lemmas) < MaxLemmas
      /\ CASE k # 0 -> Becomes([World EXCEPT !.dicts[Ime] = Rescored(d, k, 1)])
           [] k = 0 /\ AtLimit(d) -> Becomes(World)
           [] OTHER -> Becomes([w EXCEPT !.dicts[Ime] = QueuedForSync(a, Len(a.list))])
      /\ UNCHANGED got

(* update_lemma(), for a lemma of the dictionary the user chose.           *)
Chooses(id) ==
  LET d == dicts[Ime]
      k == Locate(d, d.lemmas[d.byId[id]])
  IN  /\ Open(Ime) /\ id \in DOMAIN d.byId /\ Len(d.syncs) < MaxSyncs
      /\ k # 0
      /\ LET count == Least({d.list[k].score + 1, kUserDictMaxFrequency})
         IN  Becomes([World EXCEPT !.dicts[Ime] =
                        QueuedForSync(Rescored(d, k, count), d.list[k].id)])
      /\ UNCHANGED got

(* remove_lemma().                                                         *)
Removes(id) ==
  LET d == dicts[Ime]
      k == Locate(d, d.lemmas[d.byId[id]])
  IN  /\ Open(Ime) /\ id \in DOMAIN d.byId
      /\ Cardinality(DOMAIN d.list \ InUse(d)) < MaxGone
      /\ k # 0
      /\ Becomes([World EXCEPT !.dicts[Ime] = Removed(d, k)])
      /\ UNCHANGED got

(* im_flush_cache(), and MatrixSearch::close().                            *)
ImeFlushes == Open(Ime) /\ Becomes(Flush(World, Ime, dicts[Ime].syncs)) /\ UNCHANGED got
ImeCloses ==
  LET w == Flush(World, Ime, dicts[Ime].syncs)
  IN  Open(Ime) /\ Becomes(Close(w, Ime, w.dicts[Ime].syncs)) /\ UNCHANGED got

(* Sync::begin(): load and set_limit().                                    *)
SyncBegins ==
  LET w == Load(World, Syncing)
  IN  /\ ~Open(Syncing)
      /\ Becomes([w EXCEPT !.dicts[Syncing].limit = kUserDictMaxLemmaCount,
                           !.dicts[Syncing].ratio = kUserDictRatio])
      /\ UNCHANGED got

(* put_lemma_no_sync(), once: syncs_ is NULL meanwhile and then points     *)
(* where it did before, also when the object was loaded anew with another  *)
(* number of entries and the lemma queued; junk is what the old buffer     *)
(* holds beyond its own entries.                                           *)
PutNoSync(w, l, count, junk) ==
  LET d == w.dicts[Syncing]
      k == Locate(d, l)
      v == Added(w, Syncing, l, count, <<>>)
      n == Len(v.dicts[Syncing].syncs) + 1
      swapped == [j \in 1..n |-> IF j \in DOMAIN d.syncs THEN d.syncs[j] ELSE junk]
  IN  CASE k # 0 -> [w EXCEPT !.dicts[Syncing] = Rescored(d, k, count)]
        [] k = 0 /\ AtLimit(d) -> w
        [] OTHER -> IF NoRoom(d, l) THEN [v EXCEPT !.dicts[Syncing].syncs = swapped] ELSE v

(* Sync::put_lemmas(), for one of them: at the limit lemmas are reclaimed, *)
(* the object is flushed, and it is tried once more.                       *)
SyncPuts(l, count, junk) ==
  LET d == dicts[Syncing]
      r == [World EXCEPT !.dicts[Syncing] = Defragmented(Reclaimed(@))]
      w == IF Locate(d, l) = 0 /\ AtLimit(d)
             THEN Flush(r, Syncing, r.dicts[Syncing].syncs) ELSE World
  IN  /\ Open(Syncing)
      /\ Len(d.syncs) < MaxSyncs /\ (Cardinality(DOMAIN d.lemmas) < MaxLemmas \/ AtLimit(d))
      /\ Becomes(PutNoSync(w, l, count, junk)) /\ UNCHANGED got

(* Sync::get_lemmas(), with a buffer that holds them all.                  *)
SyncGets ==
  /\ Open(Syncing)
  /\ got' = Len(dicts[Syncing].syncs) /\ dicts' = [dicts EXCEPT ![Syncing].state = AtLeast(@, SYNC_DIRTY)]
  /\ UNCHANGED file

(* Sync::clear_last_got().                                                 *)
SyncClears ==
  /\ Open(Syncing)
  /\ got' = 0
  /\ dicts' = [dicts EXCEPT ![Syncing].syncs = SubSeq(@, Least({got, Len(@)}) + 1, Len(@)),
                            ![Syncing].state = AtLeast(@, SYNC_DIRTY)]
  /\ UNCHANGED file

SyncFinishes ==
  Open(Syncing) /\ Becomes(Close(World, Syncing, dicts[Syncing].syncs)) /\ got' = 0

Init == dicts = [i \in Dicts |-> Closed] /\ file = EmptyFile /\ got = 0

Next ==
  \/ ImeOpens \/ ImeFlushes \/ ImeCloses
  \/ \E q \in Queries : Looks(q)
  \/ \E l \in Phrases : Puts(l)
  \/ \E id \in DOMAIN dicts[Ime].byId : Chooses(id) \/ Removes(id)
  \/ SyncBegins \/ SyncFinishes \/ SyncClears \/ SyncGets
  \/ \E l \in Downloads, count \in Counts,
        junk \in {dicts[Syncing].size} \cup DOMAIN dicts[Syncing].lemmas : SyncPuts(l, count, junk)

Spec == Init /\ [][Next]_vars

-----------------------------------------------------------------------------
(* Whatever was added, removed, looked up and cached before, a lookup      *)
(* finds exactly the lemmas in use that are spelt so, and an id gives the  *)
(* lemma it was found for (_get_lpis(), append_a_lemma()).                 *)
FoundAsSpelt ==
  LET d == dicts[Ime]
  IN  Open(Ime) =>
        /\ \A q \in Queries : Found(d, q) = {k \in InUse(d) : EqualSpell(LemmaAt(d, k).spl, q)}
        /\ \A k \in DOMAIN d.list : d.byId[d.list[k].id] = d.list[k].at

(* What an object holds that the file keeps.                               *)
Content(d) ==
  [lemmas |-> d.lemmas, syncs |-> d.syncs,
   list |-> [k \in DOMAIN d.list |-> [d.list[k] EXCEPT !.id = 0]]]

(* Closing an object and loading it again loses nothing, however little of *)
(* the file the changes made it write; one whose file was written since it *)
(* was loaded leaves the file alone (write_back(), close_dict()).          *)
FlushIsExact ==
  [][\A i \in Dicts :
       (IF i = Ime THEN ImeFlushes \/ ImeCloses ELSE SyncFinishes) =>
         IF dicts[i].fresh THEN Content(Loaded(file')) = Content(dicts[i]) /\ Valid(file')
         ELSE file' = file]_vars

Copies(d, l) == {k \in InUse(d) : LemmaAt(d, k) = l}

(* A lemma that is put is in the dictionary once and nothing else changes, *)
(* unless the limit is reached, the object had no room and an old file, or *)
(* a longer lemma that begins with it is taken for it (_put_lemma()).      *)
PutsOnce ==
  [][\A l \in Phrases : Puts(l) =>
       LET d == dicts[Ime]  e == dicts'[Ime] IN
       \/ /\ Cardinality(Copies(e, l)) = IF Copies(d, l) = {} THEN 1 ELSE Cardinality(Copies(d, l))
          /\ \A o \in Lemmas \ {l} : Cardinality(Copies(e, o)) = Cardinality(Copies(d, o))
       \/ Copies(d, l) = {} /\ AtLimit(d)
       \/ NoRoom(d, l) /\ ~d.fresh
       \/ \E k \in InUse(d) : LemmaAt(d, k) # l /\ Begins(LemmaAt(d, k), l)]_vars
=============================================================================
