------------------------------ MODULE MCEngine ------------------------------
(* Small dictionaries for the module Engine.  A text is a tuple that names *)
(* its source, the letters it is for and its rank, so that texts offered   *)
(* for different letters, or by different dictionaries, are different.     *)
EXTENDS Engine, SequencesExt

Words(source, s, ranks) == [k \in 1..Len(ranks) |-> <<source, s, ranks[k]>>]

(* Letters that end in a repetition have no wubi word and no pinyin.       *)
Barren(s) == Len(s) = 2 /\ s[1] = s[2]

MCWubiExact == [t \in WubiTables |-> [s \in Inputs |->
  IF s = <<>> \/ Barren(s) THEN <<>> ELSE Words(t, s, <<1>>)]]

(* The empty code is a prefix of every code, so it finds the whole table.  *)
MCWubiOthers == [t \in WubiTables |-> [s \in Inputs |->
  IF Barren(s) \/ Len(s) = 2 THEN <<>> ELSE Words(t, s, <<2, 3>>)]]

MCPinyinWords == [s \in Inputs |->
  IF s = <<>> \/ Barren(s) THEN <<>> ELSE Words("pinyin", s, IF Len(s) = 1 THEN <<1>> ELSE <<1, 2>>)]

MCFastOutput == [f \in FastFiles |-> [s \in Inputs |->
  IF Len(s) # 1 THEN <<>> ELSE Words(f, s, <<1>>)]]

MCTexts ==
  UNION {ToSet(MCWubiExact[t][s]) \cup ToSet(MCWubiOthers[t][s])
           \cup ToSet(MCPinyinWords[s]) : t \in WubiTables, s \in Inputs}
    \cup UNION {ToSet(MCFastOutput[f][s]) : f \in FastFiles, s \in Inputs}

(* Engines differ in nothing; sound for the runs without liveness.         *)
EngineSymmetry == Permutations(Engines)
=============================================================================
