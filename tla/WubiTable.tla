----------------------------- MODULE WubiTable -----------------------------
(***************************************************************************)
(* What a wubi table is: for every code, its words by frequency.  A code   *)
(* has at most one word of a frequency, the one that was there first.      *)
(***************************************************************************)
CONSTANTS Codes, Texts, Freqs

VARIABLE words   \* words[code]: a function from frequencies to words

(* insert() of std::map and std::unordered_map: what is there stays.       *)
Put(m, k, v) ==
  IF k \in DOMAIN m THEN m ELSE [j \in DOMAIN m \cup {k} |-> IF j = k THEN v ELSE m[j]]

Empty == [f \in {} |-> f]

Init == words = [code \in Codes |-> Empty]

Insert(code, text, freq) == words' = [words EXCEPT ![code] = Put(@, freq, text)]

Next == \E code \in Codes, text \in Texts, freq \in Freqs : Insert(code, text, freq)

Spec == Init /\ [][Next]_words
=============================================================================
