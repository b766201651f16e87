----------------------------- MODULE MCUserDict -----------------------------
(***************************************************************************)
(* Three full ids, two of them with the same initial.  The user chooses    *)
(* two lemmas that begin with the same letters, and a longer one that      *)
(* begins with the first of them is downloaded.                            *)
(***************************************************************************)
EXTENDS UserDict

Jing == 1   Bei == 2   Ben == 3
MCInitial(f) == IF f = Jing THEN 10 ELSE 2

BeiJing == [spl |-> <<Bei, Jing>>, word |-> <<"bei", "jing">>]
BenJing == [spl |-> <<Ben, Jing>>, word |-> <<"ben", "jing">>]
BeiJingJing == [spl |-> <<Bei, Jing, Jing>>, word |-> <<"bei", "jing", "jing">>]

MCPhrases == {BeiJing, BenJing}
MCDownloads == {BeiJingJing}
MCLemmas == MCPhrases \cup MCDownloads
B == {Bei, Ben}  J == {Jing}
MCQueries == {<<{Bei}, J>>, <<B, J>>}
=============================================================================
