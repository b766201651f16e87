------------------------------- MODULE MCSetup -------------------------------
(* Small settings and tables for the module Setup.                         *)
EXTENDS Setup

(* A start of which nothing fails, or the table, or two others.            *)
MCFaults == {{}, {"wubi"}, {"pinyin", "id"}}

(* An empty row, and a row with each key that can be typed.                *)
MCTyped == {[key |-> k, cmd |-> IF k = 0 THEN 0 ELSE 1] : k \in 0..KeyCount}

(* A table with a bad key, which only an import brings into the grid.      *)
MCGiven == {[k \in {1, BadKey} |-> 1]}
=============================================================================
