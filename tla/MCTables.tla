------------------------------ MODULE MCTables ------------------------------
(* Symmetric threads, engines and addresses for the runs without liveness. *)
EXTENDS Tables, TLC

TablesSymmetry == Permutations(Engines) \cup Permutations(Loaders) \cup Permutations(Objects)
=============================================================================
