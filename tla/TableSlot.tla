----------------------------- MODULE TableSlot -----------------------------
(***************************************************************************)
(* What the switching of wubi tables promises, whatever engines, the menu  *)
(* and loader threads do: a switch takes the installed table away and      *)
(* leaves a load to be done; a load installs a table, or is given up while *)
(* no table is chosen, or is lost while a later one is still to come.      *)
(***************************************************************************)
EXTENDS Naturals

CONSTANTS
  Tables,      \* what can be installed
  Choices,     \* what can be chosen
  None,        \* no table chosen, or none installed
  Default      \* what the constructor of an engine installs

VARIABLES
  chosen, installed,
  loading      \* number of loads to be done

Init == chosen \in Choices /\ installed = Default /\ loading = 0

Switch ==
  /\ chosen' \in Choices \ {chosen}
  /\ installed' = None
  /\ loading' = loading + 1

Install ==
  /\ loading > 0 /\ loading' = loading - 1
  /\ installed' \in Tables
  /\ UNCHANGED chosen

GiveUp ==
  /\ chosen = None
  /\ loading > 0 /\ loading' = loading - 1
  /\ UNCHANGED <<chosen, installed>>

Lose ==
  /\ loading > 1 /\ loading' = loading - 1
  /\ UNCHANGED <<chosen, installed>>

Preload ==
  /\ installed' = Default
  /\ UNCHANGED <<chosen, loading>>

Next == Switch \/ Install \/ GiveUp \/ Lose \/ Preload

Spec == Init /\ [][Next]_<<chosen, installed, loading>>

(* While a table is chosen, one is installed or will be.                   *)
NeverForgotten == chosen # None /\ installed = None => loading > 0
=============================================================================
