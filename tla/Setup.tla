-------------------------------- MODULE Setup --------------------------------
(***************************************************************************)
(* The two processes together: the engine's, with its options and its      *)
(* fast-input table, and the setup window's.  They share the settings and  *)
(* the file and nothing else.                                              *)
(***************************************************************************)
EXTENDS Settings, FastInput

vars == <<settings, fastInput>>

(* The first engine's constructor, or a thread that a switch has spawned,  *)
(* loads the file.                                                         *)
EngineLoads == process = "up" /\ Loads

Init == SettingsInit /\ FastInputInit

(* Switching fast input, on or off, deletes the table; so does the end of  *)
(* the process.                                                            *)
Next ==
  \/ Drops /\ (Dies \/ \E v \in Values("fast") : Chooses("fast", v))
  \/ Process /\ UNCHANGED fastInput
  \/ (EngineLoads \/ Window) /\ UNCHANGED settings

Spec == Init /\ [][Next]_vars

(* Every variable has a value of its kind.                                 *)
TypeOK == SettingsTypeOK /\ FastInputTypeOK

(* Bound of the model: with other than the default settings the window is  *)
(* not used, so that the run explores the two along the axes of their      *)
(* product; starts, deaths and loads happen along both.                    *)
OneAtATime ==
  \/ /\ conf = chosen /\ chosen = [n \in Names |-> Default(n)]
     /\ ~faulted /\ ~missed /\ signals = <<>> /\ process # "starting"
  \/ grid = Opened(file) /\ file = File("whole", NoMap)
=============================================================================
