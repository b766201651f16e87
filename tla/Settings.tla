------------------------------ MODULE Settings ------------------------------
(***************************************************************************)
(* The saved settings (class Config, src/src/Config.h): what the engine's  *)
(* process reads when it starts, what the user's choices write, and what   *)
(* the setup window changes from its own process; with restarts, reads and *)
(* writes that fail, and notifications in flight.                          *)
(*                                                                         *)
(* The text "" is the empty string, Unset a setting IBus cannot give.  The *)
(* secret is handled like the id.  The orientation is read like the        *)
(* others and written by nobody, because no property of the menu has one   *)
(* of the names the handler tests (Engine.cpp:514).                        *)
(***************************************************************************)
EXTENDS Sequences, Naturals

CONSTANTS
  Unset,
  SavedTables,   \* values of CONF_NAME_WUBI: the paths of tables
  Ids,           \* values of CONF_NAME_ID
  Faults,        \* sets of names a start can fail to read, or to write
  MaxSignals     \* bound of the model: notifications in flight

ASSUME UnsetAssumption == Unset \notin SavedTables \cup Ids \cup {"", "true", "false"}
ASSUME EmptyAssumption == "" \notin SavedTables \cup Ids
ASSUME MaxSignalsAssumption == MaxSignals \in Nat

VARIABLES
  conf,        \* the settings IBus keeps
  opts,        \* *RuntimeOptions::get()
  process,     \* the engine's process: "down", "starting", "up"
  signals,     \* values of the id on their way to OnValueChanged()
  chosen,      \* the user's last choices, or the defaults
  faulted,     \* a read or a write of the engine's process has failed
  missed       \* the id changed between its reading and its watching

settings == <<conf, opts, process, signals, chosen, faulted, missed>>

Switches == {"pinyin", "fast"}
Names == {"wubi", "id"} \cup Switches
Values(n) ==
  CASE n = "wubi" -> SavedTables \cup {""}
    [] n = "id"   -> Ids \cup {""}
    [] OTHER      -> {"true", "false"}

(* Every saved text, and what Config() makes of a name that has none.      *)
Default(n) == IF n \in Switches THEN "true" ELSE ""
Kept(n, v) == IF v \in {Unset, ""} THEN Default(n) ELSE v

(* Mutant of ReadAs: a switch without a value is off.                      *)
ReadAsOff(n, v) == IF v = Unset THEN "" ELSE v

(* What Config() sets an option to.                                        *)
ReadAs(n, v) == Kept(n, v)

(* Config::Config() up to the watches: the values in lost cannot be read,  *)
(* and GetString() overwrites them; the writes of those in failed fail.    *)
Reads(lost, failed) ==
  LET got == [n \in Names |-> IF n \in lost THEN Unset ELSE conf[n]]
  IN  /\ process = "down" /\ process' = "starting"
      /\ opts' = [n \in Names |-> ReadAs(n, got[n])]
      /\ conf' = [n \in Names |-> IF n \in failed THEN conf[n] ELSE Kept(n, got[n])]
      /\ faulted' = (faulted \/ lost # {} \/ failed # {})
      /\ signals' = <<>> /\ missed' = FALSE
      /\ UNCHANGED chosen

(* ibus_config_watch().                                                    *)
Watches ==
  /\ process = "starting" /\ process' = "up"
  /\ UNCHANGED <<conf, opts, signals, chosen, faulted, missed>>

(* Mutant of Chooses: switching off is not saved.                          *)
ChoosesHalf(n, v) ==
  /\ process = "up" /\ n # "id"
  /\ opts' = [opts EXCEPT ![n] = v] /\ chosen' = [chosen EXCEPT ![n] = v]
  /\ conf' = IF v = "false" THEN conf ELSE [conf EXCEPT ![n] = v]
  /\ UNCHANGED <<process, signals, faulted, missed>>

(* OnPropertyActivate(): the option is set; the table and the pinyin       *)
(* switch are written if they changed, the fast-input switch always.       *)
Chooses(n, v) ==
  /\ process = "up" /\ n # "id"
  /\ opts' = [opts EXCEPT ![n] = v] /\ chosen' = [chosen EXCEPT ![n] = v]
  /\ \/ /\ conf' = IF n = "fast" \/ v # opts[n] THEN [conf EXCEPT ![n] = v] ELSE conf
        /\ UNCHANGED faulted
     \/ faulted' = TRUE /\ UNCHANGED conf
  /\ UNCHANGED <<process, signals, missed>>

(* The setup window's button writes the id (ibus_fun_setup.cpp:366).       *)
WritesId(v) ==
  /\ Len(signals) < MaxSignals
  /\ conf' = [conf EXCEPT !["id"] = v]
  /\ signals' = IF process = "up" THEN Append(signals, v) ELSE signals
  /\ missed' = (missed \/ process = "starting")
  /\ UNCHANGED <<opts, process, chosen, faulted>>

(* Mutant of ValueChanged: the first of two notifications is taken twice.  *)
ValueChangedOnce ==
  /\ process = "up" /\ signals # <<>>
  /\ opts' = [opts EXCEPT !["id"] = Head(signals)]
  /\ signals' = <<>>
  /\ UNCHANGED <<conf, process, chosen, faulted, missed>>

(* Config::OnValueChanged().                                               *)
ValueChanged ==
  /\ process = "up" /\ signals # <<>>
  /\ opts' = [opts EXCEPT !["id"] = Head(signals)]
  /\ signals' = Tail(signals)
  /\ UNCHANGED <<conf, process, chosen, faulted, missed>>

(* A signal, a lost bus, a crash.                                          *)
Dies ==
  /\ process # "down" /\ process' = "down"
  /\ signals' = <<>>
  /\ UNCHANGED <<conf, opts, chosen, faulted, missed>>

SettingsInit ==
  /\ conf \in [Names -> SavedTables \cup Ids \cup {"", Unset, "true", "false"}]
  /\ \A n \in Names : conf[n] \in Values(n) \cup {Unset}
  /\ opts = [n \in Names |-> Default(n)]
  /\ process = "down" /\ signals = <<>>
  /\ chosen = [n \in Names |-> Kept(n, conf[n])]
  /\ faulted = FALSE /\ missed = FALSE

(* What leaves the engine's fast-input table alone.                        *)
Process ==
  \/ \E lost, failed \in Faults : Reads(lost, failed)
  \/ Watches \/ ValueChanged
  \/ \E n \in {"wubi", "pinyin"} : \E v \in Values(n) : Chooses(n, v)
  \/ \E v \in Values("id") : WritesId(v)

----------------------------------------------------------------------------
(* Correctness.                                                            *)

SettingsTypeOK ==
  /\ \A n \in Names : conf[n] \in Values(n) \cup {Unset}
  /\ \A n \in Names : opts[n] \in Values(n) /\ chosen[n] \in Values(n)
  /\ DOMAIN conf = Names /\ DOMAIN opts = Names /\ DOMAIN chosen = Names
  /\ process \in {"down", "starting", "up"}
  /\ signals \in Seq(Values("id"))
  /\ faulted \in BOOLEAN /\ missed \in BOOLEAN

(* A choice survives every restart: as long as no read or write of a       *)
(* setting has failed, a running engine has the wubi table and the         *)
(* switches the user chose last, in whichever run of the program, and the  *)
(* defaults where nothing was ever chosen.                                 *)
ChoicesSurvive ==
  process # "down" /\ ~faulted => \A n \in Names \ {"id"} : opts[n] = chosen[n]

(* The id typed in the setup window is the id the recognizer uses, once    *)
(* the notifications have arrived; except that a change between the        *)
(* reading and the watching of a starting engine goes unnoticed.           *)
CredentialsFollow ==
  process = "up" /\ signals = <<>> /\ ~faulted /\ ~missed => opts["id"] = conf["id"]
=============================================================================
