------------------------------- MODULE Speech -------------------------------
(***************************************************************************)
(* Speech input, access by access: Ctrl-` on the main loop, the detached   *)
(* threads that run DictSpeech::Start(), the recorder each of them makes,  *)
(* and the completion that changes the candidate list and the mode from    *)
(* such a thread while a key handler fills or empties that list.           *)
(*                                                                         *)
(* One engine.  A recorder is named after the thread that constructed it.  *)
(* A race of two accesses counts as either order of them; the overruns of  *)
(* the frame and of the buffer, and a loop in a destroyed recorder, end    *)
(* the process or pass unnoticed.                                          *)
(***************************************************************************)
EXTENDS Naturals

CONSTANTS
  Threads,       \* bound of the model: how often recording can be started
  None,
  MaxCandidates  \* bound of the model: candidates of one query

ASSUME NoThreadAssumption == None \notin Threads
ASSUME MaxCandidatesAssumption == MaxCandidates \in Nat

VARIABLES
  recording,   \* m_recording
  recorder,    \* m_recorder: whose recorder is alive, or None
  open,        \* open[t]: the recorder of t has a handle
  at,          \* at[t]: where thread t is
  runs,        \* runs[t]: the recorder whose loop t is in
  main,        \* where the main loop is
  left,        \* candidates the running query has still to append
  saw,         \* saw[t], saw["main"]: what a running UpdateInputMode() has read
  speechOn,    \* m_options->speechOn
  indicator,   \* the property shows the speech mode
  texts,       \* the size of the lookup table
  attrs,       \* the size of m_candidateAttrs
  wanted,      \* Ctrl-` was pressed an odd number of times
  hasty,       \* it was pressed while a started thread had not yet run
  crashed      \* the process has died

threads == <<recorder, open, at, runs>>
mode    == <<saw, speechOn, indicator>>
list    == <<left, texts, attrs>>
user    == <<wanted, hasty>>
vars    == <<recording, threads, main, mode, list, user, crashed>>

Loop == {"capture", "clear", "unmark", "mode", "read", "show"}
InLoop(t) == at[t] \in Loop
Goes(t, place) == at' = [at EXCEPT ![t] = place]
Pending == \E t \in Threads : at[t] = "spawned"

----------------------------------------------------------------------------
(* The main loop.  Ctrl-` stops a recording, or spawns a thread to start   *)
(* one.                                                                    *)

Toggle ==
  /\ main = "idle"
  /\ wanted' = ~wanted /\ hasty' = (hasty \/ Pending)
  /\ \/ /\ recording /\ recording' = FALSE
        /\ UNCHANGED <<at, main>>
     \/ /\ ~recording
        /\ \E t \in Threads : at[t] = "unborn" /\ Goes(t, "spawned")
        /\ main' = "started"
        /\ UNCHANGED recording
  /\ UNCHANGED <<recorder, open, runs, mode, list, crashed>>

(* speechOn = true; UpdateInputMode() reads the options, then shows them.  *)
SpeechModeOn ==
  /\ main = "started" /\ main' = "read"
  /\ speechOn' = TRUE
  /\ UNCHANGED <<recording, threads, saw, indicator, list, user, crashed>>

ModeRead ==
  /\ main = "read" /\ main' = "show"
  /\ saw' = [saw EXCEPT !["main"] = speechOn]
  /\ UNCHANGED <<recording, threads, speechOn, indicator, list, user, crashed>>

ModeShown ==
  /\ main = "show" /\ main' = "idle"
  /\ indicator' = saw["main"]
  /\ UNCHANGED <<recording, threads, saw, speechOn, list, user, crashed>>

(* A key that queries, or empties, the list: swallowed during a recording. *)
(* A selection reads the attribute of its candidate, which may be gone.    *)
Key ==
  /\ main = "idle" /\ ~recording /\ main' = "clear"
  /\ \/ /\ left' \in 0..MaxCandidates /\ UNCHANGED crashed
     \/ /\ left' = 0
        /\ \E k \in 1..texts : crashed' \in (IF k <= attrs THEN {FALSE} ELSE BOOLEAN)
  /\ UNCHANGED <<recording, threads, mode, texts, attrs, user>>

(* LookupTable::Clear(), on the main loop.                                 *)
Cleared ==
  /\ main = "clear" /\ main' = "unmark"
  /\ texts' = 0
  /\ UNCHANGED <<recording, threads, mode, left, attrs, user, crashed>>

Unmarked ==
  /\ main = "unmark" /\ main' = "fill"
  /\ attrs' = 0
  /\ UNCHANGED <<recording, threads, mode, left, texts, user, crashed>>

(* Mutant of Appended: the loop runs once too often.                       *)
AppendedTooOften ==
  /\ main = "fill" /\ main' = "mark"
  /\ left' = left - 1 /\ texts' = texts + 1
  /\ UNCHANGED <<recording, threads, mode, attrs, user, crashed>>

(* LookupTable::Append(): the text, then its attribute.                    *)
Appended ==
  /\ main = "fill" /\ left > 0 /\ main' = "mark"
  /\ left' = left - 1 /\ texts' = texts + 1
  /\ UNCHANGED <<recording, threads, mode, attrs, user, crashed>>

(* Mutant of Marked: a repeated text is given no attribute.                *)
MarkedOnce ==
  /\ main = "mark" /\ main' = "fill"
  /\ attrs' \in {attrs, attrs + 1}
  /\ UNCHANGED <<recording, threads, mode, left, texts, user, crashed>>

Marked ==
  /\ main = "mark" /\ main' = "fill"
  /\ attrs' = attrs + 1
  /\ UNCHANGED <<recording, threads, mode, left, texts, user, crashed>>

Displayed ==
  /\ main = "fill" /\ left = 0 /\ main' = "idle"
  /\ UNCHANGED <<recording, threads, mode, list, user, crashed>>

----------------------------------------------------------------------------
(* A recorder thread: DictSpeech::Start().                                 *)

Starts(t) ==
  /\ at[t] = "spawned" /\ Goes(t, "construct")
  /\ recording' = TRUE
  /\ UNCHANGED <<recorder, open, runs, main, mode, list, user, crashed>>

(* The new recorder opens the device, or fails to; the old one is          *)
(* destroyed by the assignment.                                            *)
Constructs(t) ==
  /\ at[t] = "construct" /\ Goes(t, "enter")
  /\ recorder' = t
  /\ \E opens \in BOOLEAN : open' = [open EXCEPT ![t] = opens]
  /\ UNCHANGED <<recording, runs, main, mode, list, user, crashed>>

(* start_recording() of the recorder that m_recorder points to by now.     *)
Enters(t) ==
  /\ at[t] = "enter"
  /\ runs' = [runs EXCEPT ![t] = recorder]
  /\ Goes(t, IF open[recorder] THEN "capture" ELSE "ended")
  /\ UNCHANGED <<recording, recorder, open, main, mode, list, user, crashed>>

(* A turn of the loop up to the recognizer's answer: nothing in it looks   *)
(* at m_recording.                                                         *)
Captures(t) ==
  /\ at[t] = "capture" /\ Goes(t, "clear")
  /\ crashed' \in BOOLEAN
  /\ UNCHANGED <<recording, recorder, open, runs, main, mode, list, user>>

(* OnCompleted(): engine_commit_text() empties the list, ...               *)
Clears(t) ==
  /\ at[t] = "clear" /\ Goes(t, "unmark")
  /\ texts' = 0
  /\ UNCHANGED <<recording, recorder, open, runs, main, mode, left, attrs, user, crashed>>

(* Mutant of Unmarks: the attributes are left.                             *)
UnmarksNone(t) ==
  /\ at[t] = "unmark" /\ Goes(t, "mode")
  /\ UNCHANGED <<recording, recorder, open, runs, main, mode, list, user, crashed>>

Unmarks(t) ==
  /\ at[t] = "unmark" /\ Goes(t, "mode")
  /\ attrs' = 0
  /\ UNCHANGED <<recording, recorder, open, runs, main, mode, left, texts, user, crashed>>

(* Mutant of EndsMode: completion also ends the recording.                 *)
EndsRecording(t) ==
  /\ at[t] = "mode" /\ Goes(t, "read")
  /\ speechOn' = FALSE /\ recording' = FALSE
  /\ UNCHANGED <<recorder, open, runs, main, saw, indicator, list, user, crashed>>

(* Mutant of EndsMode: completion drops the recorder.                      *)
EndsRecorder(t) ==
  /\ at[t] = "mode" /\ Goes(t, "read")
  /\ speechOn' = FALSE /\ recorder' = None
  /\ UNCHANGED <<recording, open, runs, main, saw, indicator, list, user, crashed>>

(* Mutant of EndsMode: the speech mode stays on.                           *)
KeepsMode(t) ==
  /\ at[t] = "mode" /\ Goes(t, "read")
  /\ UNCHANGED <<recording, recorder, open, runs, main, mode, list, user, crashed>>

(* ... and the speech mode ends, in the options and in the indicator.      *)
EndsMode(t) ==
  /\ at[t] = "mode" /\ Goes(t, "read")
  /\ speechOn' = FALSE
  /\ UNCHANGED <<recording, recorder, open, runs, main, saw, indicator, list, user, crashed>>

ReadsMode(t) ==
  /\ at[t] = "read" /\ Goes(t, "show")
  /\ saw' = [saw EXCEPT ![t] = speechOn]
  /\ UNCHANGED <<recording, recorder, open, runs, main, speechOn, indicator, list, user, crashed>>

ShowsMode(t) ==
  /\ at[t] = "show" /\ Goes(t, "capture")
  /\ indicator' = saw[t]
  /\ UNCHANGED <<recording, recorder, open, runs, main, saw, speechOn, list, user, crashed>>

----------------------------------------------------------------------------
Init ==
  /\ recording = FALSE /\ recorder = None
  /\ open = [t \in Threads |-> FALSE]
  /\ at = [t \in Threads |-> "unborn"]
  /\ runs = [t \in Threads |-> None]
  /\ main = "idle"
  /\ saw = [p \in Threads \cup {"main"} |-> FALSE]
  /\ speechOn = FALSE /\ indicator = FALSE
  /\ left = 0 /\ texts = 0 /\ attrs = 0
  /\ wanted = FALSE /\ hasty = FALSE
  /\ crashed = FALSE

Handler ==
  \/ SpeechModeOn \/ ModeRead \/ ModeShown
  \/ Cleared \/ Unmarked \/ Appended \/ Marked \/ Displayed

Recorder(t) ==
  \/ Starts(t) \/ Constructs(t) \/ Enters(t) \/ Captures(t) \/ Clears(t)
  \/ Unmarks(t) \/ EndsMode(t) \/ ReadsMode(t) \/ ShowsMode(t)

Next == ~crashed /\ (Toggle \/ Key \/ Handler \/ \E t \in Threads : Recorder(t))

(* A handler that has begun ends, and a thread runs: reading a frame       *)
(* blocks no longer than the frame.  No key is ever promised.              *)
Fairness ==
  /\ WF_vars(~crashed /\ Handler)
  /\ \A t \in Threads : WF_vars(~crashed /\ Recorder(t))

Spec == Init /\ [][Next]_vars /\ Fairness

----------------------------------------------------------------------------
(* Correctness.                                                            *)

(* Every variable has a value of its kind.                                 *)
TypeOK ==
  /\ recording \in BOOLEAN /\ speechOn \in BOOLEAN /\ indicator \in BOOLEAN
  /\ recorder \in Threads \cup {None}
  /\ open \in [Threads -> BOOLEAN]
  /\ at \in [Threads -> Loop \cup {"unborn", "spawned", "construct", "enter", "ended"}]
  /\ runs \in [Threads -> Threads \cup {None}]
  /\ main \in {"idle", "started", "read", "show", "clear", "unmark", "fill", "mark"}
  /\ saw \in [Threads \cup {"main"} -> BOOLEAN]
  /\ left \in Nat /\ texts \in Nat /\ attrs \in Nat
  /\ wanted \in BOOLEAN /\ hasty \in BOOLEAN /\ crashed \in BOOLEAN

(* Ctrl-` toggles recording, as the indicator's message says, for a user   *)
(* who waits for a start to take effect: whatever frames, completions and  *)
(* earlier recordings do, m_recording, which decides whether keys are      *)
(* swallowed, is what the presses so far ask for.                          *)
TogglesForPatient == ~hasty /\ ~Pending => recording = wanted

(* A capture loop runs in a recorder that is alive, unless recording was   *)
(* started once more since: only the construction of another thread's      *)
(* recorder destroys it, never a stop, a completion or a key.              *)
LoopHasRecorder ==
  \A t \in Threads : InLoop(t) =>
    \/ runs[t] = recorder
    \/ \E u \in Threads \ {runs[t]} : recorder = u /\ at[u] \notin {"unborn", "spawned", "construct"}

(* Between two handlers every candidate has its attribute, unless a        *)
(* capture loop runs that may have emptied the one list and not yet, or no *)
(* longer, the other: without one a selection never reads past             *)
(* m_candidateAttrs.                                                       *)
AttrsCoverTexts == main = "idle" /\ (\A t \in Threads : ~InLoop(t)) => texts = attrs

(* With the device open, the speech mode ends by itself.                   *)
SpeechModeEnds == (\E t \in Threads : InLoop(t)) /\ speechOn ~> ~speechOn \/ crashed

(* A list torn by a completion that came into a handler is whole again     *)
(* after a later frame.                                                    *)
TornListHeals == texts # attrs ~> texts = attrs \/ crashed
=============================================================================
