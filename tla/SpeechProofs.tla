---------------------------- MODULE SpeechProofs ----------------------------
(***************************************************************************)
(* Speech input for any number of recorder threads and candidates: Ctrl-`  *)
(* toggles for a user who waits, a loop has a recorder, and the candidates *)
(* keep their attributes while no loop runs.                               *)
(*                                                                         *)
(* Three arguments of their own on top of the types: what is pending when  *)
(* the user waited, how far the thread whose recorder is alive has come,   *)
(* and how the sizes of the two lists differ inside a key handler.         *)
(***************************************************************************)
EXTENDS Speech, TLAPS

Started == Loop \cup {"enter", "ended"}

(* The user waited: at most one thread is pending, and it is wanted.       *)
Patient ==
  ~hasty =>
    /\ \A t, u \in Threads : at[t] = "spawned" /\ at[u] = "spawned" => t = u
    /\ Pending => wanted /\ ~recording
    /\ ~Pending => recording = wanted

(* Who has constructed a recorder, and that m_recorder holds one of them.  *)
Constructed ==
  /\ recorder # None => at[recorder] \in Started
  /\ \A t \in Threads : at[t] \in Started => recorder # None
  /\ \A t \in Threads : InLoop(t) => runs[t] # None

(* Without a loop only the key handler changes the two lists.              *)
Paired ==
  (\A t \in Threads : ~InLoop(t)) =>
    /\ main = "unmark" => texts = 0
    /\ main = "mark" => texts = attrs + 1
    /\ main \notin {"unmark", "mark"} => texts = attrs

IInv == TypeOK /\ Patient /\ Constructed /\ Paired

LEMMA InitIInv == Init => IInv
  <1> SUFFICES ASSUME Init PROVE IInv
    OBVIOUS
  <1>1. TypeOK
    BY DEF Init, TypeOK
  <1>2. Patient
    BY DEF Init, Patient, Pending
  <1>3. Constructed
    BY DEF Init, Constructed, Started, InLoop, Loop
  <1>4. Paired
    BY DEF Init, Paired
  <1> QED
    BY <1>1, <1>2, <1>3, <1>4 DEF IInv

(***************************************************************************)
(* Types.                                                                  *)
(***************************************************************************)
LEMMA TypeStep == ASSUME TypeOK, Constructed, Next PROVE TypeOK'
  <1> USE NoThreadAssumption, MaxCandidatesAssumption
      DEF TypeOK, Goes, Loop, threads, mode, list, user
  <1>1. CASE Toggle
    BY <1>1 DEF Toggle
  <1>2. CASE Key
    <2>1. left' \in Nat
      <3>1. left' \in 0..MaxCandidates \/ left' = 0
        BY <1>2, Zenon DEF Key
      <3> QED
        BY <3>1
    <2>2. crashed' \in BOOLEAN
      BY <1>2, Zenon DEF Key
    <2> QED
      BY <1>2, <2>1, <2>2 DEF Key
  <1>3. CASE SpeechModeOn \/ ModeRead \/ ModeShown
    BY <1>3 DEF SpeechModeOn, ModeRead, ModeShown
  <1>4. CASE Cleared \/ Unmarked \/ Appended \/ Marked \/ Displayed
    BY <1>4 DEF Cleared, Unmarked, Appended, Marked, Displayed
  <1>5. ASSUME NEW t \in Threads, Recorder(t) PROVE TypeOK'
    <2>1. CASE Starts(t)
      BY <2>1 DEF Starts
    <2>2. CASE Constructs(t)
      BY <2>2 DEF Constructs
    <2>3. CASE Enters(t)
      <3>1. recorder \in Threads
        BY <2>3 DEF Enters, Constructed, Started
      <3> QED
        BY <2>3, <3>1 DEF Enters
    <2>4. CASE Captures(t) \/ Clears(t) \/ Unmarks(t)
      BY <2>4 DEF Captures, Clears, Unmarks
    <2>5. CASE EndsMode(t) \/ ReadsMode(t) \/ ShowsMode(t)
      <3>1. CASE EndsMode(t)
        BY <3>1 DEF EndsMode
      <3>2. CASE ReadsMode(t)
        BY <3>2 DEF ReadsMode
      <3>3. CASE ShowsMode(t)
        BY <3>3 DEF ShowsMode
      <3> QED
        BY ONLY <2>5, <3>1, <3>2, <3>3
    <2> QED
      BY <1>5, <2>1, <2>2, <2>3, <2>4, <2>5 DEF Recorder
  <1> QED
    BY <1>1, <1>2, <1>3, <1>4, <1>5 DEF Next, Handler

(***************************************************************************)
(* The toggle: only a press and a started thread touch m_recording.        *)
(***************************************************************************)
LEMMA PatientStep == ASSUME TypeOK, Patient, Next PROVE Patient'
  <1> USE DEF TypeOK, Patient, Pending, Goes, threads, mode, list, user
  <1>1. CASE Toggle
    <2>1. CASE recording
      BY <1>1, <2>1 DEF Toggle
    <2>2. CASE ~recording
      <3>1. PICK t \in Threads : at[t] = "unborn" /\ at' = [at EXCEPT ![t] = "spawned"]
        BY <1>1, <2>2 DEF Toggle
      <3>2. wanted' = ~wanted /\ hasty' = (hasty \/ Pending) /\ recording' = recording
        BY <1>1, <2>2 DEF Toggle
      <3>3. CASE hasty \/ Pending
        BY <3>2, <3>3
      <3>4. CASE ~hasty /\ ~Pending
        <4>1. wanted' /\ ~recording'
          BY <2>2, <3>2, <3>4
        <4>2. \A u \in Threads : at'[u] = "spawned" <=> u = t
          BY <3>1, <3>4
        <4> QED
          BY <4>1, <4>2
      <3> QED
        BY <3>3, <3>4
    <2> QED
      BY <2>1, <2>2
  <1>2. CASE Key \/ Handler
    BY <1>2 DEF Key, Handler, SpeechModeOn, ModeRead, ModeShown, Cleared, Unmarked, Appended,
                Marked, Displayed
  <1>3. ASSUME NEW t \in Threads, Recorder(t) PROVE Patient'
    <2>1. CASE Starts(t)
      BY <2>1 DEF Starts
    <2>2. CASE Constructs(t)
      BY <2>2 DEF Constructs
    <2>3. CASE Enters(t)
      <3>1. at' = [at EXCEPT ![t] = at'[t]] /\ at'[t] # "spawned" /\ at[t] # "spawned"
        BY <2>3 DEF Enters
      <3> QED
        BY <2>3, <3>1 DEF Enters
    <2>4. CASE Captures(t) \/ Clears(t) \/ Unmarks(t) \/ EndsMode(t) \/ ReadsMode(t) \/ ShowsMode(t)
      BY <2>4 DEF Captures, Clears, Unmarks, EndsMode, ReadsMode, ShowsMode
    <2> QED
      BY <1>3, <2>1, <2>2, <2>3, <2>4 DEF Recorder
  <1> QED
    BY <1>1, <1>2, <1>3 DEF Next

(***************************************************************************)
(* The recorder: it changes hands only when another thread constructs one. *)
(***************************************************************************)
LEMMA ConstructedStep == ASSUME TypeOK, Constructed, Next PROVE Constructed'
  <1> USE NoThreadAssumption
      DEF TypeOK, Constructed, Started, InLoop, Loop, Goes, threads, mode, list, user
  <1>1. CASE Toggle
    BY <1>1 DEF Toggle
  <1>2. CASE Key \/ Handler
    BY <1>2 DEF Key, Handler, SpeechModeOn, ModeRead, ModeShown, Cleared, Unmarked, Appended,
                Marked, Displayed
  <1>3. ASSUME NEW t \in Threads, Recorder(t) PROVE Constructed'
    <2>1. CASE Starts(t)
      BY <2>1 DEF Starts
    <2>2. CASE Constructs(t)
      BY <2>2 DEF Constructs
    <2>3. CASE Enters(t)
      <3>1. recorder \in Threads /\ at'[t] \in {"capture", "ended"}
        BY <2>3 DEF Enters
      <3> QED
        BY <2>3, <3>1 DEF Enters
    <2>4. CASE Captures(t) \/ Clears(t) \/ Unmarks(t) \/ EndsMode(t) \/ ReadsMode(t) \/ ShowsMode(t)
      BY <2>4 DEF Captures, Clears, Unmarks, EndsMode, ReadsMode, ShowsMode
    <2> QED
      BY <1>3, <2>1, <2>2, <2>3, <2>4 DEF Recorder
  <1> QED
    BY <1>1, <1>2, <1>3 DEF Next

(***************************************************************************)
(* The two lists: a loop that runs goes on running.                        *)
(***************************************************************************)
LEMMA LoopGoesOn ==
  ASSUME TypeOK, Next, NEW t \in Threads, InLoop(t)
  PROVE  InLoop(t)'
  <1> USE DEF TypeOK, InLoop, Loop, Goes, threads
  <1>1. CASE Toggle \/ Key \/ Handler
    BY <1>1 DEF Toggle, Key, Handler, SpeechModeOn, ModeRead, ModeShown, Cleared, Unmarked,
                Appended, Marked, Displayed
  <1>2. ASSUME NEW u \in Threads, Recorder(u) PROVE InLoop(t)'
    BY <1>2 DEF Recorder, Starts, Constructs, Enters, Captures, Clears, Unmarks, EndsMode,
                ReadsMode, ShowsMode
  <1> QED
    BY <1>1, <1>2 DEF Next

LEMMA PairedStep == ASSUME TypeOK, Paired, Next PROVE Paired'
  <1> SUFFICES ASSUME \A t \in Threads : ~InLoop(t)'
               PROVE  Paired'
    BY DEF Paired
  <1>1. \A t \in Threads : ~InLoop(t)
    BY LoopGoesOn
  <1> USE <1>1 DEF TypeOK, Paired, threads, mode, list, user
  <1>2. CASE Toggle \/ Key
    BY <1>2 DEF Toggle, Key
  <1>3. CASE Handler
    BY <1>3 DEF Handler, SpeechModeOn, ModeRead, ModeShown, Cleared, Unmarked, Appended, Marked,
                Displayed
  <1>4. ASSUME NEW t \in Threads, Recorder(t) PROVE Paired'
    BY <1>4 DEF Recorder, Starts, Constructs, Enters, Captures, Clears, Unmarks, EndsMode,
                ReadsMode, ShowsMode, InLoop, Loop
  <1> QED
    BY <1>2, <1>3, <1>4 DEF Next

LEMMA NextIInv == IInv /\ [Next]_vars => IInv'
  <1> SUFFICES ASSUME IInv, [Next]_vars PROVE IInv'
    OBVIOUS
  <1>1. CASE UNCHANGED vars
    BY <1>1 DEF IInv, TypeOK, Patient, Constructed, Paired, Pending, Started, InLoop,
                vars, threads, mode, list, user
  <1>2. CASE Next
    BY <1>2, TypeStep, PatientStep, ConstructedStep, PairedStep DEF IInv
  <1> QED
    BY <1>1, <1>2

LEMMA AlwaysIInv == Spec => []IInv
  BY InitIInv, NextIInv, PTL DEF Spec

(***************************************************************************)
(* The theorems.                                                           *)
(***************************************************************************)

(* Every variable has a value of its kind, for any number of threads.      *)
THEOREM TypeCorrect == Spec => []TypeOK
  <1>1. IInv => TypeOK
    BY DEF IInv
  <1> QED
    BY <1>1, AlwaysIInv, PTL

(* m_recording is what the presses of Ctrl-` ask for, for a user who waits *)
(* for each start, however many recordings there were before.              *)
THEOREM AlwaysToggles == Spec => []TogglesForPatient
  <1>1. IInv => TogglesForPatient
    BY DEF IInv, Patient, TogglesForPatient
  <1> QED
    BY <1>1, AlwaysIInv, PTL

(* A capture loop has lost its recorder only to a later start.             *)
THEOREM LoopAlwaysHasRecorder == Spec => []LoopHasRecorder
  <1>1. IInv => LoopHasRecorder
    BY NoThreadAssumption
       DEF IInv, TypeOK, Constructed, LoopHasRecorder, Started, InLoop, Loop
  <1> QED
    BY <1>1, AlwaysIInv, PTL

(* Without a capture loop a selection never reads past m_candidateAttrs.   *)
THEOREM AttrsAlwaysCoverTexts == Spec => []AttrsCoverTexts
  <1>1. IInv => AttrsCoverTexts
    BY DEF IInv, Paired, AttrsCoverTexts
  <1> QED
    BY <1>1, AlwaysIInv, PTL
=============================================================================
