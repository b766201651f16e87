------------------------------- MODULE Engine -------------------------------
(***************************************************************************)
(* The input method's engines (class Engine, src/src/Engine.cpp): what a   *)
(* key, a click, a focus change, a property of the panel's menu, a speech  *)
(* result and a dictionary loader thread do to the composition.            *)
(*                                                                         *)
(* There is one engine per input context.  Engines share the options (the  *)
(* RuntimeOptions singleton) and the dictionaries (s_wubi and s_dictFast,  *)
(* static members).  Handlers run on the GLib main loop, one at a time;    *)
(* loaders and recorders are detached threads.  A step is one whole        *)
(* handler, or what a thread does between two of its accesses to shared    *)
(* state.                                                                  *)
(***************************************************************************)
EXTENDS LookupTable, Candidates, Functions

CONSTANTS
  Engines,
  Wubi86,        \* wubi86DictPath
  MaxLoaders,    \* bound of the model: loader threads alive, per dictionary
  MaxStarting    \* bound of the model: recorder threads not yet running, per engine

ASSUME Wubi86Assumption == Wubi86 \in WubiTables
ASSUME BoundsAssumption == MaxLoaders \in Nat /\ MaxStarting \in Nat
ASSUME NoEngineAssumption == None \notin Engines
ASSUME SpawnedAssumption == "spawned" \notin WubiTables \cup FastFiles
ASSUME ListLengthAssumption ==   \* a guint counts the candidates of any list
  \A s \in Inputs : \A list \in Lists(s) : Len(list) <= GuintRange

VARIABLES
  lock,        \* the keyboard's Caps Lock: Chinese is typed while it is on
  focus,       \* the engine the keys go to, or None
  input,       \* input[e]: m_input, the letters of the composition
  table,       \* table[e]: m_lookupTable
  panel,       \* panel[e]: candidates the desktop panel displays; visible?
  opts,        \* *m_options
  symbol,      \* symbol[e]: the input mode shown by e's first property
  dict,        \* s_wubi and s_dictFast: the installed dictionary, or None
  loaders,     \* loaders[d][s]: loader threads of dictionary d in state s
  recording,   \* recording[e]: m_speechRecognizer->m_recording
  starting,    \* starting[e]: recorder threads spawned and not yet running
  capturing,   \* capturing[e]: a recorder thread is in its capture loop
  out,         \* what the last step delivered to the application
  crashed      \* the process has died

composing == <<input, table>>
speech    == <<recording, starting, capturing>>
statics   == <<dict, loaders>>
vars == <<lock, focus, input, table, panel, opts, symbol, dict, loaders,
          recording, starting, capturing, out, crashed>>

Dictionaries == {"wubi", "fast"}
Contents == WubiTables \cup FastFiles
LoaderStates == {"spawned"} \cup Contents

Options ==
  [wubi_table : WubiTables \cup {None}, pinyin : BOOLEAN, capsOn : BOOLEAN,
   speechOn : BOOLEAN, dictFastEnabled : BOOLEAN, dictFastPendingReload : BOOLEAN]

Event(kind, text) == [kind |-> kind, text |-> text]
Passed == <<Event("pass", "key")>>   \* the key goes to the application

(* The symbol UpdateInputMode() computes.                                  *)
ModeSymbol(o) ==
  IF o.speechOn THEN "speech"
  ELSE IF ~o.capsOn THEN "english"
  ELSE IF o.pinyin /\ o.wubi_table # None THEN "mixed"
  ELSE IF o.pinyin THEN "pinyin"
  ELSE IF o.wubi_table # None THEN "wubi"
  ELSE "X"

(* UpdateInputMode() of engine e after the options became o: it refreshes  *)
(* the property of e only, though all the engines share the options.       *)
SetOptions(e, o) ==
  /\ opts' = o
  /\ symbol' = [symbol EXCEPT ![e] = ModeSymbol(o)]

Hidden(p) == [p EXCEPT !.visible = FALSE]
Shown(p)  == [p EXCEPT !.visible = TRUE]

(* Mutant of Displaying: no page size was set, the panel gets the list.    *)
DisplayingAll(t) == [size |-> Size(t), visible |-> TRUE]

(* LookupTable::Update(): the panel gets, and shows, the cursor's page.    *)
Displaying(t) == [size |-> PageLength(t), visible |-> TRUE]

SetTable(e, t) == table' = [table EXCEPT ![e] = t]
SetPanel(e, p) == panel' = [panel EXCEPT ![e] = p]

(* Mutant of Clear: the candidates are hidden and not dropped.             *)
ClearKeepingList(e) ==
  /\ out' = <<Event("typed", input[e])>>
  /\ input' = [input EXCEPT ![e] = <<>>]
  /\ SetPanel(e, Hidden(panel[e]))
  /\ UNCHANGED table

(* Clear(): what was typed is committed as English.                        *)
Clear(e) ==
  /\ out' = <<Event("typed", input[e])>>
  /\ input' = [input EXCEPT ![e] = <<>>]
  /\ SetTable(e, EmptyTable)
  /\ SetPanel(e, Hidden(panel[e]))

----------------------------------------------------------------------------
(* Key events.  The state a key finds: focus, speech, Caps Lock.           *)

Keyed(e)   == focus = e /\ ~recording[e]
Chinese(e) == Keyed(e) /\ lock
English(e) == Keyed(e) /\ ~lock

(* Key releases; Ctrl with another key than `; in Chinese, the keys no     *)
(* case of the handler takes (arrows, digits, Space, BackSpace and Escape  *)
(* without a composition; function keys).  Caps Lock with Ctrl is among     *)
(* them, and switches the lock.                                            *)
PassedKey(e) ==
  /\ focus = e
  /\ lock' \in BOOLEAN
  /\ out' = Passed
  /\ UNCHANGED <<focus, composing, panel, opts, symbol, statics, speech, crashed>>

(* Any key while the recognizer records: consumed before it is looked at.  *)
SwallowedKey(e) ==
  /\ focus = e /\ recording[e]
  /\ lock' \in BOOLEAN
  /\ out' = <<>>
  /\ UNCHANGED <<focus, composing, panel, opts, symbol, statics, speech, crashed>>

(* Ctrl-`: start recording on a thread of its own, or stop.                *)
SpeechKey(e) ==
  /\ focus = e
  /\ SetPanel(e, Shown(panel[e]))
  /\ out' = <<>>
  /\ \/ /\ recording[e]
        /\ recording' = [recording EXCEPT ![e] = FALSE]
        /\ UNCHANGED <<starting, opts, symbol>>
     \/ /\ ~recording[e] /\ starting[e] < MaxStarting
        /\ starting' = [starting EXCEPT ![e] = @ + 1]
        /\ SetOptions(e, [opts EXCEPT !.speechOn = TRUE])
        /\ UNCHANGED recording
  /\ UNCHANGED <<lock, focus, composing, statics, capturing, crashed>>

(* Caps Lock pressed in Chinese mode.                                      *)
CapsToEnglish(e) ==
  /\ Chinese(e)
  /\ lock' = FALSE
  /\ SetOptions(e, [opts EXCEPT !.capsOn = FALSE])
  /\ Clear(e)
  /\ UNCHANGED <<focus, statics, speech, crashed>>

(* Caps Lock, or another key, in English mode: the candidates are hidden   *)
(* and the key goes to the application; the composition stays.             *)
EnglishKey(e) ==
  /\ English(e)
  /\ lock' \in BOOLEAN
  /\ SetOptions(e, [opts EXCEPT !.capsOn = lock'])
  /\ SetPanel(e, Hidden(panel[e]))
  /\ out' = Passed
  /\ UNCHANGED <<focus, composing, statics, speech, crashed>>

(* LookupTableNavigate(): - = and the arrows during a composition.         *)
NavigateKey(e) ==
  /\ Chinese(e) /\ input[e] # <<>>
  /\ \E t \in Moves(table[e]) : SetTable(e, t) /\ SetPanel(e, Displaying(t))
  /\ out' = <<>>
  /\ UNCHANGED <<lock, focus, input, opts, symbol, statics, speech, crashed>>

(* handlePunctuation(): one commit, or two for the dash and the ellipsis.  *)
PunctuationKey(e) ==
  /\ Chinese(e)
  /\ \E n \in 1..2 : out' = [k \in 1..n |-> Event("punctuation", "mark")]
  /\ UNCHANGED <<lock, focus, composing, panel, opts, symbol, statics, speech, crashed>>

(* Mutant of CandidateSelected: m_input survives the commit.               *)
CommittedTwice(e, index, ignoreText) ==
  /\ index < Size(table[e])
  /\ out' = IF ignoreText THEN <<>>
            ELSE <<Event("candidate", table[e].cands[index + 1].text)>>
  /\ UNCHANGED <<composing, panel, crashed>>

(* candidateSelected(index, ignoreText).  A position past the end has no   *)
(* text, and the handler dereferences it.                                  *)
CandidateSelected(e, index, ignoreText) ==
  IF index >= Size(table[e])
    THEN crashed' = TRUE /\ out' = <<>> /\ UNCHANGED <<composing, panel>>
    ELSE /\ out' = IF ignoreText THEN <<>>
                   ELSE <<Event("candidate", table[e].cands[index + 1].text)>>
         /\ input' = [input EXCEPT ![e] = <<>>]
         /\ SetTable(e, EmptyTable)
         /\ SetPanel(e, [size |-> 0, visible |-> FALSE])
         /\ UNCHANGED crashed

(* keyval - '0' for every key whose low byte is a digit's: 0..9, and the   *)
(* keys 0xff30 to 0xff39 of East Asian keyboards; -1 for the other keys.   *)
Indices == -1..9 \cup 65280..65289

(* Space or Return (index -1), a digit, Escape (index -1, no commit).      *)
SelectKey(e, index, ignoreText) ==
  /\ Chinese(e) /\ input[e] # <<>>
  /\ CandidateSelected(e, GlobalCursor(table[e], index), ignoreText)
  /\ UNCHANGED <<lock, focus, opts, symbol, statics, speech>>

(* The composition became s: clear the list, query the fast-input file,    *)
(* the wubi table and the pinyin decoder, and show the result.  When fast  *)
(* input has an answer and is not alone, the cursor starts on the second.  *)
Query(e, s) ==
  LET file == IF opts.dictFastEnabled THEN dict["fast"] ELSE None
      fast == FastQuery(s, file)
      list == fast \o WubiPinyinQuery(s, opts.pinyin, opts.wubi_table, dict["wubi"])
      t    == IF fast # <<>> /\ Len(list) > 1 THEN CursorDown(Filled(list)) ELSE Filled(list)
  IN  /\ input' = [input EXCEPT ![e] = s]
      /\ SetTable(e, t)
      /\ SetPanel(e, Displaying(t))
      /\ out' = <<>>

LetterKey(e) ==
  /\ Chinese(e) /\ Len(input[e]) < MaxInput
  /\ \E l \in Letters : Query(e, Append(input[e], l))
  /\ UNCHANGED <<lock, focus, opts, symbol, statics, speech, crashed>>

(* The last letter is taken back, and an empty composition queried too.    *)
BackSpaceKey(e) ==
  /\ Chinese(e) /\ input[e] # <<>>
  /\ Query(e, SubSeq(input[e], 1, Len(input[e]) - 1))
  /\ UNCHANGED <<lock, focus, opts, symbol, statics, speech, crashed>>

----------------------------------------------------------------------------
(* The panel's buttons.  Paging moves the list and does not redisplay it.  *)

PanelMove(e) ==
  /\ focus = e /\ panel[e].visible
  /\ \E t \in Moves(table[e]) : SetTable(e, t)
  /\ out' = <<>>
  /\ UNCHANGED <<lock, focus, input, panel, opts, symbol, statics, speech, crashed>>

(* OnCandidateClicked(index): the place on the displayed page is taken for *)
(* a position in the whole list.                                           *)
Click(e) ==
  /\ focus = e /\ panel[e].visible
  /\ \E index \in 0..(panel[e].size - 1) : CandidateSelected(e, index, FALSE)
  /\ UNCHANGED <<lock, focus, opts, symbol, statics, speech>>

----------------------------------------------------------------------------
(* Options and dictionaries.                                               *)

(* How many loader threads of dictionary d are alive.                      *)
Alive(d) == FoldFunctionOnSet(LAMBDA x, y : x + y, 0, loaders[d], LoaderStates)

(* Mutant of Reload: the list made with the old dictionary stays.          *)
ReloadKeepingList(e, d) ==
  /\ Alive(d) < MaxLoaders
  /\ dict' = [dict EXCEPT ![d] = None]
  /\ loaders' = [loaders EXCEPT ![d]["spawned"] = @ + 1]
  /\ out' = <<>>
  /\ UNCHANGED <<composing, panel>>

(* SwitchWubi() and ReloadFastTable(): commit what was typed, delete the   *)
(* installed dictionary and leave it to a new thread to load the next.     *)
Reload(e, d) ==
  /\ Alive(d) < MaxLoaders
  /\ Clear(e)
  /\ dict' = [dict EXCEPT ![d] = None]
  /\ loaders' = [loaders EXCEPT ![d]["spawned"] = @ + 1]

(* What a loader of d loads, by the options it reads.                      *)
Wanted(d) ==
  IF d = "wubi"
    THEN IF opts.wubi_table = None THEN {} ELSE {opts.wubi_table}
    ELSE IF opts.dictFastEnabled THEN FastFiles ELSE {}

(* A loader reads the options, and what they name; without a dictionary    *)
(* to load it ends.                                                        *)
LoaderReads(d) ==
  /\ loaders[d]["spawned"] > 0
  /\ LET rest == [loaders[d] EXCEPT !["spawned"] = @ - 1]
     IN  \/ Wanted(d) = {} /\ loaders' = [loaders EXCEPT ![d] = rest]
         \/ \E c \in Wanted(d) :
              loaders' = [loaders EXCEPT ![d] = [rest EXCEPT ![c] = @ + 1]]
  /\ out' = <<>>
  /\ UNCHANGED <<lock, focus, composing, panel, opts, symbol, dict, speech, crashed>>

(* It installs what it has loaded, whatever the options are by now.        *)
LoaderInstalls(d, c) ==
  /\ loaders[d][c] > 0
  /\ loaders' = [loaders EXCEPT ![d][c] = @ - 1]
  /\ dict' = [dict EXCEPT ![d] = c]
  /\ out' = <<>>
  /\ UNCHANGED <<lock, focus, composing, panel, opts, symbol, speech, crashed>>

(* Mutant of ChooseWubi: only a table that replaces another is loaded.     *)
ChooseWubiAnew(e, t) ==
  /\ focus = e
  /\ SetOptions(e, [opts EXCEPT !.wubi_table = t])
  /\ IF t # opts.wubi_table /\ opts.wubi_table # None
       THEN Reload(e, "wubi")
       ELSE out' = <<>> /\ UNCHANGED <<composing, panel, statics>>
  /\ UNCHANGED <<lock, focus, speech, crashed>>

(* OnPropertyActivate: a wubi table, or none, is chosen.                   *)
ChooseWubi(e, t) ==
  /\ focus = e
  /\ SetOptions(e, [opts EXCEPT !.wubi_table = t])
  /\ IF t # opts.wubi_table
       THEN Reload(e, "wubi")
       ELSE out' = <<>> /\ UNCHANGED <<composing, panel, statics>>
  /\ UNCHANGED <<lock, focus, speech, crashed>>

(* OnPropertyActivate: fast input is switched on or off.                   *)
SwitchFast(e) ==
  /\ focus = e
  /\ \E on \in BOOLEAN : SetOptions(e, [opts EXCEPT !.dictFastEnabled = on])
  /\ Reload(e, "fast")
  /\ UNCHANGED <<lock, focus, speech, crashed>>

(* OnPropertyActivate: pinyin is switched on or off, and any property that *)
(* changes no option; the list of candidates stays.                        *)
SwitchPinyin(e) ==
  /\ focus = e
  /\ \E on \in BOOLEAN : SetOptions(e, [opts EXCEPT !.pinyin = on])
  /\ out' = <<>>
  /\ UNCHANGED <<lock, focus, composing, panel, statics, speech, crashed>>

(* Config::OnValueChanged, for the request to reload the fast-input file.  *)
ReloadRequested ==
  /\ opts' = [opts EXCEPT !.dictFastPendingReload = TRUE]
  /\ out' = <<>>
  /\ UNCHANGED <<lock, focus, composing, panel, symbol, statics, speech, crashed>>

(* Mutant of FocusIn: the mode is not refreshed.                           *)
FocusInQuietly(e) ==
  /\ focus # e /\ focus' = e
  /\ opts' = [opts EXCEPT !.dictFastPendingReload = FALSE]
  /\ IF opts.dictFastPendingReload
       THEN Reload(e, "fast")
       ELSE out' = <<>> /\ UNCHANGED <<composing, panel, statics>>
  /\ UNCHANGED <<lock, symbol, speech, crashed>>

(* FocusIn(): the mode is refreshed, then a requested reload is done.      *)
FocusIn(e) ==
  /\ focus # e /\ focus' = e
  /\ SetOptions(e, [opts EXCEPT !.dictFastPendingReload = FALSE])
  /\ IF opts.dictFastPendingReload
       THEN Reload(e, "fast")
       ELSE out' = <<>> /\ UNCHANGED <<composing, panel, statics>>
  /\ UNCHANGED <<lock, speech, crashed>>

(* FocusOut() keeps the composition.                                       *)
FocusOut ==
  /\ focus # None /\ focus' = None
  /\ out' = <<>>
  /\ UNCHANGED <<lock, composing, panel, opts, symbol, statics, speech, crashed>>

(* Caps Lock pressed in a window that is not the engines' business.        *)
CapsElsewhere ==
  /\ focus = None /\ lock' = ~lock
  /\ out' = <<>>
  /\ UNCHANGED <<focus, composing, panel, opts, symbol, statics, speech, crashed>>

----------------------------------------------------------------------------
(* The recorder threads.                                                   *)

(* DictSpeech::Start() gets to run: with an audio device it stays in the   *)
(* capture loop for ever, without one it returns.  A second Start()        *)
(* destroys the recorder whose loop is running, which is undefined.        *)
RecorderStarts(e) ==
  /\ starting[e] > 0
  /\ starting' = [starting EXCEPT ![e] = @ - 1]
  /\ recording' = [recording EXCEPT ![e] = TRUE]
  /\ \/ capturing' = [capturing EXCEPT ![e] = TRUE]
     \/ UNCHANGED capturing
  /\ \/ UNCHANGED crashed
     \/ capturing[e] /\ crashed' = TRUE
  /\ out' = <<>>
  /\ UNCHANGED <<lock, focus, composing, panel, opts, symbol, statics>>

(* One frame: the buffer is overrun, which is undefined; if the process    *)
(* survives, OnCompleted() commits the recognizer's answer and empties the *)
(* candidate list, whichever engine has the focus.                         *)
Frame(e) ==
  /\ capturing[e]
  /\ \/ /\ crashed' = TRUE
        /\ out' = <<>>
        /\ UNCHANGED <<table, panel, opts, symbol>>
     \/ /\ \E answer \in {"", "7"} : out' = <<Event("speech", answer)>>
        /\ SetTable(e, EmptyTable)
        /\ SetPanel(e, Hidden(panel[e]))
        /\ SetOptions(e, [opts EXCEPT !.speechOn = FALSE])
        /\ UNCHANGED crashed
  /\ UNCHANGED <<lock, focus, input, statics, speech>>

----------------------------------------------------------------------------
(* The engines have been constructed: the first one loaded the 86 table,   *)
(* whichever table the options name, and the fast-input file.              *)
Init ==
  /\ lock \in BOOLEAN
  /\ focus = None
  /\ input = [e \in Engines |-> <<>>]
  /\ table = [e \in Engines |-> EmptyTable]
  /\ panel = [e \in Engines |-> [size |-> 0, visible |-> FALSE]]
  /\ opts \in {o \in Options : ~o.capsOn /\ ~o.speechOn /\ ~o.dictFastPendingReload}
  /\ symbol = [e \in Engines |-> "none"]
  /\ \E f \in FastFiles : dict = [d \in Dictionaries |-> IF d = "wubi" THEN Wubi86 ELSE f]
  /\ loaders = [d \in Dictionaries |-> [s \in LoaderStates |-> 0]]
  /\ recording = [e \in Engines |-> FALSE]
  /\ starting = [e \in Engines |-> 0]
  /\ capturing = [e \in Engines |-> FALSE]
  /\ out = <<>>
  /\ crashed = FALSE

Key(e) ==
  \/ PassedKey(e) \/ SwallowedKey(e) \/ SpeechKey(e)
  \/ CapsToEnglish(e) \/ EnglishKey(e) \/ NavigateKey(e) \/ PunctuationKey(e)
  \/ \E index \in Indices : SelectKey(e, index, FALSE)
  \/ SelectKey(e, -1, TRUE)
  \/ LetterKey(e) \/ BackSpaceKey(e)

Property(e) ==
  \/ \E t \in WubiTables \cup {None} : ChooseWubi(e, t)
  \/ SwitchFast(e) \/ SwitchPinyin(e)

Next ==
  /\ ~crashed
  /\ \/ \E e \in Engines :
          \/ Key(e) \/ PanelMove(e) \/ Click(e) \/ Property(e)
          \/ FocusIn(e) \/ RecorderStarts(e) \/ Frame(e)
     \/ FocusOut \/ CapsElsewhere \/ ReloadRequested
     \/ \E d \in Dictionaries :
          LoaderReads(d) \/ \E c \in Contents : LoaderInstalls(d, c)

(* The operating system runs every loader thread that can run; nothing     *)
(* else is promised, least of all that the user does something.            *)
Fairness ==
  \A d \in Dictionaries :
    /\ WF_vars(~crashed /\ LoaderReads(d))
    /\ \A c \in Contents : WF_vars(~crashed /\ LoaderInstalls(d, c))

Spec == Init /\ [][Next]_vars /\ Fairness

----------------------------------------------------------------------------
(* Correctness.                                                            *)

Tables == [cands : Seq(Candidate), cursor : Nat]

(* Every variable has a value of its kind.                                 *)
TypeOK ==
  /\ lock \in BOOLEAN
  /\ focus \in Engines \cup {None}
  /\ input \in [Engines -> Inputs]
  /\ table \in [Engines -> Tables]
  /\ panel \in [Engines -> [size : 0..PageSize, visible : BOOLEAN]]
  /\ opts \in Options
  /\ symbol \in [Engines -> {"none", "speech", "english", "mixed", "pinyin", "wubi", "X"}]
  /\ dict \in [Dictionaries -> Contents \cup {None}]
  /\ loaders \in [Dictionaries -> [LoaderStates -> Nat]]
  /\ recording \in [Engines -> BOOLEAN]
  /\ starting \in [Engines -> Nat]
  /\ capturing \in [Engines -> BOOLEAN]
  /\ crashed \in BOOLEAN

(* A candidate list is for the letters of the composition: whatever was    *)
(* typed, erased, selected, switched or recognised since, the list that    *)
(* Space, a digit or a click selects from is empty or is what a query for  *)
(* exactly m_input gives.                                                  *)
ListFollowsInput ==
  \A e \in Engines : table[e].cands = <<>> \/ table[e].cands \in Lists(input[e])

(* Space and Return find a candidate under the cursor whenever there is    *)
(* one at all: no paging, cursor key or query leaves the cursor outside.   *)
CursorInList ==
  \A e \in Engines : table[e].cands # <<>> => table[e].cursor < Size(table[e])

(* Digit k selects the k-th candidate of the cursor's page, in guint       *)
(* arithmetic, wherever paging and the cursor keys have led.               *)
DigitsFollowPage ==
  \A e \in Engines : \A k \in 1..PageSize :
    k <= PageLength(table[e]) => GlobalCursor(table[e], k) = PageStart(table[e]) + k - 1

(* A list that can be selected from was not made with a wubi table choice  *)
(* or a fast-input setting that has been changed since (of the pinyin      *)
(* switch this is not so).  The engine that changes the setting drops its  *)
(* own list only, so this is about a single engine.                        *)
ListFollowsOptions ==
  \A e \in Engines :
    table[e].cands = <<>> \/
    \E p \in BOOLEAN, w \in WubiTables \cup {None}, f \in FastFiles \cup {None} :
      /\ opts.dictFastEnabled \/ f = None
      /\ table[e].cands = FastQuery(input[e], f)
                             \o WubiPinyinQuery(input[e], p, opts.wubi_table, w)

(* The mode shown for the engine in focus is the mode it is in, though the *)
(* options are shared and every engine changes them: FocusIn() refreshes   *)
(* it.  Only a recorder of another engine, whose OnCompleted() ends the    *)
(* speech mode for all, refreshes the wrong property.                      *)
IndicatorCurrent ==
  \A e \in Engines :
    focus = e /\ (\A d \in Engines \ {e} : ~capturing[d]) => symbol[e] = ModeSymbol(opts)

(* A dictionary the options ask for and that is not installed is being     *)
(* loaded: no order of switches, reloads and loader threads loses it.      *)
MissingIsLoading ==
  \A d \in Dictionaries :
    Wanted(d) # {} /\ dict[d] = None => \E s \in LoaderStates : loaders[d][s] > 0

(* So the words of a wubi table come back after every switch.              *)
ChosenTableLoads ==
  opts.wubi_table # None ~> dict["wubi"] # None \/ opts.wubi_table = None \/ crashed

(* The promise to the application, with m_input as the pending letters.    *)
Promise == INSTANCE Composition WITH pending <- input, Offers <- Offered
KeepsPromise == Promise!Spec

(* README.md:44: the user can choose the 86 table or the 98 table.  When   *)
(* no loader is at work, the table installed is the one chosen.            *)
SettledTableIsChosen ==
  opts.wubi_table # None /\ (\A s \in LoaderStates : loaders["wubi"][s] = 0)
    => dict["wubi"] = opts.wubi_table
=============================================================================
