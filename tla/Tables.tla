------------------------------- MODULE Tables -------------------------------
(***************************************************************************)
(* The installed wubi table, Engine::s_wubi, access by access: engines are *)
(* constructed and destroyed, keys query the table and the menu switches   *)
(* it, all on the GLib main loop, while detached threads load tables and   *)
(* install them.  Nothing locks anything.  A step is one access to memory  *)
(* that the main loop and the threads share.                               *)
(*                                                                         *)
(* This is the part of Engine.tla that its actions Reload, LoaderReads and *)
(* LoaderInstalls take in large steps, with the life of the engines added. *)
(***************************************************************************)
EXTENDS Naturals, FiniteSets

CONSTANTS
  Engines,      \* IBus's engine objects, each constructed at most once
  WubiTables,   \* paths of the wubi tables
  Wubi86,       \* wubi86DictPath
  Empty,        \* the contents of a table built from a path that is no file
  None,         \* NULL, or no choice: the empty path
  Loaders,      \* bound of the model: loader threads alive at once
  Objects       \* bound of the model: addresses of table objects

ASSUME TablesAssumption ==
  /\ Wubi86 \in WubiTables
  /\ Empty \notin WubiTables
  /\ None \notin WubiTables \cup Objects \cup Engines \cup {Empty}
  /\ IsFiniteSet(Loaders)

VARIABLES
  engine,    \* engine[e]: "absent", "alive" or "destroyed"
  choice,    \* m_options->wubi_table
  wubi,      \* s_wubi
  heap,      \* heap[o]: the contents of a live table, or None
  main,      \* where the main loop is in its handler
  loader,    \* where each loader thread is
  crashed    \* the process has died

vars == <<engine, choice, wubi, heap, main, loader, crashed>>

Contents == WubiTables \cup {Empty}

(* A thread of control: its place, the engine it works for, the table it   *)
(* holds a pointer to, and the choice it is assigning.                     *)
At(place, e, o, t) == [at |-> place, engine |-> e, object |-> o, choice |-> t]
Idle == At("idle", None, None, None)

MainAt(place) == main.at = place
Goto(place) == main' = [main EXCEPT !.at = place]

(* An object nobody points to: free, or leaked and never touched again.    *)
Fresh == {o \in Objects \ {wubi, main.object} : \A l \in Loaders : loader[l].object # o}

----------------------------------------------------------------------------
(* The main loop.                                                          *)

(* Engine::Engine(): if there is no table, the 86 table is loaded.         *)
Construct(e) ==
  /\ MainAt("idle") /\ engine[e] = "absent"
  /\ IF wubi # None
       THEN engine' = [engine EXCEPT ![e] = "alive"] /\ UNCHANGED <<main, heap>>
       ELSE \E o \in Fresh :
              /\ heap' = [heap EXCEPT ![o] = Wubi86]
              /\ main' = At("constructing", e, o, None)
              /\ UNCHANGED engine
  /\ UNCHANGED <<choice, wubi, loader, crashed>>

ConstructorInstalls ==
  /\ MainAt("constructing")
  /\ wubi' = main.object
  /\ engine' = [engine EXCEPT ![main.engine] = "alive"]
  /\ main' = Idle
  /\ UNCHANGED <<choice, heap, loader, crashed>>

(* ibus_fun_engine_destroy(), when IBus destroys the object.               *)
Destroy(e) ==
  /\ MainAt("idle") /\ engine[e] = "alive"
  /\ engine' = [engine EXCEPT ![e] = "destroyed"]
  /\ UNCHANGED <<choice, wubi, heap, main, loader, crashed>>

(* OnPropertyActivate: the choice t is assigned ...                        *)
Choose(e, t) ==
  /\ MainAt("idle") /\ engine[e] = "alive" /\ t # choice
  /\ \E l \in Loaders : loader[l] = Idle
  /\ main' = At("assigning", e, None, t)
  /\ UNCHANGED <<engine, choice, wubi, heap, loader, crashed>>

Assigned ==
  /\ MainAt("assigning") /\ Goto("switching")
  /\ choice' = main.choice
  /\ UNCHANGED <<engine, wubi, heap, loader, crashed>>

(* ... and SwitchWubi() reads the pointer, clears it, deletes the table    *)
(* and spawns a loader.                                                    *)
SwitchReads ==
  /\ MainAt("switching")
  /\ main' = [main EXCEPT !.at = "clearing", !.object = wubi]
  /\ UNCHANGED <<engine, choice, wubi, heap, loader, crashed>>

(* Mutant of SwitchClears: the pointer is left to the deleted table.       *)
SwitchKeeps ==
  /\ MainAt("clearing") /\ Goto("deleting")
  /\ UNCHANGED <<engine, choice, wubi, heap, loader, crashed>>

SwitchClears ==
  /\ MainAt("clearing") /\ Goto("deleting")
  /\ wubi' = None
  /\ UNCHANGED <<engine, choice, heap, loader, crashed>>

SwitchDeletes ==
  /\ MainAt("deleting")
  /\ heap' = [o \in Objects |-> IF o = main.object THEN None ELSE heap[o]]
  /\ main' = [main EXCEPT !.at = "spawning", !.object = None]
  /\ UNCHANGED <<engine, choice, wubi, loader, crashed>>

(* Mutant of SwitchSpawns: a loader still running is taken to do the load. *)
SwitchSpawnsOnce ==
  /\ MainAt("spawning")
  /\ IF \E l \in Loaders : loader[l] # Idle
       THEN UNCHANGED loader
       ELSE \E l \in Loaders :
              loader' = [loader EXCEPT ![l] = At("spawned", main.engine, None, None)]
  /\ main' = Idle
  /\ UNCHANGED <<engine, choice, wubi, heap, crashed>>

SwitchSpawns ==
  /\ MainAt("spawning")
  /\ \E l \in Loaders :
       /\ loader[l] = Idle
       /\ loader' = [loader EXCEPT ![l] = At("spawned", main.engine, None, None)]
  /\ main' = Idle
  /\ UNCHANGED <<engine, choice, wubi, heap, crashed>>

(* Mutant of QueryTests: it trusts a choice to be installed.               *)
QueryTrusts ==
  /\ MainAt("idle") /\ \E e \in Engines : engine[e] = "alive"
  /\ choice # None
  /\ Goto("querying")
  /\ UNCHANGED <<engine, choice, wubi, heap, loader, crashed>>

(* WubiPinyinQuery(), if a table is chosen, and candidateSelected() in any *)
(* case: s_wubi is tested, read again and what it points to is traversed.  *)
QueryTests ==
  /\ MainAt("idle") /\ \E e \in Engines : engine[e] = "alive"
  /\ wubi # None
  /\ Goto("querying")
  /\ UNCHANGED <<engine, choice, wubi, heap, loader, crashed>>

QueryReads ==
  /\ MainAt("querying")
  /\ main' = [main EXCEPT !.at = "traversing", !.object = wubi]
  /\ UNCHANGED <<engine, choice, wubi, heap, loader, crashed>>

QueryEnds ==
  /\ MainAt("traversing")
  /\ main' = Idle
  /\ UNCHANGED <<engine, choice, wubi, heap, loader, crashed>>

----------------------------------------------------------------------------
(* A loader thread.                                                        *)

LoaderAt(l, place) == loader[l].at = place
LoaderGoto(l, place) == loader' = [loader EXCEPT ![l].at = place]

(* It takes a reference to the engine.                                     *)
LoaderRefers(l) ==
  /\ LoaderAt(l, "spawned") /\ LoaderGoto(l, "referring")
  /\ UNCHANGED <<engine, choice, wubi, heap, main, crashed>>

(* What a thread can read in wubi_table: while it is assigned, the old or  *)
(* the new path.                                                           *)
Readable == {choice} \cup IF MainAt("assigning") THEN {main.choice} ELSE {}

(* Mutant of LoaderTests: the load is left to another thread still alive.  *)
LoaderDefers(l) ==
  /\ LoaderAt(l, "referring")
  /\ \E t \in Readable :
       LoaderGoto(l, IF t = None \/ \E k \in Loaders \ {l} : loader[k] # Idle
                       THEN "leaving" ELSE "loading")
  /\ UNCHANGED <<engine, choice, wubi, heap, main, crashed>>

(* It tests whether a table is chosen at all.                              *)
LoaderTests(l) ==
  /\ LoaderAt(l, "referring")
  /\ \E t \in Readable : LoaderGoto(l, IF t = None THEN "leaving" ELSE "loading")
  /\ UNCHANGED <<engine, choice, wubi, heap, main, crashed>>

(* It reads the path again and loads that table.  A path that has become   *)
(* empty, or that is read half assigned, is no file.                       *)
Loadable ==
  (Readable \ {None})
    \cup IF None \in Readable \/ MainAt("assigning") THEN {Empty} ELSE {}

LoaderLoads(l) ==
  /\ LoaderAt(l, "loading")
  /\ \E o \in Fresh, c \in Loadable :
       /\ heap' = [heap EXCEPT ![o] = c]
       /\ loader' = [loader EXCEPT ![l].at = "installing", ![l].object = o]
  /\ UNCHANGED <<engine, choice, wubi, main, crashed>>

(* Mutant of LoaderInstalls: it deletes the table it replaces.             *)
LoaderReplaces(l) ==
  /\ LoaderAt(l, "installing")
  /\ wubi' = loader[l].object
  /\ heap' = [o \in Objects |-> IF o = wubi THEN None ELSE heap[o]]
  /\ loader' = [loader EXCEPT ![l].at = "leaving", ![l].object = None]
  /\ UNCHANGED <<engine, choice, main, crashed>>

(* It installs the table; a table installed meanwhile is leaked.           *)
LoaderInstalls(l) ==
  /\ LoaderAt(l, "installing")
  /\ wubi' = loader[l].object
  /\ loader' = [loader EXCEPT ![l].at = "leaving", ![l].object = None]
  /\ UNCHANGED <<engine, choice, heap, main, crashed>>

(* It logs the choice, gives the reference back and ends.                  *)
LoaderLeaves(l) ==
  /\ LoaderAt(l, "leaving")
  /\ loader' = [loader EXCEPT ![l] = Idle]
  /\ UNCHANGED <<engine, choice, wubi, heap, main, crashed>>

(* All but the installation goes through the captured engine: undefined    *)
(* once it is destroyed, as is copying the path while it is assigned.      *)
LoaderCrashes(l) ==
  /\ \/ /\ loader[l].at \in {"spawned", "referring", "loading", "leaving"}
        /\ engine[loader[l].engine] = "destroyed"
     \/ LoaderAt(l, "loading") /\ MainAt("assigning")
  /\ crashed' = TRUE
  /\ UNCHANGED <<engine, choice, wubi, heap, main, loader>>

----------------------------------------------------------------------------
(* The first engine has been constructed, and has loaded the 86 table.     *)
Init ==
  /\ \E e \in Engines : engine = [d \in Engines |-> IF d = e THEN "alive" ELSE "absent"]
  /\ choice \in WubiTables \cup {None}
  /\ \E o \in Objects :
       wubi = o /\ heap = [p \in Objects |-> IF p = o THEN Wubi86 ELSE None]
  /\ main = Idle
  /\ loader = [l \in Loaders |-> Idle]
  /\ crashed = FALSE

Handler ==   \* the main loop goes on with the handler it is in
  \/ ConstructorInstalls
  \/ Assigned \/ SwitchReads \/ SwitchClears \/ SwitchDeletes \/ SwitchSpawns
  \/ QueryReads \/ QueryEnds

Call ==      \* IBus calls a handler
  \/ \E e \in Engines :
       \/ Construct(e) \/ Destroy(e)
       \/ \E t \in WubiTables \cup {None} : Choose(e, t)
  \/ QueryTests

Loader(l) ==
  LoaderRefers(l) \/ LoaderTests(l) \/ LoaderLoads(l) \/ LoaderInstalls(l) \/ LoaderLeaves(l)

Next ==
  /\ ~crashed
  /\ \/ Handler \/ Call
     \/ \E l \in Loaders : Loader(l) \/ LoaderCrashes(l)

(* The main loop finishes its handlers and every thread runs on; IBus need *)
(* not call anything.                                                      *)
Fairness ==
  /\ WF_vars(~crashed /\ Handler)
  /\ \A l \in Loaders : WF_vars(~crashed /\ Loader(l))

Spec == Init /\ [][Next]_vars /\ Fairness

----------------------------------------------------------------------------
(* Correctness.                                                            *)

Places == {"idle", "constructing", "assigning", "switching", "clearing", "deleting",
           "spawning", "querying", "traversing"}
LoaderPlaces == {"idle", "spawned", "referring", "loading", "installing", "leaving"}

Threads(places) ==
  [at : places, engine : Engines \cup {None}, object : Objects \cup {None},
   choice : WubiTables \cup {None}]

(* Every variable has a value of its kind; a loader holds a table just     *)
(* before it installs it, the constructor and a query while they use it.   *)
TypeOK ==
  /\ engine \in [Engines -> {"absent", "alive", "destroyed"}]
  /\ choice \in WubiTables \cup {None}
  /\ wubi \in Objects \cup {None}
  /\ heap \in [Objects -> Contents \cup {None}]
  /\ main \in Threads(Places)
  /\ loader \in [Loaders -> Threads(LoaderPlaces)]
  /\ crashed \in BOOLEAN
  /\ main.at \in {"constructing", "traversing"} => main.object \in Objects
  /\ \A l \in Loaders : LoaderAt(l, "installing") <=> loader[l].object \in Objects

(* No lock guards s_wubi, yet a query never follows a dangling or a NULL   *)
(* pointer: what it tested is still there when it reads the pointer again, *)
(* and the table it traverses stays alive until it ends.                   *)
QuerySafe ==
  /\ MainAt("querying") => wubi # None /\ heap[wubi] # None
  /\ MainAt("traversing") => heap[main.object] # None

(* s_wubi never points to a deleted table, and no table is deleted twice.  *)
NeverDangling ==
  /\ wubi # None => heap[wubi] # None
  /\ MainAt("deleting") /\ main.object # None => heap[main.object] # None

(* The promise of TableSlot.  A switch counts from its first assignment:   *)
(* what is installed until the pointer is cleared is as good as gone, and  *)
(* the loader it will spawn is a load to be done.                          *)
Unspawned == {"assigning", "switching", "clearing", "deleting", "spawning"}
ToBeCleared == {"assigning", "switching", "clearing"}
Loading == {l \in Loaders : loader[l].at \in {"spawned", "referring", "loading", "installing"}}

Chosen == IF MainAt("assigning") THEN main.choice ELSE choice
Installed == IF wubi = None \/ main.at \in ToBeCleared THEN None ELSE heap[wubi]
Outstanding == Cardinality(Loading) + (IF main.at \in Unspawned THEN 1 ELSE 0)

Slot == INSTANCE TableSlot WITH
  Tables <- Contents,
  Choices <- WubiTables \cup {None},
  Default <- Wubi86,
  chosen <- Chosen,
  installed <- Installed,
  loading <- Outstanding

KeepsSlot == Slot!Spec

(* While a table is chosen, one is installed or a loader is on its way.    *)
NeverForgotten == Slot!NeverForgotten

(* So there are wubi words again after every switch.                       *)
ChosenIsInstalled ==
  choice # None ~> wubi # None \/ choice = None \/ crashed

(* Engine.cpp:332, in the thread: "keep engine not destructed".  The       *)
(* engine a loader works for is not destructed before the loader ends.     *)
EngineKept ==
  \A l \in Loaders : loader[l] # Idle => engine[loader[l].engine] # "destroyed"
=============================================================================
