---------------------------- MODULE TablesProofs ----------------------------
(***************************************************************************)
(* The installed wubi table is safe without a lock, and is never forgotten,*)
(* for any number of engines, tables, loader threads and table objects.    *)
(*                                                                         *)
(* The argument is ownership.  A table is deleted only by the main loop,   *)
(* and only after s_wubi has left it; a table a loader has built is known  *)
(* to nobody else until it is installed.  So no two places that may be     *)
(* used or deleted hold the same table.                                    *)
(***************************************************************************)
EXTENDS Tables, FiniteSetTheorems, TLAPS

(* Whose pointers are the same, and what they point to.                    *)
Owned ==
  /\ wubi # None => heap[wubi] \in Contents
  /\ \A l \in Loaders : loader[l].object # None =>
       /\ heap[loader[l].object] \in Contents
       /\ loader[l].object # wubi
       /\ loader[l].object # main.object
       /\ \A k \in Loaders : k # l => loader[k].object # loader[l].object
  /\ main.object # None =>
       /\ heap[main.object] \in Contents
       /\ main.at \in {"constructing", "deleting"} => wubi # main.object
  /\ MainAt("constructing") => heap[main.object] = Wubi86
  /\ MainAt("querying") => wubi # None

(* A chosen table that is not there is being brought.                      *)
Kept == Chosen # None /\ Installed = None => Loading # {} \/ main.at \in Unspawned

IInv == TypeOK /\ Owned /\ Kept

LEMMA InitIInv == Init => IInv
  <1> SUFFICES ASSUME Init PROVE IInv
    OBVIOUS
  <1> USE TablesAssumption
  <1>1. TypeOK
    BY DEF Init, TypeOK, Contents, Idle, At, Threads, Places, LoaderPlaces, LoaderAt
  <1>2. Owned
    BY DEF Init, Owned, Contents, Idle, At, MainAt
  <1>3. Kept
    BY DEF Init, Kept, Chosen, Installed, Contents, Idle, At, MainAt, ToBeCleared
  <1> QED
    BY <1>1, <1>2, <1>3 DEF IInv

(***************************************************************************)
(* Types.                                                                  *)
(***************************************************************************)
LEMMA TypeStep == ASSUME TypeOK, Owned, Next PROVE TypeOK'
  <1> USE TablesAssumption DEF TypeOK, Contents, Threads, At, Idle, MainAt, LoaderAt,
                               Goto, LoaderGoto, Fresh
  <1>1. CASE Handler
    <2>1. CASE ConstructorInstalls
      BY <2>1 DEF ConstructorInstalls, Places
    <2>2. CASE Assigned
      BY <2>2 DEF Assigned, Places
    <2>3. CASE SwitchReads
      BY <2>3 DEF SwitchReads, Places
    <2>4. CASE SwitchClears
      BY <2>4 DEF SwitchClears, Places
    <2>5. CASE SwitchDeletes
      BY <2>5 DEF SwitchDeletes, Places
    <2>6. CASE SwitchSpawns
      BY <2>6 DEF SwitchSpawns, Places, LoaderPlaces
    <2>7. CASE QueryReads
      BY <2>7 DEF QueryReads, Places, Owned
    <2>8. CASE QueryEnds
      BY <2>8 DEF QueryEnds, Places
    <2> QED
      BY <1>1, <2>1, <2>2, <2>3, <2>4, <2>5, <2>6, <2>7, <2>8 DEF Handler
  <1>2. CASE Call
    BY <1>2 DEF Call, Construct, Destroy, Choose, QueryTests, Places, LoaderPlaces
  <1>3. ASSUME NEW l \in Loaders, Loader(l) PROVE TypeOK'
    BY <1>3 DEF Loader, LoaderRefers, LoaderTests, LoaderLoads, LoaderInstalls,
                LoaderLeaves, LoaderPlaces, Readable, Loadable
  <1>4. ASSUME NEW l \in Loaders, LoaderCrashes(l) PROVE TypeOK'
    BY <1>4 DEF LoaderCrashes
  <1> QED
    BY <1>1, <1>2, <1>3, <1>4 DEF Next

(***************************************************************************)
(* Ownership.                                                              *)
(***************************************************************************)
LEMMA OwnedStep == ASSUME TypeOK, Owned, Next PROVE Owned'
  <1> USE TablesAssumption DEF TypeOK, Owned, Contents, Threads, At, Idle, MainAt,
                               LoaderAt, Goto, LoaderGoto, Fresh
  <1>1. ASSUME NEW e \in Engines, Construct(e) PROVE Owned'
    BY <1>1 DEF Construct, Places
  <1>2. CASE ConstructorInstalls
    BY <1>2 DEF ConstructorInstalls, Places
  <1>3. CASE \E e \in Engines : Destroy(e)
    BY <1>3 DEF Destroy
  <1>4. CASE \E e \in Engines, t \in WubiTables \cup {None} : Choose(e, t)
    BY <1>4 DEF Choose
  <1>5. CASE Assigned
    BY <1>5 DEF Assigned
  <1>6. CASE SwitchReads
    BY <1>6 DEF SwitchReads
  <1>7. CASE SwitchClears
    BY <1>7 DEF SwitchClears
  <1>8. CASE SwitchDeletes
    BY <1>8 DEF SwitchDeletes
  <1>9. CASE SwitchSpawns
    BY <1>9 DEF SwitchSpawns
  <1>10. CASE QueryTests \/ QueryReads \/ QueryEnds
    <2>1. CASE QueryTests
      BY <2>1 DEF QueryTests
    <2>2. CASE QueryReads
      BY <2>2 DEF QueryReads
    <2>3. CASE QueryEnds
      BY <2>3 DEF QueryEnds
    <2> QED
      BY <1>10, <2>1, <2>2, <2>3
  <1>11. ASSUME NEW l \in Loaders, LoaderRefers(l) \/ LoaderTests(l) \/ LoaderLeaves(l)
                                   \/ LoaderCrashes(l)
         PROVE Owned'
    BY <1>11 DEF LoaderRefers, LoaderTests, LoaderLeaves, LoaderCrashes
  <1>12. ASSUME NEW l \in Loaders, LoaderLoads(l) PROVE Owned'
    BY <1>12 DEF LoaderLoads, Loadable, Readable
  <1>13. ASSUME NEW l \in Loaders, LoaderInstalls(l) PROVE Owned'
    BY <1>13 DEF LoaderInstalls
  <1> QED
    BY <1>1, <1>2, <1>3, <1>4, <1>5, <1>6, <1>7, <1>8, <1>9, <1>10, <1>11, <1>12, <1>13
       DEF Next, Handler, Call, Loader

(***************************************************************************)
(* A load to be done.                                                      *)
(***************************************************************************)
LEMMA KeptStep == ASSUME TypeOK, Owned, Kept, Next PROVE Kept'
  <1> USE TablesAssumption DEF TypeOK, Kept, Chosen, Installed, Loading, Unspawned, ToBeCleared,
                               Threads, At, Idle, MainAt, LoaderAt, Goto, LoaderGoto
  <1>1. CASE Handler
    <2>1. CASE ConstructorInstalls
      BY <2>1 DEF ConstructorInstalls, Owned, Contents
    <2>2. CASE Assigned \/ SwitchReads \/ SwitchClears \/ SwitchDeletes
      BY <2>2 DEF Assigned, SwitchReads, SwitchClears, SwitchDeletes
    <2>3. CASE SwitchSpawns
      BY <2>3 DEF SwitchSpawns
    <2>4. CASE QueryReads \/ QueryEnds
      BY <2>4 DEF QueryReads, QueryEnds
    <2> QED
      BY <1>1, <2>1, <2>2, <2>3, <2>4 DEF Handler
  <1>2. CASE Call
    BY <1>2 DEF Call, Construct, Destroy, Choose, QueryTests
  <1>3. ASSUME NEW l \in Loaders, Loader(l) PROVE Kept'
    <2>1. CASE LoaderRefers(l) \/ LoaderLeaves(l)
      BY <2>1 DEF LoaderRefers, LoaderLeaves
    <2>2. CASE LoaderTests(l)
      BY <2>2 DEF LoaderTests, Readable
    <2>3. CASE LoaderLoads(l)
      BY <2>3 DEF LoaderLoads
    <2>4. CASE LoaderInstalls(l)
      BY <2>4 DEF LoaderInstalls
    <2> QED
      BY <1>3, <2>1, <2>2, <2>3, <2>4 DEF Loader
  <1>4. CASE \E l \in Loaders : LoaderCrashes(l)
    BY <1>4 DEF LoaderCrashes
  <1> QED
    BY <1>1, <1>2, <1>3, <1>4 DEF Next

LEMMA StepIInv == IInv /\ [Next]_vars => IInv'
  <1>1. CASE Next
    BY <1>1, TypeStep, OwnedStep, KeptStep DEF IInv
  <1>2. CASE UNCHANGED vars
    BY <1>2 DEF vars, IInv, TypeOK, Owned, Kept, Chosen, Installed, Loading, MainAt, LoaderAt
  <1> QED
    BY <1>1, <1>2

(* The inductive invariant holds in every reachable state.                 *)
THEOREM AlwaysIInv == Spec => []IInv
  BY InitIInv, StepIInv, PTL DEF Spec

(* Every variable keeps to its kind.                                       *)
THEOREM TypeCorrect == Spec => []TypeOK
  BY AlwaysIInv, PTL DEF IInv

(* A query between the test of s_wubi and the end of its traversal (the    *)
(* key handler and candidateSelected) never follows a NULL or a deleted    *)
(* pointer, whatever loaders install meanwhile.                            *)
THEOREM QueryAlwaysSafe == Spec => []QuerySafe
  <1>1. IInv => QuerySafe
    BY TablesAssumption DEF IInv, Owned, TypeOK, QuerySafe, Contents, MainAt
  <1> QED
    BY <1>1, AlwaysIInv, PTL

(* s_wubi never points to a deleted table, and SwitchWubi never deletes a  *)
(* table that is gone already.                                             *)
THEOREM WubiNeverDangles == Spec => []NeverDangling
  <1>1. IInv => NeverDangling
    BY TablesAssumption DEF IInv, Owned, NeverDangling, Contents, MainAt
  <1> QED
    BY <1>1, AlwaysIInv, PTL

(***************************************************************************)
(* The promise of TableSlot.                                               *)
(***************************************************************************)

(* The loads to be done are counted.                                       *)
LEMMA LoadingIsFinite == IsFiniteSet(Loading) /\ Cardinality(Loading) \in Nat
  <1>1. Loading \subseteq Loaders
    BY DEF Loading
  <1> QED
    BY <1>1, TablesAssumption, FS_Subset, FS_CardinalityType

LEMMA SomeOutstanding ==
  Outstanding \in Nat /\ (Outstanding > 0 <=> Loading # {} \/ main.at \in Unspawned)
  BY LoadingIsFinite, FS_EmptySet DEF Outstanding

(* A loader begins or ends.                                                *)
LEMMA LoaderBegins ==
  ASSUME NEW l \in Loaders, l \notin Loading, Loading' = Loading \cup {l}
  PROVE  Cardinality(Loading') = Cardinality(Loading) + 1
  BY LoadingIsFinite, FS_AddElement

LEMMA LoaderEnds ==
  ASSUME NEW l \in Loading, Loading' = Loading \ {l}
  PROVE  Cardinality(Loading) > 0 /\ Cardinality(Loading') = Cardinality(Loading) - 1
  <1>1. Cardinality(Loading') = Cardinality(Loading) - 1 /\ Cardinality(Loading) # 0
    BY LoadingIsFinite, FS_RemoveElement, FS_EmptySet
  <1> QED
    BY <1>1, LoadingIsFinite

(* While a table is chosen, one is installed or a loader is on its way.    *)
THEOREM TableNeverForgotten == Spec => []NeverForgotten
  <1>1. IInv => NeverForgotten
    BY SomeOutstanding DEF IInv, Kept, NeverForgotten, Slot!NeverForgotten
  <1> QED
    BY <1>1, AlwaysIInv, PTL

LEMMA InitIsSlotInit == Init => Slot!Init
  <1> SUFFICES ASSUME Init PROVE Slot!Init
    OBVIOUS
  <1>1. Loading = {} /\ main.at = "idle"
    BY DEF Init, Loading, Idle, At
  <1>2. Outstanding = 0
    BY <1>1, FS_EmptySet DEF Outstanding, Unspawned
  <1>3. Installed = Wubi86 /\ Chosen \in WubiTables \cup {None}
    BY <1>1, TablesAssumption DEF Init, Installed, ToBeCleared, Chosen, MainAt
  <1> QED
    BY <1>2, <1>3 DEF Slot!Init

(* A step that neither takes, brings nor counts anything.                  *)
LEMMA Stutters ==
  ASSUME Chosen' = Chosen, Installed' = Installed, Loading' = Loading,
         main'.at \in Unspawned <=> main.at \in Unspawned
  PROVE  UNCHANGED <<Chosen, Installed, Outstanding>>
  BY DEF Outstanding

LEMMA MainStep ==
  ASSUME IInv, IInv', Handler \/ Call
  PROVE  Slot!Next \/ UNCHANGED <<Chosen, Installed, Outstanding>>
  <1> USE TablesAssumption DEF IInv, TypeOK, Threads, At, Idle, MainAt, Goto, Chosen, Installed,
                               Unspawned, ToBeCleared
  <1>1. CASE ConstructorInstalls
    <2>1. Loading' = Loading /\ Installed' = Wubi86
      BY <1>1 DEF ConstructorInstalls, Loading, Owned
    <2> QED
      BY <1>1, <2>1 DEF ConstructorInstalls, Outstanding, Slot!Next, Slot!Preload
  <1>2. CASE Assigned \/ SwitchReads \/ SwitchClears
    <2>1. CASE Assigned
      BY <2>1, Stutters DEF Assigned, Loading
    <2>2. CASE SwitchReads
      BY <2>2, Stutters DEF SwitchReads, Loading
    <2>3. CASE SwitchClears
      BY <2>3, Stutters DEF SwitchClears, Loading
    <2> QED
      BY ONLY <1>2, <2>1, <2>2, <2>3
  <1>3. CASE SwitchDeletes
    BY <1>3, Stutters DEF SwitchDeletes, Loading, Owned
  <1>4. CASE SwitchSpawns
    <2>1. PICK l \in Loaders :
            loader[l] = Idle
            /\ loader' = [loader EXCEPT ![l] = At("spawned", main.engine, None, None)]
      BY <1>4 DEF SwitchSpawns
    <2>2. l \notin Loading /\ Loading' = Loading \cup {l}
      BY <2>1 DEF Loading
    <2>3. Outstanding' = Outstanding
      <3>1. Cardinality(Loading') = Cardinality(Loading) + 1
        BY <2>2, LoaderBegins
      <3>2. main.at = "spawning" /\ main'.at = "idle"
        BY <1>4 DEF SwitchSpawns
      <3> QED
        BY <3>1, <3>2, LoadingIsFinite DEF Outstanding
    <2> QED
      BY <1>4, <2>3 DEF SwitchSpawns
  <1>5. CASE QueryTests \/ QueryReads \/ QueryEnds
    <2>1. CASE QueryTests
      BY <2>1, Stutters DEF QueryTests, Loading
    <2>2. CASE QueryReads
      BY <2>2, Stutters DEF QueryReads, Loading
    <2>3. CASE QueryEnds
      BY <2>3, Stutters DEF QueryEnds, Loading
    <2> QED
      BY <1>5, <2>1, <2>2, <2>3
  <1>6. ASSUME NEW e \in Engines, Construct(e)
        PROVE  UNCHANGED <<Chosen, Installed, Outstanding>>
    BY <1>6, Stutters DEF Construct, Loading
  <1>7. ASSUME NEW e \in Engines, Destroy(e)
        PROVE  UNCHANGED <<Chosen, Installed, Outstanding>>
    BY <1>7, Stutters DEF Destroy, Loading
  <1>8. ASSUME NEW e \in Engines, NEW t \in WubiTables \cup {None}, Choose(e, t)
        PROVE  Slot!Next
    <2>1. Loading' = Loading /\ Outstanding' = Outstanding + 1
      BY <1>8, LoadingIsFinite DEF Choose, Loading, Outstanding
    <2>2. Chosen' = t /\ t # Chosen /\ Installed' = None
      BY <1>8 DEF Choose
    <2> QED
      BY <2>1, <2>2 DEF Slot!Next, Slot!Switch
  <1> QED
    BY <1>1, <1>2, <1>3, <1>4, <1>5, <1>6, <1>7, <1>8 DEF Handler, Call

LEMMA LoaderStep ==
  ASSUME IInv, IInv', NEW l \in Loaders, Loader(l)
  PROVE  Slot!Next \/ UNCHANGED <<Chosen, Installed, Outstanding>>
  <1> USE TablesAssumption DEF IInv, TypeOK, Threads, At, Idle, MainAt, LoaderAt, LoaderGoto
  <1>1. CASE LoaderRefers(l)
    BY <1>1, Stutters DEF LoaderRefers, Loading, Chosen, Installed
  <1>2. CASE LoaderTests(l)
    <2>1. UNCHANGED <<Chosen, Installed, main>>
      BY <1>2 DEF LoaderTests, Chosen, Installed
    <2>2. CASE loader'[l].at = "loading"
      BY <1>2, <2>1, <2>2, Stutters DEF LoaderTests, Loading
    <2>3. CASE loader'[l].at = "leaving"
      <3>1. l \in Loading /\ Loading' = Loading \ {l}
        BY <1>2, <2>3 DEF LoaderTests, Loading
      <3>2. Outstanding > 0 /\ Outstanding' = Outstanding - 1
        <4>1. /\ Cardinality(Loading) > 0
              /\ Cardinality(Loading') = Cardinality(Loading) - 1
          BY <3>1, LoaderEnds
        <4> QED
          BY <2>1, <4>1, LoadingIsFinite DEF Outstanding
      <3>3. Chosen = None \/ Outstanding > 1
        <4>1. CASE MainAt("assigning")
          BY <3>1, <4>1, LoaderEnds, LoadingIsFinite DEF Outstanding, Unspawned
        <4>2. CASE ~MainAt("assigning")
          BY <1>2, <2>3, <4>2 DEF LoaderTests, Readable, Chosen
        <4> QED
          BY <4>1, <4>2
      <3> QED
        BY <2>1, <3>2, <3>3 DEF Slot!Next, Slot!GiveUp, Slot!Lose
    <2> QED
      BY <1>2, <2>2, <2>3 DEF LoaderTests
  <1>3. CASE LoaderLoads(l)
    <2>1. Installed' = Installed
      BY <1>3 DEF LoaderLoads, Installed, Fresh
    <2>2. Loading' = Loading /\ Chosen' = Chosen
      BY <1>3 DEF LoaderLoads, Loading, Chosen
    <2> QED
      BY <1>3, <2>1, <2>2, Stutters DEF LoaderLoads
  <1>4. CASE LoaderInstalls(l)
    <2>1. l \in Loading /\ Loading' = Loading \ {l}
      BY <1>4 DEF LoaderInstalls, Loading
    <2>2. Outstanding > 0 /\ Outstanding' = Outstanding - 1 /\ Chosen' = Chosen
      BY <1>4, <2>1, LoaderEnds, LoadingIsFinite DEF LoaderInstalls, Outstanding, Chosen
    <2>3. CASE main.at \in ToBeCleared
      <3>1. Outstanding > 1 /\ Installed' = Installed
        BY <1>4, <2>1, <2>3, LoaderEnds, LoadingIsFinite
           DEF LoaderInstalls, Outstanding, Installed, ToBeCleared, Unspawned
      <3> QED
        BY <2>2, <3>1 DEF Slot!Next, Slot!Lose
    <2>4. CASE main.at \notin ToBeCleared
      <3>1. Installed' \in Contents
        BY <1>4, <2>4 DEF LoaderInstalls, Installed, Owned
      <3> QED
        BY <2>2, <3>1 DEF Slot!Next, Slot!Install
    <2> QED
      BY <2>3, <2>4
  <1>5. CASE LoaderLeaves(l)
    BY <1>5, Stutters DEF LoaderLeaves, Loading, Chosen, Installed
  <1> QED
    BY <1>1, <1>2, <1>3, <1>4, <1>5 DEF Loader

LEMMA StepKeepsSlot ==
  ASSUME IInv, IInv', [Next]_vars
  PROVE  [Slot!Next]_<<Chosen, Installed, Outstanding>>
  <1>1. CASE UNCHANGED vars
    BY <1>1 DEF vars, Chosen, Installed, Outstanding, Loading, MainAt
  <1>2. CASE Next
    <2>1. ASSUME NEW l \in Loaders, LoaderCrashes(l)
          PROVE  UNCHANGED <<Chosen, Installed, Outstanding>>
      BY <2>1 DEF LoaderCrashes, Chosen, Installed, Outstanding, Loading, MainAt
    <2> QED
      BY <1>2, <2>1, MainStep, LoaderStep DEF Next
  <1> QED
    BY <1>1, <1>2

(* Every access of every thread is a step of TableSlot or a stutter: the   *)
(* last load to be done is never given up while a table is chosen.         *)
THEOREM TablesKeepSlot == Spec => KeepsSlot
  BY InitIsSlotInit, StepKeepsSlot, AlwaysIInv, PTL DEF Spec, KeepsSlot, Slot!Spec
=============================================================================
