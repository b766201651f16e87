---------------------------- MODULE SetupProofs -----------------------------
(***************************************************************************)
(* The saved settings and the fast-input file, for any tables, ids, keys   *)
(* and commands, and any number of restarts: choices survive, the id       *)
(* arrives, and nothing half written is loaded.                            *)
(*                                                                         *)
(* The settings rest on what a restart would make of the saved texts, the  *)
(* id on the last notification under way, the file on where its rows come  *)
(* from.                                                                   *)
(***************************************************************************)
EXTENDS Setup, SequenceTheorems, FiniteSetTheorems, WellFoundedInduction, TLAPS

Saved == SavedTables \cup Ids \cup {"", "true", "false"}

SettingsTypes ==
  /\ conf \in [Names -> Saved \cup {Unset}]
  /\ opts \in [Names -> Saved] /\ chosen \in [Names -> Saved]
  /\ signals \in Seq(Saved)
  /\ process \in {"down", "starting", "up"}
  /\ faulted \in BOOLEAN /\ missed \in BOOLEAN
  /\ \A n \in Names : conf[n] \in Values(n) \cup {Unset}

(* A restart would bring the last choices back, and what runs has them.    *)
Survives ==
  ~faulted => \A n \in Names \ {"id"} :
    /\ Kept(n, conf[n]) = chosen[n]
    /\ process # "down" => opts[n] = chosen[n]

(* The last notification under way, or else the option, is the saved id.   *)
Follows ==
  /\ process = "starting" => signals = <<>>
  /\ process # "down" /\ ~faulted /\ ~missed =>
       conf["id"] = IF signals = <<>> THEN opts["id"] ELSE signals[Len(signals)]

(* What is in the file, and on its way there, is of keys that can be       *)
(* typed; a whole file and a loaded table were saved in full.              *)
Written ==
  /\ DOMAIN file.rows \subseteq Keys /\ DOMAIN saving.rows \subseteq Keys
  /\ file.kind = "whole" => file.rows \in versions
  /\ dict = NoMap \/ dict \in versions

IInv == SettingsTypes /\ Survives /\ Follows /\ Written

(***************************************************************************)
(* The texts.                                                              *)
(***************************************************************************)
LEMMA KeptIsValue ==
  ASSUME NEW n \in Names, NEW v \in Values(n) \cup {Unset}
  PROVE  /\ Kept(n, v) \in Values(n)
         /\ Kept(n, Kept(n, v)) = Kept(n, v)
  BY UnsetAssumption, EmptyAssumption DEF Kept, Default, Values, Names, Switches

LEMMA ValueIsKept == ASSUME NEW n \in Names, NEW v \in Values(n) PROVE Kept(n, v) = v
  BY UnsetAssumption, EmptyAssumption DEF Kept, Default, Values, Names, Switches

LEMMA ValueIsSaved == ASSUME NEW n \in Names PROVE Values(n) \subseteq Saved
  BY DEF Values, Names, Switches, Saved

(***************************************************************************)
(* The initial states.                                                     *)
(***************************************************************************)
LEMMA InitIInv == Init => IInv
  <1> SUFFICES ASSUME Init PROVE IInv
    OBVIOUS
  <1> USE DEF Init, SettingsInit, FastInputInit
  <1>1. SettingsTypes
    <2>1. \A n \in Names : Default(n) \in Saved /\ chosen[n] \in Saved
      BY KeptIsValue, ValueIsSaved DEF Default, Saved
    <2> QED
      BY <2>1, EmptySeq DEF SettingsTypes, Saved
  <1>2. Survives
    BY DEF Survives
  <1>3. Follows
    BY DEF Follows
  <1>4. Written
    <2>1. PICK m \in Maps : DOMAIN m \subseteq Keys /\ file = File("whole", m) /\ versions = {m}
      BY Zenon
    <2>2. file.kind = "whole" /\ file.rows = m
      BY <2>1 DEF File
    <2>3. DOMAIN saving.rows = {} /\ dict = NoMap
      BY DEF Idle, NoMap
    <2> QED
      BY <2>1, <2>2, <2>3 DEF Written
  <1> QED
    BY <1>1, <1>2, <1>3, <1>4 DEF IInv

(***************************************************************************)
(* The settings.  Only a failed write, or a failed read, comes between a   *)
(* choice and what the next start makes of the saved text.                 *)
(***************************************************************************)
Actions ==
  \/ \E lost, failed \in Faults : Reads(lost, failed)
  \/ Watches \/ ValueChanged \/ Dies
  \/ \E n \in {"wubi", "pinyin", "fast"} : \E v \in Values(n) : Chooses(n, v)
  \/ \E v \in Values("id") : WritesId(v)

LEMMA StepOfSettings == Next => Actions \/ UNCHANGED settings
  BY DEF Next, Actions, Process

LEMMA TypesStep == ASSUME SettingsTypes, Actions PROVE SettingsTypes'
  <1> USE DEF SettingsTypes
  <1>1. ASSUME NEW lost, NEW failed, Reads(lost, failed) PROVE SettingsTypes'
    <2>1. \A n \in Names : /\ conf'[n] \in Values(n) \cup {Unset}
                           /\ conf'[n] \in Saved \cup {Unset} /\ opts'[n] \in Saved
      BY <1>1, KeptIsValue, ValueIsSaved DEF Reads, ReadAs
    <2>2. conf' = [n \in Names |-> conf'[n]] /\ opts' = [n \in Names |-> opts'[n]]
      BY <1>1 DEF Reads
    <2> QED
      BY <1>1, <2>1, <2>2, EmptySeq DEF Reads
  <1>2. CASE Watches \/ Dies
    BY <1>2, EmptySeq DEF Watches, Dies
  <1>3. CASE ValueChanged
    BY <1>3, HeadTailProperties DEF ValueChanged
  <1>4. ASSUME NEW n \in {"wubi", "pinyin", "fast"}, NEW v \in Values(n), Chooses(n, v)
        PROVE  SettingsTypes'
    BY <1>4, ValueIsSaved DEF Chooses, Names, Switches
  <1>5. ASSUME NEW v \in Values("id"), WritesId(v) PROVE SettingsTypes'
    <2>1. v \in Saved
      BY ValueIsSaved DEF Names
    <2> QED
      BY <1>5, <2>1, AppendProperties DEF WritesId, Names, Switches
  <1> QED
    BY <1>1, <1>2, <1>3, <1>4, <1>5 DEF Actions

LEMMA SurvivesStep == ASSUME SettingsTypes, Survives, Actions PROVE Survives'
  <1> USE DEF Survives
  <1>1. ASSUME NEW lost, NEW failed, Reads(lost, failed) PROVE Survives'
    <2> SUFFICES ASSUME ~faulted', NEW n \in Names \ {"id"}
                 PROVE  /\ Kept(n, conf'[n]) = chosen'[n]
                        /\ opts'[n] = chosen'[n]
      OBVIOUS
    <2>1. lost = {} /\ failed = {} /\ ~faulted
      BY <1>1 DEF Reads
    <2>2. conf'[n] = Kept(n, conf[n]) /\ opts'[n] = Kept(n, conf[n]) /\ chosen' = chosen
      BY <1>1, <2>1 DEF Reads, ReadAs
    <2> QED
      BY <2>1, <2>2, KeptIsValue DEF SettingsTypes
  <1>2. CASE Watches \/ ValueChanged \/ Dies
    BY <1>2 DEF Watches, ValueChanged, Dies, SettingsTypes
  <1>3. ASSUME NEW n \in {"wubi", "pinyin", "fast"}, NEW v \in Values(n), Chooses(n, v)
        PROVE  Survives'
    <2>1. n \in Names /\ Kept(n, v) = v
      BY ValueIsKept DEF Names, Switches
    <2> QED
      BY <1>3, <2>1 DEF Chooses, SettingsTypes
  <1>4. ASSUME NEW v \in Values("id"), WritesId(v) PROVE Survives'
    BY <1>4 DEF WritesId, SettingsTypes
  <1> QED
    BY <1>1, <1>2, <1>3, <1>4 DEF Actions

LEMMA FollowsStep == ASSUME SettingsTypes, Follows, Actions PROVE Follows'
  <1> USE DEF Follows
  <1>0. "id" \in Names
    BY DEF Names
  <1>1. ASSUME NEW lost, NEW failed, Reads(lost, failed) PROVE Follows'
    <2>1. ~faulted' => conf'["id"] = opts'["id"]
      BY <1>0, <1>1 DEF Reads, ReadAs
    <2> QED
      BY <1>1, <2>1 DEF Reads
  <1>2. CASE Watches \/ Dies
    BY <1>2 DEF Watches, Dies
  <1>3. CASE ValueChanged
    <2>1. CASE Tail(signals) = <<>>
      <3>1. Len(signals) \in Nat /\ Len(Tail(signals)) = Len(signals) - 1
        BY <1>3, LenProperties, HeadTailProperties DEF ValueChanged, SettingsTypes
      <3>2. Len(signals) = 1 /\ Head(signals) = signals[Len(signals)]
        <4>1. Len(signals) - 1 = 0
          BY <2>1, <3>1
        <4> QED
          BY <1>3, <3>1, <4>1, HeadTailProperties DEF ValueChanged, SettingsTypes
      <3> QED
        BY <1>0, <1>3, <2>1, <3>2 DEF ValueChanged, SettingsTypes
    <2>2. CASE Tail(signals) # <<>>
      <3>1. Tail(signals)[Len(Tail(signals))] = signals[Len(signals)]
        BY <1>3, <2>2, HeadTailProperties DEF ValueChanged, SettingsTypes
      <3> QED
        BY <1>3, <2>2, <3>1 DEF ValueChanged
    <2> QED
      BY <2>1, <2>2
  <1>4. ASSUME NEW n \in {"wubi", "pinyin", "fast"}, NEW v \in Values(n), Chooses(n, v)
        PROVE  Follows'
    <2>1. n \in Names /\ n # "id"
      BY <1>4 DEF Names, Switches
    <2>2. opts'["id"] = opts["id"] /\ conf'["id"] = conf["id"]
      BY <1>0, <1>4, <2>1 DEF Chooses, SettingsTypes
    <2>3. faulted \in BOOLEAN /\ (faulted' = faulted \/ faulted')
      BY <1>4 DEF Chooses, SettingsTypes
    <2>4. UNCHANGED <<process, signals, missed>>
      BY <1>4 DEF Chooses
    <2> QED
      BY <2>2, <2>3, <2>4
  <1>5. ASSUME NEW v \in Values("id"), WritesId(v) PROVE Follows'
    <2>1. v \in Saved
      BY ValueIsSaved DEF Names
    <2>2. Append(signals, v) # <<>> /\ Append(signals, v)[Len(Append(signals, v))] = v
      BY <2>1, AppendProperties DEF SettingsTypes
    <2> QED
      BY <1>0, <1>5, <2>2 DEF WritesId, SettingsTypes
  <1> QED
    BY <1>1, <1>2, <1>3, <1>4, <1>5 DEF Actions

(***************************************************************************)
(* The file.                                                               *)
(***************************************************************************)
LEMMA TableIsTypable == ASSUME NEW g, NEW is PROVE DOMAIN TableOf(g, is) \subseteq Keys
  BY DEF TableOf, Saveable

LEMMA WrittenStep == ASSUME Written, Next PROVE Written'
  <1> USE DEF Written
  <1>1. CASE Process /\ UNCHANGED fastInput
    BY <1>1 DEF fastInput
  <1>2. CASE Drops
    BY <1>2 DEF Drops
  <1>3. CASE EngineLoads
    BY <1>3 DEF EngineLoads, Loads, Load
  <1>4. CASE Window
    <2>1. CASE Removes
      <3>1. DOMAIN saving'.rows \subseteq Keys
        BY <2>1, TableIsTypable DEF Removes, Collected
      <3>2. file'.kind = "absent" /\ DOMAIN file'.rows = {}
        BY <2>1 DEF Removes, File, NoMap
      <3> QED
        BY <2>1, <3>1, <3>2 DEF Removes
    <2>2. CASE Opens
      <3>1. CASE saving' = [saving EXCEPT !.at = "opened"] /\ file' = File("torn", NoMap)
        BY <2>2, <3>1 DEF Opens, File, NoMap
      <3>2. CASE saving' = Idle /\ UNCHANGED file
        BY <2>2, <3>2 DEF Opens, Idle, NoMap
      <3> QED
        BY <2>2, <3>1, <3>2 DEF Opens
    <2>3. CASE Writes
      <3>1. DOMAIN saving'.rows = {} /\ dict' = dict
        BY <2>3 DEF Writes, Idle, NoMap
      <3>2. CASE file' = File("whole", saving.rows) /\ versions' = versions \cup {saving.rows}
        BY <3>1, <3>2 DEF File
      <3>3. ASSUME NEW k, file' = File("torn", Restricted(saving.rows, 1..k)), versions' = versions
            PROVE  Written'
        BY <3>1, <3>3 DEF File, Restricted
      <3> QED
        BY <2>3, <3>2, <3>3 DEF Writes
    <2>4. CASE Reopen
      BY <2>4 DEF Reopen, Idle, NoMap
    <2>5. CASE UNCHANGED <<file, saving, dict, versions>>
      BY <2>5
    <2> QED
      BY <1>4, <2>1, <2>2, <2>3, <2>4, <2>5 DEF Window, Edit, Delete, New, Clear, Import, Changed
  <1> QED
    BY <1>1, <1>2, <1>3, <1>4 DEF Next

LEMMA NextIInv == IInv /\ [Next]_vars => IInv'
  <1> SUFFICES ASSUME IInv, [Next]_vars PROVE IInv'
    OBVIOUS
  <1>1. ASSUME UNCHANGED vars PROVE IInv'
    <2>1. UNCHANGED settings /\ UNCHANGED fastInput
      BY <1>1 DEF vars
    <2>2. SettingsTypes' /\ Survives' /\ Follows'
      BY <2>1 DEF IInv, SettingsTypes, Survives, Follows, settings
    <2>3. Written'
      BY <2>1 DEF IInv, Written, fastInput
    <2> QED
      BY <2>2, <2>3 DEF IInv
  <1>2. CASE Next
    <2>1. SettingsTypes' /\ Survives' /\ Follows'
      <3>1. CASE Actions
        BY <3>1, TypesStep, SurvivesStep, FollowsStep DEF IInv
      <3>2. CASE UNCHANGED settings
        BY <3>2 DEF IInv, SettingsTypes, Survives, Follows, settings
      <3> QED
        BY <1>2, <3>1, <3>2, StepOfSettings
    <2> QED
      BY <1>2, <2>1, WrittenStep DEF IInv
  <1> QED
    BY <1>1, <1>2

LEMMA AlwaysIInv == Spec => []IInv
  BY InitIInv, NextIInv, PTL DEF Spec

(***************************************************************************)
(* Numbers: least and greatest elements, and the place of a key among the  *)
(* keys of a table.                                                        *)
(***************************************************************************)
LEMMA NatMin ==
  ASSUME NEW S, S \subseteq Nat, S # {}
  PROVE  \E n \in S : \A k \in S : n <= k
<1>1. PICK n \in S : \A k \in S : ~(<<k, n>> \in OpToRel(<, Nat))
  BY NatLessThanWellFounded, WFMin
<1>2. \A k \in S : ~(k < n)
  BY <1>1 DEF OpToRel
<1> QED BY <1>2

LEMMA MinIs ==
  ASSUME NEW S, S \subseteq Nat, S # {}
  PROVE  Min(S) \in S /\ \A k \in S : Min(S) <= k
BY NatMin DEF Min

LEMMA MaxIs ==
  ASSUME NEW S, S \subseteq Nat, S # {}, NEW b \in Nat, \A k \in S : k <= b
  PROVE  Max(S) \in S /\ \A k \in S : k <= Max(S)
<1> DEFINE bounds == {n \in Nat : \A k \in S : k <= n}
<1>1. PICK n \in bounds : \A k \in bounds : n <= k
  BY NatMin
<1>2. n \in S
  <2>1. CASE n = 0
    <3>1. \A k \in S : k = 0
      BY <1>1, <2>1
    <3> QED BY <2>1, <3>1
  <2>2. CASE n # 0 /\ n \notin S
    <3>1. n - 1 \in bounds
      BY <1>1, <2>2
    <3> QED BY <1>1, <3>1
  <2> QED BY <2>1, <2>2
<1>3. \E x \in S : \A y \in S : x >= y
  BY <1>1, <1>2
<1> QED BY <1>3 DEF Max

Rank(S, k) == Cardinality({x \in S : x <= k})

LEMMA BadIsNat == BadKey \in Nat
BY BoundsAssumption DEF BadKey

LEMMA RankStep ==
  ASSUME NEW S \in SUBSET (1..BadKey)
  PROVE  /\ \A k \in Nat : Rank(S, k) \in Nat
         /\ Rank(S, 0) = 0
         /\ \A k \in Nat : Rank(S, k + 1) = IF k + 1 \in S THEN Rank(S, k) + 1 ELSE Rank(S, k)
         /\ Rank(S, BadKey) = Cardinality(S)
         /\ IsFiniteSet(S)
<1>0. \A x \in S : x \in Nat /\ 1 <= x /\ x <= BadKey
  BY BadIsNat
<1>1. IsFiniteSet(S)
  <2>1. IsFiniteSet(1..BadKey)
    BY FS_Interval, BadIsNat
  <2> QED BY <2>1, FS_Subset
<1>2. ASSUME NEW k \in Nat PROVE IsFiniteSet({x \in S : x <= k}) /\ Rank(S, k) \in Nat
  BY <1>1, FS_Subset, FS_CardinalityType DEF Rank
<1>3. Rank(S, 0) = 0
  <2>1. \A x \in S : ~(x <= 0)
    BY <1>0
  <2>2. {x \in S : x <= 0} = {}
    BY <2>1
  <2> QED BY <2>2, FS_EmptySet DEF Rank
<1>4. ASSUME NEW k \in Nat
      PROVE  Rank(S, k + 1) = IF k + 1 \in S THEN Rank(S, k) + 1 ELSE Rank(S, k)
  <2>1. CASE k + 1 \in S
    <3>0. \A x \in S : x <= k + 1 <=> x <= k \/ x = k + 1
      BY <1>0
    <3>1. {x \in S : x <= k + 1} = {x \in S : x <= k} \cup {k + 1}
      BY <2>1, <3>0
    <3>2. k + 1 \notin {x \in S : x <= k}
      OBVIOUS
    <3> QED BY <1>2, <2>1, <3>1, <3>2, FS_AddElement DEF Rank
  <2>2. CASE k + 1 \notin S
    <3>0. \A x \in S : x <= k + 1 <=> x <= k
      BY <1>0, <2>2
    <3>1. {x \in S : x <= k + 1} = {x \in S : x <= k}
      BY <3>0
    <3> QED BY <2>2, <3>1 DEF Rank
  <2> QED BY <2>1, <2>2
<1>5. Rank(S, BadKey) = Cardinality(S)
  <2>1. {x \in S : x <= BadKey} = S
    BY <1>0
  <2> QED BY <2>1 DEF Rank
<1> QED BY <1>1, <1>2, <1>3, <1>4, <1>5

(* Every place up to the number of keys is the place of one key.           *)
LEMMA RankReached ==
  ASSUME NEW S \in SUBSET (1..BadKey), NEW j \in 1..Cardinality(S)
  PROVE  \E k \in S : Rank(S, k) = j
<1>1. \A k \in Nat : Rank(S, k) \in Nat
  BY RankStep
<1>2. BadKey \in {k \in Nat : Rank(S, k) >= j}
  BY RankStep, BadIsNat, <1>1
<1>3. PICK n \in {k \in Nat : Rank(S, k) >= j} : \A k \in {m \in Nat : Rank(S, m) >= j} : n <= k
  <2>1. {k \in Nat : Rank(S, k) >= j} # {}
    BY <1>2
  <2> QED BY <2>1, NatMin
<1>4. n # 0
  BY <1>3, RankStep
<1>5. n - 1 \in Nat /\ Rank(S, n - 1) < j
  BY <1>1, <1>3, <1>4
<1>6. Rank(S, n) = IF n \in S THEN Rank(S, n - 1) + 1 ELSE Rank(S, n - 1)
  <2>1. n = (n - 1) + 1
    BY <1>3
  <2> QED BY <1>5, <2>1, RankStep
<1>7. n \in S /\ Rank(S, n) = j
  BY <1>1, <1>3, <1>5, <1>6
<1> QED BY <1>7

LEMMA RankInjective ==
  ASSUME NEW S \in SUBSET (1..BadKey), NEW k \in S, NEW l \in S, k < l
  PROVE  Rank(S, k) < Rank(S, l)
<1>1. IsFiniteSet(S) /\ IsFiniteSet({x \in S : x <= l})
  BY RankStep, FS_Subset
<1>0. \A x \in S : x \in Nat
  BY BadIsNat
<1>2. {x \in S : x <= k} \in SUBSET {x \in S : x <= l}
  <2>1. \A x \in S : x <= k => x <= l
    BY <1>0
  <2> QED BY <2>1
<1>3. {x \in S : x <= k} # {x \in S : x <= l}
  <2>1. l <= l /\ ~(l <= k)
    BY <1>0
  <2>2. l \in {x \in S : x <= l} /\ l \notin {x \in S : x <= k}
    BY <2>1
  <2> QED BY <2>2
<1>4. Rank(S, k) <= Rank(S, l) /\ Rank(S, k) # Rank(S, l)
  BY <1>1, <1>2, <1>3, FS_Subset DEF Rank
<1> QED BY <1>4, RankStep

LEMMA RankUnique ==
  ASSUME NEW S \in SUBSET (1..BadKey), NEW k \in S, NEW l \in S, Rank(S, k) = Rank(S, l)
  PROVE  k = l
<1>1. k \in Nat /\ l \in Nat /\ Rank(S, k) \in Nat
  BY RankStep, BadIsNat
<1>2. ~(k < l) /\ ~(l < k)
  BY <1>1, RankInjective
<1> QED BY <1>1, <1>2

LEMMA RankInRange ==
  ASSUME NEW S \in SUBSET (1..BadKey), NEW k \in S
  PROVE  Rank(S, k) \in 1..Cardinality(S)
<1>1. IsFiniteSet(S) /\ Cardinality(S) \in Nat
  BY RankStep, FS_CardinalityType
<1>2. IsFiniteSet({x \in S : x <= k}) /\ Rank(S, k) <= Cardinality(S)
  BY <1>1, FS_Subset DEF Rank
<1>3. Rank(S, k) # 0
  BY <1>2, FS_EmptySet DEF Rank
<1> QED BY <1>1, <1>2, <1>3, RankStep

(***************************************************************************)
(* Tables and grids.                                                       *)
(***************************************************************************)
LEMMA MapFacts ==
  ASSUME NEW m \in Maps
  PROVE  /\ DOMAIN m \in SUBSET (1..BadKey)
         /\ \A k \in DOMAIN m : m[k] \in 1..CmdCount
         /\ m \in [DOMAIN m -> 1..CmdCount]
         /\ Cardinality(DOMAIN m) \in Nat
<1>1. PICK ks \in SUBSET (1..BadKey) : m \in [ks -> 1..CmdCount]
  BY DEF Maps
<1>2. DOMAIN m \in SUBSET (1..BadKey) /\ m \in [DOMAIN m -> 1..CmdCount]
  BY <1>1
<1>3. Cardinality(DOMAIN m) \in Nat
  BY <1>2, RankStep, FS_CardinalityType
<1> QED BY <1>2, <1>3

LEMMA IsMap ==
  ASSUME NEW ks \in SUBSET (1..BadKey), NEW m \in [ks -> 1..CmdCount]
  PROVE  m \in Maps
BY DEF Maps

(* The row a loaded table has at place j is that of the j-th key.          *)
LEMMA RowAt ==
  ASSUME NEW m \in Maps, NEW j \in 1..Cardinality(DOMAIN m)
  PROVE  \E k \in DOMAIN m : Rank(DOMAIN m, k) = j /\ RowsOf(m)[j] = [key |-> k, cmd |-> m[k]]
<1> DEFINE k == CHOOSE k \in DOMAIN m : Cardinality({x \in DOMAIN m : x <= k}) = j
<1>1. DOMAIN m \in SUBSET (1..BadKey)
  BY MapFacts
<1>2. \E l \in DOMAIN m : Cardinality({x \in DOMAIN m : x <= l}) = j
  BY <1>1, RankReached DEF Rank
<1>3. k \in DOMAIN m /\ Cardinality({x \in DOMAIN m : x <= k}) = j
  BY <1>2
<1>4. RowsOf(m)[j] = [key |-> k, cmd |-> m[k]]
  BY DEF RowsOf
<1> QED BY <1>3, <1>4 DEF Rank

LEMMA RowsType ==
  ASSUME NEW m \in Maps
  PROVE  RowsOf(m) \in Seq(Row) /\ Len(RowsOf(m)) = Cardinality(DOMAIN m)
<1>1. Cardinality(DOMAIN m) \in Nat
  BY MapFacts
<1>2. ASSUME NEW j \in 1..Cardinality(DOMAIN m) PROVE RowsOf(m)[j] \in Row
  <2>1. PICK k \in DOMAIN m : RowsOf(m)[j] = [key |-> k, cmd |-> m[k]]
    BY RowAt
  <2>2. k \in 0..BadKey /\ m[k] \in 0..CmdCount
    BY MapFacts, BadIsNat, BoundsAssumption
  <2> QED BY <2>1, <2>2 DEF Row
<1>3. RowsOf(m) \in [1..Cardinality(DOMAIN m) -> Row]
  <2>1. RowsOf(m) = [j \in 1..Cardinality(DOMAIN m) |-> RowsOf(m)[j]]
    BY DEF RowsOf
  <2> QED BY <1>2, <2>1
<1>4. RowsOf(m) \in Seq(Row)
  BY <1>1, <1>3, SeqDef
<1>5. DOMAIN RowsOf(m) = 1..Cardinality(DOMAIN m)
  BY <1>3
<1> QED BY <1>1, <1>4, <1>5, LenProperties

Grids == [1..MaxRow -> Seq(Row)]

LEMMA EmptyRowType == EmptyRow \in Row /\ <<EmptyRow>> \in Seq(Row)
<1>1. EmptyRow \in Row
  BY BadIsNat, BoundsAssumption DEF EmptyRow, Row
<1> QED BY <1>1

LEMMA AttachedType ==
  ASSUME NEW g \in Grids, NEW n \in Nat, NEW rows \in Seq(Row)
  PROVE  Attached(g, n, rows) \in Grids
<1>1. ASSUME NEW i \in 1..MaxRow, i - n + 1 \in DOMAIN rows
      PROVE  Append(g[i], rows[i - n + 1]) \in Seq(Row)
  <2>1. rows[i - n + 1] \in Row
    BY <1>1, LenProperties, ElementOfSeq
  <2> QED BY <2>1, AppendProperties DEF Grids
<1> QED BY <1>1 DEF Attached, Grids

LEMMA OpenedType ==
  ASSUME NEW f, f.rows \in Maps
  PROVE  Opened(f) \in Grids
<1>1. NoRows \in Grids
  BY EmptySeq DEF NoRows, Grids
<1>2. Load(f) # NoMap => Load(f) = f.rows
  BY DEF Load
<1>3. (IF Load(f) = NoMap THEN <<EmptyRow>> ELSE RowsOf(Load(f))) \in Seq(Row)
  BY <1>2, EmptyRowType, RowsType
<1> QED BY <1>1, <1>3, AttachedType DEF Opened

LEMMA VisibleType ==
  ASSUME NEW g \in Grids, NEW i \in Occupied(g)
  PROVE  Visible(g, i) \in Row
<1>1. i \in 1..MaxRow /\ g[i] \in Seq(Row) /\ g[i] # <<>>
  BY DEF Occupied, Grids
<1>2. Len(g[i]) \in 1..Len(g[i])
  BY <1>1, LenProperties, EmptySeq
<1> QED BY <1>1, <1>2, ElementOfSeq DEF Visible, Last

LEMMA TableType ==
  ASSUME NEW g \in Grids, NEW is \in SUBSET Occupied(g)
  PROVE  TableOf(g, is) \in Maps
<1> DEFINE rows(k) == {i \in is : Saveable(Visible(g, i)) /\ Visible(g, i).key = k}
<1> DEFINE ks == {k \in 1..BadKey : rows(k) # {}}
<1>1. ASSUME NEW k \in ks PROVE Visible(g, Max(rows(k))).cmd \in 1..CmdCount
  <2>0. \A i \in is : i \in Nat /\ i <= MaxRow
    BY BoundsAssumption DEF Occupied
  <2>1. rows(k) \subseteq Nat /\ rows(k) # {} /\ \A i \in rows(k) : i <= MaxRow
    BY <2>0
  <2>2. Max(rows(k)) \in rows(k)
    BY <2>1, MaxIs, BoundsAssumption
  <2>3. Visible(g, Max(rows(k))) \in Row /\ Visible(g, Max(rows(k))).cmd # 0
    BY <2>2, VisibleType DEF Saveable
  <2> QED BY <2>3, BoundsAssumption DEF Row
<1>2. TableOf(g, is) = [k \in ks |-> Visible(g, Max(rows(k))).cmd]
  BY DEF TableOf
<1> HIDE DEF rows
<1>3. TableOf(g, is) \in [ks -> 1..CmdCount]
  BY <1>1, <1>2
<1> QED BY <1>3, IsMap

LEMMA NumRowsIs ==
  ASSUME NEW g
  PROVE  /\ NumRows(g) \in 1..(MaxRow + 1) /\ NumRows(g) \notin Occupied(g)
         /\ \A i \in 1..(NumRows(g) - 1) : i \in Occupied(g)
<1> DEFINE free == {i \in 1..(MaxRow + 1) : i \notin Occupied(g)}
<1>1. MaxRow + 1 \in free /\ free \subseteq Nat
  BY BoundsAssumption DEF Occupied
<1>2. NumRows(g) \in free /\ \A i \in free : NumRows(g) <= i
  BY <1>1, MinIs DEF NumRows
<1> HIDE DEF free
<1>3. ASSUME NEW i \in 1..(NumRows(g) - 1) PROVE i \in Occupied(g)
  <2>1. NumRows(g) \in 1..(MaxRow + 1)
    BY <1>2 DEF free
  <2>2. i \in 1..(MaxRow + 1) /\ ~(NumRows(g) <= i)
    BY <2>1, BoundsAssumption
  <2>3. i \notin free
    BY <1>2, <2>2
  <2> QED BY <2>2, <2>3 DEF free
<1> QED BY <1>2, <1>3 DEF free

(* Without a hole, all the rows that are shown are collected.              *)
LEMMA WithoutHole ==
  ASSUME NEW g, NumRows(g) > Cardinality(Occupied(g))
  PROVE  Collected(g) = TableOf(g, Occupied(g))
<1> DEFINE n == NumRows(g)
<1>1. n \in 1..(MaxRow + 1) /\ \A i \in 1..(n - 1) : i \in Occupied(g)
  BY NumRowsIs
<1>2. IsFiniteSet(Occupied(g)) /\ Occupied(g) \subseteq 1..MaxRow
  <2>1. Occupied(g) \in SUBSET (1..MaxRow) /\ IsFiniteSet(1..MaxRow)
    BY FS_Interval, BoundsAssumption DEF Occupied
  <2> QED BY <2>1, FS_Subset
<1>3. 1..(n - 1) \in SUBSET Occupied(g)
  BY <1>1
<1>4. Cardinality(1..(n - 1)) = n - 1
  BY <1>1, FS_Interval, BoundsAssumption
<1>5. Cardinality(1..(n - 1)) <= Cardinality(Occupied(g)) /\ Cardinality(Occupied(g)) \in Nat
  BY <1>2, <1>3, FS_Subset, FS_CardinalityType
<1>6. Cardinality(Occupied(g)) = Cardinality(1..(n - 1))
  BY <1>1, <1>4, <1>5, BoundsAssumption
<1>7. Occupied(g) = 1..(n - 1)
  BY <1>2, <1>3, <1>6, FS_Subset
<1>8. {i \in Occupied(g) : i < n} = Occupied(g)
  <2>1. \A i \in Occupied(g) : i < n
    BY <1>1, <1>7, BoundsAssumption
  <2> QED BY <2>1
<1> QED BY <1>8 DEF Collected

(* The window shows what it has read from a whole file, and would save it. *)
LEMMA OpenedCollects ==
  ASSUME NEW f, f.kind = "whole", f.rows \in Maps, DOMAIN f.rows \subseteq Keys
  PROVE  Collected(Opened(f)) = f.rows
<1> DEFINE m == f.rows
<1> DEFINE c == Cardinality(DOMAIN m)
<1> DEFINE g == Opened(f)
<1>1. Load(f) = m
  BY DEF Load
<1>2. /\ DOMAIN m \in SUBSET (1..BadKey) /\ c \in Nat
      /\ \A k \in DOMAIN m : m[k] \in 1..CmdCount /\ k \in Keys
  BY MapFacts
<1>3. c <= MaxRow
  <2>1. IsFiniteSet(Keys) /\ Cardinality(Keys) = KeyCount
    BY FS_Interval, BoundsAssumption DEF Keys
  <2>2. c <= KeyCount
    BY <2>1, FS_Subset
  <2> QED BY <1>2, <2>2, BoundsAssumption, RoomAssumption
<1>4. CASE m = NoMap
  <2>1. g = Attached(NoRows, 1, <<EmptyRow>>)
    BY <1>1, <1>4 DEF Opened
  <2>2. \A i \in 1..MaxRow : g[i] = IF i = 1 THEN <<EmptyRow>> ELSE <<>>
    BY <2>1, BoundsAssumption DEF Attached, NoRows
  <2>3. \A i \in Occupied(g) : Visible(g, i) = EmptyRow
    BY <2>2 DEF Occupied, Visible, Last
  <2>4. \A i \in Occupied(g) : ~Saveable(Visible(g, i))
    BY <2>3 DEF EmptyRow, Saveable
  <2> HIDE DEF g
  <2>5. Collected(g) = [k \in {} |-> 0]
    <3> DEFINE is == {i \in Occupied(g) : i < NumRows(g)}
    <3> DEFINE rows(k) == {i \in is : Saveable(Visible(g, i)) /\ Visible(g, i).key = k}
    <3>1. {k \in 1..BadKey : rows(k) # {}} = {}
      BY <2>4
    <3>2. Collected(g) = [k \in {k \in 1..BadKey : rows(k) # {}} |-> Visible(g, Max(rows(k))).cmd]
      BY DEF Collected, TableOf
    <3> HIDE DEF rows
    <3> QED BY <3>1, <3>2
  <2> QED BY <1>4, <2>5 DEF NoMap, g
<1>5. CASE m # NoMap
  <2>1. g = Attached(NoRows, 1, RowsOf(m))
    BY <1>1, <1>5 DEF Opened
  <2>2. RowsOf(m) \in Seq(Row) /\ DOMAIN RowsOf(m) = 1..c
    BY RowsType, LenProperties
  <2>3. \A i \in 1..MaxRow : g[i] = IF i \in 1..c THEN <<RowsOf(m)[i]>> ELSE <<>>
    BY <1>2, <2>1, <2>2, BoundsAssumption DEF Attached, NoRows
  <2> HIDE DEF g
  <2> HIDE DEF c
  <2>4. Occupied(g) = 1..c
    <3>1. ASSUME NEW i \in 1..MaxRow PROVE g[i] # <<>> <=> i \in 1..c
      <4>1. <<RowsOf(m)[i]>> # <<>>
        OBVIOUS
      <4> QED BY <2>3, <4>1
    <3>2. \A i \in 1..c : i \in 1..MaxRow
      BY <1>2, <1>3, BoundsAssumption
    <3> QED BY <3>1, <3>2 DEF Occupied
  <2>5. \A i \in 1..c : Visible(g, i) = RowsOf(m)[i]
    <3>1. \A i \in 1..c : i \in 1..MaxRow
      BY <1>2, <1>3, BoundsAssumption
    <3>2. \A i \in 1..c : g[i] = <<RowsOf(m)[i]>>
      BY <2>3, <3>1
    <3>3. ASSUME NEW i \in 1..c PROVE Visible(g, i) = RowsOf(m)[i]
      <4> DEFINE row == RowsOf(m)[i]
      <4> HIDE DEF row
      <4>1. Len(<<row>>) = 1 /\ <<row>>[1] = row
        OBVIOUS
      <4>2. g[i] = <<row>>
        BY <3>2 DEF row
      <4> QED BY <4>1, <4>2 DEF Visible, Last, row
    <3> QED BY <3>3
  <2>6. NumRows(g) = c + 1
    <3>1. NumRows(g) \in 1..(MaxRow + 1) /\ NumRows(g) \notin 1..c
          /\ \A i \in 1..(NumRows(g) - 1) : i \in 1..c
      BY <2>4, NumRowsIs
    <3>2. NumRows(g) >= c + 1
      BY <1>2, <3>1, BoundsAssumption
    <3>3. ~(NumRows(g) > c + 1)
      <4>1. NumRows(g) > c + 1 => c + 1 \in 1..(NumRows(g) - 1)
        BY <1>2, <3>1, BoundsAssumption
      <4> QED BY <1>2, <3>1, <4>1
    <3> QED BY <1>2, <3>1, <3>2, <3>3, BoundsAssumption
  <2>7. {i \in Occupied(g) : i < NumRows(g)} = 1..c
    <3>1. \A i \in 1..c : i < NumRows(g)
      BY <1>2, <2>6
    <3> QED BY <2>4, <3>1
  <2> DEFINE rows(k) == {i \in 1..c : Saveable(Visible(g, i)) /\ Visible(g, i).key = k}
  <2>8. Collected(g) = [k \in {k \in 1..BadKey : rows(k) # {}} |-> Visible(g, Max(rows(k))).cmd]
    BY <2>7 DEF Collected, TableOf
  <2>9. ASSUME NEW i \in 1..c
        PROVE  \E l \in DOMAIN m : /\ Rank(DOMAIN m, l) = i
                                   /\ Visible(g, i) = [key |-> l, cmd |-> m[l]]
    <3>1. i \in 1..Cardinality(DOMAIN m)
      BY DEF c
    <3>2. PICK l \in DOMAIN m : Rank(DOMAIN m, l) = i /\ RowsOf(m)[i] = [key |-> l, cmd |-> m[l]]
      BY <3>1, RowAt
    <3>3. Visible(g, i) = RowsOf(m)[i]
      BY <2>5
    <3> QED BY ONLY <3>2, <3>3, l \in DOMAIN m
  <2>10. ASSUME NEW k \in 1..BadKey, rows(k) # {}
         PROVE  k \in DOMAIN m
    BY <2>9, <2>10
  <2>11. ASSUME NEW k \in DOMAIN m
         PROVE  /\ rows(k) = {Rank(DOMAIN m, k)}
                /\ Visible(g, Rank(DOMAIN m, k)).cmd = m[k]
                /\ Rank(DOMAIN m, k) \in Nat
    <3> DEFINE r == Rank(DOMAIN m, k)
    <3>1. r \in 1..c
      BY <1>2, RankInRange DEF c
    <3>2. PICK l \in DOMAIN m : Rank(DOMAIN m, l) = r /\ Visible(g, r) = [key |-> l, cmd |-> m[l]]
      BY <2>9, <3>1
    <3>3. \A x, y \in DOMAIN m : Rank(DOMAIN m, x) = Rank(DOMAIN m, y) => x = y
      BY <1>2, RankUnique
    <3>4. l = k
      BY <3>2, <3>3
    <3>5. Saveable(Visible(g, r)) /\ Visible(g, r).key = k /\ Visible(g, r).cmd = m[k]
      BY <1>2, <3>2, <3>4, BoundsAssumption DEF Saveable, Keys
    <3>6. ASSUME NEW i \in rows(k) PROVE i = r
      <4>1. PICK x \in DOMAIN m : Rank(DOMAIN m, x) = i /\ Visible(g, i) = [key |-> x, cmd |-> m[x]]
        BY <2>9
      <4> QED BY <4>1
    <3> HIDE DEF r
    <3>7. rows(k) = {r}
      BY <3>1, <3>5, <3>6
    <3> QED BY <3>1, <3>5, <3>7 DEF r
  <2> HIDE DEF rows
  <2>12. {k \in 1..BadKey : rows(k) # {}} = DOMAIN m
    BY <1>2, <2>10, <2>11
  <2>13. ASSUME NEW k \in DOMAIN m PROVE Visible(g, Max(rows(k))).cmd = m[k]
    <3>1. Max(rows(k)) = Rank(DOMAIN m, k)
      BY <2>11 DEF Max
    <3> QED BY <2>11, <3>1
  <2>14. m = [k \in DOMAIN m |-> m[k]]
    BY MapFacts
  <2> QED BY <2>8, <2>12, <2>13, <2>14 DEF g
<1> QED BY <1>4, <1>5

(***************************************************************************)
(* Types of the settings.                                                  *)
(***************************************************************************)
LEMMA InitSettingsType == SettingsInit => SettingsTypeOK
<1> SUFFICES ASSUME SettingsInit PROVE SettingsTypeOK
  OBVIOUS
<1> USE DEF SettingsInit
<1>1. \A n \in Names : Default(n) \in Values(n) /\ chosen[n] \in Values(n)
  BY KeptIsValue DEF Default, Values, Names, Switches
<1> QED BY <1>1, EmptySeq DEF SettingsTypeOK

LEMMA SettingsTypeStep == ASSUME SettingsTypeOK, Actions PROVE SettingsTypeOK'
<1> USE DEF SettingsTypeOK
<1>1. ASSUME NEW lost, NEW failed, Reads(lost, failed) PROVE SettingsTypeOK'
  <2>1. \A n \in Names : conf'[n] \in Values(n) \cup {Unset} /\ opts'[n] \in Values(n)
    BY <1>1, KeptIsValue DEF Reads, ReadAs
  <2>2. DOMAIN conf' = Names /\ DOMAIN opts' = Names
    BY <1>1 DEF Reads
  <2> QED BY <1>1, <2>1, <2>2, EmptySeq DEF Reads
<1>2. CASE Watches \/ Dies
  BY <1>2, EmptySeq DEF Watches, Dies
<1>3. CASE ValueChanged
  <2>1. Head(signals) \in Values("id") /\ Tail(signals) \in Seq(Values("id")) /\ "id" \in Names
    BY <1>3, HeadTailProperties DEF ValueChanged, Names
  <2> QED BY <1>3, <2>1 DEF ValueChanged
<1>4. ASSUME NEW n \in {"wubi", "pinyin", "fast"}, NEW v \in Values(n), Chooses(n, v)
      PROVE  SettingsTypeOK'
  <2>1. n \in Names
    BY DEF Names, Switches
  <2>2. \A x \in Names : /\ conf'[x] \in Values(x) \cup {Unset}
                         /\ opts'[x] \in Values(x) /\ chosen'[x] \in Values(x)
    BY <1>4, <2>1 DEF Chooses
  <2> QED BY <1>4, <2>2 DEF Chooses
<1>5. ASSUME NEW v \in Values("id"), WritesId(v) PROVE SettingsTypeOK'
  <2>1. "id" \in Names
    BY DEF Names
  <2>2. \A x \in Names : conf'[x] \in Values(x) \cup {Unset}
    BY <1>5, <2>1 DEF WritesId
  <2>3. signals' \in Seq(Values("id"))
    BY <1>5, AppendProperties DEF WritesId
  <2>4. DOMAIN conf' = Names /\ missed' \in BOOLEAN
    BY <1>5 DEF WritesId
  <2> QED BY <1>5, <2>2, <2>3, <2>4 DEF WritesId
<1> QED BY <1>1, <1>2, <1>3, <1>4, <1>5 DEF Actions

(***************************************************************************)
(* Types of the fast input.                                                *)
(***************************************************************************)
LEMMA NoMapType == NoMap \in Maps /\ DOMAIN NoMap = {} /\ Idle.rows = NoMap
<1>1. NoMap \in [{} -> 1..CmdCount] /\ {} \in SUBSET (1..BadKey)
  BY DEF NoMap
<1> QED BY <1>1, IsMap DEF NoMap, Idle

LEMMA RestrictedType ==
  ASSUME NEW m \in Maps, NEW ks
  PROVE  Restricted(m, ks) \in Maps
<1>1. DOMAIN m \cap ks \in SUBSET (1..BadKey)
  BY MapFacts
<1>2. Restricted(m, ks) \in [DOMAIN m \cap ks -> 1..CmdCount]
  BY MapFacts DEF Restricted
<1> QED BY <1>1, <1>2, IsMap

LEMMA CollectedType == ASSUME NEW g \in Grids PROVE Collected(g) \in Maps
<1>1. {i \in Occupied(g) : i < NumRows(g)} \in SUBSET Occupied(g)
  OBVIOUS
<1> QED BY <1>1, TableType DEF Collected

LEMMA FrontType ==
  ASSUME NEW s \in Seq(Row), s # <<>>
  PROVE  Front(s) \in Seq(Row)
<1>1. Len(s) \in Nat /\ Len(s) # 0
  BY LenProperties, EmptySeq
<1>2. 1 \in 1..(Len(s) + 1) /\ Len(s) - 1 \in 0..Len(s)
  BY <1>1
<1> QED BY <1>1, <1>2, SubSeqProperties DEF Front

LEMMA InitFastInputType == FastInputInit => FastInputTypeOK
<1> SUFFICES ASSUME FastInputInit PROVE FastInputTypeOK
  OBVIOUS
<1>1. PICK m \in Maps : DOMAIN m \subseteq Keys /\ file = File("whole", m) /\ versions = {m}
  BY DEF FastInputInit
<1>2. file.rows = m /\ file \in [kind : {"absent", "torn", "whole"}, rows : Maps]
  BY <1>1 DEF File
<1>3. grid \in Grids
  BY <1>2, OpenedType DEF FastInputInit
<1> QED BY <1>1, <1>2, <1>3, NoMapType DEF FastInputInit, FastInputTypeOK, Idle, Grids

LEMMA FileType ==
  ASSUME NEW kind \in {"absent", "torn", "whole"}, NEW m \in Maps
  PROVE  File(kind, m) \in [kind : {"absent", "torn", "whole"}, rows : Maps]
BY DEF File

(* What an import brings is a table.                                       *)
LEMMA ChangesType ==
  ASSUME grid \in Grids, \/ \E i \in 1..MaxRow : Delete(i) \/ \E r \in Typed : Edit(i, r)
                         \/ New \/ Clear \/ Import
  PROVE  grid' \in Grids /\ saved' = FALSE /\ UNCHANGED <<file, saving, dict, versions>>
<1>1. ASSUME NEW i \in 1..MaxRow, Delete(i) PROVE grid' \in Grids
  <2>1. grid[i] \in Seq(Row) /\ grid[i] # <<>>
    BY <1>1 DEF Delete, Grids
  <2>2. Front(grid[i]) \in Seq(Row)
    BY <2>1, FrontType
  <2> QED BY <1>1, <2>2 DEF Delete, Changed, Grids
<1>2. ASSUME NEW i \in 1..MaxRow, NEW r \in Typed, Edit(i, r) PROVE grid' \in Grids
  <2>1. grid[i] \in Seq(Row) /\ grid[i] # <<>> /\ r \in Row
    BY <1>2, InputAssumption DEF Edit, Grids
  <2>2. Append(Front(grid[i]), r) \in Seq(Row)
    BY <2>1, FrontType, AppendProperties
  <2> QED BY <1>2, <2>2 DEF Edit, Changed, Grids
<1>3. NumRows(grid) \in Nat /\ NumRows(grid) - 1 \in Nat
  BY NumRowsIs, BoundsAssumption
<1>4. ASSUME New PROVE grid' \in Grids
  BY <1>3, <1>4, EmptyRowType, AttachedType DEF New, Changed
<1>5. ASSUME Clear PROVE grid' \in Grids
  <2> DEFINE n == NumRows(grid) - 1
  <2> DEFINE g == [i \in 1..MaxRow |-> IF i + n <= MaxRow THEN grid[i + n] ELSE <<>>]
  <2>1. n \in Nat
    BY <1>3
  <2> HIDE DEF n
  <2>2. \A i \in 1..MaxRow : i + n <= MaxRow => i + n \in 1..MaxRow
    BY <2>1, BoundsAssumption
  <2>3. g \in Grids
    BY <2>2, EmptySeq DEF Grids
  <2>4. grid' = Attached(g, 1, <<EmptyRow>>)
    BY <1>5 DEF Clear, Changed, n
  <2> HIDE DEF g
  <2>5. Attached(g, 1, <<EmptyRow>>) \in Grids
    BY <2>3, EmptyRowType, AttachedType
  <2> QED BY <2>4, <2>5
<1>6. ASSUME Import PROVE grid' \in Grids
  <2>1. PICK m \in Given : grid' = Attached(grid, NumRows(grid), RowsOf(m))
    BY <1>6 DEF Import, Changed
  <2>2. RowsOf(m) \in Seq(Row)
    BY RowsType, InputAssumption
  <2>3. Attached(grid, NumRows(grid), RowsOf(m)) \in Grids
    BY <1>3, <2>2, AttachedType
  <2> QED BY <2>1, <2>3
<1>7. grid' \in Grids
  BY <1>1, <1>2, <1>4, <1>5, <1>6
<1>8. saved' = FALSE /\ UNCHANGED <<file, saving, dict, versions>>
  BY DEF Delete, Edit, New, Clear, Import, Changed
<1> QED BY <1>7, <1>8

LEMMA FastInputTypeStep == ASSUME FastInputTypeOK, Next PROVE FastInputTypeOK'
<1>0. grid \in Grids
  BY DEF FastInputTypeOK, Grids
<1> USE DEF FastInputTypeOK
<1>1. CASE Process /\ UNCHANGED fastInput
  BY <1>1 DEF fastInput
<1>2. CASE Drops
  BY <1>2, NoMapType DEF Drops
<1>3. CASE EngineLoads
  BY <1>3, NoMapType DEF EngineLoads, Loads, Load
<1>4. CASE Removes
  <2>1. saving' \in [at : {"idle", "removed", "opened"}, rows : Maps]
    BY <1>0, <1>4, CollectedType DEF Removes
  <2>2. file' \in [kind : {"absent", "torn", "whole"}, rows : Maps]
    BY <1>4, NoMapType, FileType DEF Removes
  <2> QED BY <1>4, <2>1, <2>2 DEF Removes
<1>5. CASE Opens
  <2>1. saving' \in [at : {"idle", "removed", "opened"}, rows : Maps]
    BY <1>5, NoMapType DEF Opens, Idle
  <2>2. file' \in [kind : {"absent", "torn", "whole"}, rows : Maps]
    BY <1>5, NoMapType, FileType DEF Opens
  <2> QED BY <1>5, <2>1, <2>2 DEF Opens
<1>6. CASE Writes
  <2>1. saving' \in [at : {"idle", "removed", "opened"}, rows : Maps] /\ saving.rows \in Maps
    BY <1>6, NoMapType DEF Writes, Idle
  <2>2. file' \in [kind : {"absent", "torn", "whole"}, rows : Maps]
    BY <1>6, <2>1, RestrictedType, FileType DEF Writes
  <2>3. saved' \in BOOLEAN /\ versions' \subseteq Maps
    BY <1>6, <2>1 DEF Writes
  <2> QED BY <1>6, <2>1, <2>2, <2>3 DEF Writes
<1>7. CASE Reopen
  <2>1. grid' \in Grids
    BY <1>7, OpenedType DEF Reopen
  <2> QED BY <1>7, <2>1, NoMapType DEF Reopen, Idle, Grids
<1>8. CASE \/ \E i \in 1..MaxRow : Delete(i) \/ \E r \in Typed : Edit(i, r)
           \/ New \/ Clear \/ Import
  BY <1>0, <1>8, ChangesType DEF Grids
<1> QED BY <1>1, <1>2, <1>3, <1>4, <1>5, <1>6, <1>7, <1>8 DEF Next, Window

LEMMA InitTypeOK == Init => TypeOK
BY InitSettingsType, InitFastInputType DEF Init, TypeOK

LEMMA NextTypeOK == TypeOK /\ [Next]_vars => TypeOK'
<1> SUFFICES ASSUME TypeOK, [Next]_vars PROVE TypeOK'
  OBVIOUS
<1>1. CASE UNCHANGED vars
  BY <1>1 DEF vars, settings, fastInput, TypeOK, SettingsTypeOK, FastInputTypeOK
<1>2. CASE Next
  <2>1. CASE Actions
    BY <1>2, <2>1, SettingsTypeStep, FastInputTypeStep DEF TypeOK
  <2>2. CASE UNCHANGED settings
    <3>1. SettingsTypeOK'
      BY <2>2 DEF settings, TypeOK, SettingsTypeOK
    <3> QED BY <1>2, <3>1, FastInputTypeStep DEF TypeOK
  <2> QED BY <1>2, <2>1, <2>2, StepOfSettings
<1> QED BY <1>1, <1>2

(***************************************************************************)
(* What the window shows and what the file has.  A save carries the rows   *)
(* it has collected from a grid that cannot change before it ends.         *)
(***************************************************************************)
Shown ==
  /\ saved /\ file.kind = "whole" => file.rows = Collected(grid)
  /\ saving.at # "idle" => saving.rows = Collected(grid)

LEMMA InitShown == Init => Shown
<1> SUFFICES ASSUME Init PROVE Shown
  OBVIOUS
<1>1. PICK m \in Maps : DOMAIN m \subseteq Keys /\ file = File("whole", m)
  BY DEF Init, FastInputInit
<1>2. file.kind = "whole" /\ file.rows = m
  BY <1>1 DEF File
<1>3. Collected(grid) = file.rows
  BY <1>1, <1>2, OpenedCollects DEF Init, FastInputInit
<1>4. saving.at = "idle"
  BY DEF Init, FastInputInit, Idle
<1> QED BY <1>3, <1>4 DEF Shown

LEMMA NextShown == TypeOK /\ IInv /\ Shown /\ [Next]_vars => Shown'
<1> SUFFICES ASSUME TypeOK, IInv, Shown, [Next]_vars
             PROVE  /\ saved' /\ file'.kind = "whole" => file'.rows = Collected(grid')
                    /\ saving'.at # "idle" => saving'.rows = Collected(grid')
  BY DEF Shown
<1> DEFINE Goal == /\ saved' /\ file'.kind = "whole" => file'.rows = Collected(grid')
                   /\ saving'.at # "idle" => saving'.rows = Collected(grid')
<1>0. /\ grid \in Grids /\ file.rows \in Maps /\ DOMAIN file.rows \subseteq Keys
      /\ saving.at \in {"idle", "removed", "opened"}
  BY DEF TypeOK, FastInputTypeOK, IInv, Written, Grids
<1>1. CASE UNCHANGED <<grid, file, saving, saved>>
  BY <1>1 DEF Shown
<1>2. CASE Removes
  <2>1. file'.kind = "absent" /\ saving'.rows = Collected(grid) /\ grid' = grid
    BY <1>2 DEF Removes, File
  <2> QED BY <2>1
<1>3. CASE Opens
  <2>1. saving.at # "idle" /\ UNCHANGED <<grid, saved>>
    BY <1>3 DEF Opens
  <2>2. CASE saving' = [saving EXCEPT !.at = "opened"] /\ file' = File("torn", NoMap)
    <3>1. file'.kind = "torn"
      BY <2>2 DEF File
    <3>2. saving'.rows = saving.rows
      BY <2>2 DEF TypeOK, FastInputTypeOK
    <3> QED BY <2>1, <3>1, <3>2 DEF Shown
  <2>3. CASE saving' = Idle /\ UNCHANGED file
    BY <2>1, <2>3 DEF Shown, Idle
  <2> QED BY <1>3, <2>2, <2>3 DEF Opens
<1>4. CASE Writes
  <2>1. saving.at # "idle" /\ grid' = grid /\ saving'.at = "idle"
    BY <1>4 DEF Writes, Idle
  <2>2. CASE file' = File("whole", saving.rows)
    <3>1. file'.rows = saving.rows
      BY <2>2 DEF File
    <3> QED BY <2>1, <3>1 DEF Shown
  <2>3. CASE \E k \in 0..KeyCount : file' = File("torn", Restricted(saving.rows, 1..k))
    <3>1. file'.kind = "torn"
      BY <2>3 DEF File
    <3> QED BY <2>1, <3>1
  <2> QED BY <1>4, <2>2, <2>3 DEF Writes
<1>5. CASE Reopen
  <2>1. /\ file' = file /\ grid' = Opened(file) /\ saved' = (file.kind = "whole")
        /\ saving'.at = "idle"
    BY <1>5 DEF Reopen, Idle
  <2> QED BY <1>0, <2>1, OpenedCollects
<1>6. CASE \/ \E i \in 1..MaxRow : Delete(i) \/ \E r \in Typed : Edit(i, r)
           \/ New \/ Clear \/ Import
  <2>1. saved' = FALSE /\ saving' = saving
    BY <1>0, <1>6, ChangesType
  <2>2. saving.at = "idle"
    BY <1>6 DEF Delete, Edit, New, Clear, Import, Ready
  <2> QED BY <2>1, <2>2
<1>7. CASE UNCHANGED vars \/ (Process /\ UNCHANGED fastInput)
  BY <1>1, <1>7 DEF vars, fastInput
<1>8. CASE Drops \/ EngineLoads
  BY <1>1, <1>8 DEF Drops, EngineLoads, Loads
<1> HIDE DEF Goal
<1>9. CASE Next
  BY <1>2, <1>3, <1>4, <1>5, <1>6, <1>7, <1>8, <1>9 DEF Next, Window
<1> QED BY <1>7, <1>9 DEF Goal

LEMMA ShownIsSaved == TypeOK /\ Shown => SavedIsShown
<1> SUFFICES ASSUME Shown, saved, file.kind = "whole", NumRows(grid) > Cardinality(Occupied(grid))
             PROVE  Load(file) = TableOf(grid, Occupied(grid))
  BY DEF SavedIsShown
<1>1. file.rows = Collected(grid)
  BY DEF Shown
<1> QED BY <1>1, WithoutHole DEF Load

(***************************************************************************)
(* The theorems.                                                           *)
(***************************************************************************)

(* As long as no access to a setting fails, a running engine has the last  *)
(* choices, whatever restarts there were.                                  *)
THEOREM ChoicesAlwaysSurvive == Spec => []ChoicesSurvive
  <1>1. IInv => ChoicesSurvive
    BY DEF IInv, Survives, ChoicesSurvive
  <1> QED
    BY <1>1, AlwaysIInv, PTL

(* The saved id is the one in use once its notifications have arrived.     *)
THEOREM CredentialsAlwaysFollow == Spec => []CredentialsFollow
  <1>1. IInv => CredentialsFollow
    BY DEF IInv, Follows, CredentialsFollow
  <1> QED
    BY <1>1, AlwaysIInv, PTL

(* The own file never gets a key that no one can type, from any import.    *)
THEOREM FileAlwaysTypable == Spec => []FileHasTypableKeys
  <1>1. IInv => FileHasTypableKeys
    BY DEF IInv, Written, FileHasTypableKeys
  <1> QED
    BY <1>1, AlwaysIInv, PTL

(* A table that was not saved in full is never loaded.                     *)
THEOREM AlwaysFullyLoaded == Spec => []NeverHalfLoaded
  <1>1. IInv => NeverHalfLoaded
    BY DEF IInv, Written, NeverHalfLoaded
  <1> QED
    BY <1>1, AlwaysIInv, PTL

(* The variables of both processes keep their types: a grid stays a grid   *)
(* of rows and a file a table, whatever is typed, imported and torn.       *)
THEOREM TypeCorrect == Spec => []TypeOK
BY InitTypeOK, NextTypeOK, PTL DEF Spec

(* A saved or loaded file has exactly the rows that are shown, unless a    *)
(* deleted row has left a hole, in grids of any size.                      *)
THEOREM SavedIsAlwaysShown == Spec => []SavedIsShown
BY InitShown, NextShown, ShownIsSaved, TypeCorrect, AlwaysIInv, PTL DEF Spec
=============================================================================
