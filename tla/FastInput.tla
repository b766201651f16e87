------------------------------ MODULE FastInput ------------------------------
(***************************************************************************)
(* Fast input: the grid of the setup window (ibus_fun_setup.cpp), the JSON *)
(* file it saves, and the table the engine's process loads from the file   *)
(* (DictFast), with a save that is interrupted or fails between any two of *)
(* its calls.  An export is the same save to a file of its own, and an     *)
(* import can bring any table.                                             *)
(*                                                                         *)
(* A key is its place in the order of the keys; 0 is the empty text, and   *)
(* BadKey a key with a character that is no letter.  The header is row 0.  *)
(* A cell can hold several rows, one hiding the others: the grid gives the *)
(* last one attached.                                                      *)
(***************************************************************************)
EXTENDS Naturals, SequencesExt

CONSTANTS
  KeyCount,    \* keys that can be typed are 1..KeyCount
  CmdCount,    \* commands are 1..CmdCount
  Typed,       \* rows the user makes
  Given,       \* tables that can be imported
  MaxRow,      \* bound of the model: rows of the grid
  MaxHidden    \* bound of the model: rows hidden in one cell

ASSUME BoundsAssumption ==
  KeyCount \in Nat /\ CmdCount \in Nat /\ MaxRow \in Nat \ {0} /\ MaxHidden \in Nat

(* The bound does not cut off a file: the grid grows as it needs to.       *)
ASSUME RoomAssumption == KeyCount <= MaxRow

VARIABLES
  grid,        \* grid[i]: the rows attached at row i, the visible one last
  file,        \* fast_input.json
  saving,      \* the running save_fast_input_config()
  dict,        \* m_dict of the installed DictFast
  saved,       \* the grid has not changed since it was saved or loaded
  versions     \* the tables that were ever written to the own file in full

fastInput == <<grid, file, saving, dict, saved, versions>>

Keys == 1..KeyCount
BadKey == KeyCount + 1
Maps == UNION {[ks -> 1..CmdCount] : ks \in SUBSET (1..BadKey)}
Row == [key : 0..BadKey, cmd : 0..CmdCount]
ASSUME InputAssumption == Typed \subseteq Row /\ Given \subseteq Maps
EmptyRow == [key |-> 0, cmd |-> 0]
NoMap == [k \in {} |-> 0]
File(kind, rows) == [kind |-> kind, rows |-> rows]
Idle == [at |-> "idle", rows |-> NoMap]

Restricted(m, ks) == [k \in DOMAIN m \cap ks |-> m[k]]

----------------------------------------------------------------------------
(* The grid.                                                               *)

Occupied(g) == {i \in 1..MaxRow : g[i] # <<>>}

(* grid_get_num_rows(): the first row without a widget.                    *)
NumRows(g) == Min({i \in 1..(MaxRow + 1) : i \notin Occupied(g)})

(* grid_add_row() for rows from n on, whatever is there.                   *)
Attached(g, n, rows) ==
  [i \in 1..MaxRow |->
     IF i - n + 1 \in DOMAIN rows /\ i >= n THEN Append(g[i], rows[i - n + 1]) ELSE g[i]]

(* The rows a loaded table becomes, in the order of its keys.              *)
RowsOf(m) ==
  [j \in 1..Cardinality(DOMAIN m) |->
     LET k == CHOOSE k \in DOMAIN m : Cardinality({x \in DOMAIN m : x <= k}) = j
     IN  [key |-> k, cmd |-> m[k]]]

NoRows == [i \in 1..MaxRow |-> <<>>]
Visible(g, i) == Last(g[i])

(* Mutant of Saveable: any key will do.                                    *)
SaveableAny(r) == r.key # 0 /\ r.cmd # 0

(* Rows without a key or a command, and keys no one can type, are skipped. *)
Saveable(r) == r.key # 0 /\ r.cmd # 0 /\ r.key \in Keys

(* The table of the visible rows in is: a key's last row counts.           *)
TableOf(g, is) ==
  LET rows(k) == {i \in is : Saveable(Visible(g, i)) /\ Visible(g, i).key = k}
  IN  [k \in {k \in 1..BadKey : rows(k) # {}} |-> Visible(g, Max(rows(k))).cmd]

(* Mutant of Collected: the last row is left out.                          *)
CollectedShort(g) == TableOf(g, {i \in Occupied(g) : i + 1 < NumRows(g)})

(* The loop of save_fast_input_config(): rows up to the first hole.        *)
Collected(g) == TableOf(g, {i \in Occupied(g) : i < NumRows(g)})

----------------------------------------------------------------------------
(* Loading and saving.                                                     *)

(* Mutant of Load: what is there of a torn file is used.                   *)
LoadPart(f) == f.rows

(* load_fast_input_config(): no regular file, or no JSON, is no table.     *)
Load(f) == IF f.kind = "whole" THEN f.rows ELSE NoMap

(* setup_fast_input_handlers(): the file's rows, or an empty one.          *)
Opened(f) == Attached(NoRows, 1, IF Load(f) = NoMap THEN <<EmptyRow>> ELSE RowsOf(Load(f)))

Changed(g) == grid' = g /\ saved' = FALSE /\ UNCHANGED <<file, saving, dict, versions>>
Ready == saving.at = "idle"

Edit(i, r) == Ready /\ grid[i] # <<>> /\ Changed([grid EXCEPT ![i] = Append(Front(@), r)])

(* The delete button of a row takes it away and leaves its place empty.    *)
Delete(i) == Ready /\ grid[i] # <<>> /\ Changed([grid EXCEPT ![i] = Front(@)])

New == Ready /\ NumRows(grid) <= MaxRow /\ Changed(Attached(grid, NumRows(grid), <<EmptyRow>>))

(* The clear button: as many rows as the grid seems to have are removed    *)
(* from the top, those after a hole move up, and an empty row is added.    *)
Clear ==
  LET n == NumRows(grid) - 1
  IN  /\ Ready
      /\ Changed(Attached([i \in 1..MaxRow |-> IF i + n <= MaxRow THEN grid[i + n] ELSE <<>>],
                          1, <<EmptyRow>>))

Import ==
  \E m \in Given : LET rows == RowsOf(m) IN
      /\ Ready /\ NumRows(grid) + Len(rows) - 1 <= MaxRow
      /\ \A i \in DOMAIN grid : Len(grid[i]) <= MaxHidden
      /\ Changed(Attached(grid, NumRows(grid), rows))

(* save_fast_input_config(): the old file goes first; or the directory, or *)
(* the removal, fails and nothing happens.                                 *)
Removes ==
  /\ Ready
  /\ saving' = [at |-> "removed", rows |-> Collected(grid)]
  /\ file' = File("absent", NoMap)
  /\ UNCHANGED <<grid, dict, saved, versions>>

(* open(), which may fail.                                                 *)
Opens ==
  /\ saving.at = "removed"
  /\ \/ /\ saving' = [saving EXCEPT !.at = "opened"]
        /\ file' = File("torn", NoMap)
     \/ saving' = Idle /\ UNCHANGED file
  /\ UNCHANGED <<grid, dict, saved, versions>>

(* write(), of everything or of a part.                                    *)
Writes ==
  /\ saving.at = "opened" /\ saving' = Idle
  /\ \/ /\ file' = File("whole", saving.rows)
        /\ saved' = TRUE /\ versions' = versions \cup {saving.rows}
     \/ \E k \in 0..KeyCount :
          /\ file' = File("torn", Restricted(saving.rows, 1..k))
          /\ UNCHANGED <<saved, versions>>
  /\ UNCHANGED <<grid, dict>>

(* The window is closed, or its process dies, wherever it is; and opened.  *)
Reopen ==
  /\ saving' = Idle
  /\ grid' = Opened(file)
  /\ saved' = (file.kind = "whole")
  /\ UNCHANGED <<file, dict, versions>>

(* DictFast(), in the engine's process; and its deletion.                  *)
Loads == dict' = Load(file) /\ UNCHANGED <<grid, file, saving, saved, versions>>
Drops == dict' = NoMap /\ UNCHANGED <<grid, file, saving, saved, versions>>

FastInputInit ==
  /\ \E m \in Maps :
       DOMAIN m \subseteq Keys /\ file = File("whole", m) /\ versions = {m}
  /\ grid = Opened(file)
  /\ saving = Idle /\ dict = NoMap /\ saved = TRUE

Window ==
  \/ \E i \in 1..MaxRow : Delete(i) \/ \E r \in Typed : Edit(i, r)
  \/ New \/ Clear \/ Import \/ Removes \/ Opens \/ Writes \/ Reopen

----------------------------------------------------------------------------
(* Correctness.                                                            *)

FastInputTypeOK ==
  /\ grid \in [1..MaxRow -> Seq(Row)]
  /\ file \in [kind : {"absent", "torn", "whole"}, rows : Maps]
  /\ saving \in [at : {"idle", "removed", "opened"}, rows : Maps]
  /\ dict \in Maps /\ saved \in BOOLEAN /\ versions \subseteq Maps

(* The own file has the rows the window shows, after every save that went  *)
(* through and every opening of the window, as long as nothing was changed *)
(* since; unless a deleted row left a hole, after which rows are shown and *)
(* not saved.                                                              *)
SavedIsShown ==
  Ready /\ saved /\ file.kind = "whole" /\ NumRows(grid) > Cardinality(Occupied(grid))
    => Load(file) = TableOf(grid, Occupied(grid))

(* Whatever was imported or typed into the grid, a key in the own file can *)
(* be typed during a composition: it consists of letters.                  *)
FileHasTypableKeys == DOMAIN file.rows \subseteq Keys

(* The engine's table is empty or one that was saved in full: a load that  *)
(* comes into a save, or after an interrupted one, never gets half of it.  *)
NeverHalfLoaded == dict = NoMap \/ dict \in versions
=============================================================================
