---------------------------- MODULE LookupTable ----------------------------
(***************************************************************************)
(* The candidate list of one engine: class LookupTable of Engine.cpp over  *)
(* the IBusLookupTable of libibus.  A table is a record                    *)
(*   cands   the candidates, in the order they were appended; a candidate  *)
(*           has its text and the attribute isPinyin, the two halves the   *)
(*           program keeps in m_table and in m_candidateAttrs;             *)
(*   cursor  the 0-based position libibus keeps in the list.               *)
(* The list is round (Engine.cpp:636): paging and cursor keys wrap.        *)
(*                                                                         *)
(* libibus lets the cursor of an empty list drift.  Nothing can be         *)
(* selected from an empty list wherever its cursor is, and the program     *)
(* clears the list before it fills it, so the cursor stays 0 here.         *)
(***************************************************************************)
EXTENDS Integers, Sequences

CONSTANTS
  PageSize,    \* ibus_lookup_table_set_page_size: 5 in the program
  GuintRange   \* number of values of a guint: 2^32 in the program

ASSUME PageSizeAssumption == PageSize \in Nat \ {0}
ASSUME GuintAssumption == GuintRange \in Nat \ {0}

(* The list the constructor creates, and what Clear() leaves.              *)
EmptyTable == [cands |-> <<>>, cursor |-> 0]

(* Mutant of Filled: the second candidate is preselected, alone or not.    *)
FilledAtSecond(list) == [cands |-> list, cursor |-> IF list = <<>> THEN 0 ELSE 1]

(* Clear() and one Append() per candidate.                                 *)
Filled(list) == [cands |-> list, cursor |-> 0]

Size(t) == Len(t.cands)

CursorInPage(t) == t.cursor % PageSize
PageStart(t) == t.cursor - CursorInPage(t)
LastPageStart(t) == Size(t) - 1 - ((Size(t) - 1) % PageSize)

(* The candidates on the page of the cursor: what Update() sends to the    *)
(* panel.                                                                  *)
PageLength(t) ==
  IF PageStart(t) + PageSize <= Size(t) THEN PageSize ELSE Size(t) - PageStart(t)

Moved(t, c) == IF t.cands = <<>> THEN t ELSE [t EXCEPT !.cursor = c]

(* A position beyond the end becomes the last candidate.                   *)
Within(t, c) == IF c < Size(t) THEN c ELSE Size(t) - 1

CursorDown(t) == Moved(t, IF t.cursor + 1 < Size(t) THEN t.cursor + 1 ELSE 0)
CursorUp(t)   == Moved(t, IF t.cursor > 0 THEN t.cursor - 1 ELSE Size(t) - 1)

PageDown(t) ==
  Moved(t, IF PageStart(t) = LastPageStart(t)
             THEN CursorInPage(t)
             ELSE Within(t, t.cursor + PageSize))

PageUp(t) ==
  Moved(t, IF t.cursor < PageSize
             THEN Within(t, LastPageStart(t) + t.cursor)
             ELSE t.cursor - PageSize)

Moves(t) == {CursorDown(t), CursorUp(t), PageDown(t), PageUp(t)}

(* Mutant of GlobalCursor: digits count from 0.                            *)
GlobalCursorFromZero(t, index) ==
  IF index < 0 THEN t.cursor
  ELSE (t.cursor + (index - CursorInPage(t))) % GuintRange

(* GetGlobalCursor(index): the cursor itself for a negative index, else    *)
(* the index-th candidate of the cursor's page counted from 1, computed    *)
(* in guint arithmetic: index 0 is the candidate before the page, and      *)
(* wraps on the first page.                                                *)
GlobalCursor(t, index) ==
  IF index < 0 THEN t.cursor
  ELSE (t.cursor + (index - CursorInPage(t)) - 1) % GuintRange
=============================================================================
