---------------------------- MODULE Composition ----------------------------
(***************************************************************************)
(* What the input method promises the application it types into, whatever  *)
(* keys, clicks, focus changes, option changes and background threads do:  *)
(* letters typed into a composition leave it in one way only.  They are    *)
(* erased or cancelled by the user, or delivered as they were typed, or    *)
(* delivered as a text some dictionary offers for exactly these letters;   *)
(* they are delivered once, and what else is delivered (a key passed on,   *)
(* punctuation, recognised speech) leaves the composition alone.           *)
(*                                                                         *)
(* pending is the composition of each engine; out is what the last step    *)
(* delivered to the application.                                           *)
(***************************************************************************)
EXTENDS Integers, Sequences

CONSTANTS
  Engines,
  Letters,
  Offers      \* Offers[s]: the texts the dictionaries have for the letters s

VARIABLES pending, out

Event(kind, text) == [kind |-> kind, text |-> text]
Passed == <<Event("pass", "key")>>
Leaves(e) == pending' = [pending EXCEPT ![e] = <<>>]

Init == pending = [e \in Engines |-> <<>>] /\ out = <<>>

Compose(e) ==
  /\ \E l \in Letters : pending' = [pending EXCEPT ![e] = Append(@, l)]
  /\ out' = <<>>

Erase(e) ==
  /\ pending[e] # <<>>
  /\ pending' = [pending EXCEPT ![e] = SubSeq(@, 1, Len(@) - 1)]
  /\ out' = <<>>

Choose(e) ==
  /\ \E t \in Offers[pending[e]] : out' = <<Event("candidate", t)>>
  /\ Leaves(e)

Cancel(e) == Leaves(e) /\ out' = <<>>

Spell(e) == Leaves(e) /\ out' = <<Event("typed", pending[e])>>

PassOn == pending' = pending /\ out' = Passed

Insert ==
  /\ pending' = pending
  /\ \E kind \in {"punctuation", "speech"} :
       out' # <<>> /\ \A k \in DOMAIN out' : out'[k].kind = kind

Rest == pending' = pending /\ out' = <<>>

Next ==
  \/ \E e \in Engines : Compose(e) \/ Erase(e) \/ Choose(e) \/ Cancel(e) \/ Spell(e)
  \/ PassOn \/ Insert \/ Rest

Spec == Init /\ [][Next]_<<pending, out>>
=============================================================================
