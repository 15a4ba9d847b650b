------------------------- MODULE MCNarrativeJobQueue -------------------------
(***************************************************************************)
(* Small instances of NarrativeJobQueue for TLC.                           *)
(***************************************************************************)
EXTENDS NarrativeJobQueue, TLC

CONSTANTS j1, j2, c1, w1, w2, name

\* One source item: its first reading and a later one with fresher details.
TwoReadings == {[content |-> "a", detail |-> 1], [content |-> "a", detail |-> 2]}

\* ... and a reading whose immutable part differs, as after an edit.
EditedReadings == {[content |-> "a", detail |-> 1], [content |-> "b", detail |-> 1]}

OneReading == {[content |-> "a", detail |-> 1]}

\* Two service processes run their worker under the same default name.
SameName == [w \in Workers |-> name]

Symmetry == Permutations(Workers) \cup Permutations(Jobs)
=============================================================================
