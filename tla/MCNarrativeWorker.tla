-------------------------- MODULE MCNarrativeWorker --------------------------
(***************************************************************************)
(* Small instances of NarrativeWorker for TLC.                             *)
(***************************************************************************)
EXTENDS NarrativeWorker

CONSTANTS j1, j2, s1, s2, name

OneReading == {[content |-> "a", detail |-> 1]}
=============================================================================
