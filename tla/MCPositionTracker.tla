------------------------- MODULE MCPositionTracker -------------------------
(***************************************************************************)
(* A small instance of PositionTracker for TLC: a chain of two blocks, one *)
(* BUY in the first.                                                       *)
(***************************************************************************)
EXTENDS PositionTracker, TLC

CONSTANTS b1, e, f1

MCNumber == e :> 1 @@ f1 :> 2
MCParent == e :> None @@ f1 :> e
MCMined == e :> 1 @@ f1 :> 2
MCEntryOf == b1 :> e
=============================================================================
