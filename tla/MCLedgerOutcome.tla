--------------------------- MODULE MCLedgerOutcome ---------------------------
(***************************************************************************)
(* A small instance of LedgerOutcome for TLC: the entry block e and two    *)
(* forks above it, f1 and g1-g2.                                           *)
(***************************************************************************)
EXTENDS LedgerOutcome, TLC

CONSTANTS b1, e, f1, g1, g2

MCNumber == e :> 1 @@ f1 :> 2 @@ g1 :> 2 @@ g2 :> 3
MCParent == e :> None @@ f1 :> e @@ g1 :> e @@ g2 :> g1
MCMined == e :> 1 @@ f1 :> 1 @@ g1 :> 1 @@ g2 :> 2
MCEntryOf == b1 :> e
=============================================================================
