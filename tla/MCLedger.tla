------------------------------ MODULE MCLedger ------------------------------
(***************************************************************************)
(* A small instance of Ledger for TLC.                                     *)
(***************************************************************************)
EXTENDS Ledger, TLC

CONSTANTS c1, s1, s2, k1, d1, b1, b2

Symmetry == Permutations({s1, s2}) \cup Permutations({b1, b2})
=============================================================================
