------------------------- MODULE MCTelegramCollection -------------------------
(***************************************************************************)
(* Small instances of TelegramCollection for TLC.                          *)
(***************************************************************************)
EXTENDS TelegramCollection, TLC

CONSTANTS t1, t2

Symmetry == Permutations(Targets)
=============================================================================
