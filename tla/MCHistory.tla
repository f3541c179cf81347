------------------------------ MODULE MCHistory ------------------------------
(***************************************************************************)
(* Instances of HistoryItems for TLC.                                      *)
(***************************************************************************)
EXTENDS HistoryItems, TLC

Symmetry == Permutations(HistoryIds)
=============================================================================
