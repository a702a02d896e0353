------------------------------ MODULE MCBtrfs -------------------------------
(***************************************************************************)
(* Btrfs for TLC.                                                          *)
(***************************************************************************)
EXTENDS Btrfs, TLC

MCSymmetry == Permutations(Names) \cup Permutations(SnapNames)
=============================================================================
