------------------------------- MODULE MCZfs --------------------------------
(***************************************************************************)
(* Zfs for TLC: b is a name of file systems, a and c serve volumes too.    *)
(***************************************************************************)
EXTENDS Zfs, TLC

CONSTANTS a, b, c

MCVolNames == {a, c}
MCFsNames == {a, b, c}
MCSymmetry == Permutations({a, c})
=============================================================================
