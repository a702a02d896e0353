------------------------------ MODULE MCBlock ------------------------------
(***************************************************************************)
(* Block for TLC: a and b are named in exports and in access groups alike, *)
(* so that the two ways of granting access meet at one NodeACL.            *)
(***************************************************************************)
EXTENDS Block, TLC

CONSTANTS a, b, v, w

MCSymmetry == Permutations({a, b}) \cup Permutations({v, w})

MCVolSymmetry == Permutations({v, w})

\* How the last call ended matters to no later one.
MCView == <<vol, gen, cfs, saved, lost, uneven, unsaved>>
=============================================================================
