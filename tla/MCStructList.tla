---------------------------- MODULE MCStructList ----------------------------
(***************************************************************************)
(* Instances of StructList for TLC.                                        *)
(***************************************************************************)
EXTENDS StructList, TLC

\* INT32_MIN and some other ranks.
Int32Min  == -2147483647 - 1
SomeRanks == {Int32Min, 0, 1}

\* Objects differ in nothing, and neither do lists.
Symmetry == Permutations(Objects) \cup Permutations(Lists)
==============================================================================
