--------------------------- MODULE MCObserverRefs ---------------------------
(***************************************************************************)
(* Instances of ObserverRefs for TLC.                                      *)
(***************************************************************************)
EXTENDS ObserverRefs, TLC

\* Objects differ in nothing, and neither do signal functions.
Symmetry == Permutations(Objects) \cup Permutations(Signals)
==============================================================================
