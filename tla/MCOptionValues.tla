----------------------------- MODULE MCOptionValues -----------------------------
(* Defaults as they are in the hash of a node: one of the policy module, which *)
(* is not marked, and one of the colour module, which is.                      *)
EXTENDS OptionValues, TLC
CONSTANTS intent, precalculation, zero

SomeDefaults ==
  LET Default(k, flags) == [key |-> k, kind |-> "text", list |-> FALSE,
                            of |-> <<zero>>, flags |-> flags]
  IN  <<Default(intent, {}), Default(precalculation, {"edit"})>>

CONSTANT MaxListed

\* So many options in one set are enough.
Bounded == \A s \in Sets : Len(sets[s]) <= MaxListed

\* What a step may do and what it does depends on no earlier call.
WithoutCall == <<option, sets, doubled, down>>

\* The sets are alike.
SetSymmetry == Permutations(Sets)
=============================================================================
