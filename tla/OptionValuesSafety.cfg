\* Two sets that may share options, two keys, and numbers of one kind; the text
\* of the defaults and of the policy is not one that the user sets.
CONSTANTS
  intent = intent
  precalculation = precalculation
  zero = zero
  Ids = {o1, o2}
  Sets = {node, user}
  Keys = {intent, precalculation}
  Texts = {one}
  Rules = {zero}
  Objects = {profile}
  Kinds = {"int"}
  Numbers = {5}
  Positions = {0, 2}
  Defaults <- SomeDefaults
  Gone = Gone
  MaxListed = 2
SPECIFICATION Spec
CONSTRAINT Bounded
VIEW WithoutCall
SYMMETRY SetSymmetry
INVARIANT KeysOnce
PROPERTY RefinesStore
CHECK_DEADLOCK FALSE
