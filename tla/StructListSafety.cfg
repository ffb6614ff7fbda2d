\* Two lists with two objects, which grow from 2 to 3 and 4.
CONSTANTS
  Lists = {l1, l2}
  Objects = {o1, o2}
  Empty = Empty
  Ranks <- SomeRanks
  MinRank <- Int32Min
  Small = 2
  First = 2
  MaxLength = 3
  MaxRefs = 3
SPECIFICATION Spec
SYMMETRY Symmetry
INVARIANTS
  InsideRoom
  OneOwner
PROPERTIES
  MovesToPlace
  SortsByRank
  RefinesLists
CHECK_DEADLOCK FALSE
