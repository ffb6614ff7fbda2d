\* A root node and two filters with two and one inputs.
CONSTANTS
  n1 = n1
  n2 = n2
  n3 = n3
  Nodes = {n1, n2, n3}
  NPlugs <- Inputs
  Matches <- SomeMatches
  NoNode = NoNode
  MaxUsers = 2
  MaxHeld = 1
  MaxWaste = 1
SPECIFICATION Spec
INVARIANTS
  EdgesHaveTwoEnds
  OwnersCounted
  GoneWithNode
  GraphComplete
  SignalsReachOutputs
CHECK_DEADLOCK FALSE
