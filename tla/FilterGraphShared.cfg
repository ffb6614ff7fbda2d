\* A socket with several plugs of which one is disconnected.
CONSTANTS
  n1 = n1
  n2 = n2
  n3 = n3
  Nodes = {n1, n2, n3}
  NPlugs <- Inputs
  Matches <- SomeMatches
  NoNode = NoNode
  MaxUsers = 2
  MaxHeld = 1
  MaxWaste = 1
SPECIFICATION Spec
INVARIANT RemoteNodeKnown
CHECK_DEADLOCK FALSE
