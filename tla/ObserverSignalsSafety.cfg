\* Handlers that change the lists and send signals themselves.
CONSTANTS
  a = a
  b = b
  c = c
  h = h
  Objects = {a, b, c}
  Handlers = {h}
  Forward = Forward
  Connections <- Tree
  MaxDisabled = 1
  MaxNested = 2
  MaxDepth = 4
SPECIFICATION FairSpec
INVARIANTS
  ServesInOrder
  EnabledAgain
PROPERTIES
  SignalReturns
CHECK_DEADLOCK FALSE
