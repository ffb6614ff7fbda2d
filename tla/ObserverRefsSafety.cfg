\* Three objects, each of which may observe each.
CONSTANTS
  Objects = {x1, x2, x3}
  Signals = {f}
  AnySignal = AnySignal
  MaxUsers = 2
SPECIFICATION Spec
SYMMETRY Symmetry
INVARIANTS
  Mirror
  RefsCounted
  LivesWhileUsed
  NoDangling
CHECK_DEADLOCK FALSE
