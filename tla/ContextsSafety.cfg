\* A plain option and one that holds an object.
CONSTANTS
  a = a
  b = b
  p = p
  q = q
  r = r
  Names = {plain, effect}
  Objects = {effect}
  Values = {1, 2}
  Unset = Unset
  Cores = {a, b}
  Main = a
  Fallback = b
  Unknown = Unknown
  NoCore = NoCore
  Profiles = {p, q, r}
  NoImage = NoImage
  Layouts = {rgb, other}
  Linkable <- SomeLinks
  Convertible = {rgb}
  NoContext = NoContext
  MaxChanges = 4
SPECIFICATION Spec
INVARIANTS
  CacheHonest
  FreshContext
  FailsForCause
CHECK_DEADLOCK FALSE
