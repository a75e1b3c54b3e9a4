\* A server that lists two files which a writer changes, within a grain and across grains.
SPECIFICATION Spec
CONSTANTS
  Proc = {w, s}
  Writer = {w}
  Server = {s}
  Id = {i1, i2}
  Text = {a, b}
  Bad = Bad
  Blank = Blank
  None = None
  Size <- MCSize
  Grain = 2
  Window = 2
  Rewrites = TRUE
  MaxNow = 3
  MaxWrites = 3
  MaxCalls = 2
INVARIANTS
  TypeOK
  AnswerIsCurrent
  TrustedIsExact
  CacheSettles
SYMMETRY Symmetric
CHECK_DEADLOCK FALSE
