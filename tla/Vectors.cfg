\* Two processes that read, migrate and write; an older kb writes once.
SPECIFICATION Spec
CONSTANTS
  Proc = {p, q}
  Writer = {p}
  Id = {i1, i2}
  Vec = {v}
  None = None
  V1 = V1
  MaxCalls = 3
  MaxForeign = 1
INVARIANTS
  TypeOK
  LoadIsExact
PROPERTIES
  VectorsAreMap
SYMMETRY Symmetric
CHECK_DEADLOCK FALSE
