\* Two processes whose commands overlap in every way.
SPECIFICATION Spec
CONSTANTS
  None = None
  NoSource = NoSource
  Proc = {p1, p2}
  Id <- OverId
  Source = {1, 3}
  TreeSource = {1}
  Glossary = {}
  Content = {"a", "b"}
  CanHold <- OverCanHold
  Alt <- MCAlt
  Front <- OverFront
  Slug = {10, 11}
  Text <- OverText
  HandFed = {}
  Menu = {"build", "ingest", "delete"}
  MaxCommands = 3
INVARIANTS
  RetiredStayFree
  ScopeIsConsistent
  IdentityInv
SYMMETRY OverSymmetry
CHECK_DEADLOCK FALSE
