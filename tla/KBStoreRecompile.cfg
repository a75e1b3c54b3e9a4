\* A scope with glossary files, all of whose articles are recompiled.
SPECIFICATION Spec
CONSTANTS
  None = None
  NoSource = NoSource
  Proc = {p1}
  Id <- GlossId
  Source = {1, 2}
  TreeSource = {1, 2}
  Glossary = {2}
  Content = {"a", "g", "h", "u"}
  CanHold <- GlossCanHold
  Alt <- MCAlt
  Front <- GlossFront
  Slug = {10, 11}
  Text <- NoText
  HandFed = {}
  Menu = {"build", "recompile"}
  MaxCommands = 2
INVARIANTS
  GlossaryStaysVerbatim
ACTION_CONSTRAINT EditBetweenCommands
CHECK_DEADLOCK FALSE
