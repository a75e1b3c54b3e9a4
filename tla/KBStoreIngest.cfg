\* Two code files built or accepted by hand, texts ingested under one label or none; every title can collide.
SPECIFICATION Spec
CONSTANTS
  None = None
  NoSource = NoSource
  Proc = {p1}
  Id <- CodeId
  Source = {1, 2, 3}
  TreeSource = {1, 2}
  Glossary = {}
  Content = {"a", "b", "c"}
  CanHold <- CodeCanHold
  Alt <- MCAlt
  Front <- CodeFront
  Slug = {10, 11}
  Text <- CodeText
  HandFed = {1}
  Menu = {"build", "ingest", "accept"}
  MaxCommands = 3
INVARIANTS
  TypeOK
PROPERTIES
  NoForeignOverwrite
ACTION_CONSTRAINT EditBetweenCommands
CHECK_DEADLOCK FALSE
