\* A code file, and a glossary file that changes its id, version and form, built or handed to an
\* agent; articles are deleted, recompiled, given vectors and cleared, and commands die.
SPECIFICATION Spec
CONSTANTS
  None = None
  NoSource = NoSource
  Proc = {p1}
  Id <- GlossId
  Source = {1, 2}
  TreeSource = {1, 2}
  Glossary = {2}
  Content = {"a", "g", "h", "u"}
  CanHold <- GlossCanHold
  Alt <- MCAlt
  Front <- GlossFront
  Slug = {10, 11}
  Text <- NoText
  HandFed = {}
  Menu = {"build", "prepare", "accept", "delete", "recompile", "vector", "clear", "crash"}
  MaxCommands = 3
INVARIANTS
  CacheNamesArticle
  IndexMatchesWiki
  VectorsHaveArticles
  BuildCoversTree
  OneArticlePerSource
ACTION_CONSTRAINT EditBetweenCommands
CHECK_DEADLOCK FALSE
