\* The pattern is a list of two globs.
SPECIFICATION Spec
CONSTANTS
  File = {f}
  Watched = {f}
  Content = {a, b}
  None = None
  Concurrency = 1
  Globs = 2
  Cap = 2
  MaxEdits = 2
PROPERTIES
  ChangesAreBuilt
CHECK_DEADLOCK FALSE
