\* Two files, one token of the semaphore, two events of room.
SPECIFICATION Spec
CONSTANTS
  File = {f, g}
  Watched = {f, g}
  Content = {a, b}
  None = None
  Concurrency = 1
  Globs = 1
  Cap = 2
  MaxEdits = 3
INVARIANTS
  TypeOK
  SomeJobMoves
  RestIsBuilt
PROPERTIES
  BuildEnds
  ChangesAreBuilt
CHECK_DEADLOCK FALSE
