\* A writer that never indexes beside a server that keeps the decoded index; two files.
SPECIFICATION Spec
CONSTANTS
  Proc = {w, s}
  Writer = {w}
  Searcher = {s}
  Server = {s}
  Indexer = {}
  Mortal = {}
  MaxSearches = 2
  Id = {i1, i2}
  Text = {a, b}
  Bad = Bad
  Blank = Blank
  None = None
  Size <- MCSize
  Grain = 1
  Window = 1
  Rewrites = FALSE
  MaxNow = 1
  MaxWrites = 3
INVARIANTS
  SearchSeesWiki
SYMMETRY Symmetric
CHECK_DEADLOCK FALSE
