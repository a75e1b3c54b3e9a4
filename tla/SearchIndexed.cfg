\* Two writers: one indexes what is written, or dies anywhere; the other never indexes, and searches.
SPECIFICATION Spec
CONSTANTS
  Proc = {w, v}
  Writer = {w, v}
  Searcher = {v}
  Server = {}
  Indexer = {w}
  Mortal = {w}
  MaxSearches = 2
  Id = {i1}
  Text = {a, b}
  Bad = Bad
  Blank = Blank
  None = None
  Size <- MCSize
  Grain = 2
  Window = 2
  Rewrites = FALSE
  MaxNow = 2
  MaxWrites = 2
INVARIANTS
  TypeOK
  FreshIsExact
  SearchHeals
  SearchInv
SYMMETRY Symmetric
CHECK_DEADLOCK FALSE
