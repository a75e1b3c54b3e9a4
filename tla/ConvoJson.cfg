\* JSON transcripts, whose turns count the messages that are skipped.
SPECIFICATION ConvSpec
CONSTANTS
  e1 = e1
  e2 = e2
  e3 = e3
  s1 = s1
  s2 = s2
  a1 = a1
  a2 = a2
  Entity = {e1, e2, e3}
  Slug <- MCSlug
  Format = {"json"}
  MaxMessages = 3
  Articles <- MCArticles
  Budgets <- MCBudgets
  Score = {0, 1, 2}
  Skip = 3
  Separator = 3
  Ellipsis = 1
  MinExcerpt = 12
  MaxRanked = 2
  MaxArticleLines = 6
  Scope = {s1, s2}
  Name = {a1, a2}
  Tagged <- MCTagged
  Messages <- MCMessages
  MaxLines = 2
  MaxChanges = 1
  Doc = {1, 2, 3}
  Points = {0, 1, 2}
  Limits = {0, 2}
  RRF = 60
  Unit = 238266
  MinDepth = 20
  MaxDeleted = 1
  Art = {1, 2, 3}
  Label = {1, 2, 3, 4, 5}
  Key <- MCKey
  CategoryLists <- MCLists
  MaxRuns = 2
  MaxFailures = 1
  EntryId = {1, 2, 3}
  Files <- MCFiles
  MaxBuilt = 2
INVARIANT DecisionsFollowTurns
CHECK_DEADLOCK FALSE
