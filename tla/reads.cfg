SPECIFICATION MCSpec
CONSTANTS
  work = work  other = other  notes = notes
  v = v  w = w
  m1 = m1  m2 = m2  m3 = m3
  Memories = {m1, m2, m3}
  Targets = {v, w}
  Rels = {"relates"}
  Taxonomies <- Tree
  Like <- Wild
  Scopes <- SomeScopes
  Depths = {0, 1}
  Pages <- FewPages
  Size <- OneTwoTwo
  Budget = 3
  TopLimit = 1
  MaxLinks = 1
  MaxWrites = 1
  Nothing = Nothing
SYMMETRY Symmetry
INVARIANTS AnswersStayInScope GraphIsTheNeighbourhood CatalogAddsUp QuietReadsAgree
CHECK_DEADLOCK FALSE
