SPECIFICATION Spec
CONSTANTS
  a = a  b = b  c1 = c1  c2 = c2
  i1 = i1  i2 = i2  i3 = i3
  Clients = {c1, c2}
  Ids = {i1}
  Names = {a, b}
  Forms = {"plain"}
  Rels = {"relates"}
  Contents <- FewContents
  Branches = {"open", "closed"}
  Grants <- ScopedGrants
  MaxVersion = 3
SYMMETRY Symmetry
INVARIANTS HistoryIsComplete
PROPERTIES BurnedForever TombstoneTellsHistory NoLostUpdate StoreSpec
