SPECIFICATION LinksSpec
CONSTANTS
  a = a  b = b  c1 = c1  c2 = c2
  i1 = i1  i2 = i2  i3 = i3
  Clients = {c1}
  Ids = {i1, i2, i3}
  Names = {a}
  Forms = {"plain", "upper", "accented", "wide"}
  Rels = {"relates"}
  Contents <- TwoContents
  Branches = {"open"}
  Grants <- FullGrants
  MaxVersion = 2
SYMMETRY Symmetry
INVARIANTS EdgesMirrorContent NoMissedHeal TitlesAreUnique
PROPERTIES TombstoneBound
