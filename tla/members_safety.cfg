SPECIFICATION MCSpec
CONSTANTS
  a = a  b = b  c = c  d = d
  Ids = {a, b, c, d}
  Teams = {t1}
  Clients = {c1, c2}
  Tokens = {k1}
  NoToken = NoToken
  GrantRoles = {"owner", "admin"}
  SeatLimits = {2}
  MaxOwned = 1
SYMMETRY Symmetry
INVARIANTS OwnerKept ListedAreMembers SeatsOvershootBounded
PROPERTIES OwnersByOwners
CHECK_DEADLOCK FALSE
