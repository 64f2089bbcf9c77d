SPECIFICATION OwnerSpec
CONSTANTS
  a = a  b = b  c = c  d = d
  Ids = {a, b}
  Teams = {t1}
  Clients = {c1, c2}
  Tokens = {}
  NoToken = NoToken
  GrantRoles = {"owner", "admin"}
  SeatLimits = {2}
  MaxOwned = 1
SYMMETRY Symmetry
INVARIANTS AlwaysOwner
CHECK_DEADLOCK FALSE
