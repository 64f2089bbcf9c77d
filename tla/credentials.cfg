SPECIFICATION MCSpec
CONSTANTS
  Ids = {i1, i2}
  Emails = {e}
  Passwords = {p}
  ResetTokens = {k1, k2}
  Sessions = {s1}
  Calls = {c1, c2}
  None = None
  Clients = {x}
  Uris = {u, v}
  UriLists = {{u}, {v}}
  Teams = {t}
  Personal = Personal
  Bogus = Bogus
  Tickets = {n1}
  Codes = {d1, d2}
  Grants = {g1, g2}
  Flows = {f1, f2}
SYMMETRY Symmetry
INVARIANTS EntryIsConfirmed UsedTokensAreDead SpentOnce GrantsAreConsented
PROPERTIES CodesGoWhereRegistered RevocationIsExact
CHECK_DEADLOCK FALSE
