SPECIFICATION Spec
CONSTANTS
  Ids = {i1, i2}
  Emails = {e}
  Passwords = {p, q}
  ResetTokens = {k1}
  Sessions = {s1}
  Calls = {c1, c2}
  None = None
INVARIANTS ConfirmedByToken
CHECK_DEADLOCK FALSE
