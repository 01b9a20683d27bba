SPECIFICATION AuthSpec
CONSTANTS
  s1 = s1
  s2 = s2
  u1 = u1
  r1 = r1
  r2 = r2
  b1 = b1
  Sessions = {s1}
  Users = {u1}
  Browsers = {b1}
  Requests = {r1, r2}
  BrowserOf <- OneBrowser
  RefreshTTL = 2
  MaxTime = 4
  NoRow = NoRow
  NoToken = NoToken
SYMMETRY Symmetry
CHECK_DEADLOCK FALSE
INVARIANTS
  AuthInv
  AccessEnds
  RetiredIsRefused
  CookieIsCurrent
PROPERTIES
  LogoutIsFinal
