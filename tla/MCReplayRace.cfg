CONSTANTS
  c1 = c1
  c2 = c2
  u1 = u1
  r1 = r1
  r2 = r2
  a1 = a1
  f1 = f1
  Codes = {c1}
  Users = {u1}
  UserOf <- MCUserOf
  Reqs = {r1, r2}
  MaxTok = 3
  RefreshTTL = 1
  MaxTime = 0
  Tokens = {a1}
  Refresh = {f1}
  Calls = {r1, r2}
  TTLs = {2}
  CacheTTL = 2
  NegTTL = 1
  MaxClock = 0
SPECIFICATION MCSpec
SYMMETRY Symmetry
INVARIANTS
  ReplayRevokesFamily
