CONSTANTS
  u1 = u1
  u2 = u2
  noUser = noUser
  NoUser = noUser
  r1 = r1
  r2 = r2
  Users = {u1, u2}
  Reqs = {r1, r2}
  Interval = 2
  SlowStep = 1
  MaxInterval = 3
  TTL = 2
  MaxTime = 3
  MaxFail = 1
SPECIFICATION Spec
SYMMETRY Symmetry
INVARIANTS
  TokensNeedConsent
  PollsAreSpaced
  CodeRedeemedOnce
CHECK_DEADLOCK FALSE
