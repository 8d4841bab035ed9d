CONSTANTS
  r1 = r1
  r2 = r2
  r3 = r3
  Reqs = {r1, r2, r3}
  Interval = 1
  TTL = 2
  MaxTime = 3
SPECIFICATION Spec
SYMMETRY Symmetry
INVARIANTS
  TokensNeedApproval
  PresentationBindsRequest
  RequestRedeemedOnce
CHECK_DEADLOCK FALSE
