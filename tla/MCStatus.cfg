CONSTANTS
  c1 = c1
  c2 = c2
  c3 = c3
  s1 = s1
  s2 = s2
  i1 = i1
  i2 = i2
  o1 = o1
  p1 = p1
  m1 = m1
  v1 = v1
  Creds = {c1, c2, c3}
  Legacy = {c1, c3}
  Dependent = {c2}
  ById <- MCById
  Slots = {s1, s2}
  MaxLists = 2
  Issuers = {i1, i2}
  Operators = {o1}
  Partners = {p1}
  Monitors = {m1}
  Verifiers = {v1}
  RevokeLimit = 2
  PollLimit = 1
SPECIFICATION MCSpec
INVARIANTS
  TypeOK
  ListAgrees
  SlotsAreUnique
  DecisionIsCurrent
  ConfirmedAreRevoked
PROPERTIES
  OnlyLegalLifts
CHECK_DEADLOCK FALSE
