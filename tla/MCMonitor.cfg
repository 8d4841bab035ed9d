CONSTANTS
  c2 = c2
  c3 = c3
  s1 = s1
  s2 = s2
  i1 = i1
  o1 = o1
  m1 = m1
  Creds = {c2, c3}
  Legacy = {}
  Dependent = {c2, c3}
  ById <- MCById
  Slots = {s1, s2}
  MaxLists = 1
  Issuers = {i1}
  Operators = {o1}
  Partners = {}
  Monitors = {m1}
  Verifiers = {}
  RevokeLimit = 1
  PollLimit = 1
SPECIFICATION MCFairSpec
PROPERTIES
  ParentRevocationArrives
CHECK_DEADLOCK FALSE
