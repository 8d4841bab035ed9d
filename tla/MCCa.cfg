CONSTANTS
  a1 = a1
  g1 = g1
  g2 = g2
  w1 = w1
  Admins = {a1}
  Agents = {g1, g2}
  Workers = {w1}
  MaxMounts = 3
  MaxRot = 2
SPECIFICATION MCFairSpec
INVARIANTS
  PrimaryServes
PROPERTIES
  RetiredAfterGrace
  OldIsRetired
  KeyIsRepaired
