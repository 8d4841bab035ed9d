CONSTANTS
  r1 = r1
  a1 = a1
  w1 = w1
  Signers = {r1}
  Admins = {a1}
  Workers = {w1}
  MaxKeys = 2
  TokenTTL = 2
  Grace = 3
  MaxReq = 1
  Interval = 2
  MaxTime = 3
SPECIFICATION FairSpec
INVARIANTS
  OneActiveKey
  LiveTokensVerify
PROPERTIES
  ImportedKept
  DueIsRotated
CHECK_DEADLOCK FALSE
