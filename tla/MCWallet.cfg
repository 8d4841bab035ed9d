CONSTANTS
  o1 = o1
  r1 = r1
  r2 = r2
  Offers = {o1}
  Reqs = {r1, r2}
  MaxTok = 3
  OfferTTL = 1
  AccessTTL = 1
  GrantTTL = 2
  MaxTime = 2
SPECIFICATION FairSpec
INVARIANTS
  TypeOK
  OneUnspentRefresh
PROPERTIES
  DeadGrantIsInert
  RightsNeverGrow
  OneCredential
  RequestsEnd
