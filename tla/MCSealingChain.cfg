CONSTANTS
  s1 = s1
  s2 = s2
  e1 = e1
  e2 = e2
  noEvent = noEvent
  w1 = w1
  w2 = w2
  m1 = m1
  c1 = c1
  Sealers = {s1, s2}
  Tickers = {s1}
  BatchSize = 2
  MaxId = 3
  MaxInFlight = 2
  MaxChain = 6
  MaxFail = 1
  Events = {}
  NoEvent = noEvent
  Workers = {w1, w2}
  Sinks = {m1}
  MqttSinks = {m1}
  Subscribers = {c1}
  Buffer = 1
  SubBuffer = 1
  MaxRetries = 2
SPECIFICATION MCSpec
INVARIANTS
  ChainIntact
CHECK_DEADLOCK FALSE
