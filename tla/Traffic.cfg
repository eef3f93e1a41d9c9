SPECIFICATION TrafficSpec
CONSTANTS
  Posts = {u1}
  MaxSample = 2
  MaxUnread = 2
  Callers = {c1, c2}
  Hints = {h1}
  LiveGates = {g1}
  NoGate = NoGate
  DefaultGate = DefaultGate
  Threshold = 2
  OpenFor = 2
  CacheFor = 1
  WeatherFor = 1
  StaleFor = 2
  AnswerWithin = 1
  Requests = {q1, q2, q3}
  MaxRequests = 2
  Window = 3
INVARIANTS
  TrafficInv
PROPERTIES
  MapFollows
  CircuitCloses
  LimitLifts
CHECK_DEADLOCK FALSE
