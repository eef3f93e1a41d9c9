SPECIFICATION SafetySpec
CONSTANTS
  Tokens = {t1}
  Ticks = 2
  LongestLife = 3
  CutoverLife = 5
  LastTick = 7
  MaxBoots = 1
  Pages = {p1, p2}
  MaxShare = 3
  MaxReset = 1
  Readers = {r1, r2}
  Texts = {x1}
  Other = Other
  MaxSent = 3
  Cap = 2
  Processes = {"domestic_us", "unknown", "international_arrival_us", "international_connection"}
  Seats = {"front"}
  Destinations = {"transit"}
  Taxis = {0, 20}
  Minutes = 10
  LastMinute = 50
  Tabs = {b1, b2}
  Endpoints = {e1, e2}
  AwayFor = 2
  MaxAway = 2
  Consoles = {c1}
  Pax = pax
  Nobody = Nobody
  MaxCall = 3
  LastRank = 2
  Polls = {}
  NoBooking = NoBooking
  MaxWrites = 3
  MaxQueued = 1
  MaxCallFrames = 2
INVARIANTS
  SessionInv
  GuidanceInv
  ChatInv
  AwayInv
  CallInv
  Consent
PROPERTIES
  NeverReplaced
  RefusedStays
  ChatPromised
  LaterNeverLonger
CHECK_DEADLOCK FALSE
