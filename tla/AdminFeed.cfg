SPECIFICATION BoardSpec
CONSTANTS
  Pax = {p1}
  Admins = {a1}
  Polls = {i1, i2}
  MaxQueue = 3
  Passengers = {a, b}
  Records <- SomeRecords
  Fetches = {f1, f2}
  MaxUrgent = 1
  Nobody = Nobody
  Travellers = {x, y}
  Urgent = {y}
  Places = {h1, h2}
  Fields = {k1, k2}
  NoOne = NoOne
INVARIANTS
  FeedInv
  BoardInv
PROPERTIES
  ViewConverges
  RosterConverges
CHECK_DEADLOCK FALSE
