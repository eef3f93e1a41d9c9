SPECIFICATION FeedSpec
CONSTANTS
  Pax = {p1}
  Admins = {a1}
  Polls = {i1}
  MaxQueue = 2
INVARIANTS
  SnapshotIsCurrent
