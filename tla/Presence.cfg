SPECIFICATION ServerSpec
CONSTANTS
  Pax = {p1}
  Socks = {s1, s2}
  NoPax = NoPax
  Instances = {i1, i2}
  Desk = i1
  Stale = 2
  MaxOrders = 1
  MaxFrames = 1
INVARIANTS
  PresenceInv
PROPERTIES
  PresencePromised
  DepartureNoticed
  ClusterConverges
CHECK_DEADLOCK FALSE
