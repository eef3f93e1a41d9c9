SPECIFICATION PageSpec
CONSTANTS
  LastRank = 2
  Polls = {i1}
  NoBooking = NoBooking
  MaxWrites = 2
  MaxQueued = 1
  Sockets = {s1, s2, s3}
  Starts = {d1, d2}
  NoSocket = NoSocket
  MaxSession = 2
  Keys = {k1, k2}
  Clients = {c1, c2}
  Lines = {s1, s2}
  MaxDoubling = 2
  Absent = Absent
INVARIANTS
  BookingInv
  PdrInv
  ReconnectInv
PROPERTIES
  QueueSettles
  ResumesAtFirst
  Reconnects
CHECK_DEADLOCK FALSE
