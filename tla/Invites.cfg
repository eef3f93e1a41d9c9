SPECIFICATION LinksSpec
CONSTANTS
  Links = {l1}
  Devices = {d1, d2}
  NoDevice = NoDevice
  Redeems = {r1, r2}
  Clerks = {c1, c2}
  MaxReset = 1
  Accounts = {a1, a2}
  Tripless = {a2}
  Nobody = Nobody
  MaxAsks = 2
  FlightIds = {f1}
  Requests = {q1, q2}
  DefaultGate = DefaultGate
  Unknown = Unknown
SYMMETRY Symmetry
INVARIANTS
  InviteInv
  RevokeIsFinal
  TripInv
  PagesInv
  NavInv
