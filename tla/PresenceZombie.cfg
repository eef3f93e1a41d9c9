SPECIFICATION Spec
CONSTANTS
  Pax = {p1}
  Socks = {s1}
  NoPax = NoPax
INVARIANT OnlyOpenConnections
