SPECIFICATION InviteSpec
CONSTANTS
  Links = {l1}
  Devices = {d1}
  NoDevice = NoDevice
  Redeems = {r1}
  Clerks = {c1}
  MaxReset = 1
INVARIANT DeletionSticks
