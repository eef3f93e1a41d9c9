SPECIFICATION SendSpec
CONSTANTS
  Pax = {p1}
  Socks = {s1, s2}
  NoPax = NoPax
  MaxMsg = 3
  Window = 2
  Wares = {w1, w2}
  Channels = {"sms"}
  Addresses = {n1}
  Nothing = Nothing
  Peers = {a, b}
  Mounts = {m1, m2}
  Takes = {t1, t2}
  None = None
  Uploads = {u1, u2}
  Listeners = {l1}
  Encoders = {e1, e2}
  NoOne = NoOne
SYMMETRY Symmetry
INVARIANTS
  PushInv
  DeskInv
  ComposerInv
  VoiceInv
PROPERTIES
  StatusMovesForward
