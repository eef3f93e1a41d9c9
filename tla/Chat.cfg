SPECIFICATION ChatSpec
CONSTANTS
  Readers = {r1}
  Texts = {t1}
  Other = Other
  MaxSent = 3
  Cap = 3
  HelloTail = 1
  PollTail = 2
  PageCap = 2
  MaxSends = 2
  MaxFrames = 2
  MaxBoth = 4
INVARIANTS
  PageInv
PROPERTY HistoryReachesPage
