SPECIFICATION MCSpec
CONSTANTS
  SeqMod = 16
  TX_SLOTS = 4
  RX_CAP = 1
  WND_MAX = 4
  MAX_RETRIES = 1
  Byte = {1, 2, 3, 4}
  Writes <- MCWrites
  ISSs = {14}
  Hops = {TRUE}
  Segment = {}
  PISS = 13
  StreamLen = 3
  MaxSeg = 2
  MaxWrites = 3
  MaxReleases = 2
  Probes = TRUE
  Resets = TRUE
INVARIANTS NoByteLost
PROPERTIES ClientToPeerPipe ConnectEnds
CHECK_DEADLOCK FALSE
