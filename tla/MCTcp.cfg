SPECIFICATION Spec
CONSTANTS
  SeqMod = 4
  TX_SLOTS = 2
  RX_CAP = 2
  WND_MAX = 1
  MAX_RETRIES = 1
  Byte = {"b"}
  Writes <- MCWrites
  ISSs = {3}
  Hops = {TRUE, FALSE}
  Segment <- MCSegment
INVARIANTS QueueUnbroken FinIsLast
