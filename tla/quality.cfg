CONSTANTS
  Link = {l1, l2}
  Informed = {l1}
  MS = 1
  CONNECTION_GRACE_PERIOD = 1
  KEEPALIVE_STALENESS_THRESHOLD = 1
  MIN_PER_LINK = 1
  MIN_ACCEPTABLE_TOTAL = 2
  RTT_HISTORY_SIZE = 1
  NAK_MOD = 16
  CONN_QUALITY_EVAL_PERIOD = 2
  NACK_BURST = 0
  NACK_MOD = 4
  Sizes = {2, 4}
  Infos <- OneInfo
  MaxLag = 1
  StartTime = 1
  MaxTime = 5
  MaxPackets = 1
SPECIFICATION Spec
INVARIANTS WeightsCurrent SameTimeBase
PROPERTIES MeasuredLongEnough FastestUnpenalised
