SPECIFICATION Spec
CONSTANTS
  Sn = {1}
  PKT_LOG_SZ = 3
  CONN_TIMEOUT = 1
  WINDOW_MIN = 1
  WINDOW_DEF = 2
  WINDOW_MAX = 2
  WINDOW_MULT = 1
  WINDOW_DECR = 1
  WINDOW_INCR = 3
  Link = {l1, l2}
  None = None
  REG2_TIMEOUT = 1
  REG3_TIMEOUT = 1
  GLOBAL_TIMEOUT = 3
  MS = 1
  HOUSEKEEPING_INT = 1
  Packets = {"SRT_ACK", "SRT_NAK", "SRTLA_ACK", "other"}
  Acks = {1, 2}
  Addresses = 1
  StartTime = 4
  MaxTime = 4
  MaxId = 0
  MaxInFlight = 3
  MaxReloads = 0
  MaxActive = 0
INVARIANTS TypeOK WindowBounded InFlightCovers
SYMMETRY LinkSymmetry
CHECK_DEADLOCK FALSE
