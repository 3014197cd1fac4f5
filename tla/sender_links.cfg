SPECIFICATION Spec
CONSTANTS
  Sn = {}
  PKT_LOG_SZ = 1
  CONN_TIMEOUT = 1
  WINDOW_MIN = 1
  WINDOW_DEF = 1
  WINDOW_MAX = 1
  WINDOW_MULT = 1
  WINDOW_DECR = 1
  WINDOW_INCR = 3
  Link = {l1, l2}
  None = None
  REG2_TIMEOUT = 1
  REG3_TIMEOUT = 1
  GLOBAL_TIMEOUT = 1
  MS = 1
  HOUSEKEEPING_INT = 1
  Packets = {"REG_NGP", "REG2", "REG3"}
  Acks = {}
  Addresses = 2
  StartTime = 4
  MaxTime = 9
  MaxId = 2
  MaxInFlight = 0
  MaxReloads = 1
  MaxActive = 2
INVARIANTS PendingListed 
PROPERTY GroupKept
SYMMETRY LinkSymmetry
CHECK_DEADLOCK FALSE
