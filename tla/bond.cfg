CONSTANTS
  Link = {l1, l2}
  None = None
  Now = 40
  CONN_TIMEOUT = 4
  REG2_TIMEOUT = 4
  REG3_TIMEOUT = 4
  GLOBAL_TIMEOUT = 10
  REC_CONN_TIMEOUT = 15
  CLEANUP_PERIOD = 3
  PENDING_GROUP_TIMEOUT = 5
  GROUP_TIMEOUT = 30
  RECOVERY_CHANCE_PERIOD = 5
  KEEPALIVE_PERIOD = 1
  MaxFaults = 1
  Lifetime = 1
  RebondLimit = 12
  MaxIds = 3
  MaxActive = 4
SPECIFICATION Spec
INVARIANTS RebondsInTime ExitWithCause
PROPERTIES EventuallyBonded ContactKept
CHECK_DEADLOCK FALSE
