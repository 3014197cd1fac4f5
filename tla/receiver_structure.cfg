CONSTANTS
  a1 = a1
  a2 = a2
  a3 = a3
  ip1 = ip1
  Addr = {a1, a2, a3}
  Ip = {ip1}
  IpOf <- OneIp
  Sn = {0}
  Hash = {}
  MAX_CONNS_PER_GROUP = 2
  MAX_GROUPS = 2
  CLEANUP_PERIOD = 1
  GROUP_TIMEOUT = 2
  PENDING_GROUP_TIMEOUT = 1
  CONN_TIMEOUT = 1
  RECOVERY_CHANCE_PERIOD = 1
  RECV_ACK_INT = 1
  AUTH_FAIL_THRESHOLD = 2
  AUTH_FAIL_WINDOW = 2
  AUTH_FAIL_COOLDOWN = 2
  MAX_REPEATS = 1
  ServerPackets = {"ack", "short"}
  StartTime = 1
  MaxTime = 4
  MaxIds = 3
SPECIFICATION Spec
INVARIANTS LookupUnambiguous WithinLimits GhostsHaveNoSocket InfoFileCurrent
PROPERTIES  ImplementsDirectory
SYMMETRY AddrSymmetry
