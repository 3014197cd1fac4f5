CONSTANTS
  a1 = a1
  a2 = a2
  a3 = a3
  ip1 = ip1
  Addr = {a1, a2}
  Ip = {ip1}
  IpOf <- OneIp
  Sn = {0}
  Hash = {h1}
  MAX_CONNS_PER_GROUP = 2
  MAX_GROUPS = 1
  CLEANUP_PERIOD = 2
  GROUP_TIMEOUT = 6
  PENDING_GROUP_TIMEOUT = 3
  CONN_TIMEOUT = 3
  RECOVERY_CHANCE_PERIOD = 1
  RECV_ACK_INT = 2
  AUTH_FAIL_THRESHOLD = 1
  AUTH_FAIL_WINDOW = 2
  AUTH_FAIL_COOLDOWN = 2
  MAX_REPEATS = 1
  ServerPackets = {"short", "ack", "nak", "reject", "shutdown", "other"}
  StartTime = 1
  MaxTime = 9
  MaxIds = 1
SPECIFICATION Spec
INVARIANTS TypeOK ReapedInTime RecvLogBounded
SYMMETRY AddrSymmetry
