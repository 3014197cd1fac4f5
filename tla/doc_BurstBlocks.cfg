CONSTANTS
  Ip = {ip1}
  AUTH_FAIL_THRESHOLD = 3
  AUTH_FAIL_WINDOW = 3
  AUTH_FAIL_COOLDOWN = 3
  MaxTime = 12
  MaxFailures = 5
SPECIFICATION Spec
INVARIANT BurstBlocks
