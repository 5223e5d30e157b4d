SPECIFICATION Spec
CONSTANTS
  Workers = {w1, w2}
  Calls = {c1, c2}
  Devices = {d1}
  Tokens = {t1}
  OpaqueTokens = {}
  LateTokens = {}
  None = None
  MaxMsg = 2
  Unsupported = {}
  Batch = 2
  HighWater = 2
  MaxDevices = 0
  MaxStopChecks = 1
  Faults = {"stale"}
SYMMETRY Symmetry
CHECK_DEADLOCK FALSE
INVARIANT WorkerOfDeletedMailboxStops
