SPECIFICATION Spec
CONSTANTS
  Workers = {w1, w2}
  Calls = {c1, c2}
  Devices = {d1}
  Tokens = {t1}
  OpaqueTokens = {}
  LateTokens = {}
  None = None
  MaxMsg = 0
  Unsupported = {}
  Batch = 1
  HighWater = 1
  MaxDevices = 0
  MaxStopChecks = 1
  Faults = {"unregister"}
SYMMETRY Symmetry
CHECK_DEADLOCK FALSE
INVARIANT OneSubscription
