SPECIFICATION Spec
CONSTANTS
  Workers = {w1}
  Calls = {c1}
  Devices = {d1}
  Tokens = {t1, t2}
  OpaqueTokens = {t1}
  LateTokens = {}
  None = None
  MaxMsg = 0
  Unsupported = {}
  Batch = 1
  HighWater = 1
  MaxDevices = 0
  MaxStopChecks = 1
  Faults = {"expire"}
SYMMETRY Symmetry
CHECK_DEADLOCK FALSE
INVARIANT PausedTokenWasRejected
