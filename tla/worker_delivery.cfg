SPECIFICATION FairSpec
CONSTANTS
  Workers = {w1}
  Calls = {c1, c2}
  Devices = {d1}
  Tokens = {t1, t2}
  OpaqueTokens = {t2}
  LateTokens = {t1, t2}
  None = None
  MaxMsg = 2
  Unsupported = {}
  Batch = 1
  HighWater = 1
  MaxDevices = 0
  MaxStopChecks = 1
  Faults = {"stream_error", "stream_end", "read_fail", "expire"}
CHECK_DEADLOCK FALSE
INVARIANT FreshTokenNeverIdle
PROPERTY Delivered
