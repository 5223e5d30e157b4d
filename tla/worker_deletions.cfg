SPECIFICATION Spec
CONSTANTS
  Workers = {w1, w2}
  Calls = {c1, c2}
  Devices = {d1, d2}
  Tokens = {t1, t2}
  OpaqueTokens = {}
  LateTokens = {}
  None = None
  MaxMsg = 1
  Unsupported = {}
  Batch = 1
  HighWater = 1
  MaxDevices = 1
  MaxStopChecks = 1
  Faults = {"stale", "unregister", "expire", "handler_error"}
SYMMETRY Symmetry
CHECK_DEADLOCK FALSE
INVARIANT TypeOK
INVARIANT WorkerHoldsLatestToken
INVARIANT FreshTokenNeverIdle
INVARIANT NoLeftovers
