SPECIFICATION Spec
CONSTANTS
  Workers = {w1}
  Calls = {c1, c2}
  Devices = {d1}
  Tokens = {t1}
  OpaqueTokens = {t1}
  LateTokens = {t1}
  None = None
  MaxMsg = 3
  Unsupported = {2}
  Batch = 2
  HighWater = 2
  MaxDevices = 0
  MaxStopChecks = 1
  Faults = {"crash", "read_fail", "stream_error", "stream_end", "db_error", "push_fail", "expire"}
SYMMETRY Symmetry
CHECK_DEADLOCK FALSE
INVARIANT CheckpointCoversHandled
INVARIANT OneCallPerWorker
INVARIANT RepeatsOnlyInterrupted
INVARIANT HistoryIsSilent
PROPERTY OnlyHistorySkipped
PROPERTY RewindsOnlyToInterrupted
