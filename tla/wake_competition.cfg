SPECIFICATION FairSpec
CONSTANTS
  Mailboxes = {m1, m2}
  Devices = {d1}
  Tokens = {t1}
  Expiry <- TwinExpiry
  None = None
  Step = 8
  MaxTime = 40
  Day = 16
  Grace = 8
  MinLead = 16
  MaxLead = 32
  PostAttempts = 1
  MaxPerTick = 1
  Retention = 8
  Late = 8
  Legacy = {}
  Faults = {"crash", "db_error", "stale", "unregister"}
CHECK_DEADLOCK FALSE
INVARIANT TypeOK
PROPERTY WokenAfterExpiry
