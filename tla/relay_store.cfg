SPECIFICATION FairSpec
CONSTANTS
  m1 = m1  d1 = d1  d2 = d2  t1 = t1  t2 = t2  c1 = c1
  r1 = r1  r2 = r2
  None = None
  Mailboxes = {m1}
  Devices = {d1, d2}
  Tokens = {t1, t2}
  Checkpoints = {c1}
  MaxDevices = 1
  Requests = {r1, r2}
  Asked <- MCAsked
  Faults = {"crash", "db_error"}
INVARIANT TypeOK
PROPERTY ImplementsAtomic
PROPERTY OrphansOnlyShrink
PROPERTY DeviceLimit
PROPERTY EveryCallIsAnswered
CHECK_DEADLOCK FALSE
