SPECIFICATION MCSpec
CONSTANTS
  m1 = m1  m2 = m2  m3 = m3  m4 = m4  t1 = t1  t2 = t2  s1 = s1  s2 = s2  r1 = r1  r2 = r2
  a1 = a1  a2 = a2  a3 = a3  a4 = a4  d1 = d1  d2 = d2
  None = None
  Mailboxes = {m1, m2, m3, m4}
  Devices = {m1}
  Tokens = {t1, t2}
  Servers = {s1, s2}
  AllowLists <- MCAllowLists
  ServerOf <- MCServerOf
  Requests = {r1, r2}
  MaxMailboxes = 1
  Offered <- MCOffered
  Active = {m1}
  PrimaryEnvironment = "production"
  AllowBoth = TRUE
  RateWindow = 3
  RateMax = 2
  RateTimes = 7
  RateCalls = 3
  Absent = Absent
  Faults = {"db_error", "restart"}
SYMMETRY Alike
INVARIANT TypeOK
INVARIANT OverrunIsBounded
INVARIANT AllowedServersOnly
INVARIANT RegisteredIsServed
INVARIANT RateIsBounded
INVARIANT OnlyDeadDevicesAreStale
INVARIANT WakesBounded
INVARIANT WakesAreCounted
INVARIANT NoWakeLeftovers
INVARIANT FirstWakeAfterRegistration
PROPERTY WakesSpaced
CHECK_DEADLOCK FALSE
