SPECIFICATION Spec
CONSTANTS
  m1 = m1  m2 = m2  m3 = m3  m4 = m4  t1 = t1  t2 = t2  s1 = s1  s2 = s2  r1 = r1  r2 = r2
  None = None
  Mailboxes = {m1, m2}
  Devices = {m1}
  Tokens = {t1, t2}
  Servers = {s1, s2}
  AllowLists <- MCAllowLists
  ServerOf <- MCServerOf
  Requests = {r1, r2}
  MaxMailboxes = 1
  Offered <- MCOffered
  Active = {}
  PrimaryEnvironment = "production"
  AllowBoth = TRUE
  Faults = {}
INVARIANT MailboxLimit
CHECK_DEADLOCK FALSE
