CONSTANTS
  e1 = e1
  p1 = p1
  recovery = recovery
  a1 = a1
  a2 = a2
  a3 = a3
  ip1 = ip1
  st1 = st1
  c1 = c1
  c2 = c2
  None = None
  Emails = {e1}
  Profiles = {p1}
  Recovery = recovery
  Accounts = {a1, a2, a3}
  Ips = {ip1}
  States = {st1}
  Calls = {c1, c2}
  MaxRegister = 2
  MaxLogin = 1
SPECIFICATION FairSpec
INVARIANTS TypeOK OneHome SessionsHaveAHome AttemptsBounded StateUsedOnce
PROPERTIES RequestsEnd
CHECK_DEADLOCK FALSE
