CONSTANTS
  a1 = a1
  a2 = a2
  s1 = s1
  s2 = s2
  k1 = k1
  r1 = r1
  r2 = r2
  c1 = c1
  m1 = m1
  None = None
  Accounts = {a1, a2}
  Senders = {s1, s2}
  Tokens = {k1}
  Requests = {r1, r2}
  Calls = {c1}
  Messages = {m1}
  ScopeSets <- MCScopeSets
  MaxSenders = 1
  MaxTokens = 1
  TestLimit = 1
  BurstLimit = 1
  MaxAtWork = 2
  MaxOpen = 1
SPECIFICATION Spec
INVARIANTS TypeOK CapsHold AnswersAreAuthorized ArchiveStopsCalls LimiterKept
PROPERTIES TokensStayHome
SYMMETRY GateSymmetry
CHECK_DEADLOCK FALSE
