CONSTANTS
  m1 = m1
  m2 = m2
  c1 = c1
  c2 = c2
  sender = sender
  r1 = r1
  r2 = r2
  Nobody = Nobody
  NoMessage = NoMessage
  Messages = {m1, m2}
  Calls = {c1, c2}
  Senders = {sender}
  Addresses = {r1, r2}
  SenderOf <- MCSenderOf
  Recipients <- MCRecipients
  Limits = {1, 2}
  MaxDay = 2
SPECIFICATION FairSpec
INVARIANTS TypeOK LimitKept RetryNeverAsksAgain
PROPERTIES ImplementsDailyQuota CallsEnd
CHECK_DEADLOCK FALSE
