CONSTANTS
  m1 = m1
  m2 = m2
  w1 = w1
  w2 = w2
  sender = sender
  r1 = r1
  r2 = r2
  NoSlot = NoSlot
  NoMessage = NoMessage
  Messages = {m1}
  Slots = {w1, w2}
  Senders = {sender}
  Addresses = {r1, r2}
  SenderOf <- MCSenderOf
  Recipients <- MCRecipients
  DailyLimit <- MCDailyLimit
  Subjects = {"plain", "padded"}
  MaxAttempts = 3
  MaxStalls = 1
  MaxDay = 2
  Faults <- LiveFaults
SPECIFICATION FairSpec
PROPERTIES Settles
CHECK_DEADLOCK FALSE
