CONSTANTS
  m1 = m1
  m2 = m2
  w1 = w1
  w2 = w2
  sender = sender
  r1 = r1
  r2 = r2
  NoSlot = NoSlot
  NoMessage = NoMessage
  Messages = {m1, m2}
  Slots = {w1, w2}
  Senders = {sender}
  Addresses = {r1, r2}
  SenderOf <- MCSenderOf
  Recipients <- MCSameRecipients
  DailyLimit <- MCDailyLimit
  Subjects = {"plain"}
  MaxAttempts = 2
  MaxStalls = 1
  MaxDay = 1
  Faults <- ProcessFaults
SYMMETRY FullSymmetry
SPECIFICATION Spec
INVARIANTS SoleClaim AtMostOneCopy RefusedNeverMailed
PROPERTIES SentIsFinal ImplementsLifecycle
CHECK_DEADLOCK FALSE
