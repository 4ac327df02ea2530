SPECIFICATION Spec
CHECK_DEADLOCK FALSE
CONSTANTS
  m1 = m1
  x1 = x1
  x2 = x2
  c1 = c1
  c2 = c2
  s1 = s1
  s2 = s2
  p1 = p1
  p2 = p2
  Messages = {m1}
  Deliveries = {x1, x2}
  MessageOf <- OneMessage
  NoDelivery = NoDelivery
  Consumers = {c1}
  Sweepers = {s1}
  Processes = {p1, p2}
  Home <- TwoProcesses
  MaxAttempts = 1
  After = 0
  GiveUp = 2
  Lease = 0
  Batch = 2
  Deadlines <- NoDeadline
  NoSender = {}
  Refusals = {"PERMANENT"}
  RetentionAge = 9
  MaxAge = 2
  MaxCrashes = 0
SYMMETRY SameRows
INVARIANTS
  TypeOK
  AnnouncedOnce
  AnnounceNotMissed
  OutcomeIsEarned
