SPECIFICATION Spec
CONSTANTS
  Contacts = {c1}
  Securities = {s1}
  Senders = {p1, p2}
  Nobody = none
  MaxAttempts = 2
  MaxFaults = 2
  MaxControls = 2
INVARIANTS
  OutboxTypeOK
  SubmittedAtMostOnce
  SentMeansAccepted
  BearerErased
PROPERTIES
  ImplementsPromise
  QueuedMailIsSettled
CHECK_DEADLOCK FALSE
