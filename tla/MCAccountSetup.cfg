CONSTANTS
  MaxLinks = 2
  Visitors = {v1, v2}
SPECIFICATION Spec
INVARIANTS
  SetupTypeOK
  SetUpByTheLastLink
  DeliveryAnswersAreTrue
PROPERTY PendingBlockEnds
CHECK_DEADLOCK FALSE
