SPECIFICATION FairSpec
CONSTANTS
  Jobs = {j1, j2}
  Commands = {c1, c2}
  Tabs = {t1}
  NoTab = nobody
  NoCommand = none
  LastVersion = 3
  MaxLosses = 1
  MaxCloses = 1
  MaxRefusals = 1
INVARIANTS
  CommandsTypeOK
  OutcomesAreTrue
  RetainedUntilSettled
PROPERTIES
  RecordedCommandsAreTold
CHECK_DEADLOCK FALSE
