SPECIFICATION Spec
CONSTANTS
  a1 = a1
  r1 = r1
  r2 = r2
  r3 = r3
  ann = ann
  bob = bob
  cat = cat
  dan = dan
  Requests = {r1, r2, r3}
  Accounts = {a1}
  AccountOf <- MCAccountOf
  Schedule <- MCSchedule
  InitialAllocation <- LargeAllocation
  InitialCeiling = 3
  Amounts = {1, 2}
  AdjustAmounts = {}
  Ceilings = {}
  MaxCycle = 0
  TopUps = {}
  NoTopUp = none
  RecordCommands = {k1, k2}
  TopUpAmounts = {2}
  Users = {ann, bob, cat, dan}
  NoUser = nobody
  NoRequest = norequest
  CreatorOf <- MCCreatorOf
  DepartmentRequests = {r1}
  DirectRequests = {r3}
  SelfApprovers = {cat}
  OtherApprovers = {bob, cat}
  SelfLimit <- MCSelfLimit
  OtherLimit <- MCOtherLimit
  Overriders = {}
  PayCommands = {p1, p2}
  MaxRevision = 2
SYMMETRY Symmetry
INVARIANTS
  TypeOK
  PaidExactlyOnce
  ApprovedWithinAuthority
PROPERTIES
  FinishedStaysFinished
  ImplementsLifecycle
CHECK_DEADLOCK FALSE
