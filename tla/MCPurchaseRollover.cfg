SPECIFICATION Spec
CONSTANTS
  a1 = a1
  r1 = r1
  r2 = r2
  r3 = r3
  ann = ann
  bob = bob
  cat = cat
  dan = dan
  Requests = {r1, r2, r3}
  Accounts = {a1}
  AccountOf <- MCAccountOf
  Schedule <- MCSchedule
  InitialAllocation <- SmallAllocation
  InitialCeiling = 2
  Amounts = {1, 2}
  AdjustAmounts = {1}
  Ceilings = {3}
  MaxCycle = 1
  TopUps = {}
  NoTopUp = none
  RecordCommands = {k1}
  TopUpAmounts = {3}
  Users = {ann, bob, cat, dan}
  NoUser = nobody
  NoRequest = norequest
  CreatorOf <- MCCreatorOf
  DepartmentRequests = {r1}
  DirectRequests = {r3}
  SelfApprovers = {cat}
  OtherApprovers = {bob, cat}
  SelfLimit <- MCSelfLimit
  OtherLimit <- MCOtherLimit
  Overriders = {}
  PayCommands = {p1}
  MaxRevision = 2
SYMMETRY Symmetry
INVARIANTS
  OpenRequestsHoldTheirAmount
  SpendIsPaidFromWallet
PROPERTIES
  DecisionsRespectCeiling
CHECK_DEADLOCK FALSE
