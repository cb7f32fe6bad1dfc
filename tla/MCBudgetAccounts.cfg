SPECIFICATION BudgetSpec
CONSTANTS
  a1 = a1
  a2 = a2
  r1 = r1
  r2 = r2
  r3 = r3
  Requests = {r1, r2, r3}
  Accounts = {a1, a2}
  AccountOf <- MCAccountOf
  Schedule <- MCSchedule
  InitialAllocation <- MCInitialAllocation
  InitialCeiling = 3
  Amounts = {1, 2}
  AdjustAmounts = {1}
  Ceilings = {3}
  MaxCycle = 1
SYMMETRY Symmetry
INVARIANTS
  BudgetTypeOK
  LedgerMatchesReservations
  ClosedPeriodsAreDrained
  ReservationsAddUp
  LedgerHonoursPromises
PROPERTIES
  RefreshKeepsReservations
  RefreshCreatesNoBudget
CHECK_DEADLOCK FALSE
