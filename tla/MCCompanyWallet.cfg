SPECIFICATION WalletSpec
CONSTANTS
  Requests = {r1, r2}
  TopUps = {t1, t2}
  NoTopUp = none
  RecordCommands = {k1, k2, k3}
  TopUpAmounts = {1, 2}
SYMMETRY Symmetry
INVARIANTS
  WalletTypeOK
  WalletSolvent
  TopUpCreditedOnce
  AlreadyRecordedRepliesAreTrue
CHECK_DEADLOCK FALSE
