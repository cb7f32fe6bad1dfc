--------------------------- MODULE MCBudgetAccounts ---------------------------
(* Two accounts with different rollover rules; two of the three requests   *)
(* share account a1, so that a period holds several reservations at once.  *)
EXTENDS BudgetAccounts, TLC

CONSTANTS a1, a2, r1, r2, r3

MCAccountOf == (r1 :> a1) @@ (r2 :> a1) @@ (r3 :> a2)

MCSchedule ==
  (a1 :> [mode |-> "PARTIAL_PERCENT", base |-> 1, percent |-> 50, cap |-> 0])
  @@ (a2 :> [mode |-> "CUSTOM_AMOUNT", base |-> 0, percent |-> 0, cap |-> 1])

MCInitialAllocation == (a1 :> 2) @@ (a2 :> 0)

Symmetry == Permutations({r1, r2})
=============================================================================
