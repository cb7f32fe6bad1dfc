------------------------ MODULE MCBudgetRefreshWorker ------------------------
(* Two workers and two periods: the claim of one period can be lost, taken *)
(* over and completed while the next period already ends.                  *)
EXTENDS BudgetRefreshWorker
=============================================================================
