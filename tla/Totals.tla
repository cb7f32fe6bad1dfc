------------------------------- MODULE Totals -------------------------------
(***************************************************************************)
(* Sums of money over a finite set.  Every amount in the system is a       *)
(* numeric(18,2), that is a whole number of cents, and every balance is a  *)
(* SQL sum over rows.  TotalOf(S, f) is that sum: it counts the cents, one *)
(* pair <<x, k>> for the k-th cent of f[x].  Counting them, rather than    *)
(* folding an addition over S, states the sum without a recursion.         *)
(***************************************************************************)
EXTENDS Integers, FiniteSets

Cents(S, f) == UNION {{x} \X (1 .. f[x]) : x \in S}

TotalOf(S, f) == Cardinality(Cents(S, f))
=============================================================================
