----------------------------- MODULE CompanyBase -----------------------------
(***************************************************************************)
(* What the budget ledger and the wallet of one company have in common:    *)
(* the purchase requests whose money they both hold.                       *)
(***************************************************************************)
EXTENDS Totals

CONSTANTS Requests        \* ids of purchase requests, used once each

ASSUME RequestsAssumption == IsFiniteSet(Requests)
=============================================================================
