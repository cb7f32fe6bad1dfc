---------------------------- MODULE BudgetLedger ----------------------------
(***************************************************************************)
(* The arithmetic of the append-only budget ledger.  The balance of a      *)
(* budget period is the column-wise sum of its ledger entries              *)
(* (v_budget_period_balances), and axora_post_budget_entry_internal is the *)
(* only writer: it refuses an entry whose sums would be negative or would  *)
(* stop adding up to the allocation.  pending is left out: no entry of the *)
(* current submission path posts it.                                       *)
(***************************************************************************)
EXTENDS Integers

Balance == [allocated : Nat, available : Nat, reserved : Nat,
            spent : Nat, expired : Nat]

EmptyBalance == [allocated |-> 0, available |-> 0, reserved |-> 0,
                 spent |-> 0, expired |-> 0]

(* An entry is its column deltas.  The entry types the actions post: *)
Entry(al, av, re, sp, ex) ==
  [allocated |-> al, available |-> av, reserved |-> re, spent |-> sp,
   expired |-> ex]

AllocationEntry(n)  == Entry(n, n, 0, 0, 0)
ReservationEntry(n) == Entry(0, -n, n, 0, 0)
ReleaseEntry(n)     == Entry(0, n, -n, 0, 0)

NextBalance(b, e) ==
  [allocated |-> b.allocated + e.allocated,
   available |-> b.available + e.available,
   reserved  |-> b.reserved + e.reserved,
   spent     |-> b.spent + e.spent,
   expired   |-> b.expired + e.expired]

AddsUp(b) == b.allocated = b.available + b.reserved + b.spent + b.expired

(* Fault: the posting function checks the sum but no column. *)
PostableUnlessUnbalanced(b, e) == AddsUp(NextBalance(b, e))

Postable(b, e) ==
  LET n == NextBalance(b, e)
  IN  /\ n.allocated >= 0 /\ n.available >= 0 /\ n.reserved >= 0
      /\ n.spent >= 0 /\ n.expired >= 0
      /\ AddsUp(n)
=============================================================================
