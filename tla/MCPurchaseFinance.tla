-------------------------- MODULE MCPurchaseFinance --------------------------
(* Requests of one branch account: r1 by requester ann, r2 by cat, who may *)
(* also approve, and the cart r3 that the administrator dan buys directly. *)
(* bob is a department approver with a small limit.                        *)
EXTENDS PurchaseFinance, TLC

CONSTANTS a1, r1, r2, r3, ann, bob, cat, dan

MCAccountOf == [r \in Requests |-> a1]

MCSchedule ==
  (a1 :> [mode |-> "FULL", base |-> 1, percent |-> 0, cap |-> 0])

SmallAllocation == (a1 :> 2)
LargeAllocation == (a1 :> 3)

MCCreatorOf ==
  [r \in Requests |-> CASE r = r1 -> ann [] r = r2 -> cat [] r = r3 -> dan]

MCSelfLimit  == [u \in Users |-> IF u = cat THEN 2 ELSE NoLimit]
MCOtherLimit ==
  [u \in Users |-> CASE u = bob -> 1 [] u = cat -> 2 [] OTHER -> NoLimit]

Symmetry == Permutations(PayCommands) \cup Permutations(RecordCommands)
=============================================================================
