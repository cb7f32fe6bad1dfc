-------------------------- MODULE PurchaseLifecycle --------------------------
(***************************************************************************)
(* What the purchase path promises to a customer company, without budgets, *)
(* revisions, approvers or commands: a request is submitted for an amount, *)
(* is approved, closed or paid, or is ordered and paid at once, and is     *)
(* paid at most once, out of the money the company has put into its        *)
(* wallet.  PurchaseFinance implements it.                                 *)
(***************************************************************************)
EXTENDS Integers

CONSTANTS Requests, Amounts

VARIABLES
  phase,    \* where each request stands
  amount,   \* what it was submitted for
  funds     \* the prepaid money of the company

lifecycleVars == <<phase, amount, funds>>

Open == {"Awaiting", "Approved"}

Submit(r, n) ==
  /\ phase[r] = "Idle"
  /\ phase' = [phase EXCEPT ![r] = "Awaiting"]
  /\ amount' = [amount EXCEPT ![r] = n]
  /\ UNCHANGED funds

Approve(r) ==
  /\ phase[r] = "Awaiting"
  /\ phase' = [phase EXCEPT ![r] = "Approved"]
  /\ UNCHANGED <<amount, funds>>

CloseRequest(r) ==
  /\ phase[r] \in Open
  /\ phase' = [phase EXCEPT ![r] = "Closed"]
  /\ UNCHANGED <<amount, funds>>

Pay(r) ==
  /\ phase[r] \in Open
  /\ amount[r] <= funds
  /\ phase' = [phase EXCEPT ![r] = "Paid"]
  /\ funds' = funds - amount[r]
  /\ UNCHANGED amount

Buy(r, n) ==
  /\ phase[r] = "Idle"
  /\ n <= funds
  /\ phase' = [phase EXCEPT ![r] = "Paid"]
  /\ amount' = [amount EXCEPT ![r] = n]
  /\ funds' = funds - n

ReceiveFunds ==
  /\ funds' \in Nat
  /\ funds' > funds
  /\ UNCHANGED <<phase, amount>>

LifecycleInit ==
  /\ phase = [r \in Requests |-> "Idle"]
  /\ amount = [r \in Requests |-> 0]
  /\ funds = 0

LifecycleNext ==
  \/ \E r \in Requests : \/ \E n \in Amounts : Submit(r, n) \/ Buy(r, n)
                         \/ Approve(r)
                         \/ CloseRequest(r)
                         \/ Pay(r)
  \/ ReceiveFunds

LifecycleSpec == LifecycleInit /\ [][LifecycleNext]_lifecycleVars
=============================================================================
