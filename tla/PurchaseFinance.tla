--------------------------- MODULE PurchaseFinance ---------------------------
(***************************************************************************)
(* The money path of a purchase request: submission reserves budget, a     *)
(* company approver decides, Approve & Pay (or the requester's checkout)   *)
(* turns the reservation into spend, creates the invoice and payment, and  *)
(* debits the company wallet.  A company administrator may instead buy the *)
(* contents of a cart directly.  Composes the budget accounts and the      *)
(* wallet of one company; refreshes of the budget periods interleave with  *)
(* all of it.                                                              *)
(*                                                                         *)
(* Each action is one database transaction.  It holds the request row FOR  *)
(* UPDATE, then the period, company and wallet rows it reads, until it     *)
(* commits.  A refusal that raises rolls everything back and is no step; a *)
(* refusal that Approve & Pay stores under its command id is a step.       *)
(***************************************************************************)
EXTENDS BudgetAccounts, CompanyWallet

CONSTANTS
  Users,
  NoUser,              \* requests nobody has approved yet
  NoRequest,           \* commands that have not run yet
  CreatorOf,           \* requests.created_by
  DepartmentRequests,  \* requests of a department; the others are a branch's
  DirectRequests,      \* orders that an administrator's cart becomes when it
                       \* is bought directly (purchase_mode COMPANY_ADMIN_DIRECT)
  SelfApprovers,       \* users holding request.approve.self
  OtherApprovers,      \* users holding request.approve.other
  SelfLimit,           \* approval limit for own requests, NoLimit if none
  OtherLimit,          \* approval limit for requests of others
  Overriders,          \* users holding commercial.company_ceiling.override
  PayCommands,         \* command ids of Approve & Pay, checkout, direct purchase
  MaxRevision          \* bound: escalations stop at this approval_revision

NoLimit == -1

ASSUME UsersAssumption ==
  /\ NoUser \notin Users /\ NoRequest \notin Requests
  /\ CreatorOf \in [Requests -> Users]
  /\ DepartmentRequests \subseteq Requests /\ DirectRequests \subseteq Requests
  /\ SelfApprovers \subseteq Users /\ OtherApprovers \subseteq Users
  /\ SelfLimit \in [Users -> Nat \cup {NoLimit}]
  /\ OtherLimit \in [Users -> Nat \cup {NoLimit}]
  /\ Overriders \subseteq Users
  /\ MaxRevision \in Nat

VARIABLES
  rq,        \* the request row and its approval snapshot
  invoiced,  \* total of the invoices (and payments) issued for each request
  command    \* stored result of each payment command

requestVars == <<rq, invoiced, command>>
vars == <<budgetVars, walletVars, requestVars>>

Pending == {"PENDING_DEPARTMENT", "PENDING_COMPANY", "PENDING_AXORA"}
Closed  == {"REJECTED", "RETURNED", "CANCELLED"}
States  == {"NONE", "DRAFT", "APPROVED", "AWAITING_FULFILMENT"} \cup Pending \cup Closed

Results == {"NONE", "SUCCESS", "ALREADY_PROCESSED", "STALE_REQUEST", "NOT_READY",
            "INSUFFICIENT_BUDGET", "INSUFFICIENT_WALLET"}

(***************************************************************************)
(* Authority and context of a decision.                                    *)
(***************************************************************************)
MayApprove(u, r) ==
  u \in (IF u = CreatorOf[r] THEN SelfApprovers ELSE OtherApprovers)

LimitFor(u, r) == IF u = CreatorOf[r] THEN SelfLimit[u] ELSE OtherLimit[u]

(* The period of the request row is ACTIVE and has not reached its end.    *)
PeriodOpen(r) ==
  LET a == AccountOf[r] IN rq[r].cycle = cycle[a] /\ ~overdue[a]

(* What the decision would add to the company's exposure. *)
UnreservedAmount(r) == IF IsLive(r) THEN 0 ELSE rq[r].amount

(* Fault: the exposure the company has already is forgotten. *)
CeilingExceededByThisAlone(u, extra) == extra > ceiling /\ u \notin Overriders

CeilingExceeded(u, extra) ==
  /\ CompanyExposure + extra > ceiling
  /\ u \notin Overriders

(* The reservation, when the request's own period holds it. *)
ReservedInPeriod(r) ==
  IF IsLive(r) /\ rsv[r].cycle = rq[r].cycle THEN rsv[r].remaining ELSE 0

PayableBudget(r) ==
  IF rq[r].state # "APPROVED" /\ ~(IsLive(r) /\ rsv[r].cycle = rq[r].cycle)
  THEN bal[AccountOf[r]][rq[r].cycle].available
  ELSE ReservedInPeriod(r)

(***************************************************************************)
(* Creation and submission.                                                *)
(***************************************************************************)
CreateRequest(r) ==
  LET a == AccountOf[r]
  IN  /\ rq[r].state = "NONE"
      /\ r \notin DirectRequests
      /\ ~overdue[a]
      /\ rq' = [rq EXCEPT ![r].state = "DRAFT", ![r].revision = 1,
                          ![r].cycle = cycle[a]]
      /\ UNCHANGED <<budgetVars, walletVars, invoiced, command>>

SubmitRequest(r, n) ==
  /\ rq[r].state = "DRAFT"
  /\ PeriodOpen(r)
  /\ n <= ActiveBalance(AccountOf[r]).available
  /\ Reserve(r, n)
  /\ rq' = [rq EXCEPT ![r].amount = n,
                      ![r].state = IF r \in DepartmentRequests
                                   THEN "PENDING_DEPARTMENT"
                                   ELSE "PENDING_COMPANY"]
  /\ UNCHANGED <<walletVars, invoiced, command>>

(***************************************************************************)
(* Decisions.  (A decision that names an older approval revision, or a     *)
(* repeated idempotency key, changes nothing.)                             *)
(***************************************************************************)
(* Fault: the state of the request is not checked. *)
MayDecideAnyState(u, r) == MayApprove(u, r) /\ LimitFor(u, r) # NoLimit

MayDecide(u, r) ==
  MayApprove(u, r) /\ rq[r].state \in Pending /\ LimitFor(u, r) # NoLimit

(* Faults: a state the table does not know; nothing released; released     *)
(* only when the reservation is still in the period of the request.        *)
CloseMisnamed(r, next) ==
  /\ rq' = [rq EXCEPT ![r].state = "CLOSED"]
  /\ UNCHANGED <<budgetVars, walletVars, invoiced, command>>

CloseWithoutRelease(r, next) ==
  /\ rq' = [rq EXCEPT ![r].state = next, ![r].revision = @ + 1]
  /\ UNCHANGED <<budgetVars, walletVars, invoiced, command>>

CloseForgettingRolledReservations(r, next) ==
  /\ rq' = [rq EXCEPT ![r].state = next, ![r].revision = @ + 1]
  /\ IF ReservedInPeriod(r) > 0
     THEN Release(r, rq[r].cycle)
     ELSE UNCHANGED budgetVars
  /\ UNCHANGED <<walletVars, invoiced, command>>

Close(r, next) ==
  /\ rq' = [rq EXCEPT ![r].state = next, ![r].revision = @ + 1]
  /\ IF rsv[r].remaining > 0
     THEN Release(r, rq[r].cycle)
     ELSE UNCHANGED budgetVars
  /\ UNCHANGED <<walletVars, invoiced, command>>

RejectOrReturn(u, r) ==
  /\ MayDecide(u, r)
  /\ \E next \in {"REJECTED", "RETURNED"} : Close(r, next)

(* Fault: a paid request can be cancelled. *)
CancelPaidRequest(u, r) ==
  /\ u = CreatorOf[r] \/ MayApprove(u, r)
  /\ rq[r].amount > 0
  /\ rq[r].state \notin {"REJECTED", "CANCELLED"}
  /\ Close(r, "CANCELLED")

CancelRequest(u, r) ==
  /\ u = CreatorOf[r] \/ MayApprove(u, r)
  /\ rq[r].amount > 0
  /\ rq[r].state \notin {"REJECTED", "CANCELLED", "AWAITING_FULFILMENT"}
  /\ Close(r, "CANCELLED")

Escalate(u, r) ==
  LET beyondLimit == rq[r].amount > LimitFor(u, r)
  IN  /\ MayDecide(u, r)
      /\ PeriodOpen(r)
      /\ rq[r].revision < MaxRevision
      /\ \/ /\ beyondLimit
            /\ rq[r].state = "PENDING_DEPARTMENT"
            /\ rq' = [rq EXCEPT ![r].state = "PENDING_COMPANY",
                                ![r].revision = @ + 1]
         \/ /\ ~beyondLimit
            /\ CeilingExceeded(u, UnreservedAmount(r))
            /\ rq' = [rq EXCEPT ![r].state = "PENDING_AXORA",
                                ![r].revision = @ + 1]
      /\ UNCHANGED <<budgetVars, walletVars, invoiced, command>>

(* Fault: the approval limit is not enforced. *)
FinalApprovalOverLimit(u, r) ==
  /\ MayDecide(u, r)
  /\ PeriodOpen(r)
  /\ ~CeilingExceeded(u, UnreservedAmount(r))
  /\ IsLive(r) /\ rsv[r].remaining >= rq[r].amount

(* A final approval keeps the reservation made at submission. *)
FinalApproval(u, r) ==
  /\ MayDecide(u, r)
  /\ rq[r].amount <= LimitFor(u, r)
  /\ PeriodOpen(r)
  /\ ~CeilingExceeded(u, UnreservedAmount(r))
  /\ IsLive(r) /\ rsv[r].remaining >= rq[r].amount

ApproveRequest(u, r) ==
  /\ FinalApproval(u, r)
  /\ rq' = [rq EXCEPT ![r].state = "APPROVED", ![r].revision = @ + 1,
                      ![r].approver = u]
  /\ UNCHANGED <<budgetVars, walletVars, invoiced, command>>

(***************************************************************************)
(* Payment.                                                                *)
(***************************************************************************)

(* The first check that fails names the stored outcome.  policyOk stands   *)
(* for the invoice permission and the category policy, locationOk for the  *)
(* branch and its primary delivery location.                               *)
(* Fault: the wallet balance is not checked. *)
PaymentResultOnCredit(u, r, revision, payable, policyOk, locationOk) ==
  IF ~policyOk THEN "NOT_READY"
  ELSE IF invoiced[r] > 0 THEN "ALREADY_PROCESSED"
  ELSE IF rq[r].revision # revision THEN "STALE_REQUEST"
  ELSE IF \/ rq[r].state \notin payable
          \/ ~locationOk
          \/ ~PeriodOpen(r)
          \/ CeilingExceeded(u, IF rq[r].state = "APPROVED" THEN 0
                                ELSE UnreservedAmount(r))
       THEN "NOT_READY"
  ELSE IF PayableBudget(r) < rq[r].amount THEN "INSUFFICIENT_BUDGET"
  ELSE "SUCCESS"

PaymentResult(u, r, revision, payable, policyOk, locationOk) ==
  IF ~policyOk THEN "NOT_READY"
  ELSE IF invoiced[r] > 0 THEN "ALREADY_PROCESSED"
  ELSE IF rq[r].revision # revision THEN "STALE_REQUEST"
  ELSE IF \/ rq[r].state \notin payable
          \/ ~locationOk
          \/ ~PeriodOpen(r)
          \/ CeilingExceeded(u, IF rq[r].state = "APPROVED" THEN 0
                                ELSE UnreservedAmount(r))
       THEN "NOT_READY"
  ELSE IF PayableBudget(r) < rq[r].amount THEN "INSUFFICIENT_BUDGET"
  ELSE IF WalletBalance < rq[r].amount THEN "INSUFFICIENT_WALLET"
  ELSE "SUCCESS"

StoreResult(c, r, result) ==
  command' = [command EXCEPT ![c] = [request |-> r, result |-> result]]

(* Fault: invoice and budget without the wallet debit. *)
TakePaymentWithoutDebit(r, approver, decisions) ==
  LET n == rq[r].amount
  IN  /\ invoiced' = [invoiced EXCEPT ![r] = @ + n]
      /\ Spend(r, n)
      /\ UNCHANGED walletVars
      /\ rq' = [rq EXCEPT ![r].state = "AWAITING_FULFILMENT",
                          ![r].revision = @ + decisions, ![r].approver = approver]

(* Invoice and payment, finalization of the budget and wallet debit. *)
TakePayment(r, approver, decisions) ==
  LET n == rq[r].amount
  IN  /\ invoiced[r] = 0
      /\ invoiced' = [invoiced EXCEPT ![r] = @ + n]
      /\ Spend(r, n)
      /\ Debit(r, n)
      /\ rq' = [rq EXCEPT ![r].state = "AWAITING_FULFILMENT",
                          ![r].revision = @ + decisions, ![r].approver = approver]

(* revision is the approval revision the approver last saw. *)
ApproveAndPay(c, u, r, revision, policyOk, locationOk) ==
  LET payable == Pending \cup {"APPROVED"}
      result  == PaymentResult(u, r, revision, payable,
                               policyOk /\ LimitFor(u, r) >= rq[r].amount,
                               locationOk)
  IN  /\ command[c].result = "NONE"
      /\ MayApprove(u, r)
      /\ rq[r].amount > 0
      /\ StoreResult(c, r, result)
      /\ \/ /\ result = "SUCCESS"
            /\ rq[r].state = "APPROVED"
            /\ TakePayment(r, rq[r].approver, 1)
         \/ /\ result = "SUCCESS"
            /\ FinalApproval(u, r)
            /\ TakePayment(r, u, 2)
         \/ /\ result # "SUCCESS"
            /\ UNCHANGED <<budgetVars, walletVars, rq, invoiced>>

(* The requester's checkout of an approved request.  Any outcome but these *)
(* two raises, and leaves no command row.                                  *)
CompletePayment(c, r, locationOk) ==
  LET result == PaymentResult(CreatorOf[r], r, rq[r].revision, {"APPROVED"},
                              TRUE, locationOk)
  IN  /\ command[c].result = "NONE"
      /\ rq[r].amount > 0
      /\ StoreResult(c, r, result)
      /\ \/ /\ result = "SUCCESS"
            /\ TakePayment(r, rq[r].approver, 1)
         \/ /\ result = "ALREADY_PROCESSED"
            /\ UNCHANGED <<budgetVars, walletVars, rq, invoiced>>

(***************************************************************************)
(* Direct purchase.  Order r stands for the cart it is made from: the cart *)
(* is SUBMITTED once r exists.  cartOk stands for the checks that need no  *)
(* money: the cart is ACTIVE, not empty and at the version the             *)
(* administrator reviewed, its products can be sold at the prices it       *)
(* displays, and the branch has a delivery location.  The outcomes         *)
(* STALE_CART, PRICE_CHANGED, PRODUCT_UNAVAILABLE,                         *)
(* BRANCH_LOCATION_REQUIRED and BUDGET_UNAVAILABLE are one, NOT_READY:     *)
(* they are stored, and change neither budget, wallet nor requests.        *)
(***************************************************************************)
DirectPurchaseResult(r, n, cartOk) ==
  IF rq[r].state # "NONE" THEN "ALREADY_PROCESSED"
  ELSE IF ~cartOk \/ overdue[AccountOf[r]] THEN "NOT_READY"
  ELSE IF ActiveBalance(AccountOf[r]).available < n THEN "INSUFFICIENT_BUDGET"
  ELSE IF WalletBalance < n THEN "INSUFFICIENT_WALLET"
  ELSE "SUCCESS"

(* The order, its invoice and payment, the reservation and its spend, the  *)
(* wallet debit and the consumption of the cart: all or nothing.  The      *)
(* administrator decides alone; no approval limit and no contractual       *)
(* ceiling is looked at.                                                   *)
PlaceOrder(r, n) ==
  /\ rq' = [rq EXCEPT ![r] = [state |-> "AWAITING_FULFILMENT", revision |-> 2,
                              cycle |-> cycle[AccountOf[r]], amount |-> n,
                              approver |-> CreatorOf[r]]]
  /\ invoiced' = [invoiced EXCEPT ![r] = @ + n]
  /\ ReserveAndSpend(r, n)
  /\ Debit(r, n)

DirectPurchase(c, r, n, cartOk) ==
  LET result == DirectPurchaseResult(r, n, cartOk)
  IN  /\ command[c].result = "NONE"
      /\ StoreResult(c, r, result)
      /\ \/ /\ result = "SUCCESS"
            /\ PlaceOrder(r, n)
         \/ /\ result # "SUCCESS"
            /\ UNCHANGED <<budgetVars, walletVars, rq, invoiced>>

(***************************************************************************)
(* Budget and wallet commands, which leave the requests alone.             *)
(***************************************************************************)
(* A refresh whose base allocation the wallet cannot fund changes nothing. *)
FundedRefresh(a, late) ==
  BaseAllocation(a) <= WalletBalance /\ RefreshBudgetPeriod(a, late)

BudgetStep ==
  /\ \/ \E a \in Accounts, n \in AdjustAmounts : IncreaseBudget(a, n) \/ ReduceBudget(a, n)
     \/ \E a, b \in Accounts, n \in AdjustAmounts : TransferBudget(a, b, n)
     \/ \E n \in Ceilings : SetCompanyCeiling(n)
     \/ \E a \in Accounts : PeriodEnds(a)
     \/ \E a \in Accounts, late \in BOOLEAN : FundedRefresh(a, late)
  /\ UNCHANGED <<walletVars, requestVars>>

WalletStep ==
  /\ \/ \E t \in TopUps : RequestTopUp(t)
     \/ \E c \in RecordCommands, t \in TopUps \cup {NoTopUp}, n \in TopUpAmounts :
          RecordTopUp(c, t, n)
  /\ UNCHANGED <<budgetVars, requestVars>>

Init ==
  /\ BudgetInit
  /\ WalletInit
  /\ rq = [r \in Requests |-> [state |-> "NONE", revision |-> 0, cycle |-> 0,
                               amount |-> 0, approver |-> NoUser]]
  /\ invoiced = [r \in Requests |-> 0]
  /\ command = [c \in PayCommands |-> [request |-> NoRequest, result |-> "NONE"]]

RequestStep ==
  \/ \E r \in Requests : CreateRequest(r)
  \/ \E r \in Requests, n \in Amounts : SubmitRequest(r, n)
  \/ \E u \in Users, r \in Requests :
       \/ RejectOrReturn(u, r)
       \/ CancelRequest(u, r)
       \/ Escalate(u, r)
       \/ ApproveRequest(u, r)
  \/ \E c \in PayCommands, u \in Users, r \in Requests, policyOk, locationOk \in BOOLEAN :
       \E revision \in 1 .. rq[r].revision :
         ApproveAndPay(c, u, r, revision, policyOk, locationOk)
  \/ \E c \in PayCommands, r \in Requests, locationOk \in BOOLEAN :
       CompletePayment(c, r, locationOk)
  \/ \E c \in PayCommands, r \in DirectRequests, n \in Amounts, cartOk \in BOOLEAN :
       DirectPurchase(c, r, n, cartOk)

Next == RequestStep \/ BudgetStep \/ WalletStep

Spec == Init /\ [][Next]_vars

(***************************************************************************)
(* Properties.                                                             *)
(***************************************************************************)

(* Every variable has its type. *)
TypeOK ==
  /\ BudgetTypeOK
  /\ WalletTypeOK
  /\ rq \in [Requests -> [state : States, revision : Nat, cycle : Cycles,
                          amount : Amounts \cup {0}, approver : Users \cup {NoUser}]]
  /\ invoiced \in [Requests -> Nat]
  /\ command \in [PayCommands -> [request : Requests \cup {NoRequest},
                                   result : Results]]

Successes(r) == {c \in PayCommands : command[c] = [request |-> r, result |-> "SUCCESS"]}

(* "Pay ... records payment once": a request awaits fulfilment iff its     *)
(* approved amount was invoiced once, debited once from the wallet and     *)
(* spent once from the reservation, by exactly one command that was told   *)
(* SUCCESS.  Until then no trace of a payment exists, however many         *)
(* approvers and requesters send commands and repeat them.  The same holds *)
(* of an order bought directly, whose cart two tabs may try to buy.        *)
PaidExactlyOnce ==
  \A r \in Requests :
    LET paid == rq[r].state = "AWAITING_FULFILMENT"
        due  == IF paid THEN rq[r].amount ELSE 0
    IN  /\ paid => rq[r].amount > 0
        /\ invoiced[r] = due
        /\ debited[r] = due
        /\ rsv[r].spent = due
        /\ Cardinality(Successes(r)) = IF paid THEN 1 ELSE 0

(* A request that is waiting for a decision or for payment holds its whole *)
(* approved amount in a live reservation, across any number of refreshes;  *)
(* any other request holds nothing.                                        *)
OpenRequestsHoldTheirAmount ==
  \A r \in Requests :
    rsv[r].remaining = IF rq[r].state \in Pending \cup {"APPROVED"}
                       THEN rq[r].amount ELSE 0

(* Whoever approved a request, alone or while paying for it, had the       *)
(* permission and a limit that covers the amount, for own requests the     *)
(* self-approval ones.  Only an order bought directly has no approver but  *)
(* the administrator who owns its cart.                                    *)
ApprovedWithinAuthority ==
  \A r \in Requests :
    rq[r].state \in {"APPROVED", "AWAITING_FULFILMENT"} =>
      IF r \in DirectRequests
      THEN rq[r].approver = CreatorOf[r]
      ELSE /\ rq[r].approver \in Users
           /\ MayApprove(rq[r].approver, r)
           /\ LimitFor(rq[r].approver, r) >= rq[r].amount

(* Everything the budget periods count as spent was paid from the wallet,  *)
(* and the reverse, over all accounts and cycles.                          *)
SpendIsPaidFromWallet ==
  TotalOf(Accounts, [a \in Accounts |->
                       TotalOf(Cycles, [c \in Cycles |-> bal[a][c].spent])])
    = TotalDebited

(* Finished requests and stored command results never change: a retried    *)
(* command, a late decision or a refresh cannot reopen a paid, rejected or *)
(* cancelled request, nor change what a command was told.                  *)
FinishedStaysFinished ==
  [][/\ \A r \in Requests :
          rq[r].state \in {"REJECTED", "CANCELLED", "AWAITING_FULFILMENT"}
            => rq'[r] = rq[r]
     /\ \A c \in PayCommands :
          command[c].result # "NONE" => command'[c] = command[c]]_vars

(* Approval, and payment, of a request never happen while the company's    *)
(* exposure (reserved and spent, over all its ACTIVE periods) is above its *)
(* contractual ceiling, unless somebody who may override it could decide.  *)
(* Submission and refreshes are not checked against the ceiling, so the    *)
(* exposure may well be above it when nobody decides; neither are direct   *)
(* purchases.                                                              *)
DecisionsRespectCeiling ==
  [][\A r \in Requests \ DirectRequests :
       /\ rq'[r].state # rq[r].state
       /\ rq'[r].state \in {"APPROVED", "AWAITING_FULFILMENT"}
       => \/ CompanyExposure' <= ceiling
          \/ \E u \in Overriders : u = CreatorOf[r] \/ MayApprove(u, r)]_vars

(* The purchase path implements its abstract description. *)
Phase(r) ==
  CASE rq[r].state \in {"NONE", "DRAFT"}      -> "Idle"
    [] rq[r].state \in Pending               -> "Awaiting"
    [] rq[r].state = "APPROVED"              -> "Approved"
    [] rq[r].state = "AWAITING_FULFILMENT"   -> "Paid"
    [] OTHER                                 -> "Closed"

Lifecycle == INSTANCE PurchaseLifecycle WITH
  phase  <- [r \in Requests |-> Phase(r)],
  amount <- [r \in Requests |-> rq[r].amount],
  funds  <- WalletBalance

ImplementsLifecycle == Lifecycle!LifecycleSpec

(* The comment on the approved branch of Approve & Pay: "An                *)
(* already-approved request must carry its still-live reservation", in the *)
(* period of the request.                                                  *)
ApprovedCarriesLiveReservation ==
  \A r \in Requests :
    rq[r].state = "APPROVED" => ReservedInPeriod(r) = rq[r].amount

(* The cancellation dialog: "Cancellation before payment releases the      *)
(* remaining budget reservation".  The ledger must therefore accept the    *)
(* release that CancelRequest posts, in the period of the request row.     *)
CancellationCanRelease ==
  \A r \in Requests : rsv[r].remaining > 0 =>
    Postable(bal[AccountOf[r]][rq[r].cycle], ReleaseEntry(rsv[r].remaining))

(* README: "Customer approval ... always prevents self-approval". *)
NoSelfApproval ==
  \A r \in Requests : rq[r].approver # CreatorOf[r]
=============================================================================
