------------------------ MODULE PurchaseFinance_proofs ------------------------
(***************************************************************************)
(* The purchase path for any number of requests, users, accounts, cycles   *)
(* and commands.  FinanceInv is inductive: the invariants of the budget    *)
(* accounts and of the wallet, and RequestOK, which ties each request row  *)
(* to its reservation, its wallet debit and its commands.  Every step of   *)
(* the path is a step of the budget accounts and a step of the wallet, so  *)
(* the theorems about those two hold here as well.                         *)
(***************************************************************************)
EXTENDS PurchaseFinance, CompanyFunds_proofs

Payable == Pending \cup {"APPROVED"}
Paid(r) == rq[r].state = "AWAITING_FULFILMENT"
Due(r)  == IF Paid(r) THEN rq[r].amount ELSE 0

RequestRow == [state : States, revision : Nat, cycle : Cycles,
               amount : Amounts \cup {0}, approver : Users \cup {NoUser}]

CommandRow == [request : Requests \cup {NoRequest}, result : Results]

RequestsTypeOK ==
  /\ rq \in [Requests -> RequestRow]
  /\ invoiced \in [Requests -> Nat]
  /\ command \in [PayCommands -> CommandRow]

(* A request has an amount from its submission on. *)
Submitted(r) ==
  IF rq[r].state \in {"NONE", "DRAFT"}
  THEN rq[r].amount = 0 /\ rsv[r].status = "NONE"
  ELSE rq[r].amount \in Amounts

Holding(r) == rsv[r].remaining = IF rq[r].state \in Payable THEN rq[r].amount ELSE 0

Accounted(r) == invoiced[r] = Due(r) /\ debited[r] = Due(r) /\ rsv[r].spent = Due(r)

OneSuccess(r) ==
  /\ Paid(r) <=> Successes(r) # {}
  /\ \A c, d \in Successes(r) : c = d

Authorised(r) ==
  rq[r].state \in {"APPROVED", "AWAITING_FULFILMENT"} =>
    IF r \in DirectRequests
    THEN rq[r].approver = CreatorOf[r]
    ELSE /\ rq[r].approver \in Users
         /\ MayApprove(rq[r].approver, r)
         /\ LimitFor(rq[r].approver, r) >= rq[r].amount

(* An order bought directly is paid as soon as it exists, so nobody ever   *)
(* decides on it.                                                          *)
BoughtAtOnce(r) ==
  r \in DirectRequests => rq[r].state \in {"NONE", "AWAITING_FULFILMENT"}

RequestOK(r) ==
  /\ Submitted(r) /\ Holding(r) /\ Accounted(r) /\ OneSuccess(r)
  /\ Authorised(r) /\ BoughtAtOnce(r)

RequestInv == RequestsTypeOK /\ \A r \in Requests : RequestOK(r)

FinanceInv == BudgetInv /\ WalletInv /\ RequestInv

(***************************************************************************)
(* Facts about one request.                                                *)
(***************************************************************************)
LEMMA RequestFacts ==
  ASSUME FinanceInv, NEW r \in Requests
  PROVE  /\ rq[r] \in RequestRow
         /\ rq[r].amount \in Nat /\ rq[r].revision \in Nat /\ rq[r].cycle \in Cycles
         /\ invoiced[r] \in Nat /\ debited[r] \in Nat
         /\ RequestOK(r)
         /\ rq[r].amount > 0 => rq[r].amount \in Amounts
<1>1. rq[r] \in RequestRow /\ RequestOK(r) /\ invoiced[r] \in Nat
  BY DEF FinanceInv, RequestInv, RequestsTypeOK
<1>2. rq[r].amount \in Amounts \cup {0} /\ rq[r].revision \in Nat /\ rq[r].cycle \in Cycles
  BY <1>1 DEF RequestRow
<1>3. debited[r] \in Nat
  BY DEF FinanceInv, WalletInv, WalletTypeOK
<1>4. Amounts \subseteq Nat \ {0}
  BY AccountsAssumption
<1>5. rq[r].amount \in Nat /\ (rq[r].amount > 0 => rq[r].amount \in Amounts)
  <2>1. \A n \in Amounts \cup {0} : n \in Nat /\ (n > 0 => n \in Amounts)
    BY <1>4
  <2> QED
    BY <1>2, <2>1
<1> QED
  BY <1>1, <1>2, <1>3, <1>5

LEMMA DecidedIsNotDirect ==
  ASSUME FinanceInv, NEW r \in Requests,
         rq[r].state \notin {"NONE", "AWAITING_FULFILMENT"}
  PROVE  r \notin DirectRequests
BY RequestFacts DEF RequestOK, BoughtAtOnce

(* A request that no part of a step touches stays in order. *)
LEMMA Untouched ==
  ASSUME NEW r \in Requests, RequestOK(r),
         rq'[r].state = rq[r].state, rq'[r].amount = rq[r].amount,
         rq'[r].approver = rq[r].approver,
         rsv'[r].status = rsv[r].status, rsv'[r].remaining = rsv[r].remaining,
         rsv'[r].spent = rsv[r].spent,
         invoiced'[r] = invoiced[r], debited'[r] = debited[r],
         Successes(r)' = Successes(r)
  PROVE  RequestOK(r)'
<1>1. Paid(r)' = Paid(r) /\ Due(r)' = Due(r)
  BY DEF Paid, Due
<1>2. Submitted(r)' /\ Holding(r)'
  BY DEF RequestOK, Submitted, Holding
<1>3. Accounted(r)'
  BY <1>1 DEF RequestOK, Accounted
<1>4. OneSuccess(r)'
  BY <1>1 DEF RequestOK, OneSuccess
<1>5. Authorised(r)' /\ BoughtAtOnce(r)'
  BY DEF RequestOK, Authorised, BoughtAtOnce, MayApprove, LimitFor
<1> QED
  BY <1>2, <1>3, <1>4, <1>5 DEF RequestOK

(* Only a stored SUCCESS adds to the successes, and only of its request. *)
LEMMA StoredResult ==
  ASSUME RequestsTypeOK, NEW c \in PayCommands, NEW r \in Requests, NEW result \in Results,
         command[c].result = "NONE", StoreResult(c, r, result)
  PROVE  /\ command' \in [PayCommands -> CommandRow]
         /\ \A q \in Requests : Successes(q)' =
              IF result = "SUCCESS" /\ q = r THEN Successes(q) \cup {c} ELSE Successes(q)
         /\ \A d \in PayCommands : d # c => command'[d] = command[d]
<1>1. command' = [command EXCEPT ![c] = [request |-> r, result |-> result]]
  BY DEF StoreResult
<1>2. [request |-> r, result |-> result] \in CommandRow
  BY DEF CommandRow
<1>3. command' \in [PayCommands -> CommandRow]
  BY <1>1, <1>2 DEF RequestsTypeOK
<1>4. /\ command'[c] = [request |-> r, result |-> result]
      /\ \A d \in PayCommands : d # c => command'[d] = command[d]
  BY <1>1 DEF RequestsTypeOK
<1>5. \A q \in Requests : c \notin Successes(q)
  BY DEF Successes
<1>6. ASSUME NEW q \in Requests
      PROVE  Successes(q)' = IF result = "SUCCESS" /\ q = r
                             THEN Successes(q) \cup {c} ELSE Successes(q)
  <2>1. c \in Successes(q)' <=> result = "SUCCESS" /\ q = r
    BY <1>4 DEF Successes
  <2>2. \A d \in PayCommands : d # c => (d \in Successes(q)' <=> d \in Successes(q))
    BY <1>4 DEF Successes
  <2>3. Successes(q) \subseteq PayCommands /\ Successes(q)' \subseteq PayCommands
    BY DEF Successes
  <2> QED
    BY <1>5, <2>1, <2>2, <2>3
<1> QED
  BY <1>3, <1>4, <1>6

LEMMA ResultType ==
  ASSUME NEW u, NEW r, NEW revision, NEW payable, NEW policyOk, NEW locationOk
  PROVE  PaymentResult(u, r, revision, payable, policyOk, locationOk) \in Results
BY DEF PaymentResult, Results

(* What SUCCESS means: none of the checks failed. *)
LEMMA SuccessFacts ==
  ASSUME NEW u, NEW r, NEW revision, NEW payable, NEW policyOk, NEW locationOk,
         PaymentResult(u, r, revision, payable, policyOk, locationOk) = "SUCCESS"
  PROVE  /\ policyOk
         /\ rq[r].state \in payable
         /\ PeriodOpen(r)
         /\ ~CeilingExceeded(u, IF rq[r].state = "APPROVED" THEN 0 ELSE UnreservedAmount(r))
         /\ ~(WalletBalance < rq[r].amount)
BY DEF PaymentResult

(***************************************************************************)
(* Each action keeps RequestInv, and is a step of the budget accounts and  *)
(* of the wallet.                                                          *)
(***************************************************************************)
ComponentSteps == [BudgetNext]_budgetVars /\ [WalletNext]_walletVars

LEMMA InitFinance == Init => FinanceInv
<1> SUFFICES ASSUME Init PROVE FinanceInv
  OBVIOUS
<1>1. BudgetInv /\ WalletInv
  BY InitInv, WalletInitInv DEF Init
<1>2. RequestsTypeOK
  <2>1. 0 \in Cycles
    BY AccountsAssumption DEF Cycles
  <2> QED
    BY <2>1 DEF Init, RequestsTypeOK, RequestRow, CommandRow, States, Results
<1>3. ASSUME NEW r \in Requests PROVE RequestOK(r)
  <2>1. rq[r].state = "NONE" /\ rq[r].amount = 0 /\ rsv[r] = NoReservation
        /\ invoiced[r] = 0 /\ debited[r] = 0
    BY DEF Init, BudgetInit, WalletInit
  <2>2. Successes(r) = {}
    BY DEF Init, Successes
  <2> QED
    BY <2>1, <2>2
       DEF RequestOK, Submitted, Holding, Accounted, OneSuccess, Authorised, BoughtAtOnce,
           Paid, Due, Payable, Pending, NoReservation
<1> QED
  BY <1>1, <1>2, <1>3 DEF FinanceInv, RequestInv

LEMMA CreateInv ==
  ASSUME FinanceInv, NEW r \in Requests, CreateRequest(r)
  PROVE  RequestInv' /\ ComponentSteps
<1> DEFINE row == [rq[r] EXCEPT !.state = "DRAFT", !.revision = 1,
                                !.cycle = cycle[AccountOf[r]]]
<1>1. /\ rq[r].state = "NONE" /\ r \notin DirectRequests
      /\ rq' = [rq EXCEPT ![r] = row]
      /\ UNCHANGED <<budgetVars, walletVars, invoiced, command>>
  BY DEF CreateRequest, FinanceInv, RequestInv, RequestsTypeOK
<1>2. row \in RequestRow
  BY RequestFacts, RowFacts DEF FinanceInv, RequestRow, States
<1>3. RequestsTypeOK'
  BY <1>1, <1>2 DEF FinanceInv, RequestInv, RequestsTypeOK
<1>4. \A q \in Requests : Successes(q)' = Successes(q)
  BY <1>1 DEF Successes
<1>5. UNCHANGED <<rsv, debited>>
  BY <1>1 DEF budgetVars, walletVars
<1>6. ASSUME NEW q \in Requests, q # r PROVE RequestOK(q)'
  <2>1. rq'[q] = rq[q]
    BY <1>1, <1>6 DEF FinanceInv, RequestInv, RequestsTypeOK
  <2> QED
    BY <1>1, <1>4, <1>5, <2>1, Untouched, RequestFacts
<1>7. RequestOK(r)'
  <2>1. rq'[r].state = "DRAFT" /\ rq'[r].amount = rq[r].amount
    BY <1>1, <1>2 DEF FinanceInv, RequestInv, RequestsTypeOK, RequestRow
  <2> QED
    BY <1>1, <1>4, <1>5, <2>1, RequestFacts
       DEF RequestOK, Submitted, Holding, Accounted, OneSuccess, Authorised, BoughtAtOnce,
           Paid, Due, Payable, Pending
<1> QED
  BY <1>1, <1>3, <1>6, <1>7 DEF RequestInv, ComponentSteps

LEMMA SubmitInv ==
  ASSUME FinanceInv, NEW r \in Requests, NEW n \in Amounts, SubmitRequest(r, n)
  PROVE  RequestInv' /\ ComponentSteps
<1> DEFINE next == IF r \in DepartmentRequests THEN "PENDING_DEPARTMENT" ELSE "PENDING_COMPANY"
           row == [rq[r] EXCEPT !.amount = n, !.state = next]
<1>1. /\ rq[r].state = "DRAFT" /\ rq' = [rq EXCEPT ![r] = row]
      /\ Reserve(r, n)
      /\ UNCHANGED <<walletVars, invoiced, command>>
  BY DEF SubmitRequest, FinanceInv, RequestInv, RequestsTypeOK
<1>2. next \in Pending
  BY DEF Pending
<1>3. row \in RequestRow /\ row.state = next /\ row.amount = n
  BY <1>2, RequestFacts DEF RequestRow, States
<1> HIDE DEF next, row
<1>4. RequestsTypeOK'
  BY <1>1, <1>3 DEF FinanceInv, RequestInv, RequestsTypeOK
<1>5. \A q \in Requests : Successes(q)' = Successes(q)
  BY <1>1 DEF Successes
<1>6. /\ rsv'[r].remaining = n /\ rsv'[r].spent = 0
      /\ \A q \in Requests : q # r => rsv'[q] = rsv[q]
      /\ debited' = debited
  BY <1>1 DEF Reserve, FinanceInv, BudgetInv, BudgetTypeOK, walletVars
<1>7. ASSUME NEW q \in Requests, q # r PROVE RequestOK(q)'
  <2>1. rq'[q] = rq[q]
    BY <1>1, <1>7 DEF FinanceInv, RequestInv, RequestsTypeOK
  <2> QED
    BY <1>1, <1>5, <1>6, <1>7, <2>1, Untouched, RequestFacts
<1>8. RequestOK(r)'
  <2>1. rq'[r].state = next /\ rq'[r].amount = n
    BY <1>1, <1>3 DEF FinanceInv, RequestInv, RequestsTypeOK
  <2>2. ~Paid(r)' /\ ~Paid(r) /\ Due(r)' = 0 /\ Due(r) = 0
    BY <1>1, <1>2, <2>1 DEF Paid, Due, Pending
  <2>3. Submitted(r)' /\ Holding(r)' /\ Authorised(r)'
    BY <1>2, <1>6, <2>1 DEF Submitted, Holding, Authorised, Pending, Payable
  <2>4. Accounted(r)' /\ OneSuccess(r)'
    BY <1>1, <1>5, <1>6, <2>2, RequestFacts DEF RequestOK, Accounted, OneSuccess
  <2>5. BoughtAtOnce(r)'
    BY <1>1, DecidedIsNotDirect DEF BoughtAtOnce
  <2> QED
    BY <2>3, <2>4, <2>5 DEF RequestOK
<1> QED
  BY <1>1, <1>4, <1>7, <1>8 DEF RequestInv, ComponentSteps, BudgetNext

(* Closing gives back what the request still holds. *)
LEMMA CloseInv ==
  ASSUME FinanceInv, NEW r \in Requests, NEW next \in Closed,
         rq[r].state \in Payable \cup {"RETURNED"}, Close(r, next)
  PROVE  RequestInv' /\ ComponentSteps
<1> DEFINE row == [rq[r] EXCEPT !.state = next, !.revision = @ + 1]
<1>1. rq' = [rq EXCEPT ![r] = row] /\ UNCHANGED <<walletVars, invoiced, command>>
  BY DEF Close, FinanceInv, RequestInv, RequestsTypeOK
<1>2. row \in RequestRow /\ row.state = next /\ row.amount = rq[r].amount
  <2>1. rq[r] \in RequestRow /\ rq[r].revision + 1 \in Nat
    BY RequestFacts
  <2>2. next \in States
    BY DEF States
  <2> QED
    BY <2>1, <2>2 DEF RequestRow
<1> HIDE DEF row
<1>3. RequestsTypeOK'
  BY <1>1, <1>2 DEF FinanceInv, RequestInv, RequestsTypeOK
<1>4. \A q \in Requests : Successes(q)' = Successes(q)
  BY <1>1 DEF Successes
<1>5. debited' = debited
  BY <1>1 DEF walletVars
<1>6. /\ rsv'[r].remaining = 0 /\ rsv'[r].spent = rsv[r].spent
      /\ \A q \in Requests : q # r => rsv'[q] = rsv[q]
  <2>1. CASE rsv[r].remaining > 0
    <3>1. Release(r, rq[r].cycle)
      BY <2>1 DEF Close
    <3> QED
      BY <3>1 DEF Release, FinanceInv, BudgetInv, BudgetTypeOK, Reservation
  <2>2. CASE ~(rsv[r].remaining > 0)
    <3>1. UNCHANGED rsv
      BY <2>2 DEF Close, budgetVars
    <3> QED
      BY <2>2, <3>1, RowFacts DEF FinanceInv
  <2> QED
    BY <2>1, <2>2
<1>7. [BudgetNext]_budgetVars
  <2>1. rq[r].cycle \in Cycles
    BY RequestFacts
  <2> QED
    BY <2>1 DEF Close, BudgetNext
<1>8. ASSUME NEW q \in Requests, q # r PROVE RequestOK(q)'
  <2>1. rq'[q] = rq[q]
    BY <1>1, <1>8 DEF FinanceInv, RequestInv, RequestsTypeOK
  <2> QED
    BY <1>1, <1>4, <1>5, <1>6, <1>8, <2>1, Untouched, RequestFacts
<1>9. RequestOK(r)'
  <2>1. rq'[r].state = next /\ rq'[r].amount = rq[r].amount
    BY <1>1, <1>2 DEF FinanceInv, RequestInv, RequestsTypeOK
  <2>2. ~Paid(r)' /\ ~Paid(r) /\ Due(r)' = 0 /\ Due(r) = 0
    BY <2>1 DEF Paid, Due, Pending, Payable, Closed
  <2>3. Submitted(r) /\ rq[r].state \notin {"NONE", "DRAFT"}
    BY RequestFacts DEF RequestOK, Payable, Pending
  <2>4. Submitted(r)' /\ Holding(r)' /\ Authorised(r)'
    BY <1>6, <2>1, <2>3 DEF Submitted, Holding, Authorised, Pending, Payable, Closed
  <2>5. Accounted(r)' /\ OneSuccess(r)'
    BY <1>1, <1>4, <1>5, <1>6, <2>2, RequestFacts DEF RequestOK, Accounted, OneSuccess
  <2>6. BoughtAtOnce(r)'
    BY DecidedIsNotDirect DEF BoughtAtOnce, Payable, Pending
  <2> QED
    BY <2>4, <2>5, <2>6 DEF RequestOK
<1> QED
  BY <1>1, <1>3, <1>7, <1>8, <1>9 DEF RequestInv, ComponentSteps

(* A row that moves between payable states keeps what it holds. *)
LEMMA MoveInv ==
  ASSUME FinanceInv, NEW r \in Requests, NEW row \in RequestRow,
         rq' = [rq EXCEPT ![r] = row],
         rq[r].state \in Payable, row.state \in Payable, row.amount = rq[r].amount,
         row.state = "APPROVED" =>
           /\ row.approver \in Users /\ MayApprove(row.approver, r)
           /\ LimitFor(row.approver, r) >= row.amount,
         UNCHANGED <<budgetVars, walletVars, invoiced, command>>
  PROVE  RequestInv' /\ ComponentSteps
<1>1. RequestsTypeOK'
  BY DEF FinanceInv, RequestInv, RequestsTypeOK
<1>2. \A q \in Requests : Successes(q)' = Successes(q)
  BY DEF Successes
<1>3. UNCHANGED <<rsv, debited>>
  BY DEF budgetVars, walletVars
<1>4. ASSUME NEW q \in Requests, q # r PROVE RequestOK(q)'
  <2>1. rq'[q] = rq[q]
    BY <1>4 DEF FinanceInv, RequestInv, RequestsTypeOK
  <2> QED
    BY <1>2, <1>3, <2>1, Untouched, RequestFacts
<1>5. RequestOK(r)'
  <2>1. rq'[r] = row
    BY DEF FinanceInv, RequestInv, RequestsTypeOK
  <2>2. ~Paid(r)' /\ ~Paid(r) /\ Due(r)' = 0 /\ Due(r) = 0
    BY <2>1 DEF Paid, Due, Pending, Payable
  <2>3. Submitted(r)' /\ Holding(r)'
    BY <1>3, <2>1, RequestFacts DEF RequestOK, Submitted, Holding, Pending, Payable
  <2>4. Authorised(r)' /\ BoughtAtOnce(r)'
    <3>1. r \notin DirectRequests
      BY DecidedIsNotDirect DEF Payable, Pending
    <3> QED
      BY <2>1, <3>1 DEF Authorised, BoughtAtOnce, Pending, Payable, MayApprove, LimitFor
  <2>5. Accounted(r)' /\ OneSuccess(r)'
    BY <1>2, <1>3, <2>2, RequestFacts DEF RequestOK, Accounted, OneSuccess
  <2> QED
    BY <2>3, <2>4, <2>5 DEF RequestOK
<1> QED
  BY <1>1, <1>4, <1>5 DEF RequestInv, ComponentSteps

(***************************************************************************)
(* Payment.                                                                *)
(***************************************************************************)
(* One command succeeds: invoice, spend, debit and the row move together.  *)
LEMMA PaymentInv ==
  ASSUME FinanceInv, NEW c \in PayCommands, NEW r \in Requests,
         NEW approver \in Users, NEW decisions \in Nat,
         command[c].result = "NONE", StoreResult(c, r, "SUCCESS"),
         TakePayment(r, approver, decisions),
         rq[r].state \in Payable, ~(WalletBalance < rq[r].amount),
         MayApprove(approver, r), LimitFor(approver, r) >= rq[r].amount
  PROVE  RequestInv' /\ ComponentSteps
<1> DEFINE row == [rq[r] EXCEPT !.state = "AWAITING_FULFILMENT",
                                !.revision = @ + decisions, !.approver = approver]
           n == rq[r].amount
<1>1. /\ rq' = [rq EXCEPT ![r] = row] /\ invoiced[r] = 0
      /\ invoiced' = [invoiced EXCEPT ![r] = @ + n]
      /\ Spend(r, n) /\ Debit(r, n)
  BY DEF TakePayment, FinanceInv, RequestInv, RequestsTypeOK
<1>2. row \in RequestRow /\ row.state = "AWAITING_FULFILMENT" /\ row.amount = n
      /\ row.approver = approver
  <2>1. rq[r] \in RequestRow /\ rq[r].revision + decisions \in Nat
    BY RequestFacts
  <2> QED
    BY <2>1 DEF RequestRow, States
<1>3. n \in Amounts /\ n \in Nat /\ n # 0
  <2>1. Amounts \subseteq Nat \ {0}
    BY AccountsAssumption
  <2>2. n \in Amounts
    BY RequestFacts DEF RequestOK, Submitted, Payable, Pending
  <2> QED
    BY <2>1, <2>2
<1> HIDE DEF row, n
<1>4. /\ command' \in [PayCommands -> CommandRow]
      /\ Successes(r)' = Successes(r) \cup {c}
      /\ \A q \in Requests : q # r => Successes(q)' = Successes(q)
  <2>1. RequestsTypeOK /\ "SUCCESS" \in Results
    BY DEF FinanceInv, RequestInv, Results
  <2> QED
    BY <2>1, StoredResult
<1>5. RequestsTypeOK'
  BY <1>1, <1>2, <1>3, <1>4 DEF FinanceInv, RequestInv, RequestsTypeOK
<1>6. ~Paid(r) /\ Due(r) = 0 /\ Successes(r) = {} /\ debited[r] = 0 /\ rsv[r].spent = 0
  <2>1. ~Paid(r) /\ Due(r) = 0
    BY DEF Paid, Due, Payable, Pending
  <2> QED
    BY <2>1, RequestFacts DEF RequestOK, Accounted, OneSuccess
<1>7. /\ rsv'[r].remaining = 0 /\ rsv'[r].spent = n
      /\ \A q \in Requests : q # r => rsv'[q] = rsv[q]
  BY <1>1, <1>3, <1>6, RowFacts DEF Spend, FinanceInv, BudgetInv, BudgetTypeOK, Reservation
<1>8. debited'[r] = n /\ \A q \in Requests : q # r => debited'[q] = debited[q]
  BY <1>1, <1>3, <1>6 DEF Debit, FinanceInv, WalletInv, WalletTypeOK
<1>9. invoiced'[r] = n /\ \A q \in Requests : q # r => invoiced'[q] = invoiced[q]
  BY <1>1, <1>3 DEF FinanceInv, RequestInv, RequestsTypeOK
<1>10. ASSUME NEW q \in Requests, q # r PROVE RequestOK(q)'
  <2>1. rq'[q] = rq[q]
    BY <1>1, <1>10 DEF FinanceInv, RequestInv, RequestsTypeOK
  <2> QED
    BY <1>4, <1>7, <1>8, <1>9, <1>10, <2>1, Untouched, RequestFacts
<1>11. RequestOK(r)'
  <2>1. rq'[r] = row
    BY <1>1 DEF FinanceInv, RequestInv, RequestsTypeOK
  <2>2. Paid(r)' /\ Due(r)' = n
    BY <1>2, <2>1 DEF Paid, Due
  <2>3. Submitted(r)' /\ Holding(r)'
    BY <1>2, <1>3, <1>7, <2>1 DEF Submitted, Holding, Payable, Pending
  <2>4. Accounted(r)'
    BY <1>7, <1>8, <1>9, <2>2 DEF Accounted
  <2>5. OneSuccess(r)'
    BY <1>4, <1>6, <2>2 DEF OneSuccess
  <2>6. Authorised(r)' /\ BoughtAtOnce(r)'
    <3>1. r \notin DirectRequests
      BY DecidedIsNotDirect DEF Payable, Pending
    <3> QED
      BY <1>2, <2>1, <3>1 DEF Authorised, BoughtAtOnce, MayApprove, LimitFor, n
  <2> QED
    BY <2>3, <2>4, <2>5, <2>6 DEF RequestOK
<1>12. BudgetNext
  BY <1>1, <1>3 DEF BudgetNext
<1>13. WalletNext
  <2>1. WalletBalance \in Int
    BY WalletTotalsType DEF FinanceInv, WalletInv, WalletBalance
  <2>2. n \in 1 .. WalletBalance
    BY <1>3, <2>1 DEF n
  <2> QED
    BY <1>1, <2>2 DEF WalletNext
<1> QED
  BY <1>5, <1>10, <1>11, <1>12, <1>13 DEF RequestInv, ComponentSteps

(* A stored refusal changes nothing but its command row. *)
LEMMA RefusalInv ==
  ASSUME FinanceInv, NEW c \in PayCommands, NEW r \in Requests, NEW result \in Results,
         command[c].result = "NONE", StoreResult(c, r, result), result # "SUCCESS",
         UNCHANGED <<budgetVars, walletVars, rq, invoiced>>
  PROVE  RequestInv' /\ ComponentSteps
<1>1. /\ command' \in [PayCommands -> CommandRow]
      /\ \A q \in Requests : Successes(q)' = Successes(q)
  BY StoredResult DEF FinanceInv, RequestInv
<1>2. RequestsTypeOK'
  BY <1>1 DEF FinanceInv, RequestInv, RequestsTypeOK
<1>3. UNCHANGED <<rsv, debited>>
  BY DEF budgetVars, walletVars
<1>4. ASSUME NEW q \in Requests PROVE RequestOK(q)'
  BY <1>1, <1>3, Untouched, RequestFacts
<1> QED
  BY <1>2, <1>4 DEF RequestInv, ComponentSteps

(* The two things that Approve & Pay and checkout may do. *)
Pays(c, r) ==
  /\ command[c].result = "NONE"
  /\ StoreResult(c, r, "SUCCESS")
  /\ rq[r].state \in Payable
  /\ ~(WalletBalance < rq[r].amount)
  /\ \E approver \in Users, decisions \in Nat :
       /\ TakePayment(r, approver, decisions)
       /\ MayApprove(approver, r) /\ LimitFor(approver, r) >= rq[r].amount

Refuses(c, r) ==
  /\ command[c].result = "NONE"
  /\ \E result \in Results \ {"SUCCESS"} : StoreResult(c, r, result)
  /\ UNCHANGED <<budgetVars, walletVars, rq, invoiced>>

LEMMA PaysOrRefusesInv ==
  ASSUME FinanceInv, NEW c \in PayCommands, NEW r \in Requests, Pays(c, r) \/ Refuses(c, r)
  PROVE  RequestInv' /\ ComponentSteps
<1>1. CASE Pays(c, r)
  BY <1>1, PaymentInv DEF Pays
<1>2. CASE Refuses(c, r)
  BY <1>2, RefusalInv DEF Refuses
<1> QED
  BY <1>1, <1>2

LEMMA ApproveAndPayCases ==
  ASSUME FinanceInv, NEW c \in PayCommands, NEW u \in Users, NEW r \in Requests,
         NEW revision, NEW policyOk \in BOOLEAN, NEW locationOk \in BOOLEAN,
         ApproveAndPay(c, u, r, revision, policyOk, locationOk)
  PROVE  Pays(c, r) \/ Refuses(c, r)
<1> DEFINE policy == policyOk /\ LimitFor(u, r) >= rq[r].amount
           result == PaymentResult(u, r, revision, Payable, policy, locationOk)
<1>1. /\ command[c].result = "NONE" /\ MayApprove(u, r)
      /\ StoreResult(c, r, result)
      /\ \/ /\ result = "SUCCESS"
            /\ rq[r].state = "APPROVED"
            /\ TakePayment(r, rq[r].approver, 1)
         \/ /\ result = "SUCCESS"
            /\ FinalApproval(u, r)
            /\ TakePayment(r, u, 2)
         \/ /\ result # "SUCCESS"
            /\ UNCHANGED <<budgetVars, walletVars, rq, invoiced>>
  BY DEF ApproveAndPay, Payable
<1>2. result \in Results
  BY ResultType
<1>3. result = "SUCCESS" => /\ policy /\ rq[r].state \in Payable
                            /\ ~(WalletBalance < rq[r].amount)
  BY SuccessFacts
<1> HIDE DEF result
<1>4. CASE result = "SUCCESS" /\ rq[r].state = "APPROVED" /\ TakePayment(r, rq[r].approver, 1)
  <2>1. /\ rq[r].approver \in Users /\ MayApprove(rq[r].approver, r)
        /\ LimitFor(rq[r].approver, r) >= rq[r].amount
    BY <1>4, RequestFacts, DecidedIsNotDirect DEF RequestOK, Authorised
  <2> QED
    BY <1>1, <1>3, <1>4, <2>1 DEF Pays
<1>5. CASE result = "SUCCESS" /\ FinalApproval(u, r) /\ TakePayment(r, u, 2)
  BY <1>1, <1>3, <1>5 DEF Pays
<1>6. CASE result # "SUCCESS" /\ UNCHANGED <<budgetVars, walletVars, rq, invoiced>>
  BY <1>1, <1>2, <1>6 DEF Refuses
<1> QED
  BY <1>1, <1>4, <1>5, <1>6

LEMMA CompletePaymentCases ==
  ASSUME FinanceInv, NEW c \in PayCommands, NEW r \in Requests,
         NEW locationOk \in BOOLEAN, CompletePayment(c, r, locationOk)
  PROVE  Pays(c, r) \/ Refuses(c, r)
<1> DEFINE result == PaymentResult(CreatorOf[r], r, rq[r].revision, {"APPROVED"},
                                   TRUE, locationOk)
<1>1. /\ command[c].result = "NONE" /\ StoreResult(c, r, result)
      /\ \/ result = "SUCCESS" /\ TakePayment(r, rq[r].approver, 1)
         \/ /\ result = "ALREADY_PROCESSED"
            /\ UNCHANGED <<budgetVars, walletVars, rq, invoiced>>
  BY DEF CompletePayment
<1>2. result \in Results
  BY ResultType
<1>3. result = "SUCCESS" => rq[r].state = "APPROVED" /\ ~(WalletBalance < rq[r].amount)
  BY DEF PaymentResult
<1> HIDE DEF result
<1>4. CASE result = "SUCCESS" /\ TakePayment(r, rq[r].approver, 1)
  <2>1. /\ rq[r].approver \in Users /\ MayApprove(rq[r].approver, r)
        /\ LimitFor(rq[r].approver, r) >= rq[r].amount
    BY <1>3, <1>4, RequestFacts, DecidedIsNotDirect DEF RequestOK, Authorised
  <2>2. rq[r].state \in Payable
    BY <1>3, <1>4 DEF Payable
  <2> QED
    BY <1>1, <1>3, <1>4, <2>1, <2>2 DEF Pays
<1>5. CASE /\ result = "ALREADY_PROCESSED"
           /\ UNCHANGED <<budgetVars, walletVars, rq, invoiced>>
  BY <1>1, <1>2, <1>5 DEF Refuses
<1> QED
  BY <1>1, <1>4, <1>5

(***************************************************************************)
(* Direct purchase: a new order, paid.                                     *)
(***************************************************************************)
Buys(c, r, n) ==
  /\ command[c].result = "NONE"
  /\ StoreResult(c, r, "SUCCESS")
  /\ rq[r].state = "NONE"
  /\ ~(WalletBalance < n)
  /\ PlaceOrder(r, n)

LEMMA DirectPurchaseCases ==
  ASSUME NEW c \in PayCommands, NEW r \in DirectRequests, NEW n \in Amounts,
         NEW cartOk \in BOOLEAN, DirectPurchase(c, r, n, cartOk)
  PROVE  Buys(c, r, n) \/ Refuses(c, r)
<1> DEFINE result == DirectPurchaseResult(r, n, cartOk)
<1>1. /\ command[c].result = "NONE" /\ StoreResult(c, r, result)
      /\ \/ result = "SUCCESS" /\ PlaceOrder(r, n)
         \/ /\ result # "SUCCESS"
            /\ UNCHANGED <<budgetVars, walletVars, rq, invoiced>>
  BY DEF DirectPurchase
<1>2. /\ result \in Results
      /\ result = "SUCCESS" => rq[r].state = "NONE" /\ ~(WalletBalance < n)
  BY DEF DirectPurchaseResult, Results
<1> HIDE DEF result
<1> QED
  BY <1>1, <1>2 DEF Buys, Refuses

LEMMA BuysInv ==
  ASSUME FinanceInv, NEW c \in PayCommands, NEW r \in DirectRequests, NEW n \in Amounts,
         Buys(c, r, n)
  PROVE  RequestInv' /\ ComponentSteps
<1> DEFINE row == [state |-> "AWAITING_FULFILMENT", revision |-> 2,
                   cycle |-> cycle[AccountOf[r]], amount |-> n, approver |-> CreatorOf[r]]
<1>1. /\ rq' = [rq EXCEPT ![r] = row]
      /\ invoiced' = [invoiced EXCEPT ![r] = @ + n]
      /\ ReserveAndSpend(r, n) /\ Debit(r, n)
  BY DEF Buys, PlaceOrder
<1>2. r \in Requests /\ CreatorOf[r] \in Users
  BY UsersAssumption
<1>3. row \in RequestRow /\ row.state = "AWAITING_FULFILMENT" /\ row.amount = n
      /\ row.approver = CreatorOf[r]
  <2>1. cycle[AccountOf[r]] \in Cycles
    BY <1>2, AccountsAssumption DEF FinanceInv, BudgetInv, BudgetTypeOK
  <2> QED
    BY <1>2, <2>1 DEF RequestRow, States
<1>4. n \in Nat /\ n # 0
  BY AccountsAssumption
<1> HIDE DEF row
<1>5. /\ command' \in [PayCommands -> CommandRow]
      /\ Successes(r)' = Successes(r) \cup {c}
      /\ \A q \in Requests : q # r => Successes(q)' = Successes(q)
  <2>1. RequestsTypeOK /\ "SUCCESS" \in Results
    BY DEF FinanceInv, RequestInv, Results
  <2> QED
    BY <1>2, <2>1, StoredResult DEF Buys
<1>6. ~Paid(r) /\ invoiced[r] = 0 /\ debited[r] = 0 /\ Successes(r) = {}
  <2>1. ~Paid(r) /\ Due(r) = 0
    BY DEF Buys, Paid, Due
  <2> QED
    BY <1>2, <2>1, RequestFacts DEF RequestOK, Accounted, OneSuccess
<1>7. RequestsTypeOK'
  BY <1>1, <1>2, <1>3, <1>4, <1>5 DEF FinanceInv, RequestInv, RequestsTypeOK
<1>8. /\ rsv'[r].remaining = 0 /\ rsv'[r].spent = n
      /\ \A q \in Requests : q # r => rsv'[q] = rsv[q]
  BY <1>1, <1>2 DEF ReserveAndSpend, FinanceInv, BudgetInv, BudgetTypeOK
<1>9. debited'[r] = n /\ \A q \in Requests : q # r => debited'[q] = debited[q]
  BY <1>1, <1>2, <1>4, <1>6 DEF Debit, FinanceInv, WalletInv, WalletTypeOK
<1>10. invoiced'[r] = n /\ \A q \in Requests : q # r => invoiced'[q] = invoiced[q]
  BY <1>1, <1>2, <1>4, <1>6 DEF FinanceInv, RequestInv, RequestsTypeOK
<1>11. ASSUME NEW q \in Requests, q # r PROVE RequestOK(q)'
  <2>1. rq'[q] = rq[q]
    BY <1>1, <1>11 DEF FinanceInv, RequestInv, RequestsTypeOK
  <2> QED
    BY <1>5, <1>8, <1>9, <1>10, <1>11, <2>1, Untouched, RequestFacts
<1>12. RequestOK(r)'
  <2>1. rq'[r] = row
    BY <1>1, <1>2 DEF FinanceInv, RequestInv, RequestsTypeOK
  <2>2. Paid(r)' /\ Due(r)' = n
    BY <1>3, <2>1 DEF Paid, Due
  <2>3. Submitted(r)' /\ Holding(r)'
    BY <1>3, <1>8, <2>1 DEF Submitted, Holding, Payable, Pending
  <2>4. Accounted(r)' /\ OneSuccess(r)'
    BY <1>5, <1>6, <1>8, <1>9, <1>10, <2>2 DEF Accounted, OneSuccess
  <2>5. Authorised(r)' /\ BoughtAtOnce(r)'
    BY <1>3, <2>1 DEF Authorised, BoughtAtOnce
  <2> QED
    BY <2>3, <2>4, <2>5 DEF RequestOK
<1>13. BudgetNext
  BY <1>1, <1>2 DEF BudgetNext
<1>14. WalletNext
  <2>1. WalletBalance \in Int
    BY WalletTotalsType DEF FinanceInv, WalletInv, WalletBalance
  <2>2. n \in 1 .. WalletBalance
    BY <1>4, <2>1 DEF Buys
  <2> QED
    BY <1>1, <1>2, <2>2 DEF WalletNext
<1> QED
  BY <1>7, <1>11, <1>12, <1>13, <1>14 DEF RequestInv, ComponentSteps

(***************************************************************************)
(* Decisions and cancellation.                                             *)
(***************************************************************************)
LEMMA RejectOrReturnInv ==
  ASSUME FinanceInv, NEW u \in Users, NEW r \in Requests, RejectOrReturn(u, r)
  PROVE  RequestInv' /\ ComponentSteps
<1>1. PICK next \in {"REJECTED", "RETURNED"} : Close(r, next)
  BY DEF RejectOrReturn
<1>2. next \in Closed
  BY DEF Closed
<1>3. rq[r].state \in Payable \cup {"RETURNED"}
  BY DEF RejectOrReturn, MayDecide, Payable
<1> QED
  BY <1>1, <1>2, <1>3, CloseInv

LEMMA CancelClosesOpen ==
  ASSUME FinanceInv, NEW u \in Users, NEW r \in Requests, CancelRequest(u, r)
  PROVE  /\ Close(r, "CANCELLED") /\ "CANCELLED" \in Closed
         /\ rq[r].state \in Payable \cup {"RETURNED"}
<1>1. Close(r, "CANCELLED") /\ rq[r].amount > 0
      /\ rq[r].state \notin {"REJECTED", "CANCELLED", "AWAITING_FULFILMENT"}
  BY DEF CancelRequest
<1>2. rq[r].state \notin {"NONE", "DRAFT"}
  <2>1. Submitted(r) /\ rq[r].amount \in Nat
    BY RequestFacts DEF RequestOK
  <2> QED
    BY <1>1, <2>1 DEF Submitted
<1>3. rq[r].state \in States
  BY RequestFacts DEF RequestRow
<1> QED
  BY <1>1, <1>2, <1>3 DEF States, Closed, Payable

LEMMA CancelInv ==
  ASSUME FinanceInv, NEW u \in Users, NEW r \in Requests, CancelRequest(u, r)
  PROVE  RequestInv' /\ ComponentSteps
BY CancelClosesOpen, CloseInv

LEMMA EscalateInv ==
  ASSUME FinanceInv, NEW u \in Users, NEW r \in Requests, Escalate(u, r)
  PROVE  RequestInv' /\ ComponentSteps
<1>1. /\ rq[r].state \in Payable
      /\ UNCHANGED <<budgetVars, walletVars, invoiced, command>>
  BY DEF Escalate, MayDecide, Payable
<1>2. PICK next \in {"PENDING_COMPANY", "PENDING_AXORA"} :
        rq' = [rq EXCEPT ![r].state = next, ![r].revision = @ + 1]
  BY DEF Escalate
<1> DEFINE row == [rq[r] EXCEPT !.state = next, !.revision = @ + 1]
<1>3. rq' = [rq EXCEPT ![r] = row]
  BY <1>2 DEF FinanceInv, RequestInv, RequestsTypeOK
<1>4. row \in RequestRow /\ row.state = next /\ row.amount = rq[r].amount
  <2>1. rq[r] \in RequestRow /\ rq[r].revision + 1 \in Nat
    BY RequestFacts
  <2>2. next \in States
    BY DEF States, Pending
  <2> QED
    BY <2>1, <2>2 DEF RequestRow
<1> HIDE DEF row
<1>5. next \in Payable /\ next # "APPROVED"
  BY DEF Payable, Pending
<1> QED
  BY <1>1, <1>3, <1>4, <1>5, MoveInv

LEMMA ApproveInv ==
  ASSUME FinanceInv, NEW u \in Users, NEW r \in Requests, ApproveRequest(u, r)
  PROVE  RequestInv' /\ ComponentSteps
<1> DEFINE row == [rq[r] EXCEPT !.state = "APPROVED", !.revision = @ + 1, !.approver = u]
<1>1. /\ rq[r].state \in Payable /\ MayApprove(u, r)
      /\ rq[r].amount <= LimitFor(u, r)
      /\ UNCHANGED <<budgetVars, walletVars, invoiced, command>>
  BY DEF ApproveRequest, FinalApproval, MayDecide, Payable
<1>2. rq' = [rq EXCEPT ![r] = row]
  BY DEF ApproveRequest, FinanceInv, RequestInv, RequestsTypeOK
<1>3. row \in RequestRow /\ row.state = "APPROVED" /\ row.amount = rq[r].amount
      /\ row.approver = u
  <2>1. rq[r] \in RequestRow /\ rq[r].revision + 1 \in Nat
    BY RequestFacts
  <2> QED
    BY <2>1 DEF RequestRow, States
<1> HIDE DEF row
<1>4. LimitFor(u, r) >= rq[r].amount
  <2>1. LimitFor(u, r) \in Int /\ rq[r].amount \in Int
    <3>1. SelfLimit[u] \in Int /\ OtherLimit[u] \in Int
      BY UsersAssumption DEF NoLimit
    <3> QED
      BY <3>1, RequestFacts DEF LimitFor
  <2> QED
    BY <1>1, <2>1
<1> QED
  BY <1>1, <1>2, <1>3, <1>4, MoveInv DEF Payable

(***************************************************************************)
(* Budget and wallet steps leave the requests as they are: a refresh only  *)
(* moves a reservation to another period.                                  *)
(***************************************************************************)
LEMMA ReservationsKept ==
  ASSUME FinanceInv, UNCHANGED <<rq, invoiced, command, debited>>,
         \A q \in Requests : /\ rsv'[q].status = rsv[q].status
                             /\ rsv'[q].remaining = rsv[q].remaining
                             /\ rsv'[q].spent = rsv[q].spent
  PROVE  RequestInv'
<1>1. RequestsTypeOK'
  BY DEF FinanceInv, RequestInv, RequestsTypeOK
<1>2. \A q \in Requests : Successes(q)' = Successes(q)
  BY DEF Successes
<1>3. ASSUME NEW q \in Requests PROVE RequestOK(q)'
  BY <1>2, Untouched, RequestFacts
<1> QED
  BY <1>1, <1>3 DEF RequestInv

LEMMA BudgetStepInv ==
  ASSUME FinanceInv, BudgetStep
  PROVE  RequestInv' /\ ComponentSteps
<1>1. UNCHANGED <<rq, invoiced, command, walletVars>> /\ debited' = debited
  BY DEF BudgetStep, walletVars, requestVars
<1>2. BudgetNext
  BY DEF BudgetStep, BudgetNext, FundedRefresh
<1> DEFINE Kept == \A q \in Requests : /\ rsv'[q].status = rsv[q].status
                                       /\ rsv'[q].remaining = rsv[q].remaining
                                       /\ rsv'[q].spent = rsv[q].spent
<1>3. Kept
  <2>1. CASE rsv' = rsv
    BY <2>1
  <2>2. ASSUME NEW a \in Accounts, NEW late \in BOOLEAN, FundedRefresh(a, late)
        PROVE  Kept
    <3>1. rsv' = [q \in Requests |->
                    IF q \in Carried(a) THEN [rsv[q] EXCEPT !.cycle = cycle[a] + 1]
                                        ELSE rsv[q]]
      BY <2>2 DEF FundedRefresh, RefreshBudgetPeriod
    <3> QED
      BY <3>1 DEF FinanceInv, BudgetInv, BudgetTypeOK, Reservation
  <2> QED
    BY <2>1, <2>2
       DEF BudgetStep, IncreaseBudget, ReduceBudget, TransferBudget, SetCompanyCeiling,
           PeriodEnds
<1>4. RequestInv'
  BY <1>1, <1>3, ReservationsKept
<1> QED
  BY <1>1, <1>2, <1>4 DEF ComponentSteps

LEMMA WalletStepInv ==
  ASSUME FinanceInv, WalletStep
  PROVE  RequestInv' /\ ComponentSteps
<1>1. UNCHANGED <<rq, invoiced, command, budgetVars>> /\ rsv' = rsv
  BY DEF WalletStep, budgetVars, requestVars
<1>2. debited' = debited
  BY DEF WalletStep, RequestTopUp, RecordTopUp
<1>3. WalletNext
  BY DEF WalletStep, WalletNext
<1>4. RequestInv'
  BY <1>1, <1>2, ReservationsKept
<1> QED
  BY <1>1, <1>3, <1>4 DEF ComponentSteps

(***************************************************************************)
(* Every step.                                                             *)
(***************************************************************************)
LEMMA RequestStepInv ==
  ASSUME FinanceInv, RequestStep
  PROVE  RequestInv' /\ ComponentSteps
<1>1. ASSUME NEW r \in Requests, CreateRequest(r) PROVE RequestInv' /\ ComponentSteps
  BY <1>1, CreateInv
<1>2. ASSUME NEW r \in Requests, NEW n \in Amounts, SubmitRequest(r, n)
      PROVE  RequestInv' /\ ComponentSteps
  BY <1>2, SubmitInv
<1>3. ASSUME NEW u \in Users, NEW r \in Requests,
             \/ RejectOrReturn(u, r) \/ CancelRequest(u, r)
             \/ Escalate(u, r) \/ ApproveRequest(u, r)
      PROVE  RequestInv' /\ ComponentSteps
  BY <1>3, RejectOrReturnInv, CancelInv, EscalateInv, ApproveInv
<1>4. ASSUME NEW c \in PayCommands, NEW u \in Users, NEW r \in Requests,
             NEW policyOk \in BOOLEAN, NEW locationOk \in BOOLEAN,
             NEW revision \in 1 .. rq[r].revision,
             ApproveAndPay(c, u, r, revision, policyOk, locationOk)
      PROVE  RequestInv' /\ ComponentSteps
  BY <1>4, ApproveAndPayCases, PaysOrRefusesInv
<1>5. ASSUME NEW c \in PayCommands, NEW r \in Requests, NEW locationOk \in BOOLEAN,
             CompletePayment(c, r, locationOk)
      PROVE  RequestInv' /\ ComponentSteps
  BY <1>5, CompletePaymentCases, PaysOrRefusesInv
<1>6. ASSUME NEW c \in PayCommands, NEW r \in DirectRequests, NEW n \in Amounts,
             NEW cartOk \in BOOLEAN, DirectPurchase(c, r, n, cartOk)
      PROVE  RequestInv' /\ ComponentSteps
  <2>1. r \in Requests
    BY UsersAssumption
  <2> QED
    BY <1>6, <2>1, DirectPurchaseCases, BuysInv, PaysOrRefusesInv
<1> QED
  BY <1>1, <1>2, <1>3, <1>4, <1>5, <1>6 DEF RequestStep

LEMMA FinanceNext == FinanceInv /\ [Next]_vars => FinanceInv' /\ ComponentSteps
<1> SUFFICES ASSUME FinanceInv, [Next]_vars PROVE FinanceInv' /\ ComponentSteps
  OBVIOUS
<1>1. RequestInv' /\ ComponentSteps
  <2>1. CASE RequestStep
    BY <2>1, RequestStepInv
  <2>2. CASE BudgetStep
    BY <2>2, BudgetStepInv
  <2>3. CASE WalletStep
    BY <2>3, WalletStepInv
  <2>4. CASE UNCHANGED vars
    <3>1. UNCHANGED <<rq, invoiced, command, budgetVars, walletVars>>
          /\ rsv' = rsv /\ debited' = debited
      BY <2>4 DEF vars, requestVars, budgetVars, walletVars
    <3>2. RequestInv'
      BY <3>1, ReservationsKept
    <3> QED
      BY <3>1, <3>2 DEF ComponentSteps
  <2> QED
    BY <2>1, <2>2, <2>3, <2>4 DEF Next
<1>2. BudgetInv' /\ WalletInv'
  BY <1>1, NextInv, WalletNextInv DEF ComponentSteps, FinanceInv
<1> QED
  BY <1>1, <1>2 DEF FinanceInv

(***************************************************************************)
(* Theorems.                                                               *)
(***************************************************************************)
(* FinanceInv holds in every state of the purchase path. *)
THEOREM FinanceInvariant == Spec => []FinanceInv
BY InitFinance, FinanceNext, PTL DEF Spec

(* The purchase path uses the budget accounts and the wallet only by their *)
(* own operations: a payment never debits more than the wallet holds, and  *)
(* names a period the ledger knows.  All that is proved of the two holds   *)
(* for the whole path.                                                     *)
THEOREM UsesComponents == Spec => BudgetSpec /\ WalletSpec
<1>1. Init => BudgetInit /\ WalletInit
  BY DEF Init
<1>2. FinanceInv /\ [Next]_vars => [BudgetNext]_budgetVars /\ [WalletNext]_walletVars
  BY FinanceNext DEF ComponentSteps
<1> QED
  BY <1>1, <1>2, FinanceInvariant, PTL DEF Spec, BudgetSpec, WalletSpec

(* The prepaid wallet never pays what it does not hold, because Approve &  *)
(* Pay and checkout compare the balance and the amount before they debit.  *)
THEOREM PathStaysSolvent == Spec => []WalletSolvent
BY UsesComponents, WalletStaysSolvent, PTL

(* Every variable of the purchase path keeps its type. *)
THEOREM TypeCorrect == Spec => []TypeOK
<1>1. FinanceInv => TypeOK
  BY DEF FinanceInv, BudgetInv, WalletInv, RequestInv, RequestsTypeOK, RequestRow,
         CommandRow, TypeOK
<1> QED
  BY <1>1, FinanceInvariant, PTL

(* A request that waits for a decision or for payment holds its whole      *)
(* amount through any number of refreshes, and any other holds nothing.    *)
THEOREM AmountsStayHeld == Spec => []OpenRequestsHoldTheirAmount
<1>1. FinanceInv => OpenRequestsHoldTheirAmount
  BY DEF FinanceInv, RequestInv, RequestOK, Holding, Payable, OpenRequestsHoldTheirAmount
<1> QED
  BY <1>1, FinanceInvariant, PTL

(* Whoever approved a request, by the approval or by Approve & Pay, had    *)
(* the authority to.                                                       *)
THEOREM AuthorityHolds == Spec => []ApprovedWithinAuthority
<1>1. FinanceInv => ApprovedWithinAuthority
  BY DEF FinanceInv, RequestInv, RequestOK, Authorised, ApprovedWithinAuthority
<1> QED
  BY <1>1, FinanceInvariant, PTL

(* A request is paid once: one invoice, one debit, one spend, and exactly  *)
(* one command that was told SUCCESS.                                      *)
THEOREM PaidOnce == Spec => []PaidExactlyOnce
<1>1. ASSUME FinanceInv, NEW r \in Requests
      PROVE  /\ Paid(r) => rq[r].amount > 0
             /\ Accounted(r)
             /\ Cardinality(Successes(r)) = IF Paid(r) THEN 1 ELSE 0
  <2>1. Submitted(r) /\ Accounted(r) /\ OneSuccess(r)
    BY <1>1, RequestFacts DEF RequestOK
  <2>2. Amounts \subseteq Nat \ {0}
    BY AccountsAssumption
  <2>3. Paid(r) => rq[r].amount > 0
    <3>1. Paid(r) => rq[r].amount \in Amounts
      BY <2>1 DEF Paid, Submitted
    <3>2. \A n \in Nat \ {0} : n > 0
      OBVIOUS
    <3> QED
      BY <2>2, <3>1, <3>2
  <2>4. CASE Paid(r)
    <3>1. PICK c \in Successes(r) : TRUE
      BY <2>1, <2>4 DEF OneSuccess
    <3>2. Successes(r) = {c}
      BY <2>1, <3>1 DEF OneSuccess
    <3> QED
      BY <2>1, <2>3, <2>4, <3>2, FS_Singleton
  <2>5. CASE ~Paid(r)
    <3>1. Successes(r) = {}
      BY <2>1, <2>5 DEF OneSuccess
    <3> QED
      BY <2>1, <2>3, <2>5, <3>1, FS_EmptySet
  <2> QED
    BY <2>4, <2>5
<1>2. FinanceInv => PaidExactlyOnce
  BY <1>1 DEF PaidExactlyOnce, Accounted, Due, Paid
<1> QED
  BY <1>2, FinanceInvariant, PTL

(***************************************************************************)
(* Spend and wallet debits.  They never differ, because every step adds    *)
(* the same amount to both: a payment its amount, and any other step, with *)
(* a refresh, a release or a change of an allocation in it, nothing.       *)
(***************************************************************************)
MoveTogether ==
  \E n \in Nat : /\ SpentOver(bal') = SpentOver(bal) + n
                 /\ TotalDebited' = TotalDebited + n

LEMMA SpentAndPaidTypes ==
  ASSUME FinanceInv
  PROVE  SpentOver(bal) \in Nat /\ TotalDebited \in Nat
BY SpentTypes, WalletTotalsType
   DEF FinanceInv, BudgetInv, BudgetTypeOK, WalletInv

LEMMA NothingSpent ==
  ASSUME FinanceInv, SpentOver(bal') = SpentOver(bal), UNCHANGED debited
  PROVE  MoveTogether
<1>1. TotalDebited' = TotalDebited
  BY DEF TotalDebited
<1>2. /\ SpentOver(bal') = SpentOver(bal) + 0
      /\ TotalDebited' = TotalDebited + 0
  BY <1>1, SpentAndPaidTypes
<1> QED
  BY <1>2 DEF MoveTogether

LEMMA SpentIsDebited ==
  ASSUME FinanceInv, FinanceInv', NEW r \in Requests, NEW n \in Amounts,
         Spend(r, n) \/ ReserveAndSpend(r, n), Debit(r, n), ~(WalletBalance < n)
  PROVE  MoveTogether
<1>1. n \in Nat
  BY AccountsAssumption
<1>2. SpentOver(bal') = SpentOver(bal) + n
  BY SpendingSpends DEF FinanceInv
<1>3. n <= WalletBalance
  <2>1. WalletBalance \in Int
    BY WalletTotalsType DEF FinanceInv, WalletInv
  <2> QED
    BY <1>1, <2>1
<1>4. TotalDebited' = TotalDebited + n
  BY <1>1, <1>3, DebitInv DEF FinanceInv
<1> QED
  BY <1>1, <1>2, <1>4 DEF MoveTogether

LEMMA DecisionSpendsNothing ==
  ASSUME FinanceInv, FinanceInv', NEW r \in Requests,
         \/ CreateRequest(r)
         \/ \E n \in Amounts : SubmitRequest(r, n)
         \/ \E u \in Users : \/ RejectOrReturn(u, r) \/ CancelRequest(u, r)
                             \/ Escalate(u, r) \/ ApproveRequest(u, r)
  PROVE  MoveTogether
<1>1. ASSUME UNCHANGED <<budgetVars, walletVars>> PROVE MoveTogether
  <2>1. bal' = bal /\ debited' = debited
    BY <1>1 DEF budgetVars, walletVars
  <2> QED
    BY <2>1, NothingSpent
<1>2. ASSUME NEW n \in Amounts, SubmitRequest(r, n) PROVE MoveTogether
  <2>1. Reserve(r, n) /\ debited' = debited
    BY <1>2 DEF SubmitRequest, walletVars
  <2>2. SpentOver(bal') = SpentOver(bal)
    BY <2>1, ReservingSpendsNothing DEF FinanceInv
  <2> QED
    BY <2>1, <2>2, NothingSpent
<1>3. ASSUME NEW next \in Closed, Close(r, next) PROVE MoveTogether
  <2>1. UNCHANGED walletVars /\ debited' = debited
    BY <1>3 DEF Close, walletVars
  <2>2. CASE Release(r, rq[r].cycle)
    <3>1. rq[r].cycle \in Cycles
      BY RequestFacts
    <3>2. SpentOver(bal') = SpentOver(bal)
      BY <2>2, <3>1, ReleasingSpendsNothing DEF FinanceInv
    <3> QED
      BY <2>1, <3>2, NothingSpent
  <2>3. CASE UNCHANGED budgetVars
    BY <1>1, <2>1, <2>3
  <2> QED
    BY <1>3, <2>2, <2>3 DEF Close
<1>4. ASSUME NEW u \in Users, RejectOrReturn(u, r) \/ CancelRequest(u, r) PROVE MoveTogether
  <2>1. PICK next \in Closed : Close(r, next)
    BY <1>4, CancelClosesOpen DEF RejectOrReturn, Closed
  <2> QED
    BY <1>3, <2>1
<1>5. ASSUME \/ CreateRequest(r)
             \/ \E u \in Users : Escalate(u, r) \/ ApproveRequest(u, r)
      PROVE  MoveTogether
  <2>1. UNCHANGED <<budgetVars, walletVars>>
    BY <1>5 DEF CreateRequest, Escalate, ApproveRequest
  <2> QED
    BY <1>1, <2>1
<1> QED
  BY <1>2, <1>4, <1>5

LEMMA PaymentIsDebited ==
  ASSUME FinanceInv, FinanceInv', NEW c \in PayCommands, NEW r \in Requests,
         \/ Pays(c, r) \/ Refuses(c, r)
         \/ r \in DirectRequests /\ \E n \in Amounts : Buys(c, r, n)
  PROVE  MoveTogether
<1>1. CASE Pays(c, r)
  <2>1. rq[r].amount \in Amounts
    BY <1>1, RequestFacts DEF Pays, RequestOK, Submitted, Payable, Pending
  <2>2. Spend(r, rq[r].amount) /\ Debit(r, rq[r].amount) /\ ~(WalletBalance < rq[r].amount)
    BY <1>1 DEF Pays, TakePayment
  <2> QED
    BY <2>1, <2>2, SpentIsDebited
<1>2. CASE Refuses(c, r)
  <2>1. bal' = bal /\ debited' = debited
    BY <1>2 DEF Refuses, budgetVars, walletVars
  <2> QED
    BY <2>1, NothingSpent
<1>3. ASSUME NEW n \in Amounts, Buys(c, r, n) PROVE MoveTogether
  <2>1. ReserveAndSpend(r, n) /\ Debit(r, n) /\ ~(WalletBalance < n)
    BY <1>3 DEF Buys, PlaceOrder
  <2> QED
    BY <2>1, SpentIsDebited
<1> QED
  BY <1>1, <1>2, <1>3

LEMMA AdministrationSpendsNothing ==
  ASSUME FinanceInv, FinanceInv', BudgetStep \/ WalletStep
  PROVE  MoveTogether
<1>1. debited' = debited
  BY DEF BudgetStep, WalletStep, walletVars, RequestTopUp, RecordTopUp
<1>2. SpentOver(bal') = SpentOver(bal)
  <2>1. ASSUME NEW a \in Accounts, NEW n \in AdjustAmounts,
               \/ IncreaseBudget(a, n) \/ ReduceBudget(a, n)
               \/ \E b \in Accounts : TransferBudget(a, b, n)
        PROVE  SpentOver(bal') = SpentOver(bal)
    BY <2>1, AdjustingSpendsNothing DEF FinanceInv
  <2>2. ASSUME NEW a \in Accounts, NEW late \in BOOLEAN, FundedRefresh(a, late)
        PROVE  SpentOver(bal') = SpentOver(bal)
    BY <2>2, RefreshSpendsNothing DEF FundedRefresh, FinanceInv
  <2>3. CASE WalletStep
    <3>1. bal' = bal
      BY <2>3 DEF WalletStep, budgetVars
    <3> QED
      BY <3>1
  <2>4. ASSUME (\E n \in Ceilings : SetCompanyCeiling(n)) \/ (\E a \in Accounts : PeriodEnds(a))
        PROVE  SpentOver(bal') = SpentOver(bal)
    <3>1. bal' = bal
      BY <2>4 DEF SetCompanyCeiling, PeriodEnds
    <3> QED
      BY <3>1
  <2> QED
    BY <2>1, <2>2, <2>3, <2>4 DEF BudgetStep
<1> QED
  BY <1>1, <1>2, NothingSpent

LEMMA StepsMoveTogether == FinanceInv /\ FinanceInv' /\ [Next]_vars => MoveTogether
<1> SUFFICES ASSUME FinanceInv, FinanceInv', [Next]_vars PROVE MoveTogether
  OBVIOUS
<1>1. ASSUME NEW c \in PayCommands, NEW r \in Requests, Pays(c, r) \/ Refuses(c, r)
      PROVE  MoveTogether
  BY <1>1, PaymentIsDebited
<1>2. CASE RequestStep
  <2>1. ASSUME NEW c \in PayCommands, NEW u \in Users, NEW r \in Requests,
               NEW policyOk \in BOOLEAN, NEW locationOk \in BOOLEAN,
               NEW revision \in 1 .. rq[r].revision,
               ApproveAndPay(c, u, r, revision, policyOk, locationOk)
        PROVE  MoveTogether
    BY <1>1, <2>1, ApproveAndPayCases
  <2>2. ASSUME NEW c \in PayCommands, NEW r \in Requests, NEW locationOk \in BOOLEAN,
               CompletePayment(c, r, locationOk)
        PROVE  MoveTogether
    BY <1>1, <2>2, CompletePaymentCases
  <2>3. ASSUME NEW c \in PayCommands, NEW r \in DirectRequests, NEW n \in Amounts,
               NEW cartOk \in BOOLEAN, DirectPurchase(c, r, n, cartOk)
        PROVE  MoveTogether
    <3>1. r \in Requests
      BY UsersAssumption
    <3>2. Buys(c, r, n) \/ Refuses(c, r)
      BY <2>3, DirectPurchaseCases
    <3> QED
      BY <3>1, <3>2, PaymentIsDebited
  <2> QED
    BY <1>2, <2>1, <2>2, <2>3, DecisionSpendsNothing DEF RequestStep
<1>3. CASE BudgetStep \/ WalletStep
  BY <1>3, AdministrationSpendsNothing
<1>4. CASE UNCHANGED vars
  <2>1. bal' = bal /\ debited' = debited
    BY <1>4 DEF vars, budgetVars, walletVars
  <2> QED
    BY <2>1, NothingSpent
<1> QED
  BY <1>2, <1>3, <1>4 DEF Next

LEMMA SpentIs == SpendIsPaidFromWallet <=> SpentOver(bal) = TotalDebited
BY DEF SpendIsPaidFromWallet, SpentOver, SpentBy

LEMMA NothingSpentAtFirst == Init => SpendIsPaidFromWallet
<1> SUFFICES ASSUME Init PROVE SpentOver(bal) = TotalDebited
  BY SpentIs
<1>1. \A a \in Accounts, c \in Cycles : bal[a][c].spent = 0
  BY DEF Init, BudgetInit, NextBalance, EmptyBalance, AllocationEntry, Entry
<1>2. ASSUME NEW a \in Accounts PROVE SpentBy(bal, a) = 0
  <2>1. \A c \in Cycles : [d \in Cycles |-> bal[a][d].spent][c] = 0
    BY <1>1
  <2> QED
    BY <2>1, TotalOfZero DEF SpentBy
<1>3. SpentOver(bal) = 0
  <2>1. \A a \in Accounts : [b \in Accounts |-> SpentBy(bal, b)][a] = 0
    BY <1>2
  <2> QED
    BY <2>1, TotalOfZero DEF SpentOver
<1>4. TotalDebited = 0
  <2>1. \A r \in Requests : debited[r] = 0
    BY DEF Init, WalletInit
  <2> QED
    BY <2>1, TotalOfZero DEF TotalDebited
<1> QED
  BY <1>3, <1>4

LEMMA SpendStaysPaid ==
  SpendIsPaidFromWallet /\ FinanceInv /\ FinanceInv' /\ [Next]_vars => SpendIsPaidFromWallet'
<1> SUFFICES ASSUME SpendIsPaidFromWallet, FinanceInv, FinanceInv', [Next]_vars
             PROVE  SpendIsPaidFromWallet'
  OBVIOUS
<1>1. MoveTogether
  BY StepsMoveTogether
<1>2. SpentOver(bal') = TotalDebited'
  BY <1>1, SpentIs, SpentAndPaidTypes DEF MoveTogether
<1> QED
  BY <1>2 DEF SpendIsPaidFromWallet, SpentOver, SpentBy

(* Over all accounts, periods and requests, the budget counts as spent     *)
(* exactly what the wallet paid: no refresh loses spend, no payment skips  *)
(* one of the two ledgers.                                                 *)
THEOREM SpendStaysPaidFromWallet == Spec => []SpendIsPaidFromWallet
BY NothingSpentAtFirst, SpendStaysPaid, FinanceInvariant, PTL DEF Spec
=============================================================================
