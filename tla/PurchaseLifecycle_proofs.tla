----------------------- MODULE PurchaseLifecycle_proofs -----------------------
(***************************************************************************)
(* PurchaseFinance implements PurchaseLifecycle, never touches what is     *)
(* finished, and decides only below the contractual ceiling.  All three    *)
(* follow from what one step may do to one request row, with FinanceInv to *)
(* know the amount and the state of that row.                              *)
(***************************************************************************)
EXTENDS PurchaseFinance_proofs

PhaseOf(state) ==
  CASE state \in {"NONE", "DRAFT"}      -> "Idle"
    [] state \in Pending               -> "Awaiting"
    [] state = "APPROVED"              -> "Approved"
    [] state = "AWAITING_FULFILMENT"   -> "Paid"
    [] OTHER                           -> "Closed"

Phases     == [r \in Requests |-> Phase(r)]
RowAmounts == [r \in Requests |-> rq[r].amount]

SameFunds == WalletBalance' = WalletBalance

Stutters == Phases' = Phases /\ RowAmounts' = RowAmounts /\ SameFunds

(* One row changes: so do its phase and its amount, and nothing else. *)
LEMMA RowStep ==
  ASSUME FinanceInv, NEW r \in Requests, NEW row \in RequestRow,
         rq' = [rq EXCEPT ![r] = row]
  PROVE  /\ Phases[r] = PhaseOf(rq[r].state) /\ RowAmounts[r] = rq[r].amount
         /\ Phases' = [Phases EXCEPT ![r] = PhaseOf(row.state)]
         /\ RowAmounts' = [RowAmounts EXCEPT ![r] = row.amount]
<1>1. rq'[r] = row /\ \A q \in Requests : q # r => rq'[q] = rq[q]
  BY DEF FinanceInv, RequestInv, RequestsTypeOK
<1>2. \A q \in Requests : Phase(q) = PhaseOf(rq[q].state)
  BY DEF Phase, PhaseOf
<1>3. \A q \in Requests : Phase(q)' = PhaseOf(rq'[q].state)
  BY DEF Phase, PhaseOf
<1>4. \A q \in Requests : Phases'[q] = [Phases EXCEPT ![r] = PhaseOf(row.state)][q]
  BY <1>1, <1>2, <1>3 DEF Phases
<1>5. \A q \in Requests : RowAmounts'[q] = [RowAmounts EXCEPT ![r] = row.amount][q]
  BY <1>1 DEF RowAmounts
<1> QED
  BY <1>2, <1>4, <1>5 DEF Phases, RowAmounts

LEMMA SamePhase ==
  ASSUME FinanceInv, NEW r \in Requests, NEW row \in RequestRow,
         rq' = [rq EXCEPT ![r] = row], row.amount = rq[r].amount,
         PhaseOf(row.state) = PhaseOf(rq[r].state)
  PROVE  Phases' = Phases /\ RowAmounts' = RowAmounts
<1>1. /\ Phases[r] = PhaseOf(row.state) /\ RowAmounts[r] = row.amount
      /\ Phases' = [Phases EXCEPT ![r] = PhaseOf(row.state)]
      /\ RowAmounts' = [RowAmounts EXCEPT ![r] = row.amount]
  BY RowStep
<1>2. /\ Phases = [q \in Requests |-> Phases[q]]
      /\ RowAmounts = [q \in Requests |-> RowAmounts[q]]
  BY DEF Phases, RowAmounts
<1> QED
  BY <1>1, <1>2

LEMMA WalletUntouched ==
  ASSUME UNCHANGED walletVars
  PROVE  SameFunds
BY DEF SameFunds, walletVars, WalletBalance, TotalCredited, Credited, TotalDebited

(* A solvent wallet holds a natural number of cents, before and after. *)
FundsNatural == WalletBalance \in Nat

LEMMA FundsAreNatural ==
  /\ FinanceInv => FundsNatural
  /\ FinanceInv' => FundsNatural'
<1>1. FinanceInv => FundsNatural
  BY WalletTotalsType DEF FinanceInv, WalletInv, WalletSolvent, WalletBalance, FundsNatural
<1>2. FinanceInv' => FundsNatural'
  BY <1>1, PTL
<1> QED
  BY <1>1, <1>2

(***************************************************************************)
(* The steps of the path as steps of the lifecycle.                        *)
(***************************************************************************)
(* The actions of the lifecycle, in the variables of the path. *)
LEMMA LifecycleActions ==
  ASSUME NEW r \in Requests
  PROVE  /\ Lifecycle!Approve(r) <=>
              /\ Phases[r] = "Awaiting" /\ Phases' = [Phases EXCEPT ![r] = "Approved"]
              /\ RowAmounts' = RowAmounts /\ SameFunds
         /\ Lifecycle!CloseRequest(r) <=>
              /\ Phases[r] \in {"Awaiting", "Approved"}
              /\ Phases' = [Phases EXCEPT ![r] = "Closed"]
              /\ RowAmounts' = RowAmounts /\ SameFunds
         /\ Lifecycle!Pay(r) <=>
              /\ Phases[r] \in {"Awaiting", "Approved"}
              /\ RowAmounts[r] <= WalletBalance
              /\ Phases' = [Phases EXCEPT ![r] = "Paid"]
              /\ WalletBalance' = WalletBalance - RowAmounts[r]
              /\ RowAmounts' = RowAmounts
<1>1. Lifecycle!Approve(r) <=>
        /\ Phases[r] = "Awaiting" /\ Phases' = [Phases EXCEPT ![r] = "Approved"]
        /\ RowAmounts' = RowAmounts /\ SameFunds
  BY DEF Lifecycle!Approve, Phases, RowAmounts, SameFunds
<1>2. Lifecycle!CloseRequest(r) <=>
        /\ Phases[r] \in {"Awaiting", "Approved"}
        /\ Phases' = [Phases EXCEPT ![r] = "Closed"]
        /\ RowAmounts' = RowAmounts /\ SameFunds
  BY DEF Lifecycle!CloseRequest, Lifecycle!Open, Phases, RowAmounts, SameFunds
<1>3. Lifecycle!Pay(r) <=>
        /\ Phases[r] \in {"Awaiting", "Approved"}
        /\ RowAmounts[r] <= WalletBalance
        /\ Phases' = [Phases EXCEPT ![r] = "Paid"]
        /\ WalletBalance' = WalletBalance - RowAmounts[r]
        /\ RowAmounts' = RowAmounts
  BY DEF Lifecycle!Pay, Lifecycle!Open, Phases, RowAmounts
<1> QED
  BY <1>1, <1>2, <1>3

LEMMA CreateLifecycle ==
  ASSUME FinanceInv, NEW r \in Requests, CreateRequest(r)
  PROVE  Stutters
<1> DEFINE row == [rq[r] EXCEPT !.state = "DRAFT", !.revision = 1,
                                !.cycle = cycle[AccountOf[r]]]
<1>1. /\ rq[r].state = "NONE" /\ rq' = [rq EXCEPT ![r] = row]
      /\ UNCHANGED walletVars
  BY DEF CreateRequest, FinanceInv, RequestInv, RequestsTypeOK
<1>2. row \in RequestRow /\ row.state = "DRAFT" /\ row.amount = rq[r].amount
  BY RequestFacts, RowFacts DEF FinanceInv, RequestRow, States
<1> HIDE DEF row
<1>3. PhaseOf(row.state) = "Idle" /\ PhaseOf(rq[r].state) = "Idle"
  BY <1>1, <1>2 DEF PhaseOf, Pending
<1> QED
  BY <1>1, <1>2, <1>3, SamePhase, WalletUntouched DEF Stutters

LEMMA SubmitLifecycle ==
  ASSUME FinanceInv, NEW r \in Requests, NEW n \in Amounts, SubmitRequest(r, n)
  PROVE  Lifecycle!Submit(r, n)
<1> DEFINE next == IF r \in DepartmentRequests THEN "PENDING_DEPARTMENT" ELSE "PENDING_COMPANY"
           row == [rq[r] EXCEPT !.amount = n, !.state = next]
<1>1. /\ rq[r].state = "DRAFT" /\ rq' = [rq EXCEPT ![r] = row]
      /\ UNCHANGED walletVars
  BY DEF SubmitRequest, FinanceInv, RequestInv, RequestsTypeOK
<1>2. row \in RequestRow /\ row.state \in Pending /\ row.amount = n
  BY RequestFacts DEF RequestRow, States, Pending
<1> HIDE DEF row
<1>3. PhaseOf(rq[r].state) = "Idle" /\ PhaseOf(row.state) = "Awaiting"
  BY <1>1, <1>2 DEF PhaseOf, Pending
<1> QED
  BY <1>1, <1>2, <1>3, RowStep, WalletUntouched
     DEF Lifecycle!Submit, Phases, RowAmounts, SameFunds

(* Closing a request that was returned before closes it again. *)
LEMMA CloseLifecycle ==
  ASSUME FinanceInv, NEW r \in Requests, NEW next \in Closed,
         rq[r].state \in Payable \cup {"RETURNED"}, Close(r, next)
  PROVE  Lifecycle!CloseRequest(r) \/ Stutters
<1> DEFINE row == [rq[r] EXCEPT !.state = next, !.revision = @ + 1]
<1>1. rq' = [rq EXCEPT ![r] = row] /\ UNCHANGED walletVars
  BY DEF Close, FinanceInv, RequestInv, RequestsTypeOK
<1>2. row \in RequestRow /\ row.state = next /\ row.amount = rq[r].amount
  <2>1. rq[r] \in RequestRow /\ rq[r].revision + 1 \in Nat
    BY RequestFacts
  <2>2. next \in States
    BY DEF States
  <2> QED
    BY <2>1, <2>2 DEF RequestRow
<1> HIDE DEF row
<1>3. PhaseOf(row.state) = "Closed"
  BY <1>2 DEF PhaseOf, Pending, Closed
<1>4. CASE rq[r].state \in Payable
  <2>1. PhaseOf(rq[r].state) \in {"Awaiting", "Approved"}
    BY <1>4 DEF PhaseOf, Payable, Pending
  <2>2. RowAmounts' = RowAmounts
    BY <1>1, <1>2, RowStep DEF RowAmounts
  <2>3. /\ Phases[r] \in {"Awaiting", "Approved"}
        /\ Phases' = [Phases EXCEPT ![r] = "Closed"]
    BY <1>1, <1>2, <1>3, <2>1, RowStep
  <2>4. SameFunds
    BY <1>1, WalletUntouched
  <2> QED
    BY <2>2, <2>3, <2>4, LifecycleActions
<1>5. CASE rq[r].state = "RETURNED"
  <2>1. PhaseOf(rq[r].state) = "Closed"
    BY <1>5 DEF PhaseOf, Pending
  <2> QED
    BY <1>1, <1>2, <1>3, <2>1, SamePhase, WalletUntouched DEF Stutters
<1> QED
  BY <1>4, <1>5

LEMMA DecideLifecycle ==
  ASSUME FinanceInv, NEW u \in Users, NEW r \in Requests,
         RejectOrReturn(u, r) \/ CancelRequest(u, r)
  PROVE  Lifecycle!CloseRequest(r) \/ Stutters
<1>1. CASE RejectOrReturn(u, r)
  <2>1. PICK next \in {"REJECTED", "RETURNED"} : Close(r, next)
    BY <1>1 DEF RejectOrReturn
  <2>2. next \in Closed /\ rq[r].state \in Payable \cup {"RETURNED"}
    BY <1>1 DEF RejectOrReturn, MayDecide, Payable, Closed
  <2> QED
    BY <2>1, <2>2, CloseLifecycle
<1>2. CASE CancelRequest(u, r)
  BY <1>2, CancelClosesOpen, CloseLifecycle
<1> QED
  BY <1>1, <1>2

LEMMA EscalateLifecycle ==
  ASSUME FinanceInv, NEW u \in Users, NEW r \in Requests, Escalate(u, r)
  PROVE  Stutters
<1>1. rq[r].state \in Pending /\ UNCHANGED walletVars
  BY DEF Escalate, MayDecide
<1>2. PICK next \in {"PENDING_COMPANY", "PENDING_AXORA"} :
        rq' = [rq EXCEPT ![r].state = next, ![r].revision = @ + 1]
  BY DEF Escalate
<1> DEFINE row == [rq[r] EXCEPT !.state = next, !.revision = @ + 1]
<1>3. rq' = [rq EXCEPT ![r] = row]
  BY <1>2 DEF FinanceInv, RequestInv, RequestsTypeOK
<1>4. row \in RequestRow /\ row.state = next /\ row.amount = rq[r].amount
  <2>1. rq[r] \in RequestRow /\ rq[r].revision + 1 \in Nat
    BY RequestFacts
  <2>2. next \in States
    BY DEF States, Pending
  <2> QED
    BY <2>1, <2>2 DEF RequestRow
<1> HIDE DEF row
<1>5. PhaseOf(row.state) = PhaseOf(rq[r].state)
  BY <1>1, <1>4 DEF PhaseOf, Pending
<1> QED
  BY <1>1, <1>3, <1>4, <1>5, SamePhase, WalletUntouched DEF Stutters

LEMMA ApproveLifecycle ==
  ASSUME FinanceInv, NEW u \in Users, NEW r \in Requests, ApproveRequest(u, r)
  PROVE  Lifecycle!Approve(r)
<1> DEFINE row == [rq[r] EXCEPT !.state = "APPROVED", !.revision = @ + 1, !.approver = u]
<1>1. /\ rq[r].state \in Pending /\ UNCHANGED walletVars
      /\ rq' = [rq EXCEPT ![r] = row]
  BY DEF ApproveRequest, FinalApproval, MayDecide, FinanceInv, RequestInv, RequestsTypeOK
<1>2. row \in RequestRow /\ row.state = "APPROVED" /\ row.amount = rq[r].amount
  <2>1. rq[r] \in RequestRow /\ rq[r].revision + 1 \in Nat
    BY RequestFacts
  <2> QED
    BY <2>1 DEF RequestRow, States
<1> HIDE DEF row
<1>3. PhaseOf(rq[r].state) = "Awaiting" /\ PhaseOf(row.state) = "Approved"
  BY <1>1, <1>2 DEF PhaseOf, Pending
<1>4. RowAmounts' = RowAmounts
  BY <1>1, <1>2, RowStep DEF RowAmounts
<1>5. Phases[r] = "Awaiting" /\ Phases' = [Phases EXCEPT ![r] = "Approved"]
  BY <1>1, <1>2, <1>3, RowStep
<1>6. SameFunds
  BY <1>1, WalletUntouched
<1> QED
  BY <1>4, <1>5, <1>6, LifecycleActions

(* The wallet has at least the amount, and gives exactly that. *)
LEMMA PayLifecycle ==
  ASSUME FinanceInv, NEW r \in Requests, NEW approver \in Users, NEW decisions \in Nat,
         TakePayment(r, approver, decisions),
         rq[r].state \in Payable, ~(WalletBalance < rq[r].amount)
  PROVE  Lifecycle!Pay(r)
<1> DEFINE row == [rq[r] EXCEPT !.state = "AWAITING_FULFILMENT",
                                !.revision = @ + decisions, !.approver = approver]
<1>1. rq' = [rq EXCEPT ![r] = row] /\ Debit(r, rq[r].amount)
  BY DEF TakePayment, FinanceInv, RequestInv, RequestsTypeOK
<1>2. row \in RequestRow /\ row.state = "AWAITING_FULFILMENT" /\ row.amount = rq[r].amount
  <2>1. rq[r] \in RequestRow /\ rq[r].revision + decisions \in Nat
    BY RequestFacts
  <2> QED
    BY <2>1 DEF RequestRow, States
<1> HIDE DEF row
<1>3. rq[r].amount <= WalletBalance
  <2>1. WalletBalance \in Int /\ rq[r].amount \in Int
    BY WalletTotalsType, RequestFacts DEF FinanceInv, WalletInv
  <2> QED
    BY <2>1
<1>4. WalletBalance' = WalletBalance - rq[r].amount
  BY <1>1, <1>3, DebitInv, RequestFacts DEF FinanceInv
<1>5. PhaseOf(rq[r].state) \in {"Awaiting", "Approved"} /\ PhaseOf(row.state) = "Paid"
  BY <1>2 DEF PhaseOf, Payable, Pending
<1>6. RowAmounts' = RowAmounts
  BY <1>1, <1>2, RowStep DEF RowAmounts
<1>7. /\ Phases[r] \in {"Awaiting", "Approved"}
      /\ Phases' = [Phases EXCEPT ![r] = "Paid"]
  BY <1>1, <1>2, <1>5, RowStep
<1>8. RowAmounts[r] = rq[r].amount
  BY DEF RowAmounts
<1> QED
  BY <1>3, <1>4, <1>6, <1>7, <1>8, LifecycleActions

LEMMA PaysOrRefusesLifecycle ==
  ASSUME FinanceInv, NEW c \in PayCommands, NEW r \in Requests, Pays(c, r) \/ Refuses(c, r)
  PROVE  Lifecycle!Pay(r) \/ Stutters
<1>1. CASE Pays(c, r)
  BY <1>1, PayLifecycle DEF Pays
<1>2. CASE Refuses(c, r)
  BY <1>2, WalletUntouched DEF Refuses, Stutters, Phases, Phase, RowAmounts
<1> QED
  BY <1>1, <1>2

(* Buying takes the amount from a wallet that has it. *)
LEMMA BuysLifecycle ==
  ASSUME FinanceInv, NEW c \in PayCommands, NEW r \in DirectRequests, NEW n \in Amounts,
         Buys(c, r, n)
  PROVE  Lifecycle!Buy(r, n)
<1> DEFINE row == [state |-> "AWAITING_FULFILMENT", revision |-> 2,
                   cycle |-> cycle[AccountOf[r]], amount |-> n, approver |-> CreatorOf[r]]
<1>1. rq' = [rq EXCEPT ![r] = row] /\ Debit(r, n) /\ rq[r].state = "NONE"
  BY DEF Buys, PlaceOrder
<1>2. r \in Requests /\ CreatorOf[r] \in Users
  BY UsersAssumption
<1>3. row \in RequestRow /\ row.state = "AWAITING_FULFILMENT" /\ row.amount = n
  <2>1. cycle[AccountOf[r]] \in Cycles
    BY <1>2, AccountsAssumption DEF FinanceInv, BudgetInv, BudgetTypeOK
  <2> QED
    BY <1>2, <2>1 DEF RequestRow, States
<1> HIDE DEF row
<1>4. n \in Nat
  BY AccountsAssumption
<1>5. n <= WalletBalance
  <2>1. WalletBalance \in Int
    BY WalletTotalsType DEF FinanceInv, WalletInv
  <2> QED
    BY <1>4, <2>1 DEF Buys
<1>6. WalletBalance' = WalletBalance - n
  BY <1>1, <1>2, <1>4, <1>5, DebitInv DEF FinanceInv
<1>7. PhaseOf(rq[r].state) = "Idle" /\ PhaseOf(row.state) = "Paid"
  BY <1>1, <1>3 DEF PhaseOf, Pending
<1>8. /\ Phases[r] = "Idle" /\ Phases' = [Phases EXCEPT ![r] = "Paid"]
      /\ RowAmounts' = [RowAmounts EXCEPT ![r] = n]
  BY <1>1, <1>2, <1>3, <1>7, RowStep
<1> QED
  BY <1>5, <1>6, <1>8 DEF Lifecycle!Buy, Phases, RowAmounts

(* Top-ups only add to the funds. *)
LEMMA WalletLifecycle ==
  ASSUME FinanceInv, FinanceInv', WalletStep
  PROVE  Lifecycle!ReceiveFunds \/ Stutters
<1>1. UNCHANGED rq
  BY DEF WalletStep, requestVars
<1>2. Phases' = Phases /\ RowAmounts' = RowAmounts
  BY <1>1 DEF Phases, Phase, RowAmounts
<1>3. WalletBalance' >= WalletBalance
  <2>1. ASSUME NEW t \in TopUps, RequestTopUp(t) PROVE WalletBalance' = WalletBalance
    BY <2>1, RequestTopUpInv DEF FinanceInv
  <2>2. ASSUME NEW d \in RecordCommands, NEW t \in TopUps \cup {NoTopUp},
               NEW n \in TopUpAmounts, RecordTopUp(d, t, n)
        PROVE  WalletBalance' >= WalletBalance
    BY <2>2, RecordTopUpInv DEF FinanceInv
  <2>3. WalletBalance \in Int
    BY WalletTotalsType DEF FinanceInv, WalletInv
  <2> QED
    BY <2>1, <2>2, <2>3 DEF WalletStep
<1>4. WalletBalance \in Int /\ WalletBalance' \in Nat
  BY FundsAreNatural DEF FundsNatural
<1>5. CASE WalletBalance' = WalletBalance
  BY <1>2, <1>5 DEF Stutters, SameFunds
<1>6. CASE WalletBalance' > WalletBalance
  BY <1>2, <1>4, <1>6 DEF Lifecycle!ReceiveFunds, Phases, RowAmounts
<1> QED
  BY <1>3, <1>4, <1>5, <1>6

LEMMA LifecycleNextStep ==
  FinanceInv /\ FinanceInv' /\ [Next]_vars
    => [Lifecycle!LifecycleNext]_(Lifecycle!lifecycleVars)
<1> SUFFICES ASSUME FinanceInv, FinanceInv', [Next]_vars
             PROVE  Lifecycle!LifecycleNext \/ UNCHANGED Lifecycle!lifecycleVars
  OBVIOUS
<1>1. ASSUME Stutters PROVE UNCHANGED Lifecycle!lifecycleVars
  BY <1>1 DEF Stutters, SameFunds, Phases, RowAmounts, Lifecycle!lifecycleVars
<1>2. ASSUME NEW r \in Requests,
             \/ \E n \in Amounts : Lifecycle!Submit(r, n) \/ Lifecycle!Buy(r, n)
             \/ Lifecycle!Approve(r) \/ Lifecycle!CloseRequest(r) \/ Lifecycle!Pay(r)
      PROVE  Lifecycle!LifecycleNext
  BY <1>2 DEF Lifecycle!LifecycleNext
<1>3. CASE RequestStep
  <2>1. ASSUME NEW r \in Requests, CreateRequest(r) PROVE Stutters
    BY <2>1, CreateLifecycle
  <2>2. ASSUME NEW r \in Requests, NEW n \in Amounts, SubmitRequest(r, n)
        PROVE  Lifecycle!LifecycleNext
    BY <2>2, <1>2, SubmitLifecycle
  <2>3. ASSUME NEW u \in Users, NEW r \in Requests,
               \/ RejectOrReturn(u, r) \/ CancelRequest(u, r)
               \/ Escalate(u, r) \/ ApproveRequest(u, r)
        PROVE  Lifecycle!LifecycleNext \/ Stutters
    BY <2>3, <1>2, DecideLifecycle, EscalateLifecycle, ApproveLifecycle
  <2>4. ASSUME NEW c \in PayCommands, NEW r \in Requests, Pays(c, r) \/ Refuses(c, r)
        PROVE  Lifecycle!LifecycleNext \/ Stutters
    BY <2>4, <1>2, PaysOrRefusesLifecycle
  <2>5. ASSUME NEW c \in PayCommands, NEW u \in Users, NEW r \in Requests,
               NEW policyOk \in BOOLEAN, NEW locationOk \in BOOLEAN,
               NEW revision \in 1 .. rq[r].revision,
               ApproveAndPay(c, u, r, revision, policyOk, locationOk)
        PROVE  Lifecycle!LifecycleNext \/ Stutters
    BY <2>4, <2>5, ApproveAndPayCases
  <2>6. ASSUME NEW c \in PayCommands, NEW r \in Requests, NEW locationOk \in BOOLEAN,
               CompletePayment(c, r, locationOk)
        PROVE  Lifecycle!LifecycleNext \/ Stutters
    BY <2>4, <2>6, CompletePaymentCases
  <2>7. ASSUME NEW c \in PayCommands, NEW r \in DirectRequests, NEW n \in Amounts,
               NEW cartOk \in BOOLEAN, DirectPurchase(c, r, n, cartOk)
        PROVE  Lifecycle!LifecycleNext \/ Stutters
    <3>1. r \in Requests
      BY UsersAssumption
    <3> QED
      BY <1>2, <2>4, <2>7, <3>1, DirectPurchaseCases, BuysLifecycle
  <2>8. Lifecycle!LifecycleNext \/ Stutters
    BY <1>3, <2>1, <2>2, <2>3, <2>5, <2>6, <2>7 DEF RequestStep
  <2> QED
    BY <1>1, <2>8
<1>4. CASE BudgetStep
  <2>1. UNCHANGED <<rq, walletVars>>
    BY <1>4 DEF BudgetStep, requestVars
  <2> QED
    BY <1>1, <2>1, WalletUntouched DEF Stutters, Phases, Phase, RowAmounts
<1>5. CASE WalletStep
  <2>1. Lifecycle!ReceiveFunds \/ Stutters
    BY <1>5, WalletLifecycle
  <2> QED
    BY <1>1, <2>1 DEF Lifecycle!LifecycleNext
<1>6. CASE UNCHANGED vars
  <2>1. UNCHANGED <<rq, walletVars>>
    BY <1>6 DEF vars, requestVars, walletVars
  <2> QED
    BY <1>1, <2>1, WalletUntouched DEF Stutters, Phases, Phase, RowAmounts
<1> QED
  BY <1>3, <1>4, <1>5, <1>6 DEF Next

LEMMA LifecycleInitial == Init => Lifecycle!LifecycleInit
<1> SUFFICES ASSUME Init PROVE Lifecycle!LifecycleInit
  OBVIOUS
<1>1. \A r \in Requests : Phase(r) = "Idle" /\ rq[r].amount = 0
  BY DEF Init, Phase, Pending
<1>2. TotalCredited = 0 /\ TotalDebited = 0
  <2>1. \A c \in RecordCommands : [d \in RecordCommands |-> Credited(d)][c] = 0
    BY DEF Init, WalletInit, Credited, NotRecorded
  <2>2. \A r \in Requests : debited[r] = 0
    BY DEF Init, WalletInit
  <2> QED
    BY <2>1, <2>2, TotalOfZero DEF TotalCredited, TotalDebited
<1> QED
  BY <1>1, <1>2 DEF Lifecycle!LifecycleInit, WalletBalance

(* The path implements its abstract description: a request is submitted,   *)
(* approved, closed or paid by whole steps, is paid at most once and never *)
(* for more than the company has put into its wallet.                      *)
THEOREM PathImplementsLifecycle == Spec => ImplementsLifecycle
BY LifecycleInitial, LifecycleNextStep, FinanceInvariant, PTL
   DEF Spec, ImplementsLifecycle, Lifecycle!LifecycleSpec

(***************************************************************************)
(* What is finished stays as it is.                                        *)
(***************************************************************************)
Finished(r) == rq[r].state \in {"REJECTED", "CANCELLED", "AWAITING_FULFILMENT"}

RowsKept == \A r \in Requests : Finished(r) => rq'[r] = rq[r]

ResultsKept == \A c \in PayCommands : command[c].result # "NONE" => command'[c] = command[c]

(* Only the row of an unfinished request changes. *)
ChangesOnly(r) == ~Finished(r) /\ \A q \in Requests : q # r => rq'[q] = rq[q]

LEMMA ChangesOnlyKeepsRows ==
  ASSUME NEW r \in Requests, ChangesOnly(r)
  PROVE  RowsKept
BY DEF ChangesOnly, RowsKept

LEMMA RequestRowChanges ==
  ASSUME FinanceInv, NEW r \in Requests,
         \/ CreateRequest(r)
         \/ \E n \in Amounts : SubmitRequest(r, n)
         \/ \E u \in Users : \/ RejectOrReturn(u, r) \/ CancelRequest(u, r)
                             \/ Escalate(u, r) \/ ApproveRequest(u, r)
  PROVE  ChangesOnly(r) /\ command' = command
<1> USE DEF ChangesOnly, Finished, FinanceInv, RequestInv, RequestsTypeOK
<1>1. CASE CreateRequest(r)
  BY <1>1 DEF CreateRequest
<1>2. ASSUME NEW n \in Amounts, SubmitRequest(r, n) PROVE ChangesOnly(r) /\ command' = command
  BY <1>2 DEF SubmitRequest
<1>3. ASSUME NEW u \in Users, RejectOrReturn(u, r) PROVE ChangesOnly(r) /\ command' = command
  BY <1>3 DEF RejectOrReturn, Close, MayDecide, Pending
<1>4. ASSUME NEW u \in Users, CancelRequest(u, r) PROVE ChangesOnly(r) /\ command' = command
  BY <1>4 DEF CancelRequest, Close
<1>5. ASSUME NEW u \in Users, Escalate(u, r) PROVE ChangesOnly(r) /\ command' = command
  BY <1>5 DEF Escalate, MayDecide, Pending
<1>6. ASSUME NEW u \in Users, ApproveRequest(u, r) PROVE ChangesOnly(r) /\ command' = command
  BY <1>6 DEF ApproveRequest, FinalApproval, MayDecide, Pending
<1> QED
  BY <1>1, <1>2, <1>3, <1>4, <1>5, <1>6

LEMMA PaymentChanges ==
  ASSUME FinanceInv, NEW c \in PayCommands, NEW r \in Requests, Pays(c, r) \/ Refuses(c, r)
  PROVE  RowsKept /\ ResultsKept
<1>1. ResultsKept
  BY DEF Pays, Refuses, StoreResult, ResultsKept, FinanceInv, RequestInv, RequestsTypeOK
<1>2. CASE Pays(c, r)
  <2>1. ChangesOnly(r)
    BY <1>2 DEF Pays, TakePayment, ChangesOnly, Finished, Payable, Pending,
                FinanceInv, RequestInv, RequestsTypeOK
  <2> QED
    BY <1>1, <2>1, ChangesOnlyKeepsRows
<1>3. CASE Refuses(c, r)
  BY <1>1, <1>3 DEF Refuses, RowsKept
<1> QED
  BY <1>2, <1>3

LEMMA BuyingChanges ==
  ASSUME FinanceInv, NEW c \in PayCommands, NEW r \in DirectRequests, NEW n \in Amounts,
         Buys(c, r, n)
  PROVE  RowsKept /\ ResultsKept
<1>1. ResultsKept
  BY DEF Buys, StoreResult, ResultsKept, FinanceInv, RequestInv, RequestsTypeOK
<1>2. r \in Requests
  BY UsersAssumption
<1>3. ChangesOnly(r)
  BY <1>2 DEF Buys, PlaceOrder, ChangesOnly, Finished, FinanceInv, RequestInv, RequestsTypeOK
<1> QED
  BY <1>1, <1>2, <1>3, ChangesOnlyKeepsRows

LEMMA FinishedStep == FinanceInv /\ [Next]_vars => RowsKept /\ ResultsKept
<1> SUFFICES ASSUME FinanceInv, [Next]_vars PROVE RowsKept /\ ResultsKept
  OBVIOUS
<1>1. CASE RequestStep
  <2>1. ASSUME NEW r \in Requests,
               \/ CreateRequest(r)
               \/ \E n \in Amounts : SubmitRequest(r, n)
               \/ \E u \in Users : \/ RejectOrReturn(u, r) \/ CancelRequest(u, r)
                                   \/ Escalate(u, r) \/ ApproveRequest(u, r)
        PROVE  RowsKept /\ ResultsKept
    BY <2>1, RequestRowChanges, ChangesOnlyKeepsRows DEF ResultsKept
  <2>2. ASSUME NEW c \in PayCommands, NEW u \in Users, NEW r \in Requests,
               NEW policyOk \in BOOLEAN, NEW locationOk \in BOOLEAN,
               NEW revision \in 1 .. rq[r].revision,
               ApproveAndPay(c, u, r, revision, policyOk, locationOk)
        PROVE  RowsKept /\ ResultsKept
    BY <2>2, ApproveAndPayCases, PaymentChanges
  <2>3. ASSUME NEW c \in PayCommands, NEW r \in Requests, NEW locationOk \in BOOLEAN,
               CompletePayment(c, r, locationOk)
        PROVE  RowsKept /\ ResultsKept
    BY <2>3, CompletePaymentCases, PaymentChanges
  <2>4. ASSUME NEW c \in PayCommands, NEW r \in DirectRequests, NEW n \in Amounts,
               NEW cartOk \in BOOLEAN, DirectPurchase(c, r, n, cartOk)
        PROVE  RowsKept /\ ResultsKept
    <3>1. r \in Requests
      BY UsersAssumption
    <3> QED
      BY <2>4, <3>1, DirectPurchaseCases, BuyingChanges, PaymentChanges
  <2> QED
    BY <1>1, <2>1, <2>2, <2>3, <2>4 DEF RequestStep
<1>2. CASE BudgetStep \/ WalletStep \/ UNCHANGED vars
  BY <1>2 DEF BudgetStep, WalletStep, vars, requestVars, RowsKept, ResultsKept
<1> QED
  BY <1>1, <1>2 DEF Next

(* No retried command, late decision or refresh changes a request that is  *)
(* paid, rejected or cancelled, nor the result a command was told.         *)
THEOREM FinishedIsFinal == Spec => FinishedStaysFinished
<1>1. FinanceInv /\ [Next]_vars
        => [/\ \A r \in Requests :
                 rq[r].state \in {"REJECTED", "CANCELLED", "AWAITING_FULFILMENT"}
                   => rq'[r] = rq[r]
            /\ \A c \in PayCommands :
                 command[c].result # "NONE" => command'[c] = command[c]]_vars
  BY FinishedStep DEF RowsKept, ResultsKept, Finished
<1> QED
  BY <1>1, FinanceInvariant, PTL DEF Spec, FinishedStaysFinished

(***************************************************************************)
(* Decisions and the contractual ceiling.  The check reads the exposure    *)
(* before the decision; it is still true after it, because a live          *)
(* reservation is part of the exposure in the ACTIVE period already, and   *)
(* paying moves it from reserved to spent there.                           *)
(***************************************************************************)
Decided(r) ==
  rq'[r].state # rq[r].state /\ rq'[r].state \in {"APPROVED", "AWAITING_FULFILMENT"}

RespectsCeiling(r) ==
  \/ CompanyExposure' <= ceiling
  \/ \E u \in Overriders : u = CreatorOf[r] \/ MayApprove(u, r)

DecisionsChecked == \A r \in Requests \ DirectRequests : Decided(r) => RespectsCeiling(r)

LEMMA NobodyDecided ==
  ASSUME NEW r \in Requests,
         \A q \in Requests : q # r => rq'[q] = rq[q],
         \/ rq'[r].state = rq[r].state
         \/ rq'[r].state \notin {"APPROVED", "AWAITING_FULFILMENT"}
         \/ r \in DirectRequests
         \/ RespectsCeiling(r)
  PROVE  DecisionsChecked
BY DEF DecisionsChecked, Decided

(* Somebody who passed the check decides, and adds nothing to the exposure. *)
LEMMA CheckedDecision ==
  ASSUME FinanceInv, NEW r \in Requests, NEW u \in Users,
         u = CreatorOf[r] \/ MayApprove(u, r),
         ~CeilingExceeded(u, 0), CompanyExposure' \in Nat, CompanyExposure' <= CompanyExposure
  PROVE  RespectsCeiling(r)
<1>1. CompanyExposure \in Nat /\ ceiling \in Nat
  BY ExposureType DEF FinanceInv, BudgetInv, BudgetTypeOK
<1>2. u \in Overriders \/ CompanyExposure <= ceiling
  BY <1>1 DEF CeilingExceeded
<1> QED
  BY <1>1, <1>2 DEF RespectsCeiling

LEMMA RequestDecisions ==
  ASSUME FinanceInv, FinanceInv', NEW r \in Requests,
         \/ CreateRequest(r)
         \/ \E n \in Amounts : SubmitRequest(r, n)
         \/ \E u \in Users : \/ RejectOrReturn(u, r) \/ CancelRequest(u, r)
                             \/ Escalate(u, r) \/ ApproveRequest(u, r)
  PROVE  DecisionsChecked
<1>1. \A q \in Requests : q # r => rq'[q] = rq[q]
  BY RequestRowChanges DEF ChangesOnly
<1>2. ASSUME rq'[r].state \in {"DRAFT"} \cup Pending \cup Closed PROVE DecisionsChecked
  BY <1>1, <1>2, NobodyDecided DEF Pending, Closed
<1>3. rq \in [Requests -> RequestRow]
  BY DEF FinanceInv, RequestInv, RequestsTypeOK
<1>4. CASE CreateRequest(r)
  <2>1. rq'[r].state = "DRAFT"
    BY <1>3, <1>4 DEF CreateRequest, RequestRow
  <2> QED
    BY <1>2, <2>1
<1>5. ASSUME NEW n \in Amounts, SubmitRequest(r, n) PROVE DecisionsChecked
  <2>1. rq'[r].state \in Pending
    BY <1>3, <1>5 DEF SubmitRequest, RequestRow, Pending
  <2> QED
    BY <1>2, <2>1
<1>6. ASSUME NEW next \in Closed, Close(r, next) PROVE DecisionsChecked
  <2>1. rq'[r].state = next
    BY <1>3, <1>6 DEF Close, RequestRow
  <2> QED
    BY <1>2, <2>1
<1>7. ASSUME NEW u \in Users, RejectOrReturn(u, r) \/ CancelRequest(u, r)
      PROVE  DecisionsChecked
  <2>1. PICK next \in Closed : Close(r, next)
    BY <1>7, CancelClosesOpen DEF RejectOrReturn, Closed
  <2> QED
    BY <1>6, <2>1
<1>8. ASSUME NEW u \in Users, Escalate(u, r) PROVE DecisionsChecked
  <2>1. PICK next \in {"PENDING_COMPANY", "PENDING_AXORA"} :
          rq' = [rq EXCEPT ![r].state = next, ![r].revision = @ + 1]
    BY <1>8 DEF Escalate
  <2>2. rq'[r].state \in Pending
    BY <1>3, <2>1 DEF RequestRow, Pending
  <2> QED
    BY <1>2, <2>2
<1>9. ASSUME NEW u \in Users, ApproveRequest(u, r) PROVE DecisionsChecked
  <2>1. MayApprove(u, r) /\ ~CeilingExceeded(u, 0)
    BY <1>9 DEF ApproveRequest, FinalApproval, MayDecide, UnreservedAmount
  <2>2. bal' = bal /\ cycle' = cycle
    BY <1>9 DEF ApproveRequest, budgetVars
  <2>3. CompanyExposure' = CompanyExposure /\ CompanyExposure \in Nat
    BY <2>2, ExposureType DEF CompanyExposure, ActiveBalance, FinanceInv
  <2>4. RespectsCeiling(r)
    BY <2>1, <2>3, CheckedDecision
  <2> QED
    BY <1>1, <2>4, NobodyDecided
<1> QED
  BY <1>4, <1>5, <1>7, <1>8, <1>9

(* The payment of a request by somebody who passed the check. *)
LEMMA CheckedPayment ==
  ASSUME FinanceInv, FinanceInv', NEW r \in Requests, NEW u \in Users,
         NEW approver, NEW decisions, TakePayment(r, approver, decisions),
         rq[r].state \in Payable,
         u = CreatorOf[r] \/ MayApprove(u, r), ~CeilingExceeded(u, 0)
  PROVE  DecisionsChecked
<1>1. \A q \in Requests : q # r => rq'[q] = rq[q]
  BY DEF TakePayment, FinanceInv, RequestInv, RequestsTypeOK
<1>2. rq[r].amount \in Amounts
  BY RequestFacts DEF RequestOK, Submitted, Payable, Pending
<1>3. Spend(r, rq[r].amount)
  BY DEF TakePayment
<1>4. CompanyExposure' \in Nat /\ CompanyExposure' <= CompanyExposure
  BY <1>2, <1>3, SpendingExposesNothing DEF FinanceInv
<1>5. RespectsCeiling(r)
  BY <1>4, CheckedDecision
<1> QED
  BY <1>1, <1>5, NobodyDecided

LEMMA NothingPaid ==
  ASSUME UNCHANGED rq
  PROVE  DecisionsChecked
BY DEF DecisionsChecked, Decided

LEMMA ApproveAndPayDecision ==
  ASSUME FinanceInv, FinanceInv', NEW c \in PayCommands, NEW u \in Users, NEW r \in Requests,
         NEW revision, NEW policyOk \in BOOLEAN, NEW locationOk \in BOOLEAN,
         ApproveAndPay(c, u, r, revision, policyOk, locationOk)
  PROVE  DecisionsChecked
<1> DEFINE policy == policyOk /\ LimitFor(u, r) >= rq[r].amount
           result == PaymentResult(u, r, revision, Payable, policy, locationOk)
<1>1. /\ MayApprove(u, r)
      /\ \/ /\ result = "SUCCESS"
            /\ rq[r].state = "APPROVED"
            /\ TakePayment(r, rq[r].approver, 1)
         \/ /\ result = "SUCCESS"
            /\ FinalApproval(u, r)
            /\ TakePayment(r, u, 2)
         \/ UNCHANGED rq
  BY DEF ApproveAndPay, Payable
<1>2. result = "SUCCESS" =>
        ~CeilingExceeded(u, IF rq[r].state = "APPROVED" THEN 0 ELSE UnreservedAmount(r))
  BY SuccessFacts
<1> HIDE DEF result
<1>3. CASE result = "SUCCESS" /\ rq[r].state = "APPROVED" /\ TakePayment(r, rq[r].approver, 1)
  <2>1. ~CeilingExceeded(u, 0) /\ rq[r].state \in Payable
    BY <1>2, <1>3 DEF Payable
  <2> QED
    BY <1>1, <1>3, <2>1, CheckedPayment
<1>4. CASE FinalApproval(u, r) /\ TakePayment(r, u, 2)
  <2>1. ~CeilingExceeded(u, 0) /\ rq[r].state \in Payable
    BY <1>4 DEF FinalApproval, MayDecide, UnreservedAmount, Payable
  <2> QED
    BY <1>1, <1>4, <2>1, CheckedPayment
<1> QED
  BY <1>1, <1>3, <1>4, NothingPaid

LEMMA CheckoutDecision ==
  ASSUME FinanceInv, FinanceInv', NEW c \in PayCommands, NEW r \in Requests,
         NEW locationOk \in BOOLEAN, CompletePayment(c, r, locationOk)
  PROVE  DecisionsChecked
<1> DEFINE result == PaymentResult(CreatorOf[r], r, rq[r].revision, {"APPROVED"},
                                   TRUE, locationOk)
<1>1. \/ result = "SUCCESS" /\ TakePayment(r, rq[r].approver, 1)
      \/ UNCHANGED rq
  BY DEF CompletePayment
<1>2. result = "SUCCESS" =>
        rq[r].state = "APPROVED" /\ ~CeilingExceeded(CreatorOf[r], 0)
  BY DEF PaymentResult
<1> HIDE DEF result
<1>3. CASE result = "SUCCESS" /\ TakePayment(r, rq[r].approver, 1)
  <2>1. CreatorOf[r] \in Users /\ rq[r].state \in Payable
    BY <1>2, <1>3, UsersAssumption DEF Payable
  <2> QED
    BY <1>2, <1>3, <2>1, CheckedPayment
<1> QED
  BY <1>1, <1>3, NothingPaid

(* An order bought directly is no decision that reads the ceiling. *)
LEMMA BuyingDecision ==
  ASSUME FinanceInv, NEW c \in PayCommands, NEW r \in DirectRequests, NEW n \in Amounts,
         NEW cartOk \in BOOLEAN, DirectPurchase(c, r, n, cartOk)
  PROVE  DecisionsChecked
<1>1. CASE Buys(c, r, n)
  <2>1. \A q \in Requests : q # r => rq'[q] = rq[q]
    BY <1>1 DEF Buys, PlaceOrder, FinanceInv, RequestInv, RequestsTypeOK
  <2> QED
    BY <2>1 DEF DecisionsChecked, Decided
<1>2. CASE Refuses(c, r)
  BY <1>2, NothingPaid DEF Refuses
<1> QED
  BY <1>1, <1>2, DirectPurchaseCases

LEMMA DecisionStep == FinanceInv /\ FinanceInv' /\ [Next]_vars => DecisionsChecked
<1> SUFFICES ASSUME FinanceInv, FinanceInv', [Next]_vars PROVE DecisionsChecked
  OBVIOUS
<1>1. CASE RequestStep
  BY <1>1, RequestDecisions, ApproveAndPayDecision, CheckoutDecision, BuyingDecision
     DEF RequestStep
<1>2. CASE BudgetStep \/ WalletStep \/ UNCHANGED vars
  BY <1>2, NothingPaid DEF BudgetStep, WalletStep, vars, requestVars
<1> QED
  BY <1>1, <1>2 DEF Next

(* A request is approved, or paid, only while the company's exposure is    *)
(* within its contractual ceiling, or where somebody who may override the  *)
(* ceiling could decide; paying for it takes the exposure no higher.       *)
THEOREM DecisionsKeepToCeiling == Spec => DecisionsRespectCeiling
<1>1. FinanceInv /\ FinanceInv' /\ [Next]_vars
        => [\A r \in Requests \ DirectRequests :
              /\ rq'[r].state # rq[r].state
              /\ rq'[r].state \in {"APPROVED", "AWAITING_FULFILMENT"}
              => \/ CompanyExposure' <= ceiling
                 \/ \E u \in Overriders : u = CreatorOf[r] \/ MayApprove(u, r)]_vars
  BY DecisionStep DEF DecisionsChecked, Decided, RespectsCeiling
<1> QED
  BY <1>1, FinanceInvariant, PTL DEF Spec, DecisionsRespectCeiling
=============================================================================
