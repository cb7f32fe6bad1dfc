--------------------------- MODULE BudgetAccounts ---------------------------
(***************************************************************************)
(* The budget accounts of one company (branches and departments): their    *)
(* periods, the balance the ledger gives each period, and the reservations *)
(* that requests hold in them.                                             *)
(*                                                                         *)
(* A period is <<a, c>>: cycle number c of account a.  cycle[a] is the     *)
(* ACTIVE one, earlier ones are CLOSED, later ones do not exist yet.       *)
(* Every operation is one database transaction that holds the period row   *)
(* FOR UPDATE, so it is one step here.                                     *)
(***************************************************************************)
EXTENDS CompanyBase, BudgetLedger

CONSTANTS
  Accounts,           \* budget accounts other than the COMPANY account
  AccountOf,          \* the account a request was created against
  Schedule,           \* refresh rule of each account
  InitialAllocation,  \* INITIAL_ALLOCATION posted when an account is created
  InitialCeiling,     \* contractual ceiling at the start
  Amounts,            \* amounts (in cents) that requests may total
  AdjustAmounts,      \* amounts that allocation commands carry
  Ceilings,           \* ceilings the Axora operators may set
  MaxCycle            \* bound: cycle numbers explored

RolloverModes == {"NONE", "RESET_FIXED", "FULL", "PARTIAL_PERCENT", "CUSTOM_AMOUNT"}

ASSUME AccountsAssumption ==
  /\ IsFiniteSet(Accounts)
  /\ AccountOf \in [Requests -> Accounts]
  /\ Schedule \in [Accounts -> [mode : RolloverModes, base : Nat,
                                percent : 0 .. 100, cap : Nat]]
  /\ InitialAllocation \in [Accounts -> Nat]
  /\ InitialCeiling \in Nat
  /\ Amounts \subseteq Nat \ {0}
  /\ AdjustAmounts \subseteq Nat \ {0}
  /\ Ceilings \subseteq Nat
  /\ MaxCycle \in Nat

VARIABLES
  cycle,      \* number of the ACTIVE period of each account
  overdue,    \* the ACTIVE period has reached its ends_at
  bal,        \* bal[a][c]: balance of period <<a, c>>
  rsv,        \* the reservation row of each request
  ceiling     \* companies.contractual_ceiling

budgetVars == <<cycle, overdue, bal, rsv, ceiling>>

Cycles == 0 .. MaxCycle

ReservationStatuses ==
  {"NONE", "RESERVED", "RELEASED", "SPENT", "PARTIALLY_RELEASED"}

NoReservation == [status |-> "NONE", cycle |-> 0, reserved |-> 0,
                  remaining |-> 0, spent |-> 0, released |-> 0]

Reservation == [status : ReservationStatuses, cycle : Cycles, reserved : Nat,
                remaining : Nat, spent : Nat, released : Nat]

(***************************************************************************)
(* What the ledger says.                                                   *)
(***************************************************************************)
ActiveBalance(a) == bal[a][cycle[a]]

(* Sum of reserved + spent over every ACTIVE period of the company. *)
CompanyExposure ==
  TotalOf(Accounts, [a \in Accounts |-> ActiveBalance(a).reserved
                                        + ActiveBalance(a).spent])

(* Sum of the allocations of every ACTIVE period below company level. *)
ActiveAllocation ==
  TotalOf(Accounts, [a \in Accounts |-> ActiveBalance(a).allocated])

(* Posting entry e to period <<a, c>>: refused when it breaks the balance. *)
Post(a, c, e) ==
  /\ Postable(bal[a][c], e)
  /\ bal' = [bal EXCEPT ![a][c] = NextBalance(@, e)]

(***************************************************************************)
(* Reservations: the budget side of submitting, closing and paying.        *)
(***************************************************************************)
IsLive(r) == rsv[r].status = "RESERVED"

(* Submission: the request's period is the ACTIVE one (the caller checks). *)
Reserve(r, n) ==
  LET a == AccountOf[r]
  IN  /\ rsv[r].status = "NONE"
      /\ n > 0
      /\ Post(a, cycle[a], ReservationEntry(n))
      /\ rsv' = [rsv EXCEPT ![r] =
                   [status |-> "RESERVED", cycle |-> cycle[a], reserved |-> n,
                    remaining |-> n, spent |-> 0, released |-> 0]]
      /\ UNCHANGED <<cycle, overdue, ceiling>>

(* Reject, return or cancel: what remains reserved is posted back to the   *)
(* period the caller names, which is the period of the request row.        *)
Release(r, c) ==
  LET n == rsv[r].remaining
  IN  /\ n > 0
      /\ Post(AccountOf[r], c, ReleaseEntry(n))
      /\ rsv' = [rsv EXCEPT ![r].remaining = 0, ![r].released = @ + n,
                            ![r].status = "RELEASED"]
      /\ UNCHANGED <<cycle, overdue, ceiling>>

(* Fault: the rest of the reservation is not given back in the ledger. *)
SpendEntryKeepingTheRest(r, n) == Entry(0, 0, -n, n, 0)

SpendEntry(r, n) ==
  Entry(0, rsv[r].remaining - n, -rsv[r].remaining, n, 0)

(* Fault: the reservation row forgets what it gave back. *)
SpendForgettingTheRest(r, n) ==
  /\ IsLive(r)
  /\ n > 0 /\ n <= rsv[r].remaining
  /\ Post(AccountOf[r], rsv[r].cycle, SpendEntry(r, n))
  /\ rsv' = [rsv EXCEPT ![r].remaining = 0, ![r].spent = n, ![r].status = "SPENT"]
  /\ UNCHANGED <<cycle, overdue, ceiling>>

(* Finalization: n cents are spent from the reservation, in the period of  *)
(* the reservation row, and the rest goes back to that period.  (n above   *)
(* what remains is the additional-actual path, which no payment takes.)    *)
Spend(r, n) ==
  LET rest == rsv[r].remaining - n
  IN  /\ IsLive(r)
      /\ n > 0 /\ rest >= 0
      /\ Post(AccountOf[r], rsv[r].cycle, SpendEntry(r, n))
      /\ rsv' = [rsv EXCEPT ![r].remaining = 0, ![r].spent = @ + n,
                            ![r].released = @ + rest,
                            ![r].status = IF rest > 0 THEN "PARTIALLY_RELEASED"
                                                      ELSE "SPENT"]
      /\ UNCHANGED <<cycle, overdue, ceiling>>

(* Direct purchase reserves the whole amount in the ACTIVE period and      *)
(* finalizes it in the same transaction.                                   *)
ReserveAndSpend(r, n) ==
  LET a == AccountOf[r]
  IN  /\ rsv[r].status = "NONE"
      /\ n > 0
      /\ Post(a, cycle[a], Entry(0, -n, 0, n, 0))
      /\ rsv' = [rsv EXCEPT ![r] =
                   [status |-> "SPENT", cycle |-> cycle[a], reserved |-> n,
                    remaining |-> 0, spent |-> n, released |-> 0]]
      /\ UNCHANGED <<cycle, overdue, ceiling>>

(***************************************************************************)
(* Allocation commands of company administrators.  They need an ACTIVE     *)
(* period, not one that is still open: an overdue period is adjusted too.  *)
(***************************************************************************)
IncreaseBudget(a, n) ==
  /\ ActiveAllocation + n <= ceiling
  /\ Post(a, cycle[a], AllocationEntry(n))
  /\ UNCHANGED <<cycle, overdue, rsv, ceiling>>

ReduceBudget(a, n) ==
  /\ ActiveBalance(a).available >= n
  /\ Post(a, cycle[a], AllocationEntry(-n))
  /\ UNCHANGED <<cycle, overdue, rsv, ceiling>>

TransferBudget(a, b, n) ==
  /\ a # b
  /\ ActiveBalance(a).available >= n
  /\ Postable(ActiveBalance(a), AllocationEntry(-n))
  /\ Postable(ActiveBalance(b), AllocationEntry(n))
  /\ bal' = [bal EXCEPT
       ![a][cycle[a]] = NextBalance(@, AllocationEntry(-n)),
       ![b][cycle[b]] = NextBalance(@, AllocationEntry(n))]
  /\ UNCHANGED <<cycle, overdue, rsv, ceiling>>

SetCompanyCeiling(n) ==
  /\ n >= CompanyExposure
  /\ n >= ActiveAllocation
  /\ ceiling' = n
  /\ UNCHANGED <<cycle, overdue, bal, rsv>>

(***************************************************************************)
(* Time, and the refresh that closes a period and opens the next one.      *)
(***************************************************************************)
PeriodEnds(a) ==
  /\ ~overdue[a]
  /\ overdue' = [overdue EXCEPT ![a] = TRUE]
  /\ UNCHANGED <<cycle, bal, rsv, ceiling>>

Lesser(m, n) == IF m <= n THEN m ELSE n

(* Fault: the custom amount is rolled over whatever is available. *)
RolloverAboveAvailable(a) ==
  LET available == ActiveBalance(a).available
      s         == Schedule[a]
  IN  CASE s.mode = "FULL"            -> available
        [] s.mode = "PARTIAL_PERCENT" -> (available * s.percent + 50) \div 100
        [] s.mode = "CUSTOM_AMOUNT"   -> s.cap
        [] OTHER                      -> 0

Rollover(a) ==
  LET available == ActiveBalance(a).available
      s         == Schedule[a]
  IN  CASE s.mode = "FULL"            -> available
        [] s.mode = "PARTIAL_PERCENT" -> (available * s.percent + 50) \div 100
        [] s.mode = "CUSTOM_AMOUNT"   -> Lesser(available, s.cap)
        [] OTHER                      -> 0

BaseAllocation(a) ==
  IF Schedule[a].mode = "NONE" THEN 0 ELSE Schedule[a].base

(* The live reservations of the ACTIVE period are carried into the next.   *)
Carried(a) ==
  {r \in Requests : /\ AccountOf[r] = a /\ IsLive(r)
                    /\ rsv[r].cycle = cycle[a] /\ rsv[r].remaining > 0}

CarriedAmount(a) ==
  TotalOf(Carried(a), [r \in Carried(a) |-> rsv[r].remaining])

(* Faults: a closed period keeps what is available; its spend is wiped.    *)
ClosingEntryWithoutExpiry(a) ==
  Entry(0, 0, -CarriedAmount(a), 0, CarriedAmount(a))

ClosingEntryWipingSpend(a) ==
  LET b == ActiveBalance(a)
  IN  Entry(0, -b.available, -CarriedAmount(a), -b.spent,
            b.available + CarriedAmount(a) + b.spent)

(* Closing a period: what is available expires, what is carried leaves.    *)
ClosingEntry(a) ==
  LET available == ActiveBalance(a).available
      carried   == CarriedAmount(a)
  IN  Entry(0, -available, -carried, 0, available + carried)

(* Faults: the carried amount is reserved but not allocated; or allocated  *)
(* but left available.                                                     *)
OpeningEntryOverdrawn(a) ==
  LET fresh == BaseAllocation(a) + Rollover(a)
  IN  Entry(fresh, fresh, CarriedAmount(a), 0, 0)

OpeningEntryUnreserved(a) ==
  LET total == BaseAllocation(a) + Rollover(a) + CarriedAmount(a)
  IN  Entry(total, total, 0, 0, 0)

(* Opening the next: base allocation, rollover and what is carried in. *)
OpeningEntry(a) ==
  LET fresh == BaseAllocation(a) + Rollover(a)
  IN  Entry(fresh + CarriedAmount(a), fresh, CarriedAmount(a), 0, 0)

(* late: the next boundary, computed from the old ends_at and not from the *)
(* clock, has passed too.                                                  *)
RefreshBudgetPeriod(a, late) ==
  LET c == cycle[a]
  IN  /\ overdue[a]
      /\ c < MaxCycle
      /\ Postable(bal[a][c], ClosingEntry(a))
      /\ Postable(bal[a][c + 1], OpeningEntry(a))
      /\ bal' = [bal EXCEPT ![a][c]     = NextBalance(@, ClosingEntry(a)),
                            ![a][c + 1] = NextBalance(@, OpeningEntry(a))]
      /\ cycle' = [cycle EXCEPT ![a] = c + 1]
      /\ overdue' = [overdue EXCEPT ![a] = late]
      /\ rsv' = [r \in Requests |->
                   IF r \in Carried(a) THEN [rsv[r] EXCEPT !.cycle = c + 1]
                                       ELSE rsv[r]]
      /\ UNCHANGED ceiling

(***************************************************************************)
(* The component on its own: any caller may use any operation.             *)
(***************************************************************************)
BudgetInit ==
  /\ cycle = [a \in Accounts |-> 0]
  /\ overdue = [a \in Accounts |-> FALSE]
  /\ bal = [a \in Accounts |-> [c \in Cycles |->
              IF c = 0 THEN NextBalance(EmptyBalance,
                                        AllocationEntry(InitialAllocation[a]))
                       ELSE EmptyBalance]]
  /\ rsv = [r \in Requests |-> NoReservation]
  /\ ceiling = InitialCeiling

BudgetNext ==
  \/ \E r \in Requests, n \in Amounts : Reserve(r, n)
  \/ \E r \in Requests, c \in Cycles : Release(r, c)
  \/ \E r \in Requests, n \in Amounts : Spend(r, n)
  \/ \E r \in Requests, n \in Amounts : ReserveAndSpend(r, n)
  \/ \E a \in Accounts, n \in AdjustAmounts : IncreaseBudget(a, n)
  \/ \E a \in Accounts, n \in AdjustAmounts : ReduceBudget(a, n)
  \/ \E a, b \in Accounts, n \in AdjustAmounts : TransferBudget(a, b, n)
  \/ \E n \in Ceilings : SetCompanyCeiling(n)
  \/ \E a \in Accounts : PeriodEnds(a)
  \/ \E a \in Accounts, late \in BOOLEAN : RefreshBudgetPeriod(a, late)

BudgetSpec == BudgetInit /\ [][BudgetNext]_budgetVars

(***************************************************************************)
(* Properties.                                                             *)
(***************************************************************************)

(* Every variable has its type; in particular no balance is ever negative. *)
BudgetTypeOK ==
  /\ cycle \in [Accounts -> Cycles]
  /\ overdue \in [Accounts -> BOOLEAN]
  /\ bal \in [Accounts -> [Cycles -> Balance]]
  /\ rsv \in [Requests -> Reservation]
  /\ ceiling \in Nat

(* What the reservation rows of period <<a, c>> hold, and have spent. *)
RemainingIn(a, c) ==
  [r \in Requests |-> IF AccountOf[r] = a /\ rsv[r].cycle = c
                      THEN rsv[r].remaining ELSE 0]

SpentIn(a, c) ==
  [r \in Requests |-> IF AccountOf[r] = a /\ rsv[r].cycle = c
                      THEN rsv[r].spent ELSE 0]

(* The ledger and the reservation table agree: in every period, closed or  *)
(* active, the reserved and spent columns of the append-only ledger are    *)
(* exactly what the reservation rows of that period still hold and have    *)
(* spent.  Submission, release, payment and the carry-over of a refresh    *)
(* write both, in two statements each.                                     *)
LedgerMatchesReservations ==
  \A a \in Accounts, c \in Cycles :
    /\ bal[a][c].reserved = TotalOf(Requests, RemainingIn(a, c))
    /\ bal[a][c].spent = TotalOf(Requests, SpentIn(a, c))

(* Money is only ever held in the ACTIVE period: a closed period has       *)
(* nothing available and nothing reserved, a live reservation points at    *)
(* the ACTIVE period of its account, and a period that does not exist yet  *)
(* has no entry.  A refresh that left a reservation behind would lose it.  *)
ClosedPeriodsAreDrained ==
  /\ \A a \in Accounts, c \in Cycles :
       /\ c < cycle[a] => bal[a][c].available = 0 /\ bal[a][c].reserved = 0
       /\ c > cycle[a] => bal[a][c] = EmptyBalance
  /\ \A r \in Requests :
       rsv[r].remaining > 0 => rsv[r].cycle = cycle[AccountOf[r]]

(* A reservation row never creates or loses a cent, over any number of     *)
(* rollovers: what was reserved is what remains, was spent or was given    *)
(* back; and it is over as soon as something was spent or given back.      *)
ReservationsAddUp ==
  \A r \in Requests :
    /\ rsv[r].reserved = rsv[r].remaining + rsv[r].spent + rsv[r].released
    /\ rsv[r].remaining > 0 <=> IsLive(r)
    /\ IsLive(r) => rsv[r].spent = 0 /\ rsv[r].released = 0
    /\ rsv[r].status = "NONE" => rsv[r].reserved = 0
    /\ rsv[r].cycle <= cycle[AccountOf[r]]

(* The ledger of each period adds up to its allocation. *)
BalancesAddUp == \A a \in Accounts, c \in Cycles : AddsUp(bal[a][c])

(* The ledger never refuses what was promised: whatever happened before,   *)
(* the entries of a refresh can be posted (a refused entry would make the  *)
(* job fail again and again and the account would stay on a period that is *)
(* over), and the whole amount of a live reservation can be spent or given *)
(* back in the period of its row.                                          *)
LedgerHonoursPromises ==
  /\ \A a \in Accounts : cycle[a] < MaxCycle =>
       /\ Postable(ActiveBalance(a), ClosingEntry(a))
       /\ Postable(bal[a][cycle[a] + 1], OpeningEntry(a))
  /\ \A r \in Requests : IsLive(r) =>
       LET b == bal[AccountOf[r]][rsv[r].cycle]
       IN  /\ Postable(b, SpendEntry(r, rsv[r].remaining))
           /\ Postable(b, ReleaseEntry(rsv[r].remaining))

(* A refresh never cancels what a request holds: a reservation leaves the  *)
(* live state only by being released or spent, with its whole amount, and  *)
(* a period change keeps it whole.                                         *)
RefreshKeepsReservations ==
  [][\A a \in Accounts : cycle'[a] # cycle[a] =>
       /\ ActiveBalance(a)'.reserved = ActiveBalance(a).reserved
       /\ \A r \in Requests : rsv'[r] = [rsv[r] EXCEPT !.cycle = rsv'[r].cycle]
    ]_budgetVars

(* A refresh creates no authorization beyond the base allocation: whatever *)
(* the rollover rule and its rounding to the cent, the next period starts  *)
(* with at most the base, what was still available, and what requests      *)
(* hold.                                                                   *)
RefreshCreatesNoBudget ==
  [][\A a \in Accounts : cycle'[a] # cycle[a] =>
       ActiveBalance(a)'.allocated <=
         BaseAllocation(a) + ActiveBalance(a).available + ActiveBalance(a).reserved
    ]_budgetVars
=============================================================================
