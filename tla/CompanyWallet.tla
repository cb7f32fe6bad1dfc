---------------------------- MODULE CompanyWallet ----------------------------
(***************************************************************************)
(* The prepaid wallet of one company: an append-only ledger of top-ups and *)
(* payments whose sum is the available balance.  Each command is one       *)
(* transaction that holds the wallet row FOR UPDATE.                       *)
(***************************************************************************)
EXTENDS CompanyBase

CONSTANTS
  TopUps,          \* ids of the top-up requests company users may file
  NoTopUp,         \* a received top-up that answers no request
  RecordCommands,  \* command ids of the owners' record commands
  TopUpAmounts     \* amounts received

ASSUME WalletAssumption ==
  /\ IsFiniteSet(RecordCommands)
  /\ NoTopUp \notin TopUps
  /\ TopUpAmounts \subseteq Nat \ {0}

VARIABLES
  topUp,     \* status of each top-up request
  recorded,  \* outcome of each record command, and the entry it posted
  debited    \* total of the PAYMENT entries of each purchase request

walletVars == <<topUp, recorded, debited>>

Outcomes == {"NONE", "RECORDED", "ALREADY_RECORDED"}

NotRecorded == [outcome |-> "NONE", topUp |-> NoTopUp, amount |-> 0]

(* The TOP_UP ledger entry of a command exists iff the command recorded it. *)
Credited(c) == IF recorded[c].outcome = "RECORDED" THEN recorded[c].amount ELSE 0

TotalCredited == TotalOf(RecordCommands, [c \in RecordCommands |-> Credited(c)])
TotalDebited  == TotalOf(Requests, debited)

(* Fault: the balance view sums the top-ups only. *)
WalletBalanceBeforePayments == TotalCredited

WalletBalance == TotalCredited - TotalDebited

RequestTopUp(t) ==
  /\ topUp[t] = "NONE"
  /\ topUp' = [topUp EXCEPT ![t] = "REQUESTED"]
  /\ UNCHANGED <<recorded, debited>>

(* The command that credited top-up request t. *)
CreditingCommands(t) ==
  {c \in RecordCommands : recorded[c].outcome = "RECORDED" /\ recorded[c].topUp = t}

(* Faults: the top-up request is not marked; or marked with no such status. *)
PostTopUpLeavingRequestOpen(c, t, n) ==
  /\ recorded' = [recorded EXCEPT ![c] =
                    [outcome |-> "RECORDED", topUp |-> t, amount |-> n]]
  /\ UNCHANGED topUp

PostTopUpMisnamed(c, t, n) ==
  /\ recorded' = [recorded EXCEPT ![c] =
                    [outcome |-> "RECORDED", topUp |-> t, amount |-> n]]
  /\ topUp' = IF t = NoTopUp THEN topUp ELSE [topUp EXCEPT ![t] = "PROCESSED"]

PostTopUp(c, t, n) ==
  /\ t # NoTopUp => CreditingCommands(t) = {}       \* one TOP_UP per request
  /\ recorded' = [recorded EXCEPT ![c] =
                    [outcome |-> "RECORDED", topUp |-> t, amount |-> n]]
  /\ topUp' = IF t = NoTopUp THEN topUp ELSE [topUp EXCEPT ![t] = "RECEIVED"]

(* Fault: the reply does not look up the entry that exists. *)
ReplyWithoutLookup(c, t) ==
  /\ recorded' = [recorded EXCEPT ![c] = [outcome |-> "ALREADY_RECORDED",
                                          topUp |-> t, amount |-> 0]]
  /\ UNCHANGED topUp

(* A second owner records what was received already: the reply, and the    *)
(* event row, carry the amount of the entry that exists.                   *)
ReplyAlreadyRecorded(c, t) ==
  /\ \E d \in CreditingCommands(t) :
       recorded' = [recorded EXCEPT ![c] = [outcome |-> "ALREADY_RECORDED",
                                            topUp |-> t,
                                            amount |-> recorded[d].amount]]
  /\ UNCHANGED topUp

(* A command id that has an event row is a replay and changes nothing. *)
RecordTopUp(c, t, n) ==
  /\ recorded[c].outcome = "NONE"
  /\ t # NoTopUp => topUp[t] # "NONE"
  /\ IF t # NoTopUp /\ topUp[t] = "RECEIVED"
     THEN ReplyAlreadyRecorded(c, t)
     ELSE PostTopUp(c, t, n)
  /\ UNCHANGED debited

(* The wallet side of a payment: one PAYMENT entry per request.  That the   *)
(* balance covers it is the caller's check.                                *)
Debit(r, n) ==
  /\ n > 0
  /\ debited[r] = 0
  /\ debited' = [debited EXCEPT ![r] = @ + n]
  /\ UNCHANGED <<topUp, recorded>>

WalletInit ==
  /\ topUp = [t \in TopUps |-> "NONE"]
  /\ recorded = [c \in RecordCommands |-> NotRecorded]
  /\ debited = [r \in Requests |-> 0]

WalletNext ==
  \/ \E t \in TopUps : RequestTopUp(t)
  \/ \E c \in RecordCommands, t \in TopUps \cup {NoTopUp}, n \in TopUpAmounts :
       RecordTopUp(c, t, n)
  \/ \E r \in Requests : \E n \in 1 .. WalletBalance : Debit(r, n)

WalletSpec == WalletInit /\ [][WalletNext]_walletVars

(***************************************************************************)
(* Properties.                                                             *)
(***************************************************************************)

(* Every variable has its type. *)
WalletTypeOK ==
  /\ topUp \in [TopUps -> {"NONE", "REQUESTED", "RECEIVED"}]
  /\ recorded \in [RecordCommands -> [outcome : Outcomes,
                                      topUp : TopUps \cup {NoTopUp}, amount : Nat]]
  /\ debited \in [Requests -> Nat]

(* The wallet is prepaid: over any order of top-ups and payments, what was *)
(* paid never exceeds what was received.  No table constraint says so; the *)
(* balance is a view over the ledger.                                      *)
WalletSolvent == TotalDebited <= TotalCredited

(* A received top-up is credited exactly once however many owners record   *)
(* it: a top-up request is RECEIVED iff one entry credits it, and never    *)
(* two.                                                                    *)
TopUpCreditedOnce ==
  \A t \in TopUps :
    /\ Cardinality(CreditingCommands(t)) <= 1
    /\ topUp[t] = "RECEIVED" <=> CreditingCommands(t) # {}

(* Whoever records a top-up that is recorded already is told the amount    *)
(* that really reached the wallet, not the amount typed in the retry.      *)
AlreadyRecordedRepliesAreTrue ==
  \A c \in RecordCommands : recorded[c].outcome = "ALREADY_RECORDED" =>
    \E d \in CreditingCommands(recorded[c].topUp) :
      recorded[d].amount = recorded[c].amount
=============================================================================
