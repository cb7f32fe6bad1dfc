------------------------- MODULE CompanyFunds_proofs -------------------------
(***************************************************************************)
(* The money of one company, for every number of accounts, requests,       *)
(* cycles, amounts, top-ups and commands: sums over rows (part 1), the     *)
(* wallet (part 2), the budget accounts (part 3), and what the budget      *)
(* accounts have spent in all (part 4).  Each action has a lemma of its    *)
(* own, which PurchaseFinance_proofs uses for the steps of the purchase    *)
(* path.                                                                   *)
(***************************************************************************)
EXTENDS BudgetAccounts, CompanyWallet, FiniteSetTheorems, TLAPS

-----------------------------------------------------------------------------
(* Part 1.  What a sum of module Totals does when its summands change.    *)

Column(x, f) == {x} \X (1 .. f[x])

(* The cents of one summand are as many as the summand says. *)
LEMMA ColumnCardinality ==
  ASSUME NEW x, NEW f, f[x] \in Nat
  PROVE  IsFiniteSet(Column(x, f)) /\ Cardinality(Column(x, f)) = f[x]
<1>1. IsFiniteSet({x}) /\ Cardinality({x}) = 1
  BY FS_Singleton
<1> DEFINE n == f[x]
           I == 1 .. n
           X == {x}
<1>2. IsFiniteSet(I) /\ Cardinality(I) = n
  <2>1. n \in Int /\ 1 \in Int /\ n >= 0
    OBVIOUS
  <2> HIDE DEF n
  <2>2. IsFiniteSet(I) /\ Cardinality(I) = IF 1 > n THEN 0 ELSE n - 1 + 1
    BY <2>1, FS_Interval
  <2> QED
    BY <2>1, <2>2
<1>3. IsFiniteSet(X \X I) /\ Cardinality(X \X I) = 1 * n
  <2>1. IsFiniteSet(X) /\ Cardinality(X) = 1
    BY <1>1
  <2> HIDE DEF X, I, n
  <2>2. /\ IsFiniteSet(X \X I)
        /\ Cardinality(X \X I) = Cardinality(X) * Cardinality(I)
    BY <1>2, <2>1, FS_Product
  <2> QED
    BY <1>2, <2>1, <2>2
<1> QED
  BY <1>3 DEF Column

(* A finite sum of naturals counts a finite set. *)
LEMMA CentsFinite ==
  ASSUME NEW S, IsFiniteSet(S), NEW f, \A x \in S : f[x] \in Nat
  PROVE  IsFiniteSet(Cents(S, f))
<1> DEFINE Columns == {Column(x, f) : x \in S}
           h == [x \in S |-> Column(x, f)]
<1>1. h \in Surjection(S, Columns)
  BY DEF Surjection
<1>2. IsFiniteSet(Columns)
  <2> HIDE DEF h, Columns
  <2> QED BY <1>1, FS_Surjection
<1>3. \A C \in Columns : IsFiniteSet(C)
  BY ColumnCardinality
<1>4. IsFiniteSet(UNION Columns)
  <2> HIDE DEF Columns
  <2> QED BY <1>2, <1>3, FS_UNION
<1> QED
  BY <1>4 DEF Cents, Column

LEMMA TotalOfType ==
  ASSUME NEW S, IsFiniteSet(S), NEW f, \A x \in S : f[x] \in Nat
  PROVE  TotalOf(S, f) \in Nat
BY CentsFinite, FS_CardinalityType DEF TotalOf

LEMMA CentsMembers ==
  ASSUME NEW S, NEW f, NEW z
  PROVE  z \in Cents(S, f) <=> \E x \in S : z \in Column(x, f)
BY DEF Cents, Column

(* Equal summands, equal sums. *)
LEMMA TotalOfEqual ==
  ASSUME NEW S, NEW f, NEW g, \A x \in S : f[x] = g[x]
  PROVE  TotalOf(S, f) = TotalOf(S, g)
<1>1. \A x \in S : Column(x, f) = Column(x, g)
  BY DEF Column
<1>2. Cents(S, f) = Cents(S, g)
  BY <1>1, CentsMembers
<1> QED
  BY <1>2 DEF TotalOf

(* Summands that are zero do not count. *)
LEMMA TotalOfSubset ==
  ASSUME NEW S, NEW T \in SUBSET S, NEW f, \A x \in S \ T : f[x] = 0
  PROVE  TotalOf(S, f) = TotalOf(T, f)
<1>1. \A x \in S \ T : Column(x, f) = {}
  BY DEF Column
<1>2. \A z : z \in Cents(S, f) <=> z \in Cents(T, f)
  <2>1. \A z : (\E x \in S : z \in Column(x, f)) <=> (\E x \in T : z \in Column(x, f))
    BY <1>1
  <2> QED
    BY <2>1, CentsMembers
<1>3. Cents(S, f) = Cents(T, f)
  BY <1>2
<1> QED
  BY <1>3 DEF TotalOf

LEMMA TotalOfZero ==
  ASSUME NEW S, NEW f, \A x \in S : f[x] = 0
  PROVE  TotalOf(S, f) = 0
<1>1. TotalOf(S, f) = TotalOf({}, f)
  BY TotalOfSubset
<1>2. Cents({}, f) = {}
  BY CentsMembers
<1> QED
  BY <1>1, <1>2, FS_EmptySet DEF TotalOf

(* A summand apart: what the others sum to does not depend on it. *)
LEMMA TotalOfSplit ==
  ASSUME NEW S, IsFiniteSet(S), NEW f, \A y \in S : f[y] \in Nat, NEW x \in S
  PROVE  TotalOf(S, f) = TotalOf(S \ {x}, f) + f[x]
<1>1. Cents(S, f) = Cents(S \ {x}, f) \cup Column(x, f)
  <2>1. \A z : z \in Cents(S, f)
               <=> z \in Cents(S \ {x}, f) \/ z \in Column(x, f)
    BY CentsMembers
  <2> QED
    BY <2>1
<1>2. Cents(S \ {x}, f) \cap Column(x, f) = {}
  <2>1. \A y \in S \ {x} : Column(y, f) \cap Column(x, f) = {}
    BY DEF Column
  <2> QED
    BY <2>1, CentsMembers
<1>3. IsFiniteSet(S \ {x})
  BY FS_Difference
<1>4. IsFiniteSet(Cents(S \ {x}, f))
  BY <1>3, CentsFinite
<1>5. IsFiniteSet(Column(x, f)) /\ Cardinality(Column(x, f)) = f[x]
  BY ColumnCardinality
<1>6. Cardinality(Cents(S, f))
        = Cardinality(Cents(S \ {x}, f)) + Cardinality(Column(x, f)) - Cardinality({})
  BY <1>1, <1>2, <1>4, <1>5, FS_Union
<1>7. Cardinality(Cents(S \ {x}, f)) \in Nat /\ Cardinality({}) = 0
  BY <1>4, FS_CardinalityType, FS_EmptySet
<1> QED
  BY <1>5, <1>6, <1>7 DEF TotalOf

(* One summand changes: the sum changes by the difference. *)
LEMMA TotalOfChange ==
  ASSUME NEW S, IsFiniteSet(S), NEW x \in S,
         NEW f, \A y \in S : f[y] \in Nat,
         NEW g, g[x] \in Nat, \A y \in S \ {x} : g[y] = f[y]
  PROVE  TotalOf(S, g) = TotalOf(S, f) - f[x] + g[x]
<1>1. \A y \in S : g[y] \in Nat
  OBVIOUS
<1>2. TotalOf(S, f) = TotalOf(S \ {x}, f) + f[x]
  BY TotalOfSplit
<1>3. TotalOf(S, g) = TotalOf(S \ {x}, g) + g[x]
  BY <1>1, TotalOfSplit
<1>4. TotalOf(S \ {x}, f) = TotalOf(S \ {x}, g)
  BY TotalOfEqual
<1>5. IsFiniteSet(S \ {x}) /\ \A y \in S \ {x} : f[y] \in Nat
  BY FS_Difference
<1>6. TotalOf(S \ {x}, f) \in Nat
  BY <1>5, TotalOfType
<1> QED
  BY <1>2, <1>3, <1>4, <1>6

(* No summand exceeds the sum. *)
LEMMA TotalOfBound ==
  ASSUME NEW S, IsFiniteSet(S), NEW f, \A y \in S : f[y] \in Nat, NEW x \in S
  PROVE  f[x] <= TotalOf(S, f)
<1>1. IsFiniteSet(S \ {x}) /\ \A y \in S \ {x} : f[y] \in Nat
  BY FS_Difference
<1>2. TotalOf(S \ {x}, f) \in Nat
  BY <1>1, TotalOfType
<1> QED
  BY <1>2, TotalOfSplit

-----------------------------------------------------------------------------
(* Part 2.  The wallet.                                                   *)

(***************************************************************************)
(* WalletInv is inductive.  OneCredit says with quantifiers what the       *)
(* cardinality in TopUpCreditedOnce says; the RECEIVED mark is what stops  *)
(* a second credit, so the two must hold together.                         *)
(***************************************************************************)
OneCredit ==
  \A t \in TopUps :
    /\ \A c, d \in CreditingCommands(t) : c = d
    /\ topUp[t] = "RECEIVED" <=> CreditingCommands(t) # {}

WalletInv ==
  /\ WalletTypeOK
  /\ WalletSolvent
  /\ OneCredit
  /\ AlreadyRecordedRepliesAreTrue

(* The sums of the balance view, as functions of the rows. *)
CreditsIn(rows) ==
  [c \in RecordCommands |-> IF rows[c].outcome = "RECORDED" THEN rows[c].amount ELSE 0]

RecordRow == [outcome : Outcomes, topUp : TopUps \cup {NoTopUp}, amount : Nat]

LEMMA TotalCreditedIs == TotalCredited = TotalOf(RecordCommands, CreditsIn(recorded))
BY DEF TotalCredited, Credited, CreditsIn

LEMMA CreditsType ==
  ASSUME NEW rows \in [RecordCommands -> RecordRow]
  PROVE  /\ \A c \in RecordCommands : CreditsIn(rows)[c] \in Nat
         /\ TotalOf(RecordCommands, CreditsIn(rows)) \in Nat
<1>1. \A c \in RecordCommands : CreditsIn(rows)[c] \in Nat
  BY DEF CreditsIn, RecordRow
<1> QED
  BY <1>1, TotalOfType, WalletAssumption

LEMMA WalletTotalsType ==
  ASSUME WalletTypeOK
  PROVE  TotalCredited \in Nat /\ TotalDebited \in Nat /\ WalletBalance \in Int
<1>1. TotalCredited \in Nat
  BY CreditsType, TotalCreditedIs DEF WalletTypeOK, RecordRow
<1>2. TotalDebited \in Nat
  BY TotalOfType, RequestsAssumption DEF WalletTypeOK, TotalDebited
<1> QED
  BY <1>1, <1>2 DEF WalletBalance

(* One more row credits its amount, or nothing. *)
LEMMA CreditsChange ==
  ASSUME NEW rows \in [RecordCommands -> RecordRow], NEW c \in RecordCommands,
         NEW row \in RecordRow, rows[c].outcome = "NONE"
  PROVE  TotalOf(RecordCommands, CreditsIn([rows EXCEPT ![c] = row]))
           = TotalOf(RecordCommands, CreditsIn(rows))
             + (IF row.outcome = "RECORDED" THEN row.amount ELSE 0)
<1> DEFINE f == CreditsIn(rows)
           g == CreditsIn([rows EXCEPT ![c] = row])
<1>1. \A d \in RecordCommands : f[d] \in Nat
  BY CreditsType
<1>2. g[c] = (IF row.outcome = "RECORDED" THEN row.amount ELSE 0) /\ f[c] = 0
  BY DEF CreditsIn
<1>3. g[c] \in Nat
  BY <1>2 DEF RecordRow
<1>4. \A d \in RecordCommands \ {c} : g[d] = f[d]
  BY DEF CreditsIn
<1>5. TotalOf(RecordCommands, f) \in Nat
  BY CreditsType
<1> HIDE DEF f, g
<1>6. TotalOf(RecordCommands, g) = TotalOf(RecordCommands, f) - f[c] + g[c]
  BY <1>1, <1>3, <1>4, TotalOfChange, WalletAssumption
<1>7. TotalOf(RecordCommands, g) = TotalOf(RecordCommands, f) + g[c]
  BY <1>2, <1>3, <1>5, <1>6
<1> QED
  BY <1>2, <1>7 DEF f, g

(***************************************************************************)
(* The initial state and each action.                                      *)
(***************************************************************************)
LEMMA WalletInitInv == WalletInit => WalletInv
<1> SUFFICES ASSUME WalletInit PROVE WalletInv
  OBVIOUS
<1>1. WalletTypeOK
  BY DEF WalletInit, WalletTypeOK, NotRecorded, Outcomes
<1>2. WalletSolvent
  <2>1. TotalDebited = 0
    BY TotalOfZero DEF WalletInit, TotalDebited
  <2> QED
    BY <1>1, <2>1, WalletTotalsType DEF WalletSolvent
<1>3. OneCredit
  BY DEF WalletInit, OneCredit, CreditingCommands, NotRecorded
<1>4. AlreadyRecordedRepliesAreTrue
  BY DEF WalletInit, AlreadyRecordedRepliesAreTrue, NotRecorded
<1> QED
  BY <1>1, <1>2, <1>3, <1>4 DEF WalletInv

LEMMA RequestTopUpInv ==
  ASSUME WalletInv, NEW t \in TopUps, RequestTopUp(t)
  PROVE  WalletInv' /\ WalletBalance' = WalletBalance
<1>1. UNCHANGED <<recorded, debited>>
  BY DEF RequestTopUp
<1>2. WalletTypeOK'
  BY <1>1 DEF WalletInv, WalletTypeOK, RequestTopUp
<1>3. TotalCredited' = TotalCredited /\ TotalDebited' = TotalDebited
  BY <1>1 DEF TotalCredited, TotalDebited, Credited
<1>4. WalletSolvent'
  BY <1>3 DEF WalletInv, WalletSolvent
<1>5. \A s \in TopUps : CreditingCommands(s)' = CreditingCommands(s)
  BY <1>1 DEF CreditingCommands
<1>6. \A s \in TopUps : topUp'[s] = "RECEIVED" <=> topUp[s] = "RECEIVED"
  BY DEF RequestTopUp, WalletInv, WalletTypeOK
<1>7. OneCredit'
  BY <1>5, <1>6 DEF WalletInv, OneCredit
<1>8. AlreadyRecordedRepliesAreTrue'
  BY <1>1 DEF WalletInv, AlreadyRecordedRepliesAreTrue, CreditingCommands
<1> QED
  BY <1>2, <1>3, <1>4, <1>7, <1>8 DEF WalletInv, WalletBalance

(* Both outcomes of a record command write its row, which was empty. *)
LEMMA RecordTopUpType ==
  ASSUME WalletTypeOK, NEW c \in RecordCommands, NEW t \in TopUps \cup {NoTopUp},
         NEW n \in TopUpAmounts, RecordTopUp(c, t, n)
  PROVE  /\ WalletTypeOK'
         /\ \E row \in RecordRow : /\ recorded' = [recorded EXCEPT ![c] = row]
                                   /\ row.outcome # "NONE"
<1>1. n \in Nat
  BY WalletAssumption
<1>2. CASE PostTopUp(c, t, n)
  <2> DEFINE row == [outcome |-> "RECORDED", topUp |-> t, amount |-> n]
  <2>1. row \in RecordRow
    BY <1>1 DEF RecordRow, Outcomes
  <2>2. recorded' = [recorded EXCEPT ![c] = row]
    BY <1>2 DEF PostTopUp
  <2>3. topUp' \in [TopUps -> {"NONE", "REQUESTED", "RECEIVED"}]
    BY <1>2 DEF PostTopUp, WalletTypeOK
  <2> QED
    BY <2>1, <2>2, <2>3 DEF WalletTypeOK, RecordRow, RecordTopUp
<1>3. CASE ReplyAlreadyRecorded(c, t)
  <2>1. PICK d \in CreditingCommands(t) :
          recorded' = [recorded EXCEPT ![c] = [outcome |-> "ALREADY_RECORDED", topUp |-> t,
                                               amount |-> recorded[d].amount]]
    BY <1>3 DEF ReplyAlreadyRecorded
  <2> DEFINE row == [outcome |-> "ALREADY_RECORDED", topUp |-> t, amount |-> recorded[d].amount]
  <2>2. row \in RecordRow
    BY DEF RecordRow, Outcomes, CreditingCommands, WalletTypeOK
  <2> QED
    BY <1>3, <2>1, <2>2 DEF WalletTypeOK, RecordRow, RecordTopUp, ReplyAlreadyRecorded
<1> QED
  BY <1>2, <1>3 DEF RecordTopUp

LEMMA RecordTopUpInv ==
  ASSUME WalletInv, NEW c \in RecordCommands, NEW t \in TopUps \cup {NoTopUp},
         NEW n \in TopUpAmounts, RecordTopUp(c, t, n)
  PROVE  WalletInv' /\ WalletBalance' >= WalletBalance
<1>1. PICK row \in RecordRow : recorded' = [recorded EXCEPT ![c] = row]
  BY RecordTopUpType DEF WalletInv
<1>2. WalletTypeOK'
  BY RecordTopUpType DEF WalletInv
<1>3. recorded[c].outcome = "NONE" /\ debited' = debited
  BY DEF RecordTopUp
<1> DEFINE credit == IF row.outcome = "RECORDED" THEN row.amount ELSE 0
<1>4. TotalCredited' = TotalCredited + credit /\ TotalDebited' = TotalDebited
  <2>1. TotalCredited' = TotalOf(RecordCommands, CreditsIn(recorded'))
    BY DEF TotalCredited, Credited, CreditsIn
  <2>2. TotalCredited' = TotalCredited + credit
    BY <1>1, <1>3, <2>1, CreditsChange, TotalCreditedIs
       DEF WalletInv, WalletTypeOK, RecordRow
  <2> QED
    BY <1>3, <2>2 DEF TotalDebited
<1>5. TotalCredited \in Nat /\ TotalDebited \in Nat /\ credit \in Nat
  BY WalletTotalsType DEF WalletInv, RecordRow
<1> HIDE DEF credit
<1>6. WalletSolvent' /\ WalletBalance' >= WalletBalance
  <2>1. TotalDebited <= TotalCredited
    BY DEF WalletInv, WalletSolvent
  <2>2. TotalDebited' <= TotalCredited'
    BY <1>4, <1>5, <2>1
  <2>3. TotalCredited' - TotalDebited' >= TotalCredited - TotalDebited
    BY <1>4, <1>5
  <2> QED
    BY <2>2, <2>3 DEF WalletSolvent, WalletBalance
<1>7. \A d \in RecordCommands : d # c => recorded'[d] = recorded[d]
  BY <1>1 DEF WalletInv, WalletTypeOK
<1>8. \A s \in TopUps \cup {NoTopUp} : \A d \in CreditingCommands(s) :
        d # c /\ d \in CreditingCommands(s)' /\ recorded'[d] = recorded[d]
  BY <1>3, <1>7 DEF CreditingCommands
<1>9. OneCredit'
  <2>1. CASE PostTopUp(c, t, n)
    <3>1. recorded'[c] = [outcome |-> "RECORDED", topUp |-> t, amount |-> n]
      BY <2>1 DEF PostTopUp, WalletInv, WalletTypeOK
    <3>2. \A s \in TopUps : CreditingCommands(s)'
            = IF s = t THEN {c} ELSE CreditingCommands(s)
      <4> TAKE s \in TopUps
      <4>1. CASE s = t
        <5>1. CreditingCommands(t) = {}
          BY <2>1, <4>1, WalletAssumption DEF PostTopUp
        <5> QED
          BY <3>1, <4>1, <5>1, <1>7 DEF CreditingCommands
      <4>2. CASE s # t
        BY <3>1, <4>2, <1>7, <1>3 DEF CreditingCommands
      <4> QED
        BY <4>1, <4>2
    <3>3. \A s \in TopUps : topUp'[s] = IF s = t THEN "RECEIVED" ELSE topUp[s]
      BY <2>1, WalletAssumption DEF PostTopUp, WalletInv, WalletTypeOK
    <3> QED
      BY <3>2, <3>3 DEF OneCredit, WalletInv
  <2>2. CASE ReplyAlreadyRecorded(c, t)
    <3>1. recorded'[c].outcome = "ALREADY_RECORDED" /\ UNCHANGED topUp
      BY <2>2 DEF ReplyAlreadyRecorded, WalletInv, WalletTypeOK
    <3>2. \A s \in TopUps : CreditingCommands(s)' = CreditingCommands(s)
      BY <3>1, <1>7, <1>3 DEF CreditingCommands
    <3> QED
      BY <3>1, <3>2 DEF OneCredit, WalletInv
  <2> QED
    BY <2>1, <2>2 DEF RecordTopUp
<1>10. AlreadyRecordedRepliesAreTrue'
  <2> SUFFICES ASSUME NEW e \in RecordCommands,
                      recorded'[e].outcome = "ALREADY_RECORDED"
               PROVE  \E d \in RecordCommands :
                        /\ recorded'[d].outcome = "RECORDED"
                        /\ recorded'[d].topUp = recorded'[e].topUp
                        /\ recorded'[d].amount = recorded'[e].amount
    BY DEF AlreadyRecordedRepliesAreTrue, CreditingCommands
  <2>1. CASE e # c
    <3>1. recorded'[e] = recorded[e] /\ recorded[e].topUp \in TopUps \cup {NoTopUp}
      BY <2>1, <1>7 DEF WalletInv, WalletTypeOK
    <3>2. PICK d \in CreditingCommands(recorded[e].topUp) :
            recorded[d].amount = recorded[e].amount
      BY <3>1 DEF WalletInv, AlreadyRecordedRepliesAreTrue
    <3> QED
      BY <3>1, <3>2, <1>8 DEF CreditingCommands
  <2>2. CASE e = c
    <3>1. ReplyAlreadyRecorded(c, t)
      BY <2>2 DEF RecordTopUp, PostTopUp, WalletInv, WalletTypeOK
    <3>2. PICK d \in CreditingCommands(t) :
            recorded' = [recorded EXCEPT ![c] = [outcome |-> "ALREADY_RECORDED", topUp |-> t,
                                                 amount |-> recorded[d].amount]]
      BY <3>1 DEF ReplyAlreadyRecorded
    <3>3. recorded'[c].topUp = t /\ recorded'[c].amount = recorded[d].amount
      BY <3>2 DEF WalletInv, WalletTypeOK
    <3> QED
      BY <2>2, <3>3, <1>8 DEF CreditingCommands
  <2> QED
    BY <2>1, <2>2
<1> QED
  BY <1>2, <1>6, <1>9, <1>10 DEF WalletInv

(* A payment that the balance covers. *)
LEMMA DebitInv ==
  ASSUME WalletInv, NEW r \in Requests, NEW n \in Nat, n <= WalletBalance, Debit(r, n)
  PROVE  WalletInv' /\ WalletBalance' = WalletBalance - n /\ TotalDebited' = TotalDebited + n
<1>1. debited' = [debited EXCEPT ![r] = n] /\ debited[r] = 0 /\ UNCHANGED <<topUp, recorded>>
  BY DEF Debit, WalletInv, WalletTypeOK
<1>2. WalletTypeOK'
  BY <1>1 DEF WalletInv, WalletTypeOK
<1>3. TotalCredited' = TotalCredited
  BY <1>1 DEF TotalCredited, Credited
<1>4. TotalDebited' = TotalDebited + n
  <2>1. /\ \A q \in Requests : debited[q] \in Nat
        /\ debited'[r] = n
        /\ \A q \in Requests \ {r} : debited'[q] = debited[q]
    BY <1>1 DEF WalletInv, WalletTypeOK
  <2>2. TotalOf(Requests, debited') = TotalOf(Requests, debited) - debited[r] + debited'[r]
    BY <2>1, TotalOfChange, RequestsAssumption
  <2> QED
    BY <1>1, <2>1, <2>2, WalletTotalsType DEF WalletInv, TotalDebited
<1>5. TotalCredited \in Nat /\ TotalDebited \in Nat
  BY WalletTotalsType DEF WalletInv
<1>6. WalletSolvent' /\ WalletBalance' = WalletBalance - n
  BY <1>3, <1>4, <1>5 DEF WalletInv, WalletSolvent, WalletBalance
<1>7. OneCredit' /\ AlreadyRecordedRepliesAreTrue'
  BY <1>1 DEF WalletInv, OneCredit, AlreadyRecordedRepliesAreTrue, CreditingCommands
<1> QED
  BY <1>2, <1>4, <1>6, <1>7 DEF WalletInv

LEMMA WalletNextInv == WalletInv /\ [WalletNext]_walletVars => WalletInv'
<1> SUFFICES ASSUME WalletInv, [WalletNext]_walletVars PROVE WalletInv'
  OBVIOUS
<1>1. ASSUME NEW t \in TopUps, RequestTopUp(t) PROVE WalletInv'
  BY <1>1, RequestTopUpInv
<1>2. ASSUME NEW c \in RecordCommands, NEW t \in TopUps \cup {NoTopUp},
             NEW n \in TopUpAmounts, RecordTopUp(c, t, n)
      PROVE  WalletInv'
  BY <1>2, RecordTopUpInv
<1>3. ASSUME NEW r \in Requests, NEW n \in 1 .. WalletBalance, Debit(r, n) PROVE WalletInv'
  <2>1. n \in Nat /\ n <= WalletBalance
    BY WalletTotalsType DEF WalletInv
  <2> QED
    BY <1>3, <2>1, DebitInv
<1>4. CASE UNCHANGED walletVars
  BY <1>4 DEF walletVars, WalletInv, WalletTypeOK, WalletSolvent, OneCredit,
              AlreadyRecordedRepliesAreTrue, CreditingCommands, TotalDebited, TotalCredited,
              Credited
<1> QED
  BY <1>1, <1>2, <1>3, <1>4 DEF WalletNext

LEMMA WalletInvariant == WalletSpec => []WalletInv
BY WalletInitInv, WalletNextInv, PTL DEF WalletSpec

(***************************************************************************)
(* The properties, for every instance.                                     *)
(***************************************************************************)

(* Every variable of the wallet has its type. *)
THEOREM WalletTypeCorrect == WalletSpec => []WalletTypeOK
<1>1. WalletInv => WalletTypeOK
  BY DEF WalletInv
<1> QED
  BY <1>1, WalletInvariant, PTL

(* What was paid never exceeds what was received. *)
THEOREM WalletStaysSolvent == WalletSpec => []WalletSolvent
<1>1. WalletInv => WalletSolvent
  BY DEF WalletInv
<1> QED
  BY <1>1, WalletInvariant, PTL

LEMMA OneCreditCounts == OneCredit => TopUpCreditedOnce
<1> SUFFICES ASSUME OneCredit, NEW t \in TopUps
             PROVE  Cardinality(CreditingCommands(t)) <= 1
  BY DEF OneCredit, TopUpCreditedOnce
<1>1. CASE CreditingCommands(t) = {}
  BY <1>1, FS_EmptySet
<1>2. CASE CreditingCommands(t) # {}
  <2>1. PICK c \in CreditingCommands(t) : TRUE
    BY <1>2
  <2>2. CreditingCommands(t) = {c}
    BY <2>1 DEF OneCredit
  <2>3. Cardinality({c}) = 1
    BY FS_Singleton
  <2> QED
    BY <2>2, <2>3
<1> QED
  BY <1>1, <1>2

(* However many owners record a received top-up, one entry credits it. *)
THEOREM TopUpIsCreditedOnce == WalletSpec => []TopUpCreditedOnce
<1>1. WalletInv => TopUpCreditedOnce
  BY OneCreditCounts DEF WalletInv
<1> QED
  BY <1>1, WalletInvariant, PTL

(* The reply to a repeated recording carries the amount that was credited. *)
THEOREM RepliesAreTrue == WalletSpec => []AlreadyRecordedRepliesAreTrue
<1>1. WalletInv => AlreadyRecordedRepliesAreTrue
  BY DEF WalletInv
<1> QED
  BY <1>1, WalletInvariant, PTL

-----------------------------------------------------------------------------
(* Part 3.  The budget accounts: the type invariant, then the inductive    *)
(* invariant BudgetInv under which the ledger, the reservation rows and    *)
(* the period pointers agree, and what follows from it.                    *)

LedgerEntry == [allocated : Int, available : Int, reserved : Int,
                spent : Int, expired : Int]

LEMMA EntryType ==
  ASSUME NEW al \in Int, NEW av \in Int, NEW re \in Int, NEW sp \in Int, NEW ex \in Int
  PROVE  Entry(al, av, re, sp, ex) \in LedgerEntry
BY DEF Entry, LedgerEntry

(* A posted entry leaves a balance that is never negative and adds up. *)
LEMMA NextBalanceType ==
  ASSUME NEW b \in Balance, NEW e \in LedgerEntry, Postable(b, e)
  PROVE  NextBalance(b, e) \in Balance /\ AddsUp(NextBalance(b, e))
BY DEF Balance, LedgerEntry, Postable, NextBalance

LEMMA PostType ==
  ASSUME BudgetTypeOK, NEW a \in Accounts, NEW c \in Cycles,
         NEW e \in LedgerEntry, Post(a, c, e)
  PROVE  bal' \in [Accounts -> [Cycles -> Balance]]
<1>1. bal[a][c] \in Balance
  BY DEF BudgetTypeOK
<1>2. NextBalance(bal[a][c], e) \in Balance
  BY <1>1, NextBalanceType DEF Post
<1> QED
  BY <1>2 DEF BudgetTypeOK, Post

LEMMA RolloverType ==
  ASSUME BudgetTypeOK, NEW a \in Accounts
  PROVE  Rollover(a) \in Nat /\ BaseAllocation(a) \in Nat
<1> DEFINE available == ActiveBalance(a).available
           s == Schedule[a]
<1>1. available \in Nat
  BY DEF BudgetTypeOK, ActiveBalance, Balance
<1>2. s.percent \in Nat /\ s.cap \in Nat /\ s.base \in Nat
  BY AccountsAssumption
<1>3. (available * s.percent + 50) \div 100 \in Nat
  <2> HIDE DEF available, s
  <2>1. available * s.percent \in Nat
    BY <1>1, <1>2
  <2> QED
    BY <2>1
<1>4. Lesser(available, s.cap) \in Nat
  BY <1>1, <1>2 DEF Lesser
<1> QED
  BY <1>1, <1>2, <1>3, <1>4 DEF Rollover, BaseAllocation

LEMMA CarriedType ==
  ASSUME BudgetTypeOK, NEW a \in Accounts
  PROVE  /\ CarriedAmount(a) \in Nat
         /\ ClosingEntry(a) \in LedgerEntry
         /\ OpeningEntry(a) \in LedgerEntry
<1>1. IsFiniteSet(Carried(a))
  BY RequestsAssumption, FS_Subset DEF Carried
<1>2. \A r \in Carried(a) : [q \in Carried(a) |-> rsv[q].remaining][r] \in Nat
  BY DEF Carried, BudgetTypeOK, Reservation
<1>3. CarriedAmount(a) \in Nat
  BY <1>1, <1>2, TotalOfType DEF CarriedAmount
<1>4. ActiveBalance(a).available \in Nat
  BY DEF BudgetTypeOK, ActiveBalance, Balance
<1>5. ClosingEntry(a) \in LedgerEntry
  BY <1>3, <1>4, EntryType DEF ClosingEntry
<1>6. OpeningEntry(a) \in LedgerEntry
  BY <1>3, RolloverType, EntryType DEF OpeningEntry
<1> QED
  BY <1>3, <1>5, <1>6

(***************************************************************************)
(* Type correctness.                                                       *)
(***************************************************************************)
LEMMA InitType == BudgetInit => BudgetTypeOK
<1> SUFFICES ASSUME BudgetInit PROVE BudgetTypeOK
  OBVIOUS
<1>1. 0 \in Cycles
  BY AccountsAssumption DEF Cycles
<1>2. \A a \in Accounts :
        NextBalance(EmptyBalance, AllocationEntry(InitialAllocation[a])) \in Balance
  BY AccountsAssumption DEF NextBalance, EmptyBalance, AllocationEntry, Entry, Balance
<1>3. EmptyBalance \in Balance
  BY DEF EmptyBalance, Balance
<1>4. NoReservation \in Reservation
  BY <1>1 DEF NoReservation, Reservation, ReservationStatuses
<1> QED
  BY <1>1, <1>2, <1>3, <1>4, AccountsAssumption DEF BudgetInit, BudgetTypeOK

LEMMA ReserveType ==
  ASSUME BudgetTypeOK, NEW r \in Requests, NEW n \in Amounts, Reserve(r, n)
  PROVE  BudgetTypeOK'
<1>1. n \in Nat /\ AccountOf[r] \in Accounts /\ cycle[AccountOf[r]] \in Cycles
  BY AccountsAssumption DEF BudgetTypeOK
<1>. -n \in Int
  BY <1>1
<1>2. ReservationEntry(n) \in LedgerEntry
  BY <1>1, EntryType DEF ReservationEntry
<1>3. bal' \in [Accounts -> [Cycles -> Balance]]
  BY <1>1, <1>2, PostType DEF Reserve
<1>4. rsv' \in [Requests -> Reservation]
  BY <1>1 DEF BudgetTypeOK, Reserve, Reservation, ReservationStatuses
<1> QED
  BY <1>3, <1>4 DEF BudgetTypeOK, Reserve

LEMMA ReleaseType ==
  ASSUME BudgetTypeOK, NEW r \in Requests, NEW c \in Cycles, Release(r, c)
  PROVE  BudgetTypeOK'
<1>1. rsv[r].remaining \in Nat /\ AccountOf[r] \in Accounts
  BY AccountsAssumption DEF BudgetTypeOK, Reservation
<1>2. ReleaseEntry(rsv[r].remaining) \in LedgerEntry
  BY <1>1, EntryType DEF ReleaseEntry
<1>3. bal' \in [Accounts -> [Cycles -> Balance]]
  BY <1>1, <1>2, PostType DEF Release
<1>4. rsv' \in [Requests -> Reservation]
  BY <1>1 DEF BudgetTypeOK, Release, Reservation, ReservationStatuses
<1> QED
  BY <1>3, <1>4 DEF BudgetTypeOK, Release

LEMMA SpendType ==
  ASSUME BudgetTypeOK, NEW r \in Requests, NEW n \in Nat, Spend(r, n)
  PROVE  BudgetTypeOK'
<1>1. /\ rsv[r].remaining \in Nat
      /\ AccountOf[r] \in Accounts /\ rsv[r].cycle \in Cycles
  BY AccountsAssumption DEF BudgetTypeOK, Reservation
<1>2. SpendEntry(r, n) \in LedgerEntry
  BY <1>1, EntryType DEF SpendEntry
<1>3. bal' \in [Accounts -> [Cycles -> Balance]]
  BY <1>1, <1>2, PostType DEF Spend
<1>4. rsv' \in [Requests -> Reservation]
  BY <1>1 DEF BudgetTypeOK, Spend, Reservation, ReservationStatuses
<1> QED
  BY <1>3, <1>4 DEF BudgetTypeOK, Spend

LEMMA ReserveAndSpendType ==
  ASSUME BudgetTypeOK, NEW r \in Requests, NEW n \in Amounts, ReserveAndSpend(r, n)
  PROVE  BudgetTypeOK'
<1>1. n \in Nat /\ AccountOf[r] \in Accounts /\ cycle[AccountOf[r]] \in Cycles
  BY AccountsAssumption DEF BudgetTypeOK
<1>. n \in Int /\ -n \in Int
  BY <1>1
<1>2. Entry(0, -n, 0, n, 0) \in LedgerEntry
  BY <1>1, EntryType
<1>3. bal' \in [Accounts -> [Cycles -> Balance]]
  BY <1>1, <1>2, PostType DEF ReserveAndSpend
<1>4. rsv' \in [Requests -> Reservation]
  BY <1>1 DEF BudgetTypeOK, ReserveAndSpend, Reservation, ReservationStatuses
<1> QED
  BY <1>3, <1>4 DEF BudgetTypeOK, ReserveAndSpend

LEMMA AdjustType ==
  ASSUME BudgetTypeOK, NEW a \in Accounts, NEW n \in Int,
         Post(a, cycle[a], AllocationEntry(n)), UNCHANGED <<cycle, overdue, rsv, ceiling>>
  PROVE  BudgetTypeOK'
<1>1. cycle[a] \in Cycles /\ AllocationEntry(n) \in LedgerEntry
  BY EntryType DEF BudgetTypeOK, AllocationEntry
<1> QED
  BY <1>1, PostType DEF BudgetTypeOK

LEMMA TransferType ==
  ASSUME BudgetTypeOK, NEW a \in Accounts, NEW b \in Accounts, NEW n \in AdjustAmounts,
         TransferBudget(a, b, n)
  PROVE  BudgetTypeOK'
<1>1. n \in Int /\ -n \in Int
  BY AccountsAssumption
<1>2. AllocationEntry(n) \in LedgerEntry /\ AllocationEntry(-n) \in LedgerEntry
  BY <1>1, EntryType DEF AllocationEntry
<1>3. ActiveBalance(a) \in Balance /\ ActiveBalance(b) \in Balance
  BY DEF ActiveBalance, BudgetTypeOK
<1>4. /\ NextBalance(ActiveBalance(a), AllocationEntry(-n)) \in Balance
      /\ NextBalance(ActiveBalance(b), AllocationEntry(n)) \in Balance
  BY <1>2, <1>3, NextBalanceType DEF TransferBudget
<1>5. bal' \in [Accounts -> [Cycles -> Balance]]
  BY <1>4 DEF ActiveBalance, BudgetTypeOK, TransferBudget
<1> QED
  BY <1>5 DEF BudgetTypeOK, TransferBudget

LEMMA RefreshType ==
  ASSUME BudgetTypeOK, NEW a \in Accounts, NEW late \in BOOLEAN,
         RefreshBudgetPeriod(a, late)
  PROVE  BudgetTypeOK'
<1>1. cycle[a] \in Cycles /\ cycle[a] + 1 \in Cycles
  BY AccountsAssumption DEF BudgetTypeOK, RefreshBudgetPeriod, Cycles
<1>2. bal[a][cycle[a]] \in Balance /\ bal[a][cycle[a] + 1] \in Balance
  BY <1>1 DEF BudgetTypeOK
<1>3. /\ NextBalance(bal[a][cycle[a]], ClosingEntry(a)) \in Balance
      /\ NextBalance(bal[a][cycle[a] + 1], OpeningEntry(a)) \in Balance
  BY <1>2, CarriedType, NextBalanceType DEF RefreshBudgetPeriod
<1>4. bal' \in [Accounts -> [Cycles -> Balance]]
  <2>1. bal' = [bal EXCEPT ![a][cycle[a]] = NextBalance(@, ClosingEntry(a)),
                           ![a][cycle[a] + 1] = NextBalance(@, OpeningEntry(a))]
    BY DEF RefreshBudgetPeriod
  <2>2. bal \in [Accounts -> [Cycles -> Balance]]
    BY DEF BudgetTypeOK
  <2>3. cycle[a] + 1 # cycle[a]
    BY <1>1 DEF Cycles
  <2> QED
    BY <1>1, <1>3, <2>1, <2>2, <2>3
<1>5. rsv' \in [Requests -> Reservation]
  <2>1. \A r \in Requests : [rsv[r] EXCEPT !.cycle = cycle[a] + 1] \in Reservation
    BY <1>1 DEF BudgetTypeOK, Reservation
  <2> QED
    BY <2>1 DEF RefreshBudgetPeriod, BudgetTypeOK
<1> QED
  BY <1>1, <1>4, <1>5 DEF BudgetTypeOK, RefreshBudgetPeriod

LEMMA NextType == BudgetTypeOK /\ [BudgetNext]_budgetVars => BudgetTypeOK'
<1> SUFFICES ASSUME BudgetTypeOK, [BudgetNext]_budgetVars PROVE BudgetTypeOK'
  OBVIOUS
<1>1. ASSUME NEW r \in Requests, NEW n \in Amounts, Reserve(r, n) PROVE BudgetTypeOK'
  BY <1>1, ReserveType
<1>2. ASSUME NEW r \in Requests, NEW c \in Cycles, Release(r, c) PROVE BudgetTypeOK'
  BY <1>2, ReleaseType
<1>3. ASSUME NEW r \in Requests, NEW n \in Amounts, Spend(r, n) PROVE BudgetTypeOK'
  BY <1>3, SpendType, AccountsAssumption
<1>31. ASSUME NEW r \in Requests, NEW n \in Amounts, ReserveAndSpend(r, n)
       PROVE  BudgetTypeOK'
  BY <1>31, ReserveAndSpendType
<1>4. ASSUME NEW a \in Accounts, NEW n \in AdjustAmounts, IncreaseBudget(a, n)
      PROVE  BudgetTypeOK'
  BY <1>4, AdjustType, AccountsAssumption DEF IncreaseBudget
<1>5. ASSUME NEW a \in Accounts, NEW n \in AdjustAmounts, ReduceBudget(a, n)
      PROVE  BudgetTypeOK'
  <2>1. -n \in Int
    BY AccountsAssumption
  <2> QED
    BY <1>5, <2>1, AdjustType DEF ReduceBudget
<1>6. ASSUME NEW a \in Accounts, NEW b \in Accounts, NEW n \in AdjustAmounts,
             TransferBudget(a, b, n)
      PROVE  BudgetTypeOK'
  BY <1>6, TransferType
<1>7. ASSUME NEW n \in Ceilings, SetCompanyCeiling(n) PROVE BudgetTypeOK'
  BY <1>7, AccountsAssumption DEF SetCompanyCeiling, BudgetTypeOK
<1>8. ASSUME NEW a \in Accounts, PeriodEnds(a) PROVE BudgetTypeOK'
  BY <1>8 DEF PeriodEnds, BudgetTypeOK
<1>9. ASSUME NEW a \in Accounts, NEW late \in BOOLEAN, RefreshBudgetPeriod(a, late)
      PROVE  BudgetTypeOK'
  BY <1>9, RefreshType
<1>10. CASE UNCHANGED budgetVars
  BY <1>10 DEF budgetVars, BudgetTypeOK
<1> QED
  BY <1>1, <1>2, <1>3, <1>31, <1>4, <1>5, <1>6, <1>7, <1>8, <1>9, <1>10 DEF BudgetNext

(* Whatever the constants, no balance and no reservation is ever negative  *)
(* and every variable keeps its type.                                      *)
THEOREM BudgetTypeCorrect == BudgetSpec => []BudgetTypeOK
BY InitType, NextType, PTL DEF BudgetSpec

(***************************************************************************)
(* The inductive invariant.  The three properties are not inductive one by *)
(* one: a release names the period of the request row, and only because a  *)
(* closed period holds nothing (ClosedPeriodsAreDrained) is one that names *)
(* another period than the reservation's refused.                          *)
(***************************************************************************)
BudgetInv ==
  /\ BudgetTypeOK
  /\ LedgerMatchesReservations
  /\ ClosedPeriodsAreDrained
  /\ ReservationsAddUp
  /\ BalancesAddUp

(* RemainingIn and SpentIn, of any reservation table. *)
RemainingOf(rows, a, c) ==
  [r \in Requests |-> IF AccountOf[r] = a /\ rows[r].cycle = c
                      THEN rows[r].remaining ELSE 0]

SpentOf(rows, a, c) ==
  [r \in Requests |-> IF AccountOf[r] = a /\ rows[r].cycle = c
                      THEN rows[r].spent ELSE 0]

LEMMA HeldType ==
  ASSUME NEW rows \in [Requests -> Reservation], NEW a, NEW c
  PROVE  /\ \A r \in Requests : RemainingOf(rows, a, c)[r] \in Nat
         /\ \A r \in Requests : SpentOf(rows, a, c)[r] \in Nat
         /\ TotalOf(Requests, RemainingOf(rows, a, c)) \in Nat
         /\ TotalOf(Requests, SpentOf(rows, a, c)) \in Nat
<1>1. /\ \A r \in Requests : RemainingOf(rows, a, c)[r] \in Nat
      /\ \A r \in Requests : SpentOf(rows, a, c)[r] \in Nat
  BY DEF RemainingOf, SpentOf, Reservation
<1> QED
  BY <1>1, RequestsAssumption, TotalOfType

(* One row changes and stays in its period (or held nothing before): only  *)
(* the totals of its new period change, by the difference of the row.      *)
LEMMA OneRowChanges ==
  ASSUME NEW rows \in [Requests -> Reservation], NEW r \in Requests,
         NEW row \in Reservation,
         \/ row.cycle = rows[r].cycle
         \/ rows[r].remaining = 0 /\ rows[r].spent = 0,
         NEW a \in Accounts, NEW c \in Cycles
  PROVE  LET after == [rows EXCEPT ![r] = row]
             here  == a = AccountOf[r] /\ c = row.cycle
         IN  /\ TotalOf(Requests, RemainingOf(after, a, c))
                  = TotalOf(Requests, RemainingOf(rows, a, c))
                    + IF here THEN row.remaining - rows[r].remaining ELSE 0
             /\ TotalOf(Requests, SpentOf(after, a, c))
                  = TotalOf(Requests, SpentOf(rows, a, c))
                    + IF here THEN row.spent - rows[r].spent ELSE 0
<1> DEFINE after == [rows EXCEPT ![r] = row]
           here  == a = AccountOf[r] /\ c = row.cycle
           f == RemainingOf(rows, a, c)
           g == RemainingOf(after, a, c)
           f2 == SpentOf(rows, a, c)
           g2 == SpentOf(after, a, c)
<1>1. after \in [Requests -> Reservation]
  OBVIOUS
<1>2. /\ \A q \in Requests : f[q] \in Nat /\ f2[q] \in Nat
      /\ TotalOf(Requests, f) \in Nat /\ TotalOf(Requests, f2) \in Nat
  BY HeldType
<1>3. g[r] \in Nat /\ g2[r] \in Nat
  BY <1>1, HeldType
<1>4. \A q \in Requests \ {r} : g[q] = f[q] /\ g2[q] = f2[q]
  BY DEF RemainingOf, SpentOf
<1>5. /\ g[r] - f[r] = IF here THEN row.remaining - rows[r].remaining ELSE 0
      /\ g2[r] - f2[r] = IF here THEN row.spent - rows[r].spent ELSE 0
  BY DEF RemainingOf, SpentOf, Reservation
<1> HIDE DEF f, g, f2, g2, here, after
<1>6. TotalOf(Requests, g) = TotalOf(Requests, f) - f[r] + g[r]
  BY <1>2, <1>3, <1>4, RequestsAssumption, TotalOfChange
<1>7. TotalOf(Requests, g2) = TotalOf(Requests, f2) - f2[r] + g2[r]
  BY <1>2, <1>3, <1>4, RequestsAssumption, TotalOfChange
<1>8. /\ TotalOf(Requests, g) = TotalOf(Requests, f) + (g[r] - f[r])
      /\ TotalOf(Requests, g2) = TotalOf(Requests, f2) + (g2[r] - f2[r])
  BY <1>2, <1>3, <1>6, <1>7
<1> QED
  BY <1>5, <1>8 DEF f, g, f2, g2, here, after

LEMMA LedgerMatches ==
  LedgerMatchesReservations <=>
    \A a \in Accounts, c \in Cycles :
      /\ bal[a][c].reserved = TotalOf(Requests, RemainingOf(rsv, a, c))
      /\ bal[a][c].spent = TotalOf(Requests, SpentOf(rsv, a, c))
BY DEF LedgerMatchesReservations, RemainingIn, SpentIn, RemainingOf, SpentOf

(***************************************************************************)
(* One request's row changes, with the matching entry in its period.       *)
(***************************************************************************)
LEMMA PostAndRow ==
  ASSUME BudgetInv, NEW r \in Requests, NEW e \in LedgerEntry, NEW row \in Reservation,
         Post(AccountOf[r], row.cycle, e), BudgetTypeOK',
         rsv' = [rsv EXCEPT ![r] = row], UNCHANGED cycle,
         \/ row.cycle = rsv[r].cycle
         \/ rsv[r].remaining = 0 /\ rsv[r].spent = 0,
         row.cycle = cycle[AccountOf[r]],
         e.reserved = row.remaining - rsv[r].remaining,
         e.spent = row.spent - rsv[r].spent,
         row.reserved = row.remaining + row.spent + row.released,
         row.remaining > 0 <=> row.status = "RESERVED",
         row.status = "RESERVED" => row.spent = 0 /\ row.released = 0,
         row.status # "NONE"
  PROVE  BudgetInv'
<1> DEFINE a0 == AccountOf[r]
<1>0. a0 \in Accounts /\ row.cycle \in Cycles /\ bal[a0][row.cycle] \in Balance
  <2>1. a0 \in Accounts
    BY AccountsAssumption
  <2>2. row.cycle \in Cycles
    BY DEF Reservation
  <2>3. bal \in [Accounts -> [Cycles -> Balance]]
    BY DEF BudgetInv, BudgetTypeOK
  <2> QED
    BY <2>1, <2>2, <2>3
<1>1. bal' = [bal EXCEPT ![a0][row.cycle] = NextBalance(bal[a0][row.cycle], e)]
  BY DEF Post
<1>2. \A a \in Accounts, c \in Cycles :
        bal'[a][c] = IF a = a0 /\ c = row.cycle
                     THEN NextBalance(bal[a0][row.cycle], e) ELSE bal[a][c]
  BY <1>0, <1>1 DEF BudgetInv, BudgetTypeOK
<1>3. LedgerMatchesReservations'
  <2> SUFFICES ASSUME NEW a \in Accounts, NEW c \in Cycles
               PROVE  /\ bal'[a][c].reserved = TotalOf(Requests, RemainingOf(rsv', a, c))
                      /\ bal'[a][c].spent = TotalOf(Requests, SpentOf(rsv', a, c))
    BY DEF LedgerMatchesReservations, RemainingIn, SpentIn, RemainingOf, SpentOf
  <2>1. rsv \in [Requests -> Reservation] /\ bal[a][c] \in Balance
    BY DEF BudgetInv, BudgetTypeOK
  <2>2. /\ bal[a][c].reserved = TotalOf(Requests, RemainingOf(rsv, a, c))
        /\ bal[a][c].spent = TotalOf(Requests, SpentOf(rsv, a, c))
    BY LedgerMatches DEF BudgetInv
  <2>3. /\ TotalOf(Requests, RemainingOf(rsv', a, c))
             = bal[a][c].reserved
               + IF a = a0 /\ c = row.cycle THEN e.reserved ELSE 0
        /\ TotalOf(Requests, SpentOf(rsv', a, c))
             = bal[a][c].spent + IF a = a0 /\ c = row.cycle THEN e.spent ELSE 0
    <3>1. /\ TotalOf(Requests, RemainingOf([rsv EXCEPT ![r] = row], a, c))
               = TotalOf(Requests, RemainingOf(rsv, a, c))
                 + IF a = a0 /\ c = row.cycle THEN row.remaining - rsv[r].remaining ELSE 0
          /\ TotalOf(Requests, SpentOf([rsv EXCEPT ![r] = row], a, c))
               = TotalOf(Requests, SpentOf(rsv, a, c))
                 + IF a = a0 /\ c = row.cycle THEN row.spent - rsv[r].spent ELSE 0
      BY <2>1, OneRowChanges, ZenonT(60)
    <3> QED
      BY <2>2, <3>1
  <2>4. /\ bal'[a][c].reserved
             = bal[a][c].reserved + IF a = a0 /\ c = row.cycle THEN e.reserved ELSE 0
        /\ bal'[a][c].spent
             = bal[a][c].spent + IF a = a0 /\ c = row.cycle THEN e.spent ELSE 0
    BY <1>2, <2>1 DEF NextBalance, Balance, LedgerEntry
  <2> QED
    BY <2>3, <2>4
<1>4. ClosedPeriodsAreDrained'
  <2>1. cycle \in [Accounts -> Nat] /\ row.cycle \in Nat
    BY SMTT(30) DEF BudgetInv, BudgetTypeOK, Cycles, Reservation
  <2>2. \A a \in Accounts, c \in Cycles : c # cycle[a] => bal'[a][c] = bal[a][c]
    BY <1>2
  <2>3. \A a \in Accounts, c \in Cycles :
          /\ c < cycle[a] => bal'[a][c].available = 0 /\ bal'[a][c].reserved = 0
          /\ c > cycle[a] => bal'[a][c] = EmptyBalance
    BY <2>1, <2>2 DEF BudgetInv, ClosedPeriodsAreDrained, Cycles
  <2>4. \A q \in Requests : rsv'[q].remaining > 0 => rsv'[q].cycle = cycle[AccountOf[q]]
    BY DEF BudgetInv, BudgetTypeOK, ClosedPeriodsAreDrained
  <2> QED
    BY <2>3, <2>4 DEF ClosedPeriodsAreDrained
<1>5. ReservationsAddUp'
  <2> SUFFICES ASSUME NEW q \in Requests
               PROVE  /\ rsv'[q].reserved
                           = rsv'[q].remaining + rsv'[q].spent + rsv'[q].released
                      /\ rsv'[q].remaining > 0 <=> rsv'[q].status = "RESERVED"
                      /\ rsv'[q].status = "RESERVED"
                           => rsv'[q].spent = 0 /\ rsv'[q].released = 0
                      /\ rsv'[q].status = "NONE" => rsv'[q].reserved = 0
                      /\ rsv'[q].cycle <= cycle'[AccountOf[q]]
    BY DEF ReservationsAddUp, IsLive
  <2>1. CASE q = r
    <3>1. rsv'[q] = row
      BY <2>1 DEF BudgetInv, BudgetTypeOK
    <3>2. row.cycle \in Int
      BY DEF Reservation, Cycles
    <3> QED
      BY <2>1, <3>1, <3>2
  <2>2. CASE q # r
    <3>1. rsv'[q] = rsv[q]
      BY <2>2 DEF BudgetInv, BudgetTypeOK
    <3> QED
      BY <3>1 DEF BudgetInv, ReservationsAddUp, IsLive
  <2> QED
    BY <2>1, <2>2
<1>6. BalancesAddUp'
  <2>1. AddsUp(NextBalance(bal[a0][row.cycle], e))
    BY DEF Post, Postable
  <2> QED
    BY <1>2, <2>1 DEF BudgetInv, BalancesAddUp
<1> QED
  BY <1>3, <1>4, <1>5, <1>6 DEF BudgetInv

LEMMA RowFacts ==
  ASSUME BudgetInv, NEW r \in Requests
  PROVE  /\ rsv[r] \in Reservation /\ AccountOf[r] \in Accounts
         /\ rsv[r].remaining \in Nat /\ rsv[r].spent \in Nat /\ rsv[r].released \in Nat
         /\ rsv[r].reserved \in Nat /\ rsv[r].cycle \in Cycles
         /\ cycle[AccountOf[r]] \in Cycles
         /\ rsv[r].reserved = rsv[r].remaining + rsv[r].spent + rsv[r].released
         /\ rsv[r].remaining > 0 <=> rsv[r].status = "RESERVED"
         /\ rsv[r].status = "RESERVED" => rsv[r].spent = 0 /\ rsv[r].released = 0
         /\ rsv[r].status = "NONE" => rsv[r].reserved = 0
         /\ rsv[r].remaining > 0 => rsv[r].cycle = cycle[AccountOf[r]]
<1>1. rsv[r] \in Reservation /\ AccountOf[r] \in Accounts
  BY AccountsAssumption DEF BudgetInv, BudgetTypeOK
<1>2. cycle[AccountOf[r]] \in Cycles
  BY <1>1 DEF BudgetInv, BudgetTypeOK
<1>3. /\ rsv[r].remaining \in Nat /\ rsv[r].spent \in Nat /\ rsv[r].released \in Nat
      /\ rsv[r].reserved \in Nat /\ rsv[r].cycle \in Cycles
  BY <1>1 DEF Reservation
<1> QED
  BY <1>1, <1>2, <1>3 DEF BudgetInv, ReservationsAddUp, ClosedPeriodsAreDrained, IsLive

LEMMA ReserveInv ==
  ASSUME BudgetInv, NEW r \in Requests, NEW n \in Amounts, Reserve(r, n)
  PROVE  BudgetInv'
<1> DEFINE row == [status |-> "RESERVED", cycle |-> cycle[AccountOf[r]], reserved |-> n,
                   remaining |-> n, spent |-> 0, released |-> 0]
<1>1. n \in Nat /\ n > 0 /\ -n \in Int
  BY AccountsAssumption
<1>2. rsv[r].remaining = 0 /\ rsv[r].spent = 0
  BY RowFacts DEF Reserve
<1>3. row \in Reservation
  BY <1>1, RowFacts DEF Reservation, ReservationStatuses
<1>4. /\ ReservationEntry(n) \in LedgerEntry
      /\ ReservationEntry(n).reserved = n /\ ReservationEntry(n).spent = 0
  BY <1>1, EntryType DEF ReservationEntry, Entry
<1>5. BudgetTypeOK'
  BY ReserveType DEF BudgetInv
<1>6. /\ Post(AccountOf[r], row.cycle, ReservationEntry(n))
      /\ rsv' = [rsv EXCEPT ![r] = row] /\ UNCHANGED cycle
  BY DEF Reserve
<1>7. /\ row.cycle = cycle[AccountOf[r]] /\ row.status = "RESERVED"
      /\ row.remaining = n /\ row.spent = 0 /\ row.released = 0 /\ row.reserved = n
  OBVIOUS
<1> HIDE DEF row
<1>8. /\ ReservationEntry(n).reserved = row.remaining - rsv[r].remaining
      /\ ReservationEntry(n).spent = row.spent - rsv[r].spent
      /\ row.reserved = row.remaining + row.spent + row.released
      /\ row.remaining > 0 <=> row.status = "RESERVED"
      /\ row.status = "RESERVED" => row.spent = 0 /\ row.released = 0
      /\ row.status # "NONE"
  BY <1>1, <1>2, <1>4, <1>7
<1> QED
  BY <1>2, <1>3, <1>4, <1>5, <1>6, <1>7, <1>8, PostAndRow

LEMMA ReserveAndSpendInv ==
  ASSUME BudgetInv, NEW r \in Requests, NEW n \in Amounts, ReserveAndSpend(r, n)
  PROVE  BudgetInv'
<1> DEFINE row == [status |-> "SPENT", cycle |-> cycle[AccountOf[r]], reserved |-> n,
                   remaining |-> 0, spent |-> n, released |-> 0]
           e == Entry(0, -n, 0, n, 0)
<1>1. n \in Nat /\ n > 0 /\ n \in Int /\ -n \in Int
  BY AccountsAssumption
<1>2. rsv[r].remaining = 0 /\ rsv[r].spent = 0
  BY RowFacts DEF ReserveAndSpend
<1>3. row \in Reservation
  BY <1>1, RowFacts DEF Reservation, ReservationStatuses
<1>4. e \in LedgerEntry /\ e.reserved = 0 /\ e.spent = n
  BY <1>1, EntryType DEF Entry
<1>5. BudgetTypeOK'
  BY ReserveAndSpendType DEF BudgetInv
<1>6. /\ Post(AccountOf[r], row.cycle, e)
      /\ rsv' = [rsv EXCEPT ![r] = row] /\ UNCHANGED cycle
  BY DEF ReserveAndSpend
<1>7. /\ row.cycle = cycle[AccountOf[r]] /\ row.status = "SPENT"
      /\ row.remaining = 0 /\ row.spent = n /\ row.released = 0 /\ row.reserved = n
  OBVIOUS
<1> HIDE DEF row, e
<1>8. /\ e.reserved = row.remaining - rsv[r].remaining
      /\ e.spent = row.spent - rsv[r].spent
      /\ row.reserved = row.remaining + row.spent + row.released
      /\ row.remaining > 0 <=> row.status = "RESERVED"
      /\ row.status = "RESERVED" => row.spent = 0 /\ row.released = 0
      /\ row.status # "NONE"
  BY <1>1, <1>2, <1>4, <1>7
<1> QED
  BY <1>2, <1>3, <1>4, <1>5, <1>6, <1>7, <1>8, PostAndRow

LEMMA ReleaseInv ==
  ASSUME BudgetInv, NEW r \in Requests, NEW c \in Cycles, Release(r, c)
  PROVE  BudgetInv' /\ c = cycle[AccountOf[r]]
<1> DEFINE n   == rsv[r].remaining
           a   == AccountOf[r]
           row == [rsv[r] EXCEPT !.remaining = 0, !.released = @ + n, !.status = "RELEASED"]
<1>1. n \in Nat /\ n > 0 /\ -n \in Int /\ rsv[r].cycle = cycle[a]
  BY RowFacts DEF Release
<1>2. /\ ReleaseEntry(n) \in LedgerEntry
      /\ ReleaseEntry(n).reserved = -n /\ ReleaseEntry(n).spent = 0
  BY <1>1, EntryType DEF ReleaseEntry, Entry
<1>3. c = cycle[a]          \* every other period holds nothing
  <2>0. a \in Accounts /\ cycle[a] \in Cycles
    BY RowFacts
  <2>1. bal[a][c] \in Balance /\ cycle[a] \in Nat /\ c \in Nat
    <3> HIDE DEF n, a, row
    <3>1. bal[a] \in [Cycles -> Balance]
      BY <2>0 DEF BudgetInv, BudgetTypeOK
    <3>2. cycle[a] \in Nat /\ c \in Nat
      BY <2>0 DEF Cycles
    <3> QED
      BY <3>1, <3>2
  <2>2. bal[a][c].reserved - n >= 0
    BY <1>2 DEF Release, Post, Postable, NextBalance
  <2>3. bal[a][c].reserved # 0
    BY <1>1, <2>1, <2>2 DEF Balance
  <2>4. ~ (c < cycle[a]) /\ ~ (c > cycle[a])
    BY <2>0, <2>3 DEF BudgetInv, ClosedPeriodsAreDrained, EmptyBalance
  <2> QED
    BY <2>1, <2>4
<1>4. row \in Reservation
  <2>1. rsv[r] \in Reservation /\ rsv[r].released + n \in Nat
    BY <1>1, RowFacts
  <2> QED
    BY <2>1 DEF Reservation, ReservationStatuses
<1>5. BudgetTypeOK'
  BY ReleaseType DEF BudgetInv
<1>6. /\ row.cycle = rsv[r].cycle /\ row.remaining = 0 /\ row.released = rsv[r].released + n
      /\ row.spent = rsv[r].spent /\ row.reserved = rsv[r].reserved
      /\ row.status = "RELEASED"
  BY RowFacts DEF Reservation
<1>7. /\ Post(AccountOf[r], row.cycle, ReleaseEntry(n))
      /\ rsv' = [rsv EXCEPT ![r] = row] /\ UNCHANGED cycle
  BY <1>1, <1>3, <1>6 DEF Release, BudgetInv, BudgetTypeOK, Reservation
<1>8. /\ row.reserved = row.remaining + row.spent + row.released
      /\ ReleaseEntry(n).reserved = row.remaining - rsv[r].remaining
      /\ ReleaseEntry(n).spent = row.spent - rsv[r].spent
      /\ row.remaining > 0 <=> row.status = "RESERVED"
  BY <1>1, <1>2, <1>6, RowFacts
<1> HIDE DEF row
<1>9. BudgetInv'
  BY <1>1, <1>2, <1>4, <1>5, <1>6, <1>7, <1>8, PostAndRow
<1> QED
  BY <1>3, <1>9

LEMMA SpendInv ==
  ASSUME BudgetInv, NEW r \in Requests, NEW n \in Nat, Spend(r, n)
  PROVE  BudgetInv'
<1> DEFINE rest == rsv[r].remaining - n
           row  == [rsv[r] EXCEPT !.remaining = 0, !.spent = @ + n, !.released = @ + rest,
                                  !.status = IF rest > 0 THEN "PARTIALLY_RELEASED"
                                                         ELSE "SPENT"]
<1>1. /\ n > 0 /\ rest \in Nat /\ -rsv[r].remaining \in Int
      /\ rsv[r].cycle = cycle[AccountOf[r]]
      /\ rsv[r].spent = 0 /\ rsv[r].released = 0
  BY RowFacts DEF Spend, IsLive
<1>2. /\ SpendEntry(r, n) \in LedgerEntry
      /\ SpendEntry(r, n).reserved = -rsv[r].remaining /\ SpendEntry(r, n).spent = n
  BY <1>1, EntryType DEF SpendEntry, Entry
<1>3. row \in Reservation
  <2>1. /\ rsv[r] \in Reservation
        /\ rsv[r].released + rest \in Nat /\ rsv[r].spent + n \in Nat
    BY <1>1, RowFacts
  <2> QED
    BY <2>1 DEF Reservation, ReservationStatuses
<1>4. BudgetTypeOK'
  BY SpendType DEF BudgetInv
<1>5. /\ row.cycle = rsv[r].cycle /\ row.remaining = 0 /\ row.released = rest
      /\ row.spent = n /\ row.reserved = rsv[r].reserved
      /\ row.status \notin {"RESERVED", "NONE"}
  BY <1>1, RowFacts DEF Reservation
<1>6. /\ Post(AccountOf[r], row.cycle, SpendEntry(r, n))
      /\ rsv' = [rsv EXCEPT ![r] = row] /\ UNCHANGED cycle
  BY <1>1, <1>5 DEF Spend, BudgetInv, BudgetTypeOK, Reservation
<1>7. /\ row.reserved = row.remaining + row.spent + row.released
      /\ SpendEntry(r, n).reserved = row.remaining - rsv[r].remaining
      /\ SpendEntry(r, n).spent = row.spent - rsv[r].spent
      /\ row.remaining > 0 <=> row.status = "RESERVED"
      /\ row.status # "RESERVED" /\ row.status # "NONE"
  BY <1>1, <1>2, <1>5, RowFacts
<1> HIDE DEF row
<1> QED
  BY <1>1, <1>2, <1>3, <1>4, <1>5, <1>6, <1>7, PostAndRow

(***************************************************************************)
(* Steps that change allocations of ACTIVE periods only.                   *)
(***************************************************************************)
LEMMA AllocationOnly ==
  ASSUME BudgetInv, BudgetTypeOK', UNCHANGED <<cycle, rsv>>,
         \A a \in Accounts, c \in Cycles :
           /\ bal'[a][c].reserved = bal[a][c].reserved
           /\ bal'[a][c].spent = bal[a][c].spent
           /\ AddsUp(bal'[a][c])
           /\ c # cycle[a] => bal'[a][c] = bal[a][c]
  PROVE  BudgetInv'
<1>1. LedgerMatchesReservations'
  BY DEF BudgetInv, LedgerMatchesReservations, RemainingIn, SpentIn
<1>2. ClosedPeriodsAreDrained'
  <2>1. \A a \in Accounts : cycle[a] \in Nat
    BY DEF BudgetInv, BudgetTypeOK, Cycles
  <2> QED
    BY <2>1 DEF BudgetInv, ClosedPeriodsAreDrained, Cycles
<1>3. ReservationsAddUp'
  BY DEF BudgetInv, ReservationsAddUp, IsLive
<1> QED
  BY <1>1, <1>2, <1>3 DEF BudgetInv, BalancesAddUp

LEMMA AllocationEntryEffect ==
  ASSUME NEW b \in Balance, NEW n \in Int, Postable(b, AllocationEntry(n))
  PROVE  /\ NextBalance(b, AllocationEntry(n)).reserved = b.reserved
         /\ NextBalance(b, AllocationEntry(n)).spent = b.spent
         /\ AddsUp(NextBalance(b, AllocationEntry(n)))
BY DEF Balance, Postable, NextBalance, AllocationEntry, Entry

LEMMA AdjustInv ==
  ASSUME BudgetInv, NEW a \in Accounts, NEW n \in Int,
         Post(a, cycle[a], AllocationEntry(n)), UNCHANGED <<cycle, overdue, rsv, ceiling>>
  PROVE  BudgetInv'
<1>1. BudgetTypeOK'
  BY AdjustType DEF BudgetInv
<1>2. bal \in [Accounts -> [Cycles -> Balance]] /\ cycle[a] \in Cycles
  BY DEF BudgetInv, BudgetTypeOK
<1>3. \A b \in Accounts, c \in Cycles :
        bal'[b][c] = IF b = a /\ c = cycle[a]
                     THEN NextBalance(bal[a][cycle[a]], AllocationEntry(n)) ELSE bal[b][c]
  BY <1>2 DEF Post
<1>4. bal[a][cycle[a]] \in Balance
  BY <1>2
<1>5. /\ NextBalance(bal[a][cycle[a]], AllocationEntry(n)).reserved = bal[a][cycle[a]].reserved
      /\ NextBalance(bal[a][cycle[a]], AllocationEntry(n)).spent = bal[a][cycle[a]].spent
      /\ AddsUp(NextBalance(bal[a][cycle[a]], AllocationEntry(n)))
  BY <1>4, AllocationEntryEffect DEF Post
<1> QED
  BY <1>1, <1>3, <1>5, AllocationOnly DEF BudgetInv, BalancesAddUp

LEMMA TransferInv ==
  ASSUME BudgetInv, NEW a \in Accounts, NEW b \in Accounts, NEW n \in AdjustAmounts,
         TransferBudget(a, b, n)
  PROVE  BudgetInv'
<1> DEFINE from == NextBalance(bal[a][cycle[a]], AllocationEntry(-n))
           to   == NextBalance(bal[b][cycle[b]], AllocationEntry(n))
<1>1. BudgetTypeOK'
  BY TransferType DEF BudgetInv
<1>2. n \in Int /\ -n \in Int
  BY AccountsAssumption
<1>3. /\ bal \in [Accounts -> [Cycles -> Balance]]
      /\ cycle[a] \in Cycles /\ cycle[b] \in Cycles
  BY DEF BudgetInv, BudgetTypeOK
<1>4. bal[a][cycle[a]] \in Balance /\ bal[b][cycle[b]] \in Balance
  BY <1>3
<1>5. /\ from.reserved = bal[a][cycle[a]].reserved /\ from.spent = bal[a][cycle[a]].spent
      /\ to.reserved = bal[b][cycle[b]].reserved /\ to.spent = bal[b][cycle[b]].spent
      /\ AddsUp(from) /\ AddsUp(to)
  BY <1>2, <1>4, AllocationEntryEffect DEF TransferBudget, ActiveBalance
<1>6. /\ UNCHANGED <<cycle, rsv>>
      /\ \A x \in Accounts, c \in Cycles :
           bal'[x][c] = IF x = a /\ c = cycle[a] THEN from
                        ELSE IF x = b /\ c = cycle[b] THEN to ELSE bal[x][c]
  BY <1>3 DEF TransferBudget
<1> HIDE DEF from, to
<1> QED
  BY <1>1, <1>5, <1>6, AllocationOnly DEF BudgetInv, BalancesAddUp

(***************************************************************************)
(* The refresh.                                                            *)
(***************************************************************************)

(* What a refresh carries is all that the ACTIVE period has reserved. *)
LEMMA CarriedIsReserved ==
  ASSUME BudgetInv, NEW a \in Accounts
  PROVE  CarriedAmount(a) = ActiveBalance(a).reserved
<1> DEFINE f == RemainingOf(rsv, a, cycle[a])
           g == [r \in Carried(a) |-> rsv[r].remaining]
<1>1. cycle[a] \in Cycles
  BY DEF BudgetInv, BudgetTypeOK
<1>2. ActiveBalance(a).reserved = TotalOf(Requests, f)
  BY <1>1, LedgerMatches DEF BudgetInv, ActiveBalance
<1>3. Carried(a) \in SUBSET Requests
  BY DEF Carried
<1>4. \A r \in Requests \ Carried(a) : f[r] = 0
  BY RowFacts DEF Carried, RemainingOf, IsLive
<1>5. \A r \in Carried(a) : f[r] = g[r]
  BY DEF Carried, RemainingOf
<1> HIDE DEF f, g
<1>6. TotalOf(Requests, f) = TotalOf(Carried(a), f)
  BY <1>3, <1>4, TotalOfSubset
<1>7. TotalOf(Carried(a), f) = TotalOf(Carried(a), g)
  BY <1>5, TotalOfEqual
<1> QED
  BY <1>2, <1>6, <1>7 DEF CarriedAmount, g

LEMMA RefreshInv ==
  ASSUME BudgetInv, NEW a \in Accounts, NEW late \in BOOLEAN,
         RefreshBudgetPeriod(a, late)
  PROVE  BudgetInv'
<1> DEFINE k      == cycle[a]
           closed == NextBalance(bal[a][k], ClosingEntry(a))
           opened == NextBalance(bal[a][k + 1], OpeningEntry(a))
<1>1. BudgetTypeOK'
  BY RefreshType DEF BudgetInv
<1>2. /\ k \in Cycles /\ k + 1 \in Cycles /\ k \in Nat /\ k + 1 # k
      /\ MaxCycle \in Nat
  BY AccountsAssumption DEF BudgetInv, BudgetTypeOK, RefreshBudgetPeriod, Cycles
<1>3. bal \in [Accounts -> [Cycles -> Balance]]
  BY DEF BudgetInv, BudgetTypeOK
<1>4. bal[a][k] \in Balance /\ bal[a][k + 1] = EmptyBalance
  BY <1>2, <1>3 DEF BudgetInv, ClosedPeriodsAreDrained
<1>5. /\ CarriedAmount(a) = bal[a][k].reserved /\ CarriedAmount(a) \in Nat
      /\ ClosingEntry(a) \in LedgerEntry /\ OpeningEntry(a) \in LedgerEntry
  BY CarriedIsReserved, CarriedType DEF ActiveBalance, BudgetInv
<1>6. /\ closed.available = 0 /\ closed.reserved = 0 /\ closed.spent = bal[a][k].spent
      /\ AddsUp(closed)
  <2>1. AddsUp(closed)
    BY DEF RefreshBudgetPeriod, Postable
  <2> QED
    BY <1>4, <1>5, <2>1, SMTT(30)
    DEF ClosingEntry, ActiveBalance, Entry, NextBalance, Balance
<1>7. opened.reserved = bal[a][k].reserved /\ opened.spent = 0 /\ AddsUp(opened)
  <2>1. AddsUp(opened)
    BY DEF RefreshBudgetPeriod, Postable
  <2> QED
    BY <1>4, <1>5, <2>1 DEF OpeningEntry, EmptyBalance, Entry, NextBalance, Balance
<1>8. \A x \in Accounts, c \in Cycles :
        bal'[x][c] = IF x = a /\ c = k THEN closed
                     ELSE IF x = a /\ c = k + 1 THEN opened ELSE bal[x][c]
  BY <1>2, <1>3 DEF RefreshBudgetPeriod
<1>9. \A r \in Requests :
        rsv'[r] = IF AccountOf[r] = a /\ rsv[r].remaining > 0
                  THEN [rsv[r] EXCEPT !.cycle = k + 1] ELSE rsv[r]
  BY RowFacts DEF RefreshBudgetPeriod, Carried, IsLive
<1>10. \A x \in Accounts : cycle'[x] = IF x = a THEN k + 1 ELSE cycle[x]
  BY DEF RefreshBudgetPeriod, BudgetInv, BudgetTypeOK
<1>11. \A r \in Requests :
         /\ rsv'[r].remaining = rsv[r].remaining /\ rsv'[r].spent = rsv[r].spent
         /\ rsv'[r].released = rsv[r].released /\ rsv'[r].reserved = rsv[r].reserved
         /\ rsv'[r].status = rsv[r].status
         /\ rsv'[r].cycle = IF AccountOf[r] = a /\ rsv[r].remaining > 0
                            THEN k + 1 ELSE rsv[r].cycle
  BY <1>9, RowFacts DEF Reservation
<1> HIDE DEF k, closed, opened
<1>12. LedgerMatchesReservations'
  <2> SUFFICES ASSUME NEW x \in Accounts, NEW c \in Cycles
               PROVE  /\ bal'[x][c].reserved = TotalOf(Requests, RemainingOf(rsv', x, c))
                      /\ bal'[x][c].spent = TotalOf(Requests, SpentOf(rsv', x, c))
    BY DEF LedgerMatchesReservations, RemainingIn, SpentIn, RemainingOf, SpentOf
  <2>1. /\ \A y \in Accounts, d \in Cycles :
             bal[y][d].reserved = TotalOf(Requests, RemainingOf(rsv, y, d))
        /\ \A y \in Accounts, d \in Cycles :
             bal[y][d].spent = TotalOf(Requests, SpentOf(rsv, y, d))
    BY LedgerMatches DEF BudgetInv
  <2>2. TotalOf(Requests, SpentOf(rsv', x, c)) = TotalOf(Requests, SpentOf(rsv, x, c))
    <3>1. \A r \in Requests : SpentOf(rsv', x, c)[r] = SpentOf(rsv, x, c)[r]
      BY <1>11, RowFacts DEF SpentOf
    <3> QED
      BY <3>1, TotalOfEqual
  <2>3. bal'[x][c].spent = bal[x][c].spent
    BY <1>4, <1>6, <1>7, <1>8 DEF EmptyBalance
  <2>4. bal'[x][c].reserved = TotalOf(Requests, RemainingOf(rsv', x, c))
    <3>1. CASE x = a /\ c = k
      <4>1. \A r \in Requests : RemainingOf(rsv', a, k)[r] = 0
        BY <1>2, <1>11, RowFacts DEF RemainingOf, k
      <4> QED
        BY <1>6, <1>8, <3>1, <4>1, TotalOfZero
    <3>2. CASE x = a /\ c = k + 1
      <4>1. \A r \in Requests : RemainingOf(rsv', a, k + 1)[r] = RemainingOf(rsv, a, k)[r]
        BY <1>2, <1>11, RowFacts DEF RemainingOf, k
      <4>2. TotalOf(Requests, RemainingOf(rsv', a, k + 1))
              = TotalOf(Requests, RemainingOf(rsv, a, k))
        BY <4>1, TotalOfEqual
      <4> QED
        BY <1>2, <1>7, <1>8, <2>1, <3>2, <4>2
    <3>3. CASE ~(x = a /\ (c = k \/ c = k + 1))
      <4>1. \A r \in Requests : RemainingOf(rsv', x, c)[r] = RemainingOf(rsv, x, c)[r]
        BY <1>11, <3>3, RowFacts DEF RemainingOf, k
      <4>2. TotalOf(Requests, RemainingOf(rsv', x, c))
              = TotalOf(Requests, RemainingOf(rsv, x, c))
        BY <4>1, TotalOfEqual
      <4> QED
        BY <1>8, <2>1, <3>3, <4>2
    <3> QED
      BY <3>1, <3>2, <3>3
  <2> QED
    BY <2>1, <2>2, <2>3, <2>4
<1>13. ClosedPeriodsAreDrained'
  <2> SUFFICES /\ \A x \in Accounts, c \in Cycles :
                    /\ c < cycle'[x] => bal'[x][c].available = 0 /\ bal'[x][c].reserved = 0
                    /\ c > cycle'[x] => bal'[x][c] = EmptyBalance
               /\ \A r \in Requests :
                    rsv'[r].remaining > 0 => rsv'[r].cycle = cycle'[AccountOf[r]]
    BY DEF ClosedPeriodsAreDrained
  <2>1. \A x \in Accounts : cycle[x] \in Nat
    BY DEF BudgetInv, BudgetTypeOK, Cycles
  <2>2. \A c \in Cycles : c \in Nat
    BY DEF Cycles
  <2>3. ASSUME NEW x \in Accounts, NEW c \in Cycles
        PROVE  /\ c < cycle'[x] => bal'[x][c].available = 0 /\ bal'[x][c].reserved = 0
               /\ c > cycle'[x] => bal'[x][c] = EmptyBalance
    <3>1. /\ c < cycle[x] => bal[x][c].available = 0 /\ bal[x][c].reserved = 0
          /\ c > cycle[x] => bal[x][c] = EmptyBalance
      BY DEF BudgetInv, ClosedPeriodsAreDrained
    <3>2. CASE x # a
      BY <1>8, <1>10, <3>1, <3>2
    <3>3. CASE x = a
      <4>1. cycle[x] = k /\ cycle'[x] = k + 1
        BY <1>10, <3>3 DEF k
      <4> QED
        BY <1>2, <1>6, <1>8, <2>2, <3>1, <3>3, <4>1
    <3> QED
      BY <3>2, <3>3
  <2>4. \A r \in Requests :
          rsv'[r].remaining > 0 => rsv'[r].cycle = cycle'[AccountOf[r]]
    BY <1>10, <1>11, RowFacts
  <2> QED
    BY <2>3, <2>4
<1>14. ReservationsAddUp'
  <2> SUFFICES ASSUME NEW r \in Requests
               PROVE  /\ rsv'[r].reserved
                           = rsv'[r].remaining + rsv'[r].spent + rsv'[r].released
                      /\ rsv'[r].remaining > 0 <=> rsv'[r].status = "RESERVED"
                      /\ rsv'[r].status = "RESERVED"
                           => rsv'[r].spent = 0 /\ rsv'[r].released = 0
                      /\ rsv'[r].status = "NONE" => rsv'[r].reserved = 0
                      /\ rsv'[r].cycle <= cycle'[AccountOf[r]]
    BY DEF ReservationsAddUp, IsLive
  <2>1. rsv'[r].cycle <= cycle'[AccountOf[r]]
    <3>1. rsv[r].cycle <= cycle[AccountOf[r]]
      BY DEF BudgetInv, ReservationsAddUp
    <3>2. rsv[r].cycle \in Nat /\ cycle[AccountOf[r]] \in Nat /\ AccountOf[r] \in Accounts
      BY RowFacts DEF Cycles
    <3>3. cycle'[AccountOf[r]] = IF AccountOf[r] = a THEN k + 1 ELSE cycle[AccountOf[r]]
      BY <1>10, <3>2
    <3> QED
      BY <1>2, <1>11, <3>1, <3>2, <3>3 DEF k
  <2>2. /\ rsv[r].reserved = rsv[r].remaining + rsv[r].spent + rsv[r].released
        /\ rsv[r].remaining > 0 <=> rsv[r].status = "RESERVED"
        /\ rsv[r].status = "RESERVED" => rsv[r].spent = 0 /\ rsv[r].released = 0
        /\ rsv[r].status = "NONE" => rsv[r].reserved = 0
    BY RowFacts
  <2> QED
    BY <1>11, <2>1, <2>2
<1>15. BalancesAddUp'
  BY <1>6, <1>7, <1>8 DEF BudgetInv, BalancesAddUp
<1> QED
  BY <1>1, <1>12, <1>13, <1>14, <1>15 DEF BudgetInv

(***************************************************************************)
(* Putting the steps together.                                             *)
(***************************************************************************)
LEMMA InitInv == BudgetInit => BudgetInv
<1> SUFFICES ASSUME BudgetInit PROVE BudgetInv
  OBVIOUS
<1>1. BudgetTypeOK
  BY InitType
<1>2. \A r \in Requests : rsv[r] = NoReservation
  BY DEF BudgetInit
<1>3. \A a \in Accounts, c \in Cycles : bal[a][c].reserved = 0 /\ bal[a][c].spent = 0
  BY AccountsAssumption
     DEF BudgetInit, NextBalance, EmptyBalance, AllocationEntry, Entry
<1>4. \A a \in Accounts, c \in Cycles :
        /\ TotalOf(Requests, RemainingIn(a, c)) = 0
        /\ TotalOf(Requests, SpentIn(a, c)) = 0
  <2> TAKE a \in Accounts, c \in Cycles
  <2>1. \A r \in Requests : RemainingIn(a, c)[r] = 0 /\ SpentIn(a, c)[r] = 0
    BY <1>2 DEF RemainingIn, SpentIn, NoReservation
  <2> QED
    BY <2>1, TotalOfZero
<1>5. \A a \in Accounts, c \in Cycles : AddsUp(bal[a][c])
  BY AccountsAssumption
     DEF BudgetInit, NextBalance, EmptyBalance, AllocationEntry, Entry, AddsUp
<1>6. ClosedPeriodsAreDrained
  BY <1>2, AccountsAssumption
     DEF BudgetInit, ClosedPeriodsAreDrained, NoReservation, Cycles
<1>7. ReservationsAddUp
  BY <1>2, AccountsAssumption
     DEF BudgetInit, ReservationsAddUp, NoReservation, IsLive, Cycles
<1> QED
  BY <1>1, <1>3, <1>4, <1>5, <1>6, <1>7
     DEF BudgetInv, LedgerMatchesReservations, BalancesAddUp

LEMMA NextInv == BudgetInv /\ [BudgetNext]_budgetVars => BudgetInv'
<1> SUFFICES ASSUME BudgetInv, [BudgetNext]_budgetVars PROVE BudgetInv'
  OBVIOUS
<1>1. ASSUME NEW r \in Requests, NEW n \in Amounts, Reserve(r, n) PROVE BudgetInv'
  BY <1>1, ReserveInv
<1>2. ASSUME NEW r \in Requests, NEW c \in Cycles, Release(r, c) PROVE BudgetInv'
  BY <1>2, ReleaseInv
<1>3. ASSUME NEW r \in Requests, NEW n \in Amounts, Spend(r, n) PROVE BudgetInv'
  BY <1>3, SpendInv, AccountsAssumption
<1>31. ASSUME NEW r \in Requests, NEW n \in Amounts, ReserveAndSpend(r, n) PROVE BudgetInv'
  BY <1>31, ReserveAndSpendInv
<1>4. ASSUME NEW a \in Accounts, NEW n \in AdjustAmounts, IncreaseBudget(a, n)
      PROVE  BudgetInv'
  BY <1>4, AdjustInv, AccountsAssumption DEF IncreaseBudget
<1>5. ASSUME NEW a \in Accounts, NEW n \in AdjustAmounts, ReduceBudget(a, n)
      PROVE  BudgetInv'
  <2>1. -n \in Int
    BY AccountsAssumption
  <2> QED
    BY <1>5, <2>1, AdjustInv DEF ReduceBudget
<1>6. ASSUME NEW a \in Accounts, NEW b \in Accounts, NEW n \in AdjustAmounts,
             TransferBudget(a, b, n)
      PROVE  BudgetInv'
  BY <1>6, TransferInv
<1>7. ASSUME UNCHANGED <<cycle, bal, rsv>>, BudgetTypeOK' PROVE BudgetInv'
  BY <1>7, AllocationOnly DEF BudgetInv, BalancesAddUp
<1>8. BudgetTypeOK'
  BY NextType DEF BudgetInv
<1>9. ASSUME NEW n \in Ceilings, SetCompanyCeiling(n) PROVE BudgetInv'
  BY <1>7, <1>8, <1>9 DEF SetCompanyCeiling
<1>10. ASSUME NEW a \in Accounts, PeriodEnds(a) PROVE BudgetInv'
  BY <1>7, <1>8, <1>10 DEF PeriodEnds
<1>11. ASSUME NEW a \in Accounts, NEW late \in BOOLEAN, RefreshBudgetPeriod(a, late)
       PROVE  BudgetInv'
  BY <1>11, RefreshInv
<1>12. CASE UNCHANGED budgetVars
  BY <1>7, <1>8, <1>12 DEF budgetVars
<1> QED
  BY <1>1, <1>2, <1>3, <1>31, <1>4, <1>5, <1>6, <1>9, <1>10, <1>11, <1>12 DEF BudgetNext

LEMMA BudgetInvariant == BudgetSpec => []BudgetInv
BY InitInv, NextInv, PTL DEF BudgetSpec

(* In every period, closed or active, the reserved and spent columns of    *)
(* the ledger are what the reservation rows of that period hold.           *)
THEOREM LedgerAndReservationsAgree == BudgetSpec => []LedgerMatchesReservations
<1>1. BudgetInv => LedgerMatchesReservations
  BY DEF BudgetInv
<1> QED
  BY <1>1, BudgetInvariant, PTL

(* No refresh leaves money in a closed period, or a live reservation       *)
(* behind.                                                                 *)
THEOREM RefreshDrainsThePeriod == BudgetSpec => []ClosedPeriodsAreDrained
<1>1. BudgetInv => ClosedPeriodsAreDrained
  BY DEF BudgetInv
<1> QED
  BY <1>1, BudgetInvariant, PTL

(* What was reserved remains, was spent or was given back. *)
THEOREM ReservationsKeepTheirCents == BudgetSpec => []ReservationsAddUp
<1>1. BudgetInv => ReservationsAddUp
  BY DEF BudgetInv
<1> QED
  BY <1>1, BudgetInvariant, PTL

(* The ledger's own guard never refuses a refresh, nor the payment or the  *)
(* release of what a reservation row holds: the reserved column of a       *)
(* period is at least the amount of each of its reservations, and what a   *)
(* refresh carries is exactly what is reserved.                            *)
THEOREM LedgerNeverRefuses == BudgetSpec => []LedgerHonoursPromises
<1>1. BudgetInv => LedgerHonoursPromises
  <2> SUFFICES ASSUME BudgetInv PROVE LedgerHonoursPromises
    OBVIOUS
  <2>1. ASSUME NEW a \in Accounts, cycle[a] < MaxCycle
        PROVE  /\ Postable(ActiveBalance(a), ClosingEntry(a))
               /\ Postable(bal[a][cycle[a] + 1], OpeningEntry(a))
    <3>1. cycle[a] \in Cycles /\ cycle[a] + 1 \in Cycles /\ cycle[a] \in Nat
      BY <2>1, AccountsAssumption DEF BudgetInv, BudgetTypeOK, Cycles
    <3>2. ActiveBalance(a) \in Balance /\ AddsUp(ActiveBalance(a))
      BY <3>1 DEF BudgetInv, BudgetTypeOK, BalancesAddUp, ActiveBalance
    <3>3. bal[a][cycle[a] + 1] = EmptyBalance
      BY <3>1 DEF BudgetInv, ClosedPeriodsAreDrained
    <3>4. CarriedAmount(a) = ActiveBalance(a).reserved
      BY CarriedIsReserved
    <3>5. Rollover(a) \in Nat /\ BaseAllocation(a) \in Nat
      BY RolloverType DEF BudgetInv
    <3>6. Postable(ActiveBalance(a), ClosingEntry(a))
      BY <3>2, <3>4 DEF Balance, AddsUp, Postable, NextBalance, ClosingEntry, Entry
    <3>7. Postable(EmptyBalance, OpeningEntry(a))
      BY <3>2, <3>4, <3>5
         DEF Balance, AddsUp, Postable, NextBalance, OpeningEntry, Entry, EmptyBalance
    <3> QED
      BY <3>3, <3>6, <3>7
  <2>2. ASSUME NEW r \in Requests, IsLive(r)
        PROVE  LET b == bal[AccountOf[r]][rsv[r].cycle]
               IN  /\ Postable(b, SpendEntry(r, rsv[r].remaining))
                   /\ Postable(b, ReleaseEntry(rsv[r].remaining))
    <3> DEFINE a == AccountOf[r]
               c == rsv[r].cycle
               n == rsv[r].remaining
               b == bal[a][c]
    <3>1. a \in Accounts /\ c \in Cycles /\ n \in Nat /\ rsv \in [Requests -> Reservation]
      BY RowFacts DEF BudgetInv, BudgetTypeOK
    <3>2. b \in Balance /\ AddsUp(b)
      BY <3>1 DEF BudgetInv, BudgetTypeOK, BalancesAddUp
    <3>3. b.reserved = TotalOf(Requests, RemainingOf(rsv, a, c))
      BY <3>1, LedgerMatches DEF BudgetInv
    <3>4. \A q \in Requests : RemainingOf(rsv, a, c)[q] \in Nat
      BY <3>1, HeldType
    <3>5. RemainingOf(rsv, a, c)[r] <= TotalOf(Requests, RemainingOf(rsv, a, c))
      BY <3>4, RequestsAssumption, TotalOfBound
    <3>6. n <= b.reserved
      BY <3>3, <3>5 DEF RemainingOf
    <3>7. SpendEntry(r, n) = Entry(0, 0, -n, n, 0)
      BY <3>1 DEF SpendEntry
    <3> HIDE DEF b, n
    <3>8. Postable(b, Entry(0, 0, -n, n, 0)) /\ Postable(b, ReleaseEntry(n))
      BY <3>1, <3>2, <3>6 DEF Balance, AddsUp, Postable, NextBalance, ReleaseEntry, Entry
    <3> QED
      BY <3>7, <3>8 DEF b, n
  <2> QED
    BY <2>1, <2>2 DEF LedgerHonoursPromises
<1> QED
  BY <1>1, BudgetInvariant, PTL

(* A refresh keeps every reservation, in amount and status. *)
THEOREM RefreshKeepsWhatRequestsHold == BudgetSpec => RefreshKeepsReservations
<1>1. ASSUME BudgetInv, [BudgetNext]_budgetVars, NEW a \in Accounts, cycle'[a] # cycle[a]
      PROVE  /\ ActiveBalance(a)'.reserved = ActiveBalance(a).reserved
             /\ \A r \in Requests : rsv'[r] = [rsv[r] EXCEPT !.cycle = rsv'[r].cycle]
  <2>1. PICK b \in Accounts, late \in BOOLEAN : RefreshBudgetPeriod(b, late)
    BY <1>1 DEF BudgetNext, budgetVars, Reserve, Release, Spend, ReserveAndSpend,
       IncreaseBudget, ReduceBudget, TransferBudget, SetCompanyCeiling, PeriodEnds
  <2>2. b = a
    BY <1>1, <2>1 DEF RefreshBudgetPeriod, BudgetInv, BudgetTypeOK
  <2>3. /\ cycle[a] \in Cycles /\ cycle[a] + 1 \in Cycles /\ cycle[a] \in Nat
        /\ cycle'[a] = cycle[a] + 1
    BY <1>1, <2>1, <2>2, AccountsAssumption
       DEF RefreshBudgetPeriod, BudgetInv, BudgetTypeOK, Cycles
  <2>4. /\ bal[a][cycle[a]] \in Balance /\ bal[a][cycle[a] + 1] = EmptyBalance
        /\ bal'[a][cycle[a] + 1] = NextBalance(bal[a][cycle[a] + 1], OpeningEntry(a))
    BY <1>1, <2>1, <2>2, <2>3
       DEF RefreshBudgetPeriod, BudgetInv, BudgetTypeOK, ClosedPeriodsAreDrained
  <2>5. CarriedAmount(a) = ActiveBalance(a).reserved
    BY <1>1, CarriedIsReserved
  <2>6. ActiveBalance(a)'.reserved = ActiveBalance(a).reserved
    BY <2>3, <2>4, <2>5
       DEF ActiveBalance, OpeningEntry, Entry, EmptyBalance, NextBalance, Balance
  <2>7. \A r \in Requests : rsv[r] \in Reservation
    BY <1>1 DEF BudgetInv, BudgetTypeOK
  <2>8. \A r \in Requests : rsv'[r] = [rsv[r] EXCEPT !.cycle = rsv'[r].cycle]
    BY <2>1, <2>7 DEF RefreshBudgetPeriod, Reservation
  <2> QED
    BY <2>6, <2>8
<1>2. BudgetInv /\ [BudgetNext]_budgetVars =>
        [\A a \in Accounts : cycle'[a] # cycle[a] =>
           /\ ActiveBalance(a)'.reserved = ActiveBalance(a).reserved
           /\ \A r \in Requests : rsv'[r] = [rsv[r] EXCEPT !.cycle = rsv'[r].cycle]
        ]_budgetVars
  BY <1>1
<1> QED
  BY <1>2, BudgetInvariant, PTL DEF BudgetSpec, RefreshKeepsReservations

(* No rollover rule hands on more than what was available; the percentage  *)
(* is rounded half up, which cannot pass the whole.                        *)
LEMMA RolloverBound ==
  ASSUME BudgetTypeOK, NEW a \in Accounts
  PROVE  Rollover(a) <= ActiveBalance(a).available
<1> DEFINE n == ActiveBalance(a).available
           s == Schedule[a]
<1>1. n \in Nat
  BY DEF BudgetTypeOK, ActiveBalance, Balance
<1>2. s.percent \in 0 .. 100 /\ s.cap \in Nat
  BY AccountsAssumption
<1> HIDE DEF n, s
<1>3. \A p \in 0 .. 100 : n * p <= n * 100
  <2> TAKE p \in 0 .. 100
  <2>1. n * 100 = n * p + n * (100 - p)
    BY <1>1, Z3
  <2>2. n * (100 - p) >= 0
    BY <1>1, Z3
  <2>3. n * p \in Int /\ n * (100 - p) \in Int /\ n * 100 \in Int
    BY <1>1
  <2> QED
    BY <2>1, <2>2, <2>3
<1>4. (n * s.percent + 50) \div 100 <= n
  <2> DEFINE m == n * s.percent
  <2>1. m \in Int /\ m <= n * 100
    BY <1>1, <1>2, <1>3
  <2> HIDE DEF m
  <2>2. (m + 50) \div 100 <= n
    BY <1>1, <2>1
  <2> QED
    BY <2>2 DEF m
<1>5. Lesser(n, s.cap) <= n
  BY <1>1, <1>2 DEF Lesser
<1> QED
  BY <1>1, <1>4, <1>5 DEF Rollover, n, s

(* A refresh hands on what there was and adds the base allocation.         *)
THEOREM RefreshAddsOnlyTheBase == BudgetSpec => RefreshCreatesNoBudget
<1>1. ASSUME BudgetInv, [BudgetNext]_budgetVars, NEW a \in Accounts, cycle'[a] # cycle[a]
      PROVE  ActiveBalance(a)'.allocated <=
               BaseAllocation(a) + ActiveBalance(a).available + ActiveBalance(a).reserved
  <2>1. PICK b \in Accounts, late \in BOOLEAN : RefreshBudgetPeriod(b, late)
    BY <1>1 DEF BudgetNext, budgetVars, Reserve, Release, Spend, ReserveAndSpend,
       IncreaseBudget, ReduceBudget, TransferBudget, SetCompanyCeiling, PeriodEnds
  <2>2. b = a
    BY <1>1, <2>1 DEF RefreshBudgetPeriod, BudgetInv, BudgetTypeOK
  <2>3. /\ cycle[a] \in Cycles /\ cycle[a] + 1 \in Cycles /\ cycle[a] \in Nat
        /\ cycle'[a] = cycle[a] + 1
    BY <1>1, <2>1, <2>2, AccountsAssumption
       DEF RefreshBudgetPeriod, BudgetInv, BudgetTypeOK, Cycles
  <2>4. /\ bal[a][cycle[a]] \in Balance /\ bal[a][cycle[a] + 1] = EmptyBalance
        /\ bal'[a][cycle[a] + 1] = NextBalance(bal[a][cycle[a] + 1], OpeningEntry(a))
    BY <1>1, <2>1, <2>2, <2>3
       DEF RefreshBudgetPeriod, BudgetInv, BudgetTypeOK, ClosedPeriodsAreDrained
  <2>5. CarriedAmount(a) = ActiveBalance(a).reserved
    BY <1>1, CarriedIsReserved
  <2>6. /\ Rollover(a) \in Nat /\ BaseAllocation(a) \in Nat
        /\ Rollover(a) <= ActiveBalance(a).available
    BY <1>1, RolloverType, RolloverBound DEF BudgetInv
  <2>7. ActiveBalance(a) \in Balance
    BY <2>4 DEF ActiveBalance
  <2>8. ActiveBalance(a)'.allocated =
          BaseAllocation(a) + Rollover(a) + ActiveBalance(a).reserved
    BY <2>3, <2>4, <2>5, <2>6, <2>7
       DEF ActiveBalance, OpeningEntry, Entry, EmptyBalance, NextBalance, Balance
  <2> QED
    BY <2>6, <2>7, <2>8 DEF Balance
<1>2. BudgetInv /\ [BudgetNext]_budgetVars =>
        [\A a \in Accounts : cycle'[a] # cycle[a] =>
           ActiveBalance(a)'.allocated <=
             BaseAllocation(a) + ActiveBalance(a).available + ActiveBalance(a).reserved
        ]_budgetVars
  BY <1>1
<1> QED
  BY <1>2, BudgetInvariant, PTL DEF BudgetSpec, RefreshCreatesNoBudget

-----------------------------------------------------------------------------
(* Part 4.  Sums over the whole company.  What the budget periods count as *)
(* spent, over all accounts and cycles: a spend adds its amount, and no    *)
(* other operation changes it.  What the company is exposed to: a spend    *)
(* adds nothing to it.                                                     *)

SpentBy(table, a) == TotalOf(Cycles, [c \in Cycles |-> table[a][c].spent])

SpentOver(table) == TotalOf(Accounts, [a \in Accounts |-> SpentBy(table, a)])

LEMMA SpentTypes ==
  ASSUME NEW table \in [Accounts -> [Cycles -> Balance]]
  PROVE  /\ IsFiniteSet(Cycles)
         /\ \A a \in Accounts, c \in Cycles : table[a][c].spent \in Nat
         /\ \A a \in Accounts : SpentBy(table, a) \in Nat
         /\ SpentOver(table) \in Nat
<1>1. IsFiniteSet(Cycles)
  BY AccountsAssumption, FS_Interval DEF Cycles
<1>2. \A a \in Accounts, c \in Cycles : table[a][c].spent \in Nat
  BY DEF Balance
<1>3. ASSUME NEW a \in Accounts PROVE SpentBy(table, a) \in Nat
  <2> DEFINE f == [c \in Cycles |-> table[a][c].spent]
  <2>1. \A c \in Cycles : f[c] \in Nat
    BY <1>2
  <2> HIDE DEF f
  <2>2. TotalOf(Cycles, f) \in Nat
    BY <1>1, <2>1, TotalOfType
  <2> QED
    BY <2>2 DEF f, SpentBy
<1>4. SpentOver(table) \in Nat
  <2> DEFINE f == [a \in Accounts |-> SpentBy(table, a)]
  <2>1. \A a \in Accounts : f[a] \in Nat
    BY <1>3
  <2> HIDE DEF f
  <2>2. TotalOf(Accounts, f) \in Nat
    BY <2>1, TotalOfType, AccountsAssumption
  <2> QED
    BY <2>2 DEF f, SpentOver
<1> QED
  BY <1>1, <1>2, <1>3, <1>4

(* The spent column of one period grows by n. *)
LEMMA SpentGrows ==
  ASSUME NEW old \in [Accounts -> [Cycles -> Balance]],
         NEW new \in [Accounts -> [Cycles -> Balance]],
         NEW a \in Accounts, NEW c \in Cycles, NEW n \in Nat,
         new[a][c].spent = old[a][c].spent + n,
         \A b \in Accounts, d \in Cycles :
           b # a \/ d # c => new[b][d].spent = old[b][d].spent
  PROVE  SpentOver(new) = SpentOver(old) + n
<1> DEFINE f == [d \in Cycles |-> old[a][d].spent]
           g == [d \in Cycles |-> new[a][d].spent]
           F == [b \in Accounts |-> SpentBy(old, b)]
           G == [b \in Accounts |-> SpentBy(new, b)]
<1>1. SpentBy(new, a) = SpentBy(old, a) + n
  <2>1. /\ \A d \in Cycles : f[d] \in Nat
        /\ g[c] \in Nat /\ f[c] \in Nat /\ g[c] = f[c] + n
        /\ \A d \in Cycles \ {c} : g[d] = f[d]
    BY SpentTypes
  <2>2. IsFiniteSet(Cycles) /\ TotalOf(Cycles, f) = SpentBy(old, a)
        /\ TotalOf(Cycles, g) = SpentBy(new, a) /\ SpentBy(old, a) \in Nat
    BY SpentTypes DEF SpentBy
  <2> HIDE DEF f, g
  <2>3. TotalOf(Cycles, g) = TotalOf(Cycles, f) - f[c] + g[c]
    BY <2>1, <2>2, TotalOfChange
  <2> QED
    BY <2>1, <2>2, <2>3
<1>2. ASSUME NEW b \in Accounts, b # a PROVE SpentBy(new, b) = SpentBy(old, b)
  <2>1. \A d \in Cycles : [x \in Cycles |-> new[b][x].spent][d]
                          = [x \in Cycles |-> old[b][x].spent][d]
    BY <1>2
  <2> QED
    BY <2>1, TotalOfEqual DEF SpentBy
<1>3. /\ \A b \in Accounts : F[b] \in Nat
      /\ F[a] \in Nat /\ G[a] \in Nat /\ G[a] = F[a] + n
      /\ \A b \in Accounts \ {a} : G[b] = F[b]
  BY <1>1, <1>2, SpentTypes
<1>4. /\ IsFiniteSet(Accounts) /\ TotalOf(Accounts, F) = SpentOver(old)
      /\ TotalOf(Accounts, G) = SpentOver(new) /\ SpentOver(old) \in Nat
  BY SpentTypes, AccountsAssumption DEF SpentOver
<1> HIDE DEF F, G
<1>5. TotalOf(Accounts, G) = TotalOf(Accounts, F) - F[a] + G[a]
  BY <1>3, <1>4, TotalOfChange
<1> QED
  BY <1>3, <1>4, <1>5

LEMMA SpentStays ==
  ASSUME NEW old, NEW new,
         \A b \in Accounts, d \in Cycles : new[b][d].spent = old[b][d].spent
  PROVE  SpentOver(new) = SpentOver(old)
<1>1. ASSUME NEW b \in Accounts PROVE SpentBy(new, b) = SpentBy(old, b)
  <2>1. \A d \in Cycles : [x \in Cycles |-> new[b][x].spent][d]
                          = [x \in Cycles |-> old[b][x].spent][d]
    OBVIOUS
  <2> QED
    BY <2>1, TotalOfEqual DEF SpentBy
<1>2. \A b \in Accounts : [x \in Accounts |-> SpentBy(new, x)][b]
                          = [x \in Accounts |-> SpentBy(old, x)][b]
  BY <1>1
<1> QED
  BY <1>2, TotalOfEqual DEF SpentOver

(* An entry adds its spent column to the total. *)
LEMMA PostSpends ==
  ASSUME BudgetTypeOK, BudgetTypeOK', NEW a \in Accounts, NEW c \in Cycles,
         NEW e, NEW n \in Nat, e.spent = n, Post(a, c, e)
  PROVE  SpentOver(bal') = SpentOver(bal) + n
<1>1. PICK old \in [Accounts -> [Cycles -> Balance]] : old = bal
  BY DEF BudgetTypeOK
<1>2. PICK new \in [Accounts -> [Cycles -> Balance]] : new = bal'
  BY DEF BudgetTypeOK
<1>3. PICK row : row = NextBalance(old[a][c], e)
  OBVIOUS
<1>4. row.spent = old[a][c].spent + n
  BY <1>3 DEF NextBalance
<1>5. new = [old EXCEPT ![a][c] = row]
  BY <1>1, <1>2, <1>3 DEF Post
<1>6. /\ new[a][c].spent = old[a][c].spent + n
      /\ \A b \in Accounts, d \in Cycles :
           b # a \/ d # c => new[b][d].spent = old[b][d].spent
  BY <1>4, <1>5
<1>7. SpentOver(new) = SpentOver(old) + n
  BY <1>6, SpentGrows
<1> QED
  BY <1>1, <1>2, <1>7

LEMMA ReservingSpendsNothing ==
  ASSUME BudgetInv, BudgetInv', NEW r \in Requests, NEW n \in Amounts, Reserve(r, n)
  PROVE  SpentOver(bal') = SpentOver(bal)
<1>1. BudgetTypeOK /\ BudgetTypeOK' /\ AccountOf[r] \in Accounts
      /\ cycle[AccountOf[r]] \in Cycles /\ SpentOver(bal) \in Nat
  BY AccountsAssumption, SpentTypes DEF BudgetInv, BudgetTypeOK
<1>2. PICK e : e = ReservationEntry(n)
  OBVIOUS
<1>3. e.spent = 0 /\ Post(AccountOf[r], cycle[AccountOf[r]], e)
  BY <1>2 DEF Reserve, ReservationEntry, Entry
<1>4. SpentOver(bal') = SpentOver(bal) + 0
  BY <1>1, <1>3, PostSpends
<1> QED
  BY <1>1, <1>4

LEMMA ReleasingSpendsNothing ==
  ASSUME BudgetInv, BudgetInv', NEW r \in Requests, NEW c \in Cycles, Release(r, c)
  PROVE  SpentOver(bal') = SpentOver(bal)
<1>1. BudgetTypeOK /\ BudgetTypeOK' /\ AccountOf[r] \in Accounts /\ SpentOver(bal) \in Nat
  BY AccountsAssumption, SpentTypes DEF BudgetInv, BudgetTypeOK
<1>2. PICK e : e = ReleaseEntry(rsv[r].remaining)
  OBVIOUS
<1>3. e.spent = 0 /\ Post(AccountOf[r], c, e)
  BY <1>2 DEF Release, ReleaseEntry, Entry
<1>4. SpentOver(bal') = SpentOver(bal) + 0
  BY <1>1, <1>3, PostSpends
<1> QED
  BY <1>1, <1>4

LEMMA SpendingSpends ==
  ASSUME BudgetInv, BudgetInv', NEW r \in Requests, NEW n \in Amounts,
         Spend(r, n) \/ ReserveAndSpend(r, n)
  PROVE  SpentOver(bal') = SpentOver(bal) + n
<1>1. /\ BudgetTypeOK /\ BudgetTypeOK' /\ AccountOf[r] \in Accounts /\ n \in Nat
      /\ cycle[AccountOf[r]] \in Cycles /\ rsv[r].cycle \in Cycles
  BY AccountsAssumption DEF BudgetInv, BudgetTypeOK, Reservation
<1>2. CASE Spend(r, n)
  <2>1. PICK e : e = SpendEntry(r, n)
    OBVIOUS
  <2>2. e.spent = n /\ Post(AccountOf[r], rsv[r].cycle, e)
    BY <1>2, <2>1 DEF Spend, SpendEntry, Entry
  <2> QED
    BY <1>1, <2>2, PostSpends
<1>3. CASE ReserveAndSpend(r, n)
  <2>1. PICK e : e = Entry(0, -n, 0, n, 0)
    OBVIOUS
  <2>2. e.spent = n /\ Post(AccountOf[r], cycle[AccountOf[r]], e)
    BY <1>3, <2>1 DEF ReserveAndSpend, Entry
  <2> QED
    BY <1>1, <2>2, PostSpends
<1> QED
  BY <1>2, <1>3

LEMMA AdjustingSpendsNothing ==
  ASSUME BudgetInv, BudgetInv', NEW a \in Accounts, NEW n \in AdjustAmounts,
         \/ IncreaseBudget(a, n) \/ ReduceBudget(a, n)
         \/ \E b \in Accounts : TransferBudget(a, b, n)
  PROVE  SpentOver(bal') = SpentOver(bal)
<1>1. /\ BudgetTypeOK /\ BudgetTypeOK' /\ bal \in [Accounts -> [Cycles -> Balance]]
      /\ cycle[a] \in Cycles
  BY DEF BudgetInv, BudgetTypeOK
<1>2. SpentOver(bal) \in Nat
  BY SpentTypes DEF BudgetInv, BudgetTypeOK
<1>3. CASE IncreaseBudget(a, n) \/ ReduceBudget(a, n)
  <2>1. PICK e : e \in {AllocationEntry(n), AllocationEntry(-n)} /\ Post(a, cycle[a], e)
    BY <1>3 DEF IncreaseBudget, ReduceBudget
  <2>2. e.spent = 0
    BY <2>1 DEF AllocationEntry, Entry
  <2>3. SpentOver(bal') = SpentOver(bal) + 0
    BY <1>1, <2>1, <2>2, PostSpends
  <2> QED
    BY <1>2, <2>3
<1>4. ASSUME NEW b \in Accounts, TransferBudget(a, b, n)
      PROVE  SpentOver(bal') = SpentOver(bal)
  <2> DEFINE from == NextBalance(bal[a][cycle[a]], AllocationEntry(-n))
             to   == NextBalance(bal[b][cycle[b]], AllocationEntry(n))
  <2>1. n \in Int /\ -n \in Int /\ cycle[b] \in Cycles
    BY AccountsAssumption DEF BudgetInv, BudgetTypeOK
  <2>2. bal[a][cycle[a]] \in Balance /\ bal[b][cycle[b]] \in Balance
    BY <1>1, <2>1
  <2>3. from.spent = bal[a][cycle[a]].spent /\ to.spent = bal[b][cycle[b]].spent
    BY <1>4, <2>1, <2>2, AllocationEntryEffect DEF TransferBudget, ActiveBalance
  <2>4. \A x \in Accounts, c \in Cycles :
          bal'[x][c] = IF x = a /\ c = cycle[a] THEN from
                       ELSE IF x = b /\ c = cycle[b] THEN to ELSE bal[x][c]
    BY <1>1, <1>4 DEF TransferBudget
  <2> HIDE DEF from, to
  <2>5. \A x \in Accounts, c \in Cycles : bal'[x][c].spent = bal[x][c].spent
    BY <2>3, <2>4
  <2> QED
    BY <2>5, SpentStays
<1> QED
  BY <1>3, <1>4

LEMMA RefreshSpendsNothing ==
  ASSUME BudgetInv, NEW a \in Accounts, NEW late \in BOOLEAN, RefreshBudgetPeriod(a, late)
  PROVE  SpentOver(bal') = SpentOver(bal)
<1> DEFINE k      == cycle[a]
           closed == NextBalance(bal[a][k], ClosingEntry(a))
           opened == NextBalance(bal[a][k + 1], OpeningEntry(a))
<1>1. k \in Cycles /\ k + 1 \in Cycles /\ k # k + 1
      /\ bal \in [Accounts -> [Cycles -> Balance]]
  BY AccountsAssumption DEF BudgetInv, BudgetTypeOK, RefreshBudgetPeriod, Cycles
<1>2. bal[a][k].spent \in Nat /\ bal[a][k + 1].spent \in Nat
  BY <1>1, SpentTypes
<1>3. closed.spent = bal[a][k].spent /\ opened.spent = bal[a][k + 1].spent
  BY <1>2 DEF NextBalance, ClosingEntry, OpeningEntry, Entry
<1>4. \A x \in Accounts, c \in Cycles :
        bal'[x][c] = IF x = a /\ c = k THEN closed
                     ELSE IF x = a /\ c = k + 1 THEN opened ELSE bal[x][c]
  BY <1>1 DEF RefreshBudgetPeriod
<1> HIDE DEF k, closed, opened
<1>5. \A x \in Accounts, c \in Cycles : bal'[x][c].spent = bal[x][c].spent
  BY <1>3, <1>4
<1> QED
  BY <1>5, SpentStays

LEMMA ExposureType ==
  ASSUME BudgetInv
  PROVE  CompanyExposure \in Nat
<1> DEFINE f == [a \in Accounts |-> ActiveBalance(a).reserved + ActiveBalance(a).spent]
<1>1. \A a \in Accounts : f[a] \in Nat
  BY DEF BudgetInv, BudgetTypeOK, ActiveBalance, Balance
<1> HIDE DEF f
<1>2. TotalOf(Accounts, f) \in Nat
  BY <1>1, TotalOfType, AccountsAssumption
<1> QED
  BY <1>2 DEF f, CompanyExposure

(* Spending a reservation turns what it reserves in the ACTIVE period into *)
(* at most as much spend there: it adds nothing to the company's exposure. *)
LEMMA SpendingExposesNothing ==
  ASSUME BudgetInv, BudgetInv', NEW r \in Requests, NEW n \in Amounts, Spend(r, n)
  PROVE  CompanyExposure' \in Nat /\ CompanyExposure' <= CompanyExposure
<1> DEFINE a == AccountOf[r]
           f == [b \in Accounts |-> ActiveBalance(b).reserved + ActiveBalance(b).spent]
           g == [b \in Accounts |-> ActiveBalance(b)'.reserved + ActiveBalance(b)'.spent]
<1>1. /\ a \in Accounts /\ cycle[a] \in Cycles /\ n \in Nat
      /\ rsv[r].remaining \in Nat /\ rsv[r].remaining >= n
      /\ rsv[r].cycle = cycle[a] /\ cycle' = cycle
  <2>1. rsv[r].remaining \in Nat /\ AccountOf[r] \in Accounts
        /\ cycle[AccountOf[r]] \in Cycles /\ n \in Nat /\ n > 0
    BY RowFacts, AccountsAssumption
  <2>2. rsv[r].remaining >= n /\ rsv[r].remaining > 0 /\ cycle' = cycle
    BY <2>1 DEF Spend
  <2>3. rsv[r].cycle = cycle[AccountOf[r]]
    BY <2>2 DEF BudgetInv, ClosedPeriodsAreDrained
  <2> QED
    BY <2>1, <2>2, <2>3
<1>2. PICK e : e = SpendEntry(r, n)
  OBVIOUS
<1>3. e.reserved = -rsv[r].remaining /\ e.spent = n /\ Post(a, cycle[a], e)
  BY <1>1, <1>2 DEF Spend, SpendEntry, Entry
<1>4. PICK old \in [Accounts -> [Cycles -> Balance]] : old = bal
  BY DEF BudgetInv, BudgetTypeOK
<1>5. PICK row : row = NextBalance(old[a][cycle[a]], e)
  OBVIOUS
<1>6. /\ row.reserved = old[a][cycle[a]].reserved - rsv[r].remaining
      /\ row.spent = old[a][cycle[a]].spent + n
  <2>1. old[a][cycle[a]].reserved \in Nat /\ old[a][cycle[a]].spent \in Nat
    BY <1>1 DEF Balance
  <2> QED
    BY <1>1, <1>3, <1>5, <2>1 DEF NextBalance
<1>7. bal' = [old EXCEPT ![a][cycle[a]] = row]
  BY <1>3, <1>4, <1>5 DEF Post
<1> HIDE DEF a
<1>8. /\ \A b \in Accounts : f[b] = old[b][cycle[b]].reserved + old[b][cycle[b]].spent
      /\ \A b \in Accounts : g[b] = bal'[b][cycle[b]].reserved + bal'[b][cycle[b]].spent
  BY <1>1, <1>4 DEF ActiveBalance
<1>9. \A b \in Accounts : cycle[b] \in Cycles /\ f[b] \in Nat
                          /\ old[b][cycle[b]].reserved \in Nat
                          /\ old[b][cycle[b]].spent \in Nat
  BY <1>8 DEF BudgetInv, BudgetTypeOK, Balance
<1>10. \A b \in Accounts \ {a} : g[b] = f[b]
  BY <1>1, <1>7, <1>8, <1>9
<1>11. g[a] \in Nat /\ g[a] <= f[a]
  <2>1. bal'[a][cycle[a]] = row
    BY <1>1, <1>7
  <2>2. g[a] = row.reserved + row.spent /\ bal'[a][cycle[a]] \in Balance
    BY <1>1, <1>8, <2>1 DEF BudgetInv, BudgetTypeOK
  <2>3. row.reserved \in Nat /\ row.spent \in Nat
    BY <2>1, <2>2 DEF Balance
  <2> QED
    BY <1>1, <1>6, <1>8, <1>9, <2>2, <2>3
<1>12. CompanyExposure = TotalOf(Accounts, f) /\ CompanyExposure' = TotalOf(Accounts, g)
  BY DEF CompanyExposure
<1>13. CompanyExposure \in Nat
  BY ExposureType
<1> HIDE DEF f, g
<1>14. TotalOf(Accounts, g) = TotalOf(Accounts, f) - f[a] + g[a]
  BY <1>1, <1>9, <1>10, <1>11, TotalOfChange, AccountsAssumption
<1>15. TotalOf(Accounts, g) \in Nat
  <2>1. \A b \in Accounts : g[b] \in Nat
    BY <1>9, <1>10, <1>11
  <2> QED
    BY <2>1, TotalOfType, AccountsAssumption
<1> QED
  BY <1>1, <1>9, <1>11, <1>12, <1>13, <1>14, <1>15
=============================================================================
