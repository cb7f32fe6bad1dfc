------------------------ MODULE AccountSetup_proofs ------------------------
(***************************************************************************)
(* The set-up link for any number of links and visitors.                   *)
(***************************************************************************)
EXTENDS AccountSetup, FiniteSetTheorems, TLAPS

(***************************************************************************)
(* SetupInv is inductive.  That a link under a visitor's hands is the last *)
(* one is known from LastIsCurrent: a replacement retires what it          *)
(* replaces.  That a failed delivery never sets up the account rests on    *)
(* statuses that do not change once a delivery has an outcome.             *)
(***************************************************************************)
IssuedInOrder == \E k \in 0..MaxLinks : Issued = 1..k

LastIsCurrent == \A i \in Current, j \in Issued : j <= i

ConsumedLinks ==
  \A i \in Links : link[i].consumed =>
    link[i].status = "SENT" /\ ~link[i].revoked /\ \A j \in Issued : j <= i

AccountFollowsLinks ==
  /\ account = "NONE" => Issued = {}
  /\ account = "ACTIVE" => SetUpCompleted
  /\ account = "INVITED" => ~SetUpCompleted

Failures == {"FAILED", "DISABLED", "UNCERTAIN", "CANCELLED"}

TruthOfAnswers ==
  \A i \in Links :
    /\ told[i] = "sent" => link[i].status = "SENT" /\ i \in mailed
    /\ told[i] \in {"failed", "disabled"} => link[i].status \in Failures
    /\ courier[i] = "sent" => i \in mailed

LinksInv == IssuedInOrder /\ LastIsCurrent /\ ConsumedLinks

SetupInv == SetupTypeOK /\ LinksInv /\ AccountFollowsLinks /\ TruthOfAnswers

LEMMA InvariantImplies == SetupInv => SetUpByTheLastLink /\ DeliveryAnswersAreTrue
BY DEF SetupInv, LinksInv, ConsumedLinks, AccountFollowsLinks, TruthOfAnswers, Failures,
       SetUpByTheLastLink, DeliveryAnswersAreTrue

(***************************************************************************)
(* What every action except the issue and the use of a link does to rows.  *)
(***************************************************************************)
RowEvolves(old, new) ==
  /\ new.consumed = old.consumed
  /\ old.revoked => new.revoked
  /\ old.consumed => new.revoked = old.revoked
  /\ old.status = "NONE" <=> new.status = "NONE"
  /\ old.status \notin Undelivered => new.status = old.status

RowsEvolve ==
  /\ link' \in [Links -> Rows]
  /\ \A i \in Links : RowEvolves(link[i], link'[i])

LEMMA EvolvedRows ==
  ASSUME RowsEvolve
  PROVE  /\ Issued' = Issued
         /\ Current' \subseteq Current
         /\ SetUpCompleted' = SetUpCompleted
<1>1. Issued' = Issued
  BY DEF RowsEvolve, RowEvolves, Issued
<1>2. Current' \subseteq Current
  BY <1>1 DEF RowsEvolve, RowEvolves, Current, Issued
<1>3. SetUpCompleted' = SetUpCompleted
  BY DEF RowsEvolve, RowEvolves, SetUpCompleted
<1> QED
  BY <1>1, <1>2, <1>3

LEMMA EvolvedLinks ==
  ASSUME LinksInv, RowsEvolve
  PROVE  LinksInv'
<1>1. Issued' = Issued /\ Current' \subseteq Current
  BY EvolvedRows
<1>2. IssuedInOrder' /\ LastIsCurrent'
  BY <1>1 DEF LinksInv, IssuedInOrder, LastIsCurrent
<1>3. ConsumedLinks'
  BY <1>1 DEF LinksInv, ConsumedLinks, RowsEvolve, RowEvolves, Undelivered
<1> QED
  BY <1>2, <1>3 DEF LinksInv

(* Revoking keeps a row in its type, and an unused row evolves. *)
LEMMA RetiredRow ==
  ASSUME NEW old \in Rows
  PROVE  /\ Retired(old) \in Rows /\ Retired(old).revoked
         /\ ~old.consumed => RowEvolves(old, Retired(old))
<1> DEFINE status == IF old.status \in Undelivered THEN "CANCELLED" ELSE old.status
           new    == [old EXCEPT !.revoked = TRUE, !.status = status]
<1>1. /\ status \in Statuses /\ (old.status = "NONE" <=> status = "NONE")
      /\ old.status \notin Undelivered => status = old.status
  BY DEF Rows, Undelivered, Statuses
<1>2. Retired(old) = new
  BY DEF Retired, Rows
<1> HIDE DEF status
<1>3. /\ new \in Rows /\ new.revoked /\ new.consumed = old.consumed
      /\ new.status = status
  BY <1>1 DEF Rows
<1> HIDE DEF new
<1> QED
  BY <1>1, <1>2, <1>3 DEF RowEvolves

LEMMA RetiredRows ==
  ASSUME link \in [Links -> Rows], NEW S \in SUBSET Current, link' = RetireAll(S)
  PROVE  RowsEvolve
<1>1. \A i \in Links : Retired(link[i]) \in Rows
  BY RetiredRow
<1>2. link' \in [Links -> Rows]
  BY <1>1 DEF RetireAll
<1>3. \A i \in Links : RowEvolves(link[i], link'[i])
  <2> SUFFICES ASSUME NEW i \in Links PROVE RowEvolves(link[i], link'[i])
    OBVIOUS
  <2>1. i \in S => ~link[i].consumed
    BY DEF Current
  <2>2. link'[i] = IF i \in S THEN Retired(link[i]) ELSE link[i]
    BY DEF RetireAll
  <2>3. RowEvolves(link[i], link[i])
    BY DEF RowEvolves
  <2> QED
    BY <2>1, <2>2, <2>3, RetiredRow
<1> QED
  BY <1>2, <1>3 DEF RowsEvolve

(* The types without the order of the links, which IssuedInOrder implies.  *)
Typed ==
  /\ account \in {"NONE", "INVITED", "ACTIVE", "SUSPENDED"}
  /\ link    \in [Links -> Rows]
  /\ courier \in [Links -> Couriers]
  /\ wire \subseteq Links /\ mailed \subseteq Links
  /\ told \in [Links -> {"nothing", "sent", "disabled", "failed", "unconfirmed"}]
  /\ form \in [Visitors -> Links \cup {0}]

LEMMA InOrder == IssuedInOrder => \A i \in Issued : \A j \in 1..i : j \in Issued
<1> SUFFICES ASSUME IssuedInOrder, NEW i \in Issued, NEW j \in 1..i
             PROVE  j \in Issued
  OBVIOUS
<1>1. PICK k \in 0..MaxLinks : Issued = 1..k
  BY DEF IssuedInOrder
<1>2. i \in 1..k /\ k \in Nat
  BY <1>1, MaxLinksAssumption
<1>3. j \in 1..k
  BY <1>2
<1> QED
  BY <1>1, <1>3

LEMMA TypedInOrder == Typed /\ IssuedInOrder <=> SetupTypeOK /\ IssuedInOrder
BY InOrder DEF Typed, SetupTypeOK

Inv == Typed /\ LinksInv /\ AccountFollowsLinks /\ TruthOfAnswers

LEMMA InvIsSetupInv == Inv <=> SetupInv
BY TypedInOrder DEF Inv, SetupInv, LinksInv

(***************************************************************************)
(* Steps that issue no link and use none.                                  *)
(***************************************************************************)
LEMMA QuietStep ==
  ASSUME Inv, Typed', RowsEvolve, account' = account, TruthOfAnswers'
  PROVE  Inv'
<1>1. LinksInv'
  BY EvolvedLinks DEF Inv
<1>2. AccountFollowsLinks'
  BY EvolvedRows DEF Inv, AccountFollowsLinks
<1> QED
  BY <1>1, <1>2 DEF Inv

LEMMA SameRows == ASSUME Typed, link' = link PROVE RowsEvolve
BY DEF Typed, RowsEvolve, RowEvolves

(* A delivery whose row stays as it is. *)
LEMMA CourierStep ==
  ASSUME Inv, NEW i \in Links, NEW place \in Couriers, Move(i, place),
         UNCHANGED <<account, link, told, form>>,
         mailed \subseteq mailed', mailed' \subseteq Links, wire' \subseteq Links,
         place = "sent" => i \in mailed'
  PROVE  Inv'
<1>1. Typed'
  BY DEF Inv, Typed, Move
<1>2. TruthOfAnswers'
  BY DEF Inv, Typed, TruthOfAnswers, Move
<1> QED
  BY <1>1, <1>2, SameRows, QuietStep DEF Inv

LEMMA ClaimStep ==
  ASSUME Inv, NEW i \in Links, Claim(i) \/ ClaimRefused(i)
  PROVE  Inv'
<1>1. PICK place \in {"waiting", "failed"} : Move(i, place)
  BY DEF Claim, ClaimRefused
<1>2. /\ \/ link' = link
         \/ link[i].status = "PENDING" /\ link' = [link EXCEPT ![i].status = "SENDING"]
      /\ UNCHANGED <<account, mailed, told, form>> /\ wire' \subseteq Links
  BY DEF Claim, ClaimRefused, MayClaim, Inv, Typed
<1>3. RowsEvolve
  BY <1>2, SMTT(30) DEF Inv, Typed, RowsEvolve, RowEvolves, Rows, Undelivered, Statuses
<1>4. courier' \in [Links -> Couriers] /\ form' = form
  <2>1. courier \in [Links -> Couriers] /\ place \in Couriers
    <3>1. courier \in [Links -> Couriers]
      BY DEF Inv, Typed
    <3>2. place \in Couriers
      BY DEF Couriers, Outcomes
    <3> QED
      BY <3>1, <3>2
  <2> QED
    BY <1>1, <1>2, <2>1 DEF Move
<1>5. Typed'
  BY <1>2, <1>3, <1>4 DEF Inv, Typed, RowsEvolve
<1>6. TruthOfAnswers'
  BY <1>1, <1>2, <1>3 DEF Inv, Typed, TruthOfAnswers, Move, RowsEvolve, RowEvolves,
                          Undelivered, Failures
<1> QED
  BY <1>2, <1>3, <1>5, <1>6, QuietStep

(* The row takes its outcome only if it has none yet. *)
LEMMA RecordedRow ==
  ASSUME Typed, NEW i \in Links, courier[i] \in Outcomes, link' = Recorded(i)
  PROVE  /\ RowsEvolve
         /\ link[i].status \in Undelivered =>
              link'[i].status \in IF courier[i] = "sent" THEN {"SENT"} ELSE Failures
<1> DEFINE status == StatusFor(courier[i], link[i].status)
<1>1. status \in IF courier[i] = "sent" THEN {"SENT"} ELSE Failures
  BY DEF StatusFor, Outcomes, Failures
<1>2. status \in Statuses /\ status # "NONE"
  BY <1>1 DEF Statuses, Failures
<1> HIDE DEF status
<1>3. CASE link[i].status \in Undelivered
  <2>1. link' = [link EXCEPT ![i].status = status]
    BY <1>3 DEF Recorded, Typed, status
  <2>2. RowsEvolve
    BY <1>2, <1>3, <2>1 DEF Typed, RowsEvolve, RowEvolves, Rows, Undelivered
  <2> QED
    BY <1>1, <2>1, <2>2 DEF Typed, Rows
<1>4. CASE link[i].status \notin Undelivered
  BY <1>4, SameRows DEF Recorded
<1> QED
  BY <1>3, <1>4

LEMMA RecordStep ==
  ASSUME Inv, NEW i \in Links, RecordDelivery(i) \/ RecordingFails(i)
  PROVE  Inv'
<1>1. /\ courier[i] \in Outcomes /\ Move(i, "end")
      /\ UNCHANGED <<account, wire, mailed, form>>
      /\ link' = link \/ link' = Recorded(i)
  BY DEF RecordDelivery, RecordingFails
<1>2. RowsEvolve
  BY <1>1, RecordedRow, SameRows DEF Inv
<1>3. PICK answer \in {"sent", "disabled", "failed", "unconfirmed"} :
        /\ told' = [told EXCEPT ![i] = answer]
        /\ answer # "unconfirmed" =>
             /\ link[i].status \in Undelivered /\ link' = Recorded(i)
             /\ answer = AnswerFor(courier[i])
  BY <1>1 DEF RecordDelivery, RecordingFails, AnswerFor, Outcomes
<1>4. Typed'
  BY <1>1, <1>2, <1>3 DEF Inv, Typed, Move, RowsEvolve, Couriers
<1>5. answer = "sent" => link'[i].status = "SENT" /\ i \in mailed
  BY <1>1, <1>3, RecordedRow DEF Inv, AnswerFor, TruthOfAnswers
<1>6. answer \in {"failed", "disabled"} => link'[i].status \in Failures
  BY <1>1, <1>3, RecordedRow DEF Inv, AnswerFor, TruthOfAnswers
<1>7. TruthOfAnswers'
  BY <1>1, <1>2, <1>3, <1>5, <1>6
  DEF Inv, Typed, TruthOfAnswers, Move, RowsEvolve, RowEvolves, Undelivered, Failures
<1> QED
  BY <1>1, <1>2, <1>4, <1>7, QuietStep

(* The clock. *)
LEMMA ClockStep ==
  ASSUME Inv, NEW i \in Links, CoolDown(i) \/ Expire(i)
  PROVE  Inv'
<1>1. /\ UNCHANGED <<account, courier, wire, mailed, told, form>>
      /\ \/ link' = [link EXCEPT ![i].recent = FALSE]
         \/ link' = [link EXCEPT ![i].expired = TRUE, ![i].recent = FALSE]
  BY DEF CoolDown, Expire
<1>2. RowsEvolve
  <2>1. link[i] \in Rows
    BY DEF Inv, Typed
  <2>2. PICK row \in Rows : link' = [link EXCEPT ![i] = row] /\ RowEvolves(link[i], row)
    <3>1. CASE link' = [link EXCEPT ![i].recent = FALSE]
      <4> DEFINE row == [link[i] EXCEPT !.recent = FALSE]
      <4>1. row \in Rows /\ RowEvolves(link[i], row)
        BY <2>1 DEF Rows, RowEvolves
      <4> QED
        BY <3>1, <4>1
    <3>2. CASE link' = [link EXCEPT ![i].expired = TRUE, ![i].recent = FALSE]
      <4> DEFINE row == [link[i] EXCEPT !.expired = TRUE, !.recent = FALSE]
      <4>1. row \in Rows /\ RowEvolves(link[i], row)
        BY <2>1 DEF Rows, RowEvolves
      <4>2. link' = [link EXCEPT ![i] = row]
        BY <2>1, <3>2 DEF Inv, Typed, Rows
      <4> QED
        BY <4>1, <4>2
    <3> QED
      BY <1>1, <3>1, <3>2
  <2> QED
    BY <2>1, <2>2 DEF Inv, Typed, RowsEvolve, RowEvolves
<1>3. Typed'
  BY <1>1, <1>2 DEF Inv, Typed, RowsEvolve
<1>4. TruthOfAnswers'
  BY <1>1, <1>2 DEF Inv, Typed, TruthOfAnswers, RowsEvolve, RowEvolves, Undelivered, Failures
<1> QED
  BY <1>1, <1>2, <1>3, <1>4, QuietStep

(* Visitors and restarts. *)
LEMMA MemoryStep ==
  ASSUME Inv, (\E v \in Visitors, i \in Links : Inspect(v, i)) \/ Crash
  PROVE  Inv'
<1>1. /\ UNCHANGED <<account, link, wire, mailed, told>>
      /\ courier' = courier \/ courier' = [i \in Links |-> IF courier[i] = "none" THEN "none" ELSE "end"]
      /\ form' \in [Visitors -> Links \cup {0}]
  BY DEF Inspect, Crash, Inv, Typed
<1>2. Typed'
  BY <1>1 DEF Inv, Typed, Couriers
<1>3. TruthOfAnswers'
  BY <1>1 DEF Inv, TruthOfAnswers
<1> QED
  BY <1>1, <1>2, <1>3, SameRows, QuietStep DEF Inv

(***************************************************************************)
(* The account.                                                            *)
(***************************************************************************)
LEMMA AccountStep ==
  ASSUME Inv, Deactivate \/ Reactivate
  PROVE  Inv'
<1>1. /\ UNCHANGED <<courier, wire, mailed, told, form>>
      /\ link' = RetireAll(Current) \/ link' = link
      /\ account' \in {"SUSPENDED", "ACTIVE", "INVITED"}
  BY DEF Deactivate, Reactivate
<1>2. RowsEvolve
  BY <1>1, RetiredRows, SameRows DEF Inv, Typed
<1>3. Typed'
  BY <1>1, <1>2 DEF Inv, Typed, RowsEvolve
<1>4. LinksInv'
  BY <1>2, EvolvedLinks DEF Inv
<1>5. AccountFollowsLinks'
  BY <1>1, <1>2, EvolvedRows DEF AccountFollowsLinks, Deactivate, Reactivate
<1>6. TruthOfAnswers'
  BY <1>1, <1>2 DEF Inv, Typed, TruthOfAnswers, RowsEvolve, RowEvolves, Undelivered, Failures
<1> QED
  BY <1>3, <1>4, <1>5, <1>6 DEF Inv

(***************************************************************************)
(* Issuing a link: it becomes the only current one.                        *)
(***************************************************************************)
LEMMA IssueStep ==
  ASSUME Inv, NEW n \in Links, Issued = 1..(n - 1), ~SetUpCompleted,
         link' = [RetireAll(Current) EXCEPT ![n] = NewLink],
         courier' = [courier EXCEPT ![n] = "start"],
         account' = "INVITED", UNCHANGED <<wire, mailed, told, form>>
  PROVE  Inv'
<1> USE MaxLinksAssumption DEF Links
<1>1. \A i \in Links \ {n} :
        /\ link'[i] = IF i \in Current THEN Retired(link[i]) ELSE link[i]
        /\ link'[i] \in Rows /\ RowEvolves(link[i], link'[i])
        /\ i \in Current => link'[i].revoked
  <2> SUFFICES ASSUME NEW i \in Links \ {n}
               PROVE  /\ link'[i] = IF i \in Current THEN Retired(link[i]) ELSE link[i]
                      /\ link'[i] \in Rows /\ RowEvolves(link[i], link'[i])
                      /\ i \in Current => link'[i].revoked
    OBVIOUS
  <2>1. i \in Links /\ link[i] \in Rows
    BY DEF Inv, Typed
  <2>2. link'[i] = IF i \in Current THEN Retired(link[i]) ELSE link[i]
    BY DEF RetireAll
  <2>3. /\ Retired(link[i]) \in Rows /\ Retired(link[i]).revoked
        /\ i \in Current => RowEvolves(link[i], Retired(link[i]))
    BY <2>1, RetiredRow DEF Current
  <2>4. RowEvolves(link[i], link[i])
    BY DEF RowEvolves
  <2> QED
    BY <2>1, <2>2, <2>3, <2>4
<1>2. link'[n] = NewLink /\ NewLink \in Rows
  BY DEF NewLink, NoLink, Rows, Statuses, RetireAll
<1>3. link' \in [Links -> Rows]
  <2>1. DOMAIN link' = Links /\ link' = [i \in Links |-> link'[i]]
    BY DEF RetireAll
  <2> QED
    BY <1>1, <1>2, <2>1
<1>4. Typed'
  <2>1. courier' \in [Links -> Couriers]
    <3>1. courier \in [Links -> Couriers] /\ "start" \in Couriers
      BY DEF Inv, Typed, Couriers
    <3> QED
      BY <3>1
  <2> QED
    BY <1>3, <2>1 DEF Inv, Typed
<1>5. Issued' = 1..n
  <2>1. \A i \in Links \ {n} : i \in Issued' <=> i \in Issued
    BY <1>1 DEF Issued, RowEvolves
  <2>2. n \in Issued'
    <3>1. NewLink.status = "PENDING"
      BY DEF NewLink, NoLink
    <3> QED
      BY <1>2, <3>1 DEF Issued
  <2>3. Issued' = Issued \cup {n}
    BY <2>1, <2>2 DEF Issued
  <2> QED
    BY <2>3
<1>6. IssuedInOrder'
  BY <1>5 DEF IssuedInOrder
<1>7. Current' \subseteq {n}
  <2> SUFFICES ASSUME NEW i \in Links \ {n}, i \in Current' PROVE FALSE
    BY DEF Current, Issued
  <2>1. i \in Issued
    BY <1>1 DEF Current, Issued, RowEvolves
  <2>2. ~link[i].consumed /\ ~link[i].revoked
    BY <1>1 DEF Current, RowEvolves
  <2>3. i \in Current
    BY <2>1, <2>2 DEF Current
  <2> QED
    BY <1>1, <2>3 DEF Current
<1>8. LastIsCurrent'
  BY <1>5, <1>7 DEF LastIsCurrent
<1>9. \A i \in Links : ~link'[i].consumed
  <2>1. ~link'[n].consumed
    BY <1>2 DEF NewLink, NoLink
  <2>2. \A i \in Links \ {n} : ~link'[i].consumed
    BY <1>1 DEF SetUpCompleted, RowEvolves
  <2> QED
    BY <2>1, <2>2
<1>10. ConsumedLinks' /\ AccountFollowsLinks'
  BY <1>9 DEF ConsumedLinks, AccountFollowsLinks, SetUpCompleted
<1>11. link[n].status = "NONE"
  BY DEF Issued
<1>12. TruthOfAnswers'
  <2>1. told' = told /\ mailed' = mailed /\ \A i \in Links : courier'[i] = "sent" => courier[i] = "sent"
    BY DEF Inv, Typed
  <2>2. \A i \in Links \ {n} :
          link[i].status \in Failures \cup {"SENT"} => link'[i].status = link[i].status
    BY <1>1 DEF RowEvolves, Undelivered, Failures
  <2>3. told[n] \notin {"sent", "failed", "disabled"}
    BY <1>11 DEF Inv, TruthOfAnswers, Failures
  <2> QED
    BY <2>1, <2>2, <2>3 DEF Inv, TruthOfAnswers
<1> QED
  BY <1>4, <1>6, <1>8, <1>10, <1>12 DEF Inv, LinksInv

LEMMA CreateStep ==
  ASSUME Inv, CreateInvitedUser
  PROVE  Inv'
<1> USE MaxLinksAssumption
<1>1. Issued = {} /\ Current = {}
  BY DEF Inv, AccountFollowsLinks, CreateInvitedUser, Current
<1>2. ~SetUpCompleted
  BY <1>1 DEF Inv, LinksInv, ConsumedLinks, SetUpCompleted, Issued
<1>3. RetireAll(Current) = link
  BY <1>1 DEF RetireAll, Inv, Typed
<1>4. 1 \in Links /\ Issued = 1..(1 - 1)
  BY <1>1 DEF Links
<1> QED
  BY <1>2, <1>3, <1>4, IssueStep DEF CreateInvitedUser

LEMMA ResendStep ==
  ASSUME Inv, ResendInvitation
  PROVE  Inv'
<1> USE MaxLinksAssumption
<1>1. PICK k \in 0..MaxLinks : Issued = 1..k
  BY DEF Inv, LinksInv, IssuedInOrder
<1>2. Cardinality(Issued) = k
  BY <1>1, FS_Interval
<1>3. k + 1 \in Links /\ Issued = 1..((k + 1) - 1)
  BY <1>1, <1>2 DEF ResendInvitation, Links
<1>4. ~SetUpCompleted
  BY DEF Inv, AccountFollowsLinks, ResendInvitation
<1>5. /\ link' = [RetireAll(Current) EXCEPT ![k + 1] = NewLink]
      /\ courier' = [courier EXCEPT ![k + 1] = "start"]
      /\ account' = "INVITED" /\ UNCHANGED <<wire, mailed, told, form>>
  BY <1>2 DEF ResendInvitation
<1> QED
  BY <1>3, <1>4, <1>5, IssueStep

(***************************************************************************)
(* Using a link: no other one is current, so nothing else changes.         *)
(***************************************************************************)
LEMMA CompleteStep ==
  ASSUME Inv, NEW v \in Visitors, Complete(v)
  PROVE  Inv'
<1> DEFINE i == form[v]
<1>1. i \in Links /\ form' \in [Visitors -> Links \cup {0}]
      /\ UNCHANGED <<courier, wire, mailed, told>>
  BY DEF Complete, Inv, Typed
<1>2. CASE ~StillEligible(i)
  <2>1. UNCHANGED <<account, link>>
    BY <1>2 DEF Complete
  <2>2. Typed' /\ TruthOfAnswers'
    BY <1>1, <2>1 DEF Inv, Typed, TruthOfAnswers
  <2> QED
    BY <2>1, <2>2, SameRows, QuietStep DEF Inv
<1>3. CASE StillEligible(i)
  <2>1. /\ link[i].status = "SENT" /\ ~link[i].consumed /\ ~link[i].revoked
        /\ account' = "ACTIVE"
        /\ link' = [RetireAll(Current \ {i}) EXCEPT ![i].consumed = TRUE]
    BY <1>3 DEF Complete, StillEligible, Eligible
  <2>2. i \in Issued /\ i \in Current
    BY <1>1, <2>1 DEF Current, Issued
  <2>3. \A j \in Issued : j <= i
    BY <2>2 DEF Inv, LinksInv, LastIsCurrent
  <2>4. Current \ {i} = {}
    BY <2>2, <2>3, MaxLinksAssumption DEF Inv, LinksInv, LastIsCurrent, Current, Issued, Links
  <2>5. link' = [link EXCEPT ![i].consumed = TRUE]
    <3>1. RetireAll(Current \ {i}) = link
      BY <2>4 DEF RetireAll, Inv, Typed
    <3> QED
      BY <2>1, <3>1
  <2>6. /\ \A j \in Links \ {i} : link'[j] = link[j]
        /\ link'[i] = [link[i] EXCEPT !.consumed = TRUE]
        /\ link' \in [Links -> Rows]
    <3>1. link \in [Links -> Rows] /\ link[i] \in Rows
      BY <1>1 DEF Inv, Typed
    <3>2. [link[i] EXCEPT !.consumed = TRUE] \in Rows
      BY <3>1 DEF Rows
    <3> QED
      BY <1>1, <2>5, <3>1, <3>2
  <2>7. /\ link'[i].status = link[i].status /\ link'[i].revoked = link[i].revoked
        /\ link'[i].consumed
    BY <1>1, <2>6 DEF Inv, Typed, Rows
  <2> HIDE DEF i
  <2>8. Typed'
    BY <1>1, <2>1, <2>6 DEF Inv, Typed
  <2>9. Issued' = Issued /\ Current' \subseteq Current
    <3>1. \A j \in Links : link'[j].status = link[j].status
      BY <2>6, <2>7
    <3>2. \A j \in Links : ~link'[j].consumed /\ ~link'[j].revoked
            => ~link[j].consumed /\ ~link[j].revoked
      BY <2>6, <2>7
    <3>3. Issued' = Issued
      BY <3>1 DEF Issued
    <3> QED
      BY <3>2, <3>3 DEF Current, Issued
  <2>10. IssuedInOrder' /\ LastIsCurrent'
    BY <2>9 DEF Inv, LinksInv, IssuedInOrder, LastIsCurrent
  <2>11. ConsumedLinks'
    BY <2>1, <2>3, <2>6, <2>7, <2>9 DEF Inv, LinksInv, ConsumedLinks
  <2>12. AccountFollowsLinks'
    BY <1>1, <2>1, <2>7 DEF AccountFollowsLinks, SetUpCompleted
  <2>13. TruthOfAnswers'
    <3>1. \A j \in Links : link'[j].status = link[j].status
      BY <2>6, <2>7
    <3> QED
      BY <1>1, <3>1 DEF Inv, TruthOfAnswers
  <2> QED
    BY <2>8, <2>10, <2>11, <2>12, <2>13 DEF Inv, LinksInv
<1> QED
  BY <1>2, <1>3

(***************************************************************************)
(* The specification.                                                      *)
(***************************************************************************)
LEMMA InitInv == Init => Inv
<1> SUFFICES ASSUME Init PROVE Inv
  OBVIOUS
<1>1. Issued = {}
  BY DEF Init, Issued, NoLink
<1>2. Typed
  BY DEF Init, Typed, NoLink, Rows, Statuses, Couriers
<1>3. LinksInv
  <2>1. IssuedInOrder
    <3>1. 0 \in 0..MaxLinks /\ Issued = 1..0
      BY <1>1, MaxLinksAssumption
    <3> QED
      BY <3>1 DEF IssuedInOrder
  <2>2. LastIsCurrent /\ ConsumedLinks
    BY <1>1 DEF Init, LastIsCurrent, ConsumedLinks, NoLink
  <2> QED
    BY <2>1, <2>2 DEF LinksInv
<1>4. AccountFollowsLinks /\ TruthOfAnswers
  BY <1>1 DEF Init, AccountFollowsLinks, TruthOfAnswers
<1> QED
  BY <1>2, <1>3, <1>4 DEF Inv

LEMMA NextInv == Inv /\ [Next]_vars => Inv'
<1> SUFFICES ASSUME Inv, [Next]_vars PROVE Inv'
  OBVIOUS
<1>1. CASE CreateInvitedUser \/ ResendInvitation
  BY <1>1, CreateStep, ResendStep
<1>2. CASE Deactivate \/ Reactivate
  BY <1>2, AccountStep
<1>3. CASE (\E v \in Visitors, i \in Links : Inspect(v, i)) \/ Crash
  BY <1>3, MemoryStep
<1>4. CASE \E v \in Visitors : Complete(v)
  BY <1>4, CompleteStep
<1>5. ASSUME NEW i \in Links, Claim(i) \/ ClaimRefused(i) PROVE Inv'
  BY <1>5, ClaimStep
<1>6. ASSUME NEW i \in Links, RecordDelivery(i) \/ RecordingFails(i) PROVE Inv'
  BY <1>6, RecordStep
<1>7. ASSUME NEW i \in Links, CoolDown(i) \/ Expire(i) PROVE Inv'
  BY <1>7, ClockStep
<1>8. ASSUME NEW i \in Links, DeliveryDisabled(i) \/ RequestTimesOut(i) PROVE Inv'
  <2>1. PICK place \in {"disabled", "uncertain"} : Move(i, place)
    BY <1>8 DEF DeliveryDisabled, RequestTimesOut
  <2>2. UNCHANGED <<account, link, wire, mailed, told, form>>
    BY <1>8 DEF DeliveryDisabled, RequestTimesOut
  <2>3. place \in Couriers /\ mailed \subseteq Links /\ wire \subseteq Links
    BY DEF Couriers, Outcomes, Inv, Typed
  <2> QED
    BY <2>1, <2>2, <2>3, CourierStep
<1>9. ASSUME NEW i \in Links, NEW answer \in {"sent", "failed", "uncertain", "lost"},
             NEW b \in BOOLEAN, SenderHandles(i, answer, b)
      PROVE  Inv'
  <2>1. /\ UNCHANGED <<account, link, told, form>>
        /\ mailed \subseteq mailed' /\ mailed' \subseteq Links /\ wire' \subseteq Links
        /\ answer = "sent" => i \in mailed'
    BY <1>9 DEF SenderHandles, Inv, Typed
  <2>2. CASE courier[i] = "waiting" /\ answer # "lost"
    <3>1. Move(i, answer) /\ answer \in Couriers
      BY <1>9, <2>2 DEF SenderHandles, Couriers, Outcomes
    <3> QED
      BY <2>1, <3>1, CourierStep
  <2>3. CASE ~(courier[i] = "waiting" /\ answer # "lost")
    <3>1. courier' = courier
      BY <1>9, <2>3 DEF SenderHandles
    <3>2. Typed' /\ TruthOfAnswers'
      BY <2>1, <3>1 DEF Inv, Typed, TruthOfAnswers
    <3> QED
      BY <2>1, <3>2, SameRows, QuietStep DEF Inv
  <2> QED
    BY <2>2, <2>3
<1>10. CASE UNCHANGED vars
  <2>1. Typed' /\ TruthOfAnswers' /\ account' = account /\ link' = link
    BY <1>10 DEF vars, Inv, Typed, TruthOfAnswers
  <2> QED
    BY <2>1, SameRows, QuietStep DEF Inv
<1> QED
  BY <1>1, <1>2, <1>3, <1>4, <1>5, <1>6, <1>7, <1>8, <1>9, <1>10 DEF Next

(* The invariant holds in every reachable state. *)
THEOREM SpecInv == Spec => []SetupInv
<1>1. Spec => []Inv
  BY InitInv, NextInv, PTL DEF Spec
<1>2. Inv => SetupInv
  BY InvIsSetupInv
<1> QED
  BY <1>1, <1>2, PTL

(* Every variable of the set-up keeps its type.                            *)
THEOREM SetupTypeCorrect == Spec => []SetupTypeOK
<1>1. SetupInv => SetupTypeOK
  BY DEF SetupInv
<1> QED
  BY <1>1, SpecInv, PTL

(* However many links were issued and visitors hold one, the account is    *)
(* set up once, by the last link, and never by a revoked one.              *)
THEOREM LastLinkSetsUp == Spec => []SetUpByTheLastLink
<1>1. SetupInv => SetUpByTheLastLink
  BY InvariantImplies
<1> QED
  BY <1>1, SpecInv, PTL

(* No lost answer, late message or restart makes an answer untrue.         *)
THEOREM AnswersStayTrue == Spec => []DeliveryAnswersAreTrue
<1>1. SetupInv => DeliveryAnswersAreTrue
  BY InvariantImplies
<1> QED
  BY <1>1, SpecInv, PTL
=============================================================================
