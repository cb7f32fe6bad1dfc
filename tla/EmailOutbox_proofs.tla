------------------------- MODULE EmailOutbox_proofs -------------------------
(***************************************************************************)
(* The outbox for any number of deliveries and senders, any number of      *)
(* attempts, crashes, stalls and operator commands.                        *)
(***************************************************************************)
EXTENDS EmailOutbox, TLAPS

(***************************************************************************)
(* OutboxInv is inductive.  No message is submitted twice because a        *)
(* PENDING row has no sender at work on it and was never accepted; that    *)
(* needs Exclusive, since a lease that ran out under a sender that only    *)
(* stalled leaves this sender at work.                                     *)
(***************************************************************************)
Working(s) == sender[s].at # "idle"

Exclusive ==
  \A s, t \in Senders : Working(s) /\ Working(t) /\ sender[s].job = sender[t].job => s = t

SenderOK(s) ==
  /\ Working(s) => sender[s].job \in Deliveries /\ row[sender[s].job].status # "PENDING"
  /\ sender[s].at = "sending" => accepted[sender[s].job] = 0
  /\ sender[s].at = "answered" =>
       /\ sender[s].outcome \in Outcomes
       /\ sender[s].outcome = "sent" => accepted[sender[s].job] = 1
       /\ sender[s].outcome \in {"retry", "failed", "paused"} => accepted[sender[s].job] = 0

RowOK(d) ==
  /\ row[d].status = "PENDING" => accepted[d] = 0
  /\ row[d].status = "SENT" => accepted[d] = 1
  /\ row[d].status \in Final => ~row[d].bearer

EnquiryOK(d) ==
  /\ row[d].status \in {"PENDING", "SENDING"} => enquiry[d] = "RECEIVED"
  /\ row[d].status = "SENT" <=> enquiry[d] = "NOTIFIED"
  /\ row[d].status = "UNCERTAIN" /\ row[d].leaseExpired => enquiry[d] = "NOTIFICATION_UNCERTAIN"

RowsOK == (\A d \in Deliveries : RowOK(d)) /\ (\A d \in Contacts : EnquiryOK(d))

OutboxInv ==
  /\ OutboxTypeOK
  /\ SubmittedAtMostOnce
  /\ Exclusive
  /\ \A s \in Senders : SenderOK(s)
  /\ RowsOK

LEMMA InvariantImplies == OutboxInv => SubmittedAtMostOnce /\ SentMeansAccepted /\ BearerErased
BY DEF OutboxInv, RowsOK, RowOK, EnquiryOK, SentMeansAccepted, BearerErased, Deliveries

(***************************************************************************)
(* Types.  Each transition of a row yields a row.                          *)
(***************************************************************************)
LEMMA RowTypes ==
  ASSUME NEW r \in OutboxRow
  PROVE  /\ \A status \in Final : Ended(r, status) \in OutboxRow
         /\ \A available \in {"NOW", "LATER", "HELD"} : Requeued(r, available) \in OutboxRow
         /\ LeaseRunOut(r) \in OutboxRow
<1> USE DEF OutboxRow, Statuses, Final
<1>1. \A status \in Final : Ended(r, status) \in OutboxRow
  BY DEF Ended
<1>2. \A available \in {"NOW", "LATER", "HELD"} : Requeued(r, available) \in OutboxRow
  BY DEF Requeued
<1>3. LeaseRunOut(r) \in OutboxRow
  BY DEF LeaseRunOut, Ended
<1> QED
  BY <1>1, <1>2, <1>3

(* What the transitions do to the columns the invariant speaks of.         *)
LEMMA RowEffects ==
  ASSUME NEW r \in OutboxRow
  PROVE  /\ \A status \in Final :
              /\ Ended(r, status).status = status /\ ~Ended(r, status).bearer
              /\ Ended(r, status).leaseExpired = r.leaseExpired
         /\ \A available : Requeued(r, available).status = "PENDING"
         /\ LeaseRunOut(r).status = "UNCERTAIN" /\ ~LeaseRunOut(r).bearer
BY DEF OutboxRow, Ended, Requeued, LeaseRunOut, Final

(***************************************************************************)
(* Steps in which no row becomes PENDING and no sender starts anything.    *)
(***************************************************************************)
LEMMA RowStep ==
  ASSUME OutboxInv, OutboxTypeOK', RowsOK', accepted' = accepted,
         \A s \in Senders : sender'[s] = sender[s] \/ sender'[s] = Idle,
         \A d \in Deliveries : row'[d].status = "PENDING" => row[d].status = "PENDING"
  PROVE  OutboxInv'
<1>1. \A s \in Senders : Working(s)' => Working(s) /\ sender'[s] = sender[s]
  BY DEF Working, Idle
<1>2. Exclusive'
  BY <1>1 DEF OutboxInv, Exclusive
<1>3. ASSUME NEW s \in Senders PROVE SenderOK(s)'
  <2>1. CASE sender'[s] = Idle
    BY <2>1 DEF SenderOK, Working, Idle
  <2>2. CASE sender'[s] = sender[s]
    BY <2>2 DEF OutboxInv, SenderOK, Working
  <2> QED
    BY <2>1, <2>2
<1>4. SubmittedAtMostOnce'
  BY DEF OutboxInv, SubmittedAtMostOnce
<1> QED
  BY <1>2, <1>3, <1>4 DEF OutboxInv

(* A row is rescheduled, or ends without having been sent.                 *)
RowMoves(old, new) ==
  \/ /\ new.status = old.status /\ new.bearer = old.bearer
     /\ new.leaseExpired = old.leaseExpired
  \/ /\ old.status \in {"PENDING", "SENDING"} /\ new.status \in {"CANCELLED", "FAILED"}
     /\ ~new.bearer

LEMMA MovedRow ==
  ASSUME RowsOK, accepted' = accepted, NEW d \in Deliveries, RowMoves(row[d], row'[d])
  PROVE  /\ RowOK(d)'
         /\ row'[d].status = "PENDING" => row[d].status = "PENDING"
         /\ d \in Contacts /\ enquiry'[d] = enquiry[d] => EnquiryOK(d)'
<1>1. RowOK(d)
  BY DEF RowsOK
<1>2. RowOK(d)'
  BY <1>1 DEF RowOK, RowMoves, Final
<1>3. row'[d].status = "PENDING" => row[d].status = "PENDING"
  BY DEF RowMoves
<1>4. ASSUME d \in Contacts, enquiry'[d] = enquiry[d] PROVE EnquiryOK(d)'
  <2>1. EnquiryOK(d)
    BY <1>4 DEF RowsOK
  <2> QED
    BY <1>4, <2>1 DEF EnquiryOK, RowMoves
<1> QED
  BY <1>2, <1>3, <1>4

LEMMA MovesStep ==
  ASSUME OutboxInv, OutboxTypeOK', UNCHANGED <<accepted, enquiry, sender>>,
         \A d \in Deliveries : RowMoves(row[d], row'[d])
  PROVE  OutboxInv'
<1>1. /\ \A d \in Deliveries : RowOK(d)'
      /\ \A d \in Deliveries : row'[d].status = "PENDING" => row[d].status = "PENDING"
      /\ \A d \in Contacts : EnquiryOK(d)'
  BY MovedRow DEF OutboxInv, Deliveries
<1> QED
  BY <1>1, RowStep DEF RowsOK

(* What a claim clears away keeps rows and enquiries together.             *)
LEMMA SweptOne ==
  ASSUME OutboxInv, NEW d \in Deliveries
  PROVE  /\ SweptRow(d) \in OutboxRow
         /\ SweptRow(d).status = "PENDING" => row[d].status = "PENDING"
         /\ accepted' = accepted /\ row'[d] = SweptRow(d) => RowOK(d)'
         /\ d \in Contacts /\ row'[d] = SweptRow(d) /\ enquiry'[d] = SweptEnquiry[d]
              => EnquiryOK(d)'
<1>1. row[d] \in OutboxRow /\ RowOK(d) /\ (d \in Contacts => EnquiryOK(d))
  BY DEF OutboxInv, OutboxTypeOK, RowsOK
<1> DEFINE cancelled == Ended(row[d], "CANCELLED")
           uncertain == LeaseRunOut(row[d])
<1>2. /\ cancelled \in OutboxRow /\ cancelled.status = "CANCELLED" /\ ~cancelled.bearer
      /\ uncertain \in OutboxRow /\ uncertain.status = "UNCERTAIN" /\ ~uncertain.bearer
  BY <1>1, RowTypes, RowEffects DEF Final
<1> HIDE DEF cancelled, uncertain
<1>3. CASE Suppressible(d) \/ Spent(d)
  <2>1. SweptRow(d) = cancelled /\ row[d].status = "PENDING"
    BY <1>3 DEF SweptRow, Suppressible, Spent, cancelled
  <2>2. d \in Contacts => SweptEnquiry[d] \in {"NOTIFICATION_FAILED", enquiry[d]}
    BY <2>1 DEF SweptEnquiry, RunOut
  <2> QED
    BY <1>1, <1>2, <2>1, <2>2 DEF RowOK, EnquiryOK
<1>4. CASE ~(Suppressible(d) \/ Spent(d)) /\ RunOut(d)
  <2>1. SweptRow(d) = uncertain
    BY <1>4 DEF SweptRow, uncertain
  <2>2. d \in Contacts => SweptEnquiry[d] = "NOTIFICATION_UNCERTAIN"
    BY <1>4 DEF SweptEnquiry
  <2> QED
    BY <1>1, <1>2, <2>1, <2>2 DEF RowOK, EnquiryOK
<1>5. CASE ~(Suppressible(d) \/ Spent(d) \/ RunOut(d))
  <2>1. SweptRow(d) = row[d] /\ (d \in Contacts => SweptEnquiry[d] = enquiry[d])
    BY <1>5 DEF SweptRow, SweptEnquiry
  <2> QED
    BY <1>1, <2>1 DEF RowOK, EnquiryOK
<1> QED
  BY <1>3, <1>4, <1>5

LEMMA SweptTypes ==
  ASSUME OutboxTypeOK
  PROVE  SweptEnquiry \in [Contacts -> {"RECEIVED", "NOTIFIED", "NOTIFICATION_UNCERTAIN",
                                        "NOTIFICATION_FAILED"}]
BY DEF OutboxTypeOK, SweptEnquiry

(***************************************************************************)
(* A poll.                                                                 *)
(***************************************************************************)
LEMMA EmptyClaim ==
  ASSUME OutboxInv, row' = [d \in Deliveries |-> SweptRow(d)], enquiry' = SweptEnquiry,
         UNCHANGED <<source, suppressed, paused, sender, accepted, faults, controls>>
  PROVE  OutboxInv'
<1>1. OutboxTypeOK'
  <2>1. row' \in [Deliveries -> OutboxRow]
    BY SweptOne
  <2>2. enquiry' \in [Contacts -> {"RECEIVED", "NOTIFIED", "NOTIFICATION_UNCERTAIN",
                                   "NOTIFICATION_FAILED"}]
    BY SweptTypes DEF OutboxInv
  <2> QED
    BY <2>1, <2>2 DEF OutboxInv, OutboxTypeOK
<1>2. \A d \in Deliveries : RowOK(d)' /\ (row'[d].status = "PENDING" => row[d].status = "PENDING")
  BY SweptOne
<1>3. \A d \in Contacts : EnquiryOK(d)'
  BY SweptOne DEF Deliveries
<1> QED
  BY <1>1, <1>2, <1>3, RowStep DEF RowsOK

LEMMA UndecryptableInv ==
  ASSUME OutboxInv, NEW s \in Senders, ClaimUndecryptable(s)
  PROVE  OutboxInv'
<1> USE OutboxAssumption
<1>1. PICK d \in Securities :
        /\ row[d].status = "PENDING"
        /\ row' = [e \in Deliveries |-> IF e = d THEN Ended(row[d], "FAILED") ELSE SweptRow(e)]
  BY DEF ClaimUndecryptable, Claimable
<1>2. /\ enquiry' = SweptEnquiry /\ faults' = faults + 1
      /\ UNCHANGED <<source, suppressed, paused, sender, accepted, controls>>
  BY DEF ClaimUndecryptable
<1>3. d \in Deliveries /\ row[d] \in OutboxRow
  BY DEF Deliveries, OutboxInv, OutboxTypeOK
<1>4. Ended(row[d], "FAILED") \in OutboxRow /\ RowMoves(row[d], row'[d])
  BY <1>1, <1>3, RowTypes, RowEffects DEF RowMoves, Final
<1>5. OutboxTypeOK'
  <2>1. row' \in [Deliveries -> OutboxRow]
    BY <1>1, <1>4, SweptOne
  <2>2. enquiry' \in [Contacts -> {"RECEIVED", "NOTIFIED", "NOTIFICATION_UNCERTAIN",
                                   "NOTIFICATION_FAILED"}]
    BY <1>2, SweptTypes DEF OutboxInv
  <2>3. faults' \in Nat
    BY <1>2 DEF OutboxInv, OutboxTypeOK
  <2> QED
    BY <1>2, <2>1, <2>2, <2>3 DEF OutboxInv, OutboxTypeOK
<1>6. \A e \in Deliveries : RowOK(e)' /\ (row'[e].status = "PENDING" => row[e].status = "PENDING")
  <2>1. RowOK(d)' /\ (row'[d].status = "PENDING" => row[d].status = "PENDING")
    BY <1>2, <1>3, <1>4, MovedRow DEF OutboxInv
  <2>2. \A e \in Deliveries \ {d} :
          RowOK(e)' /\ (row'[e].status = "PENDING" => row[e].status = "PENDING")
    BY <1>1, <1>2, SweptOne
  <2> QED
    BY <2>1, <2>2
<1>7. \A e \in Contacts : EnquiryOK(e)'
  <2>1. \A e \in Contacts : e # d /\ e \in Deliveries
    BY DEF Deliveries
  <2> QED
    BY <1>1, <1>2, <2>1, SweptOne
<1> QED
  BY <1>2, <1>5, <1>6, <1>7, RowStep DEF RowsOK

LEMMA ClaimInv ==
  ASSUME OutboxInv, NEW s \in Senders, Claim(s)
  PROVE  OutboxInv'
<1> USE OutboxAssumption
<1>1. CASE row' = [d \in Deliveries |-> SweptRow(d)] /\ UNCHANGED sender
  BY <1>1, EmptyClaim DEF Claim
<1>2. CASE \E d \in Deliveries :
             /\ Claimable(d)
             /\ row' = [[e \in Deliveries |-> SweptRow(e)] EXCEPT ![d] = Leased(@, s)]
             /\ sender' = [sender EXCEPT ![s] = [Idle EXCEPT !.at = "sending", !.job = d]]
  <2>1. PICK d \in Deliveries :
             /\ Claimable(d)
             /\ row' = [[e \in Deliveries |-> SweptRow(e)] EXCEPT ![d] = Leased(@, s)]
             /\ sender' = [sender EXCEPT ![s] = [Idle EXCEPT !.at = "sending", !.job = d]]
    BY <1>2
  <2>2. /\ enquiry' = SweptEnquiry /\ sender[s] = Idle
        /\ UNCHANGED <<source, suppressed, paused, accepted, faults, controls>>
    BY DEF Claim
  <2>3. row[d] \in OutboxRow /\ row[d].status = "PENDING" /\ accepted[d] = 0
    BY <2>1 DEF OutboxInv, OutboxTypeOK, Claimable, RowsOK, RowOK
  <2>4. /\ SweptRow(d) = row[d]
        /\ d \in Contacts => SweptEnquiry[d] = enquiry[d] /\ enquiry[d] = "RECEIVED"
    BY <2>1, <2>3 DEF Claimable, SweptRow, SweptEnquiry, Suppressible, Spent, RunOut
  <2> DEFINE leased == Leased(row[d], s)
  <2>5. leased \in OutboxRow /\ leased.status = "SENDING"
    <3>1. row[d].attempts \in 0..MaxAttempts /\ row[d].attempts < MaxAttempts
      BY <2>1, <2>3 DEF OutboxRow, Claimable
    <3>2. row[d].attempts + 1 \in 0..MaxAttempts
      BY <3>1
    <3> QED
      BY <2>3, <3>2 DEF Leased, OutboxRow, Statuses
  <2>6. row'[d] = leased /\ \A e \in Deliveries \ {d} : row'[e] = SweptRow(e)
    BY <2>1, <2>4
  <2> HIDE DEF leased
  <2>7. row' \in [Deliveries -> OutboxRow]
    <3>1. \A e \in Deliveries : row'[e] \in OutboxRow
      BY <2>5, <2>6, SweptOne
    <3> QED
      BY <2>1, <3>1
  <2> DEFINE started == [Idle EXCEPT !.at = "sending", !.job = d]
  <2>8. /\ started.at = "sending" /\ started.job = d /\ started.outcome = "none"
        /\ started \in [at : {"idle", "sending", "answered"}, job : Deliveries \cup {Nobody},
                        outcome : Outcomes \cup {"none"}]
    BY DEF Idle
  <2>9. sender'[s] = started /\ \A t \in Senders \ {s} : sender'[t] = sender[t]
    BY <2>1 DEF OutboxInv, OutboxTypeOK
  <2> HIDE DEF started
  <2>10. OutboxTypeOK'
    <3>1. sender' \in [Senders -> [at : {"idle", "sending", "answered"},
                                   job : Deliveries \cup {Nobody},
                                   outcome : Outcomes \cup {"none"}]]
      BY <2>1, <2>8 DEF OutboxInv, OutboxTypeOK, started
    <3> QED
      BY <2>2, <2>7, <3>1, SweptTypes DEF OutboxInv, OutboxTypeOK
  <2>11. \A t \in Senders \ {s} : Working(t) => sender[t].job # d
    BY <2>3 DEF OutboxInv, SenderOK
  <2>12. Exclusive'
    BY <2>8, <2>9, <2>11 DEF OutboxInv, Exclusive, Working
  <2>13. \A t \in Senders : SenderOK(t)'
    <3>1. SenderOK(s)'
      BY <2>2, <2>3, <2>5, <2>6, <2>8, <2>9 DEF SenderOK, Working
    <3>2. ASSUME NEW t \in Senders \ {s} PROVE SenderOK(t)'
      <4>1. SenderOK(t) /\ sender'[t] = sender[t] /\ accepted' = accepted
        BY <2>2, <2>9 DEF OutboxInv
      <4>2. \A e \in Deliveries \ {d} : row'[e].status = "PENDING" => row[e].status = "PENDING"
        BY <2>6, SweptOne
      <4> QED
        BY <2>11, <4>1, <4>2 DEF SenderOK, Working
    <3> QED
      BY <3>1, <3>2
  <2>14. \A e \in Deliveries : RowOK(e)'
    <3>1. RowOK(d)'
      BY <2>5, <2>6 DEF RowOK, Final
    <3>2. \A e \in Deliveries \ {d} : RowOK(e)'
      BY <2>2, <2>6, SweptOne
    <3> QED
      BY <3>1, <3>2
  <2>15. \A e \in Contacts : EnquiryOK(e)'
    <3>1. d \in Contacts => EnquiryOK(d)'
      <4> SUFFICES ASSUME d \in Contacts PROVE EnquiryOK(d)'
        OBVIOUS
      <4>1. row'[d].status = "SENDING" /\ enquiry'[d] = "RECEIVED"
        BY <2>2, <2>4, <2>5, <2>6
      <4> QED
        BY <4>1 DEF EnquiryOK
    <3>2. \A e \in Contacts \ {d} : EnquiryOK(e)'
      BY <2>2, <2>6, SweptOne DEF Deliveries
    <3> QED
      BY <3>1, <3>2
  <2>16. SubmittedAtMostOnce'
    BY <2>2 DEF OutboxInv, SubmittedAtMostOnce
  <2> QED
    BY <2>10, <2>12, <2>13, <2>14, <2>15, <2>16 DEF OutboxInv, RowsOK
<1> QED
  BY <1>1, <1>2 DEF Claim

(* Of two senders only one can hold what a step needs of a delivery.       *)
LEMMA AnswerInv ==
  ASSUME OutboxInv, NEW s \in Senders, NEW outcome \in Outcomes,
         sender[s].at = "sending", Answered(s, outcome),
         UNCHANGED <<row, enquiry, source, suppressed, paused, faults, controls>>,
         \/ accepted' = accepted /\ outcome # "sent"
         \/ /\ accepted' = [accepted EXCEPT ![sender[s].job] = @ + 1]
            /\ outcome \in {"sent", "uncertain"}
  PROVE  OutboxInv'
<1> DEFINE d == sender[s].job
<1>1. /\ d \in Deliveries /\ row[d].status # "PENDING" /\ accepted[d] = 0 /\ Working(s)
      /\ accepted \in [Deliveries -> Nat] /\ \A e \in Deliveries : RowOK(e)
  BY DEF OutboxInv, SenderOK, Working, RowsOK, OutboxTypeOK
<1>2. row[d].status # "SENT"
  BY <1>1 DEF RowOK
<1>3. /\ \A e \in Deliveries \ {d} : accepted'[e] = accepted[e]
      /\ accepted' \in [Deliveries -> Nat] /\ accepted'[d] \in {0, 1}
      /\ outcome = "sent" => accepted'[d] = 1
      /\ outcome \in {"retry", "failed", "paused"} => accepted'[d] = 0
  BY <1>1
<1>4. /\ sender \in [Senders -> [at : {"idle", "sending", "answered"},
                                 job : Deliveries \cup {Nobody},
                                 outcome : Outcomes \cup {"none"}]]
      /\ sender' \in [Senders -> [at : {"idle", "sending", "answered"},
                                  job : Deliveries \cup {Nobody},
                                  outcome : Outcomes \cup {"none"}]]
  <2>1. sender \in [Senders -> [at : {"idle", "sending", "answered"},
                               job : Deliveries \cup {Nobody},
                               outcome : Outcomes \cup {"none"}]]
    BY DEF OutboxInv, OutboxTypeOK
  <2> DEFINE after == [sender[s] EXCEPT !.at = "answered", !.outcome = outcome]
  <2>2. sender' = [sender EXCEPT ![s] = after]
    BY <2>1 DEF Answered
  <2>3. after \in [at : {"idle", "sending", "answered"},
                   job : Deliveries \cup {Nobody},
                   outcome : Outcomes \cup {"none"}]
    BY <2>1
  <2> HIDE DEF after
  <2> QED
    BY <2>1, <2>2, <2>3
<1>5. /\ sender'[s].at = "answered" /\ sender'[s].outcome = outcome /\ sender'[s].job = d
      /\ \A t \in Senders \ {s} : sender'[t] = sender[t]
  BY <1>4 DEF Answered
<1> HIDE DEF d
<1>6. OutboxTypeOK'
  BY <1>3, <1>4 DEF OutboxInv, OutboxTypeOK
<1>7. SubmittedAtMostOnce'
  BY <1>1, <1>3 DEF OutboxInv, SubmittedAtMostOnce
<1>8. \A t \in Senders : /\ Working(t)' => Working(t)
                         /\ sender'[t].job = sender[t].job
  BY <1>1, <1>5 DEF Working, d
<1>9. Exclusive'
  BY <1>8 DEF OutboxInv, Exclusive
<1>10. \A t \in Senders : SenderOK(t)'
  <2>1. SenderOK(s)'
    BY <1>1, <1>3, <1>5 DEF SenderOK
  <2>2. ASSUME NEW t \in Senders \ {s} PROVE SenderOK(t)'
    <3>1. Working(t) => sender[t].job # d
      BY <1>1 DEF OutboxInv, Exclusive, d
    <3>2. SenderOK(t) /\ sender'[t] = sender[t]
      BY <1>5 DEF OutboxInv
    <3> QED
      BY <1>3, <3>1, <3>2 DEF SenderOK, Working
  <2> QED
    BY <2>1, <2>2
<1>11. \A e \in Deliveries : RowOK(e)'
  BY <1>1, <1>2, <1>3 DEF RowOK
<1>12. \A e \in Contacts : EnquiryOK(e)'
  BY DEF OutboxInv, RowsOK, EnquiryOK
<1> QED
  BY <1>6, <1>7, <1>9, <1>10, <1>11, <1>12 DEF OutboxInv, RowsOK

LEMMA ProviderInv ==
  ASSUME OutboxInv, NEW s \in Senders, ProviderAccepts(s) \/ ProviderDeclines(s)
  PROVE  OutboxInv'
<1>1. CASE ProviderAccepts(s)
  BY <1>1, AnswerInv DEF ProviderAccepts, Outcomes
<1>2. CASE ProviderDeclines(s)
  BY <1>2, AnswerInv DEF ProviderDeclines
<1> QED
  BY <1>1, <1>2

(* What a completion makes of a row that is being sent.                    *)
LEMMA CompletedRow ==
  ASSUME NEW r \in OutboxRow, NEW outcome \in Outcomes
  PROVE  /\ Completed(r, outcome) \in OutboxRow
         /\ Completed(r, outcome).status = "PENDING" => outcome \in {"retry", "paused"}
         /\ Completed(r, outcome).status = "SENT" <=> outcome = "sent"
         /\ Completed(r, outcome).status \in {"PENDING"} \cup Final
         /\ Completed(r, outcome).status \in Final => ~Completed(r, outcome).bearer
<1> DEFINE sent == Ended(r, "SENT")
           later == Requeued(r, "LATER")
           held == Requeued(r, "HELD")
           uncertain == Ended(r, "UNCERTAIN")
           failed == Ended(r, "FAILED")
<1>1. /\ sent \in OutboxRow /\ sent.status = "SENT" /\ ~sent.bearer
      /\ uncertain \in OutboxRow /\ uncertain.status = "UNCERTAIN" /\ ~uncertain.bearer
      /\ failed \in OutboxRow /\ failed.status = "FAILED" /\ ~failed.bearer
      /\ later \in OutboxRow /\ later.status = "PENDING"
      /\ held \in OutboxRow /\ held.status = "PENDING"
  BY RowTypes, RowEffects DEF Final
<1>2. \/ Completed(r, outcome) = sent /\ outcome = "sent"
      \/ Completed(r, outcome) = held /\ outcome = "paused"
      \/ Completed(r, outcome) = later /\ outcome = "retry"
      \/ Completed(r, outcome) = uncertain /\ outcome = "uncertain"
      \/ Completed(r, outcome) = failed /\ outcome # "sent"
  BY DEF Completed, Outcomes
<1> HIDE DEF sent, later, held, uncertain, failed
<1> QED
  BY <1>1, <1>2 DEF Final

(* The one step in which a row becomes PENDING: its sender is done with it, *)
(* nobody else works on it and the provider has not accepted it.           *)
LEMMA CompleteInv ==
  ASSUME OutboxInv, NEW s \in Senders, Complete(s)
  PROVE  OutboxInv'
<1>0. PICK d : d = sender[s].job
  OBVIOUS
<1> DEFINE r == Completed(row[d], sender[s].outcome)
<1>1. /\ sender[s].at = "answered" /\ Working(s) /\ SenderOK(s) /\ OutboxTypeOK
      /\ sender' = [sender EXCEPT ![s] = Idle]
      /\ UNCHANGED <<source, suppressed, paused, accepted, faults, controls>>
  BY DEF Complete, OutboxInv, Working
<1>2. d \in Deliveries /\ sender[s].outcome \in Outcomes /\ row[d] \in OutboxRow
  BY <1>0, <1>1 DEF SenderOK, OutboxTypeOK
<1>3. sender'[s] = Idle /\ \A t \in Senders \ {s} : sender'[t] = sender[t]
  BY <1>1 DEF OutboxTypeOK
<1>4. sender' \in [Senders -> [at : {"idle", "sending", "answered"},
                              job : Deliveries \cup {Nobody}, outcome : Outcomes \cup {"none"}]]
  BY <1>1 DEF OutboxTypeOK, Idle
<1>5. CASE row[d].status = "SENDING" /\ row[d].lease = s
  <2>1. /\ row' = [row EXCEPT ![d] = r]
        /\ enquiry' = IF d \in Contacts /\ r.status # "PENDING" /\ enquiry[d] = "RECEIVED"
                      THEN [enquiry EXCEPT ![d] = EnquiryStatus(r.status)] ELSE enquiry
    BY <1>0, <1>5 DEF Complete
  <2>2. /\ r \in OutboxRow /\ r.status \in {"PENDING"} \cup Final
        /\ r.status = "PENDING" => accepted[d] = 0
        /\ r.status = "SENT" => accepted[d] = 1
        /\ r.status \in Final => ~r.bearer
    BY <1>0, <1>1, <1>2, CompletedRow DEF SenderOK
  <2> HIDE DEF r
  <2>3. row'[d] = r /\ \A e \in Deliveries \ {d} : row'[e] = row[e]
    BY <1>1, <1>2, <2>1 DEF OutboxTypeOK
  <2>4. EnquiryStatus(r.status) \in {"NOTIFIED", "NOTIFICATION_UNCERTAIN", "NOTIFICATION_FAILED"}
    BY DEF EnquiryStatus
  <2>5. OutboxTypeOK'
    <3>1. row' \in [Deliveries -> OutboxRow]
      BY <1>1, <1>2, <2>1, <2>2 DEF OutboxTypeOK
    <3>2. enquiry' \in [Contacts -> {"RECEIVED", "NOTIFIED", "NOTIFICATION_UNCERTAIN",
                                    "NOTIFICATION_FAILED"}]
      BY <1>1, <2>1, <2>4 DEF OutboxTypeOK
    <3> QED
      BY <1>1, <1>4, <3>1, <3>2 DEF OutboxTypeOK
  <2>6. \A t \in Senders \ {s} : Working(t) => sender[t].job # d
    BY <1>0, <1>1 DEF OutboxInv, Exclusive
  <2>7. \A t \in Senders : Working(t)' => t # s /\ Working(t) /\ sender'[t] = sender[t]
    BY <1>3 DEF Working, Idle
  <2>8. Exclusive'
    BY <2>7 DEF OutboxInv, Exclusive
  <2>9. \A t \in Senders : SenderOK(t)'
    <3>1. SenderOK(s)'
      BY <1>3 DEF SenderOK, Working, Idle
    <3>2. ASSUME NEW t \in Senders \ {s} PROVE SenderOK(t)'
      <4>1. SenderOK(t) /\ sender'[t] = sender[t] /\ accepted' = accepted
        BY <1>1, <1>3 DEF OutboxInv
      <4> QED
        BY <2>3, <2>6, <4>1 DEF SenderOK, Working
    <3> QED
      BY <3>1, <3>2
  <2>10. \A e \in Deliveries : RowOK(e)'
    BY <1>1, <2>2, <2>3 DEF OutboxInv, RowsOK, RowOK
  <2>11. \A e \in Contacts : EnquiryOK(e)'
    <3>1. \A e \in Contacts \ {d} : enquiry'[e] = enquiry[e] /\ row'[e] = row[e]
      BY <1>1, <2>1, <2>3 DEF OutboxTypeOK, Deliveries
    <3>2. \A e \in Contacts \ {d} : EnquiryOK(e)'
      BY <3>1 DEF OutboxInv, RowsOK, EnquiryOK
    <3>3. ASSUME d \in Contacts PROVE EnquiryOK(d)'
      <4>1. enquiry[d] = "RECEIVED"
        BY <1>5, <3>3 DEF OutboxInv, RowsOK, EnquiryOK
      <4>2. enquiry'[d] = IF r.status = "PENDING" THEN "RECEIVED" ELSE EnquiryStatus(r.status)
        BY <1>1, <2>1, <3>3, <4>1 DEF OutboxTypeOK
      <4> QED
        BY <2>2, <2>3, <4>2 DEF EnquiryOK, EnquiryStatus, Final
    <3> QED
      BY <3>2, <3>3
  <2>12. SubmittedAtMostOnce'
    BY <1>1 DEF OutboxInv, SubmittedAtMostOnce
  <2> QED
    BY <2>5, <2>8, <2>9, <2>10, <2>11, <2>12 DEF OutboxInv, RowsOK
<1>6. CASE ~(row[d].status = "SENDING" /\ row[d].lease = s)
  <2>1. UNCHANGED <<row, enquiry>>
    BY <1>0, <1>6 DEF Complete
  <2>2. OutboxTypeOK'
    BY <1>1, <1>4, <2>1 DEF OutboxTypeOK
  <2>3. RowsOK'
    BY <1>1, <2>1 DEF OutboxInv, RowsOK, RowOK, EnquiryOK
  <2> QED
    BY <1>1, <1>3, <2>1, <2>2, <2>3, RowStep
<1> QED
  BY <1>5, <1>6

LEMMA CrashInv ==
  ASSUME OutboxInv, NEW s \in Senders, Crash(s)
  PROVE  OutboxInv'
<1>1. /\ sender' = [sender EXCEPT ![s] = Idle] /\ faults' = faults + 1 /\ OutboxTypeOK
      /\ UNCHANGED <<row, enquiry, source, suppressed, paused, accepted, controls>>
  BY DEF Crash, OutboxInv
<1>2. /\ sender' \in [Senders -> [at : {"idle", "sending", "answered"},
                                 job : Deliveries \cup {Nobody}, outcome : Outcomes \cup {"none"}]]
      /\ \A t \in Senders : sender'[t] = sender[t] \/ sender'[t] = Idle
  BY <1>1 DEF OutboxTypeOK, Idle
<1>3. OutboxTypeOK'
  BY <1>1, <1>2 DEF OutboxTypeOK
<1>4. RowsOK'
  BY <1>1 DEF OutboxInv, RowsOK, RowOK, EnquiryOK
<1> QED
  BY <1>1, <1>2, <1>3, <1>4, RowStep

(***************************************************************************)
(* Operators, time and users: rows are rescheduled or cancelled.           *)
(***************************************************************************)
LEMMA RescheduledInv ==
  ASSUME OutboxInv, UNCHANGED <<accepted, enquiry, sender, source>>,
         row' \in [Deliveries -> OutboxRow], \A d \in Deliveries : RowMoves(row[d], row'[d]),
         suppressed' \subseteq Deliveries, paused' \in BOOLEAN, faults' \in Nat, controls' \in Nat
  PROVE  OutboxInv'
<1>1. OutboxTypeOK'
  BY DEF OutboxInv, OutboxTypeOK
<1> QED
  BY <1>1, MovesStep

LEMMA AvailableMoves ==
  ASSUME NEW r \in OutboxRow, NEW available \in {"NOW", "LATER", "HELD"}
  PROVE  /\ [r EXCEPT !.available = available] \in OutboxRow
         /\ RowMoves(r, [r EXCEPT !.available = available])
BY DEF OutboxRow, RowMoves

LEMMA OperatorInv ==
  ASSUME OutboxInv, PauseAgent \/ ResumeAgent
  PROVE  OutboxInv'
<1>1. /\ row \in [Deliveries -> OutboxRow] /\ paused' \in BOOLEAN /\ controls' \in Nat
      /\ suppressed \subseteq Deliveries /\ faults \in Nat
      /\ UNCHANGED <<accepted, enquiry, sender, source, suppressed, faults>>
  <2>1. /\ row \in [Deliveries -> OutboxRow] /\ controls \in Nat
        /\ suppressed \subseteq Deliveries /\ faults \in Nat
    BY DEF OutboxInv, OutboxTypeOK
  <2>2. /\ paused' \in BOOLEAN /\ controls' = controls + 1
        /\ UNCHANGED <<accepted, enquiry, sender, source, suppressed, faults>>
    <3>1. CASE PauseAgent
      BY <3>1 DEF PauseAgent, Command
    <3>2. CASE ResumeAgent
      BY <3>2 DEF ResumeAgent, Command
    <3> QED
      BY <3>1, <3>2
  <2> QED
    BY <2>1, <2>2
<1>2. /\ \A d \in Deliveries : \/ row'[d] = row[d]
                               \/ row'[d] = [row[d] EXCEPT !.available = "HELD"]
                               \/ row'[d] = [row[d] EXCEPT !.available = "NOW"]
      /\ row' = [d \in Deliveries |-> row'[d]]
  BY DEF PauseAgent, ResumeAgent
<1>3. \A d \in Deliveries : row'[d] \in OutboxRow /\ RowMoves(row[d], row'[d])
  <2> SUFFICES ASSUME NEW d \in Deliveries PROVE row'[d] \in OutboxRow /\ RowMoves(row[d], row'[d])
    OBVIOUS
  <2>1. row[d] \in OutboxRow /\ RowMoves(row[d], row[d])
    BY <1>1 DEF RowMoves
  <2> QED
    BY <1>2, <2>1, AvailableMoves
<1>4. row' \in [Deliveries -> OutboxRow]
  BY <1>2, <1>3
<1> QED
  BY <1>1, <1>3, <1>4, RescheduledInv

LEMMA RescheduleInv ==
  ASSUME OutboxInv, NEW d \in Deliveries, RetryNow(d) \/ BackoffEnds(d)
  PROVE  OutboxInv'
<1>1. /\ row \in [Deliveries -> OutboxRow] /\ controls' \in Nat /\ paused \in BOOLEAN
      /\ suppressed \subseteq Deliveries /\ faults \in Nat
      /\ UNCHANGED <<accepted, enquiry, sender, source, suppressed, paused, faults>>
  BY DEF OutboxInv, OutboxTypeOK, RetryNow, BackoffEnds, Command
<1>2. PICK available \in {"NOW", "LATER", "HELD"} : row' = [row EXCEPT ![d].available = available]
  <2>1. CASE RetryNow(d)
    BY <2>1 DEF RetryNow
  <2>2. CASE BackoffEnds(d)
    BY <2>2 DEF BackoffEnds
  <2> QED
    BY <2>1, <2>2
<1>3. row' = [row EXCEPT ![d] = [row[d] EXCEPT !.available = available]]
  BY <1>2
<1>4. \A e \in Deliveries : row'[e] \in OutboxRow /\ RowMoves(row[e], row'[e])
  <2>1. row'[d] \in OutboxRow /\ RowMoves(row[d], row'[d])
    BY <1>1, <1>3, AvailableMoves
  <2>2. \A e \in Deliveries \ {d} : row'[e] \in OutboxRow /\ RowMoves(row[e], row'[e])
    BY <1>1, <1>3 DEF RowMoves
  <2> QED
    BY <2>1, <2>2
<1>5. row' \in [Deliveries -> OutboxRow]
  BY <1>1, <1>3, <1>4
<1> QED
  BY <1>1, <1>4, <1>5, RescheduledInv

LEMMA UnsuppressInv ==
  ASSUME OutboxInv, NEW d \in Deliveries, Unsuppress(d)
  PROVE  OutboxInv'
<1>1. /\ row \in [Deliveries -> OutboxRow] /\ controls' \in Nat /\ paused \in BOOLEAN
      /\ suppressed' \subseteq Deliveries /\ faults \in Nat
      /\ UNCHANGED <<row, accepted, enquiry, sender, source, paused, faults>>
  BY DEF OutboxInv, OutboxTypeOK, Unsuppress, Command
<1>2. \A e \in Deliveries : RowMoves(row[e], row'[e])
  BY <1>1 DEF RowMoves
<1> QED
  BY <1>1, <1>2, RescheduledInv

LEMMA EndedByCommandInv ==
  ASSUME OutboxInv, NEW d \in Deliveries, Cancel(d) \/ Suppress(d)
  PROVE  OutboxInv'
<1>1. /\ row \in [Deliveries -> OutboxRow] /\ controls' \in Nat /\ paused \in BOOLEAN
      /\ suppressed' \subseteq Deliveries /\ faults \in Nat
      /\ UNCHANGED <<accepted, enquiry, sender, source, paused, faults>>
  BY DEF OutboxInv, OutboxTypeOK, Cancel, Suppress, Command
<1>2. \/ row' = row
      \/ row' = [row EXCEPT ![d] = Ended(row[d], "CANCELLED")] /\ row[d].status = "PENDING"
  BY DEF Cancel, Suppress
<1>3. /\ Ended(row[d], "CANCELLED") \in OutboxRow
      /\ row[d].status = "PENDING" => RowMoves(row[d], Ended(row[d], "CANCELLED"))
  BY <1>1, RowTypes, RowEffects DEF RowMoves, Final
<1>4. \A e \in Deliveries : row'[e] \in OutboxRow /\ RowMoves(row[e], row'[e])
  <2>1. \A e \in Deliveries : row[e] \in OutboxRow /\ RowMoves(row[e], row[e])
    BY <1>1 DEF RowMoves
  <2>2. \A e \in Deliveries : \/ row'[e] = row[e]
                             \/ /\ e = d /\ row'[e] = Ended(row[d], "CANCELLED")
                                /\ row[d].status = "PENDING"
    BY <1>1, <1>2
  <2> QED
    BY <1>3, <2>1, <2>2
<1>5. row' \in [Deliveries -> OutboxRow]
  BY <1>1, <1>2, <1>3
<1> QED
  BY <1>1, <1>4, <1>5, RescheduledInv

LEMMA LeaseExpiresInv ==
  ASSUME OutboxInv, NEW d \in Deliveries, LeaseExpires(d)
  PROVE  OutboxInv'
<1>1. /\ row \in [Deliveries -> OutboxRow] /\ faults' \in Nat /\ paused \in BOOLEAN
      /\ suppressed \subseteq Deliveries /\ controls \in Nat
      /\ UNCHANGED <<accepted, enquiry, sender, source, suppressed, paused, controls>>
      /\ row' = [row EXCEPT ![d].leaseLive = FALSE]
  BY DEF OutboxInv, OutboxTypeOK, LeaseExpires
<1> DEFINE r == [row[d] EXCEPT !.leaseLive = FALSE]
<1>2. r \in OutboxRow /\ RowMoves(row[d], r)
  BY <1>1 DEF OutboxRow, RowMoves
<1>3. row' = [row EXCEPT ![d] = r]
  BY <1>1
<1> HIDE DEF r
<1>4. \A e \in Deliveries : row'[e] \in OutboxRow /\ RowMoves(row[e], row'[e])
  <2>1. \A e \in Deliveries \ {d} : row'[e] \in OutboxRow /\ RowMoves(row[e], row'[e])
    BY <1>1, <1>3 DEF RowMoves
  <2>2. row'[d] \in OutboxRow /\ RowMoves(row[d], row'[d])
    BY <1>1, <1>2, <1>3
  <2> QED
    BY <2>1, <2>2
<1>5. row' \in [Deliveries -> OutboxRow]
  BY <1>1, <1>2, <1>3
<1> QED
  BY <1>1, <1>4, <1>5, RescheduledInv

LEMMA LinkSpentInv ==
  ASSUME OutboxInv, NEW d \in Securities, LinkSpent(d)
  PROVE  OutboxInv'
<1>1. OutboxTypeOK'
  BY DEF OutboxInv, OutboxTypeOK, LinkSpent
<1>2. UNCHANGED <<row, accepted, enquiry, sender>>
  BY DEF LinkSpent
<1> QED
  BY <1>1, <1>2, MovesStep DEF RowMoves

LEMMA ReconcileInv ==
  ASSUME OutboxInv, NEW d \in Deliveries, Reconcile(d)
  PROVE  OutboxInv'
<1>1. /\ accepted[d] > 0 /\ row[d].status = "UNCERTAIN" /\ row[d].leaseExpired /\ controls' \in Nat
      /\ row' = [row EXCEPT ![d].status = "SENT", ![d].leaseExpired = FALSE]
      /\ enquiry' = IF d \in Contacts /\ enquiry[d] = "NOTIFICATION_UNCERTAIN"
                    THEN [enquiry EXCEPT ![d] = "NOTIFIED"] ELSE enquiry
      /\ UNCHANGED <<source, suppressed, paused, sender, accepted, faults>>
  BY DEF Reconcile, Command, OutboxInv, OutboxTypeOK
<1>2. OutboxTypeOK /\ row[d] \in OutboxRow /\ accepted[d] = 1 /\ RowOK(d)
  BY <1>1 DEF OutboxInv, OutboxTypeOK, SubmittedAtMostOnce, RowsOK
<1> DEFINE r == [row[d] EXCEPT !.status = "SENT", !.leaseExpired = FALSE]
<1>3. r \in OutboxRow /\ r.status = "SENT" /\ ~r.leaseExpired /\ r.bearer = row[d].bearer
  BY <1>2 DEF OutboxRow, Statuses, Final
<1>4. row' = [row EXCEPT ![d] = r]
  BY <1>1
<1> HIDE DEF r
<1>5. row'[d] = r /\ \A e \in Deliveries \ {d} : row'[e] = row[e]
  BY <1>2, <1>4 DEF OutboxTypeOK
<1>6. OutboxTypeOK'
  <2>1. row' \in [Deliveries -> OutboxRow]
    BY <1>2, <1>3, <1>4 DEF OutboxTypeOK
  <2>2. enquiry' \in [Contacts -> {"RECEIVED", "NOTIFIED", "NOTIFICATION_UNCERTAIN",
                                   "NOTIFICATION_FAILED"}]
    BY <1>1, <1>2 DEF OutboxTypeOK
  <2> QED
    BY <1>1, <1>2, <2>1, <2>2 DEF OutboxTypeOK
<1>7. \A e \in Deliveries : RowOK(e)'
  <2>1. RowOK(d)'
    BY <1>1, <1>2, <1>3, <1>5 DEF RowOK, Final
  <2>2. \A e \in Deliveries \ {d} : RowOK(e)'
    BY <1>1, <1>5 DEF OutboxInv, RowsOK, RowOK
  <2> QED
    BY <2>1, <2>2
<1>8. \A e \in Contacts : EnquiryOK(e)'
  <2>1. \A e \in Contacts \ {d} : enquiry'[e] = enquiry[e] /\ row'[e] = row[e]
    BY <1>1, <1>2, <1>5 DEF OutboxTypeOK, Deliveries
  <2>2. \A e \in Contacts \ {d} : EnquiryOK(e)'
    BY <2>1 DEF OutboxInv, RowsOK, EnquiryOK
  <2>3. ASSUME d \in Contacts PROVE EnquiryOK(d)'
    <3>1. enquiry[d] = "NOTIFICATION_UNCERTAIN"
      BY <1>1, <2>3 DEF OutboxInv, RowsOK, EnquiryOK
    <3>2. enquiry'[d] = "NOTIFIED"
      BY <1>1, <1>2, <2>3, <3>1 DEF OutboxTypeOK
    <3> QED
      BY <1>3, <1>5, <3>2 DEF EnquiryOK
  <2> QED
    BY <2>2, <2>3
<1>9. \A e \in Deliveries : row'[e].status = "PENDING" => row[e].status = "PENDING"
  BY <1>3, <1>5
<1> QED
  BY <1>1, <1>6, <1>7, <1>8, <1>9, RowStep DEF RowsOK

(***************************************************************************)
(* The theorems.                                                           *)
(***************************************************************************)
LEMMA InitInv ==
  ASSUME Init
  PROVE  OutboxInv
<1> USE OutboxAssumption DEF Init, Idle
<1>1. OutboxTypeOK
  <2>1. row \in [Deliveries -> OutboxRow]
    BY DEF OutboxRow, Statuses, Final
  <2>2. sender \in [Senders -> [at : {"idle", "sending", "answered"},
                               job : Deliveries \cup {Nobody},
                               outcome : Outcomes \cup {"none"}]]
    OBVIOUS
  <2> QED
    BY <2>1, <2>2 DEF OutboxTypeOK
<1>2. SubmittedAtMostOnce
  BY DEF SubmittedAtMostOnce
<1>3. Exclusive /\ \A s \in Senders : SenderOK(s)
  BY DEF Exclusive, SenderOK, Working
<1>4. RowsOK
  BY DEF RowsOK, RowOK, EnquiryOK, Final, Deliveries
<1> QED
  BY <1>1, <1>2, <1>3, <1>4 DEF OutboxInv

LEMMA StutterInv ==
  ASSUME OutboxInv, UNCHANGED vars
  PROVE  OutboxInv'
<1>1. OutboxTypeOK'
  BY DEF OutboxInv, OutboxTypeOK, vars
<1> QED
  BY <1>1, MovesStep DEF RowMoves, vars

LEMMA NextInv ==
  ASSUME OutboxInv, [Next]_vars
  PROVE  OutboxInv'
<1>1. ASSUME NEW s \in Senders, Poll(s) \/ ClaimUndecryptable(s) \/ Crash(s)
      PROVE  OutboxInv'
  BY <1>1, ClaimInv, ProviderInv, CompleteInv, UndecryptableInv, CrashInv DEF Poll
<1>2. CASE PauseAgent \/ ResumeAgent
  BY <1>2, OperatorInv
<1>3. ASSUME NEW d \in Deliveries,
             \/ RetryNow(d) \/ Cancel(d) \/ Suppress(d) \/ Unsuppress(d) \/ Reconcile(d)
             \/ BackoffEnds(d) \/ LeaseExpires(d)
      PROVE  OutboxInv'
  BY <1>3, RescheduleInv, EndedByCommandInv, UnsuppressInv, ReconcileInv, LeaseExpiresInv
<1>4. ASSUME NEW d \in Securities, LinkSpent(d) PROVE OutboxInv'
  BY <1>4, LinkSpentInv
<1> QED
  BY <1>1, <1>2, <1>3, <1>4, StutterInv DEF Next

(* The invariant holds in every reachable state, fair or not.              *)
THEOREM SpecInv == Spec => []OutboxInv
<1>1. Init => OutboxInv
  BY InitInv
<1>2. OutboxInv /\ [Next]_vars => OutboxInv'
  BY NextInv
<1> QED
  BY <1>1, <1>2, PTL DEF Spec, SafeSpec

(* Every row, enquiry, link and sender keeps to its columns; in particular *)
(* no row is claimed more often than OUTBOX_MAX_ATTEMPTS.                  *)
THEOREM OutboxTypeCorrect == Spec => []OutboxTypeOK
<1>1. OutboxInv => OutboxTypeOK
  BY DEF OutboxInv
<1> QED
  BY <1>1, SpecInv, PTL

(* The provider never accepts a delivery twice, for any number of crashes, *)
(* stalls, retries and senders.                                            *)
THEOREM OneSubmission == Spec => []SubmittedAtMostOnce
BY SpecInv, InvariantImplies, PTL

(* What a SENT row and its enquiry say is what the provider did.           *)
THEOREM SentIsTrue == Spec => []SentMeansAccepted
BY SpecInv, InvariantImplies, PTL

(* No row that is over keeps the encrypted link it carried.                *)
THEOREM BearerMaterialErased == Spec => []BearerErased
BY SpecInv, InvariantImplies, PTL

(***************************************************************************)
(* The outbox implements MailPromise.  Besides OutboxInv this needs that   *)
(* the row of a sender that is about to submit is not told to be over:     *)
(* it is still SENDING, or its lease ran out and it is UNCERTAIN.          *)
(***************************************************************************)
Out == {"SENDING", "UNCERTAIN"}

StillOut == \A s \in Senders : sender[s].at = "sending" => row[sender[s].job].status \in Out

PromiseInv == OutboxInv /\ StillOut

(* What a step makes of a row: its status stays, it is swept or cancelled, *)
(* it is claimed or requeued, or its outcome is recorded as it was.        *)
Stays(d) == row'[d].status = row[d].status

Swept(d) ==
  \/ row[d].status = "PENDING" /\ row'[d].status \in {"CANCELLED", "FAILED"}
  \/ row[d].status = "SENDING" /\ row'[d].status = "UNCERTAIN"

Rescheduled(d) == {row[d].status, row'[d].status} = {"PENDING", "SENDING"}

Recorded(d) ==
  \/ row[d].status \in Out /\ row'[d].status = "SENT" /\ accepted[d] = 1
  \/ row[d].status = "SENDING" /\ row'[d].status = "FAILED" /\ accepted[d] = 0
  \/ row[d].status = "SENDING" /\ row'[d].status = "UNCERTAIN"

TellsTruly ==
  /\ accepted' = accepted
  /\ \A d \in Deliveries : Stays(d) \/ Swept(d) \/ Rescheduled(d) \/ Recorded(d)

LEMMA ToldTypes ==
  \A status \in Statuses : ToldOf(status) \in Promise!Tellings
BY DEF Statuses, Final, ToldOf, Promise!Tellings

(* A step of rows is a report of the promise.                              *)
LEMMA ReportStep ==
  ASSUME OutboxInv, OutboxInv', TellsTruly
  PROVE  Promise!Report
<1> DEFINE Told == [d \in Deliveries |-> ToldOf(row[d].status)]
<1>1. \A d \in Deliveries : /\ row[d].status \in Statuses /\ row'[d].status \in Statuses
                            /\ RowOK(d)
  BY DEF OutboxInv, OutboxTypeOK, OutboxRow, RowsOK
<1>2. Told' \in [Deliveries -> Promise!Tellings]
  BY <1>1, ToldTypes
<1>3. ASSUME NEW d \in Deliveries
      PROVE  Told'[d] = Told[d] \/ Promise!MayTell(d, Told'[d])
  <2>1. Told[d] = ToldOf(row[d].status) /\ Told'[d] = ToldOf(row'[d].status)
    OBVIOUS
  <2>2. CASE Stays(d) \/ Rescheduled(d)
    <3>1. Told'[d] = Told[d]
      BY <2>1, <2>2 DEF Stays, Rescheduled, ToldOf
    <3> QED
      BY <3>1
  <2>3. CASE Swept(d)
    <3>1. \/ Told[d] = "open" /\ Told'[d] = "notDelivered" /\ accepted[d] = 0
          \/ Told[d] = "open" /\ Told'[d] = "unknown"
      BY <1>1, <2>1, <2>3 DEF Swept, ToldOf, RowOK
    <3> QED
      BY <3>1 DEF Promise!MayTell
  <2>4. CASE Recorded(d)
    <3>1. \/ Told[d] \in {"open", "unknown"} /\ Told'[d] = "delivered" /\ accepted[d] = 1
          \/ Told[d] = "open" /\ Told'[d] = "notDelivered" /\ accepted[d] = 0
          \/ Told[d] = "open" /\ Told'[d] = "unknown"
      BY <2>1, <2>4 DEF Recorded, Out, ToldOf
    <3> QED
      BY <3>1 DEF Promise!MayTell
  <2> QED
    BY <2>2, <2>3, <2>4 DEF TellsTruly
<1> QED
  BY <1>2, <1>3 DEF Promise!Report, TellsTruly

(* No sender starts, and no row moves but by a sweep.                      *)
LEMMA SweepStep ==
  ASSUME PromiseInv, accepted' = accepted,
         \A s \in Senders : sender'[s] = sender[s] \/ sender'[s].at # "sending",
         \A d \in Deliveries : Stays(d) \/ Swept(d)
  PROVE  TellsTruly /\ StillOut'
<1>1. ASSUME NEW s \in Senders, sender'[s].at = "sending"
      PROVE  row'[sender'[s].job].status \in Out
  <2>1. sender'[s] = sender[s] /\ sender[s].job \in Deliveries
    BY <1>1 DEF PromiseInv, OutboxInv, SenderOK, Working
  <2>2. row[sender[s].job].status \in Out
    BY <1>1, <2>1 DEF PromiseInv, StillOut
  <2> QED
    BY <2>1, <2>2 DEF Stays, Swept, Out
<1> QED
  BY <1>1 DEF TellsTruly, StillOut

LEMMA SweptRowTells ==
  ASSUME OutboxInv, NEW d \in Deliveries, row'[d] = SweptRow(d)
  PROVE  Stays(d) \/ Swept(d)
<1>1. row[d] \in OutboxRow
  BY DEF OutboxInv, OutboxTypeOK
<1>2. /\ Ended(row[d], "CANCELLED").status = "CANCELLED"
      /\ LeaseRunOut(row[d]).status = "UNCERTAIN"
  BY <1>1, RowEffects DEF Final
<1> QED
  BY <1>2 DEF SweptRow, Suppressible, Spent, RunOut, Stays, Swept

LEMMA ClaimTells ==
  ASSUME PromiseInv, NEW s \in Senders, Claim(s)
  PROVE  TellsTruly /\ StillOut'
<1>1. OutboxInv /\ accepted' = accepted
  BY DEF PromiseInv, Claim
<1>2. CASE row' = [d \in Deliveries |-> SweptRow(d)] /\ UNCHANGED sender
  <2>1. \A d \in Deliveries : Stays(d) \/ Swept(d)
    BY <1>1, <1>2, SweptRowTells
  <2> QED
    BY <1>1, <1>2, <2>1, SweepStep
<1>3. CASE \E d \in Deliveries :
             /\ Claimable(d)
             /\ row' = [[e \in Deliveries |-> SweptRow(e)] EXCEPT ![d] = Leased(@, s)]
             /\ sender' = [sender EXCEPT ![s] = [Idle EXCEPT !.at = "sending", !.job = d]]
  <2>1. PICK d \in Deliveries :
             /\ Claimable(d)
             /\ row' = [[e \in Deliveries |-> SweptRow(e)] EXCEPT ![d] = Leased(@, s)]
             /\ sender' = [sender EXCEPT ![s] = [Idle EXCEPT !.at = "sending", !.job = d]]
    BY <1>3
  <2>2. row[d] \in OutboxRow /\ row[d].status = "PENDING"
    BY <1>1, <2>1 DEF OutboxInv, OutboxTypeOK, Claimable
  <2>3. SweptRow(d) = row[d]
    BY <2>1, <2>2, OutboxAssumption DEF Claimable, SweptRow, Suppressible, Spent, RunOut
  <2>4. row'[d].status = "SENDING" /\ \A e \in Deliveries \ {d} : row'[e] = SweptRow(e)
    BY <2>1, <2>2, <2>3 DEF Leased, OutboxRow
  <2>5. \A e \in Deliveries \ {d} : Stays(e) \/ Swept(e)
    BY <1>1, <2>4, SweptRowTells
  <2>6. TellsTruly
    BY <1>1, <2>2, <2>4, <2>5 DEF TellsTruly, Rescheduled
  <2>7. sender'[s].job = d /\ \A t \in Senders \ {s} : sender'[t] = sender[t]
    BY <1>1, <2>1 DEF OutboxInv, OutboxTypeOK, Idle
  <2>8. ASSUME NEW t \in Senders \ {s}, sender[t].at = "sending"
        PROVE  row'[sender[t].job].status \in Out
    <3>1. /\ sender[t].job \in Deliveries /\ row[sender[t].job].status \in Out
          /\ sender[t].job # d
      BY <1>1, <2>2, <2>8 DEF PromiseInv, StillOut, OutboxInv, SenderOK, Working
    <3> QED
      BY <2>5, <3>1 DEF Stays, Swept, Out
  <2>9. StillOut'
    BY <2>4, <2>7, <2>8 DEF StillOut, Out
  <2> QED
    BY <2>6, <2>9
<1> QED
  BY <1>2, <1>3 DEF Claim

LEMMA UndecryptableTells ==
  ASSUME PromiseInv, NEW s \in Senders, ClaimUndecryptable(s)
  PROVE  TellsTruly /\ StillOut'
<1>1. PICK d \in Securities :
        /\ row[d].status = "PENDING"
        /\ row' = [e \in Deliveries |-> IF e = d THEN Ended(row[d], "FAILED") ELSE SweptRow(e)]
  BY DEF ClaimUndecryptable, Claimable
<1>2. OutboxInv /\ UNCHANGED <<sender, accepted>>
  BY DEF PromiseInv, ClaimUndecryptable
<1>3. d \in Deliveries /\ row[d] \in OutboxRow
  BY <1>2 DEF Deliveries, OutboxInv, OutboxTypeOK
<1>4. Swept(d)
  BY <1>1, <1>3, RowEffects DEF Swept, Final
<1>5. \A e \in Deliveries \ {d} : Stays(e) \/ Swept(e)
  BY <1>1, <1>2, SweptRowTells
<1> QED
  BY <1>2, <1>4, <1>5, SweepStep

(* A sender submits what is not told to be over.                           *)
LEMMA AcceptsTells ==
  ASSUME PromiseInv, NEW s \in Senders, ProviderAccepts(s)
  PROVE  (\E d \in Deliveries : Promise!Submit(d)) /\ StillOut'
<1> DEFINE d == sender[s].job
<1>1. /\ sender[s].at = "sending" /\ UNCHANGED row
      /\ accepted' = [accepted EXCEPT ![d] = @ + 1]
      /\ \E outcome \in Outcomes : Answered(s, outcome)
  BY DEF ProviderAccepts, Outcomes
<1>2. /\ d \in Deliveries /\ accepted[d] = 0 /\ row[d].status \in Out
      /\ sender \in [Senders -> [at : {"idle", "sending", "answered"},
                                job : Deliveries \cup {Nobody},
                                outcome : Outcomes \cup {"none"}]]
  BY <1>1 DEF PromiseInv, OutboxInv, OutboxTypeOK, SenderOK, StillOut, Working
<1>3. Promise!Submit(d)
  <2>1. ToldOf(row[d].status) \in {"open", "unknown"}
    BY <1>2 DEF Out, ToldOf
  <2>2. accepted' = [accepted EXCEPT ![d] = 1]
    BY <1>1, <1>2
  <2> HIDE DEF d
  <2> QED
    BY <1>1, <1>2, <2>1, <2>2 DEF Promise!Submit
<1>4. StillOut'
  <2>1. sender'[s].at = "answered" /\ \A t \in Senders \ {s} : sender'[t] = sender[t]
    BY <1>1, <1>2 DEF Answered
  <2> QED
    BY <1>1, <2>1 DEF PromiseInv, StillOut
<1> QED
  BY <1>2, <1>3, <1>4

LEMMA DeclinesTells ==
  ASSUME PromiseInv, NEW s \in Senders, ProviderDeclines(s) \/ Crash(s)
  PROVE  TellsTruly /\ StillOut'
<1>1. UNCHANGED <<row, accepted>>
  BY DEF ProviderDeclines, Crash
<1>2. \A t \in Senders : sender'[t] = sender[t] \/ sender'[t].at # "sending"
  BY DEF PromiseInv, OutboxInv, OutboxTypeOK, ProviderDeclines, Crash, Answered, Idle
<1> QED
  BY <1>1, <1>2, SweepStep DEF Stays

LEMMA CompletedStatus ==
  ASSUME NEW r \in OutboxRow, NEW outcome \in Outcomes
  PROVE  LET status == Completed(r, outcome).status IN
           \/ status = "SENT" /\ outcome = "sent"
           \/ status = "PENDING" /\ outcome \in {"retry", "paused"}
           \/ status = "UNCERTAIN" /\ outcome = "uncertain"
           \/ status = "FAILED" /\ outcome \in {"retry", "failed"}
<1>1. /\ Ended(r, "SENT").status = "SENT" /\ Ended(r, "UNCERTAIN").status = "UNCERTAIN"
      /\ Ended(r, "FAILED").status = "FAILED"
      /\ Requeued(r, "LATER").status = "PENDING" /\ Requeued(r, "HELD").status = "PENDING"
  BY RowEffects DEF Final
<1> QED
  BY <1>1 DEF Completed, Outcomes

(* Two senders never work on one row, so no other sender is about to       *)
(* submit the message whose outcome is recorded.                           *)
LEMMA CompleteTells ==
  ASSUME PromiseInv, NEW s \in Senders, Complete(s)
  PROVE  TellsTruly /\ StillOut'
<1>0. PICK d : d = sender[s].job
  OBVIOUS
<1> DEFINE r == Completed(row[d], sender[s].outcome)
<1>1. /\ sender[s].at = "answered" /\ Working(s) /\ SenderOK(s) /\ OutboxTypeOK /\ Exclusive
      /\ sender' = [sender EXCEPT ![s] = Idle] /\ accepted' = accepted
  BY DEF Complete, PromiseInv, OutboxInv, Working
<1>2. d \in Deliveries /\ sender[s].outcome \in Outcomes /\ row[d] \in OutboxRow
  BY <1>0, <1>1 DEF SenderOK, OutboxTypeOK
<1>3. sender'[s].at = "idle" /\ \A t \in Senders \ {s} : sender'[t] = sender[t]
  BY <1>1 DEF OutboxTypeOK, Idle
<1>4. CASE row[d].status = "SENDING" /\ row[d].lease = s
  <2>1. row' = [row EXCEPT ![d] = r]
    BY <1>0, <1>4 DEF Complete
  <2>2. \/ r.status = "SENT" /\ accepted[d] = 1
        \/ r.status = "PENDING"
        \/ r.status = "UNCERTAIN"
        \/ r.status = "FAILED" /\ accepted[d] = 0
    BY <1>0, <1>1, <1>2, CompletedStatus DEF SenderOK
  <2> HIDE DEF r
  <2>3. row'[d] = r /\ \A e \in Deliveries \ {d} : row'[e] = row[e]
    BY <1>1, <1>2, <2>1 DEF OutboxTypeOK
  <2>4. Rescheduled(d) \/ Recorded(d)
    BY <1>4, <2>2, <2>3 DEF Rescheduled, Recorded, Out
  <2>5. TellsTruly
    BY <1>1, <2>3, <2>4 DEF TellsTruly, Stays
  <2>6. ASSUME NEW t \in Senders \ {s}, sender[t].at = "sending"
        PROVE  row'[sender[t].job].status \in Out
    <3>1. sender[t].job # d /\ sender[t].job \in Deliveries /\ row[sender[t].job].status \in Out
      BY <1>0, <1>1, <2>6 DEF Exclusive, Working, PromiseInv, StillOut, OutboxInv, SenderOK
    <3> QED
      BY <2>3, <3>1
  <2>7. StillOut'
    BY <1>3, <2>6 DEF StillOut
  <2> QED
    BY <2>5, <2>7
<1>5. CASE ~(row[d].status = "SENDING" /\ row[d].lease = s)
  <2>1. UNCHANGED row
    BY <1>0, <1>5 DEF Complete
  <2>2. \A t \in Senders : sender'[t] = sender[t] \/ sender'[t].at # "sending"
    BY <1>3
  <2> QED
    BY <1>1, <2>1, <2>2, SweepStep DEF Stays
<1> QED
  BY <1>4, <1>5

(* Operators, time and users.                                              *)
LEMMA AgentTells ==
  ASSUME PromiseInv, PauseAgent \/ ResumeAgent
  PROVE  TellsTruly /\ StillOut'
<1>1. UNCHANGED <<sender, accepted>> /\ row \in [Deliveries -> OutboxRow]
  BY DEF PromiseInv, OutboxInv, OutboxTypeOK, PauseAgent, ResumeAgent
<1>2. ASSUME NEW e \in Deliveries PROVE Stays(e)
  BY <1>1 DEF PauseAgent, ResumeAgent, OutboxRow, Stays
<1> QED
  BY <1>1, <1>2, SweepStep

LEMMA RowCommandTells ==
  ASSUME PromiseInv, NEW d \in Deliveries,
         \/ RetryNow(d) \/ BackoffEnds(d) \/ LeaseExpires(d)
         \/ Cancel(d) \/ Suppress(d) \/ Unsuppress(d)
  PROVE  TellsTruly /\ StillOut'
<1>1. UNCHANGED <<sender, accepted>> /\ row \in [Deliveries -> OutboxRow]
  BY DEF PromiseInv, OutboxInv, OutboxTypeOK, RetryNow, BackoffEnds, LeaseExpires, Cancel,
         Suppress, Unsuppress
<1>2. CASE RetryNow(d) \/ BackoffEnds(d) \/ LeaseExpires(d) \/ Unsuppress(d)
  <2>1. \A e \in Deliveries : Stays(e)
    BY <1>1, <1>2 DEF RetryNow, BackoffEnds, LeaseExpires, Unsuppress, OutboxRow, Stays
  <2> QED
    BY <1>1, <2>1, SweepStep
<1>3. CASE Cancel(d) \/ Suppress(d)
  <2>1. \/ row' = row
        \/ row' = [row EXCEPT ![d] = Ended(row[d], "CANCELLED")] /\ row[d].status = "PENDING"
    BY <1>3 DEF Cancel, Suppress
  <2>2. Ended(row[d], "CANCELLED").status = "CANCELLED"
    BY <1>1, RowEffects DEF Final
  <2>3. \A e \in Deliveries : Stays(e) \/ Swept(e)
    BY <1>1, <2>1, <2>2 DEF Stays, Swept
  <2> QED
    BY <1>1, <2>3, SweepStep
<1> QED
  BY <1>2, <1>3

LEMMA ReconcileTells ==
  ASSUME PromiseInv, NEW d \in Deliveries, Reconcile(d)
  PROVE  TellsTruly /\ StillOut'
<1>1. /\ accepted[d] > 0 /\ row[d].status = "UNCERTAIN"
      /\ row' = [row EXCEPT ![d].status = "SENT", ![d].leaseExpired = FALSE]
      /\ UNCHANGED <<sender, accepted>>
  BY DEF Reconcile
<1>2. /\ row \in [Deliveries -> OutboxRow] /\ accepted[d] = 1
      /\ \A s \in Senders : SenderOK(s)
  BY <1>1 DEF PromiseInv, OutboxInv, OutboxTypeOK, SubmittedAtMostOnce
<1>3. row'[d].status = "SENT" /\ \A e \in Deliveries \ {d} : row'[e] = row[e]
  BY <1>1, <1>2 DEF OutboxRow
<1>4. TellsTruly
  BY <1>1, <1>2, <1>3 DEF TellsTruly, Stays, Recorded, Out
<1>5. ASSUME NEW s \in Senders, sender[s].at = "sending"
      PROVE  row'[sender[s].job].status \in Out
  <2>1. /\ sender[s].job \in Deliveries /\ accepted[sender[s].job] = 0
        /\ row[sender[s].job].status \in Out
    BY <1>2, <1>5 DEF SenderOK, Working, PromiseInv, StillOut
  <2> QED
    BY <1>2, <1>3, <2>1
<1> QED
  BY <1>1, <1>4, <1>5 DEF StillOut

LEMMA StillTells ==
  ASSUME PromiseInv, UNCHANGED <<row, sender, accepted>>
  PROVE  TellsTruly /\ StillOut'
BY SweepStep DEF Stays

(* Every step submits one message or reports, and keeps StillOut.          *)
LEMMA PromiseStep ==
  ASSUME PromiseInv, [Next]_vars
  PROVE  /\ TellsTruly \/ \E d \in Deliveries : Promise!Submit(d)
         /\ StillOut'
<1>1. ASSUME NEW s \in Senders, Poll(s) \/ ClaimUndecryptable(s) \/ Crash(s)
      PROVE  /\ TellsTruly \/ \E d \in Deliveries : Promise!Submit(d)
             /\ StillOut'
  BY <1>1, ClaimTells, AcceptsTells, DeclinesTells, CompleteTells, UndecryptableTells DEF Poll
<1>2. CASE PauseAgent \/ ResumeAgent
  BY <1>2, AgentTells
<1>3. ASSUME NEW d \in Deliveries,
             \/ RetryNow(d) \/ Cancel(d) \/ Suppress(d) \/ Unsuppress(d) \/ Reconcile(d)
             \/ BackoffEnds(d) \/ LeaseExpires(d)
      PROVE  TellsTruly /\ StillOut'
  BY <1>3, RowCommandTells, ReconcileTells
<1>4. ASSUME NEW d \in Securities, LinkSpent(d) PROVE TellsTruly /\ StillOut'
  BY <1>4, StillTells DEF LinkSpent
<1>5. CASE UNCHANGED vars
  BY <1>5, StillTells DEF vars
<1> QED
  BY <1>1, <1>2, <1>3, <1>4, <1>5 DEF Next

LEMMA PromiseInitial == Init => PromiseInv /\ Promise!PromiseInit
<1> SUFFICES ASSUME Init PROVE PromiseInv /\ Promise!PromiseInit
  OBVIOUS
<1>1. PromiseInv
  BY InitInv DEF PromiseInv, StillOut, Init, Idle
<1>2. Promise!PromiseInit
  BY DEF Init, ToldOf, Promise!PromiseInit
<1> QED
  BY <1>1, <1>2

LEMMA PromiseNextStep ==
  PromiseInv /\ [Next]_vars
    => PromiseInv' /\ [Promise!PromiseNext]_(Promise!promiseVars)
<1> SUFFICES ASSUME PromiseInv, [Next]_vars
             PROVE  PromiseInv' /\ Promise!PromiseNext
  OBVIOUS
<1>1. OutboxInv /\ OutboxInv'
  BY NextInv DEF PromiseInv
<1> QED
  BY <1>1, PromiseStep, ReportStep DEF PromiseInv, Promise!PromiseNext

(* The outbox implements its promise, for any number of deliveries and     *)
(* senders, crashes, stalls and operator commands: a message is submitted  *)
(* at most once and never after FAILED or CANCELLED was told of it, and    *)
(* what was told of a message is corrected only from UNCERTAIN to SENT.    *)
THEOREM OutboxImplementsPromise == Spec => ImplementsPromise
BY PromiseInitial, PromiseNextStep, PTL
   DEF Spec, SafeSpec, ImplementsPromise, Promise!PromiseSpec
=============================================================================
