---------------------------- MODULE AccountSetup ----------------------------
(***************************************************************************)
(* The set-up link of one invited account (src/lib/account-setup.ts,       *)
(* account-email.ts, account-invitation-delivery.ts, user-isolation.ts).   *)
(*                                                                         *)
(* An administrator's server action stores an invitation, then carries     *)
(* its raw token, which only that action's memory holds, to the e-mail     *)
(* sender: claim, one HTTP request, record.  Meanwhile other actions       *)
(* replace the invitation or suspend the account, links expire, the        *)
(* application restarts, and visitors who received a link inspect it, wait *)
(* for the password hash and only then complete the set-up.                *)
(*                                                                         *)
(* A transaction of the code is one action.  Links are numbered in order   *)
(* of creation; MaxLinks bounds how many are ever issued (the code's       *)
(* hourly and daily quotas are bounds of the same kind).                   *)
(***************************************************************************)
EXTENDS Naturals, FiniteSets

CONSTANTS MaxLinks,  \* invitations one account may receive
          Visitors   \* set-up requests that can be open at once

ASSUME MaxLinksAssumption == MaxLinks \in Nat \ {0}

VARIABLES
  account,   \* users.account_status, "NONE" before the invitation
  link,      \* the account's rows of account_setup_invitations
  courier,   \* per link, where the server action that delivers it stands
  wire,      \* requests to the e-mail sender that it has not handled
  mailed,    \* links whose message the provider accepted
  told,      \* per link, what the administrator was told
  form       \* per visitor, the link inspected and not yet completed, or 0

vars == <<account, link, courier, wire, mailed, told, form>>

Links == 1..MaxLinks

Undelivered == {"PENDING", "SENDING"}
Outcomes    == {"sent", "disabled", "failed", "uncertain"}
Couriers    == {"none", "start", "waiting", "end"} \cup Outcomes
Statuses    == {"NONE", "PENDING", "SENDING", "SENT", "FAILED", "DISABLED",
                "UNCERTAIN", "CANCELLED"}

NoLink  == [status |-> "NONE", consumed |-> FALSE, revoked |-> FALSE,
            expired |-> FALSE, recent |-> FALSE]
NewLink == [NoLink EXCEPT !.status = "PENDING", !.recent = TRUE]

Issued  == {i \in Links : link[i].status # "NONE"}
Current == {i \in Issued : ~link[i].consumed /\ ~link[i].revoked}

\* Revoking cancels a delivery that has no outcome yet.
Retired(row) ==
  [row EXCEPT !.revoked = TRUE,
              !.status = IF @ \in Undelivered THEN "CANCELLED" ELSE @]

RetireAll(S) == [i \in Links |-> IF i \in S THEN Retired(link[i]) ELSE link[i]]

Init ==
  /\ account = "NONE"
  /\ link    = [i \in Links |-> NoLink]
  /\ courier = [i \in Links |-> "none"]
  /\ wire    = {}
  /\ mailed  = {}
  /\ told    = [i \in Links |-> "nothing"]
  /\ form    = [v \in Visitors |-> 0]

(***************************************************************************)
(* Issuing a link                                                          *)
(***************************************************************************)
CreateInvitedUser ==
  /\ account = "NONE"
  /\ account' = "INVITED"
  /\ link'    = [link EXCEPT ![1] = NewLink]
  /\ courier' = [courier EXCEPT ![1] = "start"]
  /\ UNCHANGED <<wire, mailed, told, form>>

\* Fault: the link's expiry is not looked at.
BlockerUntilSettled(i) ==
  IF link[i].status \in Undelivered   THEN "pending"
  ELSE IF link[i].status = "SENT"     THEN "delivered"
  ELSE "none"

\* accountSetupInvitationReplacementBlocker
Blocker(i) ==
  IF link[i].expired                       THEN "none"
  ELSE IF link[i].status \in Undelivered   THEN "pending"
  ELSE IF link[i].status = "SENT"          THEN "delivered"
  ELSE "none"

\* The cooldown looks at every link that is not revoked.
CoolingDown == \E i \in Issued : link[i].recent /\ ~link[i].revoked

ResendInvitation ==
  /\ account = "INVITED"
  /\ \A i \in Current : Blocker(i) = "none"
  /\ ~CoolingDown
  /\ Cardinality(Issued) < MaxLinks
  /\ LET new == Cardinality(Issued) + 1
     IN  /\ link'    = [RetireAll(Current) EXCEPT ![new] = NewLink]
         /\ courier' = [courier EXCEPT ![new] = "start"]
  /\ UNCHANGED <<account, wire, mailed, told, form>>

(***************************************************************************)
(* Delivering it                                                           *)
(***************************************************************************)
Move(i, place) == courier' = [courier EXCEPT ![i] = place]

\* AXORA_EMAIL_DELIVERY_ENABLED is not "true".
DeliveryDisabled(i) ==
  /\ courier[i] = "start"
  /\ Move(i, "disabled")
  /\ UNCHANGED <<account, link, wire, mailed, told, form>>

MayClaim(i) ==
  /\ link[i].status = "PENDING"
  /\ ~link[i].consumed /\ ~link[i].revoked /\ ~link[i].expired
  /\ account = "INVITED"

\* authorizeAccountSetupDelivery claims the row; the request then leaves.
Claim(i) ==
  /\ courier[i] = "start"
  /\ MayClaim(i)
  /\ link' = [link EXCEPT ![i].status = "SENDING"]
  /\ wire' = wire \cup {i}
  /\ Move(i, "waiting")
  /\ UNCHANGED <<account, mailed, told, form>>

\* The claim is refused (the row, a paused agent, a suppressed recipient), or
\* the query fails, before or after its transaction committed.
ClaimRefused(i) ==
  /\ courier[i] = "start"
  /\ Move(i, "failed")
  /\ link' \in {link} \cup
       (IF MayClaim(i) THEN {[link EXCEPT ![i].status = "SENDING"]} ELSE {})
  /\ UNCHANGED <<account, wire, mailed, told, form>>

\* The e-mail sender submits the message to the provider, perhaps after the
\* application stopped waiting; "lost" is an answer that does not arrive.
SenderHandles(i, answer, accepted) ==
  /\ i \in wire
  /\ answer = "sent"   => accepted
  /\ answer = "failed" => ~accepted
  /\ wire' = wire \ {i}
  /\ mailed' = IF accepted THEN mailed \cup {i} ELSE mailed
  /\ IF courier[i] = "waiting" /\ answer # "lost"
       THEN Move(i, answer) ELSE UNCHANGED courier
  /\ UNCHANGED <<account, link, told, form>>

\* Eighteen seconds without an answer: the request had started.
RequestTimesOut(i) ==
  /\ courier[i] = "waiting"
  /\ Move(i, "uncertain")
  /\ UNCHANGED <<account, link, wire, mailed, told, form>>

\* Fault: an unanswered request is taken for a delivery.
StatusForHopeful(outcome, status) ==
  IF outcome \in {"failed", "disabled"} THEN "CANCELLED" ELSE "SENT"

\* The status recordAccountSetupDelivery stores.
StatusFor(outcome, status) ==
  CASE outcome = "sent"      -> "SENT"
    [] outcome = "disabled"  -> "DISABLED"
    [] outcome = "uncertain" -> "UNCERTAIN"
    [] outcome = "failed"    -> IF status = "PENDING" THEN "CANCELLED" ELSE "FAILED"

Recorded(i) ==
  IF link[i].status \in Undelivered
    THEN [link EXCEPT ![i].status = StatusFor(courier[i], @)]
    ELSE link

\* Fault: the raw delivery status reaches the administrator.
AnswerForRaw(outcome) == outcome

\* What deliverAccountSetupInvitation answers when the row was updated.  An
\* administrator's lifecycle that cannot be synchronized afterwards is still
\* reported as sent.
AnswerFor(outcome) == IF outcome = "uncertain" THEN "failed" ELSE outcome

\* A row no longer PENDING or SENDING was cancelled meanwhile; nothing is
\* written and the answer is "unconfirmed".
RecordDelivery(i) ==
  /\ courier[i] \in Outcomes
  /\ link' = Recorded(i)
  /\ told' = [told EXCEPT ![i] = IF link[i].status \in Undelivered
                                   THEN AnswerFor(courier[i])
                                   ELSE "unconfirmed"]
  /\ Move(i, "end")
  /\ UNCHANGED <<account, wire, mailed, form>>

\* The recording query throws, before or after its transaction committed.
RecordingFails(i) ==
  /\ courier[i] \in Outcomes
  /\ link' \in {link, Recorded(i)}
  /\ told' = [told EXCEPT ![i] = "unconfirmed"]
  /\ Move(i, "end")
  /\ UNCHANGED <<account, wire, mailed, form>>

(***************************************************************************)
(* Using it                                                                *)
(***************************************************************************)
Eligible(i) ==
  /\ link[i].status = "SENT"
  /\ ~link[i].consumed /\ ~link[i].revoked /\ ~link[i].expired
  /\ account = "INVITED"

\* consumeAccountSetupToken first inspects the link, then hashes the password.
Inspect(v, i) ==
  /\ form[v] = 0
  /\ i \in mailed
  /\ Eligible(i)
  /\ form' = [form EXCEPT ![v] = i]
  /\ UNCHANGED <<account, link, courier, wire, mailed, told>>

\* Fault: the inspection is trusted.
StillEligibleTrusted(i) == ~link[i].consumed

\* Its transaction repeats every condition.  The repetition may still read a
\* snapshot from before it got the row locks; a trigger and a CHECK of the
\* table then refuse to consume a revoked or consumed link, and the completion
\* rolls back.  Either way only a link that is eligible now is consumed.
StillEligible(i) == Eligible(i)

Complete(v) ==
  /\ form[v] # 0
  /\ form' = [form EXCEPT ![v] = 0]
  /\ IF StillEligible(form[v])
       THEN /\ account' = "ACTIVE"
            /\ link' = [RetireAll(Current \ {form[v]})
                          EXCEPT ![form[v]].consumed = TRUE]
       ELSE UNCHANGED <<account, link>>
  /\ UNCHANGED <<courier, wire, mailed, told>>

(***************************************************************************)
(* The account, time and restarts                                          *)
(***************************************************************************)
SetUpCompleted == \E i \in Links : link[i].consumed

\* setAuthorizedUserActive(false) revokes the links before it suspends.
Deactivate ==
  /\ account \in {"INVITED", "ACTIVE"}
  /\ account' = "SUSPENDED"
  /\ link' = RetireAll(Current)
  /\ UNCHANGED <<courier, wire, mailed, told, form>>

Reactivate ==
  /\ account = "SUSPENDED"
  /\ account' = IF SetUpCompleted THEN "ACTIVE" ELSE "INVITED"
  /\ UNCHANGED <<link, courier, wire, mailed, told, form>>

\* A minute passes, or the link's twenty-four hours.
CoolDown(i) ==
  /\ link[i].recent
  /\ link' = [link EXCEPT ![i].recent = FALSE]
  /\ UNCHANGED <<account, courier, wire, mailed, told, form>>

Expire(i) ==
  /\ i \in Issued /\ ~link[i].expired
  /\ link' = [link EXCEPT ![i].expired = TRUE, ![i].recent = FALSE]
  /\ UNCHANGED <<account, courier, wire, mailed, told, form>>

\* The application restarts: every raw token and open request is gone.
Crash ==
  /\ \E i \in Links : courier[i] \notin {"none", "end"}
  /\ courier' = [i \in Links |-> IF courier[i] = "none" THEN "none" ELSE "end"]
  /\ form'    = [v \in Visitors |-> 0]
  /\ UNCHANGED <<account, link, wire, mailed, told>>

Next ==
  \/ CreateInvitedUser \/ ResendInvitation
  \/ Deactivate \/ Reactivate \/ Crash
  \/ \E i \in Links :
       \/ DeliveryDisabled(i) \/ Claim(i) \/ ClaimRefused(i)
       \/ \E answer \in {"sent", "failed", "uncertain", "lost"}, b \in BOOLEAN :
            SenderHandles(i, answer, b)
       \/ RequestTimesOut(i) \/ RecordDelivery(i) \/ RecordingFails(i)
       \/ CoolDown(i) \/ Expire(i)
       \/ \E v \in Visitors : Inspect(v, i)
  \/ \E v \in Visitors : Complete(v)

\* Only the clock is fair: a link's day ends whatever the processes do.
Spec == Init /\ [][Next]_vars /\ \A i \in Links : WF_vars(Expire(i))

-----------------------------------------------------------------------------
(***************************************************************************)
(* Properties                                                              *)
(***************************************************************************)
Rows == [status : Statuses, consumed : BOOLEAN, revoked : BOOLEAN,
         expired : BOOLEAN, recent : BOOLEAN]

\* The variables keep their types, and links are issued in order.
SetupTypeOK ==
  /\ account \in {"NONE", "INVITED", "ACTIVE", "SUSPENDED"}
  /\ link    \in [Links -> Rows]
  /\ courier \in [Links -> Couriers]
  /\ wire \subseteq Links /\ mailed \subseteq Links
  /\ told \in [Links -> {"nothing", "sent", "disabled", "failed", "unconfirmed"}]
  /\ form \in [Visitors -> Links \cup {0}]
  /\ \A i \in Issued : \A j \in 1..i : j \in Issued

\* The account is set up at most once, through the last link issued, and never
\* through one that was revoked, by a replacement or by a suspension, while
\* the visitor's password was being hashed.
SetUpByTheLastLink ==
  /\ \A i \in Links : link[i].consumed =>
       /\ ~link[i].revoked
       /\ \A j \in Issued : j <= i
  /\ account = "ACTIVE" => SetUpCompleted
  /\ account = "INVITED" => ~SetUpCompleted

\* What the administrator reads is true and stays true: "sent" means that the
\* provider took the message and the row says so; after "failed" or
\* "disabled" the link never sets up the account, even when a message whose
\* answer was lost reaches the recipient.
DeliveryAnswersAreTrue ==
  \A i \in Links :
    /\ told[i] = "sent" => link[i].status = "SENT" /\ i \in mailed
    /\ told[i] \in {"failed", "disabled"} => ~link[i].consumed

\* A delivery that lost its courier (a restart between claim and record) does
\* not block a replacement for ever.
PendingBlockEnds ==
  \A i \in Links :
    (i \in Current /\ Blocker(i) = "pending")
      ~> ~(i \in Current /\ Blocker(i) = "pending")
=============================================================================
