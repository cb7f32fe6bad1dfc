----------------------------- MODULE EmailOutbox -----------------------------
(***************************************************************************)
(* The transactional e-mail outbox: rows claimed under a lease by sender   *)
(* processes, submitted to an external provider, and completed in a second *)
(* transaction.  Between the two the sender may die, the provider may time *)
(* out after accepting, the lease may expire, and operators may pause the  *)
(* agent, cancel a row or suppress its recipient.                          *)
(***************************************************************************)
EXTENDS Naturals, FiniteSets

CONSTANTS
  Contacts,     \* deliveries about a public contact enquiry
  Securities,   \* deliveries that carry a password or verification link
  Senders,      \* email-sender processes
  Nobody,
  MaxAttempts,  \* OUTBOX_MAX_ATTEMPTS
  MaxFaults,    \* bound: crashes and stalls of senders
  MaxControls   \* bound: operator commands

ASSUME OutboxAssumption ==
  /\ Contacts \cap Securities = {} /\ Nobody \notin Senders
  /\ MaxAttempts \in Nat \ {0} /\ MaxFaults \in Nat /\ MaxControls \in Nat

VARIABLES
  row,         \* transactional_email_outbox
  enquiry,     \* notification_status of the enquiry a row is about
  source,      \* the reset or verification token: LIVE until used or expired
  suppressed,  \* recipients the provider or an operator suppressed
  paused,      \* the agent is paused
  sender,      \* where each sender is in its poll
  accepted,    \* how often the provider accepted each delivery
  faults, controls

vars == <<row, enquiry, source, suppressed, paused, sender, accepted, faults, controls>>

Deliveries == Contacts \cup Securities

Final == {"SENT", "FAILED", "UNCERTAIN", "CANCELLED"}
Statuses == {"PENDING", "SENDING"} \cup Final
(* "disabled", which the completion route also takes, comes from no sender. *)
Outcomes == {"sent", "retry", "failed", "paused", "uncertain"}

OutboxRow ==
  [status : Statuses, attempts : 0..MaxAttempts, available : {"NOW", "LATER", "HELD"},
   lease : Senders \cup {Nobody}, leaseLive : BOOLEAN, bearer : BOOLEAN,
   leaseExpired : BOOLEAN]

Idle == [at |-> "idle", job |-> Nobody, outcome |-> "none"]

Init ==
  /\ row = [d \in Deliveries |->
              [status |-> "PENDING", attempts |-> 0, available |-> "NOW", lease |-> Nobody,
               leaseLive |-> FALSE, bearer |-> d \in Securities, leaseExpired |-> FALSE]]
  /\ enquiry = [d \in Contacts |-> "RECEIVED"]
  /\ source = [d \in Securities |-> "LIVE"]
  /\ suppressed = {} /\ paused = FALSE
  /\ sender = [s \in Senders |-> Idle]
  /\ accepted = [d \in Deliveries |-> 0]
  /\ faults = 0 /\ controls = 0

-----------------------------------------------------------------------------
(* Row transitions. *)

(* Every path that ends a row also erases the bearer material it carries. *)
Ended(r, status) ==
  [r EXCEPT !.status = status, !.lease = Nobody, !.leaseLive = FALSE, !.bearer = FALSE]

(* Fault: an expired lease keeps the link. *)
LeaseRunOutKeepingBearer(r) ==
  [Ended(r, "UNCERTAIN") EXCEPT !.leaseExpired = TRUE, !.bearer = r.bearer]

LeaseRunOut(r) == [Ended(r, "UNCERTAIN") EXCEPT !.leaseExpired = TRUE]

(* A row that becomes PENDING is held while the agent is paused (trigger). *)
Requeued(r, available) ==
  [r EXCEPT !.status = "PENDING", !.lease = Nobody, !.leaseLive = FALSE,
            !.available = IF paused THEN "HELD" ELSE available]

(* Fault: an attempt whose outcome is unknown is tried again. *)
CompletedRetryingUncertain(r, outcome) ==
  CASE outcome = "sent" -> Ended(r, "SENT")
    [] outcome = "paused" -> Requeued(r, "HELD")
    [] outcome \in {"retry", "uncertain"} /\ r.attempts < MaxAttempts -> Requeued(r, "LATER")
    [] OTHER -> Ended(r, "FAILED")

(* Fault: an attempt whose outcome is unknown is taken for a failure. *)
CompletedFailingUncertain(r, outcome) ==
  CASE outcome = "sent" -> Ended(r, "SENT")
    [] outcome = "paused" -> Requeued(r, "HELD")
    [] outcome = "retry" /\ r.attempts < MaxAttempts -> Requeued(r, "LATER")
    [] OTHER -> Ended(r, "FAILED")

Completed(r, outcome) ==
  CASE outcome = "sent" -> Ended(r, "SENT")
    [] outcome = "paused" -> Requeued(r, "HELD")
    [] outcome = "retry" /\ r.attempts < MaxAttempts -> Requeued(r, "LATER")
    [] outcome = "uncertain" -> Ended(r, "UNCERTAIN")
    [] OTHER -> Ended(r, "FAILED")

(* Fault: only a failure is reported as one. *)
EnquiryStatusUnlessFailed(status) ==
  IF status = "FAILED" THEN "NOTIFICATION_FAILED" ELSE "NOTIFIED"

EnquiryStatus(status) ==
  CASE status = "SENT" -> "NOTIFIED"
    [] status = "UNCERTAIN" -> "NOTIFICATION_UNCERTAIN"
    [] OTHER -> "NOTIFICATION_FAILED"

-----------------------------------------------------------------------------
(* A poll of one sender. *)

(* What a claim clears away first: suppressed recipients, spent links and  *)
(* leases that ran out.                                                    *)
Suppressible(d) == row[d].status = "PENDING" /\ d \in suppressed
Spent(d) == row[d].status = "PENDING" /\ d \in Securities /\ source[d] = "SPENT"
(* Fault: nobody looks for leases that ran out. *)
RunOutUnnoticed(d) == FALSE

RunOut(d) == row[d].status = "SENDING" /\ ~row[d].leaseLive

SweptRow(d) ==
  IF Suppressible(d) \/ Spent(d) THEN Ended(row[d], "CANCELLED")
  ELSE IF RunOut(d) THEN LeaseRunOut(row[d])
  ELSE row[d]

SweptEnquiry ==
  [d \in Contacts |->
     IF Suppressible(d) THEN "NOTIFICATION_FAILED"
     ELSE IF RunOut(d) THEN "NOTIFICATION_UNCERTAIN" ELSE enquiry[d]]

(* Fault: the attempts are not counted. *)
ClaimableForEver(d) ==
  /\ row[d].status = "PENDING" /\ row[d].available = "NOW" /\ d \notin suppressed
  /\ IF d \in Contacts THEN enquiry[d] = "RECEIVED" ELSE source[d] = "LIVE"

Claimable(d) ==
  /\ row[d].status = "PENDING" /\ row[d].attempts < MaxAttempts
  /\ row[d].available = "NOW" /\ d \notin suppressed
  /\ IF d \in Contacts THEN enquiry[d] = "RECEIVED" ELSE source[d] = "LIVE"

Leased(r, s) ==
  [r EXCEPT !.status = "SENDING", !.attempts = @ + 1, !.lease = s, !.leaseLive = TRUE]

Claim(s) ==
  LET swept == [d \in Deliveries |-> SweptRow(d)] IN
  /\ sender[s] = Idle
  /\ enquiry' = SweptEnquiry
  /\ \/ /\ \A d \in Deliveries : ~Claimable(d)
        /\ row' = swept /\ UNCHANGED sender
     \/ \E d \in Deliveries :
          /\ Claimable(d)
          /\ row' = [swept EXCEPT ![d] = Leased(@, s)]
          /\ sender' = [sender EXCEPT ![s] = [Idle EXCEPT !.at = "sending", !.job = d]]
  /\ UNCHANGED <<source, suppressed, paused, accepted, faults, controls>>

(* The stored link no longer decrypts: the claim ends the row instead. *)
ClaimUndecryptable(s) ==
  /\ sender[s] = Idle
  /\ faults < MaxFaults /\ faults' = faults + 1
  /\ \E d \in Securities :
       /\ Claimable(d)
       /\ row' = [e \in Deliveries |-> IF e = d THEN Ended(row[d], "FAILED") ELSE SweptRow(e)]
  /\ enquiry' = SweptEnquiry
  /\ UNCHANGED <<source, suppressed, paused, sender, accepted, controls>>

Answered(s, outcome) ==
  sender' = [sender EXCEPT ![s].at = "answered", ![s].outcome = outcome]

(* The provider accepts; the answer may be late or unreadable. *)
ProviderAccepts(s) ==
  /\ sender[s].at = "sending"
  /\ accepted' = [accepted EXCEPT ![sender[s].job] = @ + 1]
  /\ \E outcome \in {"sent", "uncertain"} : Answered(s, outcome)
  /\ UNCHANGED <<row, enquiry, source, suppressed, paused, faults, controls>>

(* 429 and 5xx are retried, 401 and 403 pause, other answers fail; silence *)
(* is uncertain.                                                           *)
ProviderDeclines(s) ==
  /\ sender[s].at = "sending"
  /\ \E outcome \in Outcomes \ {"sent"} : Answered(s, outcome)
  /\ UNCHANGED <<row, enquiry, source, suppressed, paused, accepted, faults, controls>>

(* A completion whose lease is gone records nothing (stale_lease). *)
Complete(s) ==
  LET d == sender[s].job
      r == Completed(row[d], sender[s].outcome) IN
  /\ sender[s].at = "answered"
  /\ sender' = [sender EXCEPT ![s] = Idle]
  /\ IF row[d].status = "SENDING" /\ row[d].lease = s
     THEN /\ row' = [row EXCEPT ![d] = r]
          /\ enquiry' = IF d \in Contacts /\ r.status # "PENDING" /\ enquiry[d] = "RECEIVED"
                        THEN [enquiry EXCEPT ![d] = EnquiryStatus(r.status)] ELSE enquiry
     ELSE UNCHANGED <<row, enquiry>>
  /\ UNCHANGED <<source, suppressed, paused, accepted, faults, controls>>

Crash(s) ==
  /\ sender[s] # Idle
  /\ faults < MaxFaults /\ faults' = faults + 1
  /\ sender' = [sender EXCEPT ![s] = Idle]
  /\ UNCHANGED <<row, enquiry, source, suppressed, paused, accepted, controls>>

-----------------------------------------------------------------------------
(* Operators, time and users. *)

Command == controls < MaxControls /\ controls' = controls + 1

PauseAgent ==
  /\ Command /\ ~paused
  /\ paused' = TRUE
  /\ row' = [d \in Deliveries |->
               IF row[d].status = "PENDING" THEN [row[d] EXCEPT !.available = "HELD"] ELSE row[d]]
  /\ UNCHANGED <<enquiry, source, suppressed, sender, accepted, faults>>

(* Also lifts a hold that a provider's 401 or 403 left on a row. *)
ResumeAgent ==
  /\ Command
  /\ paused' = FALSE
  /\ row' = [d \in Deliveries |->
               IF row[d].status = "PENDING" /\ row[d].available = "HELD"
               THEN [row[d] EXCEPT !.available = "NOW"] ELSE row[d]]
  /\ UNCHANGED <<enquiry, source, suppressed, sender, accepted, faults>>

RetryNow(d) ==
  /\ Command /\ row[d].status = "PENDING" /\ row[d].attempts < MaxAttempts
  /\ d \notin suppressed
  /\ row' = [row EXCEPT ![d].available = IF paused THEN "HELD" ELSE "NOW"]
  /\ UNCHANGED <<enquiry, source, suppressed, paused, sender, accepted, faults>>

Cancel(d) ==
  /\ Command /\ row[d].status = "PENDING"
  /\ row' = [row EXCEPT ![d] = Ended(@, "CANCELLED")]
  /\ UNCHANGED <<enquiry, source, suppressed, paused, sender, accepted, faults>>

Suppress(d) ==
  /\ Command
  /\ suppressed' = suppressed \cup {d}
  /\ row' = IF row[d].status = "PENDING"
            THEN [row EXCEPT ![d] = Ended(@, "CANCELLED")] ELSE row
  /\ UNCHANGED <<enquiry, source, paused, sender, accepted, faults>>

(* Once the address is corrected; what was cancelled meanwhile stays so. *)
Unsuppress(d) ==
  /\ Command
  /\ suppressed' = suppressed \ {d}
  /\ UNCHANGED <<row, enquiry, source, paused, sender, accepted, faults>>

(* The owner's evidence that the provider did deliver. *)
Reconcile(d) ==
  /\ Command /\ accepted[d] > 0
  /\ row[d].status = "UNCERTAIN" /\ row[d].leaseExpired
  /\ row' = [row EXCEPT ![d].status = "SENT", ![d].leaseExpired = FALSE]
  /\ enquiry' = IF d \in Contacts /\ enquiry[d] = "NOTIFICATION_UNCERTAIN"
                THEN [enquiry EXCEPT ![d] = "NOTIFIED"] ELSE enquiry
  /\ UNCHANGED <<source, suppressed, paused, sender, accepted, faults>>

LinkSpent(d) ==
  /\ source[d] = "LIVE"
  /\ source' = [source EXCEPT ![d] = "SPENT"]
  /\ UNCHANGED <<row, enquiry, suppressed, paused, sender, accepted, faults, controls>>

BackoffEnds(d) ==
  /\ row[d].available = "LATER"
  /\ row' = [row EXCEPT ![d].available = "NOW"]
  /\ UNCHANGED <<enquiry, source, suppressed, paused, sender, accepted, faults, controls>>

(* The lease outlives every timeout of a poll: it runs out under a sender  *)
(* only if that sender stalls.                                             *)
LeaseExpires(d) ==
  LET atWork == row[d].lease \in Senders /\ sender[row[d].lease].job = d IN
  /\ row[d].status = "SENDING" /\ row[d].leaseLive
  /\ atWork => faults < MaxFaults
  /\ faults' = IF atWork THEN faults + 1 ELSE faults
  /\ row' = [row EXCEPT ![d].leaseLive = FALSE]
  /\ UNCHANGED <<enquiry, source, suppressed, paused, sender, accepted, controls>>

Poll(s) == Claim(s) \/ ProviderAccepts(s) \/ ProviderDeclines(s) \/ Complete(s)

Next ==
  \/ \E s \in Senders : Poll(s) \/ ClaimUndecryptable(s) \/ Crash(s)
  \/ PauseAgent \/ ResumeAgent
  \/ \E d \in Deliveries :
       RetryNow(d) \/ Cancel(d) \/ Suppress(d) \/ Unsuppress(d) \/ Reconcile(d)
  \/ \E d \in Securities : LinkSpent(d)
  \/ \E d \in Deliveries : BackoffEnds(d) \/ LeaseExpires(d)

(* The poll timer fires for ever, calls return or time out, and time passes. *)
Fairness ==
  /\ \A s \in Senders : WF_vars(Poll(s))
  /\ \A d \in Deliveries : WF_vars(BackoffEnds(d)) /\ WF_vars(LeaseExpires(d))

SafeSpec == Init /\ [][Next]_vars
Spec == SafeSpec /\ Fairness

-----------------------------------------------------------------------------
(* The columns of the outbox and what the senders remember. *)
OutboxTypeOK ==
  /\ row \in [Deliveries -> OutboxRow]
  /\ enquiry \in [Contacts -> {"RECEIVED", "NOTIFIED", "NOTIFICATION_UNCERTAIN",
                               "NOTIFICATION_FAILED"}]
  /\ source \in [Securities -> {"LIVE", "SPENT"}]
  /\ suppressed \subseteq Deliveries /\ paused \in BOOLEAN
  /\ sender \in [Senders -> [at : {"idle", "sending", "answered"},
                             job : Deliveries \cup {Nobody},
                             outcome : Outcomes \cup {"none"}]]
  /\ accepted \in [Deliveries -> Nat] /\ faults \in Nat /\ controls \in Nat

(* A delivery is submitted successfully at most once, without the help of  *)
(* the provider's idempotency key: whatever crashes, times out or expires, *)
(* nothing whose outcome is unknown is ever claimed again.                 *)
SubmittedAtMostOnce == \A d \in Deliveries : accepted[d] <= 1

(* SENT is the truth, and so is what the enquiry says about it. *)
SentMeansAccepted ==
  /\ \A d \in Deliveries : row[d].status = "SENT" => accepted[d] = 1
  /\ \A d \in Contacts : row[d].status = "SENT" <=> enquiry[d] = "NOTIFIED"

(* No row that is over still holds the encrypted link: neither completion, *)
(* expiry, suppression nor cancellation forgets to erase it.               *)
BearerErased == \A d \in Deliveries : row[d].status \in Final => ~row[d].bearer

(* The claim transaction is the only way to learn that a lease ran out, so *)
(* a queued row is settled in the end unless an operator holds it, or the  *)
(* last attempt was answered by a pause: then no poll claims it again.     *)
Settled(d) ==
  \/ row[d].status \in Final
  \/ row[d].status = "PENDING" /\ (row[d].available = "HELD" \/ row[d].attempts = MaxAttempts)

QueuedMailIsSettled == \A d \in Deliveries : []<>Settled(d)

(* The outbox implements what it promises about each delivery: FAILED and  *)
(* CANCELLED are as true as SENT is, for such a message was not accepted   *)
(* and is never submitted later by a sender that only stalled; and what    *)
(* was told stands, except that an UNCERTAIN row may turn out to be SENT.  *)
ToldOf(status) ==
  CASE status \in {"PENDING", "SENDING"}  -> "open"
    [] status = "SENT"                    -> "delivered"
    [] status \in {"FAILED", "CANCELLED"} -> "notDelivered"
    [] status = "UNCERTAIN"               -> "unknown"

Promise == INSTANCE MailPromise WITH
  told <- [d \in Deliveries |-> ToldOf(row[d].status)]

ImplementsPromise == Promise!PromiseSpec
=============================================================================
