----------------------------- MODULE MailPromise -----------------------------
(***************************************************************************)
(* What the e-mail outbox promises about each delivery, without senders,   *)
(* leases, attempts, suppressions or operators: the message is submitted   *)
(* at most once; what is told about it is true when it is told and stays   *)
(* true; and only an unknown outcome is ever corrected.  EmailOutbox       *)
(* implements it.                                                          *)
(***************************************************************************)
EXTENDS Naturals

CONSTANT Deliveries

VARIABLES
  told,      \* what the outbox says about each delivery
  accepted   \* how often the provider accepted it

promiseVars == <<told, accepted>>

Tellings == {"open", "unknown", "delivered", "notDelivered"}

(* Nothing is submitted any more once its outcome was told. *)
Submit(d) ==
  /\ told[d] \in {"open", "unknown"}
  /\ accepted[d] = 0
  /\ accepted' = [accepted EXCEPT ![d] = 1]
  /\ UNCHANGED told

MayTell(d, what) ==
  \/ what = "unknown" /\ told[d] = "open"
  \/ what = "delivered" /\ told[d] \in {"open", "unknown"} /\ accepted[d] = 1
  \/ what = "notDelivered" /\ told[d] = "open" /\ accepted[d] = 0

(* One sweep of a claim may end several deliveries at once. *)
Report ==
  /\ told' \in [Deliveries -> Tellings]
  /\ \A d \in Deliveries : told'[d] = told[d] \/ MayTell(d, told'[d])
  /\ UNCHANGED accepted

PromiseInit ==
  /\ told = [d \in Deliveries |-> "open"]
  /\ accepted = [d \in Deliveries |-> 0]

PromiseNext == Report \/ \E d \in Deliveries : Submit(d)

PromiseSpec == PromiseInit /\ [][PromiseNext]_promiseVars
=============================================================================
