---------------------------- MODULE DeliveryClaims ----------------------------
(***************************************************************************)
(* Delivery agents claim paid jobs from the shared pool.  On the server a  *)
(* claim checks, under the row lock of its job, that the job waits and the *)
(* agent holds none, and then inserts the assignment.  In the browser a    *)
(* claim whose answer is lost is reconciled by reading; the identifiers of *)
(* one pending claim per agent are kept in localStorage.                   *)
(***************************************************************************)
EXTENDS Naturals

CONSTANTS
  Agents, Jobs, Commands, Tabs,
  AgentOf,      \* the agent signed in to each tab
  NoCommand,
  MaxFaults,    \* bound: claims turned away, that fail or whose answer is lost
  MaxCloses     \* bound: tabs reloaded or crashed

NoJob == "no job"

ASSUME ClaimAssumption ==
  /\ AgentOf \in [Tabs -> Agents] /\ NoCommand \notin Commands
  /\ Tabs # {} /\ NoJob \notin Jobs
  /\ MaxFaults \in Nat /\ MaxCloses \in Nat

VARIABLES
  claim,   \* what each claim command asks for, and from which tab
  tx,      \* how far the server is with it
  rows,    \* commands that created an assignment
  active,  \* those whose assignment has not ended
  slot,    \* the pending claim in the localStorage of each agent
  tab,     \* the tabs' memory
  told,    \* what the agent was told of each claim
  faults, closes

vars == <<claim, tx, rows, active, slot, tab, told, faults, closes>>

AgentFor(c) == AgentOf[claim[c].tab]

Closed ==
  [open |-> FALSE, busy |-> NoCommand, awaiting |-> {}, hidden |-> {}, pending |-> {}]

Init ==
  /\ claim = [c \in Commands |-> [job |-> NoJob, tab |-> CHOOSE t \in Tabs : TRUE]]
  /\ tx = [c \in Commands |-> "none"]
  /\ rows = {} /\ active = {}
  /\ slot = [a \in Agents |-> NoCommand]
  /\ tab = [t \in Tabs |-> [Closed EXCEPT !.open = TRUE]]
  /\ told = [c \in Commands |-> "none"]
  /\ faults = 0 /\ closes = 0

-----------------------------------------------------------------------------
(* The server. *)

Holds(a, j) == \E c \in active : AgentFor(c) = a /\ claim[c].job = j

(* Fault: the job row is not locked. *)
JobLockedNever(j) == FALSE

JobLocked(j) == \E c \in Commands : tx[c] = "checked" /\ claim[c].job = j

(* The agent stays eligible and the request stays paid. *)
Claimable(c) ==
  /\ \A d \in active : claim[d].job # claim[c].job
  /\ \A d \in active : AgentFor(d) # AgentFor(c)

Check(c) ==
  /\ tx[c] = "sent" /\ ~JobLocked(claim[c].job)
  /\ tx' = [tx EXCEPT ![c] = IF Claimable(c) THEN "checked" ELSE "refused"]
  /\ UNCHANGED <<claim, rows, active, slot, tab, told, faults, closes>>

Insert(c) ==
  /\ tx[c] = "checked"
  /\ tx' = [tx EXCEPT ![c] = "committed"]
  /\ rows' = rows \cup {c} /\ active' = active \cup {c}
  /\ UNCHANGED <<claim, slot, tab, told, faults, closes>>

(* Fault: the transaction fails but its assignment stays. *)
FailKeepingAssignment(c) ==
  /\ tx[c] = "checked" /\ faults < MaxFaults
  /\ faults' = faults + 1
  /\ tx' = [tx EXCEPT ![c] = "failed"]
  /\ rows' = rows \cup {c} /\ active' = active \cup {c}
  /\ UNCHANGED <<claim, slot, tab, told, closes>>

Fail(c) ==
  /\ tx[c] \in {"sent", "checked"} /\ faults < MaxFaults
  /\ faults' = faults + 1
  /\ tx' = [tx EXCEPT ![c] = "failed"]
  /\ UNCHANGED <<claim, rows, active, slot, tab, told, closes>>

(* No session, no permission, or a body too large: no transaction begins. *)
TurnAway(c) ==
  /\ tx[c] = "sent" /\ faults < MaxFaults
  /\ faults' = faults + 1
  /\ tx' = [tx EXCEPT ![c] = "rejected"]
  /\ UNCHANGED <<claim, rows, active, slot, tab, told, closes>>

(* The job is completed, failed, cancelled or released to the pool. *)
EndAssignment(c) ==
  /\ c \in active
  /\ active' = active \ {c}
  /\ UNCHANGED <<claim, tx, rows, slot, tab, told, faults, closes>>

-----------------------------------------------------------------------------
(* The browser. *)

Claim(t, j, c) ==
  /\ tab[t].open /\ tab[t].busy = NoCommand /\ j \notin tab[t].hidden
  /\ claim[c].job = NoJob
  /\ claim' = [claim EXCEPT ![c] = [job |-> j, tab |-> t]]
  /\ tx' = [tx EXCEPT ![c] = "sent"]
  /\ slot' = [slot EXCEPT ![AgentOf[t]] = c]
  /\ tab' = [tab EXCEPT ![t].busy = c, ![t].awaiting = @ \cup {c}]
  /\ UNCHANGED <<rows, active, told, faults, closes>>

(* commitClaim removes the stored claim, whichever it is by now; the       *)
(* buttons are enabled again, whatever else the tab still waits for.       *)
CommitClaim(t, c) ==
  /\ slot' = [slot EXCEPT ![AgentOf[t]] = NoCommand]
  /\ tab' = [tab EXCEPT ![t].busy = NoCommand, ![t].awaiting = @ \ {c},
                        ![t].pending = @ \ {c}, ![t].hidden = @ \cup {claim[c].job}]
  /\ told' = [told EXCEPT ![c] = "claimed"]

MarkClaimPending(t, c) ==
  /\ tab' = [tab EXCEPT ![t].awaiting = @ \ {c}, ![t].pending = @ \cup {c},
                        ![t].hidden = @ \cup {claim[c].job}]
  /\ UNCHANGED <<slot, told>>

DismissClaim(t, c, answer) ==
  /\ slot' = [slot EXCEPT ![AgentOf[t]] = NoCommand]
  /\ tab' = [tab EXCEPT ![t].busy = NoCommand, ![t].awaiting = @ \ {c}]
  /\ told' = [told EXCEPT ![c] = answer]

(* The answer is handled even when another claim has enabled the buttons.  *)
Waiting(t, c) == tab[t].open /\ c \in tab[t].awaiting

Succeed(t, c) ==
  /\ Waiting(t, c) /\ tx[c] = "committed" /\ CommitClaim(t, c)
  /\ UNCHANGED <<claim, tx, rows, active, faults, closes>>

(* "This job was already claimed."  Another tab of the agent may have won. *)
Refused(t, c) ==
  /\ Waiting(t, c) /\ tx[c] = "refused"
  /\ \/ Holds(AgentOf[t], claim[c].job) /\ CommitClaim(t, c)
     \/ DismissClaim(t, c, "conflict")
  /\ UNCHANGED <<claim, tx, rows, active, faults, closes>>

(* Answered 401, 403 or 413: the claim was never tried. *)
Rejected(t, c) ==
  /\ Waiting(t, c) /\ tx[c] = "rejected" /\ DismissClaim(t, c, "failed")
  /\ UNCHANGED <<claim, tx, rows, active, faults, closes>>

(* The claim failed, or its answer is lost. *)
Unanswered(c) ==
  /\ tx[c] = "failed" \/ faults < MaxFaults
  /\ faults' = IF tx[c] = "failed" THEN faults ELSE faults + 1

(* Fault: an answer that says nothing counts as a conflict. *)
UncertainIsConflict(t, c) ==
  /\ Waiting(t, c) /\ Unanswered(c) /\ DismissClaim(t, c, "conflict")
  /\ UNCHANGED <<claim, tx, rows, active, closes>>

(* No answer, one above 499, or an unreadable one; the claim may go on. *)
Uncertain(t, c) ==
  /\ Waiting(t, c) /\ Unanswered(c) /\ MarkClaimPending(t, c)
  /\ UNCHANGED <<claim, tx, rows, active, closes>>

(* reconcileUncertainClaim: the exact result, or the job in the workspace. *)
Reconcile(t, c) ==
  /\ tab[t].open /\ c \in tab[t].pending
  /\ c \in rows \/ Holds(AgentOf[t], claim[c].job)
  /\ CommitClaim(t, c)
  /\ UNCHANGED <<claim, tx, rows, active, faults, closes>>


(* The last attempt found nothing: the job stays hidden in this tab. *)
StopReconciling(t, c) ==
  /\ tab[t].open /\ c \in tab[t].pending
  /\ tab' = [tab EXCEPT ![t].pending = @ \ {c}, ![t].busy = NoCommand]
  /\ UNCHANGED <<claim, tx, rows, active, slot, told, faults, closes>>

Close(t) ==
  /\ tab[t].open /\ closes < MaxCloses
  /\ closes' = closes + 1
  /\ tab' = [tab EXCEPT ![t] = Closed]
  /\ UNCHANGED <<claim, tx, rows, active, slot, told, faults>>

Stored(t) == slot[AgentOf[t]]

Open(t) ==
  /\ ~tab[t].open
  /\ tab' = [tab EXCEPT ![t] =
               IF Stored(t) = NoCommand THEN [Closed EXCEPT !.open = TRUE]
               ELSE [open |-> TRUE, busy |-> Stored(t), awaiting |-> {},
                     pending |-> {Stored(t)}, hidden |-> {claim[Stored(t)].job}]]
  /\ UNCHANGED <<claim, tx, rows, active, slot, told, faults, closes>>

(* synchronizeTabs: another tab of the agent stored a claim. *)
SynchronizeTabs(t) ==
  /\ tab[t].open /\ Stored(t) # NoCommand /\ claim[Stored(t)].tab # t
  /\ claim[Stored(t)].job \notin tab[t].hidden
  /\ MarkClaimPending(t, Stored(t))
  /\ UNCHANGED <<claim, tx, rows, active, faults, closes>>

-----------------------------------------------------------------------------
Settle(t, c) ==
  \/ Succeed(t, c) \/ Refused(t, c) \/ Rejected(t, c) \/ Uncertain(t, c)
  \/ Reconcile(t, c) \/ StopReconciling(t, c)

Next ==
  \/ \E c \in Commands : Check(c) \/ Insert(c) \/ Fail(c) \/ TurnAway(c) \/ EndAssignment(c)
  \/ \E t \in Tabs :
       \/ Close(t) \/ Open(t) \/ SynchronizeTabs(t)
       \/ \E c \in Commands :
            \/ Settle(t, c)
            \/ \E j \in Jobs : Claim(t, j, c)

Spec == Init /\ [][Next]_vars

(* The database answers, the browser's timers fire, pages finish loading.  *)
Fairness ==
  /\ WF_vars(\E c \in Commands : Check(c) \/ Insert(c))
  /\ \A t \in Tabs : WF_vars(Open(t)) /\ WF_vars(\E c \in Commands : Settle(t, c))

FairSpec == Spec /\ Fairness

-----------------------------------------------------------------------------
(* Properties. *)

(* Claims, assignments, slots and tabs are well formed; only a committed   *)
(* claim has an assignment.                                                *)
ClaimsTypeOK ==
  /\ claim \in [Commands -> [job : Jobs \cup {NoJob}, tab : Tabs]]
  /\ tx \in [Commands -> {"none", "sent", "checked", "refused", "rejected", "failed",
                          "committed"}]
  /\ rows = {c \in Commands : tx[c] = "committed"} /\ active \subseteq rows
  /\ slot \in [Agents -> Commands \cup {NoCommand}]
  /\ tab \in [Tabs -> [open : BOOLEAN, busy : Commands \cup {NoCommand},
                       awaiting : SUBSET Commands, hidden : SUBSET Jobs,
                       pending : SUBSET Commands]]
  /\ told \in [Commands -> {"none", "claimed", "conflict", "failed"}]

(* Two agents that claim the same job at once: one of them gets it.        *)
OneAgentPerJob ==
  \A c, d \in active : claim[c].job = claim[d].job => c = d

(* An agent who is told a claim succeeded was assigned the job, by this    *)
(* claim or another tab's; one told of a conflict, or that it failed, did  *)
(* not get it through this claim, however late its transaction commits.    *)
ClaimsAreToldTruly ==
  \A c \in Commands :
    /\ told[c] = "claimed" => \E d \in rows : /\ claim[d].job = claim[c].job
                                              /\ AgentFor(d) = AgentFor(c)
    /\ told[c] \in {"conflict", "failed"} => c \notin rows

=============================================================================
