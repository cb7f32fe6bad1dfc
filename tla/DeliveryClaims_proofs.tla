----------------------- MODULE DeliveryClaims_proofs -----------------------
(***************************************************************************)
(* Claims for any number of agents, tabs, jobs and commands, and any       *)
(* number of failures, lost answers and reloads.                           *)
(***************************************************************************)
EXTENDS DeliveryClaims, TLAPS

(***************************************************************************)
(* ClaimsInv is inductive.  One agent gets a job because a command past    *)
(* its checks keeps its job to itself until it inserts.  Answers are true  *)
(* because whatever a tab waits for, keeps pending or finds stored is a    *)
(* claim of its own agent, and a command refused or turned away never      *)
(* commits.                                                                *)
(***************************************************************************)
Mine(a, c) == claim[c].job \in Jobs /\ AgentFor(c) = a

ChecksHold ==
  /\ \A c \in Commands : tx[c] # "none" => claim[c].job \in Jobs
  /\ \A c, d \in Commands :
       tx[c] = "checked" /\ tx[d] = "checked" /\ claim[c].job = claim[d].job => c = d
  /\ \A c \in Commands, d \in active : tx[c] = "checked" => claim[c].job # claim[d].job

TabRow == [open : BOOLEAN, busy : Commands \cup {NoCommand}, awaiting : SUBSET Commands,
           hidden : SUBSET Jobs, pending : SUBSET Commands]

TabOK(t, m) ==
  /\ m \in TabRow
  /\ \A c \in m.awaiting \cup m.pending : Mine(AgentOf[t], c)

Earned(c) == \E d \in rows : claim[d].job = claim[c].job /\ AgentFor(d) = AgentFor(c)

ToldOK(c, what) ==
  /\ what = "claimed" => Earned(c)
  /\ what = "conflict" => tx[c] = "refused"
  /\ what = "failed" => tx[c] = "rejected"

ClaimsInv ==
  /\ ClaimsTypeOK
  /\ OneAgentPerJob
  /\ ChecksHold
  /\ \A a \in Agents : slot[a] # NoCommand => Mine(a, slot[a])
  /\ \A t \in Tabs : TabOK(t, tab[t])
  /\ \A c \in Commands : ToldOK(c, told[c])

LEMMA InvariantImplies == ClaimsInv => ClaimsAreToldTruly
BY DEF ClaimsInv, ClaimsAreToldTruly, ClaimsTypeOK, ToldOK, Earned

(***************************************************************************)
(* The server.                                                             *)
(***************************************************************************)

(* A step that leaves the browsers alone and revives no answered command.  *)
LEMMA ServerStep ==
  ASSUME ClaimsInv, UNCHANGED <<claim, slot, tab, told>>,
         ClaimsTypeOK', OneAgentPerJob', ChecksHold', rows \subseteq rows',
         \A c \in Commands : tx[c] \in {"refused", "rejected"} => tx'[c] = tx[c]
  PROVE  ClaimsInv'
<1>1. \A a \in Agents : (slot[a] # NoCommand => Mine(a, slot[a]))'
  BY DEF ClaimsInv, Mine, AgentFor
<1>2. \A t \in Tabs : TabOK(t, tab[t])'
  BY DEF ClaimsInv, TabOK, Mine, AgentFor
<1>3. \A c \in Commands : ToldOK(c, told[c])'
  BY DEF ClaimsInv, ToldOK, Earned, AgentFor
<1> QED
  BY <1>1, <1>2, <1>3 DEF ClaimsInv

LEMMA CheckInv ==
  ASSUME ClaimsInv, NEW c \in Commands, Check(c)
  PROVE  ClaimsInv'
<1>1. /\ tx[c] = "sent" /\ ~JobLocked(claim[c].job)
      /\ tx' = [tx EXCEPT ![c] = IF Claimable(c) THEN "checked" ELSE "refused"]
      /\ UNCHANGED <<claim, rows, active, slot, tab, told>>
  BY DEF Check
<1>2. /\ tx'[c] \in {"checked", "refused"} /\ (tx'[c] = "checked" => Claimable(c))
      /\ \A d \in Commands \ {c} : tx'[d] = tx[d]
  BY <1>1 DEF ClaimsInv, ClaimsTypeOK
<1>3. ClaimsTypeOK'
  BY <1>1, <1>2 DEF ClaimsInv, ClaimsTypeOK
<1>4. ChecksHold'
  BY <1>1, <1>2 DEF ClaimsInv, ChecksHold, JobLocked, Claimable
<1>5. OneAgentPerJob'
  BY <1>1 DEF ClaimsInv, OneAgentPerJob
<1> QED
  BY <1>1, <1>2, <1>3, <1>4, <1>5, ServerStep

LEMMA InsertInv ==
  ASSUME ClaimsInv, NEW c \in Commands, Insert(c)
  PROVE  ClaimsInv'
<1>1. /\ tx[c] = "checked" /\ tx' = [tx EXCEPT ![c] = "committed"]
      /\ rows' = rows \cup {c} /\ active' = active \cup {c}
      /\ UNCHANGED <<claim, slot, tab, told>>
  BY DEF Insert
<1>2. tx'[c] = "committed" /\ \A d \in Commands \ {c} : tx'[d] = tx[d]
  BY <1>1 DEF ClaimsInv, ClaimsTypeOK
<1>3. active \subseteq Commands
  BY DEF ClaimsInv, ClaimsTypeOK
<1>4. ClaimsTypeOK'
  BY <1>1, <1>2 DEF ClaimsInv, ClaimsTypeOK
<1>5. ChecksHold'
  BY <1>1, <1>2, <1>3 DEF ClaimsInv, ChecksHold
<1>6. OneAgentPerJob'
  BY <1>1, <1>3 DEF ClaimsInv, ChecksHold, OneAgentPerJob
<1> QED
  BY <1>1, <1>2, <1>4, <1>5, <1>6, ServerStep

LEMMA FailInv ==
  ASSUME ClaimsInv, NEW c \in Commands, Fail(c) \/ TurnAway(c)
  PROVE  ClaimsInv'
<1>1. PICK end \in {"failed", "rejected"} :
      /\ tx[c] \in {"sent", "checked"} /\ tx' = [tx EXCEPT ![c] = end]
      /\ UNCHANGED <<claim, rows, active, slot, tab, told>>
  BY DEF Fail, TurnAway
<1>2. tx'[c] = end /\ \A d \in Commands \ {c} : tx'[d] = tx[d]
  BY <1>1 DEF ClaimsInv, ClaimsTypeOK
<1>3. ClaimsTypeOK'
  BY <1>1, <1>2 DEF ClaimsInv, ClaimsTypeOK
<1>4. ChecksHold'
  BY <1>1, <1>2 DEF ClaimsInv, ChecksHold
<1>5. OneAgentPerJob'
  BY <1>1 DEF ClaimsInv, OneAgentPerJob
<1> QED
  BY <1>1, <1>2, <1>3, <1>4, <1>5, ServerStep

LEMMA EndAssignmentInv ==
  ASSUME ClaimsInv, NEW c \in Commands, EndAssignment(c)
  PROVE  ClaimsInv'
<1>1. active' \subseteq active /\ UNCHANGED <<claim, tx, rows, slot, tab, told>>
  BY DEF EndAssignment
<1>2. ClaimsTypeOK'
  BY <1>1 DEF ClaimsInv, ClaimsTypeOK
<1>3. ChecksHold'
  BY <1>1 DEF ClaimsInv, ChecksHold
<1>4. OneAgentPerJob'
  BY <1>1 DEF ClaimsInv, OneAgentPerJob
<1> QED
  BY <1>1, <1>2, <1>3, <1>4, ServerStep

(***************************************************************************)
(* The browser.                                                            *)
(***************************************************************************)

(* A tab changes what it remembers, may clear the slot and tell something. *)
LEMMA TabStep ==
  ASSUME ClaimsInv, UNCHANGED <<claim, tx, rows, active>>,
         NEW t \in Tabs, TabOK(t, tab'[t]), tab' = [tab EXCEPT ![t] = tab'[t]],
         \/ slot' = slot
         \/ slot' = [slot EXCEPT ![AgentOf[t]] = NoCommand],
         \/ told' = told
         \/ \E c \in Commands, what \in {"claimed", "conflict", "failed"} :
              told' = [told EXCEPT ![c] = what] /\ ToldOK(c, what)
  PROVE  ClaimsInv'
<1>1. /\ tab \in [Tabs -> TabRow] /\ slot \in [Agents -> Commands \cup {NoCommand}]
      /\ told \in [Commands -> {"none", "claimed", "conflict", "failed"}]
  BY DEF ClaimsInv, ClaimsTypeOK, TabRow
<1>2. tab' \in [Tabs -> TabRow] /\ \A u \in Tabs : TabOK(u, tab'[u])
  <2>1. \A u \in Tabs \ {t} : tab'[u] = tab[u]
    BY <1>1
  <2>2. \A u \in Tabs : TabOK(u, tab'[u])
    BY <2>1 DEF ClaimsInv
  <2>3. tab'[t] \in TabRow
    BY DEF TabOK
  <2> QED
    BY <1>1, <2>2, <2>3
<1>3. /\ slot' \in [Agents -> Commands \cup {NoCommand}]
      /\ \A a \in Agents : slot'[a] # NoCommand => Mine(a, slot'[a])
  BY <1>1 DEF ClaimsInv
<1>4. /\ told' \in [Commands -> {"none", "claimed", "conflict", "failed"}]
      /\ \A c \in Commands : ToldOK(c, told'[c])
  BY <1>1 DEF ClaimsInv
<1>5. ClaimsTypeOK'
  BY <1>2, <1>3, <1>4 DEF ClaimsInv, ClaimsTypeOK, TabRow
<1>6. OneAgentPerJob' /\ ChecksHold'
  BY DEF ClaimsInv, OneAgentPerJob, ChecksHold
<1>7. \A u \in Tabs : TabOK(u, tab[u])'
  BY <1>2 DEF TabOK, Mine, AgentFor
<1>8. \A a \in Agents : (slot[a] # NoCommand => Mine(a, slot[a]))'
  BY <1>3 DEF Mine, AgentFor
<1>9. \A c \in Commands : ToldOK(c, told[c])'
  BY <1>4 DEF ToldOK, Earned, AgentFor
<1> QED
  BY <1>5, <1>6, <1>7, <1>8, <1>9 DEF ClaimsInv

LEMMA ClaimInv ==
  ASSUME ClaimsInv, NEW t \in Tabs, NEW j \in Jobs, NEW c \in Commands, Claim(t, j, c)
  PROVE  ClaimsInv'
<1> USE ClaimAssumption
<1>1. /\ tab[t].open /\ claim[c].job = NoJob
      /\ claim' = [claim EXCEPT ![c] = [job |-> j, tab |-> t]]
      /\ tx' = [tx EXCEPT ![c] = "sent"]
      /\ slot' = [slot EXCEPT ![AgentOf[t]] = c]
      /\ tab' = [tab EXCEPT ![t] = [tab[t] EXCEPT !.busy = c, !.awaiting = @ \cup {c}]]
      /\ UNCHANGED <<rows, active, told>>
  BY DEF Claim
<1>2. /\ claim \in [Commands -> [job : Jobs \cup {NoJob}, tab : Tabs]]
      /\ tx \in [Commands -> {"none", "sent", "checked", "refused", "rejected", "failed",
                              "committed"}]
      /\ rows = {d \in Commands : tx[d] = "committed"} /\ active \subseteq rows
      /\ slot \in [Agents -> Commands \cup {NoCommand}] /\ tab \in [Tabs -> TabRow]
      /\ AgentOf[t] \in Agents
  BY DEF ClaimsInv, ClaimsTypeOK, TabRow
<1>3. tx[c] = "none" /\ ~\E a : Mine(a, c)
  BY <1>1 DEF ClaimsInv, ChecksHold, Mine
<1>4. /\ claim'[c] = [job |-> j, tab |-> t] /\ \A d \in Commands \ {c} : claim'[d] = claim[d]
      /\ tx'[c] = "sent" /\ \A d \in Commands \ {c} : tx'[d] = tx[d]
  BY <1>1, <1>2
<1>5. c \notin rows /\ c \notin active
  BY <1>2, <1>3
<1>6. Mine(AgentOf[t], c)' /\ \A a, d : d \in Commands /\ Mine(a, d) => Mine(a, d)'
  <2>1. Mine(AgentOf[t], c)'
    BY <1>4 DEF Mine, AgentFor
  <2>2. \A a, d : d \in Commands /\ Mine(a, d) => d # c
    BY <1>3
  <2> QED
    BY <1>4, <2>1, <2>2 DEF Mine, AgentFor
<1>7. ClaimsTypeOK'
  <2>1. [tab[t] EXCEPT !.busy = c, !.awaiting = @ \cup {c}] \in TabRow
    <3>1. PICK m \in TabRow : m = tab[t]
      BY <1>2
    <3>2. [m EXCEPT !.busy = c, !.awaiting = @ \cup {c}] \in TabRow
      BY DEF TabRow
    <3> QED
      BY <3>1, <3>2
  <2>2. tab' \in [Tabs -> TabRow]
    BY <1>1, <1>2, <2>1
  <2>3. rows' = {d \in Commands : tx'[d] = "committed"}
    BY <1>1, <1>2, <1>4, <1>5
  <2>4. claim' \in [Commands -> [job : Jobs \cup {NoJob}, tab : Tabs]]
    BY <1>1, <1>2
  <2>5. tx' \in [Commands -> {"none", "sent", "checked", "refused", "rejected", "failed",
                              "committed"}]
    BY <1>1, <1>2
  <2>6. active' \subseteq rows' /\ slot' \in [Agents -> Commands \cup {NoCommand}]
    BY <1>1, <1>2
  <2>7. told' \in [Commands -> {"none", "claimed", "conflict", "failed"}]
    BY <1>1 DEF ClaimsInv, ClaimsTypeOK
  <2> QED
    BY <2>2, <2>3, <2>4, <2>5, <2>6, <2>7 DEF ClaimsTypeOK, TabRow
<1>8. OneAgentPerJob'
  BY <1>1, <1>2, <1>4, <1>5 DEF ClaimsInv, OneAgentPerJob
<1>9. ChecksHold'
  BY <1>1, <1>2, <1>4, <1>5 DEF ClaimsInv, ChecksHold
<1>10. \A a \in Agents : (slot[a] # NoCommand => Mine(a, slot[a]))'
  BY <1>1, <1>2, <1>6 DEF ClaimsInv
<1>11. ASSUME NEW u \in Tabs PROVE TabOK(u, tab[u])'
  <2>1. TabOK(u, tab[u]) /\ tab[u] \in TabRow /\ tab'[u] \in TabRow
    BY <1>2, <1>7 DEF ClaimsInv, ClaimsTypeOK, TabRow
  <2>2. /\ tab'[u].pending = tab[u].pending
        /\ tab'[u].awaiting = IF u = t THEN tab[u].awaiting \cup {c} ELSE tab[u].awaiting
    BY <1>1, <1>2, <2>1 DEF TabRow
  <2>3. tab[u].pending \subseteq Commands /\ tab[u].awaiting \subseteq Commands
    BY <2>1 DEF TabRow
  <2> QED
    BY <1>6, <2>1, <2>2, <2>3 DEF TabOK
<1>12. ASSUME NEW d \in Commands PROVE ToldOK(d, told[d])'
  <2>1. ToldOK(d, told[d]) /\ \A e \in rows : claim[e].job \in Jobs /\ claim'[e] = claim[e]
    BY <1>2, <1>4, <1>5 DEF ClaimsInv, ChecksHold
  <2>2. CASE d = c
    BY <1>1, <1>3, <2>1, <2>2 DEF ToldOK, Earned
  <2>3. CASE d # c
    BY <1>1, <1>4, <2>1, <2>3 DEF ToldOK, Earned, AgentFor
  <2> QED
    BY <2>2, <2>3
<1> QED
  BY <1>7, <1>8, <1>9, <1>10, <1>11, <1>12 DEF ClaimsInv

(* What a tab forgets of a claim it has no more to do with.                *)
LEMMA ReleasedTab ==
  ASSUME NEW t \in Tabs, NEW c \in Commands, TabOK(t, tab[t]), Mine(AgentOf[t], c)
  PROVE  /\ TabOK(t, [tab[t] EXCEPT !.busy = NoCommand, !.awaiting = @ \ {c}])
         /\ TabOK(t, [tab[t] EXCEPT !.busy = NoCommand, !.pending = @ \ {c}])
         /\ TabOK(t, [tab[t] EXCEPT !.busy = NoCommand, !.awaiting = @ \ {c},
                                    !.pending = @ \ {c}, !.hidden = @ \cup {claim[c].job}])
         /\ TabOK(t, [tab[t] EXCEPT !.awaiting = @ \ {c}, !.pending = @ \cup {c},
                                    !.hidden = @ \cup {claim[c].job}])
<1>1. claim[c].job \in Jobs
  BY DEF Mine
<1> QED
  BY <1>1 DEF TabOK, TabRow

LEMMA CommitInv ==
  ASSUME ClaimsInv, UNCHANGED <<claim, tx, rows, active>>,
         NEW t \in Tabs, NEW c \in Commands, Mine(AgentOf[t], c), CommitClaim(t, c), Earned(c)
  PROVE  ClaimsInv'
<1> DEFINE released == [tab[t] EXCEPT !.busy = NoCommand, !.awaiting = @ \ {c},
                                      !.pending = @ \ {c}, !.hidden = @ \cup {claim[c].job}]
<1>1. /\ slot' = [slot EXCEPT ![AgentOf[t]] = NoCommand]
      /\ tab' = [tab EXCEPT ![t] = released]
      /\ told' = [told EXCEPT ![c] = "claimed"]
  BY DEF CommitClaim
<1>2. TabOK(t, released)
  BY ReleasedTab DEF ClaimsInv
<1> HIDE DEF released
<1>3. tab'[t] = released
  BY <1>1 DEF ClaimsInv, ClaimsTypeOK
<1>4. ToldOK(c, "claimed")
  BY DEF ToldOK
<1> QED
  BY <1>1, <1>2, <1>3, <1>4, TabStep

(* A claim is dismissed with an answer the server stands by.               *)
LEMMA DismissInv ==
  ASSUME ClaimsInv, UNCHANGED <<claim, tx, rows, active>>,
         NEW t \in Tabs, NEW c \in Commands, Mine(AgentOf[t], c),
         NEW answer \in {"conflict", "failed"}, DismissClaim(t, c, answer), ToldOK(c, answer)
  PROVE  ClaimsInv'
<1>1. /\ slot' = [slot EXCEPT ![AgentOf[t]] = NoCommand]
      /\ tab' = [tab EXCEPT ![t] = [tab[t] EXCEPT !.busy = NoCommand, !.awaiting = @ \ {c}]]
      /\ told' = [told EXCEPT ![c] = answer]
  BY DEF DismissClaim
<1>2. tab'[t] = [tab[t] EXCEPT !.busy = NoCommand, !.awaiting = @ \ {c}]
  BY <1>1 DEF ClaimsInv, ClaimsTypeOK
<1>3. TabOK(t, tab'[t])
  BY <1>2, ReleasedTab DEF ClaimsInv
<1> QED
  BY <1>1, <1>2, <1>3, TabStep

(* An assignment the agent holds is what the claim was for.                *)
LEMMA HoldsEarned ==
  ASSUME ClaimsInv, NEW t \in Tabs, NEW c \in Commands, Mine(AgentOf[t], c),
         c \in rows \/ Holds(AgentOf[t], claim[c].job)
  PROVE  Earned(c)
BY DEF ClaimsInv, ClaimsTypeOK, Mine, Holds, Earned

(* What a tab waits for is a claim of its own agent.                       *)
LEMMA AwaitedIsMine ==
  ASSUME ClaimsInv, NEW t \in Tabs, NEW c \in Commands, Waiting(t, c)
  PROVE  Mine(AgentOf[t], c)
BY DEF ClaimsInv, TabOK, Waiting

LEMMA AnsweredInv ==
  ASSUME ClaimsInv, NEW t \in Tabs, NEW c \in Commands,
         Succeed(t, c) \/ Refused(t, c) \/ Rejected(t, c)
  PROVE  ClaimsInv'
<1>1. Waiting(t, c) /\ UNCHANGED <<claim, tx, rows, active>>
  BY DEF Succeed, Refused, Rejected
<1>2. Mine(AgentOf[t], c)
  BY <1>1, AwaitedIsMine
<1>3. CASE Succeed(t, c)
  <2>1. c \in rows /\ CommitClaim(t, c)
    BY <1>3 DEF Succeed, ClaimsInv, ClaimsTypeOK
  <2> QED
    BY <1>1, <1>2, <2>1, CommitInv, HoldsEarned
<1>4. CASE Refused(t, c)
  <2>1. CASE Holds(AgentOf[t], claim[c].job) /\ CommitClaim(t, c)
    BY <1>1, <1>2, <2>1, CommitInv, HoldsEarned
  <2>2. CASE DismissClaim(t, c, "conflict")
    <3>1. ToldOK(c, "conflict")
      BY <1>4 DEF Refused, ToldOK
    <3> QED
      BY <1>1, <1>2, <2>2, <3>1, DismissInv
  <2> QED
    BY <1>4, <2>1, <2>2 DEF Refused
<1>5. CASE Rejected(t, c)
  <2>1. ToldOK(c, "failed") /\ DismissClaim(t, c, "failed")
    BY <1>5 DEF Rejected, ToldOK
  <2> QED
    BY <1>1, <1>2, <2>1, DismissInv
<1> QED
  BY <1>3, <1>4, <1>5

LEMMA MarkPendingInv ==
  ASSUME ClaimsInv, UNCHANGED <<claim, tx, rows, active>>,
         NEW t \in Tabs, NEW c \in Commands, Mine(AgentOf[t], c), MarkClaimPending(t, c)
  PROVE  ClaimsInv'
<1> DEFINE marked == [tab[t] EXCEPT !.awaiting = @ \ {c}, !.pending = @ \cup {c},
                                    !.hidden = @ \cup {claim[c].job}]
<1>1. tab' = [tab EXCEPT ![t] = marked] /\ slot' = slot /\ told' = told
  BY DEF MarkClaimPending
<1>2. TabOK(t, marked)
  BY ReleasedTab DEF ClaimsInv
<1> HIDE DEF marked
<1>3. tab'[t] = marked
  BY <1>1 DEF ClaimsInv, ClaimsTypeOK
<1> QED
  BY <1>1, <1>2, <1>3, TabStep

LEMMA UncertainInv ==
  ASSUME ClaimsInv, NEW t \in Tabs, NEW c \in Commands, Uncertain(t, c)
  PROVE  ClaimsInv'
<1>1. Waiting(t, c) /\ UNCHANGED <<claim, tx, rows, active>> /\ MarkClaimPending(t, c)
  BY DEF Uncertain
<1> QED
  BY <1>1, AwaitedIsMine, MarkPendingInv

LEMMA SynchronizeInv ==
  ASSUME ClaimsInv, NEW t \in Tabs, SynchronizeTabs(t)
  PROVE  ClaimsInv'
<1>1. /\ Stored(t) # NoCommand /\ MarkClaimPending(t, Stored(t))
      /\ UNCHANGED <<claim, tx, rows, active>>
  BY DEF SynchronizeTabs
<1>2. PICK c : c = Stored(t)
  OBVIOUS
<1>3. c \in Commands /\ Mine(AgentOf[t], c) /\ MarkClaimPending(t, c)
  BY <1>1, <1>2, ClaimAssumption DEF ClaimsInv, ClaimsTypeOK, Stored
<1> QED
  BY <1>1, <1>3, MarkPendingInv

LEMMA ReconcileInv ==
  ASSUME ClaimsInv, NEW t \in Tabs, NEW c \in Commands, Reconcile(t, c)
  PROVE  ClaimsInv'
<1>1. /\ c \in tab[t].pending /\ UNCHANGED <<claim, tx, rows, active>> /\ CommitClaim(t, c)
      /\ c \in rows \/ Holds(AgentOf[t], claim[c].job)
  BY DEF Reconcile
<1>2. Mine(AgentOf[t], c)
  BY <1>1 DEF ClaimsInv, TabOK
<1> QED
  BY <1>1, <1>2, CommitInv, HoldsEarned

LEMMA StopReconcilingInv ==
  ASSUME ClaimsInv, NEW t \in Tabs, NEW c \in Commands, StopReconciling(t, c)
  PROVE  ClaimsInv'
<1>1. /\ c \in tab[t].pending /\ UNCHANGED <<claim, tx, rows, active, slot, told>>
      /\ tab' = [tab EXCEPT ![t] = [tab[t] EXCEPT !.busy = NoCommand, !.pending = @ \ {c}]]
  BY DEF StopReconciling
<1>2. TabOK(t, tab[t]) /\ Mine(AgentOf[t], c)
  BY <1>1 DEF ClaimsInv, TabOK
<1>3. tab'[t] = [tab[t] EXCEPT !.busy = NoCommand, !.pending = @ \ {c}]
  BY <1>1 DEF ClaimsInv, ClaimsTypeOK
<1>4. TabOK(t, tab'[t])
  BY <1>2, <1>3, ReleasedTab
<1> QED
  BY <1>1, <1>3, <1>4, TabStep

LEMMA ReloadInv ==
  ASSUME ClaimsInv, NEW t \in Tabs, Close(t) \/ Open(t)
  PROVE  ClaimsInv'
<1> USE ClaimAssumption
<1>1. TabOK(t, Closed) /\ TabOK(t, [Closed EXCEPT !.open = TRUE])
  BY DEF Closed, TabOK, TabRow
<1>2. UNCHANGED <<claim, tx, rows, active, slot, told>>
  BY DEF Close, Open
<1>3. CASE Close(t)
  <2>1. tab' = [tab EXCEPT ![t] = Closed]
    BY <1>3 DEF Close
  <2>2. tab'[t] = Closed
    BY <2>1 DEF ClaimsInv, ClaimsTypeOK
  <2> QED
    BY <1>1, <1>2, <2>1, <2>2, TabStep
<1>4. CASE Open(t)
  <2> DEFINE restored == [open |-> TRUE, busy |-> Stored(t), awaiting |-> {},
                          pending |-> {Stored(t)}, hidden |-> {claim[Stored(t)].job}]
             m == IF Stored(t) = NoCommand THEN [Closed EXCEPT !.open = TRUE] ELSE restored
  <2>1. tab' = [tab EXCEPT ![t] = m]
    BY <1>4 DEF Open
  <2>2. tab'[t] = m
    BY <2>1 DEF ClaimsInv, ClaimsTypeOK
  <2>3. Stored(t) # NoCommand => Stored(t) \in Commands /\ Mine(AgentOf[t], Stored(t))
    BY DEF ClaimsInv, ClaimsTypeOK, Stored
  <2>4. Stored(t) # NoCommand => TabOK(t, restored)
    BY <2>3 DEF TabOK, TabRow, Mine
  <2>5. TabOK(t, m)
    BY <1>1, <2>4
  <2> HIDE DEF m
  <2>6. TabOK(t, tab'[t])
    BY <2>2, <2>5
  <2> QED
    BY <1>2, <2>1, <2>2, <2>6, TabStep
<1> QED
  BY <1>3, <1>4

(***************************************************************************)
(* The theorems.                                                           *)
(***************************************************************************)
LEMMA InitInv ==
  ASSUME Init
  PROVE  ClaimsInv
<1> USE ClaimAssumption
<1>1. (CHOOSE t \in Tabs : TRUE) \in Tabs
  OBVIOUS
<1>2. \A t \in Tabs : TabOK(t, tab[t])
  BY DEF Init, TabOK, TabRow, Closed
<1>3. tab \in [Tabs -> TabRow]
  BY DEF Init, TabRow, Closed
<1>4. ClaimsTypeOK
  BY <1>1, <1>3 DEF Init, ClaimsTypeOK, TabRow
<1>5. OneAgentPerJob /\ ChecksHold
  BY DEF Init, OneAgentPerJob, ChecksHold
<1>6. \A c \in Commands : ToldOK(c, told[c])
  BY DEF Init, ToldOK
<1>7. \A a \in Agents : slot[a] # NoCommand => Mine(a, slot[a])
  BY DEF Init
<1> QED
  BY <1>2, <1>4, <1>5, <1>6, <1>7 DEF ClaimsInv

LEMMA NextInv ==
  ASSUME ClaimsInv, [Next]_vars
  PROVE  ClaimsInv'
<1>1. ASSUME NEW c \in Commands, Check(c) \/ Insert(c) \/ Fail(c) \/ TurnAway(c) \/ EndAssignment(c)
      PROVE  ClaimsInv'
  BY <1>1, CheckInv, InsertInv, FailInv, EndAssignmentInv
<1>2. ASSUME NEW t \in Tabs, Close(t) \/ Open(t) \/ SynchronizeTabs(t) PROVE ClaimsInv'
  BY <1>2, ReloadInv, SynchronizeInv
<1>3. ASSUME NEW t \in Tabs, NEW c \in Commands, Settle(t, c) PROVE ClaimsInv'
  BY <1>3, AnsweredInv, UncertainInv, ReconcileInv, StopReconcilingInv DEF Settle
<1>4. ASSUME NEW t \in Tabs, NEW c \in Commands, NEW j \in Jobs, Claim(t, j, c) PROVE ClaimsInv'
  BY <1>4, ClaimInv
<1>5. CASE UNCHANGED vars
  <2>1. UNCHANGED <<claim, tx, rows, active, slot, tab, told>>
    BY <1>5 DEF vars
  <2>2. ClaimsTypeOK'
    BY <2>1 DEF ClaimsInv, ClaimsTypeOK
  <2>3. OneAgentPerJob' /\ ChecksHold'
    BY <2>1 DEF ClaimsInv, OneAgentPerJob, ChecksHold
  <2> QED
    BY <2>1, <2>2, <2>3, ServerStep
<1> QED
  BY <1>1, <1>2, <1>3, <1>4, <1>5 DEF Next

(* The invariant holds in every reachable state.                           *)
THEOREM SpecInv == Spec => []ClaimsInv
<1>1. Init => ClaimsInv
  BY InitInv
<1>2. ClaimsInv /\ [Next]_vars => ClaimsInv'
  BY NextInv
<1> QED
  BY <1>1, <1>2, PTL DEF Spec

(* Claims, assignments, slots and tabs stay well formed; an assignment     *)
(* exists only for a committed claim.                                      *)
THEOREM ClaimsTypeCorrect == Spec => []ClaimsTypeOK
<1>1. ClaimsInv => ClaimsTypeOK
  BY DEF ClaimsInv
<1> QED
  BY <1>1, SpecInv, PTL

(* However many agents and tabs claim a job at once, one of them gets it.  *)
THEOREM OneWinner == Spec => []OneAgentPerJob
<1>1. ClaimsInv => OneAgentPerJob
  BY DEF ClaimsInv
<1> QED
  BY <1>1, SpecInv, PTL

(* No agent is told that a claim succeeded without having been given the   *)
(* job, nor of a conflict over a claim that commits after all.             *)
THEOREM AnswersToClaimsAreTrue == Spec => []ClaimsAreToldTruly
BY SpecInv, InvariantImplies, PTL
=============================================================================
