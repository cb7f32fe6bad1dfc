------------------------- MODULE BudgetRefreshWorker -------------------------
(***************************************************************************)
(* The workers that refresh ended budget periods of one account from a     *)
(* leased job queue.  A poll is three round trips: reconcile the jobs,     *)
(* claim a batch under a lease, then process each claimed job; a worker    *)
(* may die or stall between any two of them.  A lease token is known to    *)
(* the claiming poll only, so "the token matches" is "w holds the lease".  *)
(***************************************************************************)
EXTENDS Naturals

CONSTANTS
  Workers,      \* worker processes
  NoWorker,
  Periods,      \* number of budget periods that end while we look
  MaxAttempts,  \* max_attempts of a job
  MaxFaults,    \* bound: crashes, stalls and failing transactions
  MaxDrains,    \* bound: times the wallet runs short
  MaxReruns     \* bound: manual reruns of a job

ASSUME WorkerAssumption ==
  /\ NoWorker \notin Workers
  /\ Periods \in Nat /\ MaxAttempts \in Nat \ {0}
  /\ MaxFaults \in Nat /\ MaxDrains \in Nat /\ MaxReruns \in Nat

VARIABLES
  ended,    \* how many periods have reached ends_at
  current,  \* the ACTIVE period; those before it are CLOSED
  job,      \* the refresh job of each period
  worker,   \* where each worker is in its poll
  batch,    \* jobs each worker has claimed in this poll and not yet processed
  funded,   \* the wallet covers the base allocation
  faults, drains

vars == <<ended, current, job, worker, batch, funded, faults, drains>>

Jobs == 1..Periods

JobStates == {"ABSENT", "PENDING", "LEASED", "RETRY", "SUCCEEDED", "DEAD_LETTER"}

JobRow == [state : JobStates, attempts : Nat, holder : Workers \cup {NoWorker},
           leaseLive : BOOLEAN, waiting : BOOLEAN, reruns : Nat]

NoJob == [state |-> "ABSENT", attempts |-> 0, holder |-> NoWorker,
          leaseLive |-> FALSE, waiting |-> FALSE, reruns |-> 0]

Init ==
  /\ ended = 0 /\ current = 1
  /\ job = [k \in Jobs |-> NoJob]
  /\ worker = [w \in Workers |-> "idle"]
  /\ batch = [w \in Workers |-> {}]
  /\ funded = TRUE /\ faults = 0 /\ drains = 0

-----------------------------------------------------------------------------
(* One poll. *)

Reconcile(w) ==
  /\ worker[w] = "idle"
  /\ worker' = [worker EXCEPT ![w] = "reconciled"]
  /\ job' = [k \in Jobs |->
               IF k = current /\ job[k].state = "ABSENT"
               THEN [NoJob EXCEPT !.state = "PENDING"] ELSE job[k]]
  /\ UNCHANGED <<ended, current, batch, funded, faults, drains>>

(* Fault: the claim takes PENDING and RETRY rows only, never a stale lease. *)
ClaimableUnlessLeased(k) ==
  /\ k <= ended /\ ~job[k].waiting /\ job[k].state \in {"PENDING", "RETRY"}

Claimable(k) ==
  /\ k <= ended
  /\ \/ job[k].state \in {"PENDING", "RETRY"}
     \/ job[k].state = "LEASED" /\ ~job[k].leaseLive
  /\ ~job[k].waiting

(* next_attempt_at still governs a LEASED row: the claim leaves it as it was. *)
Leased(row, w) ==
  [row EXCEPT !.state = "LEASED", !.attempts = @ + 1, !.holder = w, !.leaseLive = TRUE]

Claim(w) ==
  LET claimed == {k \in Jobs : Claimable(k)} IN
  /\ worker[w] = "reconciled"
  /\ worker' = [worker EXCEPT ![w] = IF claimed = {} THEN "idle" ELSE "processing"]
  /\ batch' = [batch EXCEPT ![w] = claimed]
  /\ job' = [k \in Jobs |-> IF k \in claimed THEN Leased(job[k], w) ELSE job[k]]
  /\ UNCHANGED <<ended, current, funded, faults, drains>>

Released(row, state) ==
  [row EXCEPT !.state = state, !.holder = NoWorker, !.leaseLive = FALSE,
              !.waiting = (state = "RETRY")]

Succeeded(row) == Released(row, "SUCCEEDED")

(* A transaction that failed for whatever reason. *)
Failed(row) ==
  Released(row, IF row.attempts >= MaxAttempts THEN "DEAD_LETTER" ELSE "RETRY")

(* Faults: the attempt is not given back; or the job is reported done. *)
AwaitingFundsCounted(row) == Failed(row)
AwaitingFundsReportedDone(row) == Succeeded(row)

(* An unfunded refresh gives its attempt back and waits a day. *)
AwaitingFunds(row) == [Released(row, "RETRY") EXCEPT !.attempts = row.attempts - 1]

(* Fault: the end of the period is not compared with the clock. *)
ReadyToRefreshAnyTime == current <= Periods + 1

ReadyToRefresh == current <= ended

(* The lease was lost: the call raises and the rest of the poll is dropped. *)
LeaseUnavailable(w, k) ==
  /\ ~(job[k].state = "LEASED" /\ job[k].holder = w /\ job[k].leaseLive)
  /\ worker' = [worker EXCEPT ![w] = "idle"]
  /\ batch' = [batch EXCEPT ![w] = {}]
  /\ UNCHANGED <<ended, current, job, funded, faults, drains>>

(* One transaction: the refresh of the current period, whichever it is by  *)
(* now, and the new state of the job.                                      *)
Refreshes(w, k) ==
  /\ job[k].state = "LEASED" /\ job[k].holder = w /\ job[k].leaseLive
  /\ batch' = [batch EXCEPT ![w] = @ \ {k}]
  /\ worker' = [worker EXCEPT ![w] = IF batch[w] = {k} THEN "idle" ELSE "processing"]
  /\ \/ /\ ReadyToRefresh /\ funded
        /\ current' = current + 1
        /\ job' = [job EXCEPT ![k] = Succeeded(@)]
        /\ UNCHANGED faults
     \/ /\ ReadyToRefresh /\ ~funded
        /\ job' = [job EXCEPT ![k] = AwaitingFunds(@)]
        /\ UNCHANGED <<current, faults>>
     \/ /\ ~ReadyToRefresh
        /\ job' = [job EXCEPT ![k] = Failed(@)]
        /\ UNCHANGED <<current, faults>>
     \/ /\ faults < MaxFaults
        /\ faults' = faults + 1
        /\ job' = [job EXCEPT ![k] = Failed(@)]
        /\ UNCHANGED current
  /\ UNCHANGED <<ended, funded, drains>>

Process(w) ==
  \E k \in batch[w] : LeaseUnavailable(w, k) \/ Refreshes(w, k)

(* The process dies and its successor starts with an empty poll. *)
Crash(w) ==
  /\ faults < MaxFaults
  /\ worker[w] # "idle"
  /\ faults' = faults + 1
  /\ worker' = [worker EXCEPT ![w] = "idle"]
  /\ batch' = [batch EXCEPT ![w] = {}]
  /\ UNCHANGED <<ended, current, job, funded, drains>>

-----------------------------------------------------------------------------
(* People. *)

(* The manual refresh of budget-ledger.ts, with a key of its own. *)
RefreshManually ==
  /\ ReadyToRefresh /\ funded
  /\ current' = current + 1
  /\ UNCHANGED <<ended, job, worker, batch, funded, faults, drains>>

RerunJob(k) ==
  /\ job[k].state \in {"RETRY", "DEAD_LETTER"}
  /\ job[k].reruns < MaxReruns
  /\ job' = [job EXCEPT ![k] = [NoJob EXCEPT !.state = "PENDING",
                                             !.reruns = job[k].reruns + 1]]
  /\ UNCHANGED <<ended, current, worker, batch, funded, faults, drains>>

WalletRunsShort ==
  /\ funded /\ drains < MaxDrains
  /\ funded' = FALSE /\ drains' = drains + 1
  /\ UNCHANGED <<ended, current, job, worker, batch, faults>>

WalletToppedUp ==
  /\ ~funded
  /\ funded' = TRUE
  /\ UNCHANGED <<ended, current, job, worker, batch, faults, drains>>

-----------------------------------------------------------------------------
(* Time. *)

PeriodEnds ==
  /\ ended < Periods
  /\ ended' = ended + 1
  /\ UNCHANGED <<current, job, worker, batch, funded, faults, drains>>

BackoffEnds(k) ==
  /\ job[k].waiting
  /\ job' = [job EXCEPT ![k].waiting = FALSE]
  /\ UNCHANGED <<ended, current, worker, batch, funded, faults, drains>>

(* A lease whose poll is still at work runs out only if that worker stalls. *)
LeaseExpires(k) ==
  LET atWork == job[k].holder \in Workers /\ k \in batch[job[k].holder] IN
  /\ job[k].state = "LEASED" /\ job[k].leaseLive
  /\ atWork => faults < MaxFaults
  /\ faults' = IF atWork THEN faults + 1 ELSE faults
  /\ job' = [job EXCEPT ![k].leaseLive = FALSE]
  /\ UNCHANGED <<ended, current, worker, batch, funded, drains>>

Next ==
  \/ \E w \in Workers : Reconcile(w) \/ Claim(w) \/ Process(w) \/ Crash(w)
  \/ RefreshManually \/ (\E k \in Jobs : RerunJob(k))
  \/ WalletRunsShort \/ WalletToppedUp
  \/ PeriodEnds \/ (\E k \in Jobs : BackoffEnds(k) \/ LeaseExpires(k))

(* The interval timer polls for ever and time passes. *)
Fairness ==
  /\ \A w \in Workers : WF_vars(Reconcile(w)) /\ WF_vars(Claim(w)) /\ WF_vars(Process(w))
  /\ \A k \in Jobs : WF_vars(BackoffEnds(k)) /\ WF_vars(LeaseExpires(k))

SafeSpec == Init /\ [][Next]_vars
Spec == SafeSpec /\ Fairness

-----------------------------------------------------------------------------
(* The columns of budget_refresh_jobs and the memory of the workers. *)
WorkerTypeOK ==
  /\ ended \in 0..Periods /\ current \in 1..(Periods + 1)
  /\ job \in [Jobs -> JobRow]
  /\ worker \in [Workers -> {"idle", "reconciled", "processing"}]
  /\ batch \in [Workers -> SUBSET Jobs]
  /\ funded \in BOOLEAN /\ faults \in Nat /\ drains \in Nat

(* A job is reported SUCCEEDED only when the period it was created for is  *)
(* closed, whoever closed it and whatever became of the lease.             *)
SucceededMeansRefreshed ==
  \A k \in Jobs : job[k].state = "SUCCEEDED" => k < current

(* Once the wallet stays funded every ended period is eventually refreshed, *)
(* although workers died after claiming, stalled past their lease, or found *)
(* the wallet short again and again: an unfunded claim costs no attempt.    *)
EndedPeriodsAreRefreshed ==
  <>[]funded => \A k \in Jobs : (k <= ended) ~> (k < current)
=============================================================================
