----------------------- MODULE BudgetRefreshWorker_proofs -----------------------
(***************************************************************************)
(* The refresh workers, for any number of workers, periods, attempts,      *)
(* crashes, stalls, empty wallets and manual reruns.                       *)
(***************************************************************************)
EXTENDS BudgetRefreshWorker, TLAPS

(* Who completes a job need not refresh the period it was created for: the *)
(* transaction refreshes the period that is ACTIVE by then.  That the      *)
(* job's own period is closed afterwards rests on JobsAreNotAhead: a job   *)
(* is created for the ACTIVE period, and the ACTIVE period only advances.  *)
JobsAreNotAhead == \A k \in Jobs : job[k].state # "ABSENT" => k <= current

(* Giving an attempt back never makes the count negative. *)
LeasesAreCounted == \A k \in Jobs : job[k].state = "LEASED" => job[k].attempts > 0

WorkerInv ==
  /\ WorkerTypeOK /\ JobsAreNotAhead /\ LeasesAreCounted /\ SucceededMeansRefreshed

JobOK(k, row, active) ==
  /\ row.state # "ABSENT" => k <= active
  /\ row.state = "LEASED" => row.attempts > 0
  /\ row.state = "SUCCEEDED" => k < active

LEMMA RowByRow ==
  JobsAreNotAhead /\ LeasesAreCounted /\ SucceededMeansRefreshed
    <=> \A k \in Jobs : JobOK(k, job[k], current)
BY DEF JobsAreNotAhead, LeasesAreCounted, SucceededMeansRefreshed, JobOK

LEMMA Facts ==
  ASSUME WorkerInv, NEW k \in Jobs
  PROVE  /\ k \in Nat /\ current \in Nat /\ job[k] \in JobRow /\ JobOK(k, job[k], current)
         /\ job[k].attempts \in Nat
<1>1. k \in Nat /\ current \in Nat /\ job[k] \in JobRow
  BY WorkerAssumption DEF WorkerInv, WorkerTypeOK, Jobs
<1> QED
  BY <1>1, RowByRow DEF WorkerInv, JobRow

(* What a step leaves as it is keeps its type. *)
LEMMA Standing ==
  ASSUME WorkerInv
  PROVE  /\ current \in 1..(Periods + 1) /\ current <= current
         /\ worker \in [Workers -> {"idle", "reconciled", "processing"}]
         /\ batch \in [Workers -> SUBSET Jobs]
         /\ ended \in 0..Periods /\ funded \in BOOLEAN /\ faults \in Nat /\ drains \in Nat
BY WorkerAssumption DEF WorkerInv, WorkerTypeOK

(* A step that touches the table of jobs only row by row, and advances the *)
(* ACTIVE period at most.                                                  *)
LEMMA RowsStep ==
  ASSUME WorkerInv, WorkerTypeOK', current <= current',
         \A k \in Jobs : job'[k] = job[k] \/ JobOK(k, job'[k], current')
  PROVE  WorkerInv'
<1>1. current' \in Nat
  BY WorkerAssumption DEF WorkerTypeOK
<1>2. ASSUME NEW k \in Jobs PROVE JobOK(k, job'[k], current')
  BY <1>1, Facts DEF JobOK
<1>3. (\A k \in Jobs : JobOK(k, job[k], current))'
  BY <1>2
<1> QED
  BY <1>3, RowByRow DEF WorkerInv, JobsAreNotAhead, LeasesAreCounted,
     SucceededMeansRefreshed, JobOK

(* One row changes. *)
LEMMA RowStep ==
  ASSUME WorkerInv, NEW k \in Jobs, NEW row \in JobRow,
         job' = [job EXCEPT ![k] = row],
         current' \in 1..(Periods + 1), current <= current', JobOK(k, row, current'),
         ended' = ended,
         worker' \in [Workers -> {"idle", "reconciled", "processing"}],
         batch' \in [Workers -> SUBSET Jobs],
         funded' = funded, faults' \in Nat, drains' = drains
  PROVE  WorkerInv'
<1>1. job \in [Jobs -> JobRow]
  BY DEF WorkerInv, WorkerTypeOK
<1>2. job' \in [Jobs -> JobRow] /\ job'[k] = row /\ \A j \in Jobs \ {k} : job'[j] = job[j]
  BY <1>1
<1>3. WorkerTypeOK'
  BY <1>2 DEF WorkerInv, WorkerTypeOK
<1>4. \A j \in Jobs : job'[j] = job[j] \/ JobOK(j, job'[j], current')
  BY <1>2
<1> QED
  BY <1>3, <1>4, RowsStep

(* No row and no period changes. *)
LEMMA QuietStep ==
  ASSUME WorkerInv, UNCHANGED <<job, current>>, ended' \in 0..Periods,
         worker' \in [Workers -> {"idle", "reconciled", "processing"}],
         batch' \in [Workers -> SUBSET Jobs],
         funded' \in BOOLEAN, faults' \in Nat, drains' \in Nat
  PROVE  WorkerInv'
<1>1. WorkerTypeOK'
  BY DEF WorkerInv, WorkerTypeOK
<1> QED
  BY <1>1 DEF WorkerInv, JobsAreNotAhead, LeasesAreCounted, SucceededMeansRefreshed

(***************************************************************************)
(* The rows that the transactions write.                                   *)
(***************************************************************************)
LEMMA ReleasedRow ==
  ASSUME NEW row \in JobRow, NEW state \in JobStates
  PROVE  /\ Released(row, state) \in JobRow
         /\ Released(row, state).state = state
         /\ Released(row, state).attempts = row.attempts
<1> DEFINE retry == (state = "RETRY")
<1>1. retry \in BOOLEAN
  OBVIOUS
<1> HIDE DEF retry
<1>2. Released(row, state) = [row EXCEPT !.state = state, !.holder = NoWorker,
                                         !.leaseLive = FALSE, !.waiting = retry]
  BY DEF Released, retry
<1> QED
  BY <1>1, <1>2 DEF JobRow

LEMMA FailedRow ==
  ASSUME NEW row \in JobRow
  PROVE  Failed(row) \in JobRow /\ Failed(row).state \in {"DEAD_LETTER", "RETRY"}
<1> DEFINE state == IF row.attempts >= MaxAttempts THEN "DEAD_LETTER" ELSE "RETRY"
<1>1. state \in {"DEAD_LETTER", "RETRY"} /\ state \in JobStates
  BY DEF JobStates
<1>2. Failed(row) = Released(row, state)
  BY DEF Failed
<1> HIDE DEF state
<1> QED
  BY <1>1, <1>2, ReleasedRow

LEMMA AwaitingFundsRow ==
  ASSUME NEW row \in JobRow, row.attempts > 0
  PROVE  AwaitingFunds(row) \in JobRow /\ AwaitingFunds(row).state = "RETRY"
<1> DEFINE released == Released(row, "RETRY")
<1>1. released \in JobRow /\ released.state = "RETRY"
  BY ReleasedRow DEF JobStates
<1>2. row.attempts - 1 \in Nat
  BY DEF JobRow
<1>3. AwaitingFunds(row) = [released EXCEPT !.attempts = row.attempts - 1]
  BY DEF AwaitingFunds
<1> HIDE DEF released
<1> QED
  BY <1>1, <1>2, <1>3 DEF JobRow

LEMMA LeasedRow ==
  ASSUME NEW row \in JobRow, NEW w \in Workers
  PROVE  /\ Leased(row, w) \in JobRow /\ Leased(row, w).state = "LEASED"
         /\ Leased(row, w).attempts > 0
<1>1. row.attempts + 1 \in Nat /\ row.attempts + 1 > 0
  BY DEF JobRow
<1>2. Leased(row, w) = [row EXCEPT !.state = "LEASED", !.attempts = row.attempts + 1,
                                   !.holder = w, !.leaseLive = TRUE]
  BY DEF Leased, JobRow
<1> QED
  BY <1>1, <1>2 DEF JobRow, JobStates

LEMMA NewRow ==
  ASSUME NEW n \in Nat
  PROVE  /\ [NoJob EXCEPT !.state = "PENDING", !.reruns = n] \in JobRow
         /\ [NoJob EXCEPT !.state = "PENDING"] \in JobRow
         /\ NoJob \in JobRow
BY DEF NoJob, JobRow, JobStates

(***************************************************************************)
(* The initial state and each action.                                      *)
(***************************************************************************)
LEMMA WorkerInitInv == Init => WorkerInv
<1> SUFFICES ASSUME Init PROVE WorkerInv
  OBVIOUS
<1>1. WorkerTypeOK
  <2>1. NoJob \in JobRow /\ 0 \in Nat
    BY DEF NoJob, JobRow, JobStates
  <2>2. ended \in 0..Periods /\ current \in 1..(Periods + 1)
    BY WorkerAssumption DEF Init
  <2> QED
    BY <2>1, <2>2 DEF Init, WorkerTypeOK
<1>2. \A k \in Jobs : job[k].state = "ABSENT"
  BY DEF Init, NoJob
<1> QED
  BY <1>1, <1>2 DEF WorkerInv, JobsAreNotAhead, LeasesAreCounted, SucceededMeansRefreshed

LEMMA ReconcileInv ==
  ASSUME WorkerInv, NEW w \in Workers, Reconcile(w)
  PROVE  WorkerInv'
<1> DEFINE new == [NoJob EXCEPT !.state = "PENDING"]
<1>1. new \in JobRow /\ new.state = "PENDING"
  BY NewRow DEF NoJob
<1>2. /\ job' = [k \in Jobs |-> IF k = current /\ job[k].state = "ABSENT" THEN new ELSE job[k]]
      /\ UNCHANGED <<ended, current, batch, funded, faults, drains>>
      /\ worker' = [worker EXCEPT ![w] = "reconciled"]
  BY DEF Reconcile
<1> HIDE DEF new
<1>3. \A k \in Jobs : job'[k] = job[k] \/ (k = current /\ job'[k] = new)
  BY <1>2
<1>4. WorkerTypeOK'
  BY <1>1, <1>2 DEF WorkerInv, WorkerTypeOK
<1>5. \A k \in Jobs : job'[k] = job[k] \/ JobOK(k, job'[k], current')
  BY <1>1, <1>2, <1>3, Facts DEF JobOK
<1> QED
  BY <1>2, <1>4, <1>5, RowsStep, WorkerAssumption DEF WorkerInv, WorkerTypeOK

LEMMA ClaimInv ==
  ASSUME WorkerInv, NEW w \in Workers, Claim(w)
  PROVE  WorkerInv'
<1> DEFINE claimed == {k \in Jobs : Claimable(k)}
<1>1. /\ worker' = [worker EXCEPT ![w] = IF claimed = {} THEN "idle" ELSE "processing"]
      /\ batch' = [batch EXCEPT ![w] = claimed]
      /\ job' = [k \in Jobs |-> IF k \in claimed THEN Leased(job[k], w) ELSE job[k]]
      /\ UNCHANGED <<ended, current, funded, faults, drains>>
  BY DEF Claim
<1>2. claimed \in SUBSET Jobs /\ \A k \in claimed : job[k].state # "ABSENT"
  BY DEF Claimable
<1> HIDE DEF claimed
<1>3. \A k \in Jobs : Leased(job[k], w) \in JobRow
  BY Facts, LeasedRow
<1>4. WorkerTypeOK'
  BY <1>1, <1>2, <1>3 DEF WorkerInv, WorkerTypeOK
<1>5. ASSUME NEW k \in Jobs PROVE job'[k] = job[k] \/ JobOK(k, job'[k], current')
  BY <1>1, <1>2, Facts, LeasedRow DEF JobOK
<1> QED
  BY <1>1, <1>4, <1>5, RowsStep, WorkerAssumption DEF WorkerInv, WorkerTypeOK

LEMMA RefreshesInv ==
  ASSUME WorkerInv, NEW w \in Workers, NEW k \in Jobs, Refreshes(w, k)
  PROVE  WorkerInv'
<1>1. /\ job[k].state = "LEASED" /\ job[k].attempts > 0 /\ job[k] \in JobRow
      /\ k \in Nat /\ current \in Nat /\ k <= current
  BY Facts DEF Refreshes, JobOK
<1>2. /\ worker' \in [Workers -> {"idle", "reconciled", "processing"}]
      /\ batch' \in [Workers -> SUBSET Jobs]
      /\ ended' = ended /\ funded' = funded /\ drains' = drains /\ faults' \in Nat
  BY WorkerAssumption DEF Refreshes, WorkerInv, WorkerTypeOK
<1>3. PICK row \in {Succeeded(job[k]), AwaitingFunds(job[k]), Failed(job[k])} :
        /\ job' = [job EXCEPT ![k] = row]
        /\ \/ row = Succeeded(job[k]) /\ current <= ended /\ current' = current + 1
           \/ row \in {AwaitingFunds(job[k]), Failed(job[k])} /\ current' = current
  BY DEF Refreshes, ReadyToRefresh, WorkerInv, WorkerTypeOK
<1>4. current' \in 1..(Periods + 1) /\ current <= current'
  BY <1>1, <1>3, WorkerAssumption DEF WorkerInv, WorkerTypeOK
<1>5. row \in JobRow /\ JobOK(k, row, current')
  <2>1. CASE row = Succeeded(job[k]) /\ current' = current + 1
    BY <1>1, <2>1, ReleasedRow DEF Succeeded, JobOK, JobStates
  <2>2. CASE row = AwaitingFunds(job[k]) /\ current' = current
    BY <1>1, <2>2, AwaitingFundsRow DEF JobOK
  <2>3. CASE row = Failed(job[k]) /\ current' = current
    BY <1>1, <2>3, FailedRow DEF JobOK
  <2> QED
    BY <1>3, <2>1, <2>2, <2>3
<1> QED
  BY <1>2, <1>3, <1>4, <1>5, RowStep

(* Losing the lease, and dying, touch the memory of one worker only. *)
LEMMA DroppedInv ==
  ASSUME WorkerInv, NEW w \in Workers,
         (\E k \in Jobs : LeaseUnavailable(w, k)) \/ Crash(w)
  PROVE  WorkerInv'
<1>1. /\ UNCHANGED <<ended, current, job, funded, drains>> /\ faults' \in Nat
      /\ worker' = [worker EXCEPT ![w] = "idle"]
      /\ batch' = [batch EXCEPT ![w] = {}]
  BY DEF LeaseUnavailable, Crash, WorkerInv, WorkerTypeOK
<1> QED
  BY <1>1, QuietStep DEF WorkerInv, WorkerTypeOK

LEMMA RefreshManuallyInv ==
  ASSUME WorkerInv, RefreshManually
  PROVE  WorkerInv'
<1>1. /\ current <= ended /\ current' = current + 1
      /\ UNCHANGED <<ended, job, worker, batch, funded, faults, drains>>
  BY DEF RefreshManually, ReadyToRefresh
<1>2. WorkerTypeOK' /\ current <= current'
  BY <1>1, WorkerAssumption DEF WorkerInv, WorkerTypeOK
<1> QED
  BY <1>1, <1>2, RowsStep

LEMMA RerunInv ==
  ASSUME WorkerInv, NEW k \in Jobs, RerunJob(k)
  PROVE  WorkerInv'
<1> DEFINE new == [NoJob EXCEPT !.state = "PENDING", !.reruns = job[k].reruns + 1]
<1>1. /\ job[k].state \in {"RETRY", "DEAD_LETTER"} /\ job' = [job EXCEPT ![k] = new]
      /\ UNCHANGED <<ended, current, worker, batch, funded, faults, drains>>
  BY DEF RerunJob
<1>2. new \in JobRow /\ new.state = "PENDING"
  <2>1. job[k].reruns + 1 \in Nat
    BY Facts DEF JobRow
  <2> QED
    BY <2>1, NewRow DEF NoJob
<1> HIDE DEF new
<1>3. JobOK(k, new, current)
  BY <1>1, <1>2, Facts DEF JobOK
<1> QED
  BY <1>1, <1>2, <1>3, RowStep, Standing

(* The clock changes no state of a job. *)
LEMMA ClockInv ==
  ASSUME WorkerInv, NEW k \in Jobs, BackoffEnds(k) \/ LeaseExpires(k)
  PROVE  WorkerInv'
<1>1. /\ UNCHANGED <<ended, current, worker, batch, funded, drains>> /\ faults' \in Nat
      /\ \/ job' = [job EXCEPT ![k].waiting = FALSE]
         \/ job' = [job EXCEPT ![k].leaseLive = FALSE]
  BY DEF BackoffEnds, LeaseExpires, WorkerInv, WorkerTypeOK
<1>2. PICK row \in {[job[k] EXCEPT !.waiting = FALSE], [job[k] EXCEPT !.leaseLive = FALSE]} :
        job' = [job EXCEPT ![k] = row]
  BY <1>1 DEF WorkerInv, WorkerTypeOK
<1>3. row \in JobRow /\ row.state = job[k].state /\ row.attempts = job[k].attempts
  BY Facts DEF JobRow
<1>4. JobOK(k, row, current)
  BY <1>3, Facts DEF JobOK
<1> QED
  BY <1>1, <1>2, <1>3, <1>4, RowStep, Standing

LEMMA WorkerNextInv == WorkerInv /\ [Next]_vars => WorkerInv'
<1> SUFFICES ASSUME WorkerInv, [Next]_vars PROVE WorkerInv'
  OBVIOUS
<1>1. ASSUME NEW w \in Workers, Reconcile(w) \/ Claim(w) \/ Process(w) \/ Crash(w)
      PROVE  WorkerInv'
  <2>1. CASE Process(w)
    <3>1. PICK k \in batch[w] : LeaseUnavailable(w, k) \/ Refreshes(w, k)
      BY <2>1 DEF Process
    <3>2. k \in Jobs
      BY DEF WorkerInv, WorkerTypeOK
    <3> QED
      BY <3>1, <3>2, DroppedInv, RefreshesInv
  <2> QED
    BY <1>1, <2>1, ReconcileInv, ClaimInv, DroppedInv
<1>2. CASE RefreshManually
  BY <1>2, RefreshManuallyInv
<1>3. ASSUME NEW k \in Jobs, RerunJob(k) \/ BackoffEnds(k) \/ LeaseExpires(k)
      PROVE  WorkerInv'
  BY <1>3, RerunInv, ClockInv
<1>4. CASE WalletRunsShort \/ WalletToppedUp \/ PeriodEnds
  <2>1. /\ UNCHANGED <<current, job, worker, batch, faults>>
        /\ ended' \in 0..Periods /\ funded' \in BOOLEAN /\ drains' \in Nat
    <3>1. CASE WalletRunsShort
      <4>1. /\ UNCHANGED <<current, job, worker, batch, faults>> /\ ended' = ended
            /\ funded' = FALSE /\ drains' = drains + 1
        BY <3>1 DEF WalletRunsShort
      <4>2. drains' \in Nat
        BY <4>1, Standing
      <4>3. funded' \in BOOLEAN
        BY <4>1
      <4> QED
        BY <4>1, <4>2, <4>3, Standing
    <3>2. CASE WalletToppedUp
      <4>1. /\ UNCHANGED <<current, job, worker, batch, faults>> /\ ended' = ended
            /\ funded' = TRUE /\ drains' = drains
        BY <3>2 DEF WalletToppedUp
      <4> QED
        BY <4>1, Standing
    <3>3. CASE PeriodEnds
      BY <3>3, Standing, WorkerAssumption DEF PeriodEnds
    <3> QED
      BY <1>4, <3>1, <3>2, <3>3
  <2> QED
    BY <2>1, QuietStep, Standing
<1>5. CASE UNCHANGED vars
  BY <1>5, QuietStep DEF vars, WorkerInv, WorkerTypeOK
<1> QED
  BY <1>1, <1>2, <1>3, <1>4, <1>5 DEF Next

LEMMA WorkerInvariant == Spec => []WorkerInv
BY WorkerInitInv, WorkerNextInv, PTL DEF Spec, SafeSpec

(***************************************************************************)
(* Theorems.                                                               *)
(***************************************************************************)

(* The columns of the job table and the memory of the workers keep their   *)
(* types: in particular the attempt that an unfunded refresh gives back    *)
(* was counted before.                                                     *)
THEOREM WorkerTypeCorrect == Spec => []WorkerTypeOK
<1>1. WorkerInv => WorkerTypeOK
  BY DEF WorkerInv
<1> QED
  BY <1>1, WorkerInvariant, PTL

(* However many workers die, stall past their lease and are overtaken, a   *)
(* job is reported SUCCEEDED only when its period is closed.               *)
THEOREM SuccessIsTrue == Spec => []SucceededMeansRefreshed
<1>1. WorkerInv => SucceededMeansRefreshed
  BY DEF WorkerInv
<1> QED
  BY <1>1, WorkerInvariant, PTL
=============================================================================
