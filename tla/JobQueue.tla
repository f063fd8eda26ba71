------------------------------ MODULE JobQueue ------------------------------
(***************************************************************************)
(* The job table of PostgreSQL and the worker processes that drain it:     *)
(* packages/worker-runtime/src/worker-job-runner.ts, with the operations   *)
(* of packages/db that insert, hasten and cancel jobs.                     *)
(*                                                                         *)
(* Every store call is one transaction.  A process reads its own clock     *)
(* BEFORE the call (claimedAt, completedAt, failedAt, input.now()) and the *)
(* database compares and stores that reading when the transaction runs, so *)
(* a reading is a process' skew less the call's lag.                       *)
(*                                                                         *)
(* Times are relative to the present: jobs[j].lease is lease_expires_at    *)
(* less the true time, jobs[j].wait is run_after less the true time, and   *)
(* Tick lowers both.  That keeps the model finite with no horizon: below   *)
(* -MaxLag every comparison with a reading has the same answer.            *)
(***************************************************************************)
EXTENDS Integers, FiniteSets

CONSTANTS
  Jobs,          \* job ids
  Procs,         \* worker processes
  WorkerIds,     \* values of WORKER_ID; several processes may share one
  WorkerId,      \* [Procs -> WorkerIds]
  Priority,      \* [Jobs -> Nat], jobs.priority
  Skew,          \* [Procs -> Nat], how far a process' clock runs ahead
  MaxAttempts,   \* jobs.max_attempts
  LeaseTicks,    \* leaseMs
  BackoffTicks,  \* retryBackoffMs, its growth with the attempt abstracted
  MaxDuration,   \* maxJobDurationMs
  MaxDelay,      \* how far in the future a scheduled job is enqueued
  MaxLag,        \* bound: ticks a database call may take
  MaxStops,      \* bound: crashes and shutdowns of worker processes
  None

ASSUME ProcsAssumption == WorkerId \in [Procs -> WorkerIds] /\ Skew \in [Procs -> Nat]
ASSUME JobsAssumption == Priority \in [Jobs -> Nat] /\ MaxAttempts \in Nat \ {0}
ASSUME TimesAssumption ==
  /\ LeaseTicks \in Nat \ {0} /\ BackoffTicks \in Nat /\ MaxDuration \in Nat
  /\ MaxDelay \in Nat /\ MaxLag \in Nat /\ MaxStops \in Nat
ASSUME NoneAssumption ==
  None \notin WorkerIds /\ None \notin Jobs /\ None \notin {"succeeded", "canceled", "failed"}

VARIABLES
  jobs,      \* table jobs
  attempts,  \* table job_attempts, by job and attempt_number
  run,       \* what each worker process is doing
  draining,  \* processes whose runner was told to stop
  stops      \* crashes and shutdowns so far

vars == <<jobs, attempts, run, draining, stops>>

Numbers == 1..MaxAttempts
Settled == {"succeeded", "failed", "canceled"}
Outcomes == {"succeeded", "canceled", "failed"}
NoCall == -1     \* no renewal in flight

Job == [status : {"absent", "pending", "running"} \cup Settled,
        attempt : 0..MaxAttempts,      \* attempt_count
        owner : WorkerIds \cup {None}, \* lease_owner
        lease : Int,                   \* lease_expires_at, 0 for null
        wait : Int,                    \* run_after, 0 when no longer read
        result : 0..MaxAttempts]       \* the attempt that wrote jobs.result

Attempt == [status : {"none", "running", "succeeded", "failed"},
            worker : WorkerIds \cup {None}]

\* runNextJob's locals and those of its lease renewal.
Run == [pc : {"down", "idle", "claiming", "handling", "settling", "finishing"},
        job : Jobs \cup {None},
        attempt : 0..MaxAttempts,
        out : Outcomes \cup {None},    \* the store call to make
        lag : Nat,                     \* age of that call's clock reading
        renew : Nat \cup {NoCall},     \* age of the renewal's clock reading
        ran : Nat,                     \* since the renewal was started
        aborted : BOOLEAN]             \* leaseLost or signal.aborted

TypeOK ==
  /\ jobs \in [Jobs -> Job]
  /\ attempts \in [Jobs -> [Numbers -> Attempt]]
  /\ run \in [Procs -> Run]
  /\ draining \subseteq Procs
  /\ stops \in 0..MaxStops

AbsentJob == [status |-> "absent", attempt |-> 0, owner |-> None,
              lease |-> 0, wait |-> 0, result |-> 0]
NoAttempt == [status |-> "none", worker |-> None]

\* A run that has just reached pc, with job j at attempt n; and one that goes on.
NewRun(pc, j, n) == [pc |-> pc, job |-> j, attempt |-> n, out |-> None,
                     lag |-> 0, renew |-> NoCall, ran |-> 0, aborted |-> FALSE]
Goes(r, pc, out) == [r EXCEPT !.pc = pc, !.out = out, !.lag = 0]
Aborted(r) == [r EXCEPT !.renew = NoCall, !.aborted = TRUE]

IdleRun == NewRun("idle", None, 0)
Down == NewRun("down", None, 0)

Init ==
  /\ jobs = [j \in Jobs |-> AbsentJob]
  /\ attempts = [j \in Jobs |-> [n \in Numbers |-> NoAttempt]]
  /\ run = [p \in Procs |-> IdleRun]
  /\ draining = {}
  /\ stops = 0

----------------------------------------------------------------------------
(* Other clients of the table. *)

\* A job that no worker holds, now in status, due at wait.
Unleased(job, status, wait) ==
  [status |-> status, attempt |-> job.attempt, owner |-> None, lease |-> 0,
   wait |-> wait, result |-> job.result]

Enqueue(j) ==
  /\ jobs[j].status = "absent"
  /\ \E delay \in {0, MaxDelay} :
       jobs' = [jobs EXCEPT ![j] = Unleased(@, "pending", delay)]
  /\ UNCHANGED <<attempts, run, draining, stops>>

\* A pending job is pulled forward to now, by a manual probe or a new failure.
Hasten(j) ==
  /\ jobs[j].status = "pending" /\ jobs[j].wait > 0
  /\ jobs' = [jobs EXCEPT ![j] = Unleased(@, "pending", 0)]
  /\ UNCHANGED <<attempts, run, draining, stops>>

\* Recovery of a connection, or deletion of a provider, cancels its pending jobs.
CancelPending(j) ==
  /\ jobs[j].status = "pending"
  /\ jobs' = [jobs EXCEPT ![j] = Unleased(@, "canceled", 0)]
  /\ UNCHANGED <<attempts, run, draining, stops>>

----------------------------------------------------------------------------
(* claimNextJob. *)

\* The clock reading that a call of process p issued lag ticks ago carries.
Reading(p, lag) == Skew[p] - lag

\* Mutant: only the leases that were given back are recovered.
ExpiredOnlyReleased(job, at) == job.status = "running" /\ job.owner = None

Expired(job, at) == job.status = "running" /\ job.lease <= at

\* Mutation: a lost lease gives its attempt back.
RecoveredRefunded(job, at) == [Unleased(job, "pending", at) EXCEPT !.attempt = @ - 1]

\* recoverExpiredRunningJobs, one job of it.
Recovered(job, at) ==
  IF job.attempt < MaxAttempts
  THEN Unleased(job, "pending", at) ELSE Unleased(job, "failed", 0)

RecoveredJobs(at, locked) ==
  [j \in Jobs |-> IF j \notin locked /\ Expired(jobs[j], at)
                  THEN Recovered(jobs[j], at) ELSE jobs[j]]

\* Mutant: the recovery forgets its second statement.
RecoveredAttemptsLeft(at, locked) == attempts

RecoveredAttempts(at, locked) ==
  [j \in Jobs |-> [n \in Numbers |->
    IF /\ j \notin locked /\ Expired(jobs[j], at)
       /\ n = jobs[j].attempt /\ attempts[j][n].status = "running"
    THEN [attempts[j][n] EXCEPT !.status = "failed"] ELSE attempts[j][n]]]

\* The pending jobs a claim may take, in table t: due, not locked, and first in
\* the order priority desc, run_after.
Claimable(t, at, locked) ==
  LET due == {j \in Jobs \ locked : t[j].status = "pending" /\ t[j].wait <= at}
  IN  {j \in due : \A k \in due :
         \/ Priority[j] > Priority[k]
         \/ Priority[j] = Priority[k] /\ t[j].wait <= t[k].wait}

Claimed(job, p, at) ==
  [status |-> "running", attempt |-> job.attempt + 1, owner |-> WorkerId[p],
   lease |-> at + LeaseTicks, wait |-> 0, result |-> job.result]

\* runNextJob reads its clock and calls the store.
BeginClaim(p) ==
  /\ run[p].pc = "idle" /\ p \notin draining
  /\ run' = [run EXCEPT ![p].pc = "claiming"]
  /\ UNCHANGED <<jobs, attempts, draining, stops>>

\* The claim's transaction commits.  It skips the rows other transactions hold
\* locked; if its answer is lost the job is leased to a process that does not know.
ClaimCommits(p, locked, answered) ==
  /\ run[p].pc = "claiming"
  /\ LET at == Reading(p, run[p].lag)
         table == RecoveredJobs(at, locked)
         ledger == RecoveredAttempts(at, locked)
         claimable == Claimable(table, at, locked)
     IN \/ /\ claimable = {}
           /\ jobs' = table /\ attempts' = ledger
           /\ run' = [run EXCEPT ![p] = IdleRun]
        \/ \E j \in claimable :
             LET number == table[j].attempt + 1
             IN /\ jobs' = [table EXCEPT ![j] = Claimed(table[j], p, at)]
                /\ attempts' = [ledger EXCEPT ![j][number] =
                                  [status |-> "running", worker |-> WorkerId[p]]]
                /\ run' = [run EXCEPT ![p] =
                     IF answered THEN NewRun("handling", j, number) ELSE IdleRun]
  /\ UNCHANGED <<draining, stops>>

Claim(p) == \E locked \in SUBSET Jobs, answered \in BOOLEAN : ClaimCommits(p, locked, answered)

\* The claim throws and is rolled back; wake() logs and re-arms its timer.
ClaimFails(p) ==
  /\ run[p].pc = "claiming"
  /\ run' = [run EXCEPT ![p] = IdleRun]
  /\ UNCHANGED <<jobs, attempts, draining, stops>>

----------------------------------------------------------------------------
(* The lease renewal that runs beside a handler. *)

\* Mutation: a fence without the attempt number.
HoldsLeaseByOwner(p, at) ==
  LET job == jobs[run[p].job]
  IN  job.status = "running" /\ job.owner = WorkerId[p] /\ job.lease > at

\* The fence of completeJob, cancelJob, failJob and renewJobLease.
HoldsLease(p, at) ==
  LET job == jobs[run[p].job]
  IN  /\ job.status = "running"
      /\ job.owner = WorkerId[p]
      /\ job.attempt = run[p].attempt
      /\ job.lease > at

\* The timer fires: past maxJobDurationMs the run is aborted, else the store is called.
BeginRenew(p) ==
  /\ run[p].pc \in {"handling", "settling"}
  /\ run[p].renew = NoCall /\ ~run[p].aborted
  /\ run' = [run EXCEPT ![p] = IF @.ran > MaxDuration THEN Aborted(@)
                               ELSE [@ EXCEPT !.renew = 0]]
  /\ UNCHANGED <<jobs, attempts, draining, stops>>

RenewCommits(p) ==
  LET at == Reading(p, run[p].renew)
  IN  /\ run[p].renew # NoCall
      /\ IF HoldsLease(p, at)
         THEN /\ jobs' = [jobs EXCEPT ![run[p].job].lease = at + LeaseTicks]
              /\ run' = [run EXCEPT ![p].renew = NoCall]
         ELSE /\ run' = [run EXCEPT ![p] = Aborted(@)]
              /\ UNCHANGED jobs
      /\ UNCHANGED <<attempts, draining, stops>>

\* The call throws, before its statement ran or after; either way the run is aborted.
RenewFails(p) ==
  LET at == Reading(p, run[p].renew)
  IN  /\ run[p].renew # NoCall
      /\ run' = [run EXCEPT ![p] = Aborted(@)]
      /\ \/ UNCHANGED jobs
         \/ HoldsLease(p, at) /\ jobs' = [jobs EXCEPT ![run[p].job].lease = at + LeaseTicks]
      /\ UNCHANGED <<attempts, draining, stops>>

----------------------------------------------------------------------------
(* The end of a run. *)

\* The handler returns, returns a canceled result, or throws.  An aborted run
\* makes no store call.
HandlerEnds(p) ==
  /\ run[p].pc = "handling"
  /\ \E out \in Outcomes :
       run' = [run EXCEPT ![p] = IF @.aborted THEN Goes(@, "finishing", None)
                                 ELSE Goes(@, "settling", out)]
  /\ UNCHANGED <<jobs, attempts, draining, stops>>

\* Mutant: one retry too many.
SettledJobOffByOne(job, out, at, number) ==
  IF out # "failed" THEN [Unleased(job, out, 0) EXCEPT !.result = number]
  ELSE IF number <= MaxAttempts
       THEN Unleased(job, "pending", at + BackoffTicks) ELSE Unleased(job, "failed", 0)

\* What completeJob, cancelJob or failJob makes of the job.
SettledJob(job, out, at, number) ==
  IF out # "failed" THEN [Unleased(job, out, 0) EXCEPT !.result = number]
  ELSE IF number < MaxAttempts
       THEN Unleased(job, "pending", at + BackoffTicks) ELSE Unleased(job, "failed", 0)

\* A canceled run is recorded as a successful attempt.
SettledAttempt(attempt, out, worker) ==
  IF attempt.status = "running" /\ attempt.worker = worker
  THEN [attempt EXCEPT !.status = IF out = "failed" THEN "failed" ELSE "succeeded"]
  ELSE attempt

WriteOutcome(p) ==
  LET j == run[p].job
      n == run[p].attempt
      at == Reading(p, run[p].lag)
  IN  /\ HoldsLease(p, at)
      /\ jobs' = [jobs EXCEPT ![j] = SettledJob(@, run[p].out, at, n)]
      /\ attempts' = [attempts EXCEPT ![j][n] = SettledAttempt(@, run[p].out, WorkerId[p])]

SettleCommits(p) ==
  /\ run[p].pc = "settling"
  /\ \/ WriteOutcome(p)
     \/ ~HoldsLease(p, Reading(p, run[p].lag)) /\ UNCHANGED <<jobs, attempts>>
  /\ run' = [run EXCEPT ![p] = Goes(@, "finishing", None)]
  /\ UNCHANGED <<draining, stops>>

\* The store call throws, rolled back or committed with its answer lost.  The catch
\* turns a lost completion into a failure, unless the run was aborted meanwhile.
SettleFails(p) ==
  /\ run[p].pc = "settling"
  /\ WriteOutcome(p) \/ UNCHANGED <<jobs, attempts>>
  /\ run' = [run EXCEPT ![p] = IF @.out # "failed" /\ ~@.aborted
                               THEN Goes(@, "settling", "failed")
                               ELSE Goes(@, "finishing", None)]
  /\ UNCHANGED <<draining, stops>>

\* renewal.stop() has waited for the renewal in flight.
Finish(p) ==
  /\ run[p].pc = "finishing" /\ run[p].renew = NoCall
  /\ run' = [run EXCEPT ![p] = IdleRun]
  /\ UNCHANGED <<jobs, attempts, draining, stops>>

----------------------------------------------------------------------------
(* Shutdown, crash, restart and time. *)

Shutdown(p) ==
  /\ run[p].pc # "down" /\ p \notin draining /\ stops < MaxStops
  /\ draining' = draining \cup {p} /\ stops' = stops + 1
  /\ UNCHANGED <<jobs, attempts, run>>

\* shutdownGraceMs passes with a job still active: its renewal stops, its signal aborts.
GraceElapses(p) ==
  /\ p \in draining /\ run[p].pc \in {"handling", "settling", "finishing"}
  /\ ~run[p].aborted
  /\ run' = [run EXCEPT ![p].aborted = TRUE]
  /\ UNCHANGED <<jobs, attempts, draining, stops>>

\* stop() returns when no job is active or the grace elapsed, and the process exits.
Exit(p) ==
  /\ p \in draining /\ (run[p].pc \in {"idle", "claiming"} \/ run[p].aborted)
  /\ run' = [run EXCEPT ![p] = Down] /\ draining' = draining \ {p}
  /\ UNCHANGED <<jobs, attempts, stops>>

Crash(p) ==
  /\ run[p].pc # "down" /\ stops < MaxStops
  /\ run' = [run EXCEPT ![p] = Down] /\ draining' = draining \ {p}
  /\ stops' = stops + 1
  /\ UNCHANGED <<jobs, attempts>>

Restart(p) ==
  /\ run[p].pc = "down"
  /\ run' = [run EXCEPT ![p] = IdleRun]
  /\ UNCHANGED <<jobs, attempts, draining, stops>>

Older(time) == IF time > -MaxLag THEN time - 1 ELSE time

InCall(r) == r.pc \in {"claiming", "settling"}

OlderJob(job) ==
  IF job.status = "running" THEN [job EXCEPT !.lease = Older(@)]
  ELSE IF job.status = "pending" THEN [job EXCEPT !.wait = Older(@)] ELSE job

OlderRun(r) ==
  [r EXCEPT !.lag = IF InCall(r) THEN @ + 1 ELSE @,
            !.renew = IF @ # NoCall THEN @ + 1 ELSE @,
            !.ran = IF r.job # None /\ @ <= MaxDuration THEN @ + 1 ELSE @]

Tick ==
  /\ \A p \in Procs : (InCall(run[p]) => run[p].lag < MaxLag) /\ run[p].renew < MaxLag
  /\ jobs' = [j \in Jobs |-> OlderJob(jobs[j])]
  /\ run' = [p \in Procs |-> OlderRun(run[p])]
  /\ UNCHANGED <<attempts, draining, stops>>

Renew(p) == BeginRenew(p) \/ RenewCommits(p) \/ RenewFails(p)

Step(p) ==
  \/ BeginClaim(p) \/ Claim(p) \/ ClaimFails(p)
  \/ Renew(p)
  \/ HandlerEnds(p) \/ SettleCommits(p) \/ SettleFails(p) \/ Finish(p)
  \/ Shutdown(p) \/ GraceElapses(p) \/ Exit(p) \/ Crash(p) \/ Restart(p)

Next ==
  \/ \E j \in Jobs : Enqueue(j) \/ Hasten(j) \/ CancelPending(j)
  \/ \E p \in Procs : Step(p)
  \/ Tick

Spec == Init /\ [][Next]_vars

\* Time passes, started calls end, handlers return, stopped processes are restarted,
\* and of the claims made again and again one is answered and meets no locked row.
Fairness ==
  /\ SF_vars(Tick)
  /\ \A p \in Procs :
       /\ WF_vars(BeginClaim(p)) /\ WF_vars(Claim(p) \/ ClaimFails(p))
       /\ SF_vars(ClaimCommits(p, {}, TRUE))
       /\ WF_vars(RenewCommits(p) \/ RenewFails(p))
       /\ WF_vars(HandlerEnds(p)) /\ WF_vars(SettleCommits(p) \/ SettleFails(p))
       /\ WF_vars(Finish(p)) /\ WF_vars(Exit(p)) /\ WF_vars(Restart(p))

FairSpec == Spec /\ Fairness

----------------------------------------------------------------------------
(* Properties. *)

\* The ledger of attempts tells the job's story: attempts below attempt_count have
\* failed, none lies above it, and the current one is running exactly while the job
\* is and succeeded exactly when it wrote the job's result.  It ties the two tables
\* that every store call updates with two statements.
LedgerAgrees ==
  \A j \in Jobs : \A n \in Numbers :
    LET current == attempts[j][n].status
    IN  /\ n > jobs[j].attempt => current = "none"
        /\ n < jobs[j].attempt => current = "failed"
        /\ n = jobs[j].attempt =>
             /\ current # "none"
             /\ current = "running" <=> jobs[j].status = "running"
             /\ current = "succeeded" <=> jobs[j].result # 0
             /\ jobs[j].status = "running" => attempts[j][n].worker = jobs[j].owner

\* A job waits for a retry only with attempts left and fails for good only when they
\* are spent, whichever of recoverExpiredRunningJobs and failJob decided it.
RetryBudget ==
  \A j \in Jobs : /\ jobs[j].status = "pending" => jobs[j].attempt < MaxAttempts
                  /\ jobs[j].status = "failed" => jobs[j].attempt = MaxAttempts

\* A result is the last attempt's: a worker that lost its lease, then woke up and
\* completed, has not overwritten the attempt that replaced it.
ResultIsCurrent ==
  \A j \in Jobs :
    /\ jobs[j].result \in {0, jobs[j].attempt}
    /\ jobs[j].result # 0 => jobs[j].status \in {"succeeded", "canceled"}
    /\ jobs[j].status = "succeeded" => jobs[j].result # 0

\* No step changes a job that has settled: neither the failJob that follows a
\* completion whose answer was lost, nor a late renewal, nor a recovery.
SettledIsFinal ==
  [][\A j \in Jobs : jobs[j].status \in Settled => jobs'[j] = jobs[j]]_vars

\* No attempt is executed twice: two processes may run the same job at once, when one
\* lost its lease and has not noticed, but never under the same attempt number, which
\* is what the fence and the handlers' own deduplication rely on.
AttemptRunsOnce ==
  \A p, q \in Procs :
    p # q /\ run[p].job # None /\ run[p].job = run[q].job => run[p].attempt # run[q].attempt

\* What is left of the tables when workers, leases and clocks are forgotten.
life == [j \in Jobs |-> [status |-> jobs[j].status, attempt |-> jobs[j].attempt,
                         result |-> jobs[j].result]]

Lifecycle == INSTANCE JobLifecycle WITH life <- life

\* The tables and their workers implement the promise of JobLifecycle.
ImplementsLifecycle == Lifecycle!Spec

\* Every enqueued job settles, whatever workers crash, calls fail or answers are lost.
EveryJobSettles ==
  \A j \in Jobs : jobs[j].status = "pending" ~> jobs[j].status \in Settled
=============================================================================
