--------------------------- MODULE JobQueue_proofs ---------------------------
(***************************************************************************)
(* What JobQueue guarantees for any number of jobs and worker processes,   *)
(* any sharing of worker ids, any clock skew and any lease length: typing, *)
(* the agreement of the two tables, the retry budget, fenced results,      *)
(* final outcomes and the implementation of JobLifecycle.                  *)
(*                                                                         *)
(* The inductive invariant adds RunShape to TypeOK: what a process knows   *)
(* of the run it is in.  None of the proofs uses a clock: with every       *)
(* reading arbitrary the fence still holds, by status, owner and attempt.  *)
(***************************************************************************)
EXTENDS JobQueue, TLAPS

Active == {"handling", "settling", "finishing"}

\* A process has a job exactly while a run is active, at an attempt the job has
\* reached; it renews only that job's lease, and settles with a known outcome.
GoodRun(r, table) ==
  /\ r.pc \in Active <=> r.job # None
  /\ r.renew # NoCall => r.job # None
  /\ r.job # None => r.attempt \in 1..table[r.job].attempt
  /\ r.pc = "settling" => r.out # None

RunShape == \A p \in Procs : GoodRun(run[p], jobs)

\* A job not yet enqueued has never been attempted, a running one has.
AttemptsCount ==
  \A j \in Jobs : /\ jobs[j].status = "absent" => jobs[j].attempt = 0
                  /\ jobs[j].status = "running" => jobs[j].attempt # 0

Inv == TypeOK /\ RunShape /\ LedgerAgrees /\ RetryBudget /\ ResultIsCurrent /\ AttemptsCount

(* What one step does to job j's rows of the two tables: every action is a  *)
(* choice of these, and the properties of the tables follow from them alone. *)

SameAttempts(j) == attempts'[j] = attempts[j]

Counted(j, status) ==
  /\ jobs'[j].status = status
  /\ jobs'[j].attempt = jobs[j].attempt /\ jobs'[j].result = jobs[j].result

Kept(j) ==
  /\ Counted(j, jobs[j].status) /\ SameAttempts(j)
  /\ jobs[j].status = "running" => jobs'[j].owner = jobs[j].owner
  /\ jobs[j].status \in Settled => jobs'[j] = jobs[j]

EnqueuedMove(j) ==
  jobs[j].status = "absent" /\ Counted(j, "pending") /\ SameAttempts(j)

WithdrawnMove(j) ==
  jobs[j].status = "pending" /\ Counted(j, "canceled") /\ SameAttempts(j)

AttemptFailed(j) ==
  [n \in Numbers |-> IF n = jobs[j].attempt /\ attempts[j][n].status = "running"
                     THEN [attempts[j][n] EXCEPT !.status = "failed"] ELSE attempts[j][n]]

GivenUpMove(j) ==
  /\ jobs[j].status = "running"
  /\ Counted(j, IF jobs[j].attempt < MaxAttempts THEN "pending" ELSE "failed")
  /\ attempts'[j] = AttemptFailed(j)

StartedMove(j) ==
  /\ jobs[j].status \in {"pending", "running"} /\ jobs[j].attempt < MaxAttempts
  /\ jobs'[j].status = "running" /\ jobs'[j].result = jobs[j].result
  /\ jobs'[j].attempt = jobs[j].attempt + 1
  /\ attempts'[j] = [AttemptFailed(j) EXCEPT ![jobs[j].attempt + 1] =
                       [status |-> "running", worker |-> jobs'[j].owner]]

FinishedMove(j) ==
  /\ jobs[j].status = "running"
  /\ jobs'[j].status \in {"succeeded", "canceled"}
  /\ jobs'[j].attempt = jobs[j].attempt /\ jobs'[j].result = jobs[j].attempt
  /\ attempts'[j] = [attempts[j] EXCEPT ![jobs[j].attempt] = [@ EXCEPT !.status = "succeeded"]]

JobMove(j) ==
  \/ Kept(j) \/ EnqueuedMove(j) \/ WithdrawnMove(j)
  \/ GivenUpMove(j) \/ StartedMove(j) \/ FinishedMove(j)

----------------------------------------------------------------------------
(* Helpers: the records the actions build. *)

LEMMA ReadingType ==
  ASSUME NEW p \in Procs, NEW lag \in Int
  PROVE  Reading(p, lag) \in Int
BY ProcsAssumption DEF Reading

LEMMA UnleasedType ==
  ASSUME NEW job \in Job, NEW status \in {"pending"} \cup Settled, NEW wait \in Int
  PROVE  /\ Unleased(job, status, wait) \in Job
         /\ Unleased(job, status, wait).status = status
         /\ Unleased(job, status, wait).attempt = job.attempt
         /\ Unleased(job, status, wait).result = job.result
BY DEF Unleased, Job

LEMMA ClaimedType ==
  ASSUME NEW job \in Job, job.attempt < MaxAttempts, NEW p \in Procs, NEW at \in Int
  PROVE  Claimed(job, p, at) \in Job
<1>1. WorkerId[p] \in WorkerIds /\ at + LeaseTicks \in Int
  BY ProcsAssumption, TimesAssumption
<1>2. job.attempt + 1 \in 0..MaxAttempts
  BY JobsAssumption DEF Job
<1>3. QED
  BY <1>1, <1>2 DEF Claimed, Job

\* Recovery changes only expired running jobs, to pending or failed by the attempts left.
LEMMA RecoveredType ==
  ASSUME NEW job \in Job, NEW at \in Int
  PROVE  /\ Recovered(job, at) \in Job
         /\ Recovered(job, at).attempt = job.attempt
         /\ Recovered(job, at).result = job.result
         /\ Recovered(job, at).status =
              IF job.attempt < MaxAttempts THEN "pending" ELSE "failed"
<1>1. CASE job.attempt < MaxAttempts
  <2>1. Recovered(job, at) = Unleased(job, "pending", at)
    BY <1>1 DEF Recovered
  <2>2. QED
    BY <1>1, <2>1, UnleasedType
<1>2. CASE ~(job.attempt < MaxAttempts)
  <2>1. Recovered(job, at) = Unleased(job, "failed", 0)
    BY <1>2 DEF Recovered
  <2>2. "failed" \in {"pending"} \cup Settled
    BY DEF Settled
  <2>3. QED
    BY <1>2, <2>1, <2>2, UnleasedType
<1>3. QED
  BY <1>1, <1>2

LEMMA SettledType ==
  ASSUME NEW job \in Job, NEW out \in Outcomes, NEW at \in Int, NEW number \in Numbers
  PROVE  /\ SettledJob(job, out, at, number) \in Job
         /\ SettledJob(job, out, at, number).attempt = job.attempt
         /\ SettledJob(job, out, at, number).status =
              IF out # "failed" THEN out
              ELSE IF number < MaxAttempts THEN "pending" ELSE "failed"
         /\ SettledJob(job, out, at, number).result =
              IF out # "failed" THEN number ELSE job.result
<1>1. CASE out # "failed"
  BY <1>1, JobsAssumption DEF SettledJob, Unleased, Job, Settled, Outcomes, Numbers
<1>2. CASE out = "failed"
  <2>1. SettledJob(job, out, at, number) =
          IF number < MaxAttempts
          THEN Unleased(job, "pending", at + BackoffTicks) ELSE Unleased(job, "failed", 0)
    BY <1>2 DEF SettledJob
  <2>2. at + BackoffTicks \in Int /\ {"pending", "failed"} \subseteq {"pending"} \cup Settled
    BY TimesAssumption DEF Settled
  <2>3. QED
    BY <1>2, <2>1, <2>2, UnleasedType
<1>3. QED
  BY <1>1, <1>2

LEMMA GoesType ==
  ASSUME NEW r \in Run, NEW pc \in {"settling", "finishing"}, NEW out \in Outcomes \cup {None}
  PROVE  /\ Goes(r, pc, out) \in Run
         /\ Goes(r, pc, out).pc = pc /\ Goes(r, pc, out).out = out
         /\ Goes(r, pc, out).job = r.job /\ Goes(r, pc, out).attempt = r.attempt
         /\ Goes(r, pc, out).renew = r.renew
BY DEF Goes, Run

LEMMA AbortedType ==
  ASSUME NEW r \in Run
  PROVE  /\ Aborted(r) \in Run
         /\ Aborted(r).pc = r.pc /\ Aborted(r).out = r.out
         /\ Aborted(r).job = r.job /\ Aborted(r).attempt = r.attempt
         /\ Aborted(r).renew = NoCall
BY DEF Aborted, Run

LEMMA OlderJobType ==
  ASSUME NEW job \in Job
  PROVE  /\ OlderJob(job) \in Job
         /\ OlderJob(job).status = job.status /\ OlderJob(job).attempt = job.attempt
         /\ OlderJob(job).owner = job.owner /\ OlderJob(job).result = job.result
BY DEF OlderJob, Older, Job

LEMMA OlderRunType ==
  ASSUME NEW r \in Run
  PROVE  /\ OlderRun(r) \in Run
         /\ OlderRun(r).pc = r.pc /\ OlderRun(r).out = r.out
         /\ OlderRun(r).job = r.job /\ OlderRun(r).attempt = r.attempt
         /\ OlderRun(r).renew = NoCall <=> r.renew = NoCall
<1> DEFINE lag == IF InCall(r) THEN r.lag + 1 ELSE r.lag
           renew == IF r.renew # NoCall THEN r.renew + 1 ELSE r.renew
           ran == IF r.job # None /\ r.ran <= MaxDuration THEN r.ran + 1 ELSE r.ran
<1>1. /\ lag \in Nat /\ renew \in Nat \cup {NoCall} /\ ran \in Nat
      /\ renew = NoCall <=> r.renew = NoCall
  BY DEF Run, NoCall
<1>2. OlderRun(r) = [r EXCEPT !.lag = lag, !.renew = renew, !.ran = ran]
  BY DEF OlderRun, Run
<1> HIDE DEF lag, renew, ran
<1>3. QED
  BY <1>1, <1>2 DEF Run

\* A run stays good while attempt counts grow.
LEMMA GoodRunKept ==
  ASSUME NEW r \in Run, NEW t \in [Jobs -> Job], NEW u \in [Jobs -> Job], GoodRun(r, t),
         \A j \in Jobs : t[j].attempt <= u[j].attempt
  PROVE  GoodRun(r, u)
<1>1. CASE r.job = None
  BY <1>1 DEF GoodRun
<1>2. CASE r.job # None
  <2>1. r.job \in Jobs
    BY <1>2 DEF Run
  <2>2. t[r.job].attempt \in Nat /\ u[r.job].attempt \in Nat /\ r.attempt \in Nat
    BY <2>1 DEF Job, Run
  <2>3. t[r.job].attempt <= u[r.job].attempt
    BY <2>1
  <2>4. QED
    BY <1>2, <2>2, <2>3 DEF GoodRun
<1>3. QED
  BY <1>1, <1>2

\* A step that replaces one process' run and lowers no attempt count keeps the shape.
LEMMA RunReplaced ==
  ASSUME TypeOK, RunShape, NEW p \in Procs, NEW r \in Run,
         run' = [run EXCEPT ![p] = r], jobs' \in [Jobs -> Job], GoodRun(r, jobs'),
         \A j \in Jobs : jobs[j].attempt <= jobs'[j].attempt
  PROVE  run' \in [Procs -> Run] /\ RunShape'
<1>1. run' \in [Procs -> Run]
  BY DEF TypeOK
<1>2. ASSUME NEW q \in Procs PROVE GoodRun(run'[q], jobs')
  <2>1. CASE q = p
    BY <2>1 DEF TypeOK
  <2>2. CASE q # p
    <3>1. run'[q] = run[q] /\ run[q] \in Run /\ GoodRun(run[q], jobs)
      BY <2>2 DEF TypeOK, RunShape
    <3>2. QED
      BY <3>1, GoodRunKept DEF TypeOK
  <2>3. QED
    BY <2>1, <2>2
<1>3. QED
  BY <1>1, <1>2 DEF RunShape

\* A job's attempt count is unchanged or grows in every move.
LEMMA MovesCount ==
  ASSUME TypeOK, NEW j \in Jobs, JobMove(j)
  PROVE  jobs[j].attempt <= jobs'[j].attempt
<1>1. jobs[j].attempt \in Nat
  BY DEF TypeOK, Job
<1>2. QED
  BY <1>1 DEF JobMove, Kept, EnqueuedMove, WithdrawnMove, GivenUpMove, StartedMove,
              FinishedMove, Counted

\* Shorthand for what the lemma of each action concludes.
GoodStep == TypeOK' /\ RunShape' /\ \A k \in Jobs : JobMove(k)

----------------------------------------------------------------------------
(* One lemma per group of actions. *)

\* Steps that leave the tables alone and replace one process' run.
LEMMA RunOnly ==
  ASSUME Inv, NEW p \in Procs, NEW r \in Run, run' = [run EXCEPT ![p] = r],
         UNCHANGED <<jobs, attempts>>, GoodRun(r, jobs),
         draining' \subseteq Procs, stops' \in 0..MaxStops
  PROVE  GoodStep
<1>1. jobs' \in [Jobs -> Job] /\ \A j \in Jobs : jobs[j].attempt <= jobs'[j].attempt
  BY DEF Inv, TypeOK, Job
<1>2. run' \in [Procs -> Run] /\ RunShape'
  BY <1>1, RunReplaced DEF Inv
<1>3. \A k \in Jobs : JobMove(k)
  BY DEF JobMove, Kept, Counted, SameAttempts
<1>4. QED
  BY <1>1, <1>2, <1>3 DEF GoodStep, Inv, TypeOK

\* A step on one pending or absent job, with no process involved.
LEMMA ClientSteps ==
  ASSUME Inv, NEW j \in Jobs, Enqueue(j) \/ Hasten(j) \/ CancelPending(j)
  PROVE  GoodStep
<1>1. jobs[j] \in Job /\ jobs \in [Jobs -> Job]
  BY DEF Inv, TypeOK
<1>2. PICK status \in {"pending", "canceled"}, wait \in Int :
        /\ jobs' = [jobs EXCEPT ![j] = Unleased(jobs[j], status, wait)]
        /\ \/ jobs[j].status = "absent" /\ status = "pending"
           \/ jobs[j].status = "pending"
        /\ UNCHANGED <<attempts, run, draining, stops>>
  BY TimesAssumption DEF Enqueue, Hasten, CancelPending
<1>3. /\ Unleased(jobs[j], status, wait) \in Job
      /\ Unleased(jobs[j], status, wait).status = status
      /\ Unleased(jobs[j], status, wait).attempt = jobs[j].attempt
      /\ Unleased(jobs[j], status, wait).result = jobs[j].result
  <2>1. status \in {"pending"} \cup Settled
    BY DEF Settled
  <2>2. QED
    BY <1>1, <2>1, UnleasedType
<1> DEFINE new == Unleased(jobs[j], status, wait)
<1>4. jobs' \in [Jobs -> Job]
  <2>1. jobs' = [jobs EXCEPT ![j] = new] /\ new \in Job
    BY <1>2, <1>3
  <2> HIDE DEF new
  <2>2. QED
    BY <1>1, <2>1
<1>5. ASSUME NEW k \in Jobs PROVE JobMove(k)
  <2>1. CASE k = j
    <3>1. jobs'[k] = Unleased(jobs[j], status, wait)
      BY <1>2, <2>1 DEF Inv, TypeOK
    <3>2. QED
      BY <1>2, <1>3, <2>1, <3>1
      DEF JobMove, Kept, EnqueuedMove, WithdrawnMove, Counted, SameAttempts, Settled
  <2>2. CASE k # j
    BY <1>2, <2>2 DEF Inv, TypeOK, JobMove, Kept, Counted, SameAttempts
  <2>3. QED
    BY <2>1, <2>2
<1>6. \A k \in Jobs : jobs[k].attempt <= jobs'[k].attempt
  BY <1>5, MovesCount DEF Inv
<1>7. ASSUME NEW q \in Procs PROVE GoodRun(run'[q], jobs')
  <2>1. run'[q] = run[q] /\ run[q] \in Run /\ GoodRun(run[q], jobs) /\ jobs \in [Jobs -> Job]
    BY <1>2 DEF Inv, TypeOK, RunShape
  <2>2. QED
    BY <2>1, <1>4, <1>6, GoodRunKept
<1>8. QED
  BY <1>2, <1>4, <1>5, <1>7 DEF GoodStep, Inv, TypeOK, RunShape

\* The four steps that begin or end a claim without an answer, and those of
\* shutdown, crash and restart, give a process a run without a job or abort its run.
LEMMA LoopSteps ==
  ASSUME Inv, NEW p \in Procs,
         \/ BeginClaim(p) \/ ClaimFails(p) \/ Finish(p)
         \/ Exit(p) \/ Crash(p) \/ Restart(p)
  PROVE  GoodStep
<1>1. /\ IdleRun \in Run /\ GoodRun(IdleRun, jobs)
      /\ Down \in Run /\ GoodRun(Down, jobs)
  BY NoneAssumption, JobsAssumption DEF IdleRun, Down, NewRun, Run, GoodRun, Active, NoCall
<1>2. run[p] \in Run /\ GoodRun(run[p], jobs)
  BY DEF Inv, TypeOK, RunShape
<1>3. CASE BeginClaim(p)
  <2> DEFINE r == [run[p] EXCEPT !.pc = "claiming"]
  <2>1. r \in Run /\ GoodRun(r, jobs)
    BY <1>2, <1>3 DEF BeginClaim, Run, GoodRun, Active
  <2>2. /\ run' = [run EXCEPT ![p] = r] /\ UNCHANGED <<jobs, attempts>>
        /\ draining' \subseteq Procs /\ stops' \in 0..MaxStops
    BY <1>3 DEF BeginClaim, Inv, TypeOK
  <2> HIDE DEF r
  <2>3. QED
    BY <2>1, <2>2, RunOnly
<1>4. CASE ClaimFails(p) \/ Finish(p) \/ Restart(p)
  BY <1>1, <1>4, RunOnly DEF ClaimFails, Finish, Restart, Inv, TypeOK
<1>5. CASE Exit(p) \/ Crash(p)
  <2>1. draining' \subseteq Procs /\ stops' \in 0..MaxStops
    BY <1>5, TimesAssumption DEF Exit, Crash, Inv, TypeOK
  <2>2. QED
    BY <1>1, <1>5, <2>1, RunOnly DEF Exit, Crash
<1>6. QED
  BY <1>3, <1>4, <1>5

\* The steps of an active run that make no store call, and Shutdown.
LEMMA HandlerSteps ==
  ASSUME Inv, NEW p \in Procs,
         BeginRenew(p) \/ HandlerEnds(p) \/ GraceElapses(p) \/ Shutdown(p)
  PROVE  GoodStep
<1>1. run[p] \in Run /\ GoodRun(run[p], jobs)
  BY DEF Inv, TypeOK, RunShape
<1>2. draining \subseteq Procs /\ stops \in 0..MaxStops
  BY DEF Inv, TypeOK
<1>3. CASE BeginRenew(p)
  <2> DEFINE r == IF run[p].ran > MaxDuration THEN Aborted(run[p])
                  ELSE [run[p] EXCEPT !.renew = 0]
  <2>1. run' = [run EXCEPT ![p] = r] /\ UNCHANGED <<jobs, attempts, draining, stops>>
    BY <1>3 DEF BeginRenew
  <2>2. CASE run[p].ran > MaxDuration
    <3>1. r \in Run /\ GoodRun(r, jobs)
      BY <1>1, <2>2, AbortedType DEF GoodRun
    <3>2. QED
      BY <1>2, <2>1, <3>1, RunOnly
  <2>3. CASE ~(run[p].ran > MaxDuration)
    <3>1. r \in Run /\ GoodRun(r, jobs)
      BY <1>1, <1>3, <2>3 DEF BeginRenew, GoodRun, Run, Active
    <3>2. QED
      BY <1>2, <2>1, <3>1, RunOnly
  <2>4. QED
    BY <2>2, <2>3
<1>4. CASE HandlerEnds(p)
  <2>1. PICK r \in {Goes(run[p], "finishing", None)} \cup
                    {Goes(run[p], "settling", out) : out \in Outcomes} :
          run' = [run EXCEPT ![p] = r] /\ UNCHANGED <<jobs, attempts, draining, stops>>
    BY <1>4 DEF HandlerEnds
  <2>2. r \in Run /\ GoodRun(r, jobs)
    <3>1. PICK pc \in {"settling", "finishing"}, out \in Outcomes \cup {None} :
            r = Goes(run[p], pc, out) /\ (pc = "settling" => out \in Outcomes)
      BY <2>1
    <3>2. None \notin Outcomes
      BY NoneAssumption DEF Outcomes
    <3>3. /\ Goes(run[p], pc, out) \in Run
          /\ Goes(run[p], pc, out).pc = pc /\ Goes(run[p], pc, out).out = out
          /\ Goes(run[p], pc, out).job = run[p].job
          /\ Goes(run[p], pc, out).attempt = run[p].attempt
          /\ Goes(run[p], pc, out).renew = run[p].renew
      BY <1>1, GoesType
    <3>4. run[p].pc = "handling"
      BY <1>4 DEF HandlerEnds
    <3>5. QED
      BY <1>1, <3>1, <3>2, <3>3, <3>4 DEF GoodRun, Active
  <2>3. QED
    BY <1>2, <2>1, <2>2, RunOnly
<1>5. CASE GraceElapses(p)
  <2> DEFINE r == [run[p] EXCEPT !.aborted = TRUE]
  <2>1. r \in Run /\ GoodRun(r, jobs)
    BY <1>1 DEF GoodRun, Run
  <2>2. run' = [run EXCEPT ![p] = r] /\ UNCHANGED <<jobs, attempts, draining, stops>>
    BY <1>5 DEF GraceElapses
  <2> HIDE DEF r
  <2>3. QED
    BY <1>2, <2>1, <2>2, RunOnly
<1>6. CASE Shutdown(p)
  <2>1. run' = [run EXCEPT ![p] = run[p]] /\ UNCHANGED <<jobs, attempts>>
    BY <1>6 DEF Shutdown, Inv, TypeOK
  <2>2. draining' \subseteq Procs /\ stops' \in 0..MaxStops
    BY <1>2, <1>6, TimesAssumption DEF Shutdown
  <2>3. QED
    BY <1>1, <2>1, <2>2, RunOnly
<1>7. QED
  BY <1>3, <1>4, <1>5, <1>6

\* A step that moves the tables' rows and replaces one process' run.
LEMMA StoreStep ==
  ASSUME Inv, NEW p \in Procs, NEW r \in Run, run' = [run EXCEPT ![p] = r],
         UNCHANGED <<draining, stops>>,
         jobs' \in [Jobs -> Job], attempts' \in [Jobs -> [Numbers -> Attempt]],
         \A k \in Jobs : JobMove(k),
         GoodRun(r, jobs) \/ GoodRun(r, jobs')
  PROVE  GoodStep
<1>1. jobs \in [Jobs -> Job] /\ \A k \in Jobs : jobs[k].attempt <= jobs'[k].attempt
  BY MovesCount DEF Inv, TypeOK
<1>2. GoodRun(r, jobs')
  BY <1>1, GoodRunKept
<1>3. run' \in [Procs -> Run] /\ RunShape'
  BY <1>1, <1>2, RunReplaced DEF Inv
<1>4. QED
  BY <1>3 DEF GoodStep, Inv, TypeOK

\* A renewal in flight belongs to a run with a job; the lease alone moves.
LEMMA RenewSteps ==
  ASSUME Inv, NEW p \in Procs, RenewCommits(p) \/ RenewFails(p)
  PROVE  GoodStep
<1> DEFINE j == run[p].job
           at == Reading(p, run[p].renew)
<1>1. /\ run[p] \in Run /\ GoodRun(run[p], jobs) /\ jobs \in [Jobs -> Job]
      /\ attempts \in [Jobs -> [Numbers -> Attempt]]
  BY DEF Inv, TypeOK, RunShape
<1>2. j \in Jobs
  BY <1>1 DEF RenewCommits, RenewFails, GoodRun, Run
<1>3. at + LeaseTicks \in Int
  <2>1. run[p].renew \in Int
    BY <1>1 DEF Run, NoCall
  <2>2. QED
    BY <2>1, ReadingType, TimesAssumption
<1>4. PICK r \in {Aborted(run[p]), [run[p] EXCEPT !.renew = NoCall]} :
        run' = [run EXCEPT ![p] = r]
  BY DEF RenewCommits, RenewFails
<1>5. r \in Run /\ GoodRun(r, jobs)
  <2>1. CASE r = Aborted(run[p])
    <3>1. /\ Aborted(run[p]) \in Run
          /\ Aborted(run[p]).pc = run[p].pc /\ Aborted(run[p]).out = run[p].out
          /\ Aborted(run[p]).job = run[p].job /\ Aborted(run[p]).attempt = run[p].attempt
          /\ Aborted(run[p]).renew = NoCall
      BY <1>1, AbortedType
    <3>2. QED
      BY <1>1, <2>1, <3>1 DEF GoodRun
  <2>2. CASE r = [run[p] EXCEPT !.renew = NoCall]
    BY <1>1, <2>2 DEF Run, GoodRun
  <2>3. QED
    BY <1>4, <2>1, <2>2
<1>6. /\ UNCHANGED <<attempts, draining, stops>>
      /\ \/ UNCHANGED jobs
         \/ /\ jobs[j].status = "running"
            /\ jobs' = [jobs EXCEPT ![j].lease = at + LeaseTicks]
  BY DEF RenewCommits, RenewFails, HoldsLease
<1>7. jobs' \in [Jobs -> Job] /\ \A k \in Jobs : JobMove(k)
  <2>1. CASE UNCHANGED jobs
    BY <1>1, <1>6, <2>1 DEF JobMove, Kept, Counted, SameAttempts
  <2>2. CASE /\ jobs[j].status = "running"
             /\ jobs' = [jobs EXCEPT ![j].lease = at + LeaseTicks]
    <3> HIDE DEF j, at
    <3>1. jobs' \in [Jobs -> Job]
      <4> DEFINE new == [jobs[j] EXCEPT !.lease = at + LeaseTicks]
      <4>1. jobs[j] \in Job
        BY <1>1, <1>2
      <4>2. new \in Job
        BY <1>3, <4>1 DEF Job
      <4>3. jobs' = [jobs EXCEPT ![j] = new]
        BY <2>2
      <4> HIDE DEF new
      <4>4. QED
        BY <1>1, <4>2, <4>3
    <3>2. ASSUME NEW k \in Jobs PROVE Kept(k)
      <4>1. jobs[k] \in Job /\ attempts'[k] = attempts[k]
        BY <1>1, <1>6
      <4>2. jobs'[k] = IF k = j THEN [jobs[k] EXCEPT !.lease = at + LeaseTicks] ELSE jobs[k]
        BY <1>1, <2>2
      <4>3. CASE k = j
        <5>1. jobs'[k] = [jobs[k] EXCEPT !.lease = at + LeaseTicks] /\ jobs[k].status = "running"
          BY <2>2, <4>2, <4>3
        <5>2. /\ jobs'[k].status = jobs[k].status /\ jobs'[k].attempt = jobs[k].attempt
              /\ jobs'[k].result = jobs[k].result /\ jobs'[k].owner = jobs[k].owner
          BY <4>1, <5>1 DEF Job
        <5>3. QED
          BY <4>1, <5>1, <5>2 DEF Kept, Counted, SameAttempts, Settled
      <4>4. CASE k # j
        BY <4>1, <4>2, <4>4 DEF Kept, Counted, SameAttempts
      <4>5. QED
        BY <4>3, <4>4
    <3>3. QED
      BY <3>1, <3>2 DEF JobMove
  <2>3. QED
    BY <1>6, <2>1, <2>2
<1>8. attempts' \in [Jobs -> [Numbers -> Attempt]]
  BY <1>1, <1>6
<1>9. QED
  BY <1>4, <1>5, <1>6, <1>7, <1>8, StoreStep

\* A settling run writes its outcome under the fence, or writes nothing.
LEMMA OutcomeWritten ==
  ASSUME Inv, NEW p \in Procs, run[p].pc = "settling", WriteOutcome(p)
  PROVE  /\ jobs' \in [Jobs -> Job] /\ attempts' \in [Jobs -> [Numbers -> Attempt]]
         /\ \A k \in Jobs : JobMove(k)
<1> DEFINE j == run[p].job
           n == run[p].attempt
           at == Reading(p, run[p].lag)
           out == run[p].out
<1>1. /\ run[p] \in Run /\ GoodRun(run[p], jobs) /\ jobs \in [Jobs -> Job]
      /\ attempts \in [Jobs -> [Numbers -> Attempt]]
  BY DEF Inv, TypeOK, RunShape
<1>2. j \in Jobs /\ out \in Outcomes
  BY <1>1 DEF GoodRun, Run, Active
<1>3. at \in Int
  BY <1>1, ReadingType DEF Run
<1>4. /\ jobs[j] \in Job /\ jobs[j].status = "running" /\ jobs[j].attempt = n
      /\ jobs[j].owner = WorkerId[p]
  BY <1>1, <1>2 DEF WriteOutcome, HoldsLease
<1>5. n \in Numbers /\ attempts[j][n] \in Attempt
  <2>1. n \in 1..jobs[j].attempt
    BY <1>1 DEF GoodRun, Active
  <2>2. jobs[j].attempt \in 0..MaxAttempts
    BY <1>4 DEF Job
  <2>3. n \in Numbers
    BY <2>1, <2>2, JobsAssumption DEF Numbers
  <2>4. QED
    BY <1>1, <1>2, <2>3
<1>6. attempts[j][n].status = "running" /\ attempts[j][n].worker = WorkerId[p]
  BY <1>2, <1>4, <1>5 DEF Inv, LedgerAgrees
<1> DEFINE new == SettledJob(jobs[j], out, at, n)
           mark == IF out = "failed" THEN "failed" ELSE "succeeded"
           row == [attempts[j][n] EXCEPT !.status = mark]
<1>7. jobs' = [jobs EXCEPT ![j] = new] /\ attempts' = [attempts EXCEPT ![j][n] = row]
  BY <1>6 DEF WriteOutcome, SettledAttempt
<1>8. row \in Attempt
  BY <1>5 DEF Attempt
<1>9. /\ new \in Job /\ new.attempt = jobs[j].attempt
      /\ new.status = IF out # "failed" THEN out
                      ELSE IF n < MaxAttempts THEN "pending" ELSE "failed"
      /\ new.result = IF out # "failed" THEN n ELSE jobs[j].result
  BY <1>2, <1>3, <1>4, <1>5, SettledType
<1> HIDE DEF j, n, at, out, new, row
<1>10. jobs' \in [Jobs -> Job] /\ attempts' \in [Jobs -> [Numbers -> Attempt]]
  BY <1>1, <1>7, <1>8, <1>9
<1>11. ASSUME NEW k \in Jobs, k # j PROVE JobMove(k)
  BY <1>1, <1>2, <1>7, <1>11 DEF JobMove, Kept, Counted, SameAttempts
<1>12. JobMove(j)
  <2>1. jobs'[j] = new /\ attempts'[j] = [attempts[j] EXCEPT ![n] = row]
    BY <1>1, <1>2, <1>7
  <2>2. CASE out # "failed"
    <3>1. row = [attempts[j][n] EXCEPT !.status = "succeeded"]
      BY <2>2 DEF row
    <3>2. FinishedMove(j)
      BY <1>2, <1>4, <1>9, <2>1, <2>2, <3>1 DEF FinishedMove, Outcomes
    <3>3. QED
      BY <3>2 DEF JobMove
  <2>3. CASE out = "failed"
    <3>1. row = [attempts[j][n] EXCEPT !.status = "failed"]
      BY <2>3 DEF row
    <3>2. attempts'[j] = AttemptFailed(j)
      BY <1>1, <1>2, <1>4, <1>6, <2>1, <3>1 DEF AttemptFailed
    <3>3. GivenUpMove(j)
      BY <1>4, <1>9, <2>1, <2>3, <3>2 DEF GivenUpMove, Counted
    <3>4. QED
      BY <3>3 DEF JobMove
  <2>4. QED
    BY <2>2, <2>3
<1>13. QED
  BY <1>10, <1>11, <1>12

LEMMA SettleSteps ==
  ASSUME Inv, NEW p \in Procs, SettleCommits(p) \/ SettleFails(p)
  PROVE  GoodStep
<1>1. run[p] \in Run /\ GoodRun(run[p], jobs) /\ run[p].pc = "settling"
  BY DEF Inv, TypeOK, RunShape, SettleCommits, SettleFails
<1>2. PICK pc \in {"settling", "finishing"}, out \in {"failed", None} :
        /\ run' = [run EXCEPT ![p] = Goes(run[p], pc, out)]
        /\ pc = "settling" => out = "failed"
  BY DEF SettleCommits, SettleFails
<1> DEFINE r == Goes(run[p], pc, out)
<1>3. /\ r \in Run /\ r.pc = pc /\ r.out = out /\ r.job = run[p].job
      /\ r.attempt = run[p].attempt /\ r.renew = run[p].renew
  BY <1>1, GoesType DEF Outcomes
<1>4. "failed" # None
  BY NoneAssumption
<1> HIDE DEF r
<1>5. GoodRun(r, jobs)
  BY <1>1, <1>2, <1>3, <1>4 DEF GoodRun, Active
<1>6. /\ jobs' \in [Jobs -> Job] /\ attempts' \in [Jobs -> [Numbers -> Attempt]]
      /\ \A k \in Jobs : JobMove(k)
  <2>1. CASE WriteOutcome(p)
    BY <1>1, <2>1, OutcomeWritten
  <2>2. CASE UNCHANGED <<jobs, attempts>>
    BY <2>2 DEF JobMove, Kept, Counted, SameAttempts, Inv, TypeOK
  <2>3. QED
    BY <2>1, <2>2 DEF SettleCommits, SettleFails
<1>7. run' = [run EXCEPT ![p] = r] /\ UNCHANGED <<draining, stops>>
  BY <1>2 DEF r, SettleCommits, SettleFails
<1>8. QED
  BY <1>3, <1>5, <1>6, <1>7, StoreStep

\* Recovery of the table as a claim sees it, row by row.
LEMMA RecoveredRows ==
  ASSUME Inv, NEW at \in Int, NEW locked
  PROVE  /\ RecoveredJobs(at, locked) \in [Jobs -> Job]
         /\ RecoveredAttempts(at, locked) \in [Jobs -> [Numbers -> Attempt]]
         /\ \A k \in Jobs :
              LET was == jobs[k]
                  is == RecoveredJobs(at, locked)[k]
              IN \/ is = was /\ RecoveredAttempts(at, locked)[k] = attempts[k]
                 \/ /\ was.status = "running"
                    /\ is.status = IF was.attempt < MaxAttempts THEN "pending" ELSE "failed"
                    /\ is.attempt = was.attempt /\ is.result = was.result
                    /\ RecoveredAttempts(at, locked)[k] = AttemptFailed(k)
<1> DEFINE table == RecoveredJobs(at, locked)
           ledger == RecoveredAttempts(at, locked)
<1>1. ASSUME NEW k \in Jobs
      PROVE  /\ table[k] \in Job /\ ledger[k] \in [Numbers -> Attempt]
             /\ \/ table[k] = jobs[k] /\ ledger[k] = attempts[k]
                \/ /\ jobs[k].status = "running"
                   /\ table[k].status =
                        IF jobs[k].attempt < MaxAttempts THEN "pending" ELSE "failed"
                   /\ table[k].attempt = jobs[k].attempt /\ table[k].result = jobs[k].result
                   /\ ledger[k] = AttemptFailed(k)
  <2>1. jobs[k] \in Job /\ attempts[k] \in [Numbers -> Attempt]
    BY DEF Inv, TypeOK
  <2>2. AttemptFailed(k) \in [Numbers -> Attempt]
    <3>1. \A n \in Numbers : [attempts[k][n] EXCEPT !.status = "failed"] \in Attempt
      BY <2>1 DEF Attempt
    <3>2. QED
      BY <2>1, <3>1 DEF AttemptFailed
  <2>3. CASE k \notin locked /\ Expired(jobs[k], at)
    <3>1. jobs[k].status = "running" /\ table[k] = Recovered(jobs[k], at)
      BY <2>3 DEF RecoveredJobs, Expired
    <3>2. ledger[k] = AttemptFailed(k)
      BY <2>3 DEF RecoveredAttempts, AttemptFailed
    <3>3. /\ Recovered(jobs[k], at) \in Job
          /\ Recovered(jobs[k], at).attempt = jobs[k].attempt
          /\ Recovered(jobs[k], at).result = jobs[k].result
          /\ Recovered(jobs[k], at).status =
               IF jobs[k].attempt < MaxAttempts THEN "pending" ELSE "failed"
      BY <2>1, RecoveredType
    <3>4. QED
      BY <2>2, <3>1, <3>2, <3>3
  <2>4. CASE ~(k \notin locked /\ Expired(jobs[k], at))
    <3>1. table[k] = jobs[k]
      BY <2>4 DEF RecoveredJobs
    <3>2. ledger[k] = [n \in Numbers |-> attempts[k][n]]
      BY <2>4 DEF RecoveredAttempts
    <3>3. ledger[k] = attempts[k]
      BY <2>1, <3>2
    <3>4. QED
      BY <2>1, <3>1, <3>3
  <2>5. QED
    BY <2>3, <2>4
<1>2. table = [k \in Jobs |-> table[k]] /\ ledger = [k \in Jobs |-> ledger[k]]
  BY DEF RecoveredJobs, RecoveredAttempts
<1> HIDE DEF table, ledger
<1>3. table \in [Jobs -> Job] /\ ledger \in [Jobs -> [Numbers -> Attempt]]
  BY <1>1, <1>2
<1>4. QED
  BY <1>1, <1>3 DEF table, ledger

\* A claim that takes no job recovers rows; one that takes job j also starts it.
LEMMA ClaimSteps ==
  ASSUME Inv, NEW p \in Procs, Claim(p)
  PROVE  GoodStep
<1>1. PICK locked \in SUBSET Jobs, answered \in BOOLEAN : ClaimCommits(p, locked, answered)
  BY DEF Claim
<1> DEFINE at == Reading(p, run[p].lag)
           table == RecoveredJobs(at, locked)
           ledger == RecoveredAttempts(at, locked)
<1>2. at \in Int
  BY ReadingType DEF Inv, TypeOK, Run
<1>3. /\ jobs \in [Jobs -> Job] /\ attempts \in [Jobs -> [Numbers -> Attempt]]
  BY DEF Inv, TypeOK
<1>4. /\ table \in [Jobs -> Job] /\ ledger \in [Jobs -> [Numbers -> Attempt]]
      /\ \A k \in Jobs :
           \/ table[k] = jobs[k] /\ ledger[k] = attempts[k]
           \/ /\ jobs[k].status = "running"
              /\ table[k].status = IF jobs[k].attempt < MaxAttempts THEN "pending" ELSE "failed"
              /\ table[k].attempt = jobs[k].attempt /\ table[k].result = jobs[k].result
              /\ ledger[k] = AttemptFailed(k)
  BY <1>2, RecoveredRows
<1>5. /\ UNCHANGED <<draining, stops>>
      /\ \/ jobs' = table /\ attempts' = ledger /\ run' = [run EXCEPT ![p] = IdleRun]
         \/ \E j \in Claimable(table, at, locked) :
              /\ jobs' = [table EXCEPT ![j] = Claimed(table[j], p, at)]
              /\ attempts' = [ledger EXCEPT ![j][table[j].attempt + 1] =
                                [status |-> "running", worker |-> WorkerId[p]]]
              /\ run' = [run EXCEPT ![p] =
                   IF answered THEN NewRun("handling", j, table[j].attempt + 1) ELSE IdleRun]
  BY <1>1 DEF ClaimCommits
<1>6. IdleRun \in Run /\ GoodRun(IdleRun, jobs)
  BY NoneAssumption, JobsAssumption DEF IdleRun, NewRun, Run, GoodRun, Active, NoCall
<1> HIDE DEF at, table, ledger
\* A row the claim only recovered.
<1>7. ASSUME NEW k \in Jobs, jobs'[k] = table[k], attempts'[k] = ledger[k]
      PROVE  JobMove(k)
  BY <1>4, <1>7 DEF JobMove, Kept, GivenUpMove, Counted, SameAttempts
<1>8. CASE jobs' = table /\ attempts' = ledger /\ run' = [run EXCEPT ![p] = IdleRun]
  BY <1>4, <1>5, <1>6, <1>7, <1>8, StoreStep
<1>9. ASSUME NEW j \in Claimable(table, at, locked),
             jobs' = [table EXCEPT ![j] = Claimed(table[j], p, at)],
             attempts' = [ledger EXCEPT ![j][table[j].attempt + 1] =
                            [status |-> "running", worker |-> WorkerId[p]]],
             run' = [run EXCEPT ![p] =
               IF answered THEN NewRun("handling", j, table[j].attempt + 1) ELSE IdleRun]
      PROVE  GoodStep
  <2>1. j \in Jobs /\ table[j].status = "pending" /\ table[j] \in Job /\ jobs[j] \in Job
    BY <1>3, <1>4, <1>9 DEF Claimable
  <2>2. /\ table[j].attempt = jobs[j].attempt /\ table[j].result = jobs[j].result
        /\ jobs[j].status \in {"pending", "running"} /\ jobs[j].attempt < MaxAttempts
    BY <1>4, <2>1 DEF Inv, RetryBudget
  <2> DEFINE number == jobs[j].attempt + 1
             new == Claimed(table[j], p, at)
             row == [status |-> "running", worker |-> WorkerId[p]]
  <2>3. jobs[j].attempt \in 0..MaxAttempts /\ number \in Numbers
    BY <2>1, <2>2, JobsAssumption DEF Job, Numbers
  <2>4. row \in Attempt /\ row.worker = WorkerId[p]
    BY ProcsAssumption DEF Attempt
  <2>5. new \in Job
    BY <1>2, <2>1, <2>2, ClaimedType
  <2>6. /\ new.status = "running" /\ new.attempt = number
        /\ new.owner = WorkerId[p] /\ new.result = jobs[j].result
    BY <2>2 DEF Claimed
  <2>7. /\ jobs' = [table EXCEPT ![j] = new] /\ attempts' = [ledger EXCEPT ![j][number] = row]
    BY <1>9, <2>2
  <2>8. ledger[j] = AttemptFailed(j)
    <3>1. CASE ledger[j] = attempts[j] /\ jobs[j].status = "pending"
      <4>1. \A n \in Numbers : n = jobs[j].attempt => attempts[j][n].status # "running"
        BY <2>1, <3>1 DEF Inv, LedgerAgrees
      <4>2. AttemptFailed(j) = [n \in Numbers |-> attempts[j][n]]
        BY <4>1 DEF AttemptFailed
      <4>3. QED
        BY <1>3, <2>1, <3>1, <4>2
    <3>2. QED
      BY <1>4, <2>1, <3>1
  <2> HIDE DEF number, new, row
  <2>9. jobs' \in [Jobs -> Job] /\ attempts' \in [Jobs -> [Numbers -> Attempt]]
    BY <1>4, <2>1, <2>4, <2>5, <2>7
  <2>10. StartedMove(j)
    <3>1. jobs'[j] = new /\ attempts'[j] = [ledger[j] EXCEPT ![number] = row]
      BY <1>4, <2>1, <2>7
    <3>2. row = [status |-> "running", worker |-> jobs'[j].owner]
      BY <2>6, <3>1 DEF row
    <3>3. QED
      BY <2>2, <2>6, <2>8, <3>1, <3>2 DEF StartedMove, number
  <2>11. ASSUME NEW k \in Jobs PROVE JobMove(k)
    <3>1. CASE k = j
      BY <2>10, <3>1 DEF JobMove
    <3>2. CASE k # j
      <4>1. jobs'[k] = table[k] /\ attempts'[k] = ledger[k]
        BY <1>4, <2>1, <2>7, <3>2
      <4>2. QED
        BY <1>7, <4>1
    <3>3. QED
      BY <3>1, <3>2
  <2> DEFINE r == IF answered THEN NewRun("handling", j, number) ELSE IdleRun
  <2>12. r \in Run /\ (GoodRun(r, jobs) \/ GoodRun(r, jobs'))
    <3>1. CASE answered
      <4>1. j # None /\ number \in 0..MaxAttempts /\ number \in 1..jobs'[j].attempt
        <5>1. jobs'[j].attempt = number
          BY <1>4, <2>1, <2>6, <2>7
        <5>2. QED
          BY <2>1, <2>3, <5>1, NoneAssumption, JobsAssumption DEF Numbers
      <4>2. QED
        BY <2>1, <3>1, <4>1 DEF NewRun, Run, GoodRun, Active, NoCall
    <3>2. CASE ~answered
      BY <1>6, <3>2
    <3>3. QED
      BY <3>1, <3>2
  <2>13. run' = [run EXCEPT ![p] = r]
    BY <1>9, <2>2 DEF number
  <2> HIDE DEF r
  <2>14. QED
    BY <1>5, <2>9, <2>11, <2>12, <2>13, StoreStep
<1>10. QED
  BY <1>5, <1>8, <1>9

\* Time moves no row but leases and waits, and no run but its ages.
LEMMA TickSteps ==
  ASSUME Inv, Tick
  PROVE  GoodStep
<1>1. /\ jobs \in [Jobs -> Job] /\ run \in [Procs -> Run]
      /\ jobs' = [j \in Jobs |-> OlderJob(jobs[j])]
      /\ run' = [p \in Procs |-> OlderRun(run[p])]
      /\ UNCHANGED <<attempts, draining, stops>>
  BY DEF Inv, TypeOK, Tick
<1>2. ASSUME NEW k \in Jobs PROVE jobs'[k] \in Job /\ Kept(k)
  <2>1. jobs[k] \in Job /\ jobs'[k] = OlderJob(jobs[k])
    BY <1>1
  <2>2. jobs[k].status \in Settled => OlderJob(jobs[k]) = jobs[k]
    BY DEF OlderJob, Settled
  <2>3. QED
    BY <1>1, <2>1, <2>2, OlderJobType DEF Kept, Counted, SameAttempts
<1>3. jobs' \in [Jobs -> Job] /\ \A k \in Jobs : jobs[k].attempt <= jobs'[k].attempt
  <2>1. \A k \in Jobs : JobMove(k)
    BY <1>2 DEF JobMove
  <2>2. QED
    BY <1>1, <1>2, <2>1, MovesCount DEF Inv
<1>4. ASSUME NEW p \in Procs PROVE run'[p] \in Run /\ GoodRun(run'[p], jobs')
  <2>1. run[p] \in Run /\ run'[p] = OlderRun(run[p]) /\ GoodRun(run[p], jobs')
    BY <1>1, <1>3, GoodRunKept DEF Inv, RunShape
  <2>2. QED
    BY <2>1, OlderRunType DEF GoodRun
<1>5. run' \in [Procs -> Run]
  BY <1>1, <1>4
<1>6. QED
  BY <1>1, <1>2, <1>3, <1>4, <1>5 DEF GoodStep, JobMove, RunShape, Inv, TypeOK

----------------------------------------------------------------------------
(* The inductive invariant. *)

LEMMA StepIsGood ==
  ASSUME Inv, [Next]_vars
  PROVE  GoodStep
<1>1. CASE UNCHANGED vars
  BY <1>1 DEF vars, GoodStep, JobMove, Kept, Counted, SameAttempts, Inv, TypeOK, RunShape
<1>2. CASE \E j \in Jobs : Enqueue(j) \/ Hasten(j) \/ CancelPending(j)
  BY <1>2, ClientSteps
<1>3. CASE \E p \in Procs : Step(p)
  <2>1. PICK p \in Procs : Step(p)
    BY <1>3
  <2>2. CASE Claim(p)
    BY <2>2, ClaimSteps
  <2>3. CASE RenewCommits(p) \/ RenewFails(p)
    BY <2>3, RenewSteps
  <2>4. CASE SettleCommits(p) \/ SettleFails(p)
    BY <2>4, SettleSteps
  <2>5. CASE BeginRenew(p) \/ HandlerEnds(p) \/ GraceElapses(p) \/ Shutdown(p)
    BY <2>5, HandlerSteps
  <2>6. CASE \/ BeginClaim(p) \/ ClaimFails(p) \/ Finish(p)
             \/ Exit(p) \/ Crash(p) \/ Restart(p)
    BY <2>6, LoopSteps
  <2>7. QED
    BY <2>1, <2>2, <2>3, <2>4, <2>5, <2>6 DEF Step, Renew
<1>4. CASE Tick
  BY <1>4, TickSteps
<1>5. QED
  BY <1>1, <1>2, <1>3, <1>4 DEF Next

\* The table invariants, for one job and its attempts.
RowOK(job, row) ==
  /\ \A n \in Numbers :
       /\ n > job.attempt => row[n].status = "none"
       /\ n < job.attempt => row[n].status = "failed"
       /\ n = job.attempt =>
            /\ row[n].status # "none"
            /\ row[n].status = "running" <=> job.status = "running"
            /\ row[n].status = "succeeded" <=> job.result # 0
            /\ job.status = "running" => row[n].worker = job.owner
  /\ job.status = "pending" => job.attempt < MaxAttempts
  /\ job.status = "failed" => job.attempt = MaxAttempts
  /\ job.result \in {0, job.attempt}
  /\ job.result # 0 => job.status \in {"succeeded", "canceled"}
  /\ job.status = "succeeded" => job.result # 0
  /\ job.status = "absent" => job.attempt = 0
  /\ job.status = "running" => job.attempt # 0

LEMMA RowsAreTables ==
  LedgerAgrees /\ RetryBudget /\ ResultIsCurrent /\ AttemptsCount
    <=> \A j \in Jobs : RowOK(jobs[j], attempts[j])
BY DEF LedgerAgrees, RetryBudget, ResultIsCurrent, AttemptsCount, RowOK

\* A row stays in order through any move.
LEMMA RowKept ==
  ASSUME Inv, NEW j \in Jobs, JobMove(j), jobs'[j] \in Job
  PROVE  RowOK(jobs'[j], attempts'[j])
<1>1. RowOK(jobs[j], attempts[j])
  BY RowsAreTables DEF Inv
<1>2. jobs[j] \in Job /\ attempts[j] \in [Numbers -> Attempt]
  BY DEF Inv, TypeOK
<1>3. jobs[j].attempt \in 0..MaxAttempts /\ jobs[j].result \in 0..MaxAttempts /\ MaxAttempts \in Nat
  BY <1>2, JobsAssumption DEF Job
<1>4. \A n \in Numbers : n \in Nat /\ n # 0
  BY <1>3 DEF Numbers
<1>5. jobs[j].status = "running" => jobs[j].attempt \in Numbers /\ jobs[j].result = 0
  BY <1>1, <1>3 DEF RowOK, Numbers
<1>6. CASE Kept(j)
  BY <1>1, <1>6 DEF Kept, Counted, SameAttempts, RowOK
<1>7. CASE EnqueuedMove(j)
  BY <1>1, <1>3, <1>7, JobsAssumption DEF EnqueuedMove, Counted, SameAttempts, RowOK
<1>8. CASE WithdrawnMove(j)
  BY <1>1, <1>8 DEF WithdrawnMove, Counted, SameAttempts, RowOK
<1> DEFINE given == AttemptFailed(j)
<1>9. /\ given \in [Numbers -> [status : {"none", "running", "succeeded", "failed"},
                                worker : WorkerIds \cup {None}]]
      /\ \A n \in Numbers : given[n].worker = attempts[j][n].worker
      /\ \A n \in Numbers : given[n].status =
           IF n = jobs[j].attempt /\ attempts[j][n].status = "running"
           THEN "failed" ELSE attempts[j][n].status
  <2>1. ASSUME NEW n \in Numbers
        PROVE  /\ given[n] \in Attempt /\ given[n].worker = attempts[j][n].worker
               /\ given[n].status =
                    IF n = jobs[j].attempt /\ attempts[j][n].status = "running"
                    THEN "failed" ELSE attempts[j][n].status
    BY <1>2 DEF AttemptFailed, Attempt
  <2>2. given = [n \in Numbers |-> given[n]]
    BY DEF AttemptFailed
  <2> HIDE DEF given
  <2>3. QED
    BY <2>1, <2>2 DEF Attempt
<1> HIDE DEF given
<1>10. CASE GivenUpMove(j)
  <2>1. attempts'[j] = given
    BY <1>10 DEF GivenUpMove, given
  <2>2. QED
    BY <1>1, <1>3, <1>5, <1>9, <1>10, <2>1 DEF GivenUpMove, Counted, RowOK
<1>11. CASE StartedMove(j)
  <2> DEFINE number == jobs[j].attempt + 1
             row == [status |-> "running", worker |-> jobs'[j].owner]
  <2>1. attempts'[j] = [given EXCEPT ![number] = row] /\ number \in Numbers
    BY <1>3, <1>11 DEF StartedMove, given, Numbers
  <2>2. ASSUME NEW n \in Numbers
        PROVE  attempts'[j][n] = IF n = number THEN row ELSE given[n]
    BY <1>9, <2>1
  <2>3. ASSUME NEW n \in Numbers, n # number
        PROVE  given[n].status = IF n < number THEN "failed" ELSE "none"
    <3>1. CASE n = jobs[j].attempt
      <4>1. jobs[j].result = 0
        BY <1>1, <1>5, <1>11 DEF StartedMove, RowOK
      <4>2. jobs[j].status = "pending" => attempts[j][n].status = "failed"
        <5>1. attempts[j][n] \in Attempt
          BY <1>2
        <5>2. QED
          BY <1>1, <1>3, <1>4, <3>1, <4>1, <5>1 DEF RowOK, Attempt
      <4>3. QED
        BY <1>1, <1>3, <1>4, <1>9, <1>11, <2>3, <3>1, <4>2 DEF StartedMove, RowOK
    <3>2. CASE n # jobs[j].attempt
      BY <1>1, <1>3, <1>4, <1>9, <2>3, <3>2 DEF RowOK
    <3>3. QED
      BY <3>1, <3>2
  <2>4. jobs'[j].result = 0
    BY <1>1, <1>5, <1>11 DEF StartedMove, RowOK
  <2>5. QED
    BY <1>3, <1>4, <1>11, <2>2, <2>3, <2>4 DEF StartedMove, RowOK
<1>12. CASE FinishedMove(j)
  <2> DEFINE number == jobs[j].attempt
             row == [attempts[j][number] EXCEPT !.status = "succeeded"]
  <2>1. attempts'[j] = [attempts[j] EXCEPT ![number] = row] /\ number \in Numbers
    BY <1>5, <1>12 DEF FinishedMove
  <2>2. row.status = "succeeded"
    <3>1. attempts[j][number] \in Attempt
      BY <1>2, <2>1
    <3>2. QED
      BY <3>1 DEF Attempt
  <2>3. ASSUME NEW n \in Numbers
        PROVE  attempts'[j][n] = IF n = number THEN row ELSE attempts[j][n]
    BY <1>2, <2>1
  <2>4. /\ number \in 0..MaxAttempts /\ number # 0
        /\ jobs'[j].attempt = number /\ jobs'[j].result = number
        /\ jobs'[j].status \in {"succeeded", "canceled"}
    BY <1>3, <1>4, <1>12, <2>1 DEF FinishedMove
  <2>5. \A n \in Numbers : /\ n > number => attempts[j][n].status = "none"
                           /\ n < number => attempts[j][n].status = "failed"
    BY <1>1 DEF RowOK
  <2> HIDE DEF row, number
  <2>6. ASSUME NEW n \in Numbers
        PROVE  /\ n > number => attempts'[j][n].status = "none"
               /\ n < number => attempts'[j][n].status = "failed"
               /\ n = number => attempts'[j][n].status = "succeeded"
    BY <1>3, <1>4, <2>2, <2>3, <2>4, <2>5
  <2>7. QED
    BY <2>4, <2>6 DEF RowOK
<1>13. QED
  BY <1>6, <1>7, <1>8, <1>10, <1>11, <1>12 DEF JobMove

LEMMA InvKept ==
  ASSUME Inv, [Next]_vars
  PROVE  Inv'
<1>1. GoodStep
  BY StepIsGood
<1>2. ASSUME NEW j \in Jobs PROVE RowOK(jobs'[j], attempts'[j])
  BY <1>1, RowKept DEF GoodStep, TypeOK
<1>3. LedgerAgrees' /\ RetryBudget' /\ ResultIsCurrent' /\ AttemptsCount'
  BY <1>2, RowsAreTables DEF LedgerAgrees, RetryBudget, ResultIsCurrent, AttemptsCount, RowOK
<1>4. QED
  BY <1>1, <1>3 DEF GoodStep, Inv

LEMMA InvInit == Init => Inv
<1> SUFFICES ASSUME Init PROVE Inv
  OBVIOUS
<1>1. AbsentJob \in Job /\ NoAttempt \in Attempt /\ IdleRun \in Run
  BY JobsAssumption DEF AbsentJob, Job, NoAttempt, Attempt, IdleRun, NewRun, Run, NoCall
<1>2. TypeOK
  BY <1>1, TimesAssumption DEF Init, TypeOK
<1>3. RunShape
  BY NoneAssumption DEF Init, RunShape, GoodRun, IdleRun, NewRun, Active, NoCall
<1>4. LedgerAgrees /\ RetryBudget /\ ResultIsCurrent /\ AttemptsCount
  BY JobsAssumption DEF Init, AbsentJob, NoAttempt, Numbers,
     LedgerAgrees, RetryBudget, ResultIsCurrent, AttemptsCount
<1>5. QED
  BY <1>2, <1>3, <1>4 DEF Inv

THEOREM InvHolds == Spec => []Inv
<1>1. Init => Inv
  BY InvInit
<1>2. Inv /\ [Next]_vars => Inv'
  BY InvKept
<1>3. QED
  BY <1>1, <1>2, PTL DEF Spec

----------------------------------------------------------------------------
(* The theorems. *)

\* Every variable stays within its type, for any number of jobs and processes.
THEOREM TypeCorrect == Spec => []TypeOK
BY InvHolds, PTL DEF Inv

\* claimNextJob, completeJob, cancelJob, failJob and the recovery, each of which
\* updates jobs and job_attempts with separate statements, keep the tables in agreement.
THEOREM TablesAgree == Spec => []LedgerAgrees
BY InvHolds, PTL DEF Inv

\* Neither failJob nor the recovery grants an attempt too many or gives up too early.
THEOREM BudgetKept == Spec => []RetryBudget
BY InvHolds, PTL DEF Inv

\* The fence on status, owner and attempt_count suffices: no stale worker's result
\* is ever that of a job, whatever the clocks read and however worker ids are shared.
THEOREM ResultsAreCurrent == Spec => []ResultIsCurrent
BY InvHolds, PTL DEF Inv

\* No step of any handler, client or clock changes a settled job.
THEOREM OutcomesAreFinal == Spec => SettledIsFinal
<1>1. ASSUME Inv, [Next]_vars
      PROVE  [\A j \in Jobs : jobs[j].status \in Settled => jobs'[j] = jobs[j]]_vars
  <2>1. GoodStep
    BY <1>1, StepIsGood
  <2>2. ASSUME NEW j \in Jobs, jobs[j].status \in Settled PROVE jobs'[j] = jobs[j]
    BY <2>1, <2>2 DEF GoodStep, JobMove, Kept, EnqueuedMove, WithdrawnMove, GivenUpMove,
                      StartedMove, FinishedMove, Settled
  <2>3. QED
    BY <2>2
<1>2. QED
  BY <1>1, InvHolds, PTL DEF Spec, SettledIsFinal

----------------------------------------------------------------------------
(* No attempt runs twice. *)

\* What a step does to process q's hold on a job.
RunKept(q) == run'[q].job = run[q].job /\ run'[q].attempt = run[q].attempt
RunDropped(q) == run'[q].job = None
RunStarted(q) ==
  run'[q].job \in Jobs /\ run'[q].attempt = jobs[run'[q].job].attempt + 1

\* A step starts a run in one process at most, and keeps or drops the others.
LEMMA RunMoves ==
  ASSUME Inv, [Next]_vars
  PROVE  \/ \A q \in Procs : RunKept(q)
         \/ \E p \in Procs : /\ \A q \in Procs \ {p} : RunKept(q)
                             /\ RunKept(p) \/ RunDropped(p) \/ RunStarted(p)
<1>1. \A q \in Procs : run[q] \in Run
  BY DEF Inv, TypeOK
<1>2. CASE UNCHANGED run
  BY <1>2 DEF RunKept
<1>3. CASE Tick
  BY <1>1, <1>3, OlderRunType DEF Tick, RunKept
<1>4. ASSUME NEW p \in Procs, Step(p), ~UNCHANGED run
      PROVE  /\ \A q \in Procs \ {p} : RunKept(q)
             /\ RunKept(p) \/ RunDropped(p) \/ RunStarted(p)
  <2>1. ASSUME NEW r, run' = [run EXCEPT ![p] = r],
               \/ r.job = None
               \/ r.job = run[p].job /\ r.attempt = run[p].attempt
               \/ r.job \in Jobs /\ r.attempt = jobs[r.job].attempt + 1
        PROVE  /\ \A q \in Procs \ {p} : RunKept(q)
               /\ RunKept(p) \/ RunDropped(p) \/ RunStarted(p)
    <3>1. /\ run'[p] = r
          /\ \A q \in Procs \ {p} : run'[q] = run[q]
      BY <2>1 DEF Inv, TypeOK
    <3>2. QED
      BY <2>1, <3>1 DEF RunKept, RunDropped, RunStarted
  <2>2. IdleRun.job = None /\ Down.job = None
    BY DEF IdleRun, Down, NewRun
  <2>3. run[p] \in Run
    BY <1>1
  <2>4. CASE ClaimFails(p) \/ Finish(p) \/ Exit(p) \/ Crash(p) \/ Restart(p)
    BY <2>1, <2>2, <2>4 DEF ClaimFails, Finish, Exit, Crash, Restart
  <2>5. CASE Claim(p)
    <3> DEFINE at == Reading(p, run[p].lag)
    <3>1. PICK locked \in SUBSET Jobs, answered \in BOOLEAN : ClaimCommits(p, locked, answered)
      BY <2>5 DEF Claim
    <3> DEFINE table == RecoveredJobs(at, locked)
    <3>2. \/ run' = [run EXCEPT ![p] = IdleRun]
          \/ \E j \in Claimable(table, at, locked) :
               run' = [run EXCEPT ![p] =
                 IF answered THEN NewRun("handling", j, table[j].attempt + 1) ELSE IdleRun]
      BY <3>1 DEF ClaimCommits
    <3>3. \A j \in Jobs : table[j].attempt = jobs[j].attempt
      <4>1. at \in Int
        BY <2>3, ReadingType DEF Run
      <4>2. QED
        BY <4>1, RecoveredRows
    <3>4. ASSUME NEW j \in Claimable(table, at, locked)
          PROVE  /\ NewRun("handling", j, table[j].attempt + 1).job = j /\ j \in Jobs
                 /\ NewRun("handling", j, table[j].attempt + 1).attempt = jobs[j].attempt + 1
      BY <3>3 DEF NewRun, Claimable
    <3> HIDE DEF table, at
    <3>5. QED
      BY <2>1, <2>2, <3>2, <3>4
  <2>6. CASE BeginClaim(p)
    <3>1. [run[p] EXCEPT !.pc = "claiming"].job = run[p].job
      BY <2>3 DEF Run
    <3>2. [run[p] EXCEPT !.pc = "claiming"].attempt = run[p].attempt
      BY <2>3 DEF Run
    <3>3. QED
      BY <2>1, <2>6, <3>1, <3>2 DEF BeginClaim
  <2>7. CASE GraceElapses(p)
    <3>1. [run[p] EXCEPT !.aborted = TRUE].job = run[p].job
      BY <2>3 DEF Run
    <3>2. [run[p] EXCEPT !.aborted = TRUE].attempt = run[p].attempt
      BY <2>3 DEF Run
    <3>3. QED
      BY <2>1, <2>7, <3>1, <3>2 DEF GraceElapses
  <2>8. CASE Renew(p)
    <3>1. PICK r \in {Aborted(run[p]), [run[p] EXCEPT !.renew = NoCall],
                      [run[p] EXCEPT !.renew = 0]} : run' = [run EXCEPT ![p] = r]
      BY <2>8 DEF Renew, BeginRenew, RenewCommits, RenewFails
    <3>2. r.job = run[p].job /\ r.attempt = run[p].attempt
      <4>1. CASE r = Aborted(run[p])
        BY <2>3, <4>1 DEF Aborted, Run
      <4>2. CASE r = [run[p] EXCEPT !.renew = NoCall]
        BY <2>3, <4>2 DEF Run
      <4>3. CASE r = [run[p] EXCEPT !.renew = 0]
        BY <2>3, <4>3 DEF Run
      <4>4. QED
        BY <3>1, <4>1, <4>2, <4>3
    <3>3. QED
      BY <2>1, <3>1, <3>2
  <2>9. CASE HandlerEnds(p) \/ SettleCommits(p) \/ SettleFails(p)
    <3>1. PICK pc \in {"settling", "finishing"}, out \in Outcomes \cup {None} :
            run' = [run EXCEPT ![p] = Goes(run[p], pc, out)]
      BY <2>9 DEF HandlerEnds, SettleCommits, SettleFails, Outcomes
    <3>2. Goes(run[p], pc, out).job = run[p].job /\ Goes(run[p], pc, out).attempt = run[p].attempt
      BY <2>3, GoesType
    <3>3. QED
      BY <2>1, <3>1, <3>2
  <2>10. QED
    BY <1>4, <2>4, <2>5, <2>6, <2>7, <2>8, <2>9 DEF Step, Shutdown
<1>5. QED
  BY <1>2, <1>3, <1>4 DEF Next, vars, Enqueue, Hasten, CancelPending

\* Two processes never work under the same attempt of a job: every claim takes a number
\* above all those held, because the count is raised in the transaction that claims.
THEOREM AttemptsRunOnce == Spec => []AttemptRunsOnce
<1>1. Init => AttemptRunsOnce
  BY DEF Init, AttemptRunsOnce, IdleRun, NewRun
<1>2. ASSUME Inv, [Next]_vars, AttemptRunsOnce PROVE AttemptRunsOnce'
  <2>1. ASSUME NEW p \in Procs, NEW q \in Procs, p # q, RunKept(q),
               RunKept(p) \/ RunStarted(p),
               run'[p].job # None, run'[p].job = run'[q].job
        PROVE  run'[p].attempt # run'[q].attempt
    <3>1. CASE RunKept(p)
      BY <1>2, <2>1, <3>1 DEF AttemptRunsOnce, RunKept
    <3>2. CASE RunStarted(p)
      <4>1. run[q].job = run'[p].job /\ run[q].job \in Jobs /\ run[q].job # None
        BY <2>1, <3>2 DEF RunKept, RunStarted
      <4>2. run[q].attempt \in 1..jobs[run[q].job].attempt /\ jobs[run[q].job].attempt \in Nat
        BY <1>2, <4>1 DEF Inv, RunShape, GoodRun, TypeOK, Job
      <4>3. QED
        BY <2>1, <3>2, <4>1, <4>2 DEF RunKept, RunStarted
    <3>3. QED
      BY <2>1, <3>1, <3>2
  <2>2. QED
    BY <1>2, <2>1, RunMoves DEF AttemptRunsOnce, RunKept, RunDropped
<1>3. QED
  BY <1>1, <1>2, InvHolds, PTL DEF Spec

----------------------------------------------------------------------------
(* The implementation of JobLifecycle. *)

\* All attempt counts but one are as before.
LEMMA OneStart ==
  ASSUME Inv, [Next]_vars
  PROVE  \A k, l \in Jobs : StartedMove(k) /\ StartedMove(l) => k = l
<1>1. jobs \in [Jobs -> Job] /\ \A k \in Jobs : jobs[k].attempt \in Int
  BY DEF Inv, TypeOK, Job
<1>2. SUFFICES \/ \A k \in Jobs : jobs'[k].attempt = jobs[k].attempt
               \/ \E j : \A k \in Jobs \ {j} : jobs'[k].attempt = jobs[k].attempt
  BY <1>1 DEF StartedMove
<1>3. CASE UNCHANGED jobs
  BY <1>3
<1>4. CASE Tick
  BY <1>1, <1>4, OlderJobType DEF Tick
<1>5. ASSUME NEW j, NEW new, jobs' = [jobs EXCEPT ![j] = new]
      PROVE  \A k \in Jobs \ {j} : jobs'[k].attempt = jobs[k].attempt
  BY <1>1, <1>5
<1>6. CASE \E j \in Jobs : Enqueue(j) \/ Hasten(j) \/ CancelPending(j)
  BY <1>5, <1>6 DEF Enqueue, Hasten, CancelPending
<1>7. CASE \E p \in Procs : RenewCommits(p) \/ RenewFails(p)
  <2>1. PICK p \in Procs : RenewCommits(p) \/ RenewFails(p)
    BY <1>7
  <2> DEFINE j == run[p].job
             new == [jobs[j] EXCEPT !.lease = Reading(p, run[p].renew) + LeaseTicks]
  <2>2. UNCHANGED jobs \/ jobs' = [jobs EXCEPT ![j] = new]
    BY <2>1 DEF RenewCommits, RenewFails
  <2> HIDE DEF j, new
  <2>3. QED
    BY <1>3, <1>5, <2>2
<1>8. CASE \E p \in Procs : SettleCommits(p) \/ SettleFails(p)
  <2>1. PICK p \in Procs : SettleCommits(p) \/ SettleFails(p)
    BY <1>8
  <2> DEFINE j == run[p].job
             new == SettledJob(jobs[j], run[p].out, Reading(p, run[p].lag), run[p].attempt)
  <2>2. UNCHANGED jobs \/ jobs' = [jobs EXCEPT ![j] = new]
    BY <2>1 DEF SettleCommits, SettleFails, WriteOutcome
  <2> HIDE DEF j, new
  <2>3. QED
    BY <1>3, <1>5, <2>2
<1>9. CASE \E p \in Procs : Claim(p)
  <2>1. PICK p \in Procs, locked \in SUBSET Jobs, answered \in BOOLEAN :
          ClaimCommits(p, locked, answered)
    BY <1>9 DEF Claim
  <2> DEFINE at == Reading(p, run[p].lag)
             table == RecoveredJobs(at, locked)
  <2>2. table \in [Jobs -> Job] /\ \A k \in Jobs : table[k].attempt = jobs[k].attempt
    <3>1. at \in Int
      BY ReadingType DEF Inv, TypeOK, Run
    <3>2. QED
      BY <3>1, RecoveredRows
  <2>3. \/ jobs' = table
        \/ \E j \in Claimable(table, at, locked) :
             jobs' = [table EXCEPT ![j] = Claimed(table[j], p, at)]
    BY <2>1 DEF ClaimCommits
  <2>4. CASE jobs' = table
    <3> HIDE DEF table
    <3> QED
      BY <2>2, <2>4
  <2>5. CASE \E j \in Claimable(table, at, locked) :
               jobs' = [table EXCEPT ![j] = Claimed(table[j], p, at)]
    <3>1. PICK j : jobs' = [table EXCEPT ![j] = Claimed(table[j], p, at)]
      BY <2>5
    <3> HIDE DEF at, table
    <3>2. \A k \in Jobs \ {j} : jobs'[k].attempt = jobs[k].attempt
      BY <2>2, <3>1
    <3>3. QED
      BY <3>2
  <2>6. QED
    BY <2>3, <2>4, <2>5
<1>10. QED
  BY <1>3, <1>4, <1>6, <1>7, <1>8, <1>9
  DEF Next, vars, Step, Renew, BeginClaim, ClaimFails, BeginRenew, HandlerEnds, Finish,
      Shutdown, GraceElapses, Exit, Crash, Restart

\* A move of a job's rows is a move of its life, or leaves it as it was.
LEMMA MovesAreMoves ==
  ASSUME Inv, NEW j \in Jobs, JobMove(j)
  PROVE  /\ life'[j] = life[j] \/ Lifecycle!Move(life[j], life'[j])
         /\ Lifecycle!Started(life[j], life'[j]) => StartedMove(j)
<1> DEFINE old == [status |-> jobs[j].status, attempt |-> jobs[j].attempt,
                   result |-> jobs[j].result]
           new == [status |-> jobs'[j].status, attempt |-> jobs'[j].attempt,
                   result |-> jobs'[j].result]
<1>1. life[j] = old /\ life'[j] = new
  BY DEF life
<1>2. jobs[j].attempt \in Int
  BY DEF Inv, TypeOK, Job
<1>3. SUFFICES /\ new = old \/ Lifecycle!Move(old, new)
               /\ Lifecycle!Started(old, new) => StartedMove(j)
  BY <1>1
<1>4. ASSUME JobMove(j), ~StartedMove(j) PROVE ~Lifecycle!Started(old, new)
  <2>1. jobs'[j].attempt = jobs[j].attempt
    BY <1>4 DEF JobMove, Kept, EnqueuedMove, WithdrawnMove, GivenUpMove, FinishedMove, Counted
  <2>2. jobs'[j].attempt # jobs[j].attempt + 1
    BY <1>2, <2>1
  <2>3. QED
    BY <2>2 DEF Lifecycle!Started, Lifecycle!Life
<1>5. CASE Kept(j)
  BY <1>4, <1>5 DEF Kept, Counted
<1>6. CASE EnqueuedMove(j)
  <2>1. Lifecycle!Enqueued(old, new)
    BY <1>6 DEF EnqueuedMove, Counted, Lifecycle!Enqueued, Lifecycle!Life
  <2>2. QED
    BY <1>4, <2>1 DEF Lifecycle!Move
<1>7. CASE WithdrawnMove(j)
  <2>1. Lifecycle!Withdrawn(old, new)
    BY <1>7 DEF WithdrawnMove, Counted, Lifecycle!Withdrawn, Lifecycle!Life
  <2>2. QED
    BY <1>4, <2>1 DEF Lifecycle!Move
<1>8. CASE GivenUpMove(j)
  <2>1. Lifecycle!GivenUp(old, new)
    BY <1>8 DEF GivenUpMove, Counted, Lifecycle!GivenUp, Lifecycle!Life
  <2>2. QED
    BY <1>4, <2>1 DEF Lifecycle!Move
<1>9. CASE StartedMove(j)
  <2>1. Lifecycle!Started(old, new)
    BY <1>9 DEF StartedMove, Lifecycle!Started, Lifecycle!Life
  <2>2. QED
    BY <1>9, <2>1 DEF Lifecycle!Move
<1>10. CASE FinishedMove(j)
  <2>1. Lifecycle!Finished(old, new)
    BY <1>10 DEF FinishedMove, Lifecycle!Finished, Lifecycle!Life
  <2>2. QED
    BY <1>4, <2>1 DEF Lifecycle!Move
<1>11. QED
  BY <1>5, <1>6, <1>7, <1>8, <1>9, <1>10 DEF JobMove

\* The table with its workers, leases, clocks, crashes and lost answers implements the
\* promise of JobLifecycle: every step maps to a step of it or to a stutter.
THEOREM LifecycleImplemented == Spec => ImplementsLifecycle
<1>1. Init => Lifecycle!Init
  BY DEF Init, AbsentJob, life, Lifecycle!Init, Lifecycle!Fresh, Lifecycle!Life
<1>2. ASSUME Inv, [Next]_vars PROVE [Lifecycle!Next]_life
  <2>1. \A j \in Jobs : JobMove(j)
    BY <1>2, StepIsGood DEF GoodStep
  <2>2. life' = [j \in Jobs |-> life'[j]]
    BY DEF life
  <2>3. \A j \in Jobs : life'[j] = life[j] \/ Lifecycle!Move(life[j], life'[j])
    BY <1>2, <2>1, MovesAreMoves
  <2>4. \A k, l \in Jobs :
          Lifecycle!Started(life[k], life'[k]) /\ Lifecycle!Started(life[l], life'[l]) => k = l
    BY <1>2, <2>1, MovesAreMoves, OneStart
  <2>5. QED
    BY <2>2, <2>3, <2>4 DEF Lifecycle!Next
<1>3. QED
  BY <1>1, <1>2, InvHolds, PTL DEF Spec, ImplementsLifecycle, Lifecycle!Spec
=============================================================================
