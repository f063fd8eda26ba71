---------------------------- MODULE Maintenance ----------------------------
(***************************************************************************)
(* The periodic tasks of the workers: worker-maintenance-scheduler.ts, and *)
(* the batches of worker-retention-cleanup.ts.  Every worker process keeps *)
(* its own intervals; an advisory lock of PostgreSQL, held by a session of *)
(* its own for each run of a task, keeps two processes off the same task.  *)
(***************************************************************************)
EXTENDS Integers, FiniteSets, Sequences

CONSTANTS
  Keepers,      \* worker processes
  MaxBatches,   \* bound: batches of expired rows in a table
  MaxTroubles,  \* bound: tasks, connects and sessions that fail, processes that stop or die
  Nobody

ASSUME MaintenanceAssumption ==
  Nobody \notin Keepers /\ MaxBatches \in Nat \ {0} /\ MaxTroubles \in Nat

VARIABLES
  keepers,    \* per process: its scheduler
  taskLocks,  \* pg_try_advisory_lock: whose session holds the lock of a task
  backlog,    \* per table: batches of rows older than its retention
  troubles

keeperVars == <<keepers, taskLocks, backlog, troubles>>

\* createCoreMaintenanceTasks, in its order.
Tasks == <<"repair", "cleanup", "probes">>
TaskIds == {Tasks[i] : i \in 1..Len(Tasks)}
\* The tables cleanupExpiredOperationalData empties, in its order.
Stages == <<"request_activity", "jobs", "health_events">>
Tables == {Stages[i] : i \in 1..Len(Stages)}

DownKeeper == [phase |-> "down", recent |-> {}, active |-> FALSE, queue |-> <<>>, call |-> "none", stage |-> 1,
               expired |-> [b \in Tables |-> 0]]

\* recent are the tasks whose interval since lastStartedAt may not have passed;
\* active is activeRun, queue the tasks the run has yet to finish; expired are
\* the batches that were older than the cutoffs when the cleanup began.
KeeperTypeOK ==
  /\ \A w \in Keepers :
       /\ keepers[w].phase \in {"down", "starting", "up", "stopping"}
       /\ keepers[w].recent \subseteq TaskIds /\ keepers[w].active \in BOOLEAN
       /\ keepers[w].queue \in {SubSeq(Tasks, i, Len(Tasks)) : i \in 1..(Len(Tasks) + 1)}
       /\ keepers[w].call \in {"none", "locking", "running"} /\ keepers[w].stage \in 1..Len(Stages)
       /\ keepers[w].expired \in [Tables -> 0..MaxBatches]
       /\ keepers[w].call # "none" => keepers[w].active /\ keepers[w].queue # <<>>
  /\ taskLocks \in [TaskIds -> Keepers \cup {Nobody}]
  /\ backlog \in [Tables -> 0..MaxBatches]
  /\ troubles \in 0..MaxTroubles

KeeperInit ==
  /\ keepers = [w \in Keepers |-> DownKeeper]
  /\ taskLocks = [t \in TaskIds |-> Nobody]
  /\ backlog = [b \in Tables |-> 0]
  /\ troubles = 0

Troubled == troubles < MaxTroubles /\ troubles' = troubles + 1
Aborted(w) == keepers[w].phase = "stopping"
Running(w, t) == keepers[w].call = "running" /\ Head(keepers[w].queue) = t

\* Rows grow older than their retention.  Bound: in every table at once, when no
\* such rows are left.
RowsExpire ==
  /\ \A b \in Tables : backlog[b] = 0
  /\ backlog' = [b \in Tables |-> MaxBatches]
  /\ UNCHANGED <<keepers, taskLocks, troubles>>

RunBegins(k) == [k EXCEPT !.active = TRUE, !.queue = Tasks]

\* start(): the first run is awaited before the interval is set.
StartKeeper(w) ==
  /\ keepers[w].phase = "down"
  /\ keepers' = [keepers EXCEPT ![w] = RunBegins([@ EXCEPT !.phase = "starting"])]
  /\ UNCHANGED <<taskLocks, backlog, troubles>>

\* The interval fires: a run that is still active is joined, so nothing begins.
KeeperTick(w) ==
  /\ keepers[w].phase = "up" /\ ~keepers[w].active
  /\ keepers' = [keepers EXCEPT ![w] = RunBegins(@)]
  /\ UNCHANGED <<taskLocks, backlog, troubles>>

\* The next task of the run was started too recently.  Bound: no interval is
\* longer than two ticks.
SkipTask(w) ==
  LET k == keepers[w]
  IN /\ k.active /\ k.queue # <<>> /\ k.call = "none" /\ Head(k.queue) \in k.recent
     /\ keepers' = [keepers EXCEPT ![w].queue = Tail(@), ![w].recent = @ \ {Head(k.queue)}]
     /\ UNCHANGED <<taskLocks, backlog, troubles>>

\* Its interval has passed.  It is marked as started before its lock is asked for.
BeginTask(w, t) ==
  LET k == keepers[w]
  IN /\ k.active /\ k.queue # <<>> /\ k.call = "none" /\ Head(k.queue) = t
     /\ keepers' = [keepers EXCEPT ![w].recent = @ \cup {t}, ![w].call = "locking"]
     /\ UNCHANGED <<taskLocks, backlog, troubles>>

TaskLeft(k) == [k EXCEPT !.queue = Tail(@), !.call = "none", !.stage = 1, !.expired = [b \in Tables |-> 0]]

\* Mutation: a task that throws leaves its session, and the lock, open.
UnlockedIfDone(w, t, done) == IF done /\ taskLocks[t] = w THEN [taskLocks EXCEPT ![t] = Nobody] ELSE taskLocks

\* finally: the session is ended however the task ended, and its lock with it.
Unlocked(w, t, done) == IF taskLocks[t] = w THEN [taskLocks EXCEPT ![t] = Nobody] ELSE taskLocks

\* pg_try_advisory_lock is answered.  A lock that comes after the abort is given
\* back at once; one that another process holds leaves the task to it.
LockAnswered(w) ==
  LET t == Head(keepers[w].queue)
  IN /\ keepers[w].call = "locking"
     /\ IF taskLocks[t] = Nobody /\ ~Aborted(w)
        THEN /\ taskLocks' = [taskLocks EXCEPT ![t] = w]
             /\ keepers' = [keepers EXCEPT ![w].call = "running",
                                           ![w].expired = IF t = "cleanup" THEN backlog ELSE @]
        ELSE /\ keepers' = [keepers EXCEPT ![w] = TaskLeft(@)]
             /\ UNCHANGED taskLocks
     /\ UNCHANGED <<backlog, troubles>>

\* The database cannot be reached: the failure is logged and the run goes on.
LockFails(w) ==
  /\ keepers[w].call = "locking" /\ Troubled
  /\ keepers' = [keepers EXCEPT ![w] = TaskLeft(@)]
  /\ UNCHANGED <<taskLocks, backlog>>

\* One batch of the cleanup, a transaction, of the rows its cutoff reaches.  A
\* batch that was not full ends the table; so does the abort, which is looked at
\* before each batch.
Batch(w) ==
  LET k == keepers[w]
      b == Stages[k.stage]
  IN /\ Running(w, "cleanup")
     /\ IF ~Aborted(w) /\ k.expired[b] > 0 /\ backlog[b] > 0
        THEN /\ backlog' = [backlog EXCEPT ![b] = @ - 1]
             /\ keepers' = [keepers EXCEPT ![w].expired[b] = @ - 1]
             /\ UNCHANGED taskLocks
        ELSE /\ UNCHANGED backlog
             /\ IF k.stage < Len(Stages)
                THEN keepers' = [keepers EXCEPT ![w].stage = @ + 1] /\ UNCHANGED taskLocks
                ELSE /\ keepers' = [keepers EXCEPT ![w] = TaskLeft(@)]
                     /\ taskLocks' = Unlocked(w, "cleanup", TRUE)
     /\ UNCHANGED troubles

\* The other tasks: the repair of ApiKeyLimits, and a probe job for each
\* connection whose quota is due.
TaskEnds(w, t) ==
  /\ Running(w, t) /\ t # "cleanup"
  /\ keepers' = [keepers EXCEPT ![w] = TaskLeft(@)]
  /\ taskLocks' = Unlocked(w, t, TRUE)
  /\ UNCHANGED <<backlog, troubles>>

\* A task throws: it waits for its interval like one that succeeded.
KeeperTaskFails(w, t) ==
  /\ Running(w, t) /\ Troubled
  /\ keepers' = [keepers EXCEPT ![w] = TaskLeft(@)]
  /\ taskLocks' = Unlocked(w, t, FALSE)
  /\ UNCHANGED backlog

RunEnds(w) ==
  /\ keepers[w].active /\ keepers[w].queue = <<>>
  /\ keepers' = [keepers EXCEPT ![w] =
       IF @.phase = "stopping" THEN DownKeeper
       ELSE [@ EXCEPT !.active = FALSE, !.phase = "up"]]
  /\ UNCHANGED <<taskLocks, backlog, troubles>>

\* The session that holds the lock breaks: the task goes on without it, while
\* the 'error' nobody handles makes the process stop; during start() it just dies.
LockSessionLost(w, t) ==
  /\ Running(w, t) /\ taskLocks[t] = w /\ Troubled
  /\ taskLocks' = [taskLocks EXCEPT ![t] = Nobody]
  /\ keepers' = [keepers EXCEPT ![w] = IF @.phase = "starting" THEN DownKeeper ELSE [@ EXCEPT !.phase = "stopping"]]
  /\ UNCHANGED backlog

\* stop() of a worker that is up: it waits for the active run, then exits.
StopKeeper(w) ==
  /\ keepers[w].phase = "up" /\ Troubled
  /\ keepers' = [keepers EXCEPT ![w] = IF @.active THEN [@ EXCEPT !.phase = "stopping"] ELSE DownKeeper]
  /\ UNCHANGED <<taskLocks, backlog>>

KeeperDies(w) ==
  /\ keepers[w].phase # "down" /\ Troubled
  /\ keepers' = [keepers EXCEPT ![w] = DownKeeper]
  /\ taskLocks' = [t \in TaskIds |-> IF taskLocks[t] = w THEN Nobody ELSE taskLocks[t]]
  /\ UNCHANGED backlog

KeeperNext ==
  \/ \E w \in Keepers :
       \/ StartKeeper(w) \/ KeeperTick(w) \/ SkipTask(w) \/ LockAnswered(w) \/ LockFails(w) \/ Batch(w)
       \/ RunEnds(w) \/ StopKeeper(w) \/ KeeperDies(w)
       \/ \E t \in TaskIds : BeginTask(w, t) \/ TaskEnds(w, t) \/ KeeperTaskFails(w, t) \/ LockSessionLost(w, t)
  \/ RowsExpire

\* The scheduler of a process is sequential: its timer fires, its calls are
\* answered and its tasks end.
KeeperStep(w) ==
  \/ KeeperTick(w) \/ SkipTask(w) \/ LockAnswered(w) \/ Batch(w) \/ RunEnds(w)
  \/ \E t \in TaskIds : BeginTask(w, t) \/ TaskEnds(w, t)

KeeperFairness == \A w \in Keepers : WF_keeperVars(KeeperStep(w))

KeeperSpec == KeeperInit /\ [][KeeperNext]_keeperVars /\ KeeperFairness

(***************************************************************************)
(* Properties.                                                             *)
(***************************************************************************)
NobodyUp == \A w \in Keepers : keepers[w].phase \in {"down", "stopping"}

\* Two processes work on one task only when one of them lost the session of its
\* lock, and that one is already stopping.
AloneAtWork ==
  \A v, w \in Keepers : \A t \in TaskIds :
    v # w /\ Running(v, t) /\ Running(w, t) => Aborted(v) \/ Aborted(w)

\* While workers come and go, some of them up, every task runs again and again,
\* and expired rows are deleted: a task that failed, was left to another process
\* that died, or was aborted half way is taken up again, by whichever process.
TasksKeepRunning ==
  /\ \A t \in TaskIds : []<>(NobodyUp \/ \E w \in Keepers : Running(w, t))
  /\ \A b \in Tables : []<>(NobodyUp \/ backlog[b] = 0)

\* The tasks are done, and no task by two processes at a time.
TasksAreKept == []AloneAtWork /\ TasksKeepRunning
=============================================================================
