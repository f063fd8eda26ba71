---------------------------- MODULE JobLifecycle ----------------------------
(***************************************************************************)
(* What the job table promises whoever enqueues a job, with no workers,    *)
(* leases, clocks or transactions: it is attempted at most MaxAttempts     *)
(* times, one transaction starts at most one attempt, its result is that   *)
(* of the attempt under way, and an outcome is final.  JobQueue implements *)
(* it (Lifecycle there).                                                   *)
(***************************************************************************)
EXTENDS Integers

CONSTANTS Jobs, MaxAttempts

VARIABLE life   \* what the table says of each job

Settled == {"succeeded", "failed", "canceled"}

Life(status, attempt, result) ==
  [status |-> status, attempt |-> attempt, result |-> result]

Fresh == Life("absent", 0, 0)

Init == life = [j \in Jobs |-> Fresh]

\* The moves of one job, from record old to record new.
Enqueued(old, new) == old.status = "absent" /\ new = Life("pending", old.attempt, old.result)

Withdrawn(old, new) == old.status = "pending" /\ new = Life("canceled", old.attempt, old.result)

\* A pending job, or one whose attempt is given up, is attempted (again).
Started(old, new) ==
  /\ old.status \in {"pending", "running"} /\ old.attempt < MaxAttempts
  /\ new = Life("running", old.attempt + 1, old.result)

GivenUp(old, new) ==
  /\ old.status = "running"
  /\ new = Life(IF old.attempt < MaxAttempts THEN "pending" ELSE "failed",
                 old.attempt, old.result)

Finished(old, new) ==
  /\ old.status = "running"
  /\ \E out \in {"succeeded", "canceled"} :
       new = Life(out, old.attempt, old.attempt)

Move(old, new) ==
  \/ Enqueued(old, new) \/ Withdrawn(old, new) \/ Started(old, new)
  \/ GivenUp(old, new) \/ Finished(old, new)

\* A transaction moves some jobs, giving up any number of them and starting one at most.
Next ==
  /\ life' = [j \in Jobs |-> life'[j]]
  /\ \A j \in Jobs : life'[j] = life[j] \/ Move(life[j], life'[j])
  /\ \A j, k \in Jobs :
       Started(life[j], life'[j]) /\ Started(life[k], life'[k]) => j = k

Spec == Init /\ [][Next]_life
=============================================================================
