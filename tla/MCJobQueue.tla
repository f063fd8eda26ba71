----------------------------- MODULE MCJobQueue -----------------------------
(* JobQueue for TLC: two worker processes that share one WORKER_ID, so that the  *)
(* lease owner alone tells nothing, and whose clocks differ by a tick.            *)
EXTENDS JobQueue, TLC

CONSTANTS p1, p2, worker, j1

TwoProcs == {p1, p2}
OneWorkerId == {worker}
SharedId == [p \in Procs |-> worker]
SkewedClocks == [p \in Procs |-> IF p = p2 THEN 1 ELSE 0]
OneJob == {j1}
Priorities == [j \in Jobs |-> 0]
=============================================================================
