------------------------- MODULE MCConnectionHealth -------------------------
(* ConnectionHealth for TLC: a running, a retried and a scheduled probe at once. *)
EXTENDS ConnectionHealth, TLC

CONSTANTS a, b, c

TwoJobs == {a, b}
JobSymmetry == Permutations(JobIds)
=============================================================================
