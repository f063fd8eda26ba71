---------------------------- MODULE RouteLatency ----------------------------
(***************************************************************************)
(* The latency samples behind the strategy "least_time":                   *)
(* gateway-route-latency.ts.  A gateway averages in memory, one sample per *)
(* provider model and metric, and writes what changed to the table         *)
(* route_latency_stats, which the next process starts from.  A sample is   *)
(* abstracted to its sampleCount; the average moves with it.               *)
(***************************************************************************)
EXTENDS Integers, FiniteSets, SequencesExt

CONSTANTS
  Gateways,        \* processes that share the table
  SampleKeys,      \* pairs of a provider model and a metric
  MaxCount,        \* bound: samples of a key
  MaxFlushFaults   \* bound: upserts and reads that fail

ASSUME LatencyAssumption ==
  IsFiniteSet(SampleKeys) /\ MaxCount \in Nat /\ MaxFlushFaults \in Nat

VARIABLES
  latencyStats,   \* route_latency_stats: the count of each row, 0 without a row
  stats,          \* per gateway: its process and its in-memory statistics
  flushFaults

latencyVars == <<latencyStats, stats, flushFaults>>

Counts == [SampleKeys -> 0..MaxCount]
NoFlush == [keys |-> {}, rows |-> <<>>]

\* phase "up" is between seed() and stop(), "last" is the second flush of stop();
\* kept is what this process last read or wrote of each key, late the keys sampled
\* after the second flush was called.
DownStats == [phase |-> "down", pool |-> [k \in SampleKeys |-> 0], dirty |-> {}, flushing |-> FALSE,
              batch |-> NoFlush, kept |-> [k \in SampleKeys |-> 0], lastFailed |-> FALSE, late |-> {}]

LatencyTypeOK ==
  /\ latencyStats \in Counts
  /\ flushFaults \in 0..MaxFlushFaults
  /\ \A g \in Gateways :
       /\ stats[g].phase \in {"down", "up", "first", "last", "stopped"}
       /\ stats[g].pool \in Counts /\ stats[g].kept \in Counts
       /\ stats[g].dirty \subseteq SampleKeys /\ stats[g].late \subseteq SampleKeys
       /\ stats[g].batch.keys \subseteq SampleKeys
       /\ {row.key : row \in ToSet(stats[g].batch.rows)} \subseteq stats[g].batch.keys
       /\ stats[g].flushing <=> stats[g].batch.keys # {}

LatencyInit ==
  /\ latencyStats = [k \in SampleKeys |-> 0]
  /\ stats = [g \in Gateways |-> DownStats]
  /\ flushFaults = 0

\* start(): the rows are the pool; a seed that fails leaves it empty.
Seed(g) ==
  /\ stats[g].phase = "down"
  /\ \/ /\ stats' = [stats EXCEPT ![g] = [@ EXCEPT !.phase = "up", !.pool = latencyStats, !.kept = latencyStats]]
        /\ UNCHANGED flushFaults
     \/ /\ flushFaults < MaxFlushFaults /\ flushFaults' = flushFaults + 1
        /\ stats' = [stats EXCEPT ![g].phase = "up"]
  /\ UNCHANGED latencyStats

\* recordSample: a first byte or a whole call was timed.  During stop() and after it
\* too: the handler of a client that left is awaited by neither app.close nor the drain.
Record(g, k) ==
  /\ stats[g].phase # "down"
  /\ stats[g].pool[k] < MaxCount
  /\ stats' = [stats EXCEPT ![g].pool[k] = @ + 1, ![g].dirty = @ \cup {k},
                 ![g].late = IF stats[g].phase \in {"last", "stopped"} THEN @ \cup {k} ELSE @]
  /\ UNCHANGED <<latencyStats, flushFaults>>

\* The synchronous part of flush(): the dirty keys become the batch, their rows
\* are copied from the pool and nothing is dirty any more.
Cut(s) ==
  [s EXCEPT !.flushing = TRUE,
     !.batch = [keys |-> s.dirty, rows |-> [i \in 1..Cardinality(s.dirty) |->
                  LET k == SetToSeq(s.dirty)[i] IN [key |-> k, count |-> s.pool[k]]]],
     !.dirty = {}]

\* The timer: a flush in flight is joined, nothing dirty is nothing to do.
Flush(g) ==
  /\ stats[g].phase = "up" /\ ~stats[g].flushing /\ stats[g].dirty # {}
  /\ stats' = [stats EXCEPT ![g] = Cut(@)]
  /\ UNCHANGED <<latencyStats, flushFaults>>

\* One upsert; whichever gateway writes last wins.
Upsert(g) ==
  LET b == stats[g].batch
      row == Head(b.rows)
  IN /\ stats[g].flushing /\ b.rows # <<>>
     /\ latencyStats' = [latencyStats EXCEPT ![row.key] = row.count]
     /\ stats' = [stats EXCEPT ![g].batch.rows = Tail(b.rows), ![g].kept[row.key] = row.count]
     /\ UNCHANGED flushFaults

FlushEnds(g) ==
  /\ stats[g].flushing /\ stats[g].batch.rows = <<>>
  /\ stats' = [stats EXCEPT ![g].flushing = FALSE, ![g].batch = NoFlush]
  /\ UNCHANGED <<latencyStats, flushFaults>>

\* Mutation: only the key whose row was not written is tried again.
RestoredHead(s) == [s EXCEPT !.dirty = @ \cup {Head(s.batch.rows).key}, !.flushing = FALSE, !.batch = NoFlush]

\* Every key of the batch is dirty again, written or not.
Restored(s) == [s EXCEPT !.dirty = @ \cup s.batch.keys, !.flushing = FALSE, !.batch = NoFlush]

\* An upsert fails, or its answer is lost.
FlushFails(g) ==
  LET row == Head(stats[g].batch.rows)
  IN /\ stats[g].flushing /\ stats[g].batch.rows # <<>>
     /\ flushFaults < MaxFlushFaults /\ flushFaults' = flushFaults + 1
     /\ \E committed \in BOOLEAN :
          latencyStats' = IF committed THEN [latencyStats EXCEPT ![row.key] = row.count] ELSE latencyStats
     /\ stats' = [stats EXCEPT ![g] = [Restored(@) EXCEPT !.lastFailed = stats[g].phase = "last"]]

\* Mutation: a batch is cut although nothing is dirty.
CalledAlways(s) == IF s.flushing THEN s ELSE Cut(s)

\* A call of flush() inside stop(): it joins a flush in flight or cuts a batch.
Called(s) == IF s.flushing \/ s.dirty = {} THEN s ELSE Cut(s)

\* stop() after the drain ended or timed out: the timer is cleared and the first of
\* two flushes begins.
StopLatency(g) ==
  /\ stats[g].phase = "up"
  /\ stats' = [stats EXCEPT ![g] = [Called(@) EXCEPT !.phase = "first"]]
  /\ UNCHANGED <<latencyStats, flushFaults>>

\* Each flush is awaited before the next statement.
FlushAwaited(g) ==
  /\ ~stats[g].flushing
  /\ \/ stats[g].phase = "first" /\ stats' = [stats EXCEPT ![g] = [Called(@) EXCEPT !.phase = "last"]]
     \/ stats[g].phase = "last" /\ stats' = [stats EXCEPT ![g].phase = "stopped"]
  /\ UNCHANGED <<latencyStats, flushFaults>>

\* The process ends, after stop() or before; it may start again.
ExitLatency(g) ==
  /\ stats[g].phase # "down"
  /\ stats' = [stats EXCEPT ![g] = DownStats]
  /\ UNCHANGED <<latencyStats, flushFaults>>

LatencyNext ==
  \E g \in Gateways :
    \/ Seed(g) \/ Flush(g) \/ Upsert(g) \/ FlushEnds(g) \/ FlushFails(g)
    \/ StopLatency(g) \/ FlushAwaited(g) \/ ExitLatency(g)
    \/ \E k \in SampleKeys : Record(g, k)

LatencySpec == LatencyInit /\ [][LatencyNext]_latencyVars

(***************************************************************************)
(* Properties.                                                             *)
(***************************************************************************)
\* A sample that is not in the table yet is dirty, or is in the rows the flush
\* in flight still has to write.
UnsavedIsPending ==
  \A g \in Gateways : \A k \in SampleKeys :
    stats[g].pool[k] # stats[g].kept[k] =>
      \/ k \in stats[g].dirty
      \/ [key |-> k, count |-> stats[g].pool[k]] \in ToSet(stats[g].batch.rows)

\* stop() flushes twice, so a gateway stops with every sample saved that was taken
\* before the second flush was called, however the first one ended and unless the
\* second one failed: also those taken while the first flush was writing.
StopSaves ==
  \A g \in Gateways :
    stats[g].phase = "stopped" /\ ~stats[g].lastFailed =>
      {k \in SampleKeys : stats[g].pool[k] # stats[g].kept[k]} \subseteq stats[g].late

\* No sample is forgotten between the memory of a gateway and the table.
SamplesKept == UnsavedIsPending /\ StopSaves
=============================================================================
