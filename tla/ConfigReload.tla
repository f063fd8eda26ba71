---------------------------- MODULE ConfigReload ----------------------------
(***************************************************************************)
(* How a gateway follows the configuration in PostgreSQL: the publication  *)
(* of an edit (packages/db/src/config-versions.ts), the listener, and the  *)
(* runtime that keeps one snapshot in memory and reloads it                *)
(* (packages/gateway-runtime/src/gateway-config-reload.ts).                *)
(*                                                                         *)
(* The content of a table is the set of the writers whose edit it shows.   *)
(* Every writer edits once.  A load is three queries in autocommit, so     *)
(* edits commit between them; the event loop runs between any two awaits.  *)
(***************************************************************************)
EXTENDS Integers, Sequences, FiniteSets

CONSTANTS
  Writers,    \* bound: transactions that edit the configuration
  LockOrder,  \* the locks each takes, in order
  MaxFaults   \* bound: failed loads, failed writes and listeners that went deaf

\* The console publishes first and then locks the rows it writes.  A model
\* refresh locks the provider first, and publishes only what routing sees.
ASSUME WritersAssumption ==
  /\ IsFiniteSet(Writers)
  /\ LockOrder \in [Writers -> {<<"publisher", "provider">>,
                                <<"provider", "publisher">>, <<"provider">>}]
ASSUME FaultsAssumption == MaxFaults \in Nat

VARIABLES
  stage,      \* of each writer's transaction
  held,       \* how many of its locks it has
  number,     \* the version it inserted into config_versions
  phase,      \* of the gateway process
  listening,  \* its LISTEN connection gets notifications
  channel,    \* notifications on their way
  heard,      \* history: the edits this process was notified of
  snapshot,   \* currentSnapshot
  load,       \* reloadInFlight: the request, and what its queries answered
  trailing,   \* trailingReloadRequest
  failed,     \* lastReloadFailed
  faults

database == <<stage, held, number>>
memory == <<phase, listening, channel, heard, snapshot, load, trailing, failed>>
vars == <<database, memory, faults>>

Versions == 0..Cardinality(Writers)
Snapshot == [version : Versions, providers : SUBSET Writers, policies : SUBSET Writers]
Notification == [version : Versions, edit : Writers]

\* {force, targetVersion}; a forced request has no target.
Request == [force : {FALSE}, target : Versions] \cup [force : {TRUE}, target : {0}]
Forced == [force |-> TRUE, target |-> 0]
NoRequest == [force |-> FALSE, target |-> 0]  \* undefined: nothing to do at any version

\* Mutant: the label is read after the content.
QueriesVersionLast == <<"providers", "policies", "version">>

\* loadGatewayConfigSnapshot's queries, in order; load.at is the next of them,
\* 0 when no load is in flight.
Queries == <<"version", "providers", "policies">>
Load == [at : 0..Len(Queries) + 1, request : Request, seen : Snapshot]

emptySnapshot == [version |-> 0, providers |-> {}, policies |-> {}]
Idle == [at |-> 0, request |-> NoRequest, seen |-> emptySnapshot]
Begun(request) == [Idle EXCEPT !.at = 1, !.request = request]

Committed == {w \in Writers : stage[w] = "committed"}
Latest == CHOOSE v \in Versions : /\ v \in {number[w] : w \in Committed} \cup {0}
                                  /\ \A w \in Committed : number[w] <= v

TypeOK ==
  /\ stage \in [Writers -> {"open", "committed", "failed"}]
  /\ held \in [Writers -> 0..2] /\ number \in [Writers -> Versions]
  /\ phase \in {"down", "starting", "connecting", "running", "closing", "draining", "stopped"}
  /\ listening \in BOOLEAN /\ channel \in Seq(Notification) /\ heard \subseteq Writers
  /\ snapshot \in Snapshot /\ load \in Load /\ trailing \in Request
  /\ failed \in BOOLEAN /\ faults \in 0..MaxFaults

-----------------------------------------------------------------------------
(* The writers: publishConfigChange and the transactions that publish inside. *)

Publishes(w) == \E i \in DOMAIN LockOrder[w] : LockOrder[w][i] = "publisher"
Held(w) == {LockOrder[w][i] : i \in 1..held[w]}
Wanted(w) == {LockOrder[w][i] : i \in {held[w] + 1} \cap DOMAIN LockOrder[w]}
WaitsFor(w, other) == Wanted(w) \cap Held(other) # {}

\* A lock is free for w.  Both kinds are held to the end of the transaction.
Free(w) == \A other \in Writers \ {w} : ~ WaitsFor(w, other)
NextNumber == Latest + 1

Acquire(w) ==
  /\ stage[w] = "open" /\ Wanted(w) # {} /\ Free(w)
  /\ held' = [held EXCEPT ![w] = @ + 1]
  /\ UNCHANGED <<stage, number, memory, faults>>

\* insertConfigVersion: coalesce(max(version), 0) + 1.
InsertVersion(w) ==
  /\ stage[w] = "open" /\ Wanted(w) = {} /\ Publishes(w) /\ number[w] = 0
  /\ number' = [number EXCEPT ![w] = NextNumber]
  /\ UNCHANGED <<stage, held, memory, faults>>

\* PostgreSQL sends the notification of pg_notify when the transaction commits.
Notified(w) ==
  IF listening /\ Publishes(w)
    THEN Append(channel, [version |-> number[w], edit |-> w])
    ELSE channel

Commit(w) ==
  /\ stage[w] = "open" /\ Wanted(w) = {} /\ (Publishes(w) => number[w] # 0)
  /\ stage' = [stage EXCEPT ![w] = "committed"]
  /\ held' = [held EXCEPT ![w] = 0]
  /\ channel' = Notified(w)
  /\ UNCHANGED <<number, phase, listening, heard, snapshot, load, trailing, failed, faults>>

\* A worker's job is retried; the console answers its user with an error.
RolledBack(w) ==
  /\ stage' = [stage EXCEPT ![w] = IF LockOrder[w][1] = "publisher" THEN "failed" ELSE @]
  /\ held' = [held EXCEPT ![w] = 0]
  /\ number' = [number EXCEPT ![w] = 0]
  /\ UNCHANGED memory

WriteFails(w) ==
  /\ stage[w] = "open" /\ held[w] # 0 /\ faults < MaxFaults
  /\ RolledBack(w)
  /\ faults' = faults + 1

\* PostgreSQL's deadlock detector: a console edit and a refresh wait for each other.
DeadlockVictim(w) ==
  /\ stage[w] = "open"
  /\ \E other \in Writers \ {w} : WaitsFor(w, other) /\ WaitsFor(other, w)
  /\ RolledBack(w)
  /\ UNCHANGED faults

-----------------------------------------------------------------------------
(* The gateway's reloads. *)

shouldSkipReload(request, current) == ~ request.force /\ request.target <= current.version

\* Mutant: the earliest target is kept.
MergedEarliest(old, new) ==
  IF old # NoRequest /\ old.target < new.target THEN old ELSE new

\* Mutant: a forced request keeps a target.
MergedWithTarget(old, new) ==
  [force |-> old.force \/ new.force,
   target |-> IF old.target > new.target THEN old.target ELSE new.target]

mergeTrailingReload(old, new) ==
  LET forced == old.force \/ new.force
      latest == IF old.target > new.target THEN old.target ELSE new.target
  IN [force |-> forced, target |-> IF forced THEN 0 ELSE latest]

runReload(request) ==
  \/ /\ shouldSkipReload(request, snapshot)
     /\ UNCHANGED <<load, trailing>>
  \/ /\ ~ shouldSkipReload(request, snapshot) /\ load.at # 0
     /\ trailing' = mergeTrailingReload(trailing, request)
     /\ UNCHANGED load
  \/ /\ ~ shouldSkipReload(request, snapshot) /\ load.at = 0
     /\ load' = Begun(request)
     /\ UNCHANGED trailing

\* One query of loadGatewayConfigSnapshot.
Query ==
  /\ load.at \in DOMAIN Queries
  /\ LET asked == Queries[load.at]
     IN load' = [load EXCEPT !.at = @ + 1,
                   !.seen[asked] = IF asked = "version" THEN Latest ELSE Committed]
  /\ UNCHANGED <<database, phase, listening, channel, heard, snapshot, trailing, failed, faults>>

\* Mutant: a forced reload is compared by version as well.
InstalledIfNewer(request, seen) ==
  IF seen.version > snapshot.version THEN seen ELSE snapshot

performReload(request, seen) ==
  IF request.force \/ seen.version > snapshot.version THEN seen ELSE snapshot

\* The end of performReload, and the next turn of runReload's loop.
Reloaded ==
  /\ load.at > Len(Queries) /\ phase # "starting"
  /\ snapshot' = performReload(load.request, load.seen)
  /\ failed' = FALSE
  /\ trailing' = NoRequest
  /\ load' = IF shouldSkipReload(trailing, snapshot') THEN Idle ELSE Begun(trailing)
  /\ UNCHANGED <<database, phase, listening, channel, heard, faults>>

\* Mutant: a failed load leaves nothing to serve.
LastGoodDropped == emptySnapshot

\* What the gateway serves when a load throws.
LastGood == snapshot

\* A query throws.  The loop ends, and a trailing request stays where it is.
ReloadFails ==
  /\ load.at # 0 /\ phase # "starting" /\ faults < MaxFaults
  /\ snapshot' = LastGood
  /\ load' = Idle /\ failed' = TRUE
  /\ faults' = faults + 1
  /\ UNCHANGED <<database, phase, listening, channel, heard, trailing>>

-----------------------------------------------------------------------------
(* The gateway's process. *)

Start ==
  /\ phase = "down"
  /\ phase' = "starting" /\ load' = Begun(Forced)
  /\ UNCHANGED <<database, listening, channel, heard, snapshot, trailing, failed, faults>>

FirstLoaded ==
  /\ phase = "starting" /\ load.at > Len(Queries)
  /\ phase' = "connecting" /\ snapshot' = load.seen /\ load' = Idle
  /\ UNCHANGED <<database, listening, channel, heard, trailing, failed, faults>>

\* LISTEN, which hears nothing of what committed since the first load.
Listen ==
  /\ phase = "connecting"
  /\ phase' = "running" /\ listening' = TRUE
  /\ UNCHANGED <<database, channel, heard, snapshot, load, trailing, failed, faults>>

\* The listener's callback.
Hear ==
  /\ listening /\ channel # <<>>
  /\ channel' = Tail(channel)
  /\ heard' = heard \cup {Head(channel).edit}
  /\ runReload([force |-> FALSE, target |-> Head(channel).version])
  /\ UNCHANGED <<database, phase, listening, snapshot, failed, faults>>

\* The timer of reconcileIntervalMs.
Reconcile ==
  /\ phase = "running"
  /\ runReload(Forced)
  /\ UNCHANGED <<database, phase, listening, channel, heard, snapshot, failed, faults>>

\* The connection is dead and nothing has noticed.
GoDeaf ==
  /\ listening /\ faults < MaxFaults
  /\ listening' = FALSE /\ channel' = <<>> /\ faults' = faults + 1
  /\ UNCHANGED <<database, phase, heard, snapshot, load, trailing, failed>>

\* stop: the timer first, then the listener, then the load in flight.
Stop ==
  /\ phase = "running"
  /\ phase' = "closing"
  /\ UNCHANGED <<database, listening, channel, heard, snapshot, load, trailing, failed, faults>>

ListenerClosed ==
  /\ phase = "closing"
  /\ phase' = "draining" /\ listening' = FALSE /\ channel' = <<>>
  /\ UNCHANGED <<database, heard, snapshot, load, trailing, failed, faults>>

\* Mutant: only a queued reload is waited for.
DrainedEarly == load.at = 0 \/ trailing = NoRequest

Drained == load.at = 0

Stopped ==
  /\ phase = "draining" /\ Drained
  /\ phase' = "stopped"
  /\ UNCHANGED <<database, listening, channel, heard, snapshot, load, trailing, failed, faults>>

\* The process ends: after a stop, at a crash, or because it could not start.
Exit ==
  /\ phase # "down"
  /\ phase' = "down" /\ listening' = FALSE /\ channel' = <<>> /\ heard' = {}
  /\ snapshot' = emptySnapshot /\ load' = Idle /\ trailing' = NoRequest /\ failed' = FALSE
  /\ UNCHANGED <<database, faults>>

-----------------------------------------------------------------------------
Init ==
  /\ stage = [w \in Writers |-> "open"]
  /\ held = [w \in Writers |-> 0] /\ number = [w \in Writers |-> 0]
  /\ phase = "down" /\ listening = FALSE /\ channel = <<>> /\ heard = {}
  /\ snapshot = emptySnapshot /\ load = Idle /\ trailing = NoRequest
  /\ failed = FALSE /\ faults = 0

Write(w) ==
  Acquire(w) \/ InsertVersion(w) \/ Commit(w) \/ WriteFails(w) \/ DeadlockVictim(w)

Next ==
  \/ \E w \in Writers : Write(w)
  \/ Query \/ Reloaded \/ ReloadFails \/ Hear \/ Reconcile
  \/ Start \/ FirstLoaded \/ Listen \/ GoDeaf
  \/ Stop \/ ListenerClosed \/ Stopped \/ Exit

Spec == Init /\ [][Next]_vars

\* Queries are answered or fail, the event loop runs its callbacks, the
\* interval fires again and again.
Fairness ==
  /\ WF_vars(Query) /\ WF_vars(Reloaded) /\ WF_vars(FirstLoaded) /\ WF_vars(Listen)
  /\ WF_vars(Reconcile)
FairSpec == Spec /\ Fairness

-----------------------------------------------------------------------------
(* The version a snapshot carries never runs ahead of its content: every   *)
(* edit published up to that version is in both tables, however edits and  *)
(* the three queries interleave.  Otherwise the notification of an edit    *)
(* the snapshot lacks would be skipped as already loaded.                  *)
LabelNotAhead ==
  \A w \in Committed :
    number[w] \in 1..snapshot.version => w \in snapshot.providers \cap snapshot.policies

(* Coalescing loses nothing: a running gateway that is not reloading and   *)
(* does not report degraded serves every edit it was notified of, however  *)
(* many notifications arrived during its loads.                            *)
HeardIsServed ==
  phase = "running" /\ load.at = 0 /\ ~ failed =>
    heard \subseteq snapshot.providers \cap snapshot.policies

(* As long as the process lives, what it serves only moves forward: a      *)
(* failed load keeps the last good snapshot, and no load that began early  *)
(* puts older content or an older version back.                            *)
ServesForward ==
  [][phase' # "down" => /\ snapshot.version <= snapshot'.version
                        /\ snapshot.providers \subseteq snapshot'.providers
                        /\ snapshot.policies \subseteq snapshot'.policies]_vars

(* After stop() nothing of the runtime is left: no load in flight, none    *)
(* queued behind one that will run it, no listener to begin another.       *)
QuietAfterStop == phase = "stopped" => load.at = 0 /\ ~ listening

(* A gateway that stays up gets to serve every committed edit, published   *)
(* or not, and to report itself healthy: reconcile covers a notification   *)
(* that came before LISTEN or died with its connection, and an edit that   *)
(* was never published.                                                    *)
Current ==
  /\ snapshot = [version |-> Latest, providers |-> Committed, policies |-> Committed]
  /\ ~ failed
CatchesUp == []<>(phase # "running" \/ Current)
=============================================================================
