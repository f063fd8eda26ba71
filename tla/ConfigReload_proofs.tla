------------------------- MODULE ConfigReload_proofs -------------------------
(***************************************************************************)
(* What ConfigReload guarantees for any number of writers, any of the lock *)
(* orders they take and any number of faults: version numbers are given    *)
(* out one at a time, a snapshot's label never runs ahead of its content,  *)
(* an edit the gateway heard of is served, what is served only moves       *)
(* forward, and a stopped gateway is quiet.                                *)
(*                                                                         *)
(* The inductive invariant has a half for the database (the publisher lock *)
(* makes number the next one until its writer commits) and a half for the  *)
(* process (how far a load has got, and what it makes of what was heard).  *)
(***************************************************************************)
EXTENDS ConfigReload, FiniteSetTheorems, SequenceTheorems, TLAPS

(* The database. *)

IsLatest(v) ==
  /\ v \in {number[w] : w \in Committed} \cup {0}
  /\ \A w \in Committed : number[w] <= v

\* There is a latest version, and no version was left out.
Counted == (\E v \in Versions : IsLatest(v)) /\ Latest <= Cardinality(Committed)

LocksExclusive == \A w, other \in Writers : w # other => Held(w) \cap Held(other) = {}

\* A number is the next one for as long as its writer may still commit it.
Numbered ==
  \A w \in Writers : number[w] # 0 =>
    /\ Publishes(w)
    /\ stage[w] = "open" => Wanted(w) = {} /\ number[w] = NextNumber

DatabaseInv == Counted /\ LocksExclusive /\ Numbered

(* The process. *)

Behind(seen) ==
  /\ seen.version <= Latest
  /\ seen.providers \subseteq Committed /\ seen.policies \subseteq Committed

\* A table's content shows every edit published up to a version.
Complete(content, version) ==
  \A w \in Committed : number[w] \in 1..version => w \in content

\* What each query has found is not older than what is served; a load that was
\* asked for a version will find one that is newer.
LoadInv ==
  /\ Behind(load.seen)
  /\ load.at >= 2 => snapshot.version <= load.seen.version
  /\ load.at >= 3 => /\ snapshot.providers \subseteq load.seen.providers
                     /\ Complete(load.seen.providers, load.seen.version)
  /\ load.at >= 4 => /\ snapshot.policies \subseteq load.seen.policies
                     /\ Complete(load.seen.policies, load.seen.version)
  /\ load.at # 0 /\ ~ load.request.force =>
       /\ snapshot.version < load.request.target /\ load.request.target <= Latest
       /\ load.at >= 2 => load.request.target <= load.seen.version

Announced(w, version) == w \in Committed /\ version = number[w] /\ version >= 1

ChannelInv ==
  \A i \in 1..Len(channel) : Announced(channel[i].edit, channel[i].version)

\* Why an edit the gateway heard of is not forgotten.
Served(w) == w \in snapshot.providers \cap snapshot.policies
Owned == load.at = 0 /\ failed
Loading(w) == /\ load.at # 0 /\ (load.at >= 3 => w \in load.seen.providers)
              /\ load.at >= 4 => w \in load.seen.policies
Queued(w) == load.at # 0 /\ (trailing.force \/ number[w] <= trailing.target)
Remembered(w) == Served(w) \/ Owned \/ Loading(w) \/ Queued(w)

HeardInv == \A w \in heard : w \in Committed /\ number[w] >= 1 /\ Remembered(w)

PhaseInv ==
  /\ phase \in {"down", "starting", "connecting"} => heard = {} /\ ~ listening
  /\ phase \in {"down", "connecting", "stopped"} => load.at = 0
  /\ phase \in {"draining", "stopped"} => ~ listening

ReloadInv ==
  /\ Behind(snapshot) /\ LabelNotAhead /\ LoadInv /\ trailing.target <= Latest /\ HeardInv

Inv == TypeOK /\ DatabaseInv /\ ReloadInv /\ ChannelInv /\ PhaseInv

----------------------------------------------------------------------------
(* Locks. *)

LEMMA LockOrders ==
  ASSUME NEW w \in Writers
  PROVE  /\ LockOrder[w] \in {<<"publisher", "provider">>,
                              <<"provider", "publisher">>, <<"provider">>}
         /\ DOMAIN LockOrder[w] \subseteq 1..2
BY WritersAssumption

\* A writer that publishes and wants no more locks holds the publisher's.
LEMMA PublisherHeld ==
  ASSUME TypeOK, NEW w \in Writers, Wanted(w) = {}, Publishes(w)
  PROVE  "publisher" \in Held(w)
<1>1. held[w] + 1 \notin DOMAIN LockOrder[w] /\ held[w] \in 0..2
  BY DEF Wanted, TypeOK
<1>2. CASE LockOrder[w] = <<"provider">>
  BY <1>2 DEF Publishes
<1>3. CASE LockOrder[w] \in {<<"publisher", "provider">>, <<"provider", "publisher">>}
  <2>1. DOMAIN LockOrder[w] = 1..2
    BY <1>3
  <2>2. held[w] = 2
    BY <1>1, <2>1
  <2>3. "publisher" \in {LockOrder[w][i] : i \in 1..2}
    BY <1>3
  <2>4. QED
    BY <2>2, <2>3 DEF Held
<1>4. QED
  BY <1>2, <1>3, LockOrders

\* Taking a free lock keeps the locks exclusive.
LEMMA AcquireLocks ==
  ASSUME TypeOK, LocksExclusive, NEW w \in Writers, Acquire(w)
  PROVE  LocksExclusive' /\ held' \in [Writers -> 0..2]
<1>1. held[w] \in 0..2 /\ held[w] + 1 \in DOMAIN LockOrder[w] /\ held[w] + 1 \in 1..2
  BY LockOrders DEF Acquire, Wanted, TypeOK
<1>2. held' = [held EXCEPT ![w] = held[w] + 1] /\ held' \in [Writers -> 0..2]
  BY <1>1 DEF Acquire, TypeOK
<1>3. \A other \in Writers \ {w} : Held(other)' = Held(other)
  BY <1>2 DEF Held, TypeOK
<1>4. Held(w)' \subseteq Held(w) \cup Wanted(w)
  BY <1>1, <1>2 DEF Held, Wanted, TypeOK
<1>5. \A other \in Writers \ {w} : Held(w)' \cap Held(other) = {}
  BY <1>4 DEF LocksExclusive, Acquire, Free, WaitsFor
<1>6. QED
  BY <1>2, <1>3, <1>5 DEF LocksExclusive

\* So does letting all locks of a transaction go.
LEMMA ReleaseLocks ==
  ASSUME TypeOK, LocksExclusive, NEW w \in Writers, held' = [held EXCEPT ![w] = 0]
  PROVE  LocksExclusive' /\ held' \in [Writers -> 0..2]
<1>1. held' \in [Writers -> 0..2]
  BY DEF TypeOK
<1>2. Held(w)' = {}
  BY DEF Held, TypeOK
<1>3. \A other \in Writers \ {w} : Held(other)' = Held(other)
  BY DEF Held, TypeOK
<1>4. QED
  BY <1>1, <1>2, <1>3 DEF LocksExclusive

----------------------------------------------------------------------------
(* Version numbers. *)

LEMMA WritersFinite ==
  /\ IsFiniteSet(Committed) /\ Cardinality(Committed) \in Nat
  /\ Cardinality(Committed) <= Cardinality(Writers) /\ Cardinality(Writers) \in Nat
<1>1. Committed \subseteq Writers
  BY DEF Committed
<1>2. QED
  BY <1>1, WritersAssumption, FS_Subset, FS_CardinalityType

LEMMA VersionsNat == Versions \subseteq Nat
BY WritersFinite DEF Versions

LEMMA LatestIs ==
  ASSUME Counted
  PROVE  Latest \in Versions /\ Latest \in Nat /\ IsLatest(Latest)
<1>1. PICK v \in Versions : IsLatest(v)
  BY DEF Counted
<1>2. Latest \in Versions /\ IsLatest(Latest)
  BY <1>1 DEF Latest, IsLatest
<1>3. QED
  BY <1>2, VersionsNat

\* The same in the next state, where the value that is the latest is known.
LEMMA LatestNext ==
  ASSUME number' \in [Writers -> Versions], NEW v \in Versions, IsLatest(v)'
  PROVE  Latest' = v
<1>1. Latest' \in Versions /\ IsLatest(Latest)'
  BY DEF Latest, IsLatest
<1>2. v \in Nat /\ Latest' \in Nat /\ \A w \in Committed' : number'[w] \in Nat
  BY <1>1, VersionsNat DEF Committed
<1>3. v <= Latest'
  BY <1>1, <1>2 DEF IsLatest
<1>4. Latest' <= v
  BY <1>1, <1>2 DEF IsLatest
<1>5. QED
  BY <1>2, <1>3, <1>4

\* What every step of a writer means to the process: committed edits stay, with the
\* numbers they have, and a new one has none or one that is later than all before it.
Forward ==
  /\ Committed \subseteq Committed' /\ Latest <= Latest' /\ Latest' \in Versions
  /\ \A w \in Committed : number'[w] = number[w]
  /\ \A w \in Committed' \ Committed : number'[w] = 0 \/ Latest < number'[w]

DatabaseType ==
  /\ stage \in [Writers -> {"open", "committed", "failed"}]
  /\ held \in [Writers -> 0..2] /\ number \in [Writers -> Versions]

\* A step that commits nothing leaves the latest version as it is.
LEMMA NothingCommitted ==
  ASSUME TypeOK, Counted, number' \in [Writers -> Versions], Committed' = Committed,
         \A w \in Committed : number'[w] = number[w]
  PROVE  Latest' = Latest /\ Counted' /\ Forward
<1>1. Latest \in Versions /\ Latest \in Nat /\ IsLatest(Latest)
  BY LatestIs
<1>2. {number'[w] : w \in Committed'} = {number[w] : w \in Committed}
  OBVIOUS
<1>3. \A w \in Committed' : number'[w] <= Latest
  BY <1>1 DEF IsLatest
<1>4. ASSUME NEW v, v = Latest
      PROVE  IsLatest(v)'
  BY <1>1, <1>2, <1>3, <1>4 DEF IsLatest
<1>5. Latest' = Latest
  BY <1>1, <1>4, LatestNext
<1>6. \E v \in Versions : IsLatest(v)'
  BY <1>1, <1>4
<1>7. Counted'
  BY <1>5, <1>6 DEF Counted
<1>8. QED
  BY <1>1, <1>5, <1>7 DEF Forward

LEMMA AcquireStep ==
  ASSUME TypeOK, DatabaseInv, NEW w \in Writers, Acquire(w)
  PROVE  DatabaseType' /\ DatabaseInv' /\ Forward
<1>1. LocksExclusive' /\ held' \in [Writers -> 0..2]
  BY AcquireLocks DEF DatabaseInv
<1>2. Committed' = Committed /\ number' = number /\ stage' = stage
  BY DEF Acquire, Committed
<1>3. Latest' = Latest /\ Counted' /\ Forward
  BY <1>2, NothingCommitted DEF DatabaseInv, TypeOK
<1>4. number[w] = 0
  BY DEF Acquire, DatabaseInv, Numbered
<1>5. \A other \in Writers \ {w} : Wanted(other)' = Wanted(other)
  BY DEF Acquire, Wanted, TypeOK
<1>6. Numbered'
  BY <1>2, <1>3, <1>4, <1>5 DEF DatabaseInv, Numbered, NextNumber, Publishes
<1>7. QED
  BY <1>1, <1>2, <1>3, <1>6 DEF DatabaseInv, DatabaseType, TypeOK

LEMMA InsertStep ==
  ASSUME TypeOK, DatabaseInv, NEW w \in Writers, InsertVersion(w)
  PROVE  DatabaseType' /\ DatabaseInv' /\ Forward
<1>1. Latest \in Nat /\ Latest <= Cardinality(Committed)
  BY LatestIs DEF DatabaseInv, Counted
<1>2. w \notin Committed
  BY DEF InsertVersion, Committed
<1>3. Cardinality(Committed) + 1 <= Cardinality(Writers)
  <2>1. Committed \subseteq Writers \ {w} /\ IsFiniteSet(Writers \ {w})
    BY <1>2, WritersAssumption, FS_RemoveElement DEF Committed
  <2>2. Cardinality(Committed) <= Cardinality(Writers \ {w})
    BY <2>1, FS_Subset
  <2>3. Cardinality(Writers \ {w}) = Cardinality(Writers) - 1
    BY WritersAssumption, FS_RemoveElement
  <2>4. QED
    BY <2>2, <2>3, WritersFinite, <2>1, FS_CardinalityType
<1>4. NextNumber \in Versions
  BY <1>1, <1>3, WritersFinite DEF NextNumber, Versions
<1>5. number' \in [Writers -> Versions] /\ number' = [number EXCEPT ![w] = NextNumber]
  BY <1>4 DEF InsertVersion, TypeOK
<1>6. Committed' = Committed /\ \A x \in Committed : number'[x] = number[x]
  BY <1>2, <1>5 DEF InsertVersion, Committed, TypeOK
<1>7. Latest' = Latest /\ Counted' /\ Forward
  BY <1>5, <1>6, NothingCommitted DEF DatabaseInv
<1>8. LocksExclusive' /\ \A x \in Writers : Wanted(x)' = Wanted(x)
  BY DEF InsertVersion, DatabaseInv, LocksExclusive, Held, Wanted
<1>9. Numbered'
  BY <1>5, <1>7, <1>8
     DEF InsertVersion, DatabaseInv, Numbered, NextNumber, Publishes, TypeOK
<1>10. QED
  BY <1>5, <1>7, <1>8, <1>9 DEF InsertVersion, DatabaseInv, DatabaseType, TypeOK

LEMMA RollbackStep ==
  ASSUME TypeOK, DatabaseInv, NEW w \in Writers, stage[w] = "open", RolledBack(w)
  PROVE  DatabaseType' /\ DatabaseInv' /\ Forward
<1>1. LocksExclusive' /\ held' \in [Writers -> 0..2]
  BY ReleaseLocks DEF RolledBack, DatabaseInv
<1>2. 0 \in Versions
  BY WritersFinite DEF Versions
<1>3. /\ number' \in [Writers -> Versions] /\ number' = [number EXCEPT ![w] = 0]
      /\ stage' \in [Writers -> {"open", "committed", "failed"}]
  BY <1>2 DEF RolledBack, TypeOK
<1>4. Committed' = Committed /\ \A x \in Committed : number'[x] = number[x]
  BY <1>3 DEF RolledBack, Committed, TypeOK
<1>5. Latest' = Latest /\ Counted' /\ Forward
  BY <1>3, <1>4, NothingCommitted DEF DatabaseInv
<1>6. \A other \in Writers \ {w} :
        Wanted(other)' = Wanted(other) /\ stage'[other] = stage[other]
  BY DEF RolledBack, Wanted, TypeOK
<1>7. Numbered'
  BY <1>3, <1>5, <1>6 DEF DatabaseInv, Numbered, NextNumber, Publishes, TypeOK
<1>8. QED
  BY <1>1, <1>3, <1>5, <1>7 DEF DatabaseInv, DatabaseType

\* The publisher's lock is held from the number to the commit, so nobody else has one.
LEMMA CommitStep ==
  ASSUME TypeOK, DatabaseInv, NEW w \in Writers, Commit(w)
  PROVE  DatabaseType' /\ DatabaseInv' /\ Forward /\ Committed' = Committed \cup {w}
<1> DEFINE latest == IF number[w] = 0 THEN Latest ELSE number[w]
<1>1. /\ Latest \in Versions /\ Latest \in Nat /\ IsLatest(Latest)
      /\ Latest <= Cardinality(Committed)
  BY LatestIs DEF DatabaseInv, Counted
<1>2. LocksExclusive' /\ held' \in [Writers -> 0..2]
  BY ReleaseLocks DEF Commit, DatabaseInv
<1>3. /\ number' = number /\ w \notin Committed /\ Committed' = Committed \cup {w}
      /\ stage' \in [Writers -> {"open", "committed", "failed"}]
  BY DEF Commit, Committed, TypeOK
<1>4. number[w] # 0 => number[w] = Latest + 1
  BY DEF Commit, DatabaseInv, Numbered, NextNumber
<1>5. latest \in Versions /\ latest \in Nat /\ Latest <= latest /\ latest <= Latest + 1
  BY <1>1, <1>4, VersionsNat DEF TypeOK
<1>6. ASSUME NEW v, v = latest
      PROVE  IsLatest(v)'
  <2>1. v \in {number'[x] : x \in Committed'} \cup {0}
    BY <1>1, <1>3, <1>6 DEF IsLatest
  <2>2. \A x \in Committed' : number'[x] <= v
    <3>1. number[w] <= latest
      BY <1>1, <1>5
    <3>2. \A x \in Committed : number[x] <= Latest /\ number[x] \in Nat
      BY <1>1, VersionsNat DEF IsLatest, TypeOK, Committed
    <3>3. QED
      BY <1>1, <1>3, <1>5, <1>6, <3>1, <3>2
  <2>3. QED
    BY <2>1, <2>2 DEF IsLatest
<1>7. Latest' = latest
  BY <1>3, <1>5, <1>6, LatestNext DEF TypeOK
<1>8. Counted'
  <2>1. Cardinality(Committed') = Cardinality(Committed) + 1
    BY <1>3, WritersFinite, FS_AddElement
  <2>2. \E v \in Versions : IsLatest(v)'
    BY <1>5, <1>6
  <2>3. QED
    BY <1>1, <1>5, <1>7, <2>1, <2>2, WritersFinite DEF Counted
<1>9. Forward
  BY <1>1, <1>3, <1>4, <1>5, <1>7 DEF Forward
<1>10. Numbered'
  <2> SUFFICES ASSUME NEW x \in Writers, number[x] # 0
               PROVE  /\ Publishes(x)
                      /\ stage'[x] = "open" => Wanted(x)' = {} /\ number[x] = NextNumber'
    BY <1>3 DEF Numbered, Publishes
  <2>1. Publishes(x)
    BY DEF DatabaseInv, Numbered
  <2>2. CASE stage'[x] = "open"
    <3>1. x # w /\ stage[x] = "open" /\ Wanted(x)' = Wanted(x)
      BY <2>2 DEF Commit, Wanted, TypeOK
    <3>2. Wanted(x) = {} /\ number[x] = NextNumber
      BY <3>1 DEF DatabaseInv, Numbered
    <3>3. number[w] = 0
      <4>1. SUFFICES ASSUME number[w] # 0 PROVE FALSE
        OBVIOUS
      <4>2. "publisher" \in Held(w) /\ "publisher" \in Held(x)
        BY <2>1, <3>2, <4>1, PublisherHeld DEF Commit, DatabaseInv, Numbered
      <4>3. QED
        BY <3>1, <4>2 DEF DatabaseInv, LocksExclusive
    <3>4. QED
      BY <1>7, <2>1, <3>1, <3>2, <3>3 DEF NextNumber
  <2>3. QED
    BY <2>1, <2>2
<1>11. QED
  BY <1>2, <1>3, <1>8, <1>9, <1>10 DEF DatabaseInv, DatabaseType, TypeOK

----------------------------------------------------------------------------
(* What the process makes of requests, loads and snapshots. *)

LEMMA RequestType ==
  ASSUME NEW request \in Request
  PROVE  /\ request.force \in BOOLEAN
         /\ request.target \in Versions /\ request.target \in Nat
<1>1. 0 \in Versions
  BY WritersFinite DEF Versions
<1>2. CASE request \in [force : {FALSE}, target : Versions]
  BY <1>2, VersionsNat
<1>3. CASE request \in [force : {TRUE}, target : {0}]
  <2>1. request.force \in {TRUE} /\ request.target = 0
    BY <1>3
  <2>2. request.force \in BOOLEAN
    BY <2>1, Zenon
  <2>3. QED
    BY <1>1, <2>1, <2>2
<1>4. QED
  BY <1>2, <1>3 DEF Request

LEMMA Requests ==
  /\ emptySnapshot \in Snapshot /\ NoRequest \in Request /\ Forced \in Request
  /\ Idle \in Load /\ Idle.at = 0 /\ Idle.seen = emptySnapshot
  /\ \A request \in Request :
       /\ Begun(request) \in Load /\ Begun(request).at = 1
       /\ Begun(request).request = request /\ Begun(request).seen = emptySnapshot
<1>1. 0 \in Versions
  BY WritersFinite DEF Versions
<1>2. emptySnapshot \in Snapshot /\ NoRequest \in Request /\ Forced \in Request
  BY <1>1 DEF emptySnapshot, Snapshot, NoRequest, Request, Forced
<1>3. Len(Queries) + 1 = 4 /\ 1 \in 0..Len(Queries) + 1
  BY DEF Queries
<1>4. Idle \in Load /\ Idle.at = 0 /\ Idle.seen = emptySnapshot
  BY <1>2, <1>3 DEF Idle, Load
<1>5. ASSUME NEW request \in Request
      PROVE  /\ Begun(request) \in Load /\ Begun(request).at = 1
             /\ Begun(request).request = request /\ Begun(request).seen = emptySnapshot
  BY <1>3, <1>4 DEF Begun, Load
<1>6. QED
  BY <1>2, <1>4, <1>5

\* A merged request asks for all that either of the two asked for, and no more.
LEMMA Merged ==
  ASSUME NEW old \in Request, NEW new \in Request
  PROVE  LET merged == mergeTrailingReload(old, new)
         IN  /\ merged \in Request /\ merged.force = (old.force \/ new.force)
             /\ ~ merged.force => old.target <= merged.target /\ new.target <= merged.target
             /\ merged.target \in {old.target, new.target, 0}
<1>1. /\ old.force \in BOOLEAN /\ new.force \in BOOLEAN
      /\ old.target \in Nat /\ new.target \in Nat
      /\ old.target \in Versions /\ new.target \in Versions
  BY RequestType
<1>2. 0 \in Versions
  BY WritersFinite DEF Versions
<1>3. CASE old.force \/ new.force
  BY <1>1, <1>2, <1>3 DEF mergeTrailingReload, Request
<1>4. CASE ~ (old.force \/ new.force)
  <2> DEFINE latest == IF old.target > new.target THEN old.target ELSE new.target
  <2>1. latest \in Versions /\ old.target <= latest /\ new.target <= latest
    BY <1>1
  <2>2. mergeTrailingReload(old, new) = [force |-> FALSE, target |-> latest]
    BY <1>1, <1>4 DEF mergeTrailingReload
  <2>3. QED
    BY <1>1, <1>4, <2>1, <2>2 DEF Request
<1>5. QED
  BY <1>3, <1>4

\* The versions and targets are numbers.
LEMMA Numbers ==
  ASSUME TypeOK, Counted
  PROVE  /\ Latest \in Nat /\ number \in [Writers -> Nat]
         /\ snapshot.version \in Nat /\ load.seen.version \in Nat /\ load.at \in 0..4
         /\ load.request \in Request /\ load.request.target \in Nat /\ trailing.target \in Nat
         /\ load.request.force \in BOOLEAN /\ trailing.force \in BOOLEAN
<1>1. Len(Queries) + 1 = 4
  BY DEF Queries
<1>2. \A request \in Request : request.target \in Nat /\ request.force \in BOOLEAN
  BY RequestType
<1>3. QED
  BY <1>1, <1>2, VersionsNat, LatestIs DEF TypeOK, Snapshot, Load

\* A step of the process leaves the database as it is.
LEMMA DatabaseKept ==
  ASSUME TypeOK, DatabaseInv, UNCHANGED database
  PROVE  /\ Committed' = Committed /\ Latest' = Latest /\ number' = number
         /\ DatabaseInv' /\ DatabaseType' /\ Forward
<1>1. stage' = stage /\ held' = held /\ number' = number
  BY DEF database
<1>2. Committed' = Committed
  BY <1>1 DEF Committed
<1>3. Latest' = Latest /\ Counted' /\ Forward
  BY <1>1, <1>2, NothingCommitted DEF DatabaseInv, TypeOK
<1>4. \A w \in Writers : Held(w)' = Held(w) /\ Wanted(w)' = Wanted(w)
  BY <1>1 DEF Held, Wanted
<1>5. QED
  BY <1>1, <1>2, <1>3, <1>4
     DEF DatabaseInv, LocksExclusive, Numbered, NextNumber, Publishes, DatabaseType, TypeOK

\* Edits that commit do not make a table's content incomplete up to a version it has.
LEMMA CompleteForward ==
  ASSUME TypeOK, Counted, Forward, DatabaseType',
         NEW content, NEW version \in Nat, version <= Latest, Complete(content, version)
  PROVE  Complete(content, version)'
<1> SUFFICES ASSUME NEW w \in Committed', number'[w] \in 1..version
             PROVE  w \in content
  BY DEF Complete
<1>1. w \in Writers /\ number'[w] \in Nat
  BY VersionsNat DEF Committed, DatabaseType
<1>2. w \in Committed
  BY <1>1, Numbers DEF Forward
<1>3. QED
  BY <1>2 DEF Forward, Complete

\* The snapshot, the load and what was heard stay sound while edits commit.
LEMMA ReloadForward ==
  ASSUME TypeOK, Counted, ReloadInv, Forward, DatabaseType',
         UNCHANGED <<heard, snapshot, load, trailing, failed>>
  PROVE  ReloadInv'
<1>1. Latest' \in Nat /\ Latest <= Latest'
  BY VersionsNat DEF Forward
<1>2. Behind(snapshot)' /\ Behind(load.seen)' /\ trailing'.target <= Latest'
  BY <1>1, Numbers DEF Forward, ReloadInv, LoadInv, Behind
<1>3. LabelNotAhead'
  <2>1. Complete(snapshot.providers, snapshot.version)
        /\ Complete(snapshot.policies, snapshot.version)
    BY DEF ReloadInv, LabelNotAhead, Complete
  <2>2. Complete(snapshot.providers, snapshot.version)'
        /\ Complete(snapshot.policies, snapshot.version)'
    BY <2>1, CompleteForward, Numbers DEF ReloadInv, Behind, Complete
  <2>3. QED
    BY <2>2 DEF LabelNotAhead, Complete
<1>4. LoadInv'
  <2>1. load.at >= 3 => Complete(load.seen.providers, load.seen.version)'
    BY CompleteForward, Numbers DEF ReloadInv, LoadInv, Behind, Complete
  <2>2. load.at >= 4 => Complete(load.seen.policies, load.seen.version)'
    BY CompleteForward, Numbers DEF ReloadInv, LoadInv, Behind, Complete
  <2>3. ~ load.request.force /\ load.at # 0 => load.request.target <= Latest'
    BY <1>1, Numbers DEF ReloadInv, LoadInv
  <2>4. QED
    BY <1>2, <2>1, <2>2, <2>3 DEF ReloadInv, LoadInv, Complete
<1>5. HeardInv'
  BY DEF ReloadInv, HeardInv, Forward, Remembered, Served, Owned, Loading, Queued
<1>6. QED
  BY <1>2, <1>3, <1>4, <1>5 DEF ReloadInv

----------------------------------------------------------------------------
(* The reloads. *)

\* A request keeps what was heard before, and what it asks for itself.
LEMMA RunReload ==
  ASSUME Inv, NEW request \in Request, request.force \/ request.target <= Latest,
         runReload(request), UNCHANGED <<database, snapshot, failed>>
  PROVE  /\ load' \in Load /\ trailing' \in Request /\ LoadInv' /\ trailing'.target <= Latest'
         /\ \A w \in Committed :
              /\ number[w] >= 1
              /\ Remembered(w) \/ (~ request.force /\ request.target = number[w])
              => Remembered(w)'
<1>1. Committed' = Committed /\ Latest' = Latest /\ number' = number
  BY DatabaseKept DEF Inv
<1>2. /\ Latest \in Nat /\ snapshot.version \in Nat /\ number \in [Writers -> Nat]
      /\ trailing \in Request /\ load \in Load
      /\ trailing.target <= Latest /\ request.target \in Nat
  BY Numbers, RequestType DEF Inv, DatabaseInv, ReloadInv, TypeOK
<1>3. CASE shouldSkipReload(request, snapshot) /\ UNCHANGED <<load, trailing>>
  <2>1. LoadInv' /\ trailing'.target <= Latest'
    BY <1>1, <1>3 DEF Inv, ReloadInv, LoadInv, Behind, Complete
  <2>2. ASSUME NEW w \in Committed, number[w] >= 1, request.target = number[w]
        PROVE  Served(w)
    BY <1>2, <1>3, <2>2
       DEF shouldSkipReload, Inv, ReloadInv, LabelNotAhead, Served, Committed
  <2>3. QED
    BY <1>1, <1>2, <1>3, <2>1, <2>2 DEF Remembered, Served, Owned, Loading, Queued
<1>4. CASE /\ load.at # 0 /\ trailing' = mergeTrailingReload(trailing, request)
           /\ UNCHANGED load
  <2>1. /\ trailing' \in Request /\ trailing'.force = (trailing.force \/ request.force)
        /\ ~ trailing'.force =>
             trailing.target <= trailing'.target /\ request.target <= trailing'.target
        /\ trailing'.target \in {trailing.target, request.target, 0}
    BY <1>2, <1>4, Merged
  <2>2. trailing'.target <= Latest' /\ trailing'.target \in Nat /\ trailing.target \in Nat
    <3>1. request.force => request.target = 0
      BY RequestType DEF Request
    <3>2. QED
      BY <1>1, <1>2, <2>1, <3>1, RequestType
  <2>3. LoadInv'
    BY <1>1, <1>4 DEF Inv, ReloadInv, LoadInv, Behind, Complete
  <2>4. ASSUME NEW w \in Committed, Queued(w) \/ request.target = number[w]
        PROVE  Queued(w)'
    <3>1. number[w] \in Nat
      BY <1>2 DEF Committed
    <3>2. trailing.force \in BOOLEAN /\ request.force \in BOOLEAN
      BY <1>2, RequestType
    <3>3. trailing'.force \/ number[w] <= trailing'.target
      <4>1. CASE trailing'.force
        BY <4>1
      <4>2. CASE ~ trailing'.force
        BY <1>2, <2>1, <2>2, <2>4, <3>1, <3>2, <4>2 DEF Queued
      <4>3. QED
        BY <4>1, <4>2
    <3>4. QED
      BY <1>1, <1>4, <3>3 DEF Queued
  <2>5. QED
    BY <1>1, <1>2, <1>4, <2>1, <2>2, <2>3, <2>4 DEF Remembered, Served, Owned, Loading
<1>5. CASE /\ ~ shouldSkipReload(request, snapshot) /\ load.at = 0
           /\ load' = Begun(request) /\ UNCHANGED trailing
  <2>1. /\ load' \in Load /\ load'.at = 1 /\ load'.request = request
        /\ load'.seen = emptySnapshot
    BY <1>5, Requests
  <2>2. LoadInv'
    BY <1>1, <1>2, <1>5, <2>1 DEF LoadInv, Behind, emptySnapshot, shouldSkipReload
  <2>3. \A w : Remembered(w)'
    BY <2>1 DEF Remembered, Loading
  <2>4. QED
    BY <1>1, <1>2, <1>5, <2>1, <2>2, <2>3
<1>6. QED
  BY <1>3, <1>4, <1>5 DEF runReload

LEMMA QueryEffect ==
  ASSUME TypeOK, Counted, Query
  PROVE  /\ load' \in Load /\ load'.at = load.at + 1 /\ load'.request = load.request
         /\ load.at \in 1..3
         /\ load'.seen.version = IF load.at = 1 THEN Latest ELSE load.seen.version
         /\ load'.seen.providers = IF load.at = 2 THEN Committed ELSE load.seen.providers
         /\ load'.seen.policies = IF load.at = 3 THEN Committed ELSE load.seen.policies
<1>1. load.at \in 1..3 /\ load.at + 1 \in 0..Len(Queries) + 1
  BY DEF Query, Queries
<1>2. Latest \in Versions /\ Committed \in SUBSET Writers
  BY LatestIs DEF Committed
<1>3. load \in Load /\ load.seen \in Snapshot
  BY DEF TypeOK, Load
<1>4. CASE load.at = 1
  <2> DEFINE seen == [load.seen EXCEPT !["version"] = Latest]
  <2>1. load' = [load EXCEPT !.at = @ + 1, !.seen["version"] = Latest]
    BY <1>4 DEF Query, Queries
  <2>2. load' = [load EXCEPT !.at = @ + 1, !.seen = seen]
    BY <1>3, <2>1 DEF Load, Snapshot
  <2>3. /\ seen \in Snapshot /\ seen.version = Latest
        /\ seen.providers = load.seen.providers
        /\ seen.policies = load.seen.policies
    BY <1>2, <1>3 DEF Snapshot
  <2>4. /\ load' \in Load /\ load'.at = load.at + 1 /\ load'.request = load.request
        /\ load'.seen = seen
    BY <1>1, <1>3, <2>2, <2>3 DEF Load
  <2>5. QED
    BY <1>4, <1>1, <2>3, <2>4
<1>5. CASE load.at = 2
  <2> DEFINE seen == [load.seen EXCEPT !["providers"] = Committed]
  <2>1. load' = [load EXCEPT !.at = @ + 1, !.seen["providers"] = Committed]
    BY <1>5 DEF Query, Queries
  <2>2. load' = [load EXCEPT !.at = @ + 1, !.seen = seen]
    BY <1>3, <2>1 DEF Load, Snapshot
  <2>3. /\ seen \in Snapshot /\ seen.providers = Committed
        /\ seen.version = load.seen.version
        /\ seen.policies = load.seen.policies
    BY <1>2, <1>3 DEF Snapshot
  <2>4. /\ load' \in Load /\ load'.at = load.at + 1 /\ load'.request = load.request
        /\ load'.seen = seen
    BY <1>1, <1>3, <2>2, <2>3 DEF Load
  <2>5. QED
    BY <1>5, <1>1, <2>3, <2>4
<1>6. CASE load.at = 3
  <2> DEFINE seen == [load.seen EXCEPT !["policies"] = Committed]
  <2>1. load' = [load EXCEPT !.at = @ + 1, !.seen["policies"] = Committed]
    BY <1>6 DEF Query, Queries
  <2>2. load' = [load EXCEPT !.at = @ + 1, !.seen = seen]
    BY <1>3, <2>1 DEF Load, Snapshot
  <2>3. /\ seen \in Snapshot /\ seen.policies = Committed
        /\ seen.version = load.seen.version
        /\ seen.providers = load.seen.providers
    BY <1>2, <1>3 DEF Snapshot
  <2>4. /\ load' \in Load /\ load'.at = load.at + 1 /\ load'.request = load.request
        /\ load'.seen = seen
    BY <1>1, <1>3, <2>2, <2>3 DEF Load
  <2>5. QED
    BY <1>6, <1>1, <2>3, <2>4
<1>7. QED
  BY <1>1, <1>4, <1>5, <1>6

\* The invariant and the types of what the reloads work on, for the steps below.
ReloadType ==
  /\ snapshot \in Snapshot /\ load \in Load /\ trailing \in Request /\ heard \subseteq Writers

LEMMA QueryInv ==
  ASSUME Inv, Query
  PROVE  ReloadInv' /\ ReloadType'
<1>1. Committed' = Committed /\ Latest' = Latest /\ number' = number
  BY DatabaseKept DEF Inv, Query
<1>2. UNCHANGED <<heard, snapshot, trailing, failed>>
  BY DEF Query
<1>3. /\ load' \in Load /\ load'.at = load.at + 1 /\ load'.request = load.request
      /\ load.at \in 1..3
      /\ load'.seen.version = IF load.at = 1 THEN Latest ELSE load.seen.version
      /\ load'.seen.providers = IF load.at = 2 THEN Committed ELSE load.seen.providers
      /\ load'.seen.policies = IF load.at = 3 THEN Committed ELSE load.seen.policies
  BY QueryEffect DEF Inv, DatabaseInv
<1>4. /\ Latest \in Nat /\ snapshot.version \in Nat /\ load.seen.version \in Nat
      /\ load.request.target \in Nat
  BY Numbers DEF Inv, DatabaseInv
<1>5. Behind(snapshot) /\ LoadInv /\ HeardInv
  BY DEF Inv, ReloadInv
<1>6. LoadInv'
  <2>1. Behind(load.seen)'
    BY <1>1, <1>3, <1>4, <1>5 DEF LoadInv, Behind
  <2>2. load'.at >= 2 => snapshot'.version <= load'.seen.version
    BY <1>2, <1>3, <1>4, <1>5 DEF LoadInv, Behind
  <2>3. load'.at >= 3 => /\ snapshot'.providers \subseteq load'.seen.providers
                         /\ Complete(load.seen.providers, load.seen.version)'
    BY <1>1, <1>2, <1>3, <1>5 DEF LoadInv, Behind, Complete
  <2>4. load'.at >= 4 => /\ snapshot'.policies \subseteq load'.seen.policies
                         /\ Complete(load.seen.policies, load.seen.version)'
    BY <1>1, <1>2, <1>3, <1>5 DEF LoadInv, Behind, Complete
  <2>5. ~ load'.request.force =>
          /\ snapshot'.version < load'.request.target /\ load'.request.target <= Latest'
          /\ load'.at >= 2 => load'.request.target <= load'.seen.version
    BY <1>1, <1>2, <1>3, <1>4, <1>5 DEF LoadInv
  <2>6. QED
    BY <2>1, <2>2, <2>3, <2>4, <2>5 DEF LoadInv
<1>7. HeardInv'
  <2>1. \A w \in heard : Loading(w) => Loading(w)'
    BY <1>3, <1>5 DEF Loading, HeardInv
  <2>2. QED
    BY <1>1, <1>2, <1>3, <1>5, <2>1 DEF HeardInv, Remembered, Served, Owned, Queued
<1>8. QED
  BY <1>1, <1>2, <1>3, <1>6, <1>7
     DEF ReloadInv, ReloadType, Behind, LabelNotAhead, Inv, TypeOK

\* A finished load is complete, and not older than what it replaces.
LEMMA LoadFinished ==
  ASSUME Inv, load.at > Len(Queries)
  PROVE  /\ load.at = 4 /\ load.seen \in Snapshot /\ Behind(load.seen)
         /\ snapshot.version <= load.seen.version
         /\ snapshot.providers \subseteq load.seen.providers
         /\ snapshot.policies \subseteq load.seen.policies
         /\ Complete(load.seen.providers, load.seen.version)
         /\ Complete(load.seen.policies, load.seen.version)
         /\ ~ load.request.force => snapshot.version < load.seen.version
<1>1. load.at = 4
  BY Numbers DEF Inv, DatabaseInv, Queries
<1>2. QED
  BY <1>1, Numbers DEF Inv, DatabaseInv, ReloadInv, LoadInv, TypeOK, Load

LEMMA ReloadedInv ==
  ASSUME Inv, Reloaded
  PROVE  ReloadInv' /\ ReloadType'
<1>1. Committed' = Committed /\ Latest' = Latest /\ number' = number
  BY DatabaseKept DEF Inv, Reloaded
<1>2. snapshot' = load.seen /\ load.at = 4
  BY LoadFinished, Numbers DEF Reloaded, performReload, Inv, DatabaseInv
<1>3. /\ snapshot' \in Snapshot /\ snapshot'.version \in Nat /\ Behind(snapshot)'
      /\ LabelNotAhead'
  BY <1>1, <1>2, LoadFinished, Numbers
     DEF Reloaded, Inv, DatabaseInv, Behind, LabelNotAhead, Complete
<1>4. /\ trailing' = NoRequest /\ trailing' \in Request /\ trailing'.target = 0
      /\ Latest \in Nat /\ trailing \in Request
  BY Requests, Numbers DEF Reloaded, NoRequest, Inv, DatabaseInv, TypeOK
<1>5. CASE shouldSkipReload(trailing, snapshot')
  <2>1. load' = Idle /\ load' \in Load /\ load'.at = 0 /\ load'.seen = emptySnapshot
    BY <1>5, Requests DEF Reloaded
  <2>2. LoadInv'
    BY <1>1, <1>4, <2>1 DEF LoadInv, Behind, emptySnapshot
  <2>3. ASSUME NEW w \in heard
        PROVE  Served(w)'
    <3>1. w \in Committed /\ number[w] >= 1 /\ number[w] \in Nat /\ Remembered(w)
      BY Numbers DEF Inv, ReloadInv, HeardInv, Committed, DatabaseInv
    <3>2. CASE Served(w)
      BY <1>2, <3>2, LoadFinished DEF Served, Reloaded
    <3>3. CASE Loading(w)
      BY <1>2, <3>3 DEF Served, Loading
    <3>4. CASE Queued(w)
      <4>1. number[w] \in 1..snapshot'.version
        BY <1>3, <1>4, <1>5, <3>1, <3>4, RequestType DEF shouldSkipReload, Queued
      <4>2. QED
        BY <1>1, <1>3, <3>1, <4>1 DEF LabelNotAhead, Served
    <3>5. QED
      BY <1>2, <3>1, <3>2, <3>3, <3>4 DEF Remembered, Owned
  <2>4. QED
    BY <1>1, <1>3, <1>4, <2>1, <2>2, <2>3
       DEF Reloaded, ReloadInv, ReloadType, HeardInv, Remembered, Inv, TypeOK
<1>6. CASE ~ shouldSkipReload(trailing, snapshot')
  <2>1. /\ load' \in Load /\ load'.at = 1 /\ load'.request = trailing
        /\ load'.seen = emptySnapshot
    BY <1>4, <1>6, Requests DEF Reloaded
  <2>2. LoadInv'
    BY <1>1, <1>3, <1>4, <1>6, <2>1, RequestType
       DEF LoadInv, Behind, emptySnapshot, shouldSkipReload, Inv, ReloadInv
  <2>3. \A w : Remembered(w)'
    BY <2>1 DEF Remembered, Loading
  <2>4. QED
    BY <1>1, <1>3, <1>4, <2>1, <2>2, <2>3
       DEF Reloaded, ReloadInv, ReloadType, HeardInv, Inv, TypeOK
<1>7. QED
  BY <1>5, <1>6

LEMMA ReloadFailsInv ==
  ASSUME Inv, ReloadFails
  PROVE  ReloadInv' /\ ReloadType'
<1>1. Committed' = Committed /\ Latest' = Latest /\ number' = number
  BY DatabaseKept DEF Inv, ReloadFails
<1>2. load' \in Load /\ load'.at = 0 /\ load'.seen = emptySnapshot /\ failed'
  BY Requests DEF ReloadFails
<1>3. LoadInv'
  BY <1>1, <1>2, Numbers DEF LoadInv, Behind, emptySnapshot, Inv, DatabaseInv
<1>4. \A w : Remembered(w)'
  BY <1>2 DEF Remembered, Owned
<1>5. QED
  BY <1>1, <1>2, <1>3, <1>4
     DEF ReloadFails, LastGood, ReloadInv, ReloadType, HeardInv, Behind, LabelNotAhead, Inv, TypeOK

LEMMA HearInv ==
  ASSUME Inv, Hear
  PROVE  ReloadInv' /\ ReloadType' /\ ChannelInv' /\ channel' \in Seq(Notification)
<1> DEFINE heardOf == Head(channel)
           request == [force |-> FALSE, target |-> heardOf.version]
<1>1. Committed' = Committed /\ Latest' = Latest /\ number' = number
  BY DatabaseKept DEF Inv, Hear
<1>2. /\ channel \in Seq(Notification) /\ Len(channel) \in Nat /\ Len(channel) >= 1
      /\ heardOf = channel[1] /\ heardOf \in Notification
      /\ channel' \in Seq(Notification) /\ Len(channel') = Len(channel) - 1
      /\ \A i \in 1..Len(channel') : channel'[i] = channel[i + 1]
  BY DEF Inv, TypeOK, Hear
<1>3. Announced(heardOf.edit, heardOf.version)
  BY <1>2 DEF Inv, ChannelInv
<1>4. request \in Request /\ ~ request.force /\ request.target <= Latest
  BY <1>2, <1>3, LatestIs DEF Request, Notification, Announced, IsLatest, Inv, DatabaseInv
<1>5. runReload(request) /\ UNCHANGED <<database, snapshot, failed>>
      /\ heard' = heard \cup {heardOf.edit}
  BY DEF Hear
<1>6. /\ load' \in Load /\ trailing' \in Request /\ LoadInv' /\ trailing'.target <= Latest'
      /\ \A w \in Committed :
           /\ number[w] >= 1
           /\ Remembered(w) \/ (~ request.force /\ request.target = number[w])
           => Remembered(w)'
  BY <1>4, <1>5, RunReload
<1>7. HeardInv'
  <2>1. \A w \in heard : w \in Committed /\ number[w] >= 1 /\ Remembered(w)
    BY DEF Inv, ReloadInv, HeardInv
  <2>2. /\ heardOf.edit \in Committed /\ number[heardOf.edit] >= 1
        /\ request.target = number[heardOf.edit]
    BY <1>3 DEF Announced
  <2>3. QED
    BY <1>1, <1>4, <1>5, <1>6, <2>1, <2>2 DEF HeardInv
<1>8. ChannelInv'
  BY <1>1, <1>2 DEF Inv, ChannelInv, Announced
<1>9. heard' \subseteq Writers
  BY <1>2, <1>5 DEF Inv, TypeOK, Notification
<1>10. QED
  BY <1>1, <1>2, <1>5, <1>6, <1>7, <1>8, <1>9
     DEF ReloadInv, ReloadType, Behind, LabelNotAhead, Inv, TypeOK

LEMMA ReconcileInv ==
  ASSUME Inv, Reconcile
  PROVE  ReloadInv' /\ ReloadType'
<1>1. Committed' = Committed /\ Latest' = Latest /\ number' = number
  BY DatabaseKept DEF Inv, Reconcile
<1>2. Forced \in Request /\ Forced.force
  BY Requests DEF Forced
<1>3. /\ load' \in Load /\ trailing' \in Request /\ LoadInv' /\ trailing'.target <= Latest'
      /\ \A w \in Committed : number[w] >= 1 /\ Remembered(w) => Remembered(w)'
  BY <1>2, RunReload DEF Reconcile
<1>4. QED
  BY <1>1, <1>3
     DEF Reconcile, ReloadInv, ReloadType, HeardInv, Behind, LabelNotAhead, Inv, TypeOK

\* A process that starts or ends has nothing in memory.
LEMMA BlankInv ==
  ASSUME Inv, UNCHANGED database, heard' = {}, snapshot' = emptySnapshot \/ UNCHANGED snapshot,
         trailing' = NoRequest \/ UNCHANGED trailing, load' = Idle \/ load' = Begun(Forced)
  PROVE  ReloadInv' /\ ReloadType'
<1>1. Committed' = Committed /\ Latest' = Latest /\ number' = number
  BY DatabaseKept DEF Inv
<1>2. /\ load' \in Load /\ load'.seen = emptySnapshot /\ trailing' \in Request
      /\ snapshot' \in Snapshot /\ load'.at \in {0, 1}
      /\ load'.at = 1 => load'.request.force
  BY Requests DEF Inv, TypeOK, Forced
<1>3. Latest \in Nat /\ trailing'.target <= Latest'
  BY <1>1, Numbers DEF NoRequest, Inv, DatabaseInv, ReloadInv
<1>4. LoadInv'
  BY <1>1, <1>2, <1>3 DEF LoadInv, Behind, emptySnapshot
<1>5. Behind(snapshot)' /\ LabelNotAhead'
  <2>1. CASE UNCHANGED snapshot
    BY <1>1, <2>1 DEF Behind, LabelNotAhead, Inv, ReloadInv
  <2>2. CASE snapshot' = emptySnapshot
    BY <1>1, <1>3, <2>2 DEF Behind, LabelNotAhead, emptySnapshot
  <2>3. QED
    BY <2>1, <2>2
<1>6. QED
  BY <1>2, <1>3, <1>4, <1>5 DEF ReloadInv, ReloadType, HeardInv

LEMMA FirstLoadedInv ==
  ASSUME Inv, FirstLoaded
  PROVE  ReloadInv' /\ ReloadType'
<1>1. Committed' = Committed /\ Latest' = Latest /\ number' = number
  BY DatabaseKept DEF Inv, FirstLoaded
<1>2. load' \in Load /\ load'.at = 0 /\ load'.seen = emptySnapshot
  BY Requests DEF FirstLoaded
<1>3. LoadInv' /\ trailing'.target <= Latest'
  BY <1>1, <1>2, Numbers DEF FirstLoaded, LoadInv, Behind, emptySnapshot, Inv, DatabaseInv, ReloadInv
<1>4. snapshot' = load.seen /\ snapshot' \in Snapshot /\ Behind(snapshot)' /\ LabelNotAhead'
  BY <1>1, LoadFinished DEF FirstLoaded, Behind, LabelNotAhead, Complete
<1>5. heard' = {}
  BY DEF FirstLoaded, Inv, PhaseInv
<1>6. QED
  BY <1>2, <1>3, <1>4, <1>5 DEF FirstLoaded, ReloadInv, ReloadType, HeardInv, Inv, TypeOK

----------------------------------------------------------------------------
(* Every step preserves the invariant. *)

MemoryType ==
  /\ phase \in {"down", "starting", "connecting", "running", "closing", "draining", "stopped"}
  /\ listening \in BOOLEAN /\ channel \in Seq(Notification)
  /\ failed \in BOOLEAN /\ faults \in 0..MaxFaults

LEMMA TypeParts == TypeOK <=> DatabaseType /\ MemoryType /\ ReloadType
BY DEF TypeOK, DatabaseType, MemoryType, ReloadType

LEMMA Unsent ==
  ASSUME TypeOK
  PROVE  \A to \in {channel, <<>>} : to \in Seq(Notification)
BY EmptySeq DEF TypeOK

LEMMA Fault ==
  ASSUME TypeOK, faults < MaxFaults, faults' = faults + 1
  PROVE  faults' \in 0..MaxFaults
BY FaultsAssumption DEF TypeOK

\* A notification is sent for an edit that commits, with the number it inserted.
LEMMA CommitInv ==
  ASSUME Inv, NEW w \in Writers, Commit(w)
  PROVE  Inv'
<1>1. DatabaseType' /\ DatabaseInv' /\ Forward /\ Committed' = Committed \cup {w}
  BY CommitStep DEF Inv
<1>2. number' = number /\ number \in [Writers -> Versions]
  BY DEF Commit, Inv, TypeOK
<1>3. ReloadInv' /\ ReloadType'
  BY <1>1, ReloadForward DEF Commit, Inv, DatabaseInv, TypeOK, ReloadType
<1>4. channel' \in Seq(Notification) /\ ChannelInv'
  <2>1. /\ channel \in Seq(Notification) /\ Len(channel) \in Nat
        /\ \A i \in 1..Len(channel) :
             /\ channel[i].edit \in Committed' /\ channel[i].version >= 1
             /\ channel[i].version = number'[channel[i].edit]
    BY <1>1, <1>2 DEF Inv, TypeOK, ChannelInv, Announced
  <2>2. CASE listening /\ Publishes(w)
    <3> DEFINE new == [version |-> number[w], edit |-> w]
    <3>1. channel' = Append(channel, new) /\ new \in Notification
      BY <1>2, <2>2 DEF Commit, Notified, Notification
    <3>2. /\ channel' \in Seq(Notification) /\ Len(channel') = Len(channel) + 1
          /\ channel'[Len(channel) + 1] = new
          /\ \A i \in 1..Len(channel) : channel'[i] = channel[i]
      BY <2>1, <3>1
    <3>3. w \in Committed' /\ number'[w] = number[w] /\ number[w] >= 1
      <4>1. number[w] \in Nat /\ number[w] # 0
        BY <1>2, <2>2, VersionsNat DEF Commit
      <4>2. QED
        BY <1>1, <1>2, <4>1
    <3>4. QED
      BY <2>1, <3>2, <3>3 DEF ChannelInv, Announced
  <2>3. CASE ~ (listening /\ Publishes(w))
    BY <2>1, <2>3 DEF Commit, Notified, ChannelInv, Announced
  <2>4. QED
    BY <2>2, <2>3
<1>5. PhaseInv' /\ MemoryType'
  BY <1>4 DEF Commit, Inv, PhaseInv, MemoryType, TypeOK
<1>6. QED
  BY <1>1, <1>3, <1>4, <1>5, TypeParts DEF Inv, TypeOK, DatabaseType, MemoryType, ReloadType

\* The other steps of a writer are invisible to the process.
LEMMA WriteInv ==
  ASSUME Inv, NEW w \in Writers,
         Acquire(w) \/ InsertVersion(w) \/ WriteFails(w) \/ DeadlockVictim(w)
  PROVE  Inv'
<1>1. DatabaseType' /\ DatabaseInv' /\ Forward
  BY AcquireStep, InsertStep, RollbackStep DEF WriteFails, DeadlockVictim, Inv
<1>2. UNCHANGED memory
  BY DEF Acquire, InsertVersion, WriteFails, DeadlockVictim, RolledBack
<1>3. ReloadInv' /\ ReloadType'
  BY <1>1, <1>2, ReloadForward DEF memory, Inv, DatabaseInv, TypeOK, ReloadType
<1>4. ChannelInv' /\ PhaseInv'
  BY <1>1, <1>2 DEF memory, Inv, ChannelInv, PhaseInv, Announced, Forward
<1>5. faults' \in 0..MaxFaults
  BY Fault DEF Acquire, InsertVersion, WriteFails, DeadlockVictim, Inv, TypeOK
<1>6. QED
  BY <1>1, <1>2, <1>3, <1>4, <1>5
     DEF memory, Inv, TypeOK, DatabaseType, ReloadType

\* The steps of the process, but for what they do to the reloads.
LEMMA ProcessInv ==
  ASSUME Inv, UNCHANGED database, ReloadInv', ReloadType', MemoryType', PhaseInv',
         channel' \in {channel, <<>>} \/ ChannelInv'
  PROVE  Inv'
<1>1. /\ Committed' = Committed /\ number' = number
      /\ DatabaseInv' /\ DatabaseType'
  BY DatabaseKept DEF Inv
<1>2. ChannelInv'
  BY <1>1 DEF Inv, ChannelInv, Announced
<1>3. QED
  BY <1>1, <1>2 DEF Inv, TypeOK, DatabaseType, MemoryType, ReloadType

LEMMA PhaseSteps ==
  ASSUME Inv, Listen \/ GoDeaf \/ Stop \/ ListenerClosed \/ Stopped
  PROVE  Inv'
<1>1. UNCHANGED <<database, heard, snapshot, load, trailing, failed>>
  BY DEF Listen, GoDeaf, Stop, ListenerClosed, Stopped
<1>2. ReloadInv' /\ ReloadType'
  BY <1>1, DatabaseKept, ReloadForward DEF Inv, DatabaseInv, TypeOK, ReloadType
<1>3. channel' \in {channel, <<>>} /\ channel' \in Seq(Notification)
  BY Unsent DEF Listen, GoDeaf, Stop, ListenerClosed, Stopped, Inv
<1>4. faults' \in 0..MaxFaults
  BY Fault DEF Listen, GoDeaf, Stop, ListenerClosed, Stopped, Inv, TypeOK
<1>5. PhaseInv'
  BY DEF Listen, GoDeaf, Stop, ListenerClosed, Stopped, Drained, PhaseInv, Inv
<1>6. MemoryType'
  BY <1>3, <1>4
     DEF Listen, GoDeaf, Stop, ListenerClosed, Stopped, MemoryType, Inv, TypeOK
<1>7. QED
  BY <1>1, <1>2, <1>3, <1>5, <1>6, ProcessInv

LEMMA ReloadSteps ==
  ASSUME Inv, Query \/ Reloaded \/ ReloadFails \/ Reconcile \/ FirstLoaded
  PROVE  Inv'
<1>1. ReloadInv' /\ ReloadType'
  BY QueryInv, ReloadedInv, ReloadFailsInv, ReconcileInv, FirstLoadedInv
<1>2. faults' \in 0..MaxFaults
  BY Fault DEF Query, Reloaded, ReloadFails, Reconcile, FirstLoaded, Inv, TypeOK
<1>3. UNCHANGED database /\ UNCHANGED channel /\ MemoryType'
  BY <1>2 DEF Query, Reloaded, ReloadFails, Reconcile, FirstLoaded, Inv, TypeOK, MemoryType
<1>4. Idle.at = 0
  BY Requests
<1>5. PhaseInv'
  <2>1. CASE Query
    BY <2>1 DEF Query, Queries, PhaseInv, Inv
  <2>2. CASE Reloaded
    BY <2>2 DEF Reloaded, Queries, PhaseInv, Inv
  <2>3. CASE ReloadFails \/ Reconcile \/ FirstLoaded
    BY <1>4, <2>3 DEF ReloadFails, Reconcile, FirstLoaded, PhaseInv, Inv
  <2>4. QED
    BY <2>1, <2>2, <2>3
<1>6. QED
  BY <1>1, <1>3, <1>5, ProcessInv

LEMMA HearSteps ==
  ASSUME Inv, Hear
  PROVE  Inv'
<1>1. ReloadInv' /\ ReloadType' /\ ChannelInv' /\ channel' \in Seq(Notification)
  BY HearInv
<1>2. PhaseInv' /\ MemoryType' /\ UNCHANGED database
  BY <1>1 DEF Hear, PhaseInv, Inv, TypeOK, MemoryType
<1>3. QED
  BY <1>1, <1>2, ProcessInv

LEMMA StartSteps ==
  ASSUME Inv, Start \/ Exit
  PROVE  Inv'
<1>1. heard' = {}
  BY DEF Start, Exit, Inv, PhaseInv
<1>2. ReloadInv' /\ ReloadType'
  BY <1>1, BlankInv DEF Start, Exit
<1>3. UNCHANGED database /\ channel' \in {channel, <<>>} /\ channel' \in Seq(Notification)
  BY Unsent DEF Start, Exit, Inv
<1>4. PhaseInv'
  BY <1>1, Requests DEF Start, Exit, PhaseInv, Inv
<1>5. MemoryType'
  BY <1>3 DEF Start, Exit, MemoryType, Inv, TypeOK
<1>6. QED
  BY <1>2, <1>3, <1>4, <1>5, ProcessInv

LEMMA InvNext == Inv /\ [Next]_vars => Inv'
<1> SUFFICES ASSUME Inv, [Next]_vars PROVE Inv'
  OBVIOUS
<1>1. CASE \E w \in Writers : Write(w)
  BY <1>1, CommitInv, WriteInv DEF Write
<1>2. CASE Listen \/ GoDeaf \/ Stop \/ ListenerClosed \/ Stopped
  BY <1>2, PhaseSteps
<1>3. CASE Query \/ Reloaded \/ ReloadFails \/ Reconcile \/ FirstLoaded
  BY <1>3, ReloadSteps
<1>4. CASE Hear
  BY <1>4, HearSteps
<1>5. CASE Start \/ Exit
  BY <1>5, StartSteps
<1>6. CASE UNCHANGED vars
  <2>1. UNCHANGED <<database, memory, faults>>
    BY <1>6 DEF vars
  <2>2. ReloadInv' /\ ReloadType'
    BY <2>1, DatabaseKept, ReloadForward DEF memory, Inv, DatabaseInv, TypeOK, ReloadType
  <2>3. PhaseInv' /\ MemoryType'
    BY <2>1 DEF memory, PhaseInv, MemoryType, Inv, TypeOK
  <2>4. QED
    BY <2>1, <2>2, <2>3, ProcessInv DEF memory
<1>7. QED
  BY <1>1, <1>2, <1>3, <1>4, <1>5, <1>6 DEF Next

LEMMA InvInit == Init => Inv
<1> SUFFICES ASSUME Init PROVE Inv
  OBVIOUS
<1>1. 0 \in Versions
  BY WritersFinite DEF Versions
<1>2. Committed = {} /\ number \in [Writers -> Versions] /\ \A w \in Writers : number[w] = 0
  BY <1>1 DEF Init, Committed
<1>3. TypeOK
  <2>1. /\ channel \in Seq(Notification) /\ heard \subseteq Writers
        /\ snapshot \in Snapshot /\ load \in Load /\ trailing \in Request
    BY EmptySeq, Requests DEF Init
  <2>2. faults \in 0..MaxFaults
    BY FaultsAssumption DEF Init
  <2>3. held \in [Writers -> 0..2]
    BY DEF Init
  <2>4. QED
    BY <1>2, <2>1, <2>2, <2>3 DEF Init, TypeOK
<1>4. Counted
  <2>1. IsLatest(0)
    BY <1>2 DEF IsLatest
  <2>2. Latest \in {number[w] : w \in Committed} \cup {0}
    BY <1>1, <2>1 DEF Latest, IsLatest
  <2>3. Latest = 0
    BY <1>2, <2>2
  <2>4. QED
    BY <1>1, <2>1, <2>3, WritersFinite DEF Counted
<1>5. LocksExclusive /\ Numbered
  BY <1>2 DEF Init, LocksExclusive, Held, Numbered
<1>6. Latest \in Nat
  BY <1>4, LatestIs
<1>7. ReloadInv
  BY <1>2, <1>6, Requests
     DEF Init, ReloadInv, Behind, LabelNotAhead, LoadInv, HeardInv, emptySnapshot, NoRequest
<1>8. ChannelInv /\ PhaseInv
  BY Requests DEF Init, ChannelInv, PhaseInv
<1>9. QED
  BY <1>3, <1>4, <1>5, <1>7, <1>8 DEF Inv, DatabaseInv

LEMMA InvHolds == Spec => []Inv
BY InvInit, InvNext, PTL DEF Spec

----------------------------------------------------------------------------
(* The theorems. *)

\* The variables keep their types; above all insertConfigVersion never runs out of the
\* numbers that its writers can give.
THEOREM TypeCorrect == Spec => []TypeOK
<1>1. Inv => TypeOK
  BY DEF Inv
<1>2. QED
  BY <1>1, InvHolds, PTL

\* A snapshot shows every edit up to the version it is labelled with, since the version
\* is read before the tables.
THEOREM LabelHolds == Spec => []LabelNotAhead
<1>1. Inv => LabelNotAhead
  BY DEF Inv, ReloadInv
<1>2. QED
  BY <1>1, InvHolds, PTL

\* Coalescing the requests that arrive during a load loses none of the edits heard of.
THEOREM HeardHolds == Spec => []HeardIsServed
<1>1. Inv => HeardIsServed
  BY DEF Inv, ReloadInv, HeardInv, HeardIsServed, Remembered, Served, Owned, Loading, Queued
<1>2. QED
  BY <1>1, InvHolds, PTL

\* After stop() no load is in flight and nothing is left that could begin one.
THEOREM QuietHolds == Spec => []QuietAfterStop
<1>1. Inv => QuietAfterStop
  BY DEF Inv, PhaseInv, QuietAfterStop
<1>2. QED
  BY <1>1, InvHolds, PTL

\* A living process never serves an older version or a table with an edit less.
THEOREM ForwardHolds == Spec => ServesForward
<1> DEFINE Moves == /\ snapshot.version <= snapshot'.version
                    /\ snapshot.providers \subseteq snapshot'.providers
                    /\ snapshot.policies \subseteq snapshot'.policies
<1>1. Inv /\ [Next]_vars => [phase' # "down" => Moves]_vars
  <2> SUFFICES ASSUME Inv, [Next]_vars, phase' # "down" PROVE Moves
    OBVIOUS
  <2>1. snapshot.version \in Nat
    BY Numbers DEF Inv, DatabaseInv
  <2>2. CASE Reloaded
    BY <2>2, LoadFinished, Numbers DEF Reloaded, performReload, Inv, DatabaseInv
  <2>3. CASE FirstLoaded
    BY <2>3, LoadFinished DEF FirstLoaded
  <2>4. CASE UNCHANGED snapshot
    BY <2>1, <2>4
  <2>5. QED
    BY <2>2, <2>3, <2>4
       DEF Next, Write, Acquire, InsertVersion, Commit, WriteFails, DeadlockVictim, RolledBack,
           Query, ReloadFails, LastGood, Hear, Reconcile, Start, Listen, GoDeaf, Stop,
           ListenerClosed, Stopped, Exit, memory, vars
<1>2. QED
  BY <1>1, InvHolds, PTL DEF ServesForward, Spec
=============================================================================
