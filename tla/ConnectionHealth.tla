-------------------------- MODULE ConnectionHealth --------------------------
(***************************************************************************)
(* The health of one provider connection: the sparse unhealthy verdict of  *)
(* packages/db/src/provider-health.ts, the probe jobs that make and clear  *)
(* it (provider-jobs.ts, worker-provider-connection-probe.ts), the gateway *)
(* that filters by it and asks for probes, and the console's edits.        *)
(*                                                                         *)
(* A probe job runs under the rules of JobQueue, here reduced to what its  *)
(* handler can observe: a lost lease leaves a first attempt running beside *)
(* its retry.  Every transaction that enqueues or records locks the        *)
(* provider's row, so each is one step.  Delays are left out: a pending    *)
(* job may start at any time.  A settled job's id is used again.           *)
(***************************************************************************)
EXTENDS Integers, FiniteSets

CONSTANTS
  JobIds,          \* bound: probe jobs that exist at a time
  MaxAttempts,     \* jobs.max_attempts
  MaxFailures,     \* consecutive_failures, above which the retry delay is the same
  MaxEdits,        \* bound: console edits and token refreshes
  MaxDisruptions,  \* bound: disruptions of a probe's run
  Disruptions      \* the edits and disruptions that may happen

ASSUME BoundsAssumption ==
  /\ IsFiniteSet(JobIds) /\ MaxAttempts \in Nat \ {0} /\ MaxFailures \in Nat \ {0}
  /\ MaxEdits \in Nat /\ MaxDisruptions \in Nat
ASSUME DisruptionsAssumption ==
  Disruptions \subseteq
    {"edit", "rename", "refresh", "settings",
     "unread", "inconclusive", "throw", "lease", "report"}

VARIABLES
  config,    \* the rows of the provider and of the connection
  verdict,   \* provider_health_summary, with what the last failure was about
  jobs,      \* the connection's probe jobs, with the events they recorded
  probes,    \* the attempts that workers are running
  working,   \* whether the provider accepts the credential
  owes,      \* the console has still to enqueue the probe of its last edit
  edits, disruptions

vars == <<config, verdict, jobs, probes, working, owes, edits, disruptions>>

Numbers == 1..MaxAttempts
Versions == 0..MaxEdits

Config == [provider : BOOLEAN, connection : BOOLEAN,  \* enabled
           stamp : Versions,   \* providers.updated_at
           url : Versions,     \* providers.base_url
           grant : Versions,   \* the credential the operator gave
           token : Versions]   \* the stored secret, which a refresh replaces

\* What a probe remembers of config; without a credential it compares none.
Unread == -1
Snapshot == [stamp : Versions, url : Versions, grant : Versions,
             token : Versions \cup {Unread}]

\* A blind failure is one of a probe that could not read the credential's row.
Verdict == [failures : 0..MaxFailures, url : Versions, grant : Versions, blind : BOOLEAN]

Job == [status : {"free", "pending", "running"}, attempt : 0..MaxAttempts, events : 0..MaxAttempts]

\* A handler run: the provider and credential it read, and the outcome it saw.
Probe == [pc : {"none", "claimed", "probing", "judged", "reporting"},
          seen : Snapshot, ok : BOOLEAN]

TypeOK ==
  /\ config \in Config /\ verdict \in Verdict
  /\ jobs \in [JobIds -> Job] /\ probes \in [JobIds \X Numbers -> Probe]
  /\ working \in BOOLEAN /\ owes \in BOOLEAN
  /\ edits \in Versions /\ disruptions \in 0..MaxDisruptions

NewConfig == [provider |-> TRUE, connection |-> TRUE, stamp |-> 0, url |-> 0,
              grant |-> 0, token |-> 0]
NothingSeen == [stamp |-> 0, url |-> 0, grant |-> 0, token |-> 0]
NoVerdict == [failures |-> 0, url |-> 0, grant |-> 0, blind |-> FALSE]
FreeJob == [status |-> "free", attempt |-> 0, events |-> 0]
NewJob == [FreeJob EXCEPT !.status = "pending"]
NoProbe == [pc |-> "none", seen |-> NothingSeen, ok |-> FALSE]

Init ==
  /\ config = NewConfig /\ verdict = NoVerdict
  /\ jobs = [j \in JobIds |-> FreeJob]
  /\ probes = [a \in JobIds \X Numbers |-> NoProbe]
  /\ working \in BOOLEAN /\ owes = FALSE
  /\ edits = 0 /\ disruptions = 0

Enabled == config.provider /\ config.connection
Unhealthy == verdict.failures > 0

Pending(table) == {j \in JobIds : table[j].status = "pending"}
Running(table) == {j \in JobIds : table[j].status = "running"}
Free(table) == {j \in JobIds : /\ table[j].status = "free"
                               /\ \A n \in Numbers : probes[<<j, n>>].pc = "none"}

\* The edits and disruptions of this kind, each bounded by its counter.
Edit(kind) == kind \in Disruptions /\ edits < MaxEdits /\ edits' = edits + 1
Disrupted(kind) ==
  kind \in Disruptions /\ disruptions < MaxDisruptions /\ disruptions' = disruptions + 1

----------------------------------------------------------------------------
(* The health tables. *)

\* Its events stay while an attempt of it may still look for them.
Settled(job) == [FreeJob EXCEPT !.events = job.events]

\* cancelPendingConnectionProbeJobs.
Canceled(table, except) ==
  [j \in JobIds |-> IF table[j].status = "pending" /\ j \notin except
                    THEN Settled(table[j]) ELSE table[j]]

\* clearProviderConnectionHealthWithClient.
Clear == verdict' = NoVerdict /\ jobs' = Canceled(jobs, {})

\* Where a new job's row can go; the guard is the bound JobIds.
Inserted(table, new) == \E j \in Free(table) : new = [table EXCEPT ![j] = NewJob]

\* enqueueProviderConnectionProbeJob.
EnqueueProbe(reset) ==
  LET table == IF reset THEN Canceled(jobs, {}) ELSE jobs
      active == Pending(table) \cup IF reset THEN {} ELSE Running(table)
  IN  IF ~Enabled THEN UNCHANGED <<verdict, jobs>>
      ELSE /\ verdict' = IF reset THEN NoVerdict ELSE verdict
           /\ IF active # {} THEN jobs' = table ELSE Inserted(table, jobs')

\* Mutant: nothing is scheduled when the failures are no longer the first.
ScheduledOnce(table, new) == IF Unhealthy THEN new = table ELSE Inserted(table, new)

\* enqueueScheduledConnectionProbe.
Scheduled(table, new) == IF Pending(table) # {} THEN new = table ELSE Inserted(table, new)

Failed(seen) ==
  [failures |-> IF verdict.failures < MaxFailures THEN verdict.failures + 1 ELSE MaxFailures,
   url |-> seen.url, grant |-> seen.grant, blind |-> seen.token = Unread]

\* Mutant: the job's first event does not stop a second one.
IsDuplicateNever(j) == FALSE

IsDuplicate(j) == jobs[j].events > 0

\* recordProviderConnectionProbeResultWithClient.
Record(j, probe) ==
  LET table == [jobs EXCEPT ![j].events = @ + 1]
  IN  IF IsDuplicate(j) THEN UNCHANGED <<verdict, jobs>>
      ELSE IF probe.ok THEN verdict' = NoVerdict /\ jobs' = Canceled(table, {j})
      ELSE verdict' = Failed(probe.seen) /\ Scheduled(table, jobs')

----------------------------------------------------------------------------
(* The probe handler, and what the job table makes of its end. *)

Goes(j, n, pc) == probes' = [probes EXCEPT ![<<j, n>>] = [NoProbe EXCEPT !.pc = pc]]
Ends(j, n) == probes' = [probes EXCEPT ![<<j, n>>] = NoProbe]

Claim(j) ==
  LET n == jobs[j].attempt + 1
  IN  /\ jobs[j].status = "pending"
      /\ jobs' = [jobs EXCEPT ![j].status = "running", ![j].attempt = n]
      /\ Goes(j, n, "claimed")
      /\ UNCHANGED <<config, verdict, working, owes, edits, disruptions>>

\* The probe has seen what config says now, but for the secret, which is token.
Sees(j, n, pc, token) ==
  probes' = [probes EXCEPT ![<<j, n>>] = [@ EXCEPT !.pc = pc, !.seen =
    [stamp |-> config.stamp, url |-> config.url, grant |-> config.grant, token |-> token]]]

\* readProviderSnapshot and readProbeCredential; a disabled one cancels the job.
Read(j, n) ==
  /\ probes[<<j, n>>].pc = "claimed"
  /\ IF Enabled THEN Sees(j, n, "probing", config.token) ELSE Goes(j, n, "reporting")
  /\ UNCHANGED <<config, verdict, jobs, working, owes, edits, disruptions>>

\* The credential's row cannot be read.  That is a failed probe, of no credential.
ReadFails(j, n) ==
  /\ probes[<<j, n>>].pc = "claimed" /\ config.provider /\ Disrupted("unread")
  /\ Sees(j, n, "judged", Unread)
  /\ UNCHANGED <<config, verdict, jobs, working, owes, edits>>

\* Up to three models are tried; none may be left to try.
Judge(j, n) ==
  /\ probes[<<j, n>>].pc = "probing"
  /\ \/ /\ probes' = [probes EXCEPT ![<<j, n>>] = [@ EXCEPT !.pc = "judged", !.ok = working]]
        /\ UNCHANGED disruptions
     \/ Goes(j, n, "reporting") /\ Disrupted("inconclusive")
  /\ UNCHANGED <<config, verdict, jobs, working, owes, edits>>

\* Mutant: the secret that was probed is not compared.
IsCurrentProvider(seen) == Enabled /\ seen.stamp = config.stamp /\ seen.url = config.url

\* Mutant: whether the rows are still enabled is not asked.
IsCurrentAnyState(seen) ==
  seen.stamp = config.stamp /\ seen.url = config.url /\ seen.token = config.token

\* providerSnapshotIsCurrent.
IsCurrent(seen) ==
  /\ config.provider /\ seen.stamp = config.stamp /\ seen.url = config.url
  /\ seen.token # Unread => config.connection /\ seen.token = config.token

\* persistProbeResult.
Persist(j, n) ==
  /\ probes[<<j, n>>].pc = "judged"
  /\ IF IsCurrent(probes[<<j, n>>].seen) THEN Record(j, probes[<<j, n>>])
     ELSE UNCHANGED <<verdict, jobs>>
  /\ Goes(j, n, "reporting")
  /\ UNCHANGED <<config, working, owes, edits, disruptions>>

\* The fence of the job table.
Holds(j, n) == jobs[j].status = "running" /\ jobs[j].attempt = n

\* Mutant: one attempt too many.
GivenUpLate(job) ==
  IF job.attempt <= MaxAttempts THEN [job EXCEPT !.status = "pending"] ELSE Settled(job)

GivenUp(job) ==
  IF job.attempt < MaxAttempts THEN [job EXCEPT !.status = "pending"] ELSE Settled(job)

\* completeJob or cancelJob.
Report(j, n) ==
  /\ probes[<<j, n>>].pc = "reporting" /\ Ends(j, n)
  /\ jobs' = IF Holds(j, n) THEN [jobs EXCEPT ![j] = Settled(@)] ELSE jobs
  /\ UNCHANGED <<config, verdict, working, owes, edits, disruptions>>

\* A database error in the handler, or in the store call that follows it: failJob.
Fails(j, n) ==
  /\ \/ probes[<<j, n>>].pc \in {"claimed", "probing", "judged"} /\ Disrupted("throw")
     \/ probes[<<j, n>>].pc = "reporting" /\ Disrupted("report")
  /\ Ends(j, n)
  /\ jobs' = IF Holds(j, n) THEN [jobs EXCEPT ![j] = GivenUp(@)] ELSE jobs
  /\ UNCHANGED <<config, verdict, working, owes, edits>>

\* The lease expires while the handler runs on, or its worker has died.
LoseLease(j) ==
  /\ jobs[j].status = "running" /\ Disrupted("lease")
  /\ jobs' = [jobs EXCEPT ![j] = GivenUp(@)]
  /\ \/ UNCHANGED probes
     \/ Ends(j, jobs[j].attempt)
  /\ UNCHANGED <<config, verdict, working, owes, edits>>

----------------------------------------------------------------------------
(* The gateway. *)

\* recordCandidateHealthFailure: a request met a credential failure.  The unhealthy set
\* is cached for a while, so the connection may be routed although it is unhealthy.
GatewayFailure ==
  /\ ~working /\ EnqueueProbe(FALSE)
  /\ UNCHANGED <<config, probes, working, owes, edits, disruptions>>

\* refreshProviderOAuthTokenWithLock stores a new token.
RefreshToken ==
  /\ Enabled /\ Edit("refresh")
  /\ config' = [config EXCEPT !.token = edits']
  /\ UNCHANGED <<verdict, jobs, probes, working, owes, disruptions>>

----------------------------------------------------------------------------
(* The console: an edit is one transaction, the probe it asks for another. *)

\* saveProviderApiKey, setProviderApiKeyEnabled, setProviderEnabled, and updateProvider
\* with another base URL: the verdict is cleared with the edit.
EditAndClear ==
  /\ Edit("edit") /\ Clear
  /\ \/ config' = [config EXCEPT !.grant = edits', !.token = edits']
     \/ config' = [config EXCEPT !.connection = ~@]
     \/ config' = [config EXCEPT !.provider = ~@, !.stamp = edits']
     \/ config' = [config EXCEPT !.url = edits', !.stamp = edits']
  /\ owes' = TRUE
  /\ UNCHANGED <<probes, working, disruptions>>

\* updateProvider with the same base URL touches updated_at and nothing else.
Rename ==
  /\ Edit("rename")
  /\ config' = [config EXCEPT !.stamp = edits']
  /\ UNCHANGED <<verdict, jobs, probes, working, owes, disruptions>>

\* updateProviderApiKeySettings leaves the verdict to the probe's transaction.
SaveSettings ==
  /\ Edit("settings")
  /\ \E enabled \in BOOLEAN : config' = [config EXCEPT !.connection = enabled]
  /\ owes' = TRUE
  /\ UNCHANGED <<verdict, jobs, probes, working, disruptions>>

\* The route handler's second transaction, which is lost if the console stops.
FollowUp ==
  /\ owes /\ owes' = FALSE
  /\ EnqueueProbe(TRUE) \/ UNCHANGED <<verdict, jobs>>
  /\ UNCHANGED <<config, probes, working, edits, disruptions>>

\* The operator's re-check.
ManualProbe ==
  /\ EnqueueProbe(FALSE)
  /\ UNCHANGED <<config, probes, working, owes, edits, disruptions>>

UpstreamChanges ==
  /\ working' = ~working
  /\ UNCHANGED <<config, verdict, jobs, probes, owes, edits, disruptions>>

Handler(j, n) == Read(j, n) \/ Judge(j, n) \/ Persist(j, n) \/ Report(j, n)

Next ==
  \/ \E j \in JobIds :
       \/ Claim(j) \/ LoseLease(j)
       \/ \E n \in Numbers : Handler(j, n) \/ ReadFails(j, n) \/ Fails(j, n)
  \/ GatewayFailure \/ RefreshToken
  \/ EditAndClear \/ Rename \/ SaveSettings \/ FollowUp \/ ManualProbe
  \/ UpstreamChanges

Spec == Init /\ [][Next]_vars

\* A pending job is claimed and its attempt ends: JobQueue's EveryJobSettles.
Fairness ==
  \A j \in JobIds : WF_vars(Claim(j)) /\ \A n \in Numbers : WF_vars(Handler(j, n))

FairSpec == Spec /\ Fairness

----------------------------------------------------------------------------
(* Properties. *)

\* A connection is held to be unhealthy only for the base URL it has now, and for the
\* credential it has now, unless the last failure was that of a probe that had not read the
\* credential: no other verdict survives their change, and no other probe brings it back.
VerdictIsCurrent ==
  Unhealthy => verdict.url = config.url /\ (verdict.grant = config.grant \/ verdict.blind)

\* A job records one event, however many of its attempts reach the end.
OneEventPerJob == \A j \in JobIds : jobs[j].events <= 1

Blames == verdict' # verdict /\ verdict'.failures > 0

\* A probe that was under way when its provider was disabled does not blame the connection,
\* nor, if it had read the credential, when the connection was.
DisabledIsNotBlamed == [][Blames => config.provider /\ (config.connection \/ verdict'.blind)]_vars

\* "A stale or disabled probe cannot commit state": who is blamed is enabled, and it is for
\* the base URL and the credential that it has.
StaleCommitsNothing ==
  [][Blames => Enabled /\ verdict'.url = config.url /\ verdict'.grant = config.grant]_vars

\* An unhealthy connection that may route again is being probed or will be: the gateway
\* sends it no requests, so nothing else would ever find that it recovered.
ProbesContinue == Unhealthy /\ Enabled => Pending(jobs) \cup Running(jobs) # {}

\* A connection that works again, and is left enabled, routes again.
Recovers == <>[](working /\ Enabled) => <>[](~Unhealthy)
=============================================================================
