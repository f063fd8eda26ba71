----------------------- MODULE ConnectionHealth_proofs -----------------------
(***************************************************************************)
(* What ConnectionHealth guarantees for any number of probe jobs, retries  *)
(* and edits: typing, one event per job, and verdicts that are about the   *)
(* connection as it is now and never about one that was disabled, but for  *)
(* those of a probe that could not read its credential.                    *)
(*                                                                         *)
(* The inductive invariant rests on one fact about versions: a secret is   *)
(* replaced by one nobody has seen before, so a probe that finds the       *)
(* secret it read still stored was asking about today's credential.        *)
(***************************************************************************)
EXTENDS ConnectionHealth, TLAPS

Attempts == JobIds \X Numbers

\* A pending job has an attempt left, a running one is in one; no job has two events.
GoodJob(job) ==
  /\ job \in Job /\ job.events <= 1
  /\ job.status = "pending" => job.attempt < MaxAttempts
  /\ job.status = "running" => job.attempt # 0

GoodTable(table) == table \in [JobIds -> Job] /\ \A j \in JobIds : GoodJob(table[j])

\* Every version in use is one that an edit has given out.
Dated == /\ config.stamp <= edits /\ config.url <= edits
         /\ config.grant <= edits /\ config.token <= edits

\* The same for what a probe has seen; its secret, while stored, dates its grant.
GoodProbe(probe) ==
  /\ probe.seen.token <= edits
  /\ probe.pc \in {"probing", "judged"} /\ probe.seen.token = config.token
       => probe.seen.grant = config.grant

ProbesDated == \A a \in Attempts : GoodProbe(probes[a])

Inv == TypeOK /\ GoodTable(jobs) /\ Dated /\ ProbesDated

----------------------------------------------------------------------------
(* The job table. *)

LEMMA FreshJobs ==
  GoodJob(FreeJob) /\ GoodJob(NewJob) /\ FreeJob \in Job /\ NewJob \in Job
BY BoundsAssumption DEF FreeJob, NewJob, GoodJob, Job

\* A settled job is free and keeps its events.
LEMMA SettledGood ==
  ASSUME NEW job, GoodJob(job)
  PROVE  GoodJob(Settled(job))
BY BoundsAssumption DEF Settled, FreeJob, GoodJob, Job

\* A job that is given up is pending only with an attempt left.
LEMMA GivenUpGood ==
  ASSUME NEW job, GoodJob(job)
  PROVE  GoodJob(GivenUp(job))
<1>1. CASE job.attempt < MaxAttempts
  BY <1>1 DEF GivenUp, GoodJob, Job
<1>2. CASE ~ (job.attempt < MaxAttempts)
  BY <1>2, SettledGood DEF GivenUp
<1>3. QED
  BY <1>1, <1>2

\* Replacing one row by a good one leaves a good table.
LEMMA RowReplaced ==
  ASSUME NEW table, GoodTable(table), NEW j \in JobIds, NEW job, GoodJob(job)
  PROVE  GoodTable([table EXCEPT ![j] = job])
BY DEF GoodTable, GoodJob

LEMMA CanceledGood ==
  ASSUME NEW table, GoodTable(table), NEW except
  PROVE  GoodTable(Canceled(table, except))
BY SettledGood DEF Canceled, GoodTable, GoodJob

LEMMA InsertedGood ==
  ASSUME NEW table, GoodTable(table), NEW new, Inserted(table, new)
  PROVE  GoodTable(new)
<1>1. PICK j \in JobIds : new = [table EXCEPT ![j] = NewJob]
  BY DEF Inserted, Free
<1>2. QED
  BY <1>1, FreshJobs, RowReplaced

\* Enqueueing a probe keeps the table good, and can only forgive.
LEMMA EnqueueProbeGood ==
  ASSUME TypeOK, GoodTable(jobs), NEW reset \in BOOLEAN, EnqueueProbe(reset)
  PROVE  GoodTable(jobs') /\ verdict' \in {verdict, NoVerdict}
<1> DEFINE table == IF reset THEN Canceled(jobs, {}) ELSE jobs
<1>1. GoodTable(table)
  BY CanceledGood
<1>2. jobs' = jobs \/ jobs' = table \/ Inserted(table, jobs')
  BY DEF EnqueueProbe
<1>3. verdict' \in {verdict, NoVerdict}
  BY DEF EnqueueProbe
<1>4. QED
  <2>1. CASE jobs' = jobs
    BY <2>1, <1>3
  <2>2. CASE jobs' = table
    BY <2>2, <1>1, <1>3
  <2>3. CASE Inserted(table, jobs')
    BY <2>3, <1>1, <1>3, InsertedGood
  <2>4. QED
    BY <1>2, <2>1, <2>2, <2>3

\* Recording a result counts one event at most, and blames what the probe has seen.
LEMMA RecordGood ==
  ASSUME TypeOK, GoodTable(jobs), NEW j \in JobIds, NEW probe, Record(j, probe)
  PROVE  /\ GoodTable(jobs')
         /\ verdict' \in {verdict, NoVerdict, Failed(probe.seen)}
<1> DEFINE table == [jobs EXCEPT ![j].events = @ + 1]
<1>1. verdict' \in {verdict, NoVerdict, Failed(probe.seen)}
  BY DEF Record
<1>2. CASE IsDuplicate(j)
  BY <1>1, <1>2 DEF Record
<1>3. CASE ~ IsDuplicate(j)
  <2>1. GoodJob([jobs[j] EXCEPT !.events = @ + 1])
    BY <1>3, BoundsAssumption DEF IsDuplicate, GoodTable, GoodJob, Job
  <2>2. GoodTable(table)
    BY <2>1, RowReplaced
  <2>3. jobs' = Canceled(table, {j}) \/ jobs' = table \/ Inserted(table, jobs')
    BY <1>3 DEF Record, Scheduled
  <2>4. QED
    BY <1>1, <2>2, <2>3, CanceledGood, InsertedGood
<1>4. QED
  BY <1>2, <1>3

----------------------------------------------------------------------------
(* The probes and the versions. *)

LEMMA EmptyProbe ==
  ASSUME TypeOK
  PROVE  /\ NoProbe \in Probe /\ NothingSeen \in Snapshot
         /\ \A pc \in {"claimed", "reporting"} :
              /\ [NoProbe EXCEPT !.pc = pc] \in Probe
              /\ GoodProbe([NoProbe EXCEPT !.pc = pc])
              /\ [NoProbe EXCEPT !.pc = pc].seen.token # Unread
         /\ GoodProbe(NoProbe) /\ NoProbe.seen.token # Unread
<1>1. 0 \in Versions /\ 0 # Unread /\ 0 <= edits
  BY BoundsAssumption DEF TypeOK, Versions, Unread
<1>2. NothingSeen \in Snapshot /\ NothingSeen.token = 0
  BY <1>1 DEF NothingSeen, Snapshot
<1>3. NoProbe \in Probe /\ NoProbe.seen = NothingSeen /\ NoProbe.pc = "none"
  BY <1>2 DEF NoProbe, Probe
<1>4. ASSUME NEW pc \in {"claimed", "reporting"}
      PROVE  LET probe == [NoProbe EXCEPT !.pc = pc]
             IN  probe \in Probe /\ GoodProbe(probe) /\ probe.seen.token # Unread
  <2>1. /\ [NoProbe EXCEPT !.pc = pc].pc = pc
        /\ [NoProbe EXCEPT !.pc = pc].seen = NothingSeen
        /\ [NoProbe EXCEPT !.pc = pc] \in Probe
    BY <1>3 DEF Probe
  <2>2. QED
    BY <2>1, <1>1, <1>2 DEF GoodProbe
<1>5. GoodProbe(NoProbe) /\ NoProbe.seen.token # Unread
  BY <1>1, <1>2, <1>3 DEF GoodProbe
<1>6. QED
  BY <1>2, <1>3, <1>4, <1>5

\* While the configuration stays, only the attempt that takes a step changes.
LEMMA ProbeReplaced ==
  ASSUME Inv, NEW a \in Attempts, NEW probe \in Probe, GoodProbe(probe),
         probes' = [probes EXCEPT ![a] = probe], config' = config, edits' = edits
  PROVE  probes' \in [Attempts -> Probe] /\ Dated' /\ ProbesDated'
BY DEF Inv, TypeOK, Dated, ProbesDated, GoodProbe, Attempts

\* What an edit or a refresh may do: a new secret is one that nobody has seen, and
\* the grant changes only with it.
Edited ==
  /\ edits' = edits + 1 /\ edits' \in Versions /\ config' \in Config /\ Dated'
  /\ \/ config'.token = edits'
     \/ config'.token = config.token /\ config'.grant = config.grant

LEMMA EditedProbes ==
  ASSUME Inv, Edited, probes' = probes
  PROVE  probes' \in [Attempts -> Probe] /\ ProbesDated'
<1>1. ASSUME NEW a \in Attempts
      PROVE  GoodProbe(probes[a])'
  <2>1. GoodProbe(probes[a]) /\ probes[a].seen.token \in Int /\ edits \in Int
    BY DEF Inv, ProbesDated, TypeOK, Probe, Snapshot, Versions, Attempts, Unread
  <2>2. probes[a].seen.token # edits'
    BY <2>1 DEF Edited, GoodProbe
  <2>3. QED
    BY <2>1, <2>2 DEF Edited, GoodProbe
<1>2. QED
  BY <1>1 DEF Inv, TypeOK, ProbesDated, Attempts

\* Each kind of edit is one.
LEMMA ConfigEdited ==
  ASSUME Inv, edits < MaxEdits, edits' = edits + 1,
         \/ config' = [config EXCEPT !.token = edits']
         \/ config' = [config EXCEPT !.grant = edits', !.token = edits']
         \/ config' = [config EXCEPT !.connection = ~@]
         \/ config' = [config EXCEPT !.provider = ~@, !.stamp = edits']
         \/ config' = [config EXCEPT !.url = edits', !.stamp = edits']
         \/ config' = [config EXCEPT !.stamp = edits']
         \/ \E enabled \in BOOLEAN : config' = [config EXCEPT !.connection = enabled]
  PROVE  Edited
<1>1. edits' \in Versions /\ edits \in Int /\ config \in Config /\ edits < edits'
  BY BoundsAssumption DEF Inv, TypeOK, Versions
<1>2. config.stamp \in Int /\ config.url \in Int /\ config.grant \in Int /\ config.token \in Int
  BY <1>1 DEF Config, Versions
<1>3. config' \in Config
  BY <1>1 DEF Config
<1>4. /\ config'.stamp \in {config.stamp, edits'} /\ config'.url \in {config.url, edits'}
      /\ config'.token \in {config.token, edits'}
      /\ config'.grant = config.grant \/ (config'.grant = edits' /\ config'.token = edits')
  BY <1>1 DEF Config
<1>5. Dated'
  BY <1>1, <1>2, <1>4 DEF Dated, Inv
<1>6. QED
  BY <1>1, <1>3, <1>4, <1>5 DEF Edited

----------------------------------------------------------------------------
(* Every step preserves the invariant. *)

LEMMA NoVerdictType == NoVerdict \in Verdict
<1>1. 0 \in 0..MaxFailures /\ 0 \in Versions
  BY BoundsAssumption DEF Versions
<1>2. QED
  BY <1>1 DEF NoVerdict, Verdict

LEMMA VerdictType ==
  ASSUME TypeOK, NEW seen \in Snapshot, NEW to \in {verdict, NoVerdict, Failed(seen)}
  PROVE  to \in Verdict
<1>1. NoVerdict \in Verdict /\ verdict \in Verdict
  BY BoundsAssumption DEF NoVerdict, Verdict, Versions, TypeOK
<1>2. Failed(seen) \in Verdict
  BY BoundsAssumption DEF Failed, Verdict, Snapshot, TypeOK
<1>3. QED
  BY <1>1, <1>2

LEMMA DisruptedType ==
  ASSUME TypeOK, NEW kind, Disrupted(kind)
  PROVE  disruptions' \in 0..MaxDisruptions
BY BoundsAssumption DEF TypeOK, Disrupted

LEMMA ClaimInv ==
  ASSUME Inv, NEW j \in JobIds, Claim(j)
  PROVE  Inv'
<1> DEFINE n == jobs[j].attempt + 1
           job == [jobs[j] EXCEPT !.status = "running", !.attempt = n]
<1>1. n \in Numbers /\ GoodJob(job)
  BY BoundsAssumption DEF Inv, Claim, GoodTable, GoodJob, Job, Numbers
<1>2. jobs' = [jobs EXCEPT ![j] = job]
  BY DEF Claim, Inv, GoodTable
<1>3. GoodTable(jobs')
  BY <1>1, <1>2, RowReplaced DEF Inv
<1>4. probes' \in [Attempts -> Probe] /\ Dated' /\ ProbesDated'
  BY <1>1, EmptyProbe, ProbeReplaced DEF Claim, Goes, Attempts, Inv
<1>5. QED
  BY <1>3, <1>4 DEF Claim, Inv, TypeOK, GoodTable, Attempts

LEMMA LoseLeaseInv ==
  ASSUME Inv, NEW j \in JobIds, LoseLease(j)
  PROVE  Inv'
<1>1. GoodTable(jobs')
  BY GivenUpGood, RowReplaced DEF Inv, LoseLease, GoodTable
<1>2. <<j, jobs[j].attempt>> \in Attempts
  BY BoundsAssumption DEF Inv, LoseLease, GoodTable, GoodJob, Job, Numbers, Attempts
<1>3. probes' \in [Attempts -> Probe] /\ Dated' /\ ProbesDated'
  <2>1. CASE UNCHANGED probes
    BY <2>1 DEF LoseLease, Inv, TypeOK, Attempts, Dated, ProbesDated, GoodProbe
  <2>2. CASE Ends(j, jobs[j].attempt)
    BY <1>2, <2>2, EmptyProbe, ProbeReplaced DEF LoseLease, Ends, Inv
  <2>3. QED
    BY <2>1, <2>2 DEF LoseLease
<1>4. disruptions' \in 0..MaxDisruptions
  BY DisruptedType DEF Inv, LoseLease
<1>5. QED
  BY <1>1, <1>3, <1>4 DEF LoseLease, Inv, TypeOK, GoodTable, Attempts

\* What a probe sees is today's configuration.
LEMMA SeesInv ==
  ASSUME Inv, NEW a \in Attempts, NEW pc \in {"probing", "judged"},
         NEW token \in {config.token, Unread}
  PROVE  LET probe == [probes[a] EXCEPT !.pc = pc, !.seen =
                         [stamp |-> config.stamp, url |-> config.url,
                          grant |-> config.grant, token |-> token]]
         IN  probe \in Probe /\ GoodProbe(probe)
<1> DEFINE seen == [stamp |-> config.stamp, url |-> config.url,
                    grant |-> config.grant, token |-> token]
           probe == [probes[a] EXCEPT !.pc = pc, !.seen = seen]
<1>1. seen \in Snapshot
  BY DEF Inv, TypeOK, Config, Snapshot
<1>2. probes[a] \in Probe
  BY DEF Inv, TypeOK, Attempts
<1>3. probe \in Probe /\ probe.seen = seen
  BY <1>1, <1>2 DEF Probe
<1>4. seen.token <= edits /\ seen.grant = config.grant
  BY BoundsAssumption DEF Inv, Dated, TypeOK, Config, Versions, Unread
<1>5. QED
  BY <1>3, <1>4 DEF GoodProbe

LEMMA ProbeStepInv ==
  ASSUME Inv, NEW j \in JobIds, NEW n \in Numbers,
         Read(j, n) \/ ReadFails(j, n) \/ Judge(j, n)
  PROVE  Inv'
<1> DEFINE a == <<j, n>>
<1>1. a \in Attempts
  BY DEF Attempts
<1>2. probes' \in [Attempts -> Probe] /\ Dated' /\ ProbesDated'
  <2>1. CASE \E pc \in {"probing", "judged"}, token \in {config.token, Unread} :
               Sees(j, n, pc, token)
    <3>1. PICK pc \in {"probing", "judged"}, token \in {config.token, Unread} :
            Sees(j, n, pc, token)
      BY <2>1
    <3>2. QED
      BY <1>1, <3>1, SeesInv, ProbeReplaced DEF Sees, Read, ReadFails, Judge
  <2>2. CASE Goes(j, n, "reporting")
    BY <1>1, <2>2, EmptyProbe, ProbeReplaced DEF Goes, Inv, Read, ReadFails, Judge
  <2>3. CASE Judge(j, n) /\ ~ Goes(j, n, "reporting")
    <3> DEFINE probe == [probes[a] EXCEPT !.pc = "judged", !.ok = working]
    <3>1. probes' = [probes EXCEPT ![a] = probe] /\ probes[a].pc = "probing"
      BY <2>3 DEF Judge
    <3>2. probes[a] \in Probe /\ GoodProbe(probes[a]) /\ working \in BOOLEAN
      BY <1>1 DEF Inv, TypeOK, ProbesDated, Attempts
    <3>3. probe \in Probe /\ probe.seen = probes[a].seen
      BY <3>2 DEF Probe
    <3>4. GoodProbe(probe)
      BY <3>1, <3>2, <3>3 DEF GoodProbe
    <3>5. QED
      BY <1>1, <2>3, <3>1, <3>3, <3>4, ProbeReplaced DEF Judge
  <2>4. QED
    BY <2>1, <2>2, <2>3 DEF Read, ReadFails
<1>3. disruptions' \in 0..MaxDisruptions
  BY DisruptedType DEF Inv, TypeOK, Read, ReadFails, Judge
<1>4. QED
  BY <1>2, <1>3 DEF Read, ReadFails, Judge, Inv, TypeOK, GoodTable, Attempts

LEMMA PersistInv ==
  ASSUME Inv, NEW j \in JobIds, NEW n \in Numbers, Persist(j, n)
  PROVE  Inv'
<1> DEFINE a == <<j, n>>
           seen == probes[a].seen
<1>1. a \in Attempts /\ seen \in Snapshot
  BY DEF Attempts, Inv, TypeOK, Probe
<1>2. GoodTable(jobs') /\ verdict' \in {verdict, NoVerdict, Failed(seen)}
  BY RecordGood DEF Inv, Persist
<1>3. verdict' \in Verdict
  BY <1>1, <1>2, VerdictType DEF Inv
<1>4. probes' \in [Attempts -> Probe] /\ Dated' /\ ProbesDated'
  BY <1>1, EmptyProbe, ProbeReplaced DEF Persist, Goes, Inv
<1>5. QED
  BY <1>2, <1>3, <1>4 DEF Persist, Inv, TypeOK, GoodTable, Attempts

LEMMA EndInv ==
  ASSUME Inv, NEW j \in JobIds, NEW n \in Numbers, Report(j, n) \/ Fails(j, n)
  PROVE  Inv'
<1>1. GoodTable(jobs')
  <2>1. GoodTable(jobs) /\ GoodJob(jobs[j])
    BY DEF Inv, GoodTable
  <2>2. GoodTable([jobs EXCEPT ![j] = Settled(jobs[j])])
        /\ GoodTable([jobs EXCEPT ![j] = GivenUp(jobs[j])])
    BY <2>1, SettledGood, GivenUpGood, RowReplaced
  <2>3. QED
    BY <2>1, <2>2 DEF Report, Fails
<1>2. probes' \in [Attempts -> Probe] /\ Dated' /\ ProbesDated'
  BY EmptyProbe, ProbeReplaced DEF Report, Fails, Ends, Attempts, Inv
<1>3. disruptions' \in 0..MaxDisruptions
  BY DisruptedType DEF Inv, TypeOK, Report, Fails
<1>4. QED
  BY <1>1, <1>2, <1>3 DEF Report, Fails, Inv, TypeOK, GoodTable, Attempts

\* The gateway's request, the operator's re-check and the console's second transaction.
LEMMA EnqueueInv ==
  ASSUME Inv, GatewayFailure \/ ManualProbe \/ FollowUp
  PROVE  Inv'
<1>1. GoodTable(jobs') /\ verdict' \in {verdict, NoVerdict}
  BY EnqueueProbeGood DEF Inv, GatewayFailure, ManualProbe, FollowUp
<1>2. verdict' \in Verdict
  BY <1>1, NoVerdictType DEF Inv, TypeOK
<1>3. QED
  BY <1>1, <1>2 DEF GatewayFailure, ManualProbe, FollowUp,
                    Inv, TypeOK, GoodTable, Dated, ProbesDated, GoodProbe

LEMMA EditInv ==
  ASSUME Inv, RefreshToken \/ EditAndClear \/ Rename \/ SaveSettings
  PROVE  Inv'
<1>1. Edited
  BY ConfigEdited DEF RefreshToken, EditAndClear, Rename, SaveSettings, Edit
<1>2. probes' \in [Attempts -> Probe] /\ ProbesDated'
  BY <1>1, EditedProbes DEF RefreshToken, EditAndClear, Rename, SaveSettings
<1>3. GoodTable(jobs') /\ verdict' \in {verdict, NoVerdict}
  BY CanceledGood DEF Inv, RefreshToken, EditAndClear, Rename, SaveSettings, Clear
<1>4. verdict' \in Verdict
  BY <1>3, NoVerdictType DEF Inv, TypeOK
<1>5. QED
  BY <1>1, <1>2, <1>3, <1>4
     DEF RefreshToken, EditAndClear, Rename, SaveSettings, Edited, Inv, TypeOK, GoodTable, Attempts

LEMMA InvNext == Inv /\ [Next]_vars => Inv'
<1> SUFFICES ASSUME Inv, [Next]_vars PROVE Inv'
  OBVIOUS
<1>1. CASE \E j \in JobIds : Claim(j) \/ LoseLease(j)
  BY <1>1, ClaimInv, LoseLeaseInv
<1>2. CASE \E j \in JobIds, n \in Numbers : Handler(j, n) \/ ReadFails(j, n) \/ Fails(j, n)
  BY <1>2, ProbeStepInv, PersistInv, EndInv DEF Handler
<1>3. CASE GatewayFailure \/ ManualProbe \/ FollowUp
  BY <1>3, EnqueueInv
<1>4. CASE RefreshToken \/ EditAndClear \/ Rename \/ SaveSettings
  BY <1>4, EditInv
<1>5. CASE UpstreamChanges
  BY <1>5 DEF UpstreamChanges, Inv, TypeOK, GoodTable, Dated, ProbesDated, GoodProbe
<1>6. CASE UNCHANGED vars
  BY <1>6 DEF vars, Inv, TypeOK, GoodTable, Dated, ProbesDated, GoodProbe
<1>7. QED
  BY <1>1, <1>2, <1>3, <1>4, <1>5, <1>6 DEF Next

LEMMA InvInit == Init => Inv
<1> SUFFICES ASSUME Init PROVE Inv
  OBVIOUS
<1>1. NewConfig \in Config /\ NoVerdict \in Verdict /\ edits \in Versions
  BY BoundsAssumption DEF Init, NewConfig, Config, NoVerdict, Verdict, Versions
<1>2. TypeOK
  <2>1. NoProbe \in Probe
    BY BoundsAssumption DEF NoProbe, NothingSeen, Probe, Snapshot, Versions
  <2>2. jobs \in [JobIds -> Job] /\ probes \in [JobIds \X Numbers -> Probe]
    BY <2>1, FreshJobs DEF Init
  <2>3. disruptions \in 0..MaxDisruptions
    BY BoundsAssumption DEF Init
  <2>4. QED
    BY <1>1, <2>2, <2>3 DEF Init, TypeOK
<1>3. GoodTable(jobs)
  BY FreshJobs DEF Init, GoodTable
<1>4. Dated
  BY DEF Init, Dated, NewConfig
<1>5. ProbesDated
  BY <1>2, EmptyProbe DEF Init, ProbesDated, Attempts
<1>6. QED
  BY <1>2, <1>3, <1>4, <1>5 DEF Inv

LEMMA InvHolds == Spec => []Inv
BY InvInit, InvNext, PTL DEF Spec

----------------------------------------------------------------------------
(* The theorems. *)

\* The rows stay rows of their tables: failures saturate at the number above which the
\* retry delay is the same, attempts end at max_attempts, versions at the last edit.
THEOREM TypeCorrect == Spec => []TypeOK
<1>1. Inv => TypeOK
  BY DEF Inv
<1>2. QED
  BY <1>1, InvHolds, PTL

\* However many attempts of a job come to an end, the lost and the late ones included,
\* recordProviderConnectionProbeResultWithClient writes one event of it.
THEOREM OneEvent == Spec => []OneEventPerJob
<1>1. Inv => OneEventPerJob
  BY DEF Inv, GoodTable, GoodJob, OneEventPerJob
<1>2. QED
  BY <1>1, InvHolds, PTL

\* What a step does to the verdict: nothing, a pardon, or one failure more, and that only
\* for a probe whose snapshot persistProbeResult has just found to be current.
LEMMA VerdictMoves ==
  ASSUME Inv, [Next]_vars
  PROVE  \/ verdict' \in {verdict, NoVerdict}
         \/ \E a \in Attempts :
              /\ IsCurrent(probes[a].seen) /\ probes[a].pc = "judged"
              /\ verdict' = Failed(probes[a].seen) /\ config' = config
<1>1. CASE \E j \in JobIds, n \in Numbers : Persist(j, n)
  <2>1. PICK j \in JobIds, n \in Numbers : Persist(j, n)
    BY <1>1
  <2>2. <<j, n>> \in Attempts
    BY DEF Attempts
  <2>3. QED
    BY <2>1, <2>2, RecordGood DEF Persist, Inv
<1>2. CASE GatewayFailure \/ ManualProbe \/ FollowUp
  BY <1>2, EnqueueProbeGood DEF GatewayFailure, ManualProbe, FollowUp, Inv
<1>3. CASE EditAndClear
  BY <1>3 DEF EditAndClear, Clear
<1>4. CASE UNCHANGED verdict
  BY <1>4
<1>5. QED
  BY <1>1, <1>2, <1>3, <1>4
     DEF Next, Handler, vars, Claim, LoseLease, Read, Judge, Report, ReadFails, Fails,
         RefreshToken, Rename, SaveSettings, UpstreamChanges

\* What the verdict is about changes only in a transaction that clears it.
LEMMA ConfigMoves ==
  ASSUME [Next]_vars, TypeOK
  PROVE  \/ verdict' = NoVerdict
         \/ config'.url = config.url /\ config'.grant = config.grant
<1>1. CASE EditAndClear
  BY <1>1 DEF EditAndClear, Clear
<1>2. CASE RefreshToken \/ Rename \/ SaveSettings
  BY <1>2 DEF RefreshToken, Rename, SaveSettings, TypeOK, Config
<1>3. CASE UNCHANGED config
  BY <1>3
<1>4. QED
  BY <1>1, <1>2, <1>3
     DEF Next, Handler, vars, Claim, LoseLease, Read, Judge, Persist, Report, ReadFails,
         Fails, GatewayFailure, ManualProbe, FollowUp, UpstreamChanges

\* The verdict is about today's base URL, and about today's credential unless the probe had
\* read none: a compare-and-record finds the secret the probe read still stored, so no other
\* grant has come between.
THEOREM VerdictHolds == Spec => []VerdictIsCurrent
<1>1. Init => VerdictIsCurrent
  BY DEF Init, VerdictIsCurrent, Unhealthy, NoVerdict
<1>2. Inv /\ VerdictIsCurrent /\ [Next]_vars => VerdictIsCurrent'
  <2> SUFFICES ASSUME Inv, VerdictIsCurrent, [Next]_vars
               PROVE  VerdictIsCurrent'
    OBVIOUS
  <2>1. CASE verdict' = NoVerdict
    BY <2>1 DEF VerdictIsCurrent, Unhealthy, NoVerdict
  <2>2. CASE verdict' = verdict
    BY <2>1, <2>2, ConfigMoves DEF Inv, VerdictIsCurrent, Unhealthy
  <2>3. ASSUME NEW a \in Attempts, IsCurrent(probes[a].seen), probes[a].pc = "judged",
               verdict' = Failed(probes[a].seen), config' = config
        PROVE  VerdictIsCurrent'
    <3>1. probes[a].seen.url = config.url
      BY <2>3 DEF IsCurrent
    <3>2. probes[a].seen.token = Unread \/ probes[a].seen.grant = config.grant
      BY <2>3 DEF Inv, ProbesDated, GoodProbe, IsCurrent
    <3>3. QED
      BY <2>3, <3>1, <3>2 DEF Failed, VerdictIsCurrent, Unhealthy
  <2>4. QED
    BY <2>1, <2>2, <2>3, VerdictMoves
<1>3. QED
  BY <1>1, <1>2, InvHolds, PTL DEF Spec

\* Nor is the connection of a disabled provider blamed by a probe that was already under
\* way, nor a disabled connection by one that had read its credential.
THEOREM DisabledHolds == Spec => DisabledIsNotBlamed
<1>1. Inv /\ [Next]_vars
        => [Blames => config.provider /\ (config.connection \/ verdict'.blind)]_vars
  <2> SUFFICES ASSUME Inv, [Next]_vars, Blames
               PROVE  config.provider /\ (config.connection \/ verdict'.blind)
    OBVIOUS
  <2>1. PICK a \in Attempts : IsCurrent(probes[a].seen) /\ verdict' = Failed(probes[a].seen)
    BY VerdictMoves DEF Blames, NoVerdict
  <2>2. QED
    BY <2>1 DEF IsCurrent, Failed
<1>2. QED
  BY <1>1, InvHolds, PTL DEF DisabledIsNotBlamed, Spec
=============================================================================
