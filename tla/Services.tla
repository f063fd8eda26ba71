------------------------------ MODULE Services ------------------------------
(* Five services of the system: a chain of attempts with its breakers, a streamed    *)
(* answer, the wake-up of a worker's runner, the maintenance schedulers of two *)
(* workers and the quota of a connection.  They share no state, so each        *)
(* behaviour runs one of them while the others stay where they begin: a        *)
(* product would only interleave them.                                         *)
EXTENDS FallbackChain, JobWake, Maintenance, QuotaProbe, StreamPipeline

VARIABLE service   \* the one that runs

servicesVars == <<service, chainVars, wakeVars, keeperVars, quotaVars, streamVars>>

Runs(s, still) == service = s /\ UNCHANGED <<service, still>>

\* No summary is due where the quota is not the service that runs.
Unprobed == [dialect |-> "none", enabled |-> TRUE, probing |-> FALSE]

ServicesInit ==
  /\ service \in {"chain", "stream", "wake", "keepers", "quota"}
  /\ ChainInit /\ StreamInit /\ WakeInit /\ KeeperInit
  /\ QuotaInit /\ (service # "quota" => target = Unprobed)

ServicesNext ==
  \/ Runs("chain", <<streamVars, wakeVars, keeperVars, quotaVars>>) /\ ChainNext
  \/ Runs("stream", <<chainVars, wakeVars, keeperVars, quotaVars>>) /\ StreamNext
  \/ Runs("wake", <<chainVars, streamVars, keeperVars, quotaVars>>) /\ WakeNext
  \/ Runs("keepers", <<chainVars, streamVars, wakeVars, quotaVars>>) /\ KeeperNext
  \/ Runs("quota", <<chainVars, streamVars, wakeVars, keeperVars>>) /\ QuotaNext

\* The fairness of the module whose service runs.
ServicesFairness ==
  /\ \A r \in Callers :
       /\ WF_chainVars(service = "chain" /\ (Attach(r) \/ Attached(r)))
       /\ WF_chainVars(service = "chain" /\ Execute(r))
       /\ WF_chainVars(service = "chain" /\ \E status \in Statuses : Answered(r, status))
  /\ \A c \in Connections : WF_chainVars(service = "chain" /\ Rest(c)) /\ WF_chainVars(service = "chain" /\ WindowPasses(c))
  /\ WF_streamVars(service = "stream" /\ Called) /\ WF_streamVars(service = "stream" /\ Piped)
  /\ WF_streamVars(service = "stream" /\ ClientReads) /\ WF_streamVars(service = "stream" /\ Reader)
  /\ WF_wakeVars(service = "wake" /\ Wake) /\ WF_wakeVars(service = "wake" /\ ClaimAnswered)
  /\ \A j \in WakeJobs : WF_wakeVars(service = "wake" /\ JobEnds(j))
  /\ \A s \in Sessions : WF_wakeVars(service = "wake" /\ Connected(s)) /\ WF_wakeVars(service = "wake" /\ Listening(s))
  /\ \A w \in Keepers : WF_keeperVars(service = "keepers" /\ KeeperStep(w))
  /\ WF_quotaVars(service = "quota" /\ ScanQuota) /\ WF_quotaVars(service = "quota" /\ EnqueueQuota)
  /\ WF_quotaVars(service = "quota" /\ ClaimQuota) /\ WF_quotaVars(service = "quota" /\ ReadTarget)
  /\ WF_quotaVars(service = "quota" /\ CallAnswered) /\ WF_quotaVars(service = "quota" /\ PersistQuota)

ServicesSpec == ServicesInit /\ [][ServicesNext]_servicesVars /\ ServicesFairness

TypesOK ==
  /\ ChainTypeOK /\ StreamTypeOK /\ WakeTypeOK
  /\ KeeperTypeOK /\ QuotaTypeOK
=============================================================================
