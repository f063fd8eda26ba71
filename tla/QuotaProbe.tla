----------------------------- MODULE QuotaProbe -----------------------------
(***************************************************************************)
(* The upstream quota of one connection: the maintenance task that looks   *)
(* for summaries that are due and enqueues a job                           *)
(* (worker-maintenance-scheduler.ts, provider-jobs.ts), the job            *)
(* (worker-provider-quota-probe.ts), the providers' ways to be asked and   *)
(* to answer (provider/src/quota-probe.ts), and the row that the console   *)
(* shows (provider-quota.ts).  The row of a connection that is deleted     *)
(* meanwhile is in OAuthConnection, the queue in JobQueue.                 *)
(*                                                                         *)
(* An optional value is a set of at most one element.  What is used of a   *)
(* window is a number of parts, Whole of which are its limit.              *)
(***************************************************************************)
EXTENDS Naturals, Sequences, FiniteSets

CONSTANTS
  Dialects,        \* the dialects of the providers considered
  Whole,           \* all that a window allows
  QuotaTries,      \* max_attempts of the job
  QuotaDelay,      \* [error -> ticks until the summary is due again]
  MaxQuotaFaults   \* bound: database errors and lost runs

\* The parsers of quota-probe.ts by how they state what is used; "none" and
\* "separate" are the providers without a probe.
AllDialects == {"used", "zai", "remaining", "plan", "ratio", "fireworks", "grok", "balance", "none", "separate"}
QuotaErrors == {"none", "unauthorized", "probe_failed", "not_supported", "requires_separate_credential"}

ASSUME QuotaAssumption ==
  /\ Dialects \subseteq AllDialects
  /\ Whole \in Nat \ {0} /\ QuotaTries \in Nat \ {0} /\ MaxQuotaFaults \in Nat
  /\ QuotaDelay \in [QuotaErrors -> Nat \ {0}]

VARIABLES
  target,       \* the connection: its provider's dialect, whether both are enabled and its probing is on
  summary,      \* its row of provider_quota_summary, with what was behind it
  scanned,      \* a scheduler has it on its list of due connections
  quotaJob,     \* its unfinished job
  asking,       \* the run of that job
  quotaFaults

quotaVars == <<target, summary, scanned, quotaJob, asking, quotaFaults>>

NotAsking == [pc |-> "idle", request |-> "none", entries |-> {}, error |-> "none", ok |-> FALSE,
              meant |-> {}, rejected |-> {}]

Entry == [window : {"short", "long", "balance"}, share : 0..Whole + 1]

QuotaTypeOK ==
  /\ target \in [dialect : Dialects, enabled : BOOLEAN, probing : BOOLEAN]
  /\ Cardinality(summary) <= 1
  /\ \A row \in summary : /\ row.entries \subseteq Entry /\ row.error \in QuotaErrors
                          /\ row.due \in 0..QuotaDelay[row.error]
  /\ scanned \in BOOLEAN
  /\ quotaJob.status \in {"none", "pending", "running"} /\ quotaJob.tries \in 0..QuotaTries
  /\ asking.pc \in {"idle", "reading", "calling", "persisting"}
  /\ asking.pc # "idle" <=> quotaJob.status = "running"

QuotaInit ==
  /\ target \in [dialect : Dialects, enabled : {TRUE}, probing : BOOLEAN]
  /\ summary = {} /\ scanned = FALSE
  /\ quotaJob = [status |-> "none", tries |-> 0]
  /\ asking = NotAsking
  /\ quotaFaults = 0

Active == target.enabled /\ target.probing

\* setProviderEnabled, setProviderApiKeyEnabled: the provider or the connection is
\* turned on or off.
SwitchEnabled ==
  /\ target' = [target EXCEPT !.enabled = ~@]
  /\ UNCHANGED <<summary, scanned, quotaJob, asking, quotaFaults>>

\* updateProviderApiKeySettings, setProviderApiKeyQuotaProbeEnabled and the two of
\* OAuth connections, one transaction: a save with the probe on, as it may have been
\* before, makes the summary due at once.
SaveQuotaSettings ==
  /\ \E enabled, probing \in BOOLEAN :
       /\ target' = [target EXCEPT !.enabled = enabled, !.probing = probing]
       /\ summary' = IF probing THEN {[row EXCEPT !.due = 0] : row \in summary} ELSE summary
  /\ UNCHANGED <<scanned, quotaJob, asking, quotaFaults>>

QuotaTick ==
  /\ \E row \in summary : row.due > 0 /\ summary' = {[row EXCEPT !.due = @ - 1]}
  /\ UNCHANGED <<target, scanned, quotaJob, asking, quotaFaults>>

(***************************************************************************)
(* The maintenance task.                                                   *)
(***************************************************************************)
\* A connection that was never observed is due.
QuotaDue == \A row \in summary : row.due = 0

ScanQuota ==
  /\ ~scanned /\ Active /\ QuotaDue
  /\ scanned' = TRUE
  /\ UNCHANGED <<target, summary, quotaJob, asking, quotaFaults>>

\* A later transaction: whether the probe is on was the scan's concern, an
\* unfinished job is used again.
EnqueueQuota ==
  /\ scanned
  /\ scanned' = FALSE
  /\ quotaJob' = IF target.enabled /\ quotaJob.status = "none"
                 THEN [status |-> "pending", tries |-> 0] ELSE quotaJob
  /\ UNCHANGED <<target, summary, asking, quotaFaults>>

ClaimQuota ==
  /\ quotaJob.status = "pending"
  /\ quotaJob' = [status |-> "running", tries |-> quotaJob.tries + 1]
  /\ asking' = [NotAsking EXCEPT !.pc = "reading"]
  /\ UNCHANGED <<target, summary, scanned, quotaFaults>>

\* Mutation: the run ends, and its job is left as it is.
JobLeft == quotaJob' = quotaJob /\ asking' = NotAsking

\* The run ends with the job: done, or canceled.
JobOver == quotaJob' = [status |-> "none", tries |-> 0] /\ asking' = NotAsking

\* failJob, recoverExpiredRunningJobs: the run throws, or its worker dies and the
\* lease expires: another attempt, if any is left.
RunLost ==
  /\ quotaJob.status = "running"
  /\ quotaFaults < MaxQuotaFaults /\ quotaFaults' = quotaFaults + 1
  /\ quotaJob' = IF quotaJob.tries < QuotaTries THEN [quotaJob EXCEPT !.status = "pending"]
                 ELSE [status |-> "none", tries |-> 0]
  /\ asking' = NotAsking
  /\ UNCHANGED <<target, summary, scanned>>

(***************************************************************************)
(* What a provider counts and how it says so.                              *)
(***************************************************************************)
\* The windows an answer tells of: both where they are read differently.
WindowsOf(request) ==
  CASE request = "credits" -> {"short"}
    [] request = "plan" -> {"short", "long"}
    [] request = "balance" -> {"balance"}
    [] OTHER -> {"long"}

\* What is used of each window, nothing of one that has no limit.  More than all of
\* it can be used where the provider counts what is used; Grok's credits have a limit.
Meters(request) ==
  LET most == IF request \in {"percent", "bearer", "raw", "credits", "monthly", "quotas"} THEN Whole + 1 ELSE Whole
      unlimited == IF request = "credits" THEN {} ELSE {{}}
  IN [WindowsOf(request) -> {{used} : used \in 0..most} \cup unlimited]

Stated(amount, limit, applies) == [amount |-> amount, limit |-> limit, applies |-> applies]

\* The fields of an answer that tell of a window: remaining parts, a limit of 0 or an
\* inapplicable 100 % where there is none, zeros left out.
Wire(dialect, window, used) ==
  LET left == {Whole - u : u \in used}
      limit == IF used = {} THEN {0} ELSE {Whole}
  IN CASE dialect = "remaining" -> Stated(left, {}, TRUE)
       [] dialect = "plan" /\ window = "long" ->
            Stated(IF used = {} THEN {Whole} ELSE left, {}, used # {})
       [] dialect = "plan" /\ window = "short" -> Stated(left, {}, TRUE)
       [] dialect = "ratio" -> Stated(left, limit, TRUE)
       [] dialect = "fireworks" -> Stated(used, limit, TRUE)
       [] dialect = "grok" -> Stated(used \ {0}, limit \ {0}, TRUE)
       [] OTHER -> Stated(used, {}, TRUE)

(***************************************************************************)
(* What the probe reads in the answer.                                     *)
(***************************************************************************)
Or(option, default) == IF option = {} THEN default ELSE CHOOSE v \in option : TRUE
Clamped(parts) == IF parts > Whole THEN Whole ELSE parts

UsedShare(f) == f.amount
RemainingShare(f) == {Whole - v : v \in f.amount}

PlanShare(f) == IF f.applies THEN RemainingShare(f) ELSE {}
RatioShare(f) ==
  {((limit - left) * Whole) \div limit : limit \in f.limit \ {0}, left \in f.amount}
BudgetShare(f) ==
  {(used * Whole) \div limit : limit \in f.limit \ {0}, used \in f.amount}
CreditsShare(f) == {Clamped(Or(f.amount, 0))}
MonthlyShare(f) ==
  {Clamped((Or(f.amount, 0) * Whole) \div limit) : limit \in {Or(f.limit, 0)} \ {0}}
BalanceTotal(f) == f.amount

Share(dialect, request, f) ==
  CASE dialect = "remaining" -> RemainingShare(f)
    [] dialect = "plan" -> PlanShare(f)
    [] dialect = "ratio" -> RatioShare(f)
    [] dialect = "fireworks" -> BudgetShare(f)
    [] dialect = "grok" /\ request = "credits" -> CreditsShare(f)
    [] dialect = "grok" /\ request = "monthly" -> MonthlyShare(f)
    [] dialect = "balance" -> BalanceTotal(f)
    [] OTHER -> UsedShare(f)

\* The entries of an answer that states what the meters show.
EntriesOf(dialect, request, meters) ==
  UNION {{[window |-> w, share |-> s] : s \in Share(dialect, request, Wire(dialect, w, meters[w]))} :
           w \in DOMAIN meters}

\* And what they mean: Grok never reports more than everything.
Meant(dialect, meters) ==
  UNION {{[window |-> w, share |-> IF dialect = "grok" THEN Clamped(u) ELSE u] : u \in meters[w]} :
           w \in DOMAIN meters}

(***************************************************************************)
(* The run.                                                                *)
(***************************************************************************)
FirstRequest(dialect) ==
  CASE dialect = "grok" -> "credits"
    [] dialect = "fireworks" -> "accounts"
    [] dialect = "balance" -> "balance"
    [] dialect = "zai" -> "bearer"
    [] dialect = "used" -> "percent"
    [] dialect = "plan" -> "plan"
    [] OTHER -> "left"

\* The scheme of authorization of a request.
Scheme(request) == IF request = "raw" THEN "raw" ELSE "bearer"
Schemes(dialect) == IF dialect = "zai" THEN {"bearer", "raw"} ELSE {"bearer"}

Ends(error) == asking' = [asking EXCEPT !.pc = "persisting", !.error = error, !.entries = {}]

\* readProviderSnapshot and readStoredQuotaCredential, which cancels before a provider
\* without a probe is found to be one; a credential that cannot be read or
\* refreshed, or a provider without a base URL, is a probe that failed.
ReadTarget ==
  /\ asking.pc = "reading"
  /\ \/ ~Active /\ JobOver /\ UNCHANGED quotaFaults
     \/ Active /\ target.dialect = "none" /\ Ends("not_supported") /\ UNCHANGED <<quotaJob, quotaFaults>>
     \/ /\ Active /\ target.dialect = "separate"
        /\ Ends("requires_separate_credential") /\ UNCHANGED <<quotaJob, quotaFaults>>
     \/ /\ Active /\ target.dialect \notin {"none", "separate"}
        /\ asking' = [asking EXCEPT !.pc = "calling", !.request = FirstRequest(target.dialect)]
        /\ UNCHANGED <<quotaJob, quotaFaults>>
     \/ /\ quotaFaults < MaxQuotaFaults /\ quotaFaults' = quotaFaults + 1
        /\ Ends("probe_failed") /\ UNCHANGED quotaJob
  /\ UNCHANGED <<target, summary, scanned>>

\* fetchProbeJson: a redirect, a timeout and any other status are failures.
ErrorOf(status) == IF status \in {401, 403} THEN "unauthorized" ELSE "probe_failed"

Requests(request) == asking' = [asking EXCEPT !.request = request]

\* An answer that is not 2xx.  A rejected credential is tried without its scheme where
\* the provider may want none; Grok's first answer may be missing.
AnswerRefused(status) ==
  LET a == [asking EXCEPT !.rejected = IF status \in {401, 403} THEN @ \cup {Scheme(asking.request)} ELSE @]
      ended(error) == [a EXCEPT !.pc = "persisting", !.error = error, !.entries = {}]
  IN CASE target.dialect = "zai" /\ asking.request = "bearer" /\ status \in {401, 403} ->
            asking' = [a EXCEPT !.request = "raw"]
       [] target.dialect = "grok" /\ status = 401 -> asking' = ended("unauthorized")
       [] target.dialect = "grok" /\ status # 401 /\ asking.request = "credits" ->
            asking' = [a EXCEPT !.request = "monthly"]
       [] target.dialect = "grok" /\ status # 401 /\ asking.request = "monthly" ->
            asking' = IF asking.ok THEN [a EXCEPT !.pc = "persisting"] ELSE ended("probe_failed")
       [] OTHER -> asking' = ended(ErrorOf(status))

\* A 2xx answer; "plan" may carry an error in it, "fireworks" may name no account.
AnswerRead ==
  \/ asking.request = "accounts" /\ (Requests("quotas") \/ Ends("probe_failed"))
  \/ target.dialect = "plan" /\ Ends("probe_failed")
  \/ /\ asking.request # "accounts"
     /\ \E meters \in Meters(asking.request) :
          asking' = [asking EXCEPT
            !.entries = @ \cup EntriesOf(target.dialect, asking.request, meters),
            !.meant = @ \cup Meant(target.dialect, meters), !.ok = TRUE,
            !.request = IF @ = "credits" THEN "monthly" ELSE @,
            !.pc = IF asking.request = "credits" THEN "calling" ELSE "persisting"]

CallAnswered ==
  /\ asking.pc = "calling"
  /\ AnswerRead \/ \E status \in {401, 403, 500} : AnswerRefused(status)
  /\ UNCHANGED <<target, summary, scanned, quotaJob, quotaFaults>>

\* recordProviderQuota: updated or inserted, whatever the switches are now.
PersistQuota ==
  /\ asking.pc = "persisting"
  /\ summary' = {[entries |-> asking.entries, error |-> asking.error, due |-> QuotaDelay[asking.error],
                  meant |-> asking.meant, rejected |-> asking.rejected]}
  /\ JobOver
  /\ UNCHANGED <<target, scanned, quotaFaults>>

QuotaNext ==
  \/ SwitchEnabled \/ SaveQuotaSettings \/ QuotaTick
  \/ ScanQuota \/ EnqueueQuota \/ ClaimQuota
  \/ ReadTarget \/ CallAnswered \/ PersistQuota \/ RunLost

QuotaFairness ==
  /\ WF_quotaVars(ScanQuota) /\ WF_quotaVars(EnqueueQuota)
  /\ WF_quotaVars(ClaimQuota)
  /\ WF_quotaVars(ReadTarget) /\ WF_quotaVars(CallAnswered) /\ WF_quotaVars(PersistQuota)

QuotaSpec == QuotaInit /\ [][QuotaNext]_quotaVars /\ QuotaFairness

(***************************************************************************)
(* Properties.                                                             *)
(***************************************************************************)
\* The row says what the provider meant: of a probe that succeeded, every limited
\* window, and no other, at the share that is used, from each request that was
\* answered; of one that failed, nothing; and that the credential is rejected only
\* after every way to present it was.
QuotaIsTrue ==
  \A row \in summary :
    /\ row.entries = IF row.error = "none" THEN row.meant ELSE {}
    /\ row.error = "unauthorized" => row.rejected = Schemes(target.dialect)

\* A connection that stays switched on has a summary that is not overdue for ever,
\* after whatever run threw, died or was canceled.
QuotaIsRefreshed == []<>(~Active \/ ~QuotaDue)

\* Both: the summary is true, and it is refreshed.
QuotaIsKept == []QuotaIsTrue /\ QuotaIsRefreshed
=============================================================================
