---------------------------- MODULE ApiKeyLimits ----------------------------
(***************************************************************************)
(* The limits of one API key, enforced by every gateway process through    *)
(* PostgreSQL: gateway-api-key-limits.ts of packages/gateway-runtime, the  *)
(* request paths that hold its concurrency leases and settle its budget,   *)
(* and the worker's repair of leaked leases, worker-stale-concurrency.ts.  *)
(*                                                                         *)
(* An admission is one transaction of two steps: the budget is read        *)
(* (locking its row if there is one), then the rate windows are locked in  *)
(* a fixed order, evaluated, and incremented when all of them admit.       *)
(* A tick is a minute.                                                     *)
(***************************************************************************)
EXTENDS Integers, FiniteSets, FiniteSetsExt

CONSTANTS
  Requests,       \* requests made with the key
  Streaming,      \* those that ask for a stream
  Gateways,       \* gateway processes
  GatewayOf,      \* [Requests -> Gateways]
  Tokens,         \* [Requests -> Nat], estimated input and output tokens
  Estimate,       \* [Requests -> Nat], estimated cost
  Cost,           \* [Requests -> Nat], cost of the usage the provider reports
  Unpriced,       \* requests whose first candidate has no known price
  Limit,          \* [LimitTypes -> Nat \cup {NoLimit}], the key's rules
  NoLimit,
  Lenient,        \* rate limits that are warn_only or bypassed
  PeriodMinutes,  \* length of a budget period
  QuietMinutes,   \* quietMinutes of the repair
  MaxMinute,      \* bound: the clock stops there
  MaxLife,        \* bound: minutes a request is under way with the limits on
  MaxWait,        \* bound: minutes a transaction lasts, and a statement that waits for one
  MaxFaults,      \* bound: failed store calls, crashed gateways and switches of the limits
  AnswersLost     \* whether a release that fails may have committed

RateTypes == {"concurrency", "rpm", "tpm"}
LimitTypes == RateTypes \cup {"token", "budget"}

ASSUME RequestsAssumption ==
  /\ IsFiniteSet(Requests) /\ Streaming \subseteq Requests /\ Unpriced \subseteq Requests
  /\ GatewayOf \in [Requests -> Gateways] /\ Tokens \in [Requests -> Nat]
  /\ Estimate \in [Requests -> Nat] /\ Cost \in [Requests -> Nat]
ASSUME LimitAssumption ==
  Limit \in [LimitTypes -> Nat \cup {NoLimit}] /\ NoLimit \notin Nat /\ Lenient \subseteq RateTypes
ASSUME BoundsAssumption ==
  /\ PeriodMinutes \in Nat \ {0} /\ QuietMinutes \in Nat \ {0}
  /\ MaxMinute \in Nat /\ MaxLife \in Nat /\ MaxWait \in Nat /\ MaxFaults \in Nat /\ AnswersLost \in BOOLEAN

VARIABLES
  active,   \* active_count of the concurrency window
  quiet,    \* minutes since that row's updated_at
  rates,    \* the rpm and tpm windows, by minute
  spent,    \* cost_used_usd of budget_periods, by period
  rules,    \* api_keys.limits_enabled, with the rules that come and go with it
  minute,   \* the time
  req,      \* the requests
  repair,   \* the repair's statement, from its snapshot to its write
  uncounted, \* leases that active_count may lack (of the specification, not the code)
  faults    \* failures and switches so far

vars == <<rules, active, quiet, rates, spent, minute, req, repair, uncounted, faults>>

Minutes == 0..MaxMinute
Period(m) == m \div PeriodMinutes   \* getBudgetPeriodWindow
Tasks == {"release", "settle"}

Request == [pc : {"new", "checking", "counting", "calling", "streaming",
                  "releasing", "again", "closed"},
            limited : BOOLEAN,    \* it has read the rules, and they were there
            minute : Minutes,     \* now of its admission
            locks : BOOLEAN,      \* its admission holds the budget row
            counted : BOOLEAN,    \* its admission incremented the windows
            lease : BOOLEAN,      \* it has incremented active_count and not returned it
            age : 0..MaxLife,     \* minutes since its admission began
            tasks : SUBSET Tasks, \* background tasks, started when it is closed
            settled : BOOLEAN]

\* A statement that waits for the row, the minutes since it started, and the requests
\* that were admitted since.
Repair == [waits : BOOLEAN, since : 0..MaxWait, late : SUBSET Requests]

NoRepair == [waits |-> FALSE, since |-> 0, late |-> {}]

TypeOK ==
  /\ active \in 0..Cardinality(Requests) /\ quiet \in 0..QuietMinutes
  /\ rates \in [Minutes -> [rpm : Nat, tpm : Nat]]
  /\ spent \in [{Period(m) : m \in Minutes} -> Nat]
  /\ rules \in BOOLEAN /\ minute \in Minutes
  /\ req \in [Requests -> Request] /\ repair \in Repair
  /\ uncounted \in Nat /\ faults \in 0..MaxFaults

Init ==
  /\ active = 0 /\ quiet = 0
  /\ rates = [m \in Minutes |-> [rpm |-> 0, tpm |-> 0]]
  /\ spent = [p \in {Period(m) : m \in Minutes} |-> 0]
  /\ rules \in BOOLEAN /\ minute = 0
  /\ req = [r \in Requests |-> [pc |-> "new", limited |-> FALSE, minute |-> 0, locks |-> FALSE,
              counted |-> FALSE, lease |-> FALSE, age |-> 0, tasks |-> {}, settled |-> FALSE]]
  /\ repair = NoRepair /\ uncounted = 0 /\ faults = 0

Live == {r \in Requests : req[r].lease}

Goes(r, pc) == req' = [req EXCEPT ![r].pc = pc]
Fault == faults < MaxFaults /\ faults' = faults + 1

\* A request that is over: no call is under way, nothing holds its lease any more.
Closed(q) == [q EXCEPT !.pc = "closed", !.limited = FALSE, !.locks = FALSE, !.lease = FALSE, !.age = 0]

----------------------------------------------------------------------------
(* Admission: enforceGatewayApiKeyLimits. *)

\* The switch is read with the key and the rules after it, before the transaction and
\* its clock; without either the request is admitted, counted nowhere.  One read for
\* both: unless both find the limits on, the request is as if it had come while they
\* were off.
Begin(r) ==
  /\ req[r].pc = "new"
  /\ req' = [req EXCEPT ![r] = IF rules THEN [@ EXCEPT !.pc = "checking", !.limited = TRUE, !.minute = minute]
                                          ELSE [@ EXCEPT !.pc = "calling"]]
  /\ UNCHANGED <<rules, active, quiet, rates, spent, minute, repair, uncounted, faults>>

\* The budget_periods row exists once something was settled in the period.
Opened(p) == \E r \in Requests : req[r].settled /\ Period(req[r].minute) = p

RowFree(p) == \A r \in Requests : req[r].locks => Period(req[r].minute) # p

ReadsBudget(r) == Limit["budget"] # NoLimit /\ r \notin Unpriced

OverBudget(r) ==
  \/ Limit["token"] # NoLimit /\ Tokens[r] > Limit["token"]
  \/ ReadsBudget(r) /\ spent[Period(req[r].minute)] + Estimate[r] > Limit["budget"]

\* evaluateBudgetLimits.
CheckBudget(r) ==
  LET p == Period(req[r].minute)
  IN  /\ req[r].pc = "checking"
      /\ ReadsBudget(r) => RowFree(p)
      /\ IF OverBudget(r) THEN Goes(r, "closed")
         ELSE req' = [req EXCEPT ![r].pc = "counting",
                                 ![r].locks = ReadsBudget(r) /\ Opened(p)]
      /\ UNCHANGED <<rules, active, quiet, rates, spent, minute, repair, uncounted, faults>>

Counted == {t \in RateTypes : Limit[t] # NoLimit}

Increment(r, t) == IF t = "tpm" THEN Tokens[r] ELSE 1

Count(r, t) == IF t = "concurrency" THEN active ELSE rates[req[r].minute][t]

\* Mutant: the limit is compared before the increment.
AdmitsLate(r, t) == Count(r, t) <= Limit[t] \/ t \in Lenient

\* evaluateGatewayRateLimitWindow.
Admits(r, t) == Count(r, t) + Increment(r, t) <= Limit[t] \/ t \in Lenient

Admitted(r) == \A t \in Counted : Admits(r, t)

\* The minute windows with r's increments of the types in ts.
Incremented(r, ts) ==
  [rates EXCEPT ![req[r].minute] =
     [rpm |-> IF "rpm" \in ts THEN @.rpm + 1 ELSE @.rpm,
      tpm |-> IF "tpm" \in ts THEN @.tpm + Tokens[r] ELSE @.tpm]]

\* Mutant: each window is incremented as soon as it admits.
RatesAfterEager(r) == Incremented(r, {t \in Counted : Admits(r, t)})

\* evaluateAndIncrementRateLimits: every window is evaluated before any changes.
RatesAfter(r) == IF Admitted(r) THEN Incremented(r, Counted) ELSE rates

Leases == "concurrency" \in Counted

\* How quiet a row is whose updated_at was set w minutes ago.
QuietFor(w) == IF w < QuietMinutes THEN w ELSE QuietMinutes

\* The transaction ends, and what it wrote to updated_at is when it began; if its answer
\* is lost nobody will return the lease.
CountRates(r) ==
  /\ req[r].pc = "counting"
  /\ rates' = RatesAfter(r)
  /\ IF Admitted(r)
     THEN /\ active' = IF Leases THEN active + 1 ELSE active
          /\ quiet' = IF Leases THEN QuietFor(req[r].age) ELSE quiet
          /\ repair' = IF repair.waits THEN [repair EXCEPT !.late = @ \cup {r}] ELSE repair
          /\ \/ req' = [req EXCEPT ![r] = [@ EXCEPT !.pc = "calling", !.locks = FALSE,
                                             !.counted = TRUE, !.lease = Leases]]
                /\ UNCHANGED faults
             \/ req' = [req EXCEPT ![r] = [Closed(@) EXCEPT !.counted = TRUE]]
                /\ Fault
     ELSE /\ req' = [req EXCEPT ![r] = Closed(@)]
          /\ UNCHANGED <<active, quiet, repair, faults>>
  /\ UNCHANGED <<rules, spent, minute, uncounted>>

AdmissionFails(r) ==
  /\ req[r].pc \in {"checking", "counting"} /\ Fault
  /\ req' = [req EXCEPT ![r] = Closed(@)]
  /\ UNCHANGED <<rules, active, quiet, rates, spent, minute, repair, uncounted>>

----------------------------------------------------------------------------
(* The request itself. *)

\* recordGatewayBudgetUsage will have something to do.
Settles(r) == req[r].limited /\ Limit["budget"] # NoLimit

Earned(r, ok) == IF ok /\ Settles(r) THEN {"settle"} ELSE {}

\* It got a lease at its admission, whatever the rules are now.
Leased(r) == req[r].limited /\ Leases

\* A JSON request: the providers answer or fail, and the finally block releases.
JsonAnswer(r) ==
  /\ req[r].pc = "calling" /\ r \notin Streaming
  /\ \E ok \in BOOLEAN :
       req' = [req EXCEPT ![r].pc = "releasing", ![r].tasks = Earned(r, ok)]
  /\ UNCHANGED <<rules, active, quiet, rates, spent, minute, repair, uncounted, faults>>

\* A streaming request: a stream starts, every provider fails, or an error is thrown,
\* which leaves only the catch block's release.
StreamAnswer(r) ==
  /\ req[r].pc = "calling" /\ r \in Streaming
  /\ \E pc \in {"streaming", "releasing", "again"} : Goes(r, pc)
  /\ UNCHANGED <<rules, active, quiet, rates, spent, minute, repair, uncounted, faults>>

\* The stream ends, fails or is abandoned: its two observers start their tasks, and
\* only a stream that ended is settled.
StreamEnds(r) ==
  /\ req[r].pc = "streaming"
  /\ \E ok \in BOOLEAN :
       req' = [req EXCEPT ![r] = [@ EXCEPT !.pc = "closed",
                 !.tasks = Earned(r, ok) \cup IF Leased(r) THEN {"release"} ELSE {}]]
  /\ UNCHANGED <<rules, active, quiet, rates, spent, minute, repair, uncounted, faults>>

\* Mutant: a release has no floor.
DecrementedFreely == active - 1

\* releaseGatewayConcurrency.
Decremented == IF active > 0 THEN active - 1 ELSE 0

\* The count falls with no lease behind it, or a lease goes back that it did not contain.
UncountedAfter(r) ==
  CASE Leased(r) /\ ~ req[r].lease /\ active > 0 -> uncounted + 1
    [] Leased(r) /\ req[r].lease /\ active = 0 /\ uncounted > 0 -> uncounted - 1
    [] OTHER -> uncounted

\* r's lease goes back, by a statement that may have waited for the row since it started,
\* and r, whose request is q from now on, knows.
Returns(r, q) ==
  /\ active' = IF Leased(r) THEN Decremented ELSE active
  /\ \E w \in 0..MaxWait : quiet' = IF Leased(r) THEN QuietFor(w) ELSE quiet
  /\ uncounted' = UncountedAfter(r)
  /\ req' = [req EXCEPT ![r] = q]

Release(r) ==
  /\ req[r].pc \in {"releasing", "again"}
  /\ Returns(r, Closed(req[r]))
  /\ UNCHANGED <<rules, rates, spent, minute, repair, faults>>

\* What follows a release that threw: the error is logged, or answered, and the lease
\* forgotten, except in executeGatewayStreamingRequest, whose catch block releases
\* again, knowing nothing of what became of the first call.
AfterFailedRelease(r) ==
  IF req[r].pc = "releasing" /\ r \in Streaming
  THEN [req[r] EXCEPT !.pc = "again"] ELSE Closed(req[r])

ReleaseFails(r) ==
  /\ req[r].pc \in {"releasing", "again"} /\ Leased(r) /\ Fault
  /\ \/ /\ req' = [req EXCEPT ![r] = AfterFailedRelease(r)]
        /\ UNCHANGED <<active, quiet, uncounted>>
     \/ /\ AnswersLost
        /\ Returns(r, [AfterFailedRelease(r) EXCEPT !.lease = FALSE, !.age = 0])
  /\ UNCHANGED <<rules, rates, spent, minute, repair>>

----------------------------------------------------------------------------
(* Background tasks: never retried, an error is logged. *)

Ready(r, t) == req[r].pc = "closed" /\ t \in req[r].tasks

Done(q, t) == [q EXCEPT !.tasks = @ \ {t}]

ReleaseTask(r) ==
  /\ Ready(r, "release")
  /\ Returns(r, Closed(Done(req[r], "release")))
  /\ UNCHANGED <<rules, rates, spent, minute, repair, faults>>

\* Mutant: usage is charged to the period in which it is recorded.
SettledPeriodNow(r) == Period(minute)

\* The period is that of the admission, carried in budgetSettlement.
SettledPeriod(r) == Period(req[r].minute)

SettleTask(r) ==
  /\ Ready(r, "settle") /\ RowFree(SettledPeriod(r))
  /\ spent' = [spent EXCEPT ![SettledPeriod(r)] = @ + IF r \in Unpriced THEN 0 ELSE Cost[r]]
  /\ req' = [req EXCEPT ![r] = [Done(@, "settle") EXCEPT !.settled = TRUE]]
  /\ UNCHANGED <<rules, active, quiet, rates, minute, repair, uncounted, faults>>

TaskFails(r) ==
  /\ \E t \in Tasks :
       /\ Ready(r, t) /\ Fault
       /\ req' = [req EXCEPT ![r] = IF t = "release" THEN Closed(Done(@, t)) ELSE Done(@, t)]
  /\ UNCHANGED <<rules, active, quiet, rates, spent, minute, repair, uncounted>>

----------------------------------------------------------------------------
(* Switching the limits, crashes, the repair, and time. *)

\* setApiKeyLimitsEnabled, deleteApiKeyLimitRules, saveApiKeyLimitRules: the windows
\* and periods stay as they are.
SwitchLimits ==
  /\ rules' = ~rules
  /\ Fault
  /\ UNCHANGED <<active, quiet, rates, spent, minute, req, repair, uncounted>>

\* A gateway stops with its requests and tasks: a crash, or a shutdown whose drain
\* timed out.
Crash(g) ==
  /\ \E r \in Requests : GatewayOf[r] = g /\ (req[r].pc \notin {"new", "closed"} \/ req[r].tasks # {})
  /\ Fault
  /\ req' = [r \in Requests |-> IF GatewayOf[r] # g \/ req[r].pc = "new" THEN req[r]
                                ELSE [Closed(req[r]) EXCEPT !.tasks = {}]]
  /\ UNCHANGED <<rules, active, quiet, rates, spent, minute, repair, uncounted>>

\* The requests whose request_activity row is 'started': rows are written once a
\* request is over, as 'succeeded' or 'failed'.
Started == {}

\* Mutant: the quiet period is one minute short.
IsQuietEarly == quiet + 1 >= QuietMinutes

IsQuiet == quiet >= QuietMinutes

\* The statement's snapshot: the row it sees is quiet, and its count wrong.
ReconcileReads ==
  /\ ~ repair.waits /\ IsQuiet /\ active # Cardinality(Started)
  /\ repair' = [NoRepair EXCEPT !.waits = TRUE]
  /\ UNCHANGED <<rules, active, quiet, rates, spent, minute, req, uncounted, faults>>

\* Leases a repair may forget: those admitted since its snapshot, which its write does not
\* see, and those about as old as the quiet period, behind whose back the row fell quiet.
AtRisk == {r \in Live : r \in repair.late \/ req[r].age + MaxWait >= QuietMinutes}

\* The count is overwritten, and updated_at is when the statement started.
Repaired ==
  /\ active' = Cardinality(Started) /\ quiet' = QuietFor(repair.since)
  /\ uncounted' = Cardinality(AtRisk)

\* Mutant: only a count that is too low is repaired.
ReconcileUp ==
  /\ repair.waits /\ repair' = NoRepair
  /\ IF active < Cardinality(Started) THEN Repaired ELSE UNCHANGED <<active, quiet, uncounted>>
  /\ UNCHANGED <<rules, rates, spent, minute, req, faults>>

\* Its write, once no transaction holds the row: of what it has read, only the count is
\* compared again with the row as it is by now (READ COMMITTED), never updated_at.
ReconcileWrites ==
  /\ repair.waits /\ repair' = NoRepair
  /\ IF active # Cardinality(Started) THEN Repaired ELSE UNCHANGED <<active, quiet, uncounted>>
  /\ UNCHANGED <<rules, rates, spent, minute, req, faults>>

\* The statement, or the worker that runs it, fails: a later run starts over.
ReconcileFails ==
  /\ repair.waits /\ repair' = NoRepair /\ Fault
  /\ UNCHANGED <<rules, active, quiet, rates, spent, minute, req, uncounted>>

\* Requests inside the transaction of their admission.
Admitting == {r \in Requests : req[r].pc \in {"checking", "counting"}}

Tick ==
  /\ \A r \in Admitting \cup Live : req[r].age < MaxLife
  /\ \A r \in Admitting : req[r].age < MaxWait
  /\ repair.waits => repair.since < MaxWait
  /\ minute' = IF minute < MaxMinute THEN minute + 1 ELSE minute
  /\ quiet' = QuietFor(quiet + 1)
  /\ repair' = IF repair.waits THEN [repair EXCEPT !.since = @ + 1] ELSE repair
  /\ req' = [r \in Requests |-> IF r \in Admitting \cup Live THEN [req[r] EXCEPT !.age = @ + 1]
                                                             ELSE req[r]]
  /\ UNCHANGED <<rules, active, rates, spent, uncounted, faults>>

Step(r) ==
  \/ Begin(r) \/ CheckBudget(r) \/ CountRates(r) \/ AdmissionFails(r)
  \/ JsonAnswer(r) \/ StreamAnswer(r) \/ StreamEnds(r)
  \/ Release(r) \/ ReleaseFails(r)
  \/ ReleaseTask(r) \/ SettleTask(r) \/ TaskFails(r)

Next ==
  \/ \E r \in Requests : Step(r)
  \/ \E g \in Gateways : Crash(g)
  \/ SwitchLimits
  \/ ReconcileReads \/ ReconcileWrites \/ ReconcileFails
  \/ Tick

Spec == Init /\ [][Next]_vars

\* Providers and streams have timeouts, background tasks run, the repair is scheduled
\* every five minutes by a worker, and time passes.
Fairness ==
  /\ \A r \in Requests : WF_vars(Step(r))
  /\ WF_vars(ReconcileReads) /\ WF_vars(ReconcileWrites) /\ WF_vars(Tick)

FairSpec == Spec /\ Fairness

----------------------------------------------------------------------------
(* Properties. *)

\* active_count contains every lease that is held but those that something took from it:
\* a second release of the same lease, after a first whose answer was lost, or a repair of
\* a row whose lease is about as old as the quiet period or was admitted while the repair
\* waited for the row.  No crash, failed release, switch or other repair takes one.
CountCoversLeases == Cardinality(Live) <= active + uncounted

\* The key never has more requests under way than its concurrency limit and the leases
\* that active_count lacks, those aside that came while its limits were off.
ConcurrencyEnforced ==
  Leases /\ "concurrency" \notin Lenient => Cardinality(Live) <= Limit["concurrency"] + uncounted

\* "Reconciles quiet leaked concurrency windows but leaves active windows alone": while no
\* answer of a release is lost, active_count contains every lease that is held.
ActiveWindowsLeftAlone == ~ AnswersLost => Cardinality(Live) <= active

CountedIn(m) == {r \in Requests : req[r].counted /\ req[r].minute = m}

\* Each minute's windows count exactly the requests admitted in it: one that another
\* limit denied has consumed nothing, and one that began before the minute turned is
\* counted where its own clock reading says.
RatesCountAdmissions ==
  \A m \in Minutes :
    /\ "rpm" \in Counted => rates[m].rpm = Cardinality(CountedIn(m))
    /\ "tpm" \in Counted => rates[m].tpm = MapThenSumSet(LAMBDA r : Tokens[r], CountedIn(m))

\* A minute admits no more requests and tokens than its limits.
RatesEnforced ==
  \A m \in Minutes : \A t \in Counted \ (Lenient \cup {"concurrency"}) : rates[m][t] <= Limit[t]

\* What a minute's windows count is what was admitted in it, and within the limits.
RatesHold == RatesCountAdmissions /\ RatesEnforced

SettledIn(p) == {r \in Requests \ Unpriced : req[r].settled /\ Period(req[r].minute) = p}

\* A period's cost is that of the requests admitted in it, each once, however late
\* they end.
CostsLandInTheirPeriod ==
  \A p \in DOMAIN spent : spent[p] = MapThenSumSet(LAMBDA r : Cost[r], SettledIn(p))

AllOver == \A r \in Requests : req[r].pc = "closed" /\ req[r].tasks = {}

\* Whatever gateways crashed, releases failed or answers were lost, an unused key ends
\* with no lease counted.
LeaksAreRepaired == AllOver ~> active = 0
=============================================================================
