---------------------------- MODULE RequestRecord ----------------------------
(***************************************************************************)
(* A request's way through a gateway and what is recorded of it: the key   *)
(* and its virtual models (gateway-auth.ts, gateway-virtual-model-         *)
(* access.ts), the refusals, attempts and answer of the two pipelines      *)
(* (gateway-protocol-request.ts, gateway-streaming.ts), the background     *)
(* tasks that write activity, usage and cost (request-recording.ts,        *)
(* gateway-activity-recorder.ts), and the shutdown that drains them        *)
(* (main.ts, gateway-background-tasks.ts).                                 *)
(*                                                                         *)
(* Which candidates a route has is RouteSelection, how attempts fail       *)
(* FallbackChain, what the limits admit ApiKeyLimits, when a stream ends   *)
(* StreamPipeline: here each of them is a choice.                          *)
(***************************************************************************)
EXTENDS Naturals, FiniteSets

CONSTANTS
  Clients,         \* requests; each may come with any of its ids
  IdsOf,           \* [Clients -> set of request ids]: x-request-id or a new one
  MaxAttempts,     \* bound: attempts of a request
  MaxIncidents     \* bound: database errors and edits of the key in the console

ASSUME RecordAssumption == MaxAttempts \in Nat /\ MaxIncidents \in Nat

VARIABLES
  access,   \* the row of the clients' API key
  calls,    \* the requests
  tasks,    \* pending of the GatewayBackgroundTaskRegistry
  rows,     \* request_activity with its fallback_events, usage and cost
  charged,  \* requests whose cost was added to the key's budget
  gateway,  \* the process: its state, the tasks a round of drain awaits, and the
            \* requests that were still in flight when the drain ended
  incidents \* database errors and console edits so far

recordVars == <<access, calls, tasks, rows, charged, gateway, incidents>>

NoCall == [at |-> "idle", id |-> "none", stream |-> FALSE, gone |-> FALSE, full |-> FALSE,
           route |-> FALSE, failed |-> 0, status |-> 0, lost |-> FALSE]

RecordInit ==
  /\ access = [enabled |-> TRUE, granted |-> TRUE, full |-> TRUE]
  /\ calls = [c \in Clients |-> NoCall]
  /\ tasks = {} /\ rows = {} /\ charged = {}
  /\ gateway = [state |-> "up", code |-> 0, awaits |-> {}, behind |-> {}]
  /\ incidents = 0

Serving == gateway.state # "exited"

DatabaseFails ==
  /\ incidents < MaxIncidents
  /\ incidents' = incidents + 1

\* An operator edits the key: disables it, revokes the virtual model, or changes how
\* its requests are logged.
EditKey ==
  /\ incidents < MaxIncidents
  /\ incidents' = incidents + 1
  /\ \E field \in DOMAIN access : access' = [access EXCEPT ![field] = ~@]
  /\ UNCHANGED <<calls, tasks, rows, charged, gateway>>

(***************************************************************************)
(* Answers and the tasks they leave.                                       *)
(***************************************************************************)
Activity(c) == [kind |-> "activity", call |-> c]
Budget(c) == [kind |-> "budget", call |-> c]
Completion(c) == [kind |-> "completion", call |-> c]

\* scheduleBudgetUsage of a success and scheduleRecordActivity.
Recording(c, status) == {Activity(c)} \cup (IF status < 400 THEN {Budget(c)} ELSE {})

\* An answer in one piece: recorded and sent.
Answered(c, status, route) ==
  /\ calls' = [calls EXCEPT ![c].at = "answered", ![c].status = status, ![c].route = route]
  /\ tasks' = tasks \cup Recording(c, status)

\* Refused before there is a virtual model to record the request of.
Rejected(c, status) ==
  /\ calls' = [calls EXCEPT ![c].at = "rejected", ![c].status = status]
  /\ UNCHANGED tasks

Submit(c) ==
  /\ gateway.state = "up"
  /\ calls[c].at = "idle"
  /\ \E id \in IdsOf[c], stream \in BOOLEAN :
       calls' = [calls EXCEPT ![c].at = "arrived", ![c].id = id, ![c].stream = stream]
  /\ UNCHANGED <<access, tasks, rows, charged, gateway, incidents>>

\* The key's logging mode is the one read here.
Authenticate(c) ==
  /\ Serving /\ calls[c].at = "arrived"
  /\ IF access.enabled
       THEN calls' = [calls EXCEPT ![c].at = "authenticated", ![c].full = access.full] /\ UNCHANGED tasks
       ELSE Rejected(c, 401)
  /\ UNCHANGED <<access, rows, charged, gateway, incidents>>

Authorize(c) ==
  /\ Serving /\ calls[c].at = "authenticated"
  /\ IF access.granted
       THEN calls' = [calls EXCEPT ![c].at = "routing"] /\ UNCHANGED tasks
       ELSE Rejected(c, 403)
  /\ UNCHANGED <<access, rows, charged, gateway, incidents>>

\* The key or its virtual models cannot be read.
AccessUnread(c) ==
  /\ Serving /\ calls[c].at \in {"arrived", "authenticated"}
  /\ Rejected(c, 500)
  /\ DatabaseFails
  /\ UNCHANGED <<access, rows, charged, gateway>>

\* A body that cannot be read, no route policy, another protocol or no candidate:
\* answered without a route.  A request the contract or a limit refuses, or whose
\* candidates cannot serve it, is answered with the route it had chosen.
Refuse(c) ==
  /\ Serving /\ calls[c].at = "routing"
  /\ Answered(c, 503, FALSE) \/ Answered(c, 429, TRUE)
  /\ UNCHANGED <<access, rows, charged, gateway, incidents>>

\* Credentials or limits that cannot be read: the streaming pipeline's catch has no
\* activity to return.
RoutingFails(c) ==
  /\ Serving /\ calls[c].at = "routing"
  /\ Answered(c, 500, ~calls[c].stream)
  /\ DatabaseFails
  /\ UNCHANGED <<access, rows, charged, gateway>>

Admit(c) ==
  /\ Serving /\ calls[c].at = "routing"
  /\ calls' = [calls EXCEPT ![c].at = "calling"]
  /\ UNCHANGED <<access, tasks, rows, charged, gateway, incidents>>

\* The attempts go to the array the activity refers to.
AttemptFails(c) ==
  /\ Serving /\ calls[c].at = "calling"
  /\ calls[c].failed < MaxAttempts
  /\ calls' = [calls EXCEPT ![c].failed = @ + 1]
  /\ UNCHANGED <<access, tasks, rows, charged, gateway, incidents>>

Exhausted(c) ==
  /\ Serving /\ calls[c].at = "calling"
  /\ Answered(c, 502, TRUE)
  /\ UNCHANGED <<access, rows, charged, gateway, incidents>>

\* Releasing the lease of an exhausted stream throws into the same catch, which
\* releases it again.
ExhaustedUnreleased(c) ==
  /\ Serving /\ calls[c].at = "calling" /\ calls[c].stream
  /\ calls' = [calls EXCEPT ![c].at = "unreleased"]
  /\ DatabaseFails
  /\ UNCHANGED <<access, tasks, rows, charged, gateway>>

ReleasedAgain(c) ==
  /\ Serving /\ calls[c].at = "unreleased"
  /\ Answered(c, 500, FALSE)
  /\ UNCHANGED <<access, rows, charged, gateway, incidents>>

\* The database is still away.  A catch that throws leaves the recording behind: the
\* server answers 500 by itself.
UnreleasedAgain(c) ==
  /\ Serving /\ calls[c].at = "unreleased"
  /\ calls' = [calls EXCEPT ![c] = [@ EXCEPT !.at = "answered", !.status = 500, !.lost = TRUE]]
  /\ UNCHANGED <<access, tasks, rows, charged, gateway, incidents>>

AttemptServes(c) ==
  /\ Serving /\ calls[c].at = "calling"
  /\ IF calls[c].stream
       THEN calls' = [calls EXCEPT ![c].at = "streaming", ![c].route = TRUE] /\ UNCHANGED tasks
       ELSE Answered(c, 200, TRUE)
  /\ UNCHANGED <<access, rows, charged, gateway, incidents>>

\* settleActivity tracks the completion, which schedules the recording.
StreamSettles(c) ==
  /\ Serving /\ calls[c].at = "streaming"
  /\ \E status \in IF calls[c].gone THEN {499} ELSE {200, 502} :
       calls' = [calls EXCEPT ![c].at = "answered", ![c].status = status]
  /\ tasks' = tasks \cup {Completion(c)}
  /\ UNCHANGED <<access, rows, charged, gateway, incidents>>

InFlight(c) == calls[c].at \in {"arrived", "authenticated", "routing", "calling", "unreleased", "streaming"}

\* The client hangs up.  Nothing tells the pipeline before there is a stream.
Depart(c) ==
  /\ Serving /\ InFlight(c)
  /\ ~calls[c].gone
  /\ calls' = [calls EXCEPT ![c].gone = TRUE]
  /\ UNCHANGED <<access, tasks, rows, charged, gateway, incidents>>

(***************************************************************************)
(* The tasks.                                                              *)
(***************************************************************************)
Done(t) == tasks' = tasks \ {t}

Complete(c) ==
  /\ Serving /\ Completion(c) \in tasks
  /\ tasks' = (tasks \ {Completion(c)}) \cup Recording(c, calls[c].status)
  /\ UNCHANGED <<access, calls, rows, charged, gateway, incidents>>

Charge(c) ==
  /\ Serving /\ Budget(c) \in tasks
  /\ charged' = charged \cup {c}
  /\ Done(Budget(c))
  /\ UNCHANGED <<access, calls, rows, gateway, incidents>>

\* request_activity_request_id_key
Taken(id) == \E row \in rows : row.id = id

\* buildGatewayActivityCompletion
Succeeded(c) == calls[c].status < 400

\* insertFallbackEvents: a row of every failed attempt of the route.
FallbackEvents(c) == IF calls[c].route THEN calls[c].failed ELSE 0

\* What recordCompletedGatewayRequestActivity writes in one transaction.
RowOf(c) ==
  LET q == calls[c]
  IN [call |-> c, id |-> q.id, status |-> q.status, route |-> q.route, full |-> q.full,
      failed |-> FallbackEvents(c), usage |-> Succeeded(c)]

Write(c) ==
  /\ Serving /\ Activity(c) \in tasks
  /\ ~Taken(calls[c].id)
  /\ rows' = rows \cup {RowOf(c)}
  /\ Done(Activity(c))
  /\ UNCHANGED <<access, calls, charged, gateway, incidents>>

\* The unique request id refuses the row: logged, and the row is gone.
WriteRefused(c) ==
  /\ Serving /\ Activity(c) \in tasks
  /\ Taken(calls[c].id)
  /\ Done(Activity(c))
  /\ UNCHANGED <<access, calls, rows, charged, gateway, incidents>>

\* lost only marks the request for the properties.
RecordingFails(c) ==
  /\ Serving
  /\ \E t \in {Activity(c), Budget(c)} \cap tasks : Done(t)
  /\ calls' = [calls EXCEPT ![c].lost = TRUE]
  /\ DatabaseFails
  /\ UNCHANGED <<access, rows, charged, gateway>>

(***************************************************************************)
(* Shutdown.                                                               *)
(***************************************************************************)
Shutdown ==
  /\ gateway.state = "up"
  /\ gateway' = [gateway EXCEPT !.state = "closing"]
  /\ UNCHANGED <<access, calls, tasks, rows, charged, incidents>>

\* app.close waits for the connections, not for the handlers of clients that left;
\* a stream whose client left is destroyed before the hooks of close have answered.
Closed ==
  /\ gateway.state = "closing"
  /\ \A c \in Clients : InFlight(c) => calls[c].gone /\ calls[c].at # "streaming"
  /\ gateway' = [gateway EXCEPT !.state = "draining", !.awaits = tasks]
  /\ UNCHANGED <<access, calls, tasks, rows, charged, incidents>>

\* Mutation: drain awaits the tasks it found.
DrainedOnce == gateway.awaits \cap tasks = {}

\* drain goes on while there are tasks, those that tasks have left included.
Drained == tasks = {}

AwaitAgain ==
  /\ gateway.state = "draining"
  /\ gateway.awaits \cap tasks = {} /\ tasks # {}
  /\ gateway' = [gateway EXCEPT !.awaits = tasks]
  /\ UNCHANGED <<access, calls, tasks, rows, charged, incidents>>

\* What is awaited after the drain, the stop of the latency statistics and the end of
\* the pools: the handlers of clients that left go on meanwhile.
Stopping(code) ==
  /\ gateway.state = "draining"
  /\ gateway' = [state |-> "stopping", code |-> code, awaits |-> {}, behind |-> {c \in Clients : InFlight(c)}]
  /\ UNCHANGED <<access, calls, tasks, rows, charged, incidents>>

DrainEnds == Drained /\ Stopping(0)
DrainTimesOut == ~Drained /\ Stopping(1)

\* process.exit: what still runs is cut.
Exit(code) ==
  /\ gateway' = [gateway EXCEPT !.state = "exited", !.code = code, !.awaits = {}]
  /\ calls' = [c \in Clients |-> IF InFlight(c) THEN [calls[c] EXCEPT !.at = "cut"] ELSE calls[c]]
  /\ tasks' = {}
  /\ UNCHANGED <<access, rows, charged, incidents>>

ExitStopped == gateway.state = "stopping" /\ Exit(gateway.code)

\* The process ends in another way: killed, or its shutdown throws.
Killed == Serving /\ Exit(137)

CallStep(c) ==
  \/ Submit(c) \/ Authenticate(c) \/ Authorize(c) \/ AccessUnread(c) \/ Refuse(c) \/ RoutingFails(c) \/ Admit(c)
  \/ AttemptFails(c) \/ Exhausted(c) \/ ExhaustedUnreleased(c) \/ ReleasedAgain(c) \/ UnreleasedAgain(c)
  \/ AttemptServes(c)
  \/ StreamSettles(c) \/ Depart(c)
  \/ Complete(c) \/ Charge(c) \/ Write(c) \/ WriteRefused(c) \/ RecordingFails(c)

RecordNext ==
  \/ EditKey
  \/ \E c \in Clients : CallStep(c)
  \/ Shutdown \/ Closed \/ AwaitAgain \/ DrainEnds \/ DrainTimesOut \/ ExitStopped \/ Killed

RecordSpec == RecordInit /\ [][RecordNext]_recordVars

(***************************************************************************)
(* Properties.                                                             *)
(***************************************************************************)
RecordTypeOK ==
  /\ access \in [enabled : BOOLEAN, granted : BOOLEAN, full : BOOLEAN]
  /\ \A c \in Clients : calls[c].failed \in 0..MaxAttempts /\ calls[c].status \in {0, 200, 401, 403, 429, 499, 500, 502, 503}
  /\ tasks \subseteq [kind : {"activity", "budget", "completion"}, call : Clients]
  /\ {row.call : row \in rows} \subseteq Clients /\ charged \subseteq Clients
  /\ gateway.state \in {"up", "closing", "draining", "stopping", "exited"}

RecordedAs(c, row) == row.call = c /\ row.status = calls[c].status /\ row.full = calls[c].full

\* What is recorded is what happened: a row has the status its request was answered
\* with, every attempt that failed on the way when it has a route, and usage, as the
\* budget has the cost, only of an answer that succeeded.  And a gateway that exits
\* cleanly (drain not timed out, main.ts) has a row of every request it answered past
\* authorization before its drain ended, and the cost of every success of them, unless
\* a database error lost them or the request id was taken; only requests whose client
\* had left are cut, or answered later than that.
RecordsAreTrue ==
  /\ \A row \in rows :
       /\ calls[row.call].at = "answered" /\ RecordedAs(row.call, row)
       /\ row.route => row.failed = calls[row.call].failed
       /\ row.usage <=> row.status = 200
       /\ \A other \in rows : other.id = row.id => other = row
  /\ \A c \in charged : calls[c].status = 200
  /\ gateway.state = "exited" /\ gateway.code = 0 =>
       \A c \in Clients :
         /\ calls[c].at = "answered" /\ ~calls[c].lost /\ c \notin gateway.behind =>
              /\ \E row \in rows : row.call = c \/ row.id = calls[c].id
              /\ calls[c].status = 200 => c \in charged
         /\ calls[c].at = "cut" \/ c \in gateway.behind => calls[c].gone
=============================================================================
