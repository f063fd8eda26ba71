------------------------ MODULE GatewayRequests_proofs -----------------------
(***************************************************************************)
(* How a gateway routes the requests it serves, for any candidates and any *)
(* draws (RouteSelection), and what it leaves behind of them, for any      *)
(* number of requests and whatever ids they come with (RequestRecord), and *)
(* for any number of gateways and samples (RouteLatency).                  *)
(*                                                                         *)
(* RequestRecord: a row is what happened to its request, no id has two,    *)
(* only a success is charged, and a gateway that exits cleanly owes no row *)
(* and no charge to what it answered before its drain ended.  The          *)
(* invariant says what is owed while the gateway runs: a request that was  *)
(* answered has its row and its charge, or a task that will write them, or *)
(* a task that will schedule those.                                        *)
(*                                                                         *)
(* RouteLatency: no latency sample is lost between memory and table.  The  *)
(* invariant says where an unsaved sample waits, and that a row of a batch *)
(* that memory has overtaken belongs to a key that is dirty again.         *)
(*                                                                         *)
(* RouteSelection: a chain lists every candidate of its request once, in   *)
(* the order the strategy asks for, and only accepted requests have one.   *)
(* The sorts place a candidate at its rank, so that what precedes what is  *)
(* read off the comparison; a function that recurses over draws is shown   *)
(* to exist and then described by what each of its steps keeps.            *)
(***************************************************************************)
EXTENDS RequestRecord, RouteLatency, RouteSelection, FiniteSetTheorems,
        WellFoundedInduction, TLAPS

----------------------------------------------------------------------------
(* The invariant of RequestRecord. *)

Waiting == {"arrived", "authenticated", "routing", "calling", "unreleased", "streaming"}
Recorded == {200, 429, 499, 500, 502, 503}
Refused == {401, 403, 500}
Statuses == {0} \cup Recorded \cup Refused

Call == [at : Waiting \cup {"idle", "answered", "rejected", "cut"},
         id : {"none"} \cup UNION {IdsOf[c] : c \in Clients},
         stream : BOOLEAN, gone : BOOLEAN, full : BOOLEAN, route : BOOLEAN,
         failed : 0..MaxAttempts, status : Statuses, lost : BOOLEAN]
Task == [kind : {"activity", "budget", "completion"}, call : Clients]
Process == [state : {"up", "closing", "draining", "stopping", "exited"}, code : {0, 1, 137},
            awaits : SUBSET Task, behind : SUBSET Clients]

RecordTypeInv ==
  /\ access \in [enabled : BOOLEAN, granted : BOOLEAN, full : BOOLEAN]
  /\ calls \in [Clients -> Call]
  /\ tasks \subseteq Task
  /\ \A row \in rows : row.call \in Clients
  /\ charged \subseteq Clients
  /\ gateway \in Process

\* An answer that is recorded is not a refusal of the key.
CallInv == \A c \in Clients : calls[c].at = "answered" => calls[c].status \in Recorded

\* A task records an answer, and the budget is charged for a success.
TaskInv ==
  /\ \A t \in tasks : calls[t.call].at = "answered"
  /\ \A c \in Clients : Budget(c) \in tasks => calls[c].status = 200

\* A row is what its request was, and the only one with its id.
RowInv ==
  /\ \A row \in rows : calls[row.call].at = "answered" /\ row = RowOf(row.call)
  /\ \A row, other \in rows : other.id = row.id => other = row

ChargeInv == \A c \in charged : calls[c].at = "answered" /\ calls[c].status = 200

\* What the rows and the budget still owe a request.
RowOwed(c) == Activity(c) \in tasks \/ Completion(c) \in tasks
ChargeOwed(c) == Budget(c) \in tasks \/ Completion(c) \in tasks

Owed ==
  Serving => \A c \in Clients :
    calls[c].at = "answered" /\ ~ calls[c].lost =>
      /\ RowOwed(c) \/ Taken(calls[c].id)
      /\ calls[c].status = 200 => ChargeOwed(c) \/ c \in charged

\* Only the end of the process cuts requests, and once the server is closed only
\* those whose client left still run; the drain leaves no others behind.
LeftInv ==
  /\ Serving => \A c \in Clients :
       /\ calls[c].at # "cut"
       /\ gateway.state \in {"draining", "stopping"} /\ InFlight(c) => calls[c].gone
  /\ \A c \in gateway.behind : calls[c].gone

\* Once a drain has ended in time, nothing is owed to the requests that it did not
\* leave behind, and none of them runs or is cut.
CleanInv ==
  gateway.state \in {"stopping", "exited"} /\ gateway.code = 0 =>
    \A c \in Clients \ gateway.behind :
      /\ calls[c].at \notin Waiting \cup {"cut"}
      /\ calls[c].at = "answered" /\ ~ calls[c].lost =>
           Taken(calls[c].id) /\ (calls[c].status = 200 => c \in charged)

RecordInv ==
  /\ RecordTypeInv /\ CallInv /\ TaskInv /\ RowInv /\ ChargeInv
  /\ Owed /\ LeftInv /\ CleanInv

----------------------------------------------------------------------------
(* Rows and tasks. *)

LEMMA TasksAre ==
  ASSUME NEW c \in Clients, NEW d \in Clients
  PROVE  /\ {Activity(c), Budget(c), Completion(c)} \subseteq Task
         /\ Activity(c).call = c /\ Budget(c).call = c /\ Completion(c).call = c
         /\ (Activity(c) = Activity(d) \/ Budget(c) = Budget(d) \/ Completion(c) = Completion(d)) => c = d
         /\ Activity(c) # Budget(d) /\ Activity(c) # Completion(d) /\ Budget(c) # Completion(d)
BY DEF Task, Activity, Budget, Completion

\* What a row says of its request does not change once the request is answered.
LEMMA RowsStill ==
  ASSUME RowInv, \A row \in rows : row.call \in Clients, rows' = rows,
         \A c \in Clients : calls[c].at = "answered" =>
           /\ calls'[c].at = "answered" /\ calls'[c].id = calls[c].id /\ calls'[c].status = calls[c].status
           /\ calls'[c].route = calls[c].route /\ calls'[c].full = calls[c].full
           /\ calls'[c].failed = calls[c].failed
  PROVE  RowInv'
<1>1. ASSUME NEW row \in rows PROVE calls'[row.call].at = "answered" /\ row = RowOf(row.call)'
  <2>1. row.call \in Clients /\ calls[row.call].at = "answered" /\ row = RowOf(row.call)
    BY <1>1 DEF RowInv
  <2>2. RowOf(row.call)' = RowOf(row.call)
    BY <2>1 DEF RowOf, FallbackEvents, Succeeded
  <2> QED BY <2>1, <2>2
<1> QED BY <1>1 DEF RowInv

----------------------------------------------------------------------------
(* A request on its way. *)

\* Once a drain has ended in time, a request that still moves was left behind by it.
LEMMA OthersStayClean ==
  ASSUME RecordInv, NEW c \in Clients, calls[c].at \in Waiting \cup {"idle"},
         gateway.state # "up" => calls[c].at \in Waiting,
         \A d \in Clients \ {c} : calls'[d] = calls[d], UNCHANGED <<rows, charged, gateway>>
  PROVE  CleanInv'
<1> SUFFICES ASSUME gateway.state \in {"stopping", "exited"}, gateway.code = 0, NEW d \in Clients \ gateway.behind
             PROVE  /\ calls'[d].at \notin Waiting \cup {"cut"}
                    /\ calls'[d].at = "answered" /\ ~ calls'[d].lost =>
                         Taken(calls[d].id)' /\ (calls'[d].status = 200 => d \in charged)
  BY DEF CleanInv
<1>1. calls[c].at \in Waiting
  OBVIOUS
<1>2. c \in gateway.behind
  BY <1>1 DEF RecordInv, CleanInv
<1>3. calls'[d] = calls[d]
  BY <1>2
<1> QED BY <1>3 DEF RecordInv, CleanInv, Taken

\* It moves on, without an answer that is recorded.
LEMMA CallMoves ==
  ASSUME RecordInv, Serving, NEW c \in Clients, NEW next \in Call, calls' = [calls EXCEPT ![c] = next],
         calls[c].at \in Waiting \cup {"idle"}, next.at \notin {"answered", "cut"},
         calls[c].gone => next.gone, gateway.state # "up" => calls[c].at \in Waiting,
         UNCHANGED <<access, tasks, rows, charged, gateway>>
  PROVE  RecordInv'
<1> USE DEF RecordInv, RecordTypeInv
<1>1. calls' \in [Clients -> Call] /\ calls'[c] = next /\ \A d \in Clients \ {c} : calls'[d] = calls[d]
  OBVIOUS
<1>2. RecordTypeInv'
  BY <1>1
<1>3. \A d \in Clients : calls'[d].at = "answered" <=> calls[d].at = "answered" /\ d # c
  BY <1>1 DEF Waiting
<1>4. \A d \in Clients : calls[d].at = "answered" => calls'[d] = calls[d]
  BY <1>1 DEF Waiting
<1>5. CallInv' /\ ChargeInv'
  BY <1>3, <1>4 DEF CallInv, ChargeInv
<1>6. TaskInv'
  <2>1. ASSUME NEW t \in tasks PROVE calls'[t.call].at = "answered"
    BY <1>4 DEF TaskInv, Task
  <2>2. ASSUME NEW d \in Clients, Budget(d) \in tasks PROVE calls'[d].status = 200
    BY <1>4, <2>2, TasksAre DEF TaskInv
  <2> QED BY <2>1, <2>2 DEF TaskInv, Budget
<1>7. RowInv'
  BY <1>4, RowsStill
<1>8. Owed'
  BY <1>3, <1>4 DEF Owed, RowOwed, ChargeOwed, Taken, Serving, Activity, Budget, Completion
<1>9. LeftInv'
  BY <1>1 DEF LeftInv, InFlight, Waiting, Serving, Process
<1>10. CleanInv'
  BY <1>1, OthersStayClean
<1> QED BY <1>2, <1>5, <1>6, <1>7, <1>8, <1>9, <1>10

\* It is answered, and tasks will record the answer unless it is lost.
LEMMA CallIsAnswered ==
  ASSUME RecordInv, Serving, NEW c \in Clients, NEW next \in Call, calls' = [calls EXCEPT ![c] = next],
         calls[c].at \in Waiting, next.at = "answered", next.status \in Recorded, calls[c].gone => next.gone,
         NEW new \in SUBSET Task, new \subseteq {Activity(c), Budget(c), Completion(c)}, tasks' = tasks \cup new,
         Budget(c) \in new => next.status = 200,
         next.lost \/ Completion(c) \in new \/ (Activity(c) \in new /\ (next.status = 200 => Budget(c) \in new)),
         UNCHANGED <<access, rows, charged, gateway>>
  PROVE  RecordInv'
<1> USE DEF RecordInv, RecordTypeInv
<1>1. calls' \in [Clients -> Call] /\ calls'[c] = next /\ \A d \in Clients \ {c} : calls'[d] = calls[d]
  OBVIOUS
<1>2. RecordTypeInv'
  BY <1>1, TasksAre
<1>3. calls[c].at # "answered"
  BY DEF Waiting
<1>4. \A d \in Clients : calls[d].at = "answered" => d # c /\ calls'[d] = calls[d]
  BY <1>1, <1>3
<1>5. CallInv' /\ ChargeInv'
  BY <1>1, <1>4 DEF CallInv, ChargeInv
<1>6. TaskInv'
  <2>1. ASSUME NEW t \in tasks' PROVE calls'[t.call].at = "answered"
    <3>1. CASE t \in tasks
      BY <1>4, <3>1 DEF TaskInv, Task
    <3>2. CASE t \in new
      BY <1>1, <3>2, TasksAre
    <3> QED BY <2>1, <3>1, <3>2
  <2>2. ASSUME NEW d \in Clients, Budget(d) \in tasks' PROVE calls'[d].status = 200
    <3>1. CASE Budget(d) \in tasks
      BY <1>4, <3>1, TasksAre DEF TaskInv
    <3>2. CASE Budget(d) \in new
      <4>1. d = c /\ Budget(c) \in new BY <3>2, TasksAre
      <4> QED BY <1>1, <4>1
    <3> QED BY <2>2, <3>1, <3>2
  <2> QED BY <2>1, <2>2 DEF TaskInv, Budget
<1>7. RowInv'
  BY <1>4, RowsStill
<1>8. Owed'
  <2> SUFFICES ASSUME NEW d \in Clients, calls'[d].at = "answered", ~ calls'[d].lost
               PROVE  /\ (RowOwed(d) \/ Taken(calls[d].id))'
                      /\ calls'[d].status = 200 => (ChargeOwed(d) \/ d \in charged)'
    BY DEF Owed
  <2>1. CASE d = c
    BY <1>1, <2>1 DEF RowOwed, ChargeOwed, Activity, Budget, Completion
  <2>2. CASE d # c
    BY <1>1, <2>2 DEF Owed, RowOwed, ChargeOwed, Taken, Activity, Budget, Completion
  <2> QED BY <2>1, <2>2
<1>9. LeftInv'
  BY <1>1 DEF LeftInv, InFlight, Waiting, Serving, Process
<1>10. CleanInv'
  BY <1>1, OthersStayClean
<1> QED BY <1>2, <1>5, <1>6, <1>7, <1>8, <1>9, <1>10

\* What a handler answers, in one piece or at the end of a stream.
LEMMA AnsweredKeeps ==
  ASSUME RecordInv, Serving, NEW c \in Clients, NEW status, status \in Recorded, NEW route, route \in BOOLEAN,
         calls[c].at \in Waiting, Answered(c, status, route),
         UNCHANGED <<access, rows, charged, gateway>>
  PROVE  RecordInv'
<1> DEFINE next == [calls[c] EXCEPT !.at = "answered", !.status = status, !.route = route]
           new == Recording(c, status)
<1>0. calls \in [Clients -> Call] /\ calls[c] \in Call /\ status \in Statuses
  BY DEF RecordInv, RecordTypeInv, Statuses
<1>1. next \in Call /\ next.at = "answered" /\ next.status = status /\ (calls[c].gone => next.gone)
  BY <1>0 DEF Call
<1>2. calls' = [calls EXCEPT ![c] = next] /\ tasks' = tasks \cup new
  BY <1>0 DEF Answered
<1>3. /\ new \subseteq {Activity(c), Budget(c), Completion(c)} /\ Activity(c) \in new
      /\ Budget(c) \in new <=> status = 200
  BY TasksAre DEF Recording, Recorded
<1>4. Budget(c) \in new => next.status = 200
  BY <1>1, <1>3
<1>5. next.lost \/ Completion(c) \in new \/ (Activity(c) \in new /\ (next.status = 200 => Budget(c) \in new))
  BY <1>1, <1>3
<1>6. next.status \in Recorded
  BY <1>1
<1>7. new \in SUBSET Task
  BY TasksAre DEF Recording
<1> HIDE DEF next, new
<1> QED BY <1>1, <1>2, <1>3, <1>4, <1>5, <1>6, <1>7, CallIsAnswered, ZenonT(30)

LEMMA RejectedKeeps ==
  ASSUME RecordInv, Serving, NEW c \in Clients, NEW status \in Refused,
         calls[c].at \in Waiting, Rejected(c, status),
         UNCHANGED <<access, rows, charged, gateway>>
  PROVE  RecordInv'
<1> DEFINE next == [calls[c] EXCEPT !.at = "rejected", !.status = status]
<1>0. calls \in [Clients -> Call] /\ calls[c] \in Call /\ status \in Statuses
  BY DEF RecordInv, RecordTypeInv, Statuses
<1>1. next \in Call /\ next.at = "rejected" /\ (calls[c].gone => next.gone)
  BY <1>0 DEF Call
<1>2. calls' = [calls EXCEPT ![c] = next] /\ tasks' = tasks
  BY <1>0 DEF Rejected
<1> HIDE DEF next
<1> QED BY <1>1, <1>2, CallMoves DEF Waiting

LEMMA StatusesAre ==
  /\ 200 \in Recorded /\ 429 \in Recorded /\ 499 \in Recorded /\ 500 \in Recorded
  /\ 502 \in Recorded /\ 503 \in Recorded
  /\ 401 \in Refused /\ 403 \in Refused /\ 500 \in Refused
  /\ TRUE \in BOOLEAN /\ FALSE \in BOOLEAN
BY DEF Recorded, Refused

\* It is answered without anything recorded, and known to be lost.
LEMMA UnrecordedKeeps ==
  ASSUME RecordInv, Serving, NEW c \in Clients, NEW status \in Recorded,
         calls[c].at \in Waiting,
         calls' = [calls EXCEPT ![c] = [calls[c] EXCEPT !.at = "answered", !.status = status, !.lost = TRUE]],
         UNCHANGED <<access, tasks, rows, charged, gateway>>
  PROVE  RecordInv'
<1> DEFINE next == [calls[c] EXCEPT !.at = "answered", !.status = status, !.lost = TRUE]
           new == {}
<1>0. calls \in [Clients -> Call] /\ calls[c] \in Call /\ status \in Statuses
  BY DEF RecordInv, RecordTypeInv, Statuses
<1>1. next \in Call /\ next.at = "answered" /\ next.status = status /\ next.lost /\ (calls[c].gone => next.gone)
  BY <1>0 DEF Call
<1>2. calls' = [calls EXCEPT ![c] = next] /\ tasks' = tasks \cup new
  OBVIOUS
<1>3. new \in SUBSET Task /\ new \subseteq {Activity(c), Budget(c), Completion(c)} /\ Budget(c) \notin new
  OBVIOUS
<1> HIDE DEF next, new
<1> QED BY <1>1, <1>2, <1>3, CallIsAnswered

LEMMA CallKeeps ==
  ASSUME RecordInv, NEW c \in Clients, CallStep(c)
  PROVE  RecordInv' \/ Complete(c) \/ Charge(c) \/ Write(c) \/ WriteRefused(c) \/ RecordingFails(c)
<1> USE DEF Waiting
<1>0. calls[c] \in Call /\ calls \in [Clients -> Call]
  BY DEF RecordInv, RecordTypeInv
<1>1. CASE Submit(c)
  <2>1. PICK id \in IdsOf[c], stream \in BOOLEAN :
          calls' = [calls EXCEPT ![c].at = "arrived", ![c].id = id, ![c].stream = stream]
    BY <1>1 DEF Submit
  <2> DEFINE next == [calls[c] EXCEPT !.at = "arrived", !.id = id, !.stream = stream]
  <2>2. next \in Call /\ next.at = "arrived" /\ next.gone = calls[c].gone
    BY <1>0 DEF Call
  <2>3. calls' = [calls EXCEPT ![c] = next]
    BY <1>0, <2>1
  <2> HIDE DEF next
  <2>4. gateway.state = "up" /\ Serving /\ calls[c].at = "idle" /\ UNCHANGED <<access, tasks, rows, charged, gateway>>
    BY <1>1 DEF Submit, Serving
  <2> QED BY <2>2, <2>3, <2>4, CallMoves
<1>2. CASE Authenticate(c)
  <2>1. Serving /\ calls[c].at = "arrived" /\ UNCHANGED <<access, rows, charged, gateway>>
    BY <1>2 DEF Authenticate
  <2>2. CASE access.enabled
    <3> DEFINE next == [calls[c] EXCEPT !.at = "authenticated", !.full = access.full]
    <3>1. next \in Call /\ next.at = "authenticated" /\ next.gone = calls[c].gone
      BY <1>0 DEF Call, RecordInv, RecordTypeInv
    <3>2. calls' = [calls EXCEPT ![c] = next] /\ tasks' = tasks
      BY <1>0, <1>2, <2>2 DEF Authenticate
    <3> HIDE DEF next
    <3> QED BY <2>1, <3>1, <3>2, CallMoves
  <2>3. CASE ~ access.enabled
    <3>1. Rejected(c, 401)
      BY <1>2, <2>3 DEF Authenticate
    <3> QED BY <2>1, <3>1, StatusesAre, RejectedKeeps
  <2> QED BY <2>2, <2>3
<1>3. CASE Authorize(c)
  <2>1. Serving /\ calls[c].at = "authenticated" /\ UNCHANGED <<access, rows, charged, gateway>>
    BY <1>3 DEF Authorize
  <2>2. CASE access.granted
    <3> DEFINE next == [calls[c] EXCEPT !.at = "routing"]
    <3>1. next \in Call /\ next.at = "routing" /\ next.gone = calls[c].gone
      BY <1>0 DEF Call
    <3>2. calls' = [calls EXCEPT ![c] = next] /\ tasks' = tasks
      BY <1>0, <1>3, <2>2 DEF Authorize
    <3> HIDE DEF next
    <3> QED BY <2>1, <3>1, <3>2, CallMoves
  <2>3. CASE ~ access.granted
    <3>1. Rejected(c, 403)
      BY <1>3, <2>3 DEF Authorize
    <3> QED BY <2>1, <3>1, StatusesAre, RejectedKeeps
  <2> QED BY <2>2, <2>3
<1>4. CASE AccessUnread(c)
  BY <1>4, StatusesAre, RejectedKeeps DEF AccessUnread
<1>5. CASE Refuse(c)
  <2>1. Serving /\ calls[c].at \in Waiting /\ UNCHANGED <<access, rows, charged, gateway>>
    BY <1>5 DEF Refuse
  <2>2. CASE Answered(c, 503, FALSE) BY <2>1, <2>2, StatusesAre, AnsweredKeeps
  <2>3. CASE Answered(c, 429, TRUE) BY <2>1, <2>3, StatusesAre, AnsweredKeeps
  <2> QED BY <1>5, <2>2, <2>3 DEF Refuse
<1>6. CASE RoutingFails(c)
  <2> DEFINE whole == ~ calls[c].stream
  <2>1. whole \in BOOLEAN
    BY Zenon
  <2>2. Serving /\ calls[c].at \in Waiting /\ UNCHANGED <<access, rows, charged, gateway>>
    BY <1>6 DEF RoutingFails
  <2>3. Answered(c, 500, whole)
    BY <1>6 DEF RoutingFails
  <2> HIDE DEF whole
  <2> QED BY <2>1, <2>2, <2>3, StatusesAre, AnsweredKeeps
<1>7. CASE Admit(c)
  <2> DEFINE next == [calls[c] EXCEPT !.at = "calling"]
  <2>1. next \in Call /\ next.at = "calling" /\ next.gone = calls[c].gone
    BY <1>0 DEF Call
  <2>2. calls' = [calls EXCEPT ![c] = next] /\ calls[c].at = "routing" /\ Serving
    BY <1>0, <1>7 DEF Admit
  <2>3. UNCHANGED <<access, tasks, rows, charged, gateway>>
    BY <1>7 DEF Admit
  <2> HIDE DEF next
  <2> QED BY <2>1, <2>2, <2>3, CallMoves
<1>8. CASE AttemptFails(c)
  <2> DEFINE next == [calls[c] EXCEPT !.failed = @ + 1]
  <2>1. calls[c].failed \in 0..MaxAttempts /\ calls[c].failed < MaxAttempts
    BY <1>0, <1>8 DEF Call, AttemptFails
  <2>2. calls[c].failed + 1 \in 0..MaxAttempts
    BY <2>1, RecordAssumption
  <2>3. next \in Call /\ next.at = calls[c].at /\ next.gone = calls[c].gone
    BY <1>0, <2>2 DEF Call
  <2>4. calls' = [calls EXCEPT ![c] = next] /\ calls[c].at = "calling" /\ Serving
    BY <1>0, <1>8 DEF AttemptFails
  <2>5. UNCHANGED <<access, tasks, rows, charged, gateway>>
    BY <1>8 DEF AttemptFails
  <2> HIDE DEF next
  <2> QED BY <2>3, <2>4, <2>5, CallMoves
<1>9. CASE Exhausted(c) \/ ReleasedAgain(c)
  <2>1. Serving /\ calls[c].at \in Waiting /\ UNCHANGED <<access, rows, charged, gateway>>
    BY <1>9 DEF Exhausted, ReleasedAgain
  <2>2. CASE Answered(c, 502, TRUE) BY <2>1, <2>2, StatusesAre, AnsweredKeeps
  <2>3. CASE Answered(c, 500, FALSE) BY <2>1, <2>3, StatusesAre, AnsweredKeeps
  <2> QED BY <1>9, <2>2, <2>3 DEF Exhausted, ReleasedAgain
<1>13. CASE ExhaustedUnreleased(c)
  <2> DEFINE next == [calls[c] EXCEPT !.at = "unreleased"]
  <2>1. next \in Call /\ next.at = "unreleased" /\ next.gone = calls[c].gone
    BY <1>0 DEF Call
  <2>2. calls' = [calls EXCEPT ![c] = next] /\ calls[c].at = "calling" /\ Serving
    BY <1>0, <1>13 DEF ExhaustedUnreleased
  <2>3. UNCHANGED <<access, tasks, rows, charged, gateway>>
    BY <1>13 DEF ExhaustedUnreleased
  <2> HIDE DEF next
  <2> QED BY <2>1, <2>2, <2>3, CallMoves
<1>14. CASE UnreleasedAgain(c)
  <2>1. Serving /\ calls[c].at \in Waiting /\ UNCHANGED <<access, tasks, rows, charged, gateway>>
    BY <1>14 DEF UnreleasedAgain
  <2>2. calls' = [calls EXCEPT ![c] = [calls[c] EXCEPT !.at = "answered", !.status = 500, !.lost = TRUE]]
    BY <1>0, <1>14 DEF UnreleasedAgain
  <2>3. 500 \in Recorded
    BY StatusesAre
  <2> QED BY <2>1, <2>2, <2>3, UnrecordedKeeps, Zenon
<1>10. CASE AttemptServes(c)
  <2>1. Serving /\ calls[c].at = "calling" /\ UNCHANGED <<access, rows, charged, gateway>>
    BY <1>10 DEF AttemptServes
  <2>2. CASE calls[c].stream
    <3> DEFINE next == [calls[c] EXCEPT !.at = "streaming", !.route = TRUE]
    <3>1. next \in Call /\ next.at = "streaming" /\ next.gone = calls[c].gone
      BY <1>0 DEF Call
    <3>2. calls' = [calls EXCEPT ![c] = next] /\ tasks' = tasks
      BY <1>0, <1>10, <2>2 DEF AttemptServes
    <3> HIDE DEF next
    <3> QED BY <2>1, <3>1, <3>2, CallMoves
  <2>3. CASE ~ calls[c].stream
    <3>1. Answered(c, 200, TRUE)
      BY <1>10, <2>3 DEF AttemptServes
    <3> QED BY <2>1, <3>1, StatusesAre, AnsweredKeeps
  <2> QED BY <2>2, <2>3
<1>11. CASE StreamSettles(c)
  <2>1. PICK status \in Recorded : calls' = [calls EXCEPT ![c].at = "answered", ![c].status = status]
    <3>1. PICK status \in IF calls[c].gone THEN {499} ELSE {200, 502} :
            calls' = [calls EXCEPT ![c].at = "answered", ![c].status = status]
      BY <1>11 DEF StreamSettles
    <3>2. status \in Recorded
      BY StatusesAre
    <3> QED BY <3>1, <3>2
  <2> DEFINE next == [calls[c] EXCEPT !.at = "answered", !.status = status]
             new == {Completion(c)}
  <2>2. next \in Call /\ next.at = "answered" /\ next.status = status /\ next.gone = calls[c].gone
    BY <1>0 DEF Call, Statuses
  <2>3. calls' = [calls EXCEPT ![c] = next]
    BY <1>0, <2>1
  <2>6. calls[c].at = "streaming" /\ Serving
    BY <1>11 DEF StreamSettles
  <2>4. tasks' = tasks \cup new /\ UNCHANGED <<access, rows, charged, gateway>>
    BY <1>11 DEF StreamSettles
  <2>5. new \in SUBSET Task /\ new \subseteq {Activity(c), Budget(c), Completion(c)} /\ Completion(c) \in new /\ Budget(c) \notin new
    BY TasksAre
  <2> HIDE DEF next, new
  <2> QED BY <2>2, <2>3, <2>4, <2>5, <2>6, CallIsAnswered
<1>12. CASE Depart(c)
  <2> DEFINE next == [calls[c] EXCEPT !.gone = TRUE]
  <2>1. next \in Call /\ next.at = calls[c].at /\ next.gone
    BY <1>0 DEF Call
  <2>2. calls' = [calls EXCEPT ![c] = next] /\ calls[c].at \in Waiting /\ Serving
    BY <1>0, <1>12 DEF Depart, InFlight
  <2>3. UNCHANGED <<access, tasks, rows, charged, gateway>>
    BY <1>12 DEF Depart
  <2> HIDE DEF next
  <2> QED BY <2>1, <2>2, <2>3, CallMoves
<1> QED
  BY <1>1, <1>2, <1>3, <1>4, <1>5, <1>6, <1>7, <1>8, <1>9, <1>10, <1>11, <1>12, <1>13, <1>14 DEF CallStep

----------------------------------------------------------------------------
(* The tasks. *)

LEMMA CompleteKeeps ==
  ASSUME RecordInv, NEW c \in Clients, Complete(c)
  PROVE  RecordInv'
<1> USE DEF RecordInv, RecordTypeInv
<1>1. /\ Serving /\ Completion(c) \in tasks
      /\ tasks' = (tasks \ {Completion(c)}) \cup Recording(c, calls[c].status)
      /\ UNCHANGED <<access, calls, rows, charged, gateway, incidents>>
  BY DEF Complete
<1>2. calls[c].at = "answered" /\ calls[c].status \in Recorded
  BY <1>1, TasksAre DEF TaskInv, CallInv
<1>3. /\ Recording(c, calls[c].status) \subseteq {Activity(c), Budget(c)}
      /\ Activity(c) \in Recording(c, calls[c].status)
      /\ Budget(c) \in Recording(c, calls[c].status) <=> calls[c].status = 200
  BY <1>2, TasksAre DEF Recording, Recorded
<1>4. RecordTypeInv'
  BY <1>1, <1>3, TasksAre
<1>5. TaskInv'
  <2>1. ASSUME NEW t \in tasks' PROVE calls[t.call].at = "answered"
    BY <1>1, <1>2, <1>3, TasksAre DEF TaskInv
  <2>2. ASSUME NEW d \in Clients, Budget(d) \in tasks' PROVE calls[d].status = 200
    BY <1>1, <1>3, <2>2, TasksAre DEF TaskInv
  <2> QED BY <1>1, <2>1, <2>2 DEF TaskInv, Budget
<1>6. Owed'
  <2> SUFFICES ASSUME NEW d \in Clients, calls[d].at = "answered", ~ calls[d].lost
               PROVE  /\ (RowOwed(d) \/ Taken(calls[d].id))'
                      /\ calls[d].status = 200 => (ChargeOwed(d) \/ d \in charged)'
    BY <1>1 DEF Owed
  <2>1. CASE d = c
    BY <1>1, <1>3, <2>1 DEF RowOwed, ChargeOwed, Activity, Budget
  <2>2. CASE d # c
    <3>1. /\ Activity(d) \in tasks => Activity(d) \in tasks'
          /\ Budget(d) \in tasks => Budget(d) \in tasks'
          /\ Completion(d) \in tasks => Completion(d) \in tasks'
      BY <1>1, <2>2, TasksAre
    <3> QED BY <1>1, <3>1 DEF Owed, RowOwed, ChargeOwed, Taken, Activity, Budget, Completion
  <2> QED BY <2>1, <2>2
<1>7. RowInv'
  BY <1>1, RowsStill
<1> QED
  BY <1>1, <1>4, <1>5, <1>6, <1>7 DEF CallInv, ChargeInv, LeftInv, InFlight, CleanInv, Serving, Taken

\* A task is done, and something else takes its place or it is not owed.
LEMMA TaskIsDone ==
  ASSUME RecordInv, NEW t \in tasks, Done(t)
  PROVE  /\ tasks' \subseteq Task
         /\ \A u \in tasks' : calls[u.call].at = "answered"
         /\ \A d \in Clients : Budget(d) \in tasks' => calls[d].status = 200
         /\ \A u \in tasks : u # t => u \in tasks'
BY DEF RecordInv, RecordTypeInv, TaskInv, Done

LEMMA ChargeKeeps ==
  ASSUME RecordInv, NEW c \in Clients, Charge(c)
  PROVE  RecordInv'
<1> USE DEF RecordInv, RecordTypeInv
<1>1. /\ Serving /\ Budget(c) \in tasks /\ Done(Budget(c)) /\ charged' = charged \cup {c}
      /\ UNCHANGED <<access, calls, rows, gateway, incidents>>
  BY DEF Charge
<1>2. calls[c].at = "answered" /\ calls[c].status = 200
  BY <1>1, TasksAre DEF TaskInv
<1>3. RecordTypeInv' /\ TaskInv'
  BY <1>1, TaskIsDone DEF TaskInv, Budget
<1>4. Owed'
  <2> SUFFICES ASSUME NEW d \in Clients, calls[d].at = "answered", ~ calls[d].lost
               PROVE  /\ (RowOwed(d) \/ Taken(calls[d].id))'
                      /\ calls[d].status = 200 => (ChargeOwed(d) \/ d \in charged)'
    BY <1>1 DEF Owed
  <2>1. /\ Activity(d) \in tasks => Activity(d) \in tasks'
        /\ Completion(d) \in tasks => Completion(d) \in tasks'
        /\ Budget(d) \in tasks => Budget(d) \in tasks' \/ d = c
    BY <1>1, TaskIsDone, TasksAre
  <2> QED BY <1>1, <2>1 DEF Owed, RowOwed, ChargeOwed, Taken, Activity, Budget, Completion
<1>5. RowInv'
  BY <1>1, RowsStill
<1> QED
  BY <1>1, <1>2, <1>3, <1>4, <1>5 DEF CallInv, ChargeInv, LeftInv, InFlight, CleanInv, Serving, Taken

LEMMA WriteKeeps ==
  ASSUME RecordInv, NEW c \in Clients, Write(c)
  PROVE  RecordInv'
<1> USE DEF RecordInv, RecordTypeInv
<1>1. /\ Serving /\ Activity(c) \in tasks /\ ~ Taken(calls[c].id)
      /\ rows' = rows \cup {RowOf(c)} /\ Done(Activity(c))
      /\ UNCHANGED <<access, calls, charged, gateway, incidents>>
  BY DEF Write
<1>2. calls[c].at = "answered"
  BY <1>1, TasksAre DEF TaskInv
<1>3. RowOf(c).call = c /\ RowOf(c).id = calls[c].id
  BY DEF RowOf
<1>4. RecordTypeInv' /\ TaskInv'
  BY <1>1, <1>3, TaskIsDone DEF TaskInv, Budget
<1>5. RowInv'
  <2>1. ASSUME NEW row \in rows' PROVE calls'[row.call].at = "answered" /\ row = RowOf(row.call)'
    <3>1. calls[row.call].at = "answered" /\ row = RowOf(row.call)
      BY <1>1, <1>2, <1>3 DEF RowInv
    <3>2. RowOf(row.call)' = RowOf(row.call)
      BY <1>1 DEF RowOf, FallbackEvents, Succeeded
    <3> QED BY <1>1, <3>1, <3>2
  <2>2. ASSUME NEW row \in rows', NEW other \in rows', other.id = row.id PROVE other = row
    BY <1>1, <1>3, <2>2 DEF RowInv, Taken
  <2> QED BY <2>1, <2>2 DEF RowInv
<1>6. Owed'
  <2> SUFFICES ASSUME NEW d \in Clients, calls[d].at = "answered", ~ calls[d].lost
               PROVE  /\ (RowOwed(d) \/ Taken(calls[d].id))'
                      /\ calls[d].status = 200 => (ChargeOwed(d) \/ d \in charged)'
    BY <1>1 DEF Owed
  <2>1. /\ Activity(d) \in tasks => Activity(d) \in tasks' \/ d = c
        /\ Completion(d) \in tasks => Completion(d) \in tasks'
        /\ Budget(d) \in tasks => Budget(d) \in tasks'
    BY <1>1, TaskIsDone, TasksAre
  <2>2. Taken(calls[d].id) => Taken(calls[d].id)'
    BY <1>1 DEF Taken
  <2>3. d = c => Taken(calls[d].id)'
    BY <1>1, <1>3 DEF Taken
  <2> QED BY <1>1, <2>1, <2>2, <2>3 DEF Owed, RowOwed, ChargeOwed, Activity, Budget, Completion
<1> QED
  BY <1>1, <1>4, <1>5, <1>6 DEF CallInv, ChargeInv, LeftInv, InFlight, CleanInv, Serving, Taken

LEMMA WriteRefusedKeeps ==
  ASSUME RecordInv, NEW c \in Clients, WriteRefused(c)
  PROVE  RecordInv'
<1> USE DEF RecordInv, RecordTypeInv
<1>1. /\ Serving /\ Activity(c) \in tasks /\ Taken(calls[c].id) /\ Done(Activity(c))
      /\ UNCHANGED <<access, calls, rows, charged, gateway, incidents>>
  BY DEF WriteRefused
<1>2. RecordTypeInv' /\ TaskInv'
  BY <1>1, TaskIsDone DEF TaskInv, Budget
<1>3. Owed'
  <2> SUFFICES ASSUME NEW d \in Clients, calls[d].at = "answered", ~ calls[d].lost
               PROVE  /\ (RowOwed(d) \/ Taken(calls[d].id))'
                      /\ calls[d].status = 200 => (ChargeOwed(d) \/ d \in charged)'
    BY <1>1 DEF Owed
  <2>1. /\ Activity(d) \in tasks => Activity(d) \in tasks' \/ d = c
        /\ Completion(d) \in tasks => Completion(d) \in tasks'
        /\ Budget(d) \in tasks => Budget(d) \in tasks'
    BY <1>1, TaskIsDone, TasksAre
  <2> QED BY <1>1, <2>1 DEF Owed, RowOwed, ChargeOwed, Taken, Activity, Budget, Completion
<1>4. RowInv'
  BY <1>1, RowsStill
<1> QED
  BY <1>1, <1>2, <1>3, <1>4 DEF CallInv, ChargeInv, LeftInv, InFlight, CleanInv, Serving, Taken

LEMMA RecordingFailsKeeps ==
  ASSUME RecordInv, NEW c \in Clients, RecordingFails(c)
  PROVE  RecordInv'
<1> USE DEF RecordInv, RecordTypeInv
<1>1. PICK t \in {Activity(c), Budget(c)} \cap tasks : Done(t)
  BY DEF RecordingFails
<1>2. /\ Serving /\ calls' = [calls EXCEPT ![c].lost = TRUE]
      /\ UNCHANGED <<access, rows, charged, gateway>>
  BY DEF RecordingFails
<1>3. calls' \in [Clients -> Call] /\ calls'[c].lost
  <2>0. calls[c] \in Call
    OBVIOUS
  <2>1. [calls[c] EXCEPT !.lost = TRUE] \in Call
    BY <2>0 DEF Call
  <2>2. calls' = [calls EXCEPT ![c] = [calls[c] EXCEPT !.lost = TRUE]]
    BY <1>2
  <2> QED BY <2>1, <2>2 DEF Call
<1>4. \A d \in Clients :
        /\ calls'[d].at = calls[d].at /\ calls'[d].id = calls[d].id /\ calls'[d].status = calls[d].status
        /\ calls'[d].route = calls[d].route /\ calls'[d].full = calls[d].full
        /\ calls'[d].failed = calls[d].failed /\ calls'[d].gone = calls[d].gone
        /\ d # c => calls'[d] = calls[d]
  BY <1>2 DEF Call
<1>5. RecordTypeInv'
  BY <1>1, <1>2, <1>3, TaskIsDone
<1>6. TaskInv'
  <2>1. ASSUME NEW u \in tasks' PROVE calls'[u.call].at = "answered"
    BY <1>1, <1>4, TaskIsDone DEF Task
  <2>2. ASSUME NEW d \in Clients, Budget(d) \in tasks' PROVE calls'[d].status = 200
    BY <1>1, <1>4, <2>2, TaskIsDone
  <2> QED BY <2>1, <2>2 DEF TaskInv, Budget
<1>7. Owed'
  <2> SUFFICES ASSUME NEW d \in Clients, calls'[d].at = "answered", ~ calls'[d].lost
               PROVE  /\ (RowOwed(d) \/ Taken(calls[d].id))'
                      /\ calls'[d].status = 200 => (ChargeOwed(d) \/ d \in charged)'
    BY DEF Owed
  <2>1. d # c /\ calls'[d] = calls[d]
    BY <1>3, <1>4
  <2>2. /\ Activity(d) \in tasks => Activity(d) \in tasks'
        /\ Completion(d) \in tasks => Completion(d) \in tasks'
        /\ Budget(d) \in tasks => Budget(d) \in tasks'
    BY <1>1, <2>1, TaskIsDone, TasksAre
  <2> QED BY <1>2, <2>1, <2>2 DEF Owed, RowOwed, ChargeOwed, Taken, Activity, Budget, Completion
<1>8. RowInv'
  BY <1>2, <1>4, RowsStill
<1>9. CallInv' /\ ChargeInv' /\ LeftInv'
  BY <1>2, <1>4 DEF CallInv, ChargeInv, LeftInv, InFlight, Serving, Process
<1>10. CleanInv'
  <2> SUFFICES ASSUME gateway.state \in {"stopping", "exited"}, gateway.code = 0, NEW d \in Clients \ gateway.behind
               PROVE  /\ calls'[d].at \notin Waiting \cup {"cut"}
                      /\ calls'[d].at = "answered" /\ ~ calls'[d].lost =>
                           Taken(calls[d].id)' /\ (calls'[d].status = 200 => d \in charged)
    BY <1>2 DEF CleanInv
  <2>1. d = c => calls'[d].lost
    BY <1>3
  <2> QED BY <1>2, <1>4, <2>1 DEF CleanInv, Taken
<1> QED BY <1>5, <1>6, <1>7, <1>8, <1>9, <1>10

----------------------------------------------------------------------------
(* Shutdown. *)

LEMMA EditKeeps == RecordInv /\ EditKey => RecordInv'
<1> SUFFICES ASSUME RecordInv, EditKey PROVE RecordInv'
  OBVIOUS
<1>1. UNCHANGED <<calls, tasks, rows, charged, gateway>>
  BY DEF EditKey
<1>2. access' \in [enabled : BOOLEAN, granted : BOOLEAN, full : BOOLEAN]
  <2>1. PICK field \in DOMAIN access : access' = [access EXCEPT ![field] = ~ @]
    BY DEF EditKey
  <2>2. DOMAIN access = {"enabled", "granted", "full"}
    BY DEF RecordInv, RecordTypeInv
  <2>3. /\ field = "enabled" => access' = [access EXCEPT !.enabled = ~ @]
        /\ field = "granted" => access' = [access EXCEPT !.granted = ~ @]
        /\ field = "full" => access' = [access EXCEPT !.full = ~ @]
    BY <2>1
  <2> QED BY <2>1, <2>2, <2>3 DEF RecordInv, RecordTypeInv
<1>3. RowInv'
  BY <1>1, RowsStill DEF RecordInv, RecordTypeInv
<1> QED
  BY <1>1, <1>2, <1>3
  DEF RecordInv, RecordTypeInv, CallInv, TaskInv, ChargeInv, Owed, RowOwed, ChargeOwed, Taken, LeftInv, InFlight, CleanInv,
      Serving, Activity, Budget, Completion

\* A step of the process that leaves requests and records alone.
LEMMA ProcessKeeps ==
  ASSUME RecordInv, UNCHANGED <<access, calls, tasks, rows, charged>>, Serving, gateway' \in Process,
         gateway'.state \in {"closing", "draining"}, gateway'.behind = gateway.behind,
         gateway'.state = "draining" => \A c \in Clients : InFlight(c) => calls[c].gone
  PROVE  RecordInv'
<1>1. RowInv'
  BY RowsStill DEF RecordInv, RecordTypeInv
<1> QED
  BY <1>1
  DEF RecordInv, RecordTypeInv, CallInv, TaskInv, ChargeInv, Owed, RowOwed, ChargeOwed, Taken, LeftInv, InFlight, CleanInv,
      Serving, Activity, Budget, Completion

\* The drain is over, and what it waited for is recorded.
LEMMA StoppingKeeps ==
  ASSUME RecordInv, NEW code \in {0, 1}, Stopping(code), code = 0 => Drained
  PROVE  RecordInv'
<1> USE DEF RecordInv, RecordTypeInv
<1>1. /\ gateway.state = "draining" /\ Serving /\ UNCHANGED <<access, calls, tasks, rows, charged>>
      /\ gateway' = [state |-> "stopping", code |-> code, awaits |-> {}, behind |-> {c \in Clients : InFlight(c)}]
  BY DEF Stopping, Serving
<1>2. /\ gateway' \in Process /\ gateway'.state = "stopping" /\ gateway'.code = code
      /\ gateway'.behind = {c \in Clients : InFlight(c)}
  BY <1>1 DEF Process
<1>3. RowInv'
  BY <1>1, RowsStill
<1>4. LeftInv'
  BY <1>1, <1>2 DEF LeftInv, InFlight, Serving
<1>5. CleanInv'
  <2> SUFFICES ASSUME code = 0, NEW c \in Clients, ~ InFlight(c)
               PROVE  /\ calls[c].at \notin Waiting \cup {"cut"}
                      /\ calls[c].at = "answered" /\ ~ calls[c].lost =>
                           Taken(calls[c].id)' /\ (calls[c].status = 200 => c \in charged)
    BY <1>1, <1>2 DEF CleanInv
  <2>1. tasks = {}
    BY DEF Drained
  <2> QED BY <1>1, <2>1 DEF Owed, RowOwed, ChargeOwed, LeftInv, InFlight, Waiting, Taken
<1> QED
  BY <1>1, <1>2, <1>3, <1>4, <1>5
  DEF CallInv, TaskInv, ChargeInv, Owed, RowOwed, ChargeOwed, Taken, Serving, Activity, Budget, Completion

LEMMA ExitKeeps ==
  ASSUME RecordInv, Serving, NEW code \in {0, 1, 137}, Exit(code),
         code = 0 => gateway.state = "stopping" /\ gateway.code = 0
  PROVE  RecordInv'
<1> USE DEF RecordInv, RecordTypeInv
<1>1. /\ gateway' = [gateway EXCEPT !.state = "exited", !.code = code, !.awaits = {}]
      /\ tasks' = {} /\ UNCHANGED <<access, rows, charged>>
      /\ calls' = [c \in Clients |-> IF InFlight(c) THEN [calls[c] EXCEPT !.at = "cut"] ELSE calls[c]]
  BY DEF Exit
<1>2. gateway' \in Process /\ gateway'.state = "exited" /\ gateway'.code = code /\ gateway'.behind = gateway.behind
  BY <1>1 DEF Process
<1>3. calls' \in [Clients -> Call]
  BY <1>1 DEF Call
<1>4. \A c \in Clients : calls[c].at = "answered" => calls'[c] = calls[c]
  BY <1>1 DEF InFlight
<1>5. \A c \in Clients : calls'[c].at = "answered" => calls'[c] = calls[c]
  BY <1>1 DEF Call
<1>6. RecordTypeInv' /\ CallInv' /\ TaskInv' /\ ChargeInv'
  <2>1. RecordTypeInv'
    BY <1>1, <1>2, <1>3
  <2>2. CallInv' /\ TaskInv'
    BY <1>1, <1>5 DEF CallInv, TaskInv
  <2>3. ChargeInv'
    <3>1. charged' = charged
      BY <1>1
    <3> QED BY <1>4, <3>1 DEF ChargeInv
  <2> QED BY <2>1, <2>2, <2>3
<1>7. RowInv'
  BY <1>1, <1>4, RowsStill
<1>8. Owed' /\ LeftInv'
  <2>1. \A c \in Clients : calls'[c].gone = calls[c].gone
    BY <1>1 DEF Call
  <2> QED BY <1>2, <2>1 DEF Owed, LeftInv, Serving, Process
<1>9. CleanInv'
  <2> SUFFICES ASSUME code = 0, NEW c \in Clients \ gateway.behind
               PROVE  /\ calls'[c].at \notin Waiting \cup {"cut"}
                      /\ calls'[c].at = "answered" /\ ~ calls'[c].lost =>
                           Taken(calls[c].id)' /\ (calls'[c].status = 200 => c \in charged')
    BY <1>1, <1>2 DEF CleanInv
  <2>1. /\ calls[c].at \notin Waiting \cup {"cut"}
        /\ calls[c].at = "answered" /\ ~ calls[c].lost =>
             Taken(calls[c].id) /\ (calls[c].status = 200 => c \in charged)
    BY DEF CleanInv
  <2>2. calls'[c] = calls[c]
    BY <1>1, <2>1 DEF InFlight, Waiting
  <2> QED BY <1>1, <2>1, <2>2 DEF Taken
<1> QED BY <1>6, <1>7, <1>8, <1>9

----------------------------------------------------------------------------
(* The theorems. *)

LEMMA RecordInvInit == RecordInit => RecordInv
<1> SUFFICES ASSUME RecordInit PROVE RecordInv
  OBVIOUS
<1>1. NoCall \in Call /\ NoCall.at = "idle"
  BY RecordAssumption DEF NoCall, Call, Statuses
<1>2. /\ calls \in [Clients -> Call] /\ \A c \in Clients : calls[c].at = "idle"
      /\ access \in [enabled : BOOLEAN, granted : BOOLEAN, full : BOOLEAN]
      /\ tasks = {} /\ rows = {} /\ charged = {}
      /\ gateway \in Process /\ gateway.state = "up" /\ gateway.behind = {}
  BY <1>1 DEF RecordInit, Process
<1> QED
  BY <1>2 DEF RecordInv, RecordTypeInv, CallInv, TaskInv, RowInv, ChargeInv, Owed, LeftInv, CleanInv

LEMMA RecordInvNext == RecordInv /\ [RecordNext]_recordVars => RecordInv'
<1> SUFFICES ASSUME RecordInv, [RecordNext]_recordVars PROVE RecordInv'
  OBVIOUS
<1>1. CASE EditKey
  BY <1>1, EditKeeps
<1>2. ASSUME NEW c \in Clients, CallStep(c) PROVE RecordInv'
  BY <1>2, CallKeeps, CompleteKeeps, ChargeKeeps, WriteKeeps, WriteRefusedKeeps, RecordingFailsKeeps
<1>p. gateway \in Process /\ tasks \subseteq Task
  BY DEF RecordInv, RecordTypeInv
<1>3. CASE Shutdown
  <2>1. gateway' = [gateway EXCEPT !.state = "closing"] /\ gateway.state = "up"
    BY <1>3 DEF Shutdown
  <2>2. gateway' \in Process /\ gateway'.state = "closing" /\ gateway'.behind = gateway.behind
    BY <1>p, <2>1 DEF Process
  <2> QED BY <1>3, <2>1, <2>2, ProcessKeeps DEF Shutdown, Serving
<1>4. CASE Closed
  <2>1. gateway' = [gateway EXCEPT !.state = "draining", !.awaits = tasks] /\ gateway.state = "closing"
    BY <1>4 DEF Closed
  <2>2. gateway' \in Process /\ gateway'.state = "draining" /\ gateway'.behind = gateway.behind
    BY <1>p, <2>1 DEF Process
  <2> QED BY <1>4, <2>1, <2>2, ProcessKeeps DEF Closed, Serving
<1>5. CASE AwaitAgain
  <2>1. gateway' = [gateway EXCEPT !.awaits = tasks] /\ gateway.state = "draining"
    BY <1>5 DEF AwaitAgain
  <2>2. gateway' \in Process /\ gateway'.state = "draining" /\ gateway'.behind = gateway.behind
    BY <1>p, <2>1 DEF Process
  <2>3. \A c \in Clients : InFlight(c) => calls[c].gone
    BY <2>1 DEF RecordInv, LeftInv, Serving
  <2> QED BY <1>5, <2>1, <2>2, <2>3, ProcessKeeps DEF AwaitAgain, Serving
<1>6. CASE DrainEnds \/ DrainTimesOut
  BY <1>6, StoppingKeeps DEF DrainEnds, DrainTimesOut
<1>7. CASE ExitStopped
  BY <1>7, <1>p, ExitKeeps DEF ExitStopped, Serving, Process
<1>8. CASE Killed
  BY <1>8, ExitKeeps DEF Killed
<1>9. CASE UNCHANGED recordVars
  <2>1. UNCHANGED <<access, calls, tasks, rows, charged, gateway>>
    BY <1>9 DEF recordVars
  <2>2. RowInv'
    BY <2>1, RowsStill DEF RecordInv, RecordTypeInv
  <2> QED
    BY <2>1, <2>2
    DEF RecordInv, RecordTypeInv, CallInv, TaskInv, ChargeInv, Owed, RowOwed, ChargeOwed, Taken, LeftInv, InFlight, CleanInv,
        Serving, Activity, Budget, Completion
<1> QED
  BY <1>1, <1>2, <1>3, <1>4, <1>5, <1>6, <1>7, <1>8, <1>9 DEF RecordNext

LEMMA RecordInvHolds == RecordSpec => []RecordInv
BY RecordInvInit, RecordInvNext, PTL DEF RecordSpec

LEMMA RecordInvIsTyped == RecordInv => RecordTypeOK
BY DEF RecordInv, RecordTypeInv, RecordTypeOK, Call, Task, Process, Statuses, Recorded, Refused

\* Attempts stay within their bound, tasks are those of the requests, and the
\* process is in one of its states.
THEOREM RecordTyped == RecordSpec => []RecordTypeOK
BY RecordInvIsTyped, RecordInvHolds, PTL

\* However the requests, the edits of the key, the background tasks, database errors
\* and the shutdown interleave: a row of request_activity says what happened to its
\* request, there is one of each request id, only successes are charged, and a
\* gateway that exits with code 0 has recorded and charged all that it answered before
\* its drain ended (GatewayBackgroundTaskRegistry.drain), but for what a database error
\* lost; what it answered later, and what it cut, are requests whose client had left.
THEOREM RecordsHold == RecordSpec => []RecordsAreTrue
<1>1. RecordInv => RecordsAreTrue
  <2> SUFFICES ASSUME RecordInv PROVE RecordsAreTrue
    OBVIOUS
  <2>1. ASSUME NEW row \in rows
        PROVE  /\ calls[row.call].at = "answered" /\ RecordedAs(row.call, row)
               /\ row.route => row.failed = calls[row.call].failed
               /\ row.usage <=> row.status = 200
               /\ \A other \in rows : other.id = row.id => other = row
    <3> DEFINE c == row.call
    <3>1. c \in Clients /\ calls[c].at = "answered" /\ row = RowOf(c)
      BY DEF RecordInv, RecordTypeInv, RowInv
    <3>2. calls[c].status \in Recorded
      BY <3>1 DEF RecordInv, CallInv
    <3>3. /\ row.call = c /\ row.status = calls[c].status /\ row.full = calls[c].full
          /\ row.route = calls[c].route /\ row.failed = FallbackEvents(c) /\ row.usage = Succeeded(c)
      BY <3>1 DEF RowOf
    <3>4. row.usage <=> row.status = 200
      <4>1. calls[c].status < 400 <=> calls[c].status = 200
        BY <3>2 DEF Recorded
      <4>2. Succeeded(c) <=> calls[c].status = 200
        BY <4>1 DEF Succeeded
      <4> QED BY <3>3, <4>2
    <3>5. \A other \in rows : other.id = row.id => other = row
      BY DEF RecordInv, RowInv
    <3> QED BY <3>1, <3>3, <3>4, <3>5 DEF RecordedAs, FallbackEvents
  <2>2. \A c \in charged : calls[c].status = 200
    BY DEF RecordInv, ChargeInv
  <2>3. ASSUME gateway.state = "exited", gateway.code = 0, NEW c \in Clients
        PROVE  /\ calls[c].at = "answered" /\ ~ calls[c].lost /\ c \notin gateway.behind =>
                    /\ \E row \in rows : row.call = c \/ row.id = calls[c].id
                    /\ calls[c].status = 200 => c \in charged
               /\ calls[c].at = "cut" \/ c \in gateway.behind => calls[c].gone
    BY <2>3 DEF RecordInv, CleanInv, LeftInv, Taken
  <2> QED BY <2>1, <2>2, <2>3 DEF RecordsAreTrue
<1> QED BY <1>1, RecordInvHolds, PTL

----------------------------------------------------------------------------
(* RouteLatency: where an unsaved sample waits. *)

LatencyPhases == {"down", "up", "first", "last", "stopped"}
LatencyRow == [key : SampleKeys, count : 0..MaxCount]
LatencyStat == [phase : LatencyPhases, pool : Counts, dirty : SUBSET SampleKeys, flushing : BOOLEAN,
                batch : [keys : SUBSET SampleKeys, rows : Seq(LatencyRow)], kept : Counts,
                lastFailed : BOOLEAN, late : SUBSET SampleKeys]

\* A flush in flight has a batch of keys, and rows are left only of such a batch.
BatchHeld(s) ==
  /\ s.flushing <=> s.batch.keys # {}
  /\ ~ s.flushing => s.batch.rows = <<>>

\* A row that is still to be written is one of the batch's keys, and a row that
\* the memory has overtaken has a key that is dirty again.
RowsHeld(s) ==
  \A i \in DOMAIN s.batch.rows :
    LET row == s.batch.rows[i]
    IN row.key \in s.batch.keys /\ (row.count # s.pool[row.key] => row.key \in s.dirty)

\* A sample that is not saved is dirty, or in a row that is still to be written.
SamplesHeld(s) ==
  \A k \in SampleKeys :
    s.pool[k] # s.kept[k] =>
      \/ k \in s.dirty
      \/ \E i \in DOMAIN s.batch.rows : s.batch.rows[i] = [key |-> k, count |-> s.pool[k]]

\* The second flush of stop() took all that was dirty: unless it failed, what is
\* dirty after it was sampled after it.
LastFlushHeld(s) ==
  /\ s.phase \in {"last", "stopped"} /\ ~ s.lastFailed => s.dirty \subseteq s.late
  /\ s.phase = "stopped" => ~ s.flushing

GoodStat(s) ==
  /\ s \in LatencyStat
  /\ BatchHeld(s) /\ RowsHeld(s) /\ SamplesHeld(s) /\ LastFlushHeld(s)
  /\ s.phase = "down" => s = DownStats

LatencyInv ==
  /\ latencyStats \in Counts
  /\ flushFaults \in 0..MaxFlushFaults
  /\ stats \in [Gateways -> LatencyStat]
  /\ \A g \in Gateways : GoodStat(stats[g])

\* The rows of a batch are those of every dirty key: SetToSeq leaves none out.
LEMMA EveryKeyListed ==
  ASSUME NEW S, IsFiniteSet(S)
  PROVE  /\ Cardinality(S) \in Nat
         /\ SetToSeq(S) \in [1..Cardinality(S) -> S]
         /\ \A x \in S : \E i \in 1..Cardinality(S) : SetToSeq(S)[i] = x
<1> DEFINE n == Cardinality(S)
<1>1. n \in Nat /\ ExistsBijection(1..n, S)
  BY FS_CardinalityType
<1>2. PICK f : f \in Bijection(1..n, S)
  BY <1>1 DEF ExistsBijection
<1>3. f \in [1..n -> S] /\ IsInjective(f)
  BY <1>2 DEF Bijection, Injection
<1>4. SetToSeq(S) \in [1..n -> S] /\ IsInjective(SetToSeq(S))
  BY <1>3 DEF SetToSeq
<1>5. SetToSeq(S) \in Injection(1..n, S)
  BY <1>4 DEF Injection
<1>6. Cardinality(1..n) = Cardinality(S)
  BY <1>1, FS_Interval
<1>7. SetToSeq(S) \in Surjection(1..n, S)
  BY <1>5, <1>6, FS_Injection
<1> QED BY <1>1, <1>4, <1>7 DEF Surjection

\* Cutting a batch of what is dirty keeps every sample where it can be found.
LEMMA CutKeeps ==
  ASSUME NEW s, GoodStat(s), ~ s.flushing, s.dirty # {}, s.phase \in {"up", "first"}
  PROVE  GoodStat(Cut(s)) /\ Cut(s).dirty = {} /\ Cut(s).phase = s.phase
<1> DEFINE n == Cardinality(s.dirty)
           list == SetToSeq(s.dirty)
           rowsCut == [i \in 1..n |-> [key |-> list[i], count |-> s.pool[list[i]]]]
           cut == [s EXCEPT !.flushing = TRUE, !.batch = [keys |-> s.dirty, rows |-> rowsCut], !.dirty = {}]
<1>1. s \in LatencyStat /\ s.dirty \subseteq SampleKeys /\ s.pool \in Counts
  BY DEF GoodStat, LatencyStat
<1>2. IsFiniteSet(s.dirty)
  BY <1>1, LatencyAssumption, FS_Subset
<1>3. n \in Nat /\ list \in [1..n -> s.dirty] /\ \A k \in s.dirty : \E i \in 1..n : list[i] = k
  BY <1>2, EveryKeyListed
<1>4. Cut(s) = cut
  BY DEF Cut
<1>5. \A i \in 1..n : list[i] \in s.dirty /\ s.pool[list[i]] \in 0..MaxCount
  BY <1>1, <1>3 DEF Counts
<1>6. rowsCut \in Seq(LatencyRow) /\ DOMAIN rowsCut = 1..n
  <2>1. rowsCut \in [1..n -> LatencyRow]
    BY <1>1, <1>5 DEF LatencyRow
  <2> HIDE DEF rowsCut, n
  <2> QED BY <1>3, <2>1
<1>7. \A i \in 1..n : rowsCut[i].key = list[i] /\ rowsCut[i].count = s.pool[list[i]]
  OBVIOUS
<1>8. \A k \in s.dirty : \E i \in DOMAIN rowsCut : rowsCut[i] = [key |-> k, count |-> s.pool[k]]
  BY <1>3, <1>6
<1>9. s.batch.rows = <<>> /\ \A k \in SampleKeys : s.pool[k] # s.kept[k] => k \in s.dirty
  <2>1. s.batch.rows = <<>> BY DEF GoodStat, BatchHeld
  <2>2. DOMAIN s.batch.rows = {} BY <2>1
  <2>3. SamplesHeld(s) BY DEF GoodStat
  <2> QED BY <2>1, <2>2, <2>3 DEF SamplesHeld
<1> HIDE DEF rowsCut, list, n
<1>10. /\ cut \in LatencyStat /\ cut.dirty = {} /\ cut.flushing = TRUE /\ cut.batch.keys = s.dirty
       /\ cut.batch.rows = rowsCut /\ cut.pool = s.pool /\ cut.kept = s.kept /\ cut.phase = s.phase
       /\ cut.late = s.late /\ cut.lastFailed = s.lastFailed
  BY <1>1, <1>6 DEF LatencyStat
<1> HIDE DEF cut
<1>11. BatchHeld(cut)
  BY <1>10 DEF BatchHeld
<1>12. RowsHeld(cut)
  BY <1>5, <1>6, <1>7, <1>10 DEF RowsHeld
<1>13. SamplesHeld(cut)
  BY <1>8, <1>9, <1>10 DEF SamplesHeld
<1>14. LastFlushHeld(cut) /\ cut.phase # "down"
  BY <1>10 DEF LastFlushHeld
<1> QED BY <1>4, <1>10, <1>11, <1>12, <1>13, <1>14 DEF GoodStat

\* A flush called by stop() joins the one in flight or leaves nothing dirty.
LEMMA CalledKeeps ==
  ASSUME NEW s, GoodStat(s), s.phase \in {"up", "first"}
  PROVE  /\ GoodStat(Called(s)) /\ Called(s).phase = s.phase
         /\ ~ s.flushing => Called(s).dirty = {}
<1>1. s.flushing \in BOOLEAN
  BY DEF GoodStat, LatencyStat
<1>2. CASE s.flushing \/ s.dirty = {}
  BY <1>2 DEF Called
<1>3. CASE ~ (s.flushing \/ s.dirty = {})
  <2>1. Called(s) = Cut(s) BY <1>3 DEF Called
  <2> QED BY <1>3, <2>1, CutKeeps
<1> QED BY <1>2, <1>3

\* stop() moves on to its next flush, or to its end.
LEMMA PhaseMoves ==
  ASSUME NEW s, GoodStat(s), s.phase # "down", NEW p \in LatencyPhases, p # "down",
         LET next == [s EXCEPT !.phase = p] IN LastFlushHeld(next)
  PROVE  GoodStat([s EXCEPT !.phase = p])
<1> DEFINE next == [s EXCEPT !.phase = p]
<1>1. /\ next \in LatencyStat /\ next.dirty = s.dirty /\ next.flushing = s.flushing /\ next.batch = s.batch
      /\ next.pool = s.pool /\ next.kept = s.kept /\ next.phase = p
  BY DEF GoodStat, LatencyStat
<1>2. LastFlushHeld(next)
  OBVIOUS
<1> HIDE DEF next
<1>3. BatchHeld(next) /\ RowsHeld(next) /\ SamplesHeld(next)
  BY <1>1 DEF GoodStat, BatchHeld, RowsHeld, SamplesHeld
<1>4. GoodStat(next)
  BY <1>1, <1>2, <1>3 DEF GoodStat
<1> QED BY <1>4 DEF next

LEMMA LatencyMoves ==
  ASSUME LatencyInv, NEW g \in Gateways, NEW s, GoodStat(s), stats' = [stats EXCEPT ![g] = s],
         latencyStats' \in Counts, flushFaults' \in 0..MaxFlushFaults
  PROVE  LatencyInv'
<1>1. stats' \in [Gateways -> LatencyStat]
  BY DEF LatencyInv, GoodStat
<1>2. \A h \in Gateways : GoodStat(stats'[h])
  BY DEF LatencyInv
<1> QED BY <1>1, <1>2 DEF LatencyInv

LEMMA DownIsGood == GoodStat(DownStats)
<1> DEFINE s == DownStats
<1>1. [k \in SampleKeys |-> 0] \in Counts
  BY LatencyAssumption DEF Counts
<1>2. /\ s \in LatencyStat /\ s.flushing = FALSE /\ s.batch.keys = {} /\ s.batch.rows = <<>>
      /\ s.pool = s.kept /\ s.dirty = {}
  BY <1>1 DEF DownStats, NoFlush, LatencyStat, LatencyPhases
<1> HIDE DEF s
<1>3. BatchHeld(s) /\ RowsHeld(s) /\ SamplesHeld(s) /\ LastFlushHeld(s)
  BY <1>2 DEF BatchHeld, RowsHeld, SamplesHeld, LastFlushHeld
<1> QED BY <1>2, <1>3 DEF GoodStat, s

LEMMA LatencyInitially == LatencyInit => LatencyInv
<1> SUFFICES ASSUME LatencyInit PROVE LatencyInv
  OBVIOUS
<1>1. latencyStats \in Counts /\ flushFaults \in 0..MaxFlushFaults
  BY LatencyAssumption DEF LatencyInit, Counts
<1>2. stats = [g \in Gateways |-> DownStats]
  BY DEF LatencyInit
<1>3. DownStats \in LatencyStat
  BY DownIsGood DEF GoodStat
<1> QED BY <1>1, <1>2, <1>3, DownIsGood DEF LatencyInv

LEMMA NoFlushIs ==
  /\ NoFlush \in [keys : SUBSET SampleKeys, rows : Seq(LatencyRow)]
  /\ NoFlush.keys = {} /\ NoFlush.rows = <<>>
BY DEF NoFlush

LEMMA UpsertKeeps ==
  ASSUME LatencyInv, NEW g \in Gateways, Upsert(g)
  PROVE  LatencyInv'
<1> DEFINE s == stats[g]
           row == Head(s.batch.rows)
           next == [s EXCEPT !.batch.rows = Tail(s.batch.rows), !.kept[row.key] = row.count]
<1>1. s \in LatencyStat /\ BatchHeld(s) /\ RowsHeld(s) /\ SamplesHeld(s) /\ LastFlushHeld(s) /\ s.phase # "down"
  BY DEF LatencyInv, GoodStat, Upsert, DownStats
<1>2. s.flushing /\ s.batch.rows # <<>> /\ s.batch.rows \in Seq(LatencyRow)
  BY <1>1 DEF Upsert, LatencyStat
<1>3. row \in LatencyRow /\ row = s.batch.rows[1]
  BY <1>2
<1>4. row.key \in SampleKeys /\ row.count \in 0..MaxCount
  BY <1>3 DEF LatencyRow
<1>5. /\ stats' = [stats EXCEPT ![g] = next]
      /\ latencyStats' = [latencyStats EXCEPT ![row.key] = row.count]
      /\ flushFaults' = flushFaults
  BY DEF Upsert, LatencyInv
<1>6. latencyStats' \in Counts
  BY <1>4, <1>5 DEF Counts, LatencyInv
<1>7. /\ Tail(s.batch.rows) \in Seq(LatencyRow)
      /\ DOMAIN Tail(s.batch.rows) = 1..(Len(s.batch.rows) - 1)
      /\ \A i \in 1..(Len(s.batch.rows) - 1) : Tail(s.batch.rows)[i] = s.batch.rows[i + 1]
      /\ DOMAIN s.batch.rows = 1..Len(s.batch.rows) /\ Len(s.batch.rows) \in Nat \ {0}
  BY <1>2
<1> HIDE DEF row
<1>8. [s.kept EXCEPT ![row.key] = row.count] \in Counts
  BY <1>1, <1>4 DEF LatencyStat, Counts
<1>9. /\ next \in LatencyStat /\ next.dirty = s.dirty /\ next.flushing = s.flushing
      /\ next.batch.keys = s.batch.keys /\ next.batch.rows = Tail(s.batch.rows) /\ next.pool = s.pool
      /\ next.kept = [s.kept EXCEPT ![row.key] = row.count] /\ next.phase = s.phase
      /\ next.late = s.late /\ next.lastFailed = s.lastFailed
  BY <1>1, <1>7, <1>8 DEF LatencyStat
<1> HIDE DEF next
<1>10. BatchHeld(next) /\ LastFlushHeld(next)
  BY <1>1, <1>2, <1>9 DEF BatchHeld, LastFlushHeld
<1>11. RowsHeld(next)
  <2> SUFFICES ASSUME NEW i \in 1..(Len(s.batch.rows) - 1)
               PROVE  LET r == Tail(s.batch.rows)[i]
                      IN r.key \in s.batch.keys /\ (r.count # s.pool[r.key] => r.key \in s.dirty)
    BY <1>7, <1>9 DEF RowsHeld
  <2>1. i + 1 \in DOMAIN s.batch.rows /\ Tail(s.batch.rows)[i] = s.batch.rows[i + 1]
    BY <1>7
  <2> QED BY <1>1, <2>1 DEF RowsHeld
<1>12. SamplesHeld(next)
  <2> SUFFICES ASSUME NEW k \in SampleKeys, s.pool[k] # next.kept[k], k \notin s.dirty
               PROVE  \E i \in DOMAIN next.batch.rows : next.batch.rows[i] = [key |-> k, count |-> s.pool[k]]
    BY <1>9 DEF SamplesHeld
  <2>1. s.kept \in [SampleKeys -> 0..MaxCount]
    BY <1>1 DEF LatencyStat, Counts
  <2>2. k # row.key
    <3>1. row.count # s.pool[row.key] => row.key \in s.dirty
      BY <1>1, <1>3, <1>7 DEF RowsHeld
    <3> QED BY <1>4, <1>9, <2>1, <3>1
  <2>3. next.kept[k] = s.kept[k]
    BY <1>9, <2>1, <2>2
  <2>4. PICK i \in DOMAIN s.batch.rows : s.batch.rows[i] = [key |-> k, count |-> s.pool[k]]
    BY <1>1, <2>3 DEF SamplesHeld
  <2>5. i # 1
    BY <1>3, <2>2, <2>4
  <2>6. i - 1 \in 1..(Len(s.batch.rows) - 1) /\ Tail(s.batch.rows)[i - 1] = s.batch.rows[i]
    BY <1>7, <2>5
  <2> QED BY <1>7, <1>9, <2>4, <2>6
<1>13. GoodStat(next)
  BY <1>1, <1>9, <1>10, <1>11, <1>12 DEF GoodStat
<1> QED BY <1>5, <1>6, <1>13, LatencyMoves DEF LatencyInv

LEMMA FlushFailsKeeps ==
  ASSUME LatencyInv, NEW g \in Gateways, FlushFails(g)
  PROVE  LatencyInv'
<1> DEFINE s == stats[g]
           row == Head(s.batch.rows)
           failed == s.phase = "last"
           next == [s EXCEPT !.dirty = s.dirty \cup s.batch.keys, !.flushing = FALSE, !.batch = NoFlush,
                             !.lastFailed = failed]
<1>1. s \in LatencyStat /\ BatchHeld(s) /\ RowsHeld(s) /\ SamplesHeld(s) /\ LastFlushHeld(s) /\ s.phase # "down"
  BY DEF LatencyInv, GoodStat, FlushFails, DownStats
<1>2. s.flushing /\ s.batch.rows # <<>> /\ s.batch.rows \in Seq(LatencyRow)
  BY <1>1 DEF FlushFails, LatencyStat
<1>3. row \in LatencyRow
  BY <1>2
<1>4. row.key \in SampleKeys /\ row.count \in 0..MaxCount
  BY <1>3 DEF LatencyRow
<1>5. stats' = [stats EXCEPT ![g] = next]
  BY DEF FlushFails, Restored, LatencyInv
<1>6. latencyStats' \in Counts
  <2>1. latencyStats' = [latencyStats EXCEPT ![row.key] = row.count] \/ latencyStats' = latencyStats
    BY DEF FlushFails
  <2> HIDE DEF row
  <2> QED BY <1>4, <2>1 DEF Counts, LatencyInv
<1>7. flushFaults' \in 0..MaxFlushFaults
  BY LatencyAssumption DEF FlushFails, LatencyInv
<1>8. failed \in BOOLEAN /\ (s.phase = "last" => failed)
  BY Zenon
<1> HIDE DEF failed
<1>9. /\ next \in LatencyStat /\ next.dirty = s.dirty \cup s.batch.keys /\ next.flushing = FALSE
      /\ next.batch.keys = {} /\ next.batch.rows = <<>> /\ next.pool = s.pool
      /\ next.kept = s.kept /\ next.phase = s.phase /\ next.late = s.late
      /\ next.lastFailed = failed
  BY <1>1, <1>8, NoFlushIs DEF LatencyStat
<1> HIDE DEF next
<1>10. BatchHeld(next) /\ RowsHeld(next)
  BY <1>9 DEF BatchHeld, RowsHeld
<1>11. SamplesHeld(next)
  <2> SUFFICES ASSUME NEW k \in SampleKeys, s.pool[k] # s.kept[k], k \notin s.dirty
               PROVE  k \in s.batch.keys
    BY <1>9 DEF SamplesHeld
  <2>1. PICK i \in DOMAIN s.batch.rows : s.batch.rows[i] = [key |-> k, count |-> s.pool[k]]
    BY <1>1 DEF SamplesHeld
  <2>2. s.batch.rows[i].key = k
    BY <2>1
  <2> QED BY <1>1, <2>2 DEF RowsHeld
<1>12. LastFlushHeld(next)
  BY <1>1, <1>2, <1>8, <1>9 DEF LastFlushHeld
<1>13. GoodStat(next)
  BY <1>1, <1>9, <1>10, <1>11, <1>12 DEF GoodStat
<1> QED BY <1>5, <1>6, <1>7, <1>13, LatencyMoves

LEMMA RecordKeeps ==
  ASSUME LatencyInv, NEW g \in Gateways, NEW k \in SampleKeys, Record(g, k)
  PROVE  LatencyInv'
<1> DEFINE s == stats[g]
           late == IF s.phase \in {"last", "stopped"} THEN s.late \cup {k} ELSE s.late
           next == [s EXCEPT !.pool[k] = s.pool[k] + 1, !.dirty = s.dirty \cup {k}, !.late = late]
<1>1. s \in LatencyStat /\ BatchHeld(s) /\ RowsHeld(s) /\ SamplesHeld(s) /\ LastFlushHeld(s)
  BY DEF LatencyInv, GoodStat
<1>2. /\ s.phase # "down" /\ late \subseteq SampleKeys /\ s.late \subseteq late
      /\ s.phase \in {"last", "stopped"} => k \in late
  BY <1>1 DEF Record, LatencyStat
<1>3. stats' = [stats EXCEPT ![g] = next]
  BY DEF Record, LatencyInv
<1>4. s.pool[k] + 1 \in 0..MaxCount
  BY <1>1, LatencyAssumption DEF Record, LatencyStat, Counts
<1>5. [s.pool EXCEPT ![k] = s.pool[k] + 1] \in Counts
  BY <1>1, <1>4 DEF LatencyStat, Counts
<1> HIDE DEF late
<1>6. /\ next \in LatencyStat /\ next.dirty = s.dirty \cup {k} /\ next.flushing = s.flushing
      /\ next.batch = s.batch /\ next.pool = [s.pool EXCEPT ![k] = s.pool[k] + 1]
      /\ next.kept = s.kept /\ next.phase = s.phase /\ next.late = late
      /\ next.lastFailed = s.lastFailed
  BY <1>1, <1>2, <1>5 DEF LatencyStat
<1>7. \A other \in SampleKeys \ {k} : next.pool[other] = s.pool[other]
  BY <1>1, <1>6 DEF LatencyStat, Counts
<1> HIDE DEF next
<1>8. BatchHeld(next) /\ LastFlushHeld(next)
  BY <1>1, <1>2, <1>6 DEF BatchHeld, LastFlushHeld
<1>9. RowsHeld(next)
  <2>1. s.batch.rows \in Seq(LatencyRow)
    BY <1>1 DEF LatencyStat
  <2>2. \A i \in DOMAIN s.batch.rows : s.batch.rows[i] \in LatencyRow
    BY <2>1
  <2>3. \A i \in DOMAIN s.batch.rows : s.batch.rows[i].key \in SampleKeys
    BY <2>2 DEF LatencyRow
  <2> QED BY <1>1, <1>6, <1>7, <2>3 DEF RowsHeld
<1>10. SamplesHeld(next)
  BY <1>1, <1>6, <1>7 DEF SamplesHeld
<1>11. GoodStat(next)
  BY <1>1, <1>2, <1>6, <1>8, <1>9, <1>10 DEF GoodStat
<1>12. latencyStats' \in Counts /\ flushFaults' \in 0..MaxFlushFaults
  BY DEF Record, LatencyInv
<1> QED BY <1>3, <1>11, <1>12, LatencyMoves

LEMMA LatencyKeeps == LatencyInv /\ [LatencyNext]_latencyVars => LatencyInv'
<1> SUFFICES ASSUME LatencyInv, [LatencyNext]_latencyVars PROVE LatencyInv'
  OBVIOUS
<1>1. CASE UNCHANGED latencyVars
  BY <1>1 DEF LatencyInv, latencyVars
<1>2. CASE LatencyNext
  <2>1. PICK g \in Gateways :
          \/ Seed(g) \/ Flush(g) \/ Upsert(g) \/ FlushEnds(g) \/ FlushFails(g)
          \/ StopLatency(g) \/ FlushAwaited(g) \/ ExitLatency(g)
          \/ \E k \in SampleKeys : Record(g, k)
    BY <1>2 DEF LatencyNext
  <2> DEFINE s == stats[g]
  <2>2. s \in LatencyStat /\ GoodStat(s) /\ stats \in [Gateways -> LatencyStat]
    BY DEF LatencyInv
  <2>3. latencyStats \in Counts /\ flushFaults \in 0..MaxFlushFaults
    BY DEF LatencyInv
  <2>4. CASE Seed(g)
    <3>1. s = DownStats
      BY <2>2, <2>4 DEF Seed, GoodStat
    <3>2. CASE stats' = [stats EXCEPT ![g] = [@ EXCEPT !.phase = "up", !.pool = latencyStats, !.kept = latencyStats]]
      <4> DEFINE next == [s EXCEPT !.phase = "up", !.pool = latencyStats, !.kept = latencyStats]
      <4>0. s.flushing = FALSE /\ s.batch = NoFlush /\ NoFlush.keys = {} /\ NoFlush.rows = <<>>
        BY <3>1, NoFlushIs DEF DownStats
      <4>1. stats' = [stats EXCEPT ![g] = next]
        BY <3>2
      <4>2. /\ next \in LatencyStat /\ next.phase = "up" /\ next.flushing = FALSE /\ next.batch.keys = {}
            /\ next.batch.rows = <<>> /\ next.pool = next.kept
        BY <2>2, <2>3, <3>1, <4>0 DEF LatencyStat, LatencyPhases
      <4> HIDE DEF next
      <4>3. GoodStat(next)
        BY <4>2 DEF GoodStat, BatchHeld, RowsHeld, SamplesHeld, LastFlushHeld
      <4>4. latencyStats' \in Counts /\ flushFaults' \in 0..MaxFlushFaults
        BY <2>3, <2>4, LatencyAssumption DEF Seed
      <4> QED BY <4>1, <4>3, <4>4, LatencyMoves
    <3>3. CASE stats' = [stats EXCEPT ![g].phase = "up"]
      <4> DEFINE next == [s EXCEPT !.phase = "up"]
      <4>0. s.flushing = FALSE /\ s.batch = NoFlush /\ NoFlush.keys = {} /\ NoFlush.rows = <<>> /\ s.pool = s.kept
        BY <3>1, NoFlushIs DEF DownStats
      <4>1. stats' = [stats EXCEPT ![g] = next]
        BY <3>3
      <4>2. /\ next \in LatencyStat /\ next.phase = "up" /\ next.flushing = FALSE /\ next.batch.keys = {}
            /\ next.batch.rows = <<>> /\ next.pool = next.kept
        BY <2>2, <3>1, <4>0 DEF LatencyStat, LatencyPhases
      <4> HIDE DEF next
      <4>3. GoodStat(next)
        BY <4>2 DEF GoodStat, BatchHeld, RowsHeld, SamplesHeld, LastFlushHeld
      <4>4. latencyStats' \in Counts /\ flushFaults' \in 0..MaxFlushFaults
        BY <2>3, <2>4, LatencyAssumption DEF Seed
      <4> QED BY <4>1, <4>3, <4>4, LatencyMoves
    <3> QED BY <2>4, <3>2, <3>3 DEF Seed
  <2>5. CASE Flush(g)
    <3>1. GoodStat(Cut(s))
      BY <2>2, <2>5, CutKeeps DEF Flush
    <3>2. stats' = [stats EXCEPT ![g] = Cut(s)] /\ UNCHANGED <<latencyStats, flushFaults>>
      BY <2>2, <2>5 DEF Flush
    <3> QED BY <2>3, <3>1, <3>2, LatencyMoves
  <2>6. CASE Upsert(g) BY <2>6, UpsertKeeps
  <2>7. CASE FlushEnds(g)
    <3> DEFINE next == [s EXCEPT !.flushing = FALSE, !.batch = NoFlush]
    <3>1. stats' = [stats EXCEPT ![g] = next] /\ UNCHANGED <<latencyStats, flushFaults>>
      BY <2>7 DEF FlushEnds
    <3>2. s.batch.rows = <<>> /\ s.flushing /\ DOMAIN s.batch.rows = {}
      BY <2>7 DEF FlushEnds
    <3>3. SamplesHeld(s) /\ LastFlushHeld(s) /\ (s.phase = "down" => s = DownStats)
      BY <2>2 DEF GoodStat
    <3>4. s.phase # "down"
      BY <3>2, <3>3 DEF DownStats
    <3>5. /\ next \in LatencyStat /\ next.flushing = FALSE /\ next.batch.keys = {} /\ next.batch.rows = <<>>
          /\ next.pool = s.pool /\ next.kept = s.kept /\ next.dirty = s.dirty /\ next.phase = s.phase
          /\ next.late = s.late /\ next.lastFailed = s.lastFailed
      BY <2>2, NoFlushIs DEF LatencyStat
    <3> HIDE DEF next
    <3>6. BatchHeld(next) /\ RowsHeld(next) /\ LastFlushHeld(next)
      BY <3>3, <3>5 DEF BatchHeld, RowsHeld, LastFlushHeld
    <3>7. SamplesHeld(next)
      BY <3>2, <3>3, <3>5 DEF SamplesHeld
    <3>8. GoodStat(next)
      BY <3>4, <3>5, <3>6, <3>7 DEF GoodStat
    <3> QED BY <2>3, <3>1, <3>8, LatencyMoves
  <2>8. CASE FlushFails(g) BY <2>8, FlushFailsKeeps
  <2>9. CASE StopLatency(g)
    <3>1. stats' = [stats EXCEPT ![g] = [Called(s) EXCEPT !.phase = "first"]]
      BY <2>2, <2>9 DEF StopLatency
    <3>2. s.phase = "up" /\ UNCHANGED <<latencyStats, flushFaults>>
      BY <2>9 DEF StopLatency
    <3>3. GoodStat(Called(s)) /\ Called(s).phase = "up"
      BY <2>2, <3>2, CalledKeeps
    <3>4. Called(s) \in LatencyStat /\ "first" \in LatencyPhases
      BY <3>3 DEF GoodStat, LatencyPhases
    <3>5. LastFlushHeld([Called(s) EXCEPT !.phase = "first"])
      BY <3>4 DEF LatencyStat, LastFlushHeld
    <3>6. GoodStat([Called(s) EXCEPT !.phase = "first"])
      BY <3>3, <3>4, <3>5, PhaseMoves
    <3> QED BY <2>3, <3>1, <3>2, <3>6, LatencyMoves
  <2>10. CASE FlushAwaited(g)
    <3>1. ~ s.flushing /\ UNCHANGED <<latencyStats, flushFaults>>
      BY <2>10 DEF FlushAwaited
    <3>2. CASE s.phase = "first" /\ stats' = [stats EXCEPT ![g] = [Called(@) EXCEPT !.phase = "last"]]
      <4> DEFINE t == Called(s)
                 next == [t EXCEPT !.phase = "last"]
      <4>1. GoodStat(t) /\ t.phase = "first" /\ t.dirty = {}
        BY <2>2, <3>1, <3>2, CalledKeeps
      <4>2. t \in LatencyStat /\ "last" \in LatencyPhases
        BY <4>1 DEF GoodStat, LatencyStat, LatencyPhases
      <4> HIDE DEF t
      <4>4. LastFlushHeld(next)
        BY <4>1, <4>2 DEF LatencyStat, LastFlushHeld
      <4>5. GoodStat(next)
        BY <4>1, <4>2, <4>4, PhaseMoves
      <4>6. stats' = [stats EXCEPT ![g] = next]
        BY <3>2 DEF t
      <4> QED BY <2>3, <3>1, <4>5, <4>6, LatencyMoves
    <3>3. CASE s.phase = "last" /\ stats' = [stats EXCEPT ![g].phase = "stopped"]
      <4> DEFINE next == [s EXCEPT !.phase = "stopped"]
      <4>1. LastFlushHeld(s) /\ "stopped" \in LatencyPhases
        BY <2>2 DEF GoodStat, LatencyStat, LatencyPhases
      <4>2. LastFlushHeld(next)
        BY <2>2, <3>1, <3>3, <4>1 DEF LatencyStat, LastFlushHeld
      <4>3. GoodStat(next)
        BY <2>2, <3>3, <4>1, <4>2, PhaseMoves
      <4>4. stats' = [stats EXCEPT ![g] = next]
        BY <3>3
      <4> QED BY <2>3, <3>1, <4>3, <4>4, LatencyMoves
    <3> QED BY <2>10, <3>2, <3>3 DEF FlushAwaited
  <2>11. CASE ExitLatency(g)
    <3>1. stats' = [stats EXCEPT ![g] = DownStats] /\ UNCHANGED <<latencyStats, flushFaults>>
      BY <2>11 DEF ExitLatency
    <3> QED BY <2>3, <3>1, DownIsGood, LatencyMoves
  <2>12. CASE \E k \in SampleKeys : Record(g, k) BY <2>12, RecordKeeps
  <2> QED BY <2>1, <2>4, <2>5, <2>6, <2>7, <2>8, <2>9, <2>10, <2>11, <2>12
<1> QED BY <1>1, <1>2

LEMMA LatencyHolds == LatencySpec => []LatencyInv
BY LatencyInitially, LatencyKeeps, PTL DEF LatencySpec

LEMMA LatencyInvIsTyped == LatencyInv => LatencyTypeOK
<1> SUFFICES ASSUME LatencyInv, NEW g \in Gateways
             PROVE  /\ stats[g].phase \in {"down", "up", "first", "last", "stopped"}
                    /\ stats[g].pool \in Counts /\ stats[g].kept \in Counts
                    /\ stats[g].dirty \subseteq SampleKeys /\ stats[g].late \subseteq SampleKeys
                    /\ stats[g].batch.keys \subseteq SampleKeys
                    /\ {row.key : row \in ToSet(stats[g].batch.rows)} \subseteq stats[g].batch.keys
                    /\ stats[g].flushing <=> stats[g].batch.keys # {}
  BY DEF LatencyInv, LatencyTypeOK
<1>1. stats[g] \in LatencyStat /\ BatchHeld(stats[g]) /\ RowsHeld(stats[g])
  BY DEF LatencyInv, GoodStat
<1>2. ASSUME NEW row \in ToSet(stats[g].batch.rows) PROVE row.key \in stats[g].batch.keys
  <2>1. PICK i \in DOMAIN stats[g].batch.rows : stats[g].batch.rows[i] = row
    BY <1>2 DEF ToSet
  <2> QED BY <1>1, <2>1, Zenon DEF RowsHeld
<1>3. {row.key : row \in ToSet(stats[g].batch.rows)} \subseteq stats[g].batch.keys
  BY <1>2, Zenon
<1> QED BY <1>1, <1>3 DEF LatencyStat, LatencyPhases, BatchHeld

\* Counts stay within their bound, a batch is of the keys it was cut from, and a flush
\* is in flight exactly while its batch has keys (flush of gateway-route-latency.ts).
THEOREM LatencyTyped == LatencySpec => []LatencyTypeOK
BY LatencyInvIsTyped, LatencyHolds, PTL

\* A latency sample that is not in the table yet is dirty or in a row the flush in
\* flight still has to write, and a gateway stops with every sample saved that was
\* taken before the second flush of stop() was called, unless that flush failed (flush
\* and stop of gateway-route-latency.ts), for any gateways, samples and failures.
THEOREM SamplesAreKept == LatencySpec => []SamplesKept
<1>1. LatencyInv => SamplesKept
  <2> SUFFICES ASSUME LatencyInv, NEW g \in Gateways PROVE
        /\ \A k \in SampleKeys :
             stats[g].pool[k] # stats[g].kept[k] =>
               \/ k \in stats[g].dirty
               \/ [key |-> k, count |-> stats[g].pool[k]] \in ToSet(stats[g].batch.rows)
        /\ stats[g].phase = "stopped" /\ ~stats[g].lastFailed =>
             {k \in SampleKeys : stats[g].pool[k] # stats[g].kept[k]} \subseteq stats[g].late
    BY DEF SamplesKept, UnsavedIsPending, StopSaves
  <2> DEFINE s == stats[g]
  <2>1. s \in LatencyStat /\ BatchHeld(s) /\ SamplesHeld(s) /\ LastFlushHeld(s)
    BY DEF LatencyInv, GoodStat
  <2>2. \A k \in SampleKeys : s.pool[k] # s.kept[k] =>
          k \in s.dirty \/ [key |-> k, count |-> s.pool[k]] \in ToSet(s.batch.rows)
    BY <2>1 DEF SamplesHeld, ToSet
  <2>3. ASSUME s.phase = "stopped", ~ s.lastFailed, NEW k \in SampleKeys, s.pool[k] # s.kept[k]
        PROVE  k \in s.late
    <3>1. s.dirty \subseteq s.late /\ s.batch.rows = <<>> /\ DOMAIN s.batch.rows = {}
      BY <2>1, <2>3 DEF LastFlushHeld, BatchHeld
    <3> QED BY <2>1, <2>3, <3>1 DEF SamplesHeld
  <2> QED BY <2>2, <2>3
<1> QED BY <1>1, LatencyHolds, PTL
----------------------------------------------------------------------------
(* The sorts and draws of RouteSelection. *)

\* Every nonempty set of numbers has a least one.
LEMMA LeastOf ==
  ASSUME NEW T \in SUBSET Nat, T # {}
  PROVE  \E n \in T : \A m \in T : n <= m
<1>1. PICK t \in T : TRUE
  OBVIOUS
<1> DEFINE S == 0..t
           initials == {0..n : n \in {n \in T : n <= t}}
<1>2. initials \subseteq SUBSET S /\ initials # {}
  <2>1. \A n \in Nat : n <= t => 0..n \subseteq 0..t OBVIOUS
  <2> QED BY <2>1
<1>3. IsWellFoundedOn(StrictSubsetOrdering(S), SUBSET S)
  <2>1. IsFiniteSet(S) BY FS_Interval
  <2> HIDE DEF S
  <2> QED BY <2>1, FS_StrictSubsetOrderingWellFounded, FS_FiniteSubsetsOfFinite
<1>4. PICK s \in initials : \A r \in initials : <<r, s>> \notin StrictSubsetOrdering(S)
  <2> HIDE DEF initials, S
  <2> QED BY <1>2, <1>3, WFMin
<1>5. PICK n \in T : n <= t /\ s = 0..n
  OBVIOUS
<1>6. ASSUME NEW m \in T, m < n PROVE FALSE
  <2>1. 0..m \in initials BY <1>5, <1>6
  <2>2. 0..m \subseteq 0..n /\ 0..m # 0..n
    <3>1. n \in 0..n /\ n \notin 0..m BY <1>6
    <3> QED BY <1>6, <3>1
  <2>3. 0..m \in SUBSET S /\ s \in SUBSET S BY <1>2, <2>1
  <2> HIDE DEF initials, S
  <2> QED BY <1>4, <1>5, <2>1, <2>2, <2>3 DEF StrictSubsetOrdering
<1> QED BY <1>6

\* What holds of 0, and passes on from each number to the next, holds up to N.
LEMMA Persists ==
  ASSUME NEW N \in Nat, NEW Q, 0 \in Q, \A k \in 1..N : k - 1 \in Q => k \in Q
  PROVE  0..N \subseteq Q
<1> SUFFICES ASSUME (0..N) \ Q # {} PROVE FALSE
  OBVIOUS
<1>1. (0..N) \ Q \in SUBSET Nat
  OBVIOUS
<1>2. PICK n \in (0..N) \ Q : \A m \in (0..N) \ Q : n <= m
  BY <1>1, LeastOf
<1>3. n \in 1..N /\ n - 1 \in 0..N /\ n - 1 < n
  BY <1>2
<1>4. n - 1 \in Q
  BY <1>2, <1>3
<1> QED BY <1>2, <1>3, <1>4

\* A recursion over the numbers up to N has its function.
Iterated(g, N, S, a, step) == g \in [0..N -> S] /\ g[0] = a /\ \A k \in 1..N : g[k] = step[<<k, g[k - 1]>>]

LEMMA Iterates ==
  ASSUME NEW N \in Nat, NEW S, NEW a \in S, NEW step \in [(1..N) \X S -> S]
  PROVE  \E g : Iterated(g, N, S, a, step)
<1> DEFINE Upto(n, g) == g \in [0..n -> S] /\ g[0] = a /\ \A k \in 1..n : g[k] = step[<<k, g[k - 1]>>]
           Q == {n \in 0..N : \E g : Upto(n, g)}
<1>1. 0 \in Q
  <2> DEFINE g == [k \in 0..0 |-> a]
  <2>1. Upto(0, g) /\ 0 \in 0..N OBVIOUS
  <2> HIDE DEF g, Upto
  <2> QED BY <2>1
<1>2. ASSUME NEW n \in 1..N, n - 1 \in Q PROVE n \in Q
  <2>1. PICK g : Upto(n - 1, g) BY <1>2
  <2>2. n - 1 \in 0..(n - 1) /\ n \notin 0..(n - 1) /\ \A k \in 0..n : k # n => k \in 0..(n - 1)
    OBVIOUS
  <2> DEFINE h == [k \in 0..n |-> IF k = n THEN step[<<n, g[n - 1]>>] ELSE g[k]]
  <2>3. step[<<n, g[n - 1]>>] \in S BY <2>1, <2>2
  <2>4. h \in [0..n -> S] BY <2>1, <2>2, <2>3
  <2>5. h[0] = a BY <2>1
  <2>6. ASSUME NEW k \in 1..n PROVE h[k] = step[<<k, h[k - 1]>>]
    <3>1. k \in 0..n /\ k - 1 \in 0..n /\ k - 1 # n OBVIOUS
    <3>2. h[k - 1] = g[k - 1] BY <3>1
    <3>3. k # n => k \in 1..(n - 1) OBVIOUS
    <3>4. h[k] = IF k = n THEN step[<<n, g[n - 1]>>] ELSE g[k] BY <3>1
    <3> HIDE DEF h
    <3> QED BY <2>1, <3>2, <3>3, <3>4
  <2> HIDE DEF h
  <2>7. Upto(n, h) BY <2>4, <2>5, <2>6
  <2> QED BY <2>7
<1>3. N \in Q
  <2> HIDE DEF Q
  <2> QED BY <1>1, <1>2, Persists
<1> QED BY <1>3 DEF Iterated

----------------------------------------------------------------------------
(* Sorting. *)

StrictOrder(before, S) ==
  /\ \A c \in S : <<c, c>> \notin before
  /\ \A c, d, e \in S : <<c, d>> \in before /\ <<d, e>> \in before => <<c, e>> \in before
  /\ \A c, d \in S : c # d => <<c, d>> \in before \/ <<d, c>> \in before

\* A sequence of the elements of S, each once.
Enumerates(s, S) == s \in [1..Cardinality(S) -> S] /\ \A c \in S : \E i \in 1..Cardinality(S) : s[i] = c

Follows(s, before) == \A i, j \in DOMAIN s : i < j => <<s[i], s[j]>> \in before

LEMMA SortedIs ==
  ASSUME NEW S, IsFiniteSet(S), NEW before, StrictOrder(before, S)
  PROVE  Enumerates(Sorted(S, before), S) /\ Follows(Sorted(S, before), before)
<1> DEFINE n == Cardinality(S)
           below(c) == {d \in S : <<d, c>> \in before}
           rank == [c \in S |-> Cardinality(below(c))]
           s == Sorted(S, before)
<1>1. n \in Nat
  BY FS_CardinalityType
<1>2. ASSUME NEW c \in S PROVE IsFiniteSet(below(c)) /\ rank[c] \in 0..(n - 1)
  <2>1. below(c) \in SUBSET (S \ {c}) BY DEF StrictOrder
  <2>2. IsFiniteSet(S \ {c}) /\ Cardinality(S \ {c}) = n - 1 BY FS_RemoveElement
  <2>3. IsFiniteSet(below(c)) /\ Cardinality(below(c)) <= n - 1
    <3> HIDE DEF below, n
    <3> QED BY <2>1, <2>2, FS_Subset
  <2>4. Cardinality(below(c)) \in Nat BY <2>3, FS_CardinalityType
  <2> QED BY <1>1, <2>3, <2>4
<1> HIDE DEF n
<1>a. \A c \in S : rank[c] \in Int
  <2> SUFFICES ASSUME NEW c \in S PROVE rank[c] \in Int
    OBVIOUS
  <2>1. rank[c] \in 0..(n - 1) BY <1>2
  <2> HIDE DEF rank
  <2> QED BY <1>1, <2>1
<1>3. ASSUME NEW c \in S, NEW d \in S, <<c, d>> \in before PROVE rank[c] < rank[d]
  <2>1. below(c) \in SUBSET below(d) BY <1>3 DEF StrictOrder
  <2>2. c \in below(d) /\ c \notin below(c) BY <1>3 DEF StrictOrder
  <2>3. Cardinality(below(c)) <= Cardinality(below(d)) /\ Cardinality(below(d)) # Cardinality(below(c))
    BY <1>2, <2>1, <2>2, FS_Subset
  <2>4. rank[c] = Cardinality(below(c)) /\ rank[d] = Cardinality(below(d)) OBVIOUS
  <2>5. rank[c] \in Int /\ rank[d] \in Int BY <1>a
  <2> HIDE DEF below, rank
  <2> QED BY <2>3, <2>4, <2>5
<1>4. rank \in Surjection(S, 0..(n - 1))
  <2>1. rank \in [S -> 0..(n - 1)] BY <1>2
  <2>2. \A c, d \in S : c # d => rank[c] # rank[d]
    <3> SUFFICES ASSUME NEW c \in S, NEW d \in S, c # d PROVE rank[c] # rank[d]
      OBVIOUS
    <3>1. rank[c] \in Int /\ rank[d] \in Int BY <1>a
    <3>2. rank[c] < rank[d] \/ rank[d] < rank[c] BY <1>3 DEF StrictOrder
    <3> HIDE DEF rank
    <3> QED BY <3>1, <3>2
  <2>3. rank \in Injection(S, 0..(n - 1))
    <3> HIDE DEF rank
    <3> QED BY <2>1, <2>2 DEF Injection, IsInjective
  <2>4. IsFiniteSet(0..(n - 1)) /\ Cardinality(0..(n - 1)) = n BY <1>1, FS_Interval
  <2>5. Cardinality(S) = Cardinality(0..(n - 1)) BY <2>4 DEF n
  <2> HIDE DEF rank
  <2> QED BY <2>3, <2>4, <2>5, FS_Injection
<1>5. \A i \in 1..n : s[i] \in S /\ rank[s[i]] = i - 1
  <2> SUFFICES ASSUME NEW i \in 1..n PROVE s[i] \in S /\ rank[s[i]] = i - 1
    OBVIOUS
  <2>1. i - 1 \in 0..(n - 1) BY <1>1
  <2>2. \E c \in S : rank[c] = i - 1
    <3> HIDE DEF rank, n
    <3> QED BY <1>4, <2>1 DEF Surjection
  <2>3. s[i] = CHOOSE c \in S : Cardinality(below(c)) = i - 1 BY DEF Sorted, n
  <2>4. s[i] = CHOOSE c \in S : rank[c] = i - 1 BY <2>3
  <2> HIDE DEF rank, s
  <2> QED BY <2>2, <2>4
<1>6. DOMAIN s = 1..n /\ s = [i \in 1..n |-> s[i]]
  <2> DEFINE at(i) == CHOOSE c \in S : Cardinality({d \in S : <<d, c>> \in before}) = i - 1
  <2>1. s = [i \in 1..n |-> at(i)] BY DEF Sorted, n
  <2> HIDE DEF s, at
  <2> QED BY <2>1
<1>7. Enumerates(s, S)
  <2>1. s \in [1..n -> S] BY <1>5, <1>6
  <2>2. ASSUME NEW c \in S PROVE \E i \in 1..n : s[i] = c
    <3>1. rank[c] \in 0..(n - 1) BY <1>2
    <3>2. rank[c] + 1 \in 1..n /\ rank[c] + 1 - 1 = rank[c] BY <1>1, <3>1
    <3>3. s[rank[c] + 1] \in S /\ rank[s[rank[c] + 1]] = rank[c]
      <4> HIDE DEF rank, s
      <4> DEFINE i == rank[c] + 1
      <4>1. i \in 1..n /\ i - 1 = rank[c] BY <1>a, <3>2
      <4> HIDE DEF i
      <4>2. s[i] \in S /\ rank[s[i]] = i - 1 BY <1>5, <4>1
      <4> QED BY <4>1, <4>2 DEF i
    <3>4. s[rank[c] + 1] = c
      <4>1. rank[c] \in Int BY <3>1
      <4>2. ~(rank[c] < rank[c]) BY <4>1
      <4> HIDE DEF rank, s
      <4> QED BY <1>3, <3>3, <4>2 DEF StrictOrder
    <3> HIDE DEF rank, s
    <3> QED BY <3>2, <3>4
  <2> HIDE DEF s
  <2> QED BY <2>1, <2>2 DEF Enumerates, n
<1>8. Follows(s, before)
  <2> SUFFICES ASSUME NEW i \in 1..n, NEW j \in 1..n, i < j PROVE <<s[i], s[j]>> \in before
    BY <1>6 DEF Follows
  <2>1. rank[s[i]] = i - 1 /\ rank[s[j]] = j - 1 /\ s[i] \in S /\ s[j] \in S BY <1>5
  <2>2. ~(rank[s[j]] < rank[s[i]]) /\ s[i] # s[j]
    <3> HIDE DEF rank, s
    <3> QED BY <2>1
  <2> HIDE DEF rank, s
  <2> QED BY <1>3, <2>1, <2>2 DEF StrictOrder
<1> QED BY <1>7, <1>8

LEMMA ListsAll ==
  ASSUME NEW S, IsFiniteSet(S), NEW s, Enumerates(s, S)
  PROVE  s \in Seq(S) /\ Len(s) = Cardinality(S) /\ DOMAIN s = 1..Cardinality(S) /\ ToSet(s) = S
<1>1. Cardinality(S) \in Nat
  BY FS_CardinalityType
<1>2. s \in [1..Cardinality(S) -> S] /\ \A c \in S : \E i \in 1..Cardinality(S) : s[i] = c
  BY DEF Enumerates
<1>3. s \in Seq(S) /\ DOMAIN s = 1..Cardinality(S) /\ Len(s) = Cardinality(S)
  <2> DEFINE n == Cardinality(S)
  <2> HIDE DEF n
  <2>1. n \in Nat /\ s \in [1..n -> S] BY <1>1, <1>2 DEF n
  <2>2. s \in Seq(S) /\ DOMAIN s = 1..n /\ Len(s) = n BY <2>1
  <2> QED BY <2>2 DEF n
<1> QED BY <1>2, <1>3 DEF ToSet

\* One list behind another.
Behind(s, t, u, a, b) ==
  /\ \A i \in 1..a : u[i] = s[i]
  /\ \A i \in 1..(a + b) : i > a => i - a \in 1..b /\ u[i] = t[i - a]

LEMMA Together ==
  ASSUME NEW A, NEW B, IsFiniteSet(A), IsFiniteSet(B), A \cap B = {}, NEW s, NEW t, Enumerates(s, A), Enumerates(t, B)
  PROVE  /\ IsFiniteSet(A \cup B) /\ Enumerates(s \o t, A \cup B)
         /\ Cardinality(A \cup B) = Cardinality(A) + Cardinality(B)
         /\ Behind(s, t, s \o t, Cardinality(A), Cardinality(B))
<1> DEFINE a == Cardinality(A)
           b == Cardinality(B)
<1>1. a \in Nat /\ b \in Nat
  BY FS_CardinalityType
<1>2. IsFiniteSet(A \cup B) /\ Cardinality(A \cup B) = a + b
  <2>1. Cardinality({}) = 0 BY FS_EmptySet
  <2>2. IsFiniteSet(A \cup B) /\ Cardinality(A \cup B) = a + b - Cardinality(A \cap B) BY FS_Union
  <2>3. Cardinality(A \cap B) = 0 BY <2>1
  <2> HIDE DEF a, b
  <2>4. a + b - 0 = a + b BY <1>1
  <2> QED BY <2>2, <2>3, <2>4
<1>3. s \in Seq(A) /\ Len(s) = a /\ t \in Seq(B) /\ Len(t) = b
  BY ListsAll
<1> HIDE DEF a, b
<1>4. Behind(s, t, s \o t, a, b)
  BY <1>1, <1>3 DEF Behind
<1>5. Enumerates(s \o t, A \cup B)
  <2>1. s \o t \in Seq(A \cup B) /\ Len(s \o t) = a + b BY <1>1, <1>3
  <2> DEFINE u == s \o t
             n == a + b
  <2>2. u \in [1..n -> A \cup B]
    <3> HIDE DEF u, n
    <3>1. u \in Seq(A \cup B) /\ Len(u) = n BY <2>1 DEF u, n
    <3> QED BY <3>1
  <2>a. \A i \in 1..a : u[i] = s[i] /\ i \in 1..n
    <3>1. \A i \in 1..a : i \in 1..n BY <1>1
    <3> QED BY <1>4, <3>1 DEF Behind
  <2>b. \A i \in 1..b : a + i \in 1..n /\ a + i > a /\ a + i - a = i
    BY <1>1
  <2>c. \A i \in 1..n : i > a => u[i] = t[i - a]
    BY <1>4 DEF Behind
  <2> HIDE DEF u, n
  <2>3. ASSUME NEW c \in A \cup B PROVE \E i \in 1..n : u[i] = c
    <3>1. CASE c \in A
      <4>1. PICK i \in 1..a : s[i] = c BY <3>1 DEF Enumerates, a
      <4> QED BY <2>a, <4>1
    <3>2. CASE c \in B
      <4>1. PICK i \in 1..b : t[i] = c BY <3>2 DEF Enumerates, b
      <4>2. a + i \in 1..n /\ a + i > a /\ a + i - a = i BY <2>b
      <4>3. \A k \in 1..n : k > a /\ k - a = i => u[k] = t[i] BY <2>c
      <4> DEFINE k == a + i
      <4>4. k \in 1..n /\ k > a /\ k - a = i BY <1>1, <4>2
      <4> HIDE DEF k
      <4>5. u[k] = t[i] BY <4>3, <4>4
      <4> QED BY <4>1, <4>4, <4>5
    <3> QED BY <3>1, <3>2
  <2> QED BY <1>2, <2>2, <2>3 DEF Enumerates, u, n
<1> QED BY <1>2, <1>4, <1>5 DEF a, b

\* What SelectionAssumption says of the candidates of a policy.
Ordinary(S) ==
  /\ IsFiniteSet(S) /\ Cardinality(S) <= MaxDraws
  /\ \A c, d \in S : c.order = d.order => c = d
  /\ \A c \in S : c.order \in Nat /\ c.weight \in Nat /\ c.price \subseteq Price /\ \A a, b \in c.price : a = b

LEMMA OrderIsStrict ==
  ASSUME NEW S, Ordinary(S)
  PROVE  StrictOrder(ByOrder(S), S)
<1>1. \A c, d \in S : <<c, d>> \in ByOrder(S) <=> c.order < d.order
  BY DEF ByOrder
<1>2. \A c \in S : c.order \in Nat
  BY DEF Ordinary
<1>3. \A c, d \in S : c.order = d.order => c = d
  BY DEF Ordinary
<1>4. \A c, d \in S : c # d => c.order < d.order \/ d.order < c.order
  BY <1>2, <1>3
<1>5. \A c, d, e \in S : c.order < d.order /\ d.order < e.order => c.order < e.order
  BY <1>2
<1>6. \A c \in S : ~(c.order < c.order)
  BY <1>2
<1> QED BY <1>1, <1>4, <1>5, <1>6 DEF StrictOrder

LEMMA PartOf ==
  ASSUME NEW S, Ordinary(S), NEW T \in SUBSET S
  PROVE  Ordinary(T)
<1>1. IsFiniteSet(T) /\ Cardinality(T) <= Cardinality(S)
  BY FS_Subset DEF Ordinary
<1>2. Cardinality(T) \in Nat /\ Cardinality(S) \in Nat /\ MaxDraws \in Nat
  BY <1>1, FS_CardinalityType, SelectionAssumption DEF Ordinary
<1> QED BY <1>1, <1>2 DEF Ordinary

LEMMA InOrder ==
  ASSUME NEW S, Ordinary(S)
  PROVE  /\ Enumerates(Sorted(S, ByOrder(S)), S)
         /\ \A i, j \in 1..Cardinality(S) : i < j => Sorted(S, ByOrder(S))[i].order < Sorted(S, ByOrder(S))[j].order
<1> DEFINE s == Sorted(S, ByOrder(S))
<1>1. Enumerates(s, S) /\ Follows(s, ByOrder(S))
  BY OrderIsStrict, SortedIs DEF Ordinary
<1>2. DOMAIN s = 1..Cardinality(S)
  BY <1>1 DEF Enumerates
<1> HIDE DEF s
<1>3. \A i, j \in 1..Cardinality(S) : i < j => s[i].order < s[j].order
  BY <1>1, <1>2 DEF Follows, ByOrder
<1> QED BY <1>1, <1>3 DEF s

----------------------------------------------------------------------------
(* cost_first. *)

\* The known price of a candidate that has one.
Cost(c) == CHOOSE v \in Nat : CombinedPrice(c) = {v}

LEMMA CostIs ==
  ASSUME NEW S, Ordinary(S), NEW c \in S
  PROVE  /\ c.price = {} => CombinedPrice(c) = {}
         /\ c.price # {} => Cost(c) \in Nat /\ CombinedPrice(c) = {Cost(c)}
<1>1. c.price = {} => CombinedPrice(c) = {}
  BY DEF CombinedPrice
<1>2. ASSUME c.price # {} PROVE \E v \in Nat : CombinedPrice(c) = {v}
  <2>1. PICK p \in c.price : TRUE BY <1>2
  <2>2. p.input + p.output \in Nat BY DEF Ordinary, Price
  <2>3. c.price = {p} BY DEF Ordinary
  <2>4. CombinedPrice(c) = {p.input + p.output} BY <2>3 DEF CombinedPrice
  <2> QED BY <2>2, <2>4
<1> QED BY <1>1, <1>2 DEF Cost

LEMMA CostIsStrict ==
  ASSUME NEW S, Ordinary(S)
  PROVE  StrictOrder({x \in S \X S : CostBefore(x[1], x[2])}, S)
<1> DEFINE before == {x \in S \X S : CostBefore(x[1], x[2])}
           Less(c, d) == \/ c.price # {} /\ d.price = {}
                         \/ c.price # {} /\ d.price # {} /\ Cost(c) < Cost(d)
                         \/ c.price # {} /\ d.price # {} /\ Cost(c) = Cost(d) /\ c.order < d.order
                         \/ c.price = {} /\ d.price = {} /\ c.order < d.order
<1>1. \A c, d \in S : <<c, d>> \in before <=> Less(c, d)
  <2> SUFFICES ASSUME NEW c \in S, NEW d \in S PROVE CostBefore(c, d) <=> Less(c, d)
    OBVIOUS
  <2>1. /\ c.price = {} => CombinedPrice(c) = {}
        /\ c.price # {} => Cost(c) \in Nat /\ CombinedPrice(c) = {Cost(c)}
    BY CostIs
  <2>2. /\ d.price = {} => CombinedPrice(d) = {}
        /\ d.price # {} => Cost(d) \in Nat /\ CombinedPrice(d) = {Cost(d)}
    BY CostIs
  <2> QED BY <2>1, <2>2 DEF CostBefore
<1>2. \A c \in S : c.order \in Nat /\ (c.price # {} => Cost(c) \in Nat)
  BY CostIs DEF Ordinary
<1>3. \A c, d \in S : c.order = d.order => c = d
  BY DEF Ordinary
<1>4. \A c \in S : ~Less(c, c)
  BY <1>2
<1>5. \A c, d, e \in S : Less(c, d) /\ Less(d, e) => Less(c, e)
  BY <1>2
<1>6. \A c, d \in S : c # d => Less(c, d) \/ Less(d, c)
  BY <1>2, <1>3
<1> HIDE DEF Less, before
<1>7. StrictOrder(before, S)
  BY <1>1, <1>4, <1>5, <1>6 DEF StrictOrder
<1> QED BY <1>7 DEF before

LEMMA CostFirstIs ==
  ASSUME NEW S, Ordinary(S)
  PROVE  /\ Enumerates(CostFirst(S), S)
         /\ \A i, j \in 1..Cardinality(S) : i < j => CostBefore(CostFirst(S)[i], CostFirst(S)[j])
<1> DEFINE before == {x \in S \X S : CostBefore(x[1], x[2])}
           s == Sorted(S, before)
<1>1. Enumerates(s, S) /\ Follows(s, before)
  <2> HIDE DEF before
  <2>1. StrictOrder(before, S) BY CostIsStrict DEF before
  <2> QED BY <2>1, SortedIs DEF Ordinary
<1>2. DOMAIN s = 1..Cardinality(S)
  BY <1>1 DEF Enumerates
<1> HIDE DEF s
<1>3. \A i, j \in 1..Cardinality(S) : i < j => CostBefore(s[i], s[j])
  BY <1>1, <1>2 DEF Follows
<1> QED BY <1>1, <1>3 DEF s, CostFirst

----------------------------------------------------------------------------
(* least_time. *)

LEMMA Divided ==
  ASSUME NEW x \in Nat, NEW y \in Nat, y > 0
  PROVE  x \div y \in Nat /\ y * (x \div y) <= x
  OBVIOUS

LEMMA PickBelow ==
  ASSUME NEW n \in Nat, n > 0, NEW draw \in 0..(Grain - 1)
  PROVE  Pick(n, draw) \in 0..(n - 1)
<1> DEFINE x == draw * n
           q == x \div Grain
<1>1. Grain \in Nat /\ Grain > 0
  BY SelectionAssumption
<1>2. x \in Nat
  BY <1>1
<1>3. x < Grain * n
  BY <1>1
<1> HIDE DEF x
<1>4. q \in Nat /\ Grain * q <= x
  BY <1>1, <1>2, Divided
<1> HIDE DEF q
<1>5. q < n
  <2> SUFFICES ASSUME n <= q PROVE FALSE
    BY <1>4
  <2>1. Grain * n <= Grain * q BY <1>1, <1>4
  <2> QED BY <1>1, <1>2, <1>3, <1>4, <2>1
<1> QED BY <1>4, <1>5 DEF Pick, q, x

\* What SelectionAssumption says of the latency snapshot a request meets.
Timed(S, latency) == latency.tieBucket \in Nat /\ \A c \in S : latency.samples[c.order] \subseteq Sample

LEMMA BucketIs ==
  ASSUME NEW S, NEW latency, Timed(S, latency), NEW c \in S, IsWarm(c, latency)
  PROVE  Bucket(c, latency) \in Nat
<1> DEFINE sample == CHOOSE sample \in latency.samples[c.order] : TRUE
           ewma == sample.ewma
<1>1. sample \in latency.samples[c.order]
  BY DEF IsWarm
<1>2. ewma \in Nat /\ latency.tieBucket \in Nat
  BY <1>1 DEF Timed, Sample
<1> HIDE DEF sample
<1>3. Bucket(c, latency) = IF latency.tieBucket > 0 THEN ewma \div latency.tieBucket ELSE ewma
  BY DEF Bucket, sample
<1> HIDE DEF ewma
<1> QED BY <1>2, <1>3, Divided

LEMMA FasterIsStrict ==
  ASSUME NEW S, Ordinary(S), NEW latency, Timed(S, latency), \A c \in S : IsWarm(c, latency)
  PROVE  StrictOrder({x \in S \X S : FasterBefore(x[1], x[2], latency)}, S)
<1> DEFINE before == {x \in S \X S : FasterBefore(x[1], x[2], latency)}
<1>1. \A c, d \in S : <<c, d>> \in before <=> FasterBefore(c, d, latency)
  OBVIOUS
<1>2. \A c \in S : c.order \in Nat /\ Bucket(c, latency) \in Nat
  BY BucketIs DEF Ordinary
<1>3. \A c, d \in S : c.order = d.order => c = d
  BY DEF Ordinary
<1>4. \A c \in S : ~FasterBefore(c, c, latency)
  BY <1>2 DEF FasterBefore
<1>5. \A c, d, e \in S : FasterBefore(c, d, latency) /\ FasterBefore(d, e, latency) => FasterBefore(c, e, latency)
  BY <1>2 DEF FasterBefore
<1>6. \A c, d \in S : c # d => FasterBefore(c, d, latency) \/ FasterBefore(d, c, latency)
  BY <1>2, <1>3 DEF FasterBefore
<1> HIDE DEF before
<1>7. StrictOrder(before, S)
  BY <1>1, <1>4, <1>5, <1>6 DEF StrictOrder
<1> QED BY <1>7 DEF before

\* The conjunct of ChainFollowsStrategy for least_time.
Late(s, warm) == {i \in DOMAIN s : s[i] \notin warm /\ \E j \in DOMAIN s : j > i /\ s[j] \in warm}
WarmFirst(s, S, latency, draws) ==
  LET warm == {c \in S : IsWarm(c, latency)}
  IN /\ Late(s, warm) \subseteq {1}
     /\ Late(s, warm) # {} => draws[1] < latency.explore
     /\ \A i, j \in DOMAIN s : i < j => ~({s[i], s[j]} \subseteq warm /\ Bucket(s[i], latency) > Bucket(s[j], latency))

\* The warm in their order, then only cold: a list of all of them.
LEMMA WarmThenCold ==
  ASSUME NEW S, Ordinary(S), NEW latency, Timed(S, latency), NEW cold \in SUBSET {c \in S : ~IsWarm(c, latency)}
  PROVE  LET warm == {c \in S : IsWarm(c, latency)}
             fastest == Sorted(warm, {x \in warm \X warm : FasterBefore(x[1], x[2], latency)})
             s == fastest \o Sorted(cold, ByOrder(cold))
         IN /\ Enumerates(s, warm \cup cold)
            /\ \A i, j \in DOMAIN s : i < j /\ s[j] \in warm => s[i] \in warm /\ ~(Bucket(s[i], latency) > Bucket(s[j], latency))
<1> DEFINE warm == {c \in S : IsWarm(c, latency)}
           before == {x \in warm \X warm : FasterBefore(x[1], x[2], latency)}
           f == Sorted(warm, before)
           g == Sorted(cold, ByOrder(cold))
           s == f \o g
           a == Cardinality(warm)
           b == Cardinality(cold)
<1>1. Ordinary(warm) /\ Ordinary(cold) /\ IsFiniteSet(warm) /\ IsFiniteSet(cold) /\ warm \cap cold = {}
  <2>1. warm \in SUBSET S /\ cold \in SUBSET S /\ warm \cap cold = {} OBVIOUS
  <2> HIDE DEF warm
  <2> QED BY <2>1, PartOf DEF Ordinary
<1>2. \A c \in warm : IsWarm(c, latency) /\ Bucket(c, latency) \in Nat
  BY BucketIs
<1>3. Timed(warm, latency)
  BY DEF Timed
<1> HIDE DEF warm
<1>4. Enumerates(f, warm) /\ Follows(f, before)
  <2> HIDE DEF before
  <2>1. StrictOrder(before, warm) BY <1>1, <1>2, <1>3, FasterIsStrict DEF before
  <2> QED BY <1>1, <2>1, SortedIs
<1>5. Enumerates(g, cold)
  BY <1>1, InOrder
<1> HIDE DEF f, g
<1>6. /\ IsFiniteSet(warm \cup cold) /\ Enumerates(s, warm \cup cold) /\ Cardinality(warm \cup cold) = a + b
      /\ Behind(f, g, s, a, b)
  BY <1>1, <1>4, <1>5, Together
<1>7. a \in Nat /\ b \in Nat
  BY <1>1, FS_CardinalityType
<1>8. DOMAIN f = 1..a /\ DOMAIN s = 1..(a + b)
  BY <1>4, <1>6 DEF Enumerates
<1> HIDE DEF s, a, b
<1>9. ASSUME NEW i \in DOMAIN s, NEW j \in DOMAIN s, i < j, s[j] \in warm
      PROVE  s[i] \in warm /\ ~(Bucket(s[i], latency) > Bucket(s[j], latency))
  <2>1. i \in 1..(a + b) /\ j \in 1..(a + b) BY <1>8
  <2>2. j \in 1..a
    <3> SUFFICES ASSUME j > a PROVE FALSE
      BY <1>7, <2>1
    <3>1. j - a \in 1..b /\ s[j] = g[j - a] BY <1>6, <2>1 DEF Behind
    <3>2. s[j] \in cold BY <1>5, <3>1 DEF Enumerates, b
    <3> QED BY <1>1, <1>9, <3>2
  <2>3. i \in 1..a BY <1>7, <1>9, <2>1, <2>2
  <2>4. s[i] = f[i] /\ s[j] = f[j] BY <1>6, <2>2, <2>3 DEF Behind
  <2>5. <<f[i], f[j]>> \in before BY <1>4, <1>8, <1>9, <2>2, <2>3 DEF Follows
  <2>6. f[i] \in warm /\ f[j] \in warm BY <1>4, <2>2, <2>3 DEF Enumerates, a
  <2>7. FasterBefore(f[i], f[j], latency) BY <2>5, <2>6
  <2>8. Bucket(f[i], latency) \in Nat /\ Bucket(f[j], latency) \in Nat BY <1>2, <2>6
  <2> QED BY <2>4, <2>6, <2>7, <2>8 DEF FasterBefore
<1> QED BY <1>6, <1>9 DEF s, f, g, warm

LEMMA DrawIs ==
  ASSUME NEW draws \in Draws, NEW n \in 1..MaxDraws
  PROVE  draws[n] \in 0..(Grain - 1)
  BY DEF Draws

LEMMA LeastTimeIs ==
  ASSUME NEW S, Ordinary(S), NEW latency, Timed(S, latency), NEW draws \in Draws
  PROVE  Enumerates(LeastTime(S, latency, draws), S) /\ WarmFirst(LeastTime(S, latency, draws), S, latency, draws)
<1> DEFINE warm == {c \in S : IsWarm(c, latency)}
           cold == S \ warm
           f == Sorted(warm, {x \in warm \X warm : FasterBefore(x[1], x[2], latency)})
           k == 1 + Pick(Cardinality(cold), draws[2])
           e == Sorted(cold, ByOrder(cold))[k]
           others == cold \ {e}
           explores == cold # {} /\ warm # {} /\ draws[1] < latency.explore
           r == LeastTime(S, latency, draws)
           InTurn(s) == \A i, j \in DOMAIN s : i < j /\ s[j] \in warm =>
                          s[i] \in warm /\ ~(Bucket(s[i], latency) > Bucket(s[j], latency))
<1>1. r = IF explores THEN <<e>> \o f \o Sorted(others, ByOrder(others)) ELSE f \o Sorted(cold, ByOrder(cold))
  BY DEF LeastTime
<1>2. cold \in SUBSET {c \in S : ~IsWarm(c, latency)} /\ others \in SUBSET {c \in S : ~IsWarm(c, latency)}
  OBVIOUS
<1>3. warm \cup cold = S /\ warm \cap cold = {} /\ warm \in SUBSET S /\ cold \in SUBSET S
  OBVIOUS
<1>4. \A T \in SUBSET {c \in S : ~IsWarm(c, latency)} :
        Enumerates(f \o Sorted(T, ByOrder(T)), warm \cup T) /\ InTurn(f \o Sorted(T, ByOrder(T)))
  BY WarmThenCold
<1> HIDE DEF r
<1>5. CASE ~explores
  <2> DEFINE s == f \o Sorted(cold, ByOrder(cold))
  <2>1. r = s BY <1>1, <1>5
  <2>2. Enumerates(s, warm \cup cold) /\ InTurn(s) BY <1>2, <1>4
  <2>3. Enumerates(s, S) BY <1>3, <2>2
  <2> HIDE DEF s
  <2>4. Late(s, warm) = {} BY <2>2 DEF Late, Enumerates
  <2>5. \A i, j \in DOMAIN s : i < j => ~({s[i], s[j]} \subseteq warm /\ Bucket(s[i], latency) > Bucket(s[j], latency))
    BY <2>2
  <2>6. WarmFirst(s, S, latency, draws) BY <2>4, <2>5 DEF WarmFirst
  <2> HIDE DEF s
  <2> QED BY <2>1, <2>3, <2>6 DEF r
<1>6. CASE explores
  <2>1. e \in cold
    <3> DEFINE n == Cardinality(cold)
    <3>1. Ordinary(cold) /\ IsFiniteSet(cold)
      <4> HIDE DEF cold
      <4> QED BY <1>3, PartOf DEF Ordinary
    <3>2. n \in Nat /\ n > 0
      <4>1. n \in Nat /\ n # 0 BY <1>6, <3>1, FS_CardinalityType, FS_EmptySet
      <4> HIDE DEF n
      <4> QED BY <4>1
    <3>3. draws[2] \in 0..(Grain - 1)
      <4>1. 2 \in 1..MaxDraws BY SelectionAssumption
      <4> QED BY <4>1, DrawIs
    <3>4. Pick(n, draws[2]) \in 0..(n - 1)
      <4> HIDE DEF n
      <4> QED BY <3>2, <3>3, PickBelow
    <3>5. k \in 1..n
      <4> HIDE DEF n
      <4>1. k = 1 + Pick(n, draws[2]) BY DEF n
      <4> QED BY <3>2, <3>4, <4>1
    <3>6. Enumerates(Sorted(cold, ByOrder(cold)), cold)
      <4> HIDE DEF cold
      <4> QED BY <3>1, InOrder
    <3> HIDE DEF cold, k
    <3> QED BY <3>5, <3>6 DEF Enumerates
  <2> DEFINE g == Sorted(others, ByOrder(others))
             t == f \o g
             s == <<e>> \o t
             n == Cardinality(warm \cup others)
  <2>2. Enumerates(t, warm \cup others) /\ InTurn(t)
    <3> HIDE DEF e
    <3> QED BY <1>2, <1>4
  <2>3. f \in Seq(S) /\ g \in Seq(S) /\ IsFiniteSet(warm \cup others) /\ IsFiniteSet({e})
    <3>1. Ordinary(warm) /\ Ordinary(others) /\ warm \cup others \in SUBSET S /\ others \in SUBSET S
      <4> HIDE DEF e
      <4>1. warm \in SUBSET S /\ others \in SUBSET S /\ warm \cup others \in SUBSET S OBVIOUS
      <4> HIDE DEF warm, others
      <4> QED BY <4>1, PartOf
    <3>2. IsFiniteSet(warm \cup others) /\ IsFiniteSet({e}) /\ IsFiniteSet(warm) /\ IsFiniteSet(others)
      <4> HIDE DEF e, warm, others
      <4> QED BY <3>1, FS_Subset, FS_Singleton DEF Ordinary
    <3>3. Enumerates(g, others)
      <4> HIDE DEF others
      <4> QED BY <3>1, InOrder
    <3>4. Enumerates(f, warm)
      <4> DEFINE before == {x \in warm \X warm : FasterBefore(x[1], x[2], latency)}
      <4>1. \A c \in warm : IsWarm(c, latency) OBVIOUS
      <4>2. Timed(warm, latency) BY DEF Timed
      <4> HIDE DEF warm
      <4>3. StrictOrder(before, warm) BY <3>1, <4>1, <4>2, FasterIsStrict
      <4> HIDE DEF before
      <4>4. Enumerates(Sorted(warm, before), warm) BY <3>2, <4>3, SortedIs
      <4> QED BY <4>4 DEF before
    <3>5. g \in Seq(others) /\ f \in Seq(warm)
      <4> HIDE DEF g, f, others, warm
      <4> QED BY <3>2, <3>3, <3>4, ListsAll
    <3>6. \A T \in SUBSET S : Seq(T) \subseteq Seq(S) OBVIOUS
    <3>7. warm \in SUBSET S /\ others \in SUBSET S BY <1>3, <3>1
    <3> HIDE DEF g, f, others, warm
    <3> QED BY <3>2, <3>5, <3>6, <3>7
  <2>4. r = s
    <3>1. r = <<e>> \o f \o g BY <1>1, <1>6
    <3>2. e \in S BY <1>3, <2>1
    <3> HIDE DEF e, f, g
    <3> QED BY <2>3, <3>1, <3>2
  <2>5. Enumerates(<<e>>, {e}) /\ Cardinality({e}) = 1
    <3>1. Cardinality({e}) = 1 BY FS_Singleton
    <3>2. <<e>> \in [1..1 -> {e}] /\ \A c \in {e} : \E i \in 1..1 : <<e>>[i] = c
      <4>1. 1 \in 1..1 /\ \A i \in 1..1 : i = 1 OBVIOUS
      <4> HIDE DEF e
      <4> QED BY <4>1
    <3> QED BY <3>1, <3>2 DEF Enumerates
  <2>6. e \notin warm \cup others /\ {e} \cup (warm \cup others) = S
    <3> HIDE DEF e
    <3> QED BY <1>3, <2>1
  <2>7. e \notin warm BY <2>6
  <2> HIDE DEF e, f, g, others, warm, t
  <2>8. Enumerates(s, S) /\ Behind(<<e>>, t, s, 1, n) /\ Cardinality(S) = 1 + n
    <3> DEFINE T == warm \cup others
    <3>1. {e} \cap T = {} /\ IsFiniteSet(T) /\ IsFiniteSet({e}) /\ Enumerates(<<e>>, {e}) /\ Enumerates(t, T)
      BY <2>2, <2>3, <2>5, <2>6
    <3>2. /\ Enumerates(s, {e} \cup (warm \cup others))
          /\ Cardinality({e} \cup (warm \cup others)) = 1 + n
          /\ Behind(<<e>>, t, s, 1, n)
      <4> HIDE DEF T
      <4>1. /\ Enumerates(<<e>> \o t, {e} \cup T)
            /\ Cardinality({e} \cup T) = Cardinality({e}) + Cardinality(T)
            /\ Behind(<<e>>, t, <<e>> \o t, Cardinality({e}), Cardinality(T))
        BY <3>1, Together
      <4> QED BY <2>5, <4>1 DEF T, s, n
    <3> QED BY <2>6, <3>2
  <2>9. n \in Nat BY <2>3, FS_CardinalityType
  <2> HIDE DEF s, n
  <2>10. DOMAIN s = 1..(1 + n) /\ DOMAIN t = 1..n BY <2>2, <2>8 DEF Enumerates, n
  <2>11. s[1] = e
    <3>1. 1 \in 1..1 OBVIOUS
    <3> QED BY <2>8, <3>1 DEF Behind
  <2>12. \A i \in DOMAIN s : i # 1 => i - 1 \in DOMAIN t /\ s[i] = t[i - 1]
    BY <2>8, <2>9, <2>10 DEF Behind
  <2>13. \A i, j \in DOMAIN s : i < j /\ s[j] \in warm /\ i # 1 =>
           s[i] \in warm /\ ~(Bucket(s[i], latency) > Bucket(s[j], latency))
    <3> SUFFICES ASSUME NEW i \in DOMAIN s, NEW j \in DOMAIN s, i < j, s[j] \in warm, i # 1
                 PROVE  s[i] \in warm /\ ~(Bucket(s[i], latency) > Bucket(s[j], latency))
      OBVIOUS
    <3>1. i - 1 \in DOMAIN t /\ s[i] = t[i - 1] BY <2>12
    <3>2. j # 1 /\ i - 1 < j - 1 BY <2>9, <2>10
    <3>3. j - 1 \in DOMAIN t /\ s[j] = t[j - 1] BY <2>12, <3>2
    <3> QED BY <2>2, <3>1, <3>2, <3>3
  <2>14. Late(s, warm) \subseteq {1} BY <2>10, <2>13 DEF Late
  <2>15. \A i, j \in DOMAIN s : i < j => ~({s[i], s[j]} \subseteq warm /\ Bucket(s[i], latency) > Bucket(s[j], latency))
    BY <2>7, <2>11, <2>13
  <2>16. WarmFirst(s, S, latency, draws) BY <1>6, <2>14, <2>15 DEF WarmFirst, warm
  <2> QED BY <2>4, <2>8, <2>16 DEF r
<1> QED BY <1>5, <1>6

----------------------------------------------------------------------------
(* tag. *)

FirstOf(C) == CHOOSE c \in C : \A d \in C : c.order <= d.order

LEMMA FirstIs ==
  ASSUME NEW C, C # {}, \A c \in C : c.order \in Nat
  PROVE  FirstOf(C) \in C
<1> DEFINE T == {c.order : c \in C}
<1>1. T \in SUBSET Nat /\ T # {}
  OBVIOUS
<1>2. PICK n \in T : \A m \in T : n <= m
  <2> HIDE DEF T
  <2> QED BY <1>1, LeastOf
<1>3. \E c \in C : \A d \in C : c.order <= d.order
  BY <1>2
<1> QED BY <1>3 DEF FirstOf

\* The conjunct of ChainFollowsStrategy for tag, of a chain that is not empty.
DefaultBehind(s, S, wanted) ==
  /\ "default" \in Last(s).tags /\ Len(s) \in 1..2
  /\ \A c \in S : c.tags \cap wanted # {} => Head(s).tags \cap wanted # {}
  /\ Len(s) = 2 => Head(s).tags \cap wanted # {}

LEMMA TaggedIs ==
  ASSUME NEW S, Ordinary(S), NEW wanted
  PROVE  /\ Tagged(S, wanted) \in Seq(S)
         /\ Tagged(S, wanted) # <<>> => DefaultBehind(Tagged(S, wanted), S, wanted)
<1> DEFINE with(tags) == {c \in S : c.tags \cap tags # {}}
           all == with(wanted)
           defaults == with({"default"})
           default == FirstOf(defaults)
           s == Tagged(S, wanted)
<1>1. s = CASE defaults = {} -> <<>>
            [] defaults # {} /\ (all = {} \/ FirstOf(all) = default) -> <<default>>
            [] OTHER -> <<FirstOf(all), default>>
  BY Zenon DEF Tagged, FirstOf
<1>2. \A c \in S : c.order \in Nat
  BY DEF Ordinary
<1>3. defaults # {} => default \in S /\ "default" \in default.tags
  <2> SUFFICES ASSUME defaults # {} PROVE default \in S /\ "default" \in default.tags
    OBVIOUS
  <2>1. defaults \in SUBSET S /\ \A c \in defaults : "default" \in c.tags OBVIOUS
  <2> HIDE DEF defaults
  <2>2. default \in defaults BY <1>2, <2>1, FirstIs
  <2> QED BY <2>1, <2>2
<1>4. all # {} => FirstOf(all) \in S /\ FirstOf(all).tags \cap wanted # {}
  <2> SUFFICES ASSUME all # {} PROVE FirstOf(all) \in S /\ FirstOf(all).tags \cap wanted # {}
    OBVIOUS
  <2>1. all \in SUBSET S /\ \A c \in all : c.tags \cap wanted # {} OBVIOUS
  <2> HIDE DEF all
  <2>2. FirstOf(all) \in all BY <1>2, <2>1, FirstIs
  <2> QED BY <2>1, <2>2
<1>5. \A c \in S : c.tags \cap wanted # {} => all # {}
  OBVIOUS
<1> HIDE DEF s, all, defaults, default
<1>6. CASE defaults = {}
  <2>1. s = <<>> BY <1>1, <1>6
  <2> QED BY <2>1 DEF s
<1>7. CASE defaults # {} /\ (all = {} \/ FirstOf(all) = default)
  <2>1. s = <<default>> BY <1>1, <1>7
  <2>2. Len(s) = 1 /\ Head(s) = default /\ Last(s) = default BY <2>1 DEF Last
  <2>3. s \in Seq(S) BY <1>3, <1>7, <2>1
  <2>4. DefaultBehind(s, S, wanted) BY <1>3, <1>4, <1>5, <1>7, <2>2 DEF DefaultBehind
  <2> QED BY <2>3, <2>4 DEF s
<1>8. CASE defaults # {} /\ ~(all = {} \/ FirstOf(all) = default)
  <2> DEFINE first == FirstOf(all)
  <2>1. s = <<first, default>> BY <1>1, <1>8
  <2> HIDE DEF first
  <2>2. Len(s) = 2 /\ Head(s) = first /\ Last(s) = default BY <2>1 DEF Last
  <2>3. first \in S /\ first.tags \cap wanted # {} BY <1>4, <1>8 DEF first
  <2>4. s \in Seq(S) BY <1>3, <1>8, <2>1, <2>3
  <2>5. DefaultBehind(s, S, wanted) BY <1>3, <1>8, <2>2, <2>3 DEF DefaultBehind
  <2> QED BY <2>4, <2>5 DEF s
<1> QED BY <1>6, <1>7, <1>8

----------------------------------------------------------------------------
(* load_balance. *)

LEMMA SwappedLists ==
  ASSUME NEW S, NEW t, Enumerates(t, S), NEW i \in 1..Cardinality(S), NEW j \in 1..Cardinality(S)
  PROVE  Enumerates([t EXCEPT ![i] = t[j], ![j] = t[i]], S)
<1> DEFINE n == Cardinality(S)
           u == [t EXCEPT ![i] = t[j], ![j] = t[i]]
<1>1. t \in [1..n -> S] /\ \A c \in S : \E k \in 1..n : t[k] = c
  BY DEF Enumerates
<1> HIDE DEF n
<1>2. i \in 1..n /\ j \in 1..n
  BY DEF n
<1>3. u \in [1..n -> S] /\ u[j] = t[i] /\ (i # j => u[i] = t[j]) /\ \A k \in 1..n : k # i /\ k # j => u[k] = t[k]
  BY <1>1, <1>2
<1> HIDE DEF u
<1>4. ASSUME NEW c \in S PROVE \E k \in 1..n : u[k] = c
  <2>1. PICK k \in 1..n : t[k] = c BY <1>1
  <2>2. CASE k = i BY <1>2, <1>3, <2>1, <2>2
  <2>3. CASE k = j /\ i # j BY <1>2, <1>3, <2>1, <2>3
  <2>4. CASE k # i /\ k # j BY <1>3, <2>1, <2>4
  <2> QED BY <2>2, <2>3, <2>4
<1>5. Enumerates(u, S)
  BY <1>3, <1>4 DEF Enumerates, n
<1> QED BY <1>5 DEF u

Swapped(t, i, j) == [t EXCEPT ![i] = t[j], ![j] = t[i]]

\* The orders t that the picks v make of s, from the last place down to the second.
Shuffles(S, s, v, t) ==
  /\ t[0] = s
  /\ \A n \in 0..(Len(s) - 1) : Enumerates(t[n], S)
  /\ \A n \in 1..(Len(s) - 1) : /\ v[n] \in 0..(Len(s) - n)
                                /\ t[n] = Swapped(t[n - 1], Len(s) - n + 1, 1 + v[n])

\* LoadBalance makes the order of the picks of its draws.
PicksOf(s, draws) == [n \in 1..(Len(s) - 1) |-> Pick(Len(s) - n + 1, draws[n])]

LEMMA LoadBalanceShuffles ==
  ASSUME NEW S, Ordinary(S), S # {}, NEW s, Enumerates(s, S), NEW draws \in Draws
  PROVE  \E t : Shuffles(S, s, PicksOf(s, draws), t) /\ LoadBalance(s, draws) = t[Len(s) - 1]
<1> DEFINE N == Len(s) - 1
           I(n) == Len(s) - n + 1
           J(n) == 1 + Pick(I(n), draws[n])
           swap(n, t) == [t EXCEPT ![I(n)] = t[J(n)], ![J(n)] = t[I(n)]]
           P == {t \in [1..Len(s) -> S] : Enumerates(t, S)}
           step == [x \in (1..N) \X P |-> swap(x[1], x[2])]
           f == CHOOSE g : g = [n \in 0..N |-> IF n = 0 THEN s ELSE swap(n, g[n - 1])]
<1>1. Len(s) = Cardinality(S) /\ Len(s) \in Nat /\ Len(s) > 0 /\ Len(s) <= MaxDraws /\ MaxDraws \in Nat
  <2>1. IsFiniteSet(S) /\ Cardinality(S) <= MaxDraws BY DEF Ordinary
  <2>2. Cardinality(S) \in Nat /\ Cardinality(S) # 0 BY <2>1, FS_CardinalityType, FS_EmptySet
  <2>3. Len(s) = Cardinality(S) BY <2>1, ListsAll
  <2> QED BY <2>1, <2>2, <2>3, SelectionAssumption
<1>2. N \in Nat /\ \A n \in 1..N : I(n) \in Nat /\ I(n) > 0 /\ I(n) \in 1..Len(s) /\ n \in 1..MaxDraws
  BY <1>1
<1>3. \A t : t \in P <=> Enumerates(t, S)
  BY <1>1 DEF Enumerates
<1>4. ASSUME NEW n \in 1..N
      PROVE  Pick(I(n), draws[n]) \in 0..(Len(s) - n) /\ \A t \in P : swap(n, t) \in P
  <2>1. draws[n] \in 0..(Grain - 1) BY <1>2, DrawIs
  <2>2. Pick(I(n), draws[n]) \in 0..(I(n) - 1)
    <3> DEFINE i == I(n)
    <3>1. i \in Nat /\ i > 0 BY <1>2
    <3> HIDE DEF i
    <3>2. Pick(i, draws[n]) \in 0..(i - 1) BY <2>1, <3>1, PickBelow
    <3> QED BY <3>2 DEF i
  <2>3. J(n) \in 1..Len(s)
    <3> DEFINE i == I(n)
               p == Pick(i, draws[n])
    <3>1. i \in 1..Len(s) /\ p \in 0..(i - 1) BY <1>2, <2>2
    <3>2. J(n) = 1 + p OBVIOUS
    <3> HIDE DEF i, p, J
    <3> QED BY <1>1, <3>1, <3>2
  <2>4. I(n) \in 1..Len(s) BY <1>2
  <2> DEFINE i == I(n)
             j == J(n)
  <2>5. i \in 1..Cardinality(S) /\ j \in 1..Cardinality(S) BY <1>1, <2>3, <2>4
  <2>6. i - 1 = Len(s) - n BY <1>1, <1>2
  <2>7. \A t : swap(n, t) = [t EXCEPT ![i] = t[j], ![j] = t[i]] OBVIOUS
  <2>8. Pick(I(n), draws[n]) \in 0..(Len(s) - n) BY <2>2, <2>6
  <2> HIDE DEF i, j, swap
  <2>9. ASSUME NEW t \in P PROVE swap(n, t) \in P
    <3>1. Enumerates(t, S) BY <1>3
    <3>2. Enumerates([t EXCEPT ![i] = t[j], ![j] = t[i]], S) BY <2>5, <3>1, SwappedLists
    <3>3. Enumerates(swap(n, t), S) BY <2>7, <3>2
    <3> HIDE DEF P
    <3> QED BY <1>3, <3>3
  <2> QED BY <2>8, <2>9
<1>5. ASSUME NEW n \in 1..N, NEW t PROVE swap(n, t) = Swapped(t, Len(s) - n + 1, 1 + PicksOf(s, draws)[n])
  <2>1. PicksOf(s, draws)[n] = Pick(I(n), draws[n]) BY DEF PicksOf
  <2> QED BY <2>1 DEF Swapped
<1> HIDE DEF swap
<1>6. step \in [(1..N) \X P -> P] /\ \A n \in 1..N, t \in P : step[<<n, t>>] = swap(n, t)
  <2> HIDE DEF P
  <2> QED BY <1>4
<1>7. s \in P
  BY <1>3
<1> HIDE DEF step, P, N
<1>8. PICK g \in [0..N -> P] : g[0] = s /\ \A k \in 1..N : g[k] = step[<<k, g[k - 1]>>]
  <2>1. N \in Nat /\ s \in P /\ step \in [(1..N) \X P -> P] BY <1>2, <1>6, <1>7
  <2>2. \E g : Iterated(g, N, P, s, step) BY <2>1, Iterates
  <2> QED BY <2>2 DEF Iterated
<1>9. \E h : h = [n \in 0..N |-> IF n = 0 THEN s ELSE swap(n, h[n - 1])]
  <2>1. ASSUME NEW n \in 0..N PROVE g[n] = IF n = 0 THEN s ELSE swap(n, g[n - 1])
    <3>1. n # 0 => n \in 1..N /\ n - 1 \in 0..N BY <1>2
    <3> QED BY <1>6, <1>8, <3>1
  <2>2. g = [n \in 0..N |-> IF n = 0 THEN s ELSE swap(n, g[n - 1])] BY <1>8, <2>1
  <2> QED BY <2>2
<1>10. f = [n \in 0..N |-> IF n = 0 THEN s ELSE swap(n, f[n - 1])]
  BY <1>9
<1> HIDE DEF f
<1>11. f[0] = s /\ \A n \in 1..N : f[n] = swap(n, f[n - 1])
  <2>1. 0 \in 0..N /\ \A n \in 1..N : n \in 0..N /\ n # 0 BY <1>2
  <2> QED BY <1>10, <2>1
<1>12. \A n \in 0..N : f[n] \in P
  <2> DEFINE Q == {n \in 0..N : f[n] \in P}
  <2>1. 0 \in Q BY <1>2, <1>7, <1>11
  <2>2. ASSUME NEW n \in 1..N, n - 1 \in Q PROVE n \in Q
    <3>1. n \in 0..N BY <1>2
    <3> QED BY <1>4, <1>11, <2>2, <3>1
  <2>3. 0..N \subseteq Q
    <3> HIDE DEF Q
    <3> QED BY <1>2, <2>1, <2>2, Persists
  <2> QED BY <2>3
<1>13. Shuffles(S, s, PicksOf(s, draws), f)
  <2>1. \A n \in 0..N : Enumerates(f[n], S) BY <1>3, <1>12
  <2>2. ASSUME NEW n \in 1..N
        PROVE  /\ PicksOf(s, draws)[n] \in 0..(Len(s) - n)
               /\ f[n] = Swapped(f[n - 1], Len(s) - n + 1, 1 + PicksOf(s, draws)[n])
    <3>1. PicksOf(s, draws)[n] = Pick(I(n), draws[n]) BY DEF PicksOf, N
    <3>2. PicksOf(s, draws)[n] \in 0..(Len(s) - n) BY <1>4, <3>1
    <3> QED BY <1>5, <1>11, <3>2
  <2> QED BY <1>11, <2>1, <2>2 DEF Shuffles, N
<1>14. LoadBalance(s, draws) = f[Len(s) - 1]
  BY DEF LoadBalance, f, N, swap
<1> QED BY <1>13, <1>14

\* Whatever is drawn, the order holds every candidate.
LEMMA LoadBalanceIs ==
  ASSUME NEW S, Ordinary(S), S # {}, NEW s, Enumerates(s, S), NEW draws \in Draws
  PROVE  Enumerates(LoadBalance(s, draws), S)
<1>1. IsFiniteSet(S) /\ Len(s) = Cardinality(S)
  <2>1. IsFiniteSet(S) BY DEF Ordinary
  <2> QED BY <2>1, ListsAll
<1>2. Len(s) \in Nat /\ Len(s) # 0
  BY <1>1, FS_CardinalityType, FS_EmptySet
<1>3. PICK t : Shuffles(S, s, PicksOf(s, draws), t) /\ LoadBalance(s, draws) = t[Len(s) - 1]
  BY LoadBalanceShuffles
<1>4. Len(s) - 1 \in 0..(Len(s) - 1)
  BY <1>2
<1>5. Enumerates(t[Len(s) - 1], S)
  BY <1>3, <1>4 DEF Shuffles
<1> QED BY <1>3, <1>5

----------------------------------------------------------------------------
(* weighted. *)

LEMMA CumulativeIs ==
  ASSUME NEW S, Ordinary(S), NEW s \in Seq(S)
  PROVE  /\ Cumulative(s) \in [0..Len(s) -> Nat] /\ Cumulative(s)[0] = 0
         /\ \A i \in 1..Len(s) : s[i].weight \in Nat /\ Cumulative(s)[i] = Cumulative(s)[i - 1] + s[i].weight
<1> DEFINE N == Len(s)
           add(n, t) == t + s[n].weight
           step == [x \in (1..N) \X Nat |-> add(x[1], x[2])]
           f == CHOOSE g : g = [n \in 0..N |-> IF n = 0 THEN 0 ELSE add(n, g[n - 1])]
<1>1. N \in Nat /\ \A n \in 1..N : s[n].weight \in Nat
  BY DEF Ordinary
<1>2. \A n \in 1..N, t \in Nat : add(n, t) \in Nat
  BY <1>1
<1> HIDE DEF add
<1>3. step \in [(1..N) \X Nat -> Nat] /\ \A n \in 1..N, t \in Nat : step[<<n, t>>] = add(n, t)
  BY <1>2
<1> HIDE DEF step, N
<1>4. \E g : g = [n \in 0..N |-> IF n = 0 THEN 0 ELSE add(n, g[n - 1])]
  <2>1. PICK g \in [0..N -> Nat] : g[0] = 0 /\ \A k \in 1..N : g[k] = step[<<k, g[k - 1]>>]
    <3>1. N \in Nat /\ 0 \in Nat /\ step \in [(1..N) \X Nat -> Nat] BY <1>1, <1>3
    <3>2. \E g : Iterated(g, N, Nat, 0, step) BY <3>1, Iterates
    <3> QED BY <3>2 DEF Iterated
  <2>2. ASSUME NEW n \in 0..N PROVE g[n] = IF n = 0 THEN 0 ELSE add(n, g[n - 1])
    <3>1. n # 0 => n \in 1..N /\ n - 1 \in 0..N BY <1>1
    <3> QED BY <1>3, <2>1, <3>1
  <2>3. g = [n \in 0..N |-> IF n = 0 THEN 0 ELSE add(n, g[n - 1])] BY <2>1, <2>2
  <2> QED BY <2>3
<1>5. f = [n \in 0..N |-> IF n = 0 THEN 0 ELSE add(n, f[n - 1])]
  BY <1>4
<1> HIDE DEF f
<1>6. \A n \in 0..N : f[n] \in Nat
  <2> DEFINE Q == {n \in 0..N : f[n] \in Nat}
  <2>1. 0 \in Q BY <1>1, <1>5
  <2>2. ASSUME NEW n \in 1..N, n - 1 \in Q PROVE n \in Q
    <3>1. n \in 0..N /\ n # 0 BY <1>1
    <3>2. f[n] = add(n, f[n - 1]) BY <1>5, <3>1
    <3> QED BY <1>2, <2>2, <3>1, <3>2
  <2>3. 0..N \subseteq Q
    <3> HIDE DEF Q
    <3> QED BY <1>1, <2>1, <2>2, Persists
  <2> QED BY <2>3
<1>7. Cumulative(s) = f
  BY DEF Cumulative, f, N, add
<1>8. f \in [0..N -> Nat] /\ f[0] = 0 /\ \A i \in 1..N : f[i] = f[i - 1] + s[i].weight
  <2>1. f \in [0..N -> Nat] BY <1>5, <1>6
  <2>2. f[0] = 0 BY <1>1, <1>5
  <2>3. \A i \in 1..N : i \in 0..N /\ i # 0 BY <1>1
  <2>4. \A i \in 1..N : f[i] = add(i, f[i - 1]) BY <1>5, <2>3
  <2> QED BY <2>1, <2>2, <2>4 DEF add
<1> QED BY <1>1, <1>7, <1>8 DEF N

\* Cumulated weights never fall.
LEMMA CumulativeRises ==
  ASSUME NEW S, Ordinary(S), NEW s \in Seq(S)
  PROVE  \A n \in 0..Len(s) : \A i \in 0..n : Cumulative(s)[i] <= Cumulative(s)[n]
<1> DEFINE sum == Cumulative(s)
           N == Len(s)
           Q == {n \in 0..N : \A i \in 0..n : sum[i] <= sum[n]}
<1>1. N \in Nat
  OBVIOUS
<1>2. /\ sum \in [0..N -> Nat] /\ sum[0] = 0
      /\ \A i \in 1..N : s[i].weight \in Nat /\ sum[i] = sum[i - 1] + s[i].weight
  BY CumulativeIs
<1> HIDE DEF sum, N
<1>3. 0 \in Q BY <1>1, <1>2
<1>4. ASSUME NEW n \in 1..N, n - 1 \in Q PROVE n \in Q
  <2>1. n \in 0..N /\ n - 1 \in 0..N /\ \A i \in 0..n : i \in 0..N /\ (i = n \/ i \in 0..(n - 1)) BY <1>1
  <2>2. sum[n] = sum[n - 1] + s[n].weight /\ s[n].weight \in Nat BY <1>2
  <2>3. \A i \in 0..N : sum[i] \in Nat BY <1>2
  <2>4. \A i \in 0..(n - 1) : sum[i] <= sum[n - 1] BY <1>4
  <2>5. sum[n] \in Nat /\ sum[n - 1] \in Nat BY <2>1, <2>3
  <2>6. sum[n - 1] <= sum[n] BY <2>2, <2>5
  <2>7. \A i \in 0..n : sum[i] <= sum[n]
    <3> SUFFICES ASSUME NEW i \in 0..n PROVE sum[i] <= sum[n]
      OBVIOUS
    <3>1. sum[i] \in Nat BY <2>1, <2>3
    <3>2. i = n \/ sum[i] <= sum[n - 1] BY <2>1, <2>4
    <3> QED BY <2>5, <2>6, <3>1, <3>2
  <2> QED BY <2>1, <2>7
<1>5. 0..N \subseteq Q
  <2> HIDE DEF Q
  <2> QED BY <1>1, <1>3, <1>4, Persists
<1> QED BY <1>5 DEF sum, N

\* While any weight is left, a candidate that has some is drawn.
LEMMA DrawnIs ==
  ASSUME NEW S, Ordinary(S), NEW s \in Seq(S), ~Weightless(s), NEW draw \in 0..(Grain - 1)
  PROVE  Drawn(s, draw) \in 1..Len(s) /\ s[Drawn(s, draw)].weight > 0
<1> DEFINE sum == Cumulative(s)
           N == Len(s)
           total == sum[N]
           above == {i \in DOMAIN s : draw * total < sum[i] * Grain}
<1>1. N \in Nat /\ DOMAIN s = 1..N /\ Grain \in Nat /\ Grain > 0
  BY SelectionAssumption
<1>2. /\ sum \in [0..N -> Nat] /\ sum[0] = 0
      /\ \A i \in 1..N : s[i].weight \in Nat /\ sum[i] = sum[i - 1] + s[i].weight
  BY CumulativeIs
<1> HIDE DEF sum, N
<1>3. \A i \in 0..N : sum[i] <= sum[N]
  <2>1. N \in 0..N BY <1>1
  <2> QED BY <2>1, CumulativeRises DEF sum, N
<1>4. N \in 1..N /\ total \in Nat /\ total > 0
  <2>1. PICK i \in 1..N : s[i].weight # 0 BY <1>1 DEF Weightless
  <2>2. i \in 0..N /\ i - 1 \in 0..N /\ N \in 0..N /\ N \in 1..N BY <1>1
  <2>3. sum[i] \in Nat /\ sum[i - 1] \in Nat /\ total \in Nat BY <1>2, <2>2
  <2>4. sum[i] = sum[i - 1] + s[i].weight /\ s[i].weight \in Nat BY <1>2
  <2>5. sum[i] <= total BY <1>3, <2>2
  <2> HIDE DEF total
  <2> QED BY <2>1, <2>2, <2>3, <2>4, <2>5
<1>5. N \in above
  <2>1. draw \in Nat /\ draw < Grain BY <1>1
  <2>2. draw * total < total * Grain
    <3> HIDE DEF total
    <3> QED BY <1>1, <1>4, <2>1
  <2> QED BY <1>1, <1>4, <2>2
<1>6. above \in SUBSET Nat /\ above \subseteq 1..N
  BY <1>1
<1> DEFINE first == CHOOSE i \in above : \A j \in above : i <= j
<1>7. first \in above /\ \A j \in above : first <= j
  <2> HIDE DEF above
  <2>1. \E i \in above : \A j \in above : i <= j BY <1>5, <1>6, LeastOf
  <2> QED BY <2>1
<1>8. Drawn(s, draw) = first
  BY <1>5 DEF Drawn, sum, N
<1> HIDE DEF first
<1>9. first \in 1..N /\ draw * total < sum[first] * Grain
  BY <1>1, <1>7
<1>10. s[first].weight # 0
  <2> SUFFICES ASSUME s[first].weight = 0 PROVE FALSE
    OBVIOUS
  <2>1. sum[first] = sum[first - 1] /\ first - 1 \in 0..N /\ first - 1 < first
    <3>1. first - 1 \in 0..N /\ first - 1 < first BY <1>1, <1>9
    <3>2. sum[first - 1] \in Nat BY <1>2, <3>1
    <3>3. sum[first] = sum[first - 1] + s[first].weight BY <1>2, <1>9
    <3> QED BY <3>1, <3>2, <3>3
  <2>2. CASE first = 1
    <3>1. sum[first] * Grain = 0 BY <1>1, <1>2, <2>1, <2>2
    <3>2. draw * total \in Nat BY <1>1, <1>4
    <3> HIDE DEF total
    <3> QED BY <1>9, <3>1, <3>2
  <2>3. CASE first # 1
    <3>1. first - 1 \in DOMAIN s BY <1>1, <1>9, <2>3
    <3>2. draw * total < sum[first - 1] * Grain BY <1>9, <2>1
    <3>3. first - 1 \in above BY <3>1, <3>2
    <3>4. first <= first - 1
      <4> HIDE DEF above
      <4> QED BY <1>7, <3>3
    <3> QED BY <1>1, <1>9, <3>4
  <2> QED BY <2>2, <2>3
<1> QED BY <1>2, <1>8, <1>9, <1>10 DEF N

LEMMA RemovedAt ==
  ASSUME NEW S, NEW s \in Seq(S), NEW i \in 1..Len(s)
  PROVE  /\ RemoveAt(s, i) \in Seq(S) /\ Len(RemoveAt(s, i)) = Len(s) - 1
         /\ \A k \in 1..(Len(s) - 1) : RemoveAt(s, i)[k] = IF k < i THEN s[k] ELSE s[k + 1]
<1> DEFINE a == SubSeq(s, 1, i - 1)
           b == SubSeq(s, i + 1, Len(s))
<1>1. a \in Seq(S) /\ Len(a) = i - 1 /\ \A k \in 1..(i - 1) : a[k] = s[k]
  OBVIOUS
<1>2. b \in Seq(S) /\ Len(b) = Len(s) - i /\ \A k \in 1..(Len(s) - i) : b[k] = s[i + k]
  OBVIOUS
<1> HIDE DEF a, b
<1>3. a \o b \in Seq(S) /\ Len(a \o b) = Len(s) - 1
  <2>1. a \o b \in Seq(S) /\ Len(a \o b) = Len(a) + Len(b)
    <3>1. a \in Seq(S) /\ b \in Seq(S) BY <1>1, <1>2
    <3> QED BY <3>1
  <2>2. Len(s) \in Nat /\ i \in Nat OBVIOUS
  <2> QED BY <1>1, <1>2, <2>1, <2>2
<1>4. ASSUME NEW k \in 1..(Len(s) - 1) PROVE (a \o b)[k] = IF k < i THEN s[k] ELSE s[k + 1]
  <2>1. CASE k < i
    BY <1>1, <1>2, <2>1
  <2>2. CASE ~(k < i)
    <3>1. (a \o b)[k] = b[k - Len(a)] BY <1>1, <1>2, <2>2
    <3>2. k - Len(a) = k - i + 1 /\ k - i + 1 \in 1..(Len(s) - i) /\ i + (k - i + 1) = k + 1 BY <1>1, <2>2
    <3>3. b[k - i + 1] = s[i + (k - i + 1)] BY <1>2, <3>2
    <3> QED BY <2>2, <3>1, <3>2, <3>3
  <2> QED BY <2>1, <2>2
<1> QED BY <1>3, <1>4 DEF RemoveAt, a, b

\* What has been drawn and what is left list the candidates; what is left is in its order.
TurnOf(t, S) ==
  /\ t \in [drawn : Seq(S), left : Seq(S)]
  /\ Enumerates(t.drawn \o t.left, S)
  /\ \A i, j \in DOMAIN t.left : i < j => t.left[i].order < t.left[j].order
  /\ \A i \in DOMAIN t.drawn : t.drawn[i].weight > 0

LEMMA DrawKeeps ==
  ASSUME NEW S, Ordinary(S), NEW t, TurnOf(t, S), NEW i \in 1..Len(t.left), t.left[i].weight > 0
  PROVE  TurnOf([drawn |-> Append(t.drawn, t.left[i]), left |-> RemoveAt(t.left, i)], S)
<1> DEFINE n == Cardinality(S)
           d == t.drawn
           l == t.left
           a == Len(d)
           dd == Append(d, l[i])
           ll == RemoveAt(l, i)
           u == d \o l
           v == dd \o ll
<1>1. n \in Nat
  BY FS_CardinalityType DEF Ordinary
<1>2. d \in Seq(S) /\ l \in Seq(S) /\ a \in Nat /\ Len(l) \in Nat
  BY DEF TurnOf
<1>3. /\ ll \in Seq(S) /\ Len(ll) = Len(l) - 1
      /\ \A k \in 1..(Len(l) - 1) : ll[k] = IF k < i THEN l[k] ELSE l[k + 1]
  <2> HIDE DEF l
  <2>1. i \in 1..Len(l) BY DEF l
  <2> QED BY <1>2, <2>1, RemovedAt
<1>4. l[i] \in S
  BY <1>2
<1>5. dd \in Seq(S) /\ Len(dd) = a + 1 /\ dd[a + 1] = l[i] /\ \A k \in 1..a : dd[k] = d[k]
  BY <1>2, <1>4
<1>6. u \in Seq(S) /\ Len(u) = a + Len(l)
  BY <1>2
<1>7. a + Len(l) = n
  <2>1. Enumerates(u, S) BY DEF TurnOf
  <2>2. Len(u) = n
    <3> HIDE DEF u, n
    <3> QED BY <2>1, ListsAll DEF Ordinary, n
  <2> QED BY <1>6, <2>2
<1>8. i \in 1..Len(l) /\ l[i].weight > 0
  OBVIOUS
<1>9. \A c \in S : \E k \in 1..n : u[k] = c
  BY DEF TurnOf, Enumerates
<1>10. \A j, k \in DOMAIN l : j < k => l[j].order < l[k].order
  BY DEF TurnOf
<1>11. \A k \in DOMAIN d : d[k].weight > 0
  BY DEF TurnOf
<1>12. \A k \in 1..n : u[k] = IF k <= a THEN d[k] ELSE l[k - a]
  <2> HIDE DEF d, l, n
  <2>1. \A k \in 1..(a + Len(l)) : u[k] = IF k <= Len(d) THEN d[k] ELSE l[k - Len(d)] BY <1>2
  <2> QED BY <1>7, <2>1
<1> HIDE DEF dd, ll, l, d, u, n
<1>a. Len(dd) + Len(ll) = n
  <2>1. Len(dd) = a + 1 /\ Len(ll) = Len(l) - 1 /\ a \in Nat /\ Len(l) \in Nat /\ a + Len(l) = n
    BY <1>2, <1>3, <1>5, <1>7
  <2> HIDE DEF a
  <2>2. a + 1 + (Len(l) - 1) = a + Len(l) BY <2>1
  <2> QED BY <2>1, <2>2
<1>13. v \in Seq(S) /\ Len(v) = n
  <2>1. dd \in Seq(S) /\ ll \in Seq(S) BY <1>3, <1>5
  <2>2. v \in Seq(S) /\ Len(v) = Len(dd) + Len(ll) BY <2>1
  <2> QED BY <1>a, <2>2
<1>14. \A k \in 1..n : v[k] = IF k <= a + 1 THEN dd[k] ELSE ll[k - (a + 1)]
  <2>1. \A k \in 1..(Len(dd) + Len(ll)) : v[k] = IF k <= Len(dd) THEN dd[k] ELSE ll[k - Len(dd)] BY <1>3, <1>5
  <2> HIDE DEF v, a
  <2> QED BY <1>a, <1>5, <2>1
<1> HIDE DEF v, a
<1>15. ASSUME NEW c \in S PROVE \E k \in 1..n : v[k] = c
  <2>1. PICK k \in 1..n : u[k] = c BY <1>9
  <2>2. CASE k <= a
    <3>1. u[k] = d[k] /\ k \in 1..a BY <1>2, <1>12, <2>1, <2>2
    <3>2. dd[k] = d[k] BY <1>5, <3>1
    <3>3. v[k] = dd[k] BY <1>2, <1>14, <2>1, <2>2
    <3> QED BY <2>1, <3>1, <3>2, <3>3
  <2>3. CASE k - a = i
    <3>1. u[k] = l[i] BY <1>2, <1>8, <1>12, <2>1, <2>3
    <3>2. a + 1 \in 1..n BY <1>1, <1>2, <1>7, <1>8
    <3>3. v[a + 1] = dd[a + 1] BY <1>2, <1>14, <3>2
    <3> QED BY <1>5, <2>1, <3>1, <3>2, <3>3
  <2>4. CASE k > a /\ k - a < i
    <3> DEFINE m == k - a
    <3>1. m \in 1..(Len(l) - 1) /\ m < i /\ k + 1 \in 1..n /\ k + 1 - (a + 1) = m /\ ~(k + 1 <= a + 1) /\ ~(k <= a)
      BY <1>1, <1>2, <1>7, <1>8, <2>1, <2>4
    <3>2. u[k] = l[m] BY <1>12, <2>1, <3>1
    <3> HIDE DEF m
    <3>3. ASSUME NEW x \in 1..n, x - (a + 1) = m, ~(x <= a + 1) PROVE v[x] = ll[m]
      BY <1>14, <3>3
    <3>4. ll[m] = l[m] BY <1>3, <3>1
    <3> DEFINE x == k + 1
    <3>5. x \in 1..n /\ x - (a + 1) = m /\ ~(x <= a + 1) BY <1>1, <1>2, <2>1, <3>1
    <3> HIDE DEF x
    <3>6. v[x] = ll[m] BY <3>3, <3>5
    <3> QED BY <2>1, <3>2, <3>4, <3>5, <3>6
  <2>5. CASE k - a > i
    <3> DEFINE m == k - (a + 1)
    <3>1. m \in 1..(Len(l) - 1) /\ ~(m < i) /\ m + 1 = k - a /\ ~(k <= a + 1) /\ ~(k <= a)
      BY <1>1, <1>2, <1>7, <1>8, <2>1, <2>5
    <3>2. u[k] = l[k - a] BY <1>12, <2>1, <3>1
    <3>3. v[k] = ll[m] BY <1>14, <2>1, <3>1
    <3> HIDE DEF m
    <3>4. ll[m] = l[m + 1] BY <1>3, <3>1
    <3> QED BY <2>1, <3>1, <3>2, <3>3, <3>4
  <2> QED BY <1>1, <1>2, <1>8, <2>1, <2>2, <2>3, <2>4, <2>5
<1>16. Enumerates(v, S)
  <2>1. v \in [1..n -> S] BY <1>13
  <2> QED BY <1>15, <2>1 DEF Enumerates, n
<1>17. ASSUME NEW j \in DOMAIN ll, NEW k \in DOMAIN ll, j < k PROVE ll[j].order < ll[k].order
  <2>1. j \in 1..(Len(l) - 1) /\ k \in 1..(Len(l) - 1) BY <1>2, <1>3
  <2> DEFINE p == IF j < i THEN j ELSE j + 1
             q == IF k < i THEN k ELSE k + 1
  <2>2. p \in 1..Len(l) /\ q \in 1..Len(l) /\ p < q BY <1>2, <1>8, <1>17, <2>1
  <2>3. ll[j] = l[p] /\ ll[k] = l[q] BY <1>3, <2>1
  <2>4. DOMAIN l = 1..Len(l) BY <1>2
  <2> HIDE DEF p, q
  <2> QED BY <1>10, <2>2, <2>3, <2>4
<1>18. \A k \in DOMAIN dd : dd[k].weight > 0
  <2>1. DOMAIN dd = 1..(a + 1) /\ DOMAIN d = 1..a BY <1>2, <1>5 DEF a
  <2>2. \A k \in 1..(a + 1) : k = a + 1 \/ k \in 1..a BY <1>2
  <2> QED BY <1>5, <1>8, <1>11, <2>1, <2>2
<1> DEFINE w == [drawn |-> dd, left |-> ll]
<1>19. w \in [drawn : Seq(S), left : Seq(S)] /\ w.drawn = dd /\ w.left = ll
  BY <1>3, <1>5
<1> HIDE DEF w
<1>20. TurnOf(w, S)
  BY <1>16, <1>17, <1>18, <1>19 DEF TurnOf, v
<1> QED BY <1>20 DEF w, dd, ll, l, d

\* The conjunct of ChainFollowsStrategy for weighted.
WeightFirst(s) == \A i, j \in DOMAIN s : i < j => ~(s[i].weight = 0 /\ (s[j].weight > 0 \/ s[i].order > s[j].order))

LEMMA WeightedIs ==
  ASSUME NEW S, Ordinary(S), NEW s, Enumerates(s, S), \A i, j \in 1..Cardinality(S) : i < j => s[i].order < s[j].order,
         NEW draws \in Draws
  PROVE  /\ Enumerates(Weighted(s, draws), S) /\ WeightFirst(Weighted(s, draws))
         /\ ~Weightless(s) => Head(Weighted(s, draws)) = s[Drawn(s, draws[1])]
<1> DEFINE N == Len(s)
           start == [drawn |-> <<>>, left |-> s]
           turn(n, t) == LET i == Drawn(t.left, draws[n])
                         IN IF Weightless(t.left) THEN t
                            ELSE [drawn |-> Append(t.drawn, t.left[i]), left |-> RemoveAt(t.left, i)]
           P == {t \in [drawn : Seq(S), left : Seq(S)] : TurnOf(t, S)}
           step == [x \in (1..N) \X P |-> turn(x[1], x[2])]
           f == CHOOSE g : g = [n \in 0..N |-> IF n = 0 THEN start ELSE turn(n, g[n - 1])]
           head == s[Drawn(s, draws[1])]
<1>1. N = Cardinality(S) /\ N \in Nat /\ N <= MaxDraws /\ MaxDraws \in Nat /\ s \in Seq(S)
  <2>1. IsFiniteSet(S) /\ Cardinality(S) <= MaxDraws BY DEF Ordinary
  <2>2. Cardinality(S) \in Nat BY <2>1, FS_CardinalityType
  <2>3. Len(s) = Cardinality(S) /\ s \in Seq(S) BY <2>1, ListsAll
  <2> QED BY <2>1, <2>2, <2>3, SelectionAssumption
<1>2. \A t : t \in P <=> TurnOf(t, S)
  BY DEF TurnOf
<1>3. start \in P
  <2>1. start \in [drawn : Seq(S), left : Seq(S)] /\ start.drawn = <<>> /\ start.left = s BY <1>1
  <2>2. <<>> \o s = s /\ DOMAIN <<>> = {} /\ DOMAIN s = 1..N BY <1>1
  <2> HIDE DEF start, N
  <2>3. TurnOf(start, S) BY <1>1, <2>1, <2>2 DEF TurnOf
  <2> QED BY <1>2, <2>3
<1>4. ASSUME NEW n \in 1..N, NEW t \in P
      PROVE  /\ turn(n, t) \in P
             /\ Weightless(t.left) => turn(n, t) = t
             /\ ~Weightless(t.left) => Len(turn(n, t).drawn) = Len(t.drawn) + 1
             /\ t.drawn # <<>> => turn(n, t).drawn # <<>> /\ turn(n, t).drawn[1] = t.drawn[1]
  <2>1. TurnOf(t, S) /\ t.left \in Seq(S) /\ t.drawn \in Seq(S) OBVIOUS
  <2>2. CASE Weightless(t.left)
    <3>1. turn(n, t) = t BY <2>2
    <3> HIDE DEF turn, P
    <3> QED BY <2>2, <3>1
  <2>3. CASE ~Weightless(t.left)
    <3> DEFINE i == Drawn(t.left, draws[n])
               u == [drawn |-> Append(t.drawn, t.left[i]), left |-> RemoveAt(t.left, i)]
    <3>1. turn(n, t) = u BY <2>3
    <3>2. n \in 1..MaxDraws BY <1>1
    <3>3. draws[n] \in 0..(Grain - 1) BY <3>2, DrawIs
    <3>4. i \in 1..Len(t.left) /\ t.left[i].weight > 0 BY <2>1, <2>3, <3>3, DrawnIs
    <3> HIDE DEF i, turn, P
    <3>5. TurnOf(u, S) BY <2>1, <3>4, DrawKeeps
    <3>6. t.left[i] \in S BY <2>1, <3>4
    <3>7. Len(u.drawn) = Len(t.drawn) + 1 BY <2>1, <3>6
    <3>8. ASSUME t.drawn # <<>> PROVE u.drawn # <<>> /\ u.drawn[1] = t.drawn[1]
      <4>1. Len(t.drawn) \in Nat /\ Len(t.drawn) >= 1 BY <2>1, <3>8
      <4> QED BY <2>1, <3>6, <4>1
    <3> HIDE DEF u
    <3> QED BY <1>2, <2>3, <3>1, <3>5, <3>7, <3>8
  <2> QED BY <2>2, <2>3
<1>4a. ~Weightless(s) => turn(1, start).drawn = <<head>>
  BY DEF start
<1> HIDE DEF turn
<1>5. step \in [(1..N) \X P -> P] /\ \A n \in 1..N, t \in P : step[<<n, t>>] = turn(n, t)
  <2> HIDE DEF P
  <2> QED BY <1>4
<1> HIDE DEF step, P, N, start
<1>6. \E g : g = [n \in 0..N |-> IF n = 0 THEN start ELSE turn(n, g[n - 1])]
  <2>1. PICK g \in [0..N -> P] : g[0] = start /\ \A k \in 1..N : g[k] = step[<<k, g[k - 1]>>]
    <3>1. N \in Nat /\ start \in P /\ step \in [(1..N) \X P -> P] BY <1>1, <1>3, <1>5
    <3>2. \E g : Iterated(g, N, P, start, step) BY <3>1, Iterates
    <3> QED BY <3>2 DEF Iterated
  <2>2. ASSUME NEW n \in 0..N PROVE g[n] = IF n = 0 THEN start ELSE turn(n, g[n - 1])
    <3>1. n # 0 => n \in 1..N /\ n - 1 \in 0..N BY <1>1
    <3> QED BY <1>5, <2>1, <3>1
  <2>3. g = [n \in 0..N |-> IF n = 0 THEN start ELSE turn(n, g[n - 1])] BY <2>1, <2>2
  <2> QED BY <2>3
<1>7. f = [n \in 0..N |-> IF n = 0 THEN start ELSE turn(n, f[n - 1])]
  BY <1>6
<1> HIDE DEF f
<1>8. f[N] \in P /\ (Weightless(f[N].left) \/ Len(f[N].drawn) = N)
  <2> DEFINE Q == {n \in 0..N : f[n] \in P /\ (Weightless(f[n].left) \/ Len(f[n].drawn) = n)}
  <2>1. 0 \in Q
    <3>1. f[0] = start /\ 0 \in 0..N BY <1>1, <1>7
    <3>2. Len(start.drawn) = 0 BY DEF start
    <3> QED BY <1>3, <3>1, <3>2
  <2>2. ASSUME NEW n \in 1..N, n - 1 \in Q PROVE n \in Q
    <3>1. n \in 0..N /\ n # 0 BY <1>1
    <3>2. f[n] = turn(n, f[n - 1]) BY <1>7, <3>1
    <3>3. f[n - 1] \in P /\ (Weightless(f[n - 1].left) \/ Len(f[n - 1].drawn) = n - 1) BY <2>2
    <3>4. /\ turn(n, f[n - 1]) \in P
          /\ Weightless(f[n - 1].left) => turn(n, f[n - 1]) = f[n - 1]
          /\ ~Weightless(f[n - 1].left) => Len(turn(n, f[n - 1]).drawn) = Len(f[n - 1].drawn) + 1
      BY <1>4, <3>3
    <3>5. f[n] \in P BY <3>2, <3>4
    <3>6. CASE Weightless(f[n - 1].left) BY <3>1, <3>2, <3>4, <3>5, <3>6
    <3>7. CASE ~Weightless(f[n - 1].left)
      <4>1. Len(f[n].drawn) = n - 1 + 1 BY <3>2, <3>3, <3>4, <3>7
      <4>2. Len(f[n].drawn) = n BY <1>1, <4>1
      <4> QED BY <3>1, <3>5, <4>2
    <3> QED BY <3>6, <3>7
  <2>3. 0..N \subseteq Q
    <3> HIDE DEF Q
    <3> QED BY <1>1, <2>1, <2>2, Persists
  <2>4. N \in 0..N BY <1>1
  <2> QED BY <2>3, <2>4
<1>8a. ASSUME ~Weightless(s) PROVE f[N].drawn # <<>> /\ f[N].drawn[1] = head
  <2> DEFINE Q == {n \in 0..N : n = 0 \/ (f[n].drawn # <<>> /\ f[n].drawn[1] = head)}
             P2 == {n \in 0..N : f[n] \in P}
  <2>1. 0 \in Q BY <1>1
  <2>2. ASSUME NEW n \in 1..N PROVE f[n - 1] \in P /\ f[n] = turn(n, f[n - 1]) /\ n \in 0..N
    <3>1. 0 \in P2
      <4>1. f[0] = start /\ 0 \in 0..N BY <1>1, <1>7
      <4> QED BY <1>3, <4>1
    <3>2. ASSUME NEW k \in 1..N, k - 1 \in P2 PROVE k \in P2
      <4>1. k \in 0..N /\ k # 0 /\ f[k - 1] \in P BY <1>1, <3>2
      <4>2. f[k] = turn(k, f[k - 1]) BY <1>7, <4>1
      <4> QED BY <1>4, <4>1, <4>2
    <3>3. 0..N \subseteq P2
      <4> HIDE DEF P2
      <4> QED BY <1>1, <3>1, <3>2, Persists
    <3>4. n - 1 \in 0..N /\ n \in 0..N /\ n # 0 BY <1>1
    <3> QED BY <1>7, <3>3, <3>4
  <2>3. ASSUME NEW n \in 1..N, n - 1 \in Q PROVE n \in Q
    <3>1. CASE n = 1
      <4>1. f[1] = turn(1, f[0]) BY <2>2, <3>1
      <4>2. f[0] = start BY <1>1, <1>7
      <4>3. f[n].drawn = <<head>> BY <1>4a, <1>8a, <3>1, <4>1, <4>2
      <4> HIDE DEF head
      <4>4. f[n].drawn # <<>> /\ f[n].drawn[1] = head BY <4>3
      <4> QED BY <2>2, <4>4
    <3>2. CASE n # 1
      <4>1. f[n - 1].drawn # <<>> /\ f[n - 1].drawn[1] = head BY <2>3, <3>2
      <4> HIDE DEF head, Q
      <4>2. f[n].drawn # <<>> /\ f[n].drawn[1] = head BY <1>4, <2>2, <4>1
      <4> QED BY <2>2, <4>2 DEF Q
    <3> QED BY <3>1, <3>2
  <2>4. 0..N \subseteq Q
    <3> HIDE DEF Q
    <3> QED BY <1>1, <2>1, <2>3, Persists
  <2>5. N # 0
    <3> SUFFICES ASSUME N = 0 PROVE FALSE OBVIOUS
    <3>1. DOMAIN s = {} BY <1>1 DEF N
    <3> QED BY <1>8a, <3>1 DEF Weightless
  <2>6. N \in Q BY <1>1, <2>4
  <2> HIDE DEF head
  <2> QED BY <2>5, <2>6
<1>9. Weighted(s, draws) = f[N].drawn \o f[N].left
  BY DEF Weighted, f, N, turn, start
<1> DEFINE d == f[N].drawn
           l == f[N].left
           w == d \o l
<1>10. TurnOf(f[N], S)
  BY <1>2, <1>8
<1>11. d \in Seq(S) /\ l \in Seq(S) /\ Enumerates(w, S)
  BY <1>10 DEF TurnOf
<1>12. /\ \A i, j \in DOMAIN l : i < j => l[i].order < l[j].order
       /\ \A i \in DOMAIN d : d[i].weight > 0
  BY <1>10 DEF TurnOf
<1>13. Len(w) = N
  <2> HIDE DEF w
  <2> QED BY <1>1, <1>11, ListsAll DEF Ordinary
<1>14. Weightless(l)
  <2>1. CASE Len(d) = N
    <3>1. Len(l) = 0
      <4> HIDE DEF d, l
      <4>1. Len(d \o l) = Len(d) + Len(l) /\ Len(l) \in Nat /\ Len(d) \in Nat BY <1>11
      <4> QED BY <1>13, <2>1, <4>1
    <3>2. DOMAIN l = {} BY <1>11, <3>1
    <3> QED BY <3>2 DEF Weightless
  <2> QED BY <1>8, <2>1
<1>15. \A c \in S : c.order \in Nat
  BY DEF Ordinary
<1> HIDE DEF d, l
<1>16. WeightFirst(w)
  <2> SUFFICES ASSUME NEW i \in DOMAIN w, NEW j \in DOMAIN w, i < j, w[i].weight = 0
               PROVE  ~(w[j].weight > 0 \/ w[i].order > w[j].order)
    BY DEF WeightFirst
  <2>1. i \in 1..(Len(d) + Len(l)) /\ j \in 1..(Len(d) + Len(l)) /\ Len(d) \in Nat /\ Len(l) \in Nat BY <1>11
  <2>2. i > Len(d)
    <3> SUFFICES ASSUME i <= Len(d) PROVE FALSE
      BY <2>1
    <3>1. i \in DOMAIN d /\ w[i] = d[i] BY <1>11, <2>1
    <3>2. d[i].weight > 0 BY <1>12, <3>1
    <3> QED BY <3>1, <3>2
  <2>3. w[i] = l[i - Len(d)] /\ w[j] = l[j - Len(d)] BY <1>11, <2>1, <2>2
  <2>4. i - Len(d) \in DOMAIN l /\ j - Len(d) \in DOMAIN l /\ i - Len(d) < j - Len(d) BY <1>11, <2>1, <2>2
  <2>5. w[i].order < w[j].order BY <1>12, <2>3, <2>4
  <2>6. w[j].weight = 0 BY <1>14, <2>3, <2>4 DEF Weightless
  <2>7. w[i] \in S /\ w[j] \in S
    <3>1. l[i - Len(d)] \in S /\ l[j - Len(d)] \in S BY <1>11, <2>4
    <3> QED BY <2>3, <3>1
  <2>8. w[i].order \in Nat /\ w[j].order \in Nat BY <1>15, <2>7
  <2> QED BY <2>5, <2>6, <2>8
<1>17. ASSUME ~Weightless(s) PROVE Head(w) = head
  <2> HIDE DEF head
  <2>1. d # <<>> /\ d[1] = head BY <1>8a, <1>17 DEF d
  <2>2. Len(d) \in Nat /\ Len(d) >= 1 BY <1>11, <2>1
  <2> QED BY <1>11, <2>1, <2>2
<1> QED BY <1>9, <1>11, <1>16, <1>17 DEF d, l

----------------------------------------------------------------------------
(* The order a policy gives, and the chain of a request. *)

LEMMA PolicyIs ==
  ASSUME NEW p \in Policies
  PROVE  Ordinary(p.candidates)
  BY SelectionAssumption DEF Ordinary

CheapestFirst(s) ==
  \A i, j \in DOMAIN s : i < j =>
    ~(\E q \in s[j].price : \A o \in s[i].price : o.input + o.output > q.input + q.output)

\* An order that is not empty is the one ChainFollowsStrategy asks for.
FollowsStrategy(s, p, r) ==
  /\ s \in Seq(p.candidates)
  /\ p.strategy = "tag" => DefaultBehind(s, p.candidates, r.tag)
  /\ p.strategy # "tag" => ToSet(s) = p.candidates /\ Len(s) = Cardinality(p.candidates)
  /\ p.strategy = "fixed" => \A i, j \in DOMAIN s : i < j => ~(s[i].order > s[j].order)
  /\ p.strategy = "cost_first" => CheapestFirst(s)
  /\ p.strategy = "weighted" => WeightFirst(s)
  /\ p.strategy = "least_time" => WarmFirst(s, p.candidates, r.latency, r.draws)

LEMMA CheapestIs ==
  ASSUME NEW S, Ordinary(S), NEW c \in S, NEW d \in S, CostBefore(c, d)
  PROVE  ~(\E q \in d.price : \A o \in c.price : o.input + o.output > q.input + q.output)
<1> SUFFICES ASSUME NEW q \in d.price PROVE \E o \in c.price : ~(o.input + o.output > q.input + q.output)
  OBVIOUS
<1>1. c.price # {} \/ d.price = {}
  BY DEF CostBefore, CombinedPrice
<1>2. PICK o \in c.price : TRUE
  BY <1>1
<1>3. \A x \in c.price : x = o
  BY <1>2 DEF Ordinary
<1>4. \A x \in d.price : x = q
  BY DEF Ordinary
<1>5. CombinedPrice(c) = {o.input + o.output} /\ CombinedPrice(d) = {q.input + q.output}
  BY <1>2, <1>3, <1>4 DEF CombinedPrice
<1>6. o.input + o.output \in Nat /\ q.input + q.output \in Nat
  BY <1>2 DEF Ordinary, Price
<1> DEFINE a == o.input + o.output
           b == q.input + q.output
<1>7. a < b \/ a = b
  <2>1. CombinedPrice(c) = {a} /\ CombinedPrice(d) = {b} BY <1>5
  <2>2. d.price # {} OBVIOUS
  <2> HIDE DEF a, b
  <2>3. (\E x \in {a}, y \in {b} : x < y) \/ {a} = {b} BY <1>2, <2>1, <2>2 DEF CostBefore
  <2> QED BY <2>3
<1>8. ~(a > b)
  <2>1. a \in Nat /\ b \in Nat BY <1>6
  <2> HIDE DEF a, b
  <2> QED BY <1>7, <2>1
<1> QED BY <1>2, <1>8

LEMMA OrderedIs ==
  ASSUME NEW p \in Policies, NEW r \in Requests, p.model = r.model, Ordered(p, r) # <<>>
  PROVE  FollowsStrategy(Ordered(p, r), p, r)
<1> DEFINE S == p.candidates
           s == Ordered(p, r)
           c == Configured(p)
           n == Cardinality(S)
<1>1. Ordinary(S) /\ IsFiniteSet(S) /\ n \in Nat
  BY PolicyIs, FS_CardinalityType DEF Ordinary
<1>2. Enumerates(c, S) /\ \A i, j \in 1..n : i < j => c[i].order < c[j].order
  <2> HIDE DEF S
  <2>1. c = Sorted(S, ByOrder(S)) BY DEF Configured, S
  <2> QED BY <1>1, <2>1, InOrder
<1>3. r.draws \in Draws /\ Timed(S, r.latency)
  BY SelectionAssumption DEF Timed
<1>4. S # {}
  BY DEF Ordered
<1>5. /\ p.strategy = "cost_first" => s = CostFirst(S)
      /\ p.strategy = "load_balance" => s = LoadBalance(c, r.draws)
      /\ p.strategy = "weighted" => s = Weighted(c, r.draws)
      /\ p.strategy = "tag" => s = Tagged(S, r.tag)
      /\ p.strategy = "least_time" => s = LeastTime(S, r.latency, r.draws)
      /\ p.strategy \notin {"cost_first", "load_balance", "weighted", "tag", "least_time"} => s = c
  BY <1>4 DEF Ordered
<1> HIDE DEF S, s, c, n
<1>6. p.strategy # "tag" => Enumerates(s, S)
  BY <1>1, <1>2, <1>3, <1>4, <1>5, CostFirstIs, LoadBalanceIs, WeightedIs, LeastTimeIs DEF n
<1>7. p.strategy # "tag" => s \in Seq(S) /\ Len(s) = n /\ ToSet(s) = S /\ DOMAIN s = 1..n
  BY <1>1, <1>6, ListsAll DEF n
<1>8. p.strategy = "tag" => s \in Seq(S) /\ DefaultBehind(s, S, r.tag)
  <2>1. s # <<>> BY DEF s
  <2> QED BY <1>1, <1>5, <2>1, TaggedIs
<1>9. p.strategy = "fixed" => \A i, j \in DOMAIN s : i < j => ~(s[i].order > s[j].order)
  <2> SUFFICES ASSUME p.strategy = "fixed", NEW i \in DOMAIN s, NEW j \in DOMAIN s, i < j
               PROVE  ~(s[i].order > s[j].order)
    OBVIOUS
  <2>1. s = c /\ i \in 1..n /\ j \in 1..n BY <1>5, <1>7
  <2>2. s[i].order < s[j].order BY <1>2, <2>1
  <2>3. s[i].order \in Nat /\ s[j].order \in Nat BY <1>1, <1>7 DEF Ordinary
  <2> QED BY <2>2, <2>3
<1>10. p.strategy = "cost_first" => CheapestFirst(s)
  <2> SUFFICES ASSUME p.strategy = "cost_first", NEW i \in DOMAIN s, NEW j \in DOMAIN s, i < j
               PROVE  ~(\E q \in s[j].price : \A o \in s[i].price : o.input + o.output > q.input + q.output)
    BY DEF CheapestFirst
  <2>1. i \in 1..n /\ j \in 1..n /\ s[i] \in S /\ s[j] \in S BY <1>7
  <2>2. CostBefore(s[i], s[j]) BY <1>1, <1>5, <2>1, CostFirstIs DEF n
  <2> QED BY <1>1, <2>1, <2>2, CheapestIs
<1>11. p.strategy = "weighted" => WeightFirst(s)
  BY <1>1, <1>2, <1>3, <1>5, WeightedIs DEF n
<1>12. p.strategy = "least_time" => WarmFirst(s, S, r.latency, r.draws)
  BY <1>1, <1>3, <1>5, LeastTimeIs
<1>13. FollowsStrategy(s, p, r)
  BY <1>7, <1>8, <1>9, <1>10, <1>11, <1>12 DEF FollowsStrategy, S, n
<1> QED BY <1>13 DEF s

\* What fits a contract fits each candidate that promises no less in any field.
LEMMA FitsAlso ==
  ASSUME NEW k, NEW own, NEW size, \A f \in Fields : own[f] \subseteq k[f], Fits(k, size)
  PROVE  Fits(own, size)
<1>1. {"maxOutput", "maxContext", "inputs", "outputs", "tools", "reasoning"} = Fields
  BY DEF Fields
<1>2. /\ own["maxOutput"] \subseteq k["maxOutput"] /\ own["maxContext"] \subseteq k["maxContext"]
      /\ own["inputs"] \subseteq k["inputs"] /\ own["outputs"] \subseteq k["outputs"]
      /\ own["tools"] \subseteq k["tools"] /\ own["reasoning"] \subseteq k["reasoning"]
  BY <1>1
<1> QED BY <1>2 DEF Fits

\* The invariant: a chain is the order of the request's policy, and its contract held.
Accepted ==
  \E p \in Policies : /\ p.model = asked.model /\ chain = Ordered(p, asked)
                      /\ Fits(Contract(ContractCandidates(p, chain)), asked.size)

SelectInv ==
  /\ asked = NoRequest \/ asked \in Requests
  /\ refused \subseteq Reasons
  /\ chain # <<>> => asked # NoRequest /\ Accepted

LEMMA VerdictIs ==
  ASSUME NEW r
  PROVE  /\ Verdict(r) = "accepted" \/ Verdict(r) \in Reasons
         /\ Verdict(r) = "accepted" =>
              \E p \in Policies : /\ p.model = r.model /\ Ordered(p, r) # <<>>
                                  /\ Fits(Contract(ContractCandidates(p, Ordered(p, r))), r.size)
<1> DEFINE policies == {p \in Policies : p.model = r.model}
           policy == CHOOSE p \in policies : TRUE
           order == Ordered(policy, r)
           candidates == ContractCandidates(policy, order)
           fits == Fits(Contract(candidates), r.size)
           inner == CASE order = <<>> -> "provider_unavailable"
                      [] order # <<>> /\ Mismatched(candidates) # {} -> "virtual_model_configuration_invalid"
                      [] order # <<>> /\ Mismatched(candidates) = {} /\ ~fits -> "virtual_model_capability_mismatch"
                      [] OTHER -> "accepted"
<1>1. Verdict(r) = CASE policies = {} -> "route_not_found"
                     [] policies # {} /\ policy.protocol # r.protocol -> "provider_protocol_unsupported"
                     [] OTHER -> inner
  BY Zenon DEF Verdict
<1>2. policies # {} => policy \in Policies /\ policy.model = r.model
  OBVIOUS
<1> HIDE DEF policies, policy
<1>3. inner \in {"provider_unavailable", "virtual_model_configuration_invalid", "virtual_model_capability_mismatch", "accepted"}
  OBVIOUS
<1>4. inner = "accepted" => order # <<>> /\ fits
  <2> HIDE DEF order, candidates, fits
  <2> QED OBVIOUS
<1> HIDE DEF inner
<1>5. Verdict(r) = "accepted" \/ Verdict(r) \in Reasons
  BY <1>1, <1>3 DEF Reasons
<1>6. Verdict(r) = "accepted" => policies # {} /\ inner = "accepted"
  BY <1>1
<1> QED BY <1>2, <1>4, <1>5, <1>6

LEMMA PolicyOf ==
  ASSUME NEW p \in Policies, NEW model, p.model = model
  PROVE  p = CHOOSE q \in Policies : q.model = model
  BY SelectionAssumption

LEMMA SelectInvInit == SelectInit => SelectInv
  BY DEF SelectInit, SelectInv

LEMMA SelectInvNext == SelectInv /\ [SelectNext]_selectVars => SelectInv'
<1> SUFFICES ASSUME SelectInv, [SelectNext]_selectVars PROVE SelectInv'
  OBVIOUS
<1> USE DEF SelectInv
<1>1. CASE UNCHANGED selectVars
  BY <1>1 DEF selectVars, Accepted
<1>2. ASSUME NEW r \in Requests, Ask(r) PROVE SelectInv'
  BY <1>2 DEF Ask
<1>3. CASE Answer
  <2>1. asked \in Requests /\ asked' = asked /\ asked # NoRequest BY <1>3 DEF Answer
  <2>2. CASE Verdict(asked) = "accepted"
    <3>1. refused' = refused /\ chain' = Ordered(CHOOSE p \in Policies : p.model = asked.model, asked)
      BY <1>3, <2>2 DEF Answer
    <3>2. PICK p \in Policies : /\ p.model = asked.model /\ Ordered(p, asked) # <<>>
                                /\ Fits(Contract(ContractCandidates(p, Ordered(p, asked))), asked.size)
      BY <2>2, VerdictIs
    <3>3. p = CHOOSE q \in Policies : q.model = asked.model BY <3>2, PolicyOf
    <3>4. chain' = Ordered(p, asked) BY <3>1, <3>3
    <3>5. p.model = asked.model' /\ chain' = Ordered(p, asked') /\ Fits(Contract(ContractCandidates(p, chain')), asked'.size)
      BY <2>1, <3>2, <3>4
    <3>6. Accepted' BY <3>5 DEF Accepted
    <3> QED BY <2>1, <3>1, <3>6
  <2>3. CASE Verdict(asked) # "accepted"
    <3>1. refused' = {Verdict(asked)} /\ chain' = chain BY <1>3, <2>3 DEF Answer
    <3>2. Verdict(asked) \in Reasons BY <2>3, VerdictIs
    <3>3. chain' = <<>> BY <1>3, <3>1 DEF Answer
    <3> QED BY <2>1, <3>1, <3>2, <3>3
  <2> QED BY <2>2, <2>3
<1>4. CASE Forget
  BY <1>4 DEF Forget
<1> QED BY <1>1, <1>2, <1>3, <1>4 DEF SelectNext

LEMMA ChainIs ==
  ASSUME SelectInv, chain # <<>>, NEW p \in Policies, p.model = asked.model
  PROVE  /\ chain \in Seq(p.candidates) /\ FollowsStrategy(chain, p, asked)
         /\ Fits(Contract(ContractCandidates(p, chain)), asked.size)
<1>1. PICK q \in Policies : /\ q.model = asked.model /\ chain = Ordered(q, asked)
                            /\ Fits(Contract(ContractCandidates(q, chain)), asked.size)
  BY DEF SelectInv, Accepted
<1>2. q = p
  BY <1>1, SelectionAssumption
<1>3. asked \in Requests
  BY DEF SelectInv
<1>4. FollowsStrategy(chain, p, asked)
  <2>1. Ordered(p, asked) # <<>> BY <1>1, <1>2
  <2>2. FollowsStrategy(Ordered(p, asked), p, asked) BY <1>3, <2>1, OrderedIs
  <2> QED BY <1>1, <1>2, <2>2
<1> QED BY <1>1, <1>2, <1>4 DEF FollowsStrategy

LEMMA SelectInvIsTyped == SelectInv => SelectTypeOK
<1> SUFFICES ASSUME SelectInv, NEW p \in Policies, asked.model = p.model PROVE ToSet(chain) \subseteq p.candidates
  BY DEF SelectInv, SelectTypeOK
<1>1. CASE chain = <<>>
  BY <1>1 DEF ToSet
<1>2. CASE chain # <<>>
  <2>1. chain \in Seq(p.candidates) BY <1>2, ChainIs
  <2> QED BY <2>1 DEF ToSet
<1> QED BY <1>1, <1>2

LEMMA SelectInvFits == SelectInv => AcceptedFits
<1> SUFFICES ASSUME SelectInv, NEW p \in Routed,
                    NEW c \in (IF p.strategy = "tag" THEN {Head(chain)} ELSE ToSet(chain)),
                    \A d \in p.candidates : \A f \in Fields : d.capabilities[f] = {} => c.capabilities[f] = {}
             PROVE  Fits(c.capabilities, asked.size)
  BY DEF AcceptedFits
<1>1. chain # <<>> /\ p \in Policies /\ p.model = asked.model
  BY DEF Routed
<1> DEFINE held == ContractCandidates(p, chain)
<1>2. chain \in Seq(p.candidates) /\ FollowsStrategy(chain, p, asked) /\ Fits(Contract(held), asked.size)
  BY <1>1, ChainIs
<1>3. c \in held /\ held \subseteq p.candidates
  <2>1. Head(chain) \in p.candidates BY <1>1, <1>2
  <2> QED BY <1>2, <2>1 DEF ContractCandidates, FollowsStrategy
<1>4. \A f \in Fields : c.capabilities[f] \subseteq Contract(held)[f]
  <2> SUFFICES ASSUME NEW f \in Fields PROVE c.capabilities[f] \subseteq Contract(held)[f]
    OBVIOUS
  <2> HIDE DEF held
  <2>1. Contract(held)[f] = IF \E d \in held : d.capabilities[f] = {} THEN {} ELSE Known(held, f)
    BY DEF Contract
  <2>2. (\E d \in held : d.capabilities[f] = {}) => c.capabilities[f] = {} BY <1>3
  <2>3. c.capabilities[f] \subseteq Known(held, f) BY <1>3 DEF Known
  <2> QED BY <2>1, <2>2, <2>3
<1> HIDE DEF held
<1> QED BY <1>2, <1>4, FitsAlso

LEMMA SelectInvFollows == SelectInv => ChainFollowsStrategy
<1> SUFFICES ASSUME SelectInv, NEW p \in Routed
             PROVE  /\ p.strategy = "tag" => DefaultBehind(chain, p.candidates, asked.tag)
                    /\ p.strategy # "tag" =>
                         /\ ToSet(chain) = p.candidates /\ Len(chain) = Cardinality(p.candidates)
                         /\ p.strategy = "fixed" => \A i, j \in DOMAIN chain : i < j => ~(chain[i].order > chain[j].order)
                         /\ p.strategy = "cost_first" => CheapestFirst(chain)
                         /\ p.strategy = "weighted" => WeightFirst(chain)
                         /\ p.strategy = "least_time" => WarmFirst(chain, p.candidates, asked.latency, asked.draws)
  BY Zenon DEF ChainFollowsStrategy, NeverAhead, DefaultBehind, CheapestFirst, WeightFirst, WarmFirst, Late
<1>1. chain # <<>> /\ p \in Policies /\ p.model = asked.model
  BY DEF Routed
<1> QED BY <1>1, ChainIs DEF FollowsStrategy

----------------------------------------------------------------------------
(* Counting draws. *)

\* What is mapped in parts of K elements is K times what it is mapped to.
LEMMA EqualParts ==
  ASSUME NEW D, IsFiniteSet(D), NEW O, IsFiniteSet(O), NEW f \in [D -> O], NEW K \in Nat,
         \A o \in O : Cardinality({d \in D : f[d] = o}) = K
  PROVE  Cardinality(D) = Cardinality(O) * K
<1> DEFINE part(o) == {d \in D : f[d] = o}
           b == [o \in O |-> CHOOSE g : g \in Bijection(1..K, part(o))]
           h == [x \in O \X (1..K) |-> b[x[1]][x[2]]]
<1>1. ASSUME NEW o \in O PROVE b[o] \in Bijection(1..K, part(o))
  <2>1. IsFiniteSet(part(o)) /\ Cardinality(part(o)) = K
    <3>1. part(o) \in SUBSET D OBVIOUS
    <3> HIDE DEF part
    <3>2. IsFiniteSet(part(o)) BY <3>1, FS_Subset
    <3> QED BY <3>2 DEF part
  <2>2. ExistsBijection(1..K, part(o))
    <3> HIDE DEF part
    <3> QED BY <2>1, FS_CardinalityType
  <2>3. \E g : g \in Bijection(1..K, part(o)) BY <2>2 DEF ExistsBijection
  <2> HIDE DEF part
  <2> QED BY <2>3
<1>2. \A o \in O : /\ b[o] \in [1..K -> part(o)]
                   /\ \A i, j \in 1..K : b[o][i] = b[o][j] => i = j
                   /\ \A d \in part(o) : \E i \in 1..K : b[o][i] = d
  <2> HIDE DEF part, b
  <2> QED BY <1>1 DEF Bijection, Injection, Surjection, IsInjective
<1> HIDE DEF b
<1>3. h \in [O \X (1..K) -> D]
  <2> SUFFICES ASSUME NEW o \in O, NEW i \in 1..K PROVE b[o][i] \in D
    OBVIOUS
  <2> QED BY <1>2
<1>4. ASSUME NEW x \in O \X (1..K), NEW y \in O \X (1..K), h[x] = h[y] PROVE x = y
  <2>1. PICK o \in O, i \in 1..K : x = <<o, i>> OBVIOUS
  <2>2. PICK p \in O, j \in 1..K : y = <<p, j>> OBVIOUS
  <2>3. b[o][i] = b[p][j] BY <1>4, <2>1, <2>2
  <2>4. f[b[o][i]] = o /\ f[b[p][j]] = p
    <3>1. b[o][i] \in part(o) /\ b[p][j] \in part(p)
      <4> HIDE DEF part
      <4>1. b[o] \in [1..K -> part(o)] /\ b[p] \in [1..K -> part(p)] BY <1>2
      <4> QED BY <4>1
    <3> QED BY <3>1
  <2>5. o = p BY <2>3, <2>4
  <2>6. i = j BY <1>2, <2>3, <2>5
  <2> QED BY <2>1, <2>2, <2>5, <2>6
<1>5. ASSUME NEW d \in D PROVE \E x \in O \X (1..K) : h[x] = d
  <2>1. f[d] \in O /\ d \in part(f[d]) OBVIOUS
  <2>2. PICK i \in 1..K : b[f[d]][i] = d BY <1>2, <2>1
  <2>3. <<f[d], i>> \in O \X (1..K) /\ h[<<f[d], i>>] = d BY <2>1, <2>2
  <2> QED BY <2>3
<1> HIDE DEF h
<1>6. h \in Bijection(O \X (1..K), D)
  BY <1>3, <1>4, <1>5 DEF Bijection, Injection, Surjection, IsInjective
<1>7. /\ IsFiniteSet(1..K) /\ Cardinality(1..K) = K
  BY FS_Interval
<1>8. IsFiniteSet(O \X (1..K)) /\ Cardinality(O \X (1..K)) = Cardinality(O) * Cardinality(1..K)
  BY <1>7, FS_Product
<1>9. ExistsBijection(O \X (1..K), D)
  BY <1>6 DEF ExistsBijection
<1>10. Cardinality(O \X (1..K)) = Cardinality(D)
  BY <1>8, <1>9, FS_Bijection
<1> QED BY <1>7, <1>8, <1>10

LEMMA DrawsFinite == IsFiniteSet(Draws)
<1> DEFINE M == 1..MaxDraws
           G == 0..(Grain - 1)
           h == [d \in Draws |-> {<<i, d[i]>> : i \in M}]
<1>1. IsFiniteSet(M) /\ IsFiniteSet(G)
  <2>1. MaxDraws \in Nat /\ Grain - 1 \in Int BY SelectionAssumption
  <2> QED BY <2>1, SelectionAssumption, FS_Interval
<1>2. Draws = [M -> G] BY DEF Draws
<1> HIDE DEF M, G
<1>3. IsFiniteSet(SUBSET (M \X G))
  BY <1>1, FS_Product, FS_SUBSET
<1>4. h \in [Draws -> SUBSET (M \X G)]
  BY <1>2
<1>5. ASSUME NEW d \in Draws, NEW e \in Draws, h[d] = h[e] PROVE d = e
  <2>1. \A i \in M : <<i, d[i]>> \in {<<k, e[k]>> : k \in M} BY <1>5
  <2>2. \A i \in M : d[i] = e[i] BY <2>1
  <2> QED BY <1>2, <2>2
<1> HIDE DEF h
<1>6. h \in Injection(Draws, SUBSET (M \X G))
  BY <1>4, <1>5 DEF Injection, IsInjective
<1> QED BY <1>3, <1>6, FS_Injection

\* Floor of a draw's fraction of n, where n divides Grain.
LEMMA QuotientIs ==
  ASSUME NEW x \in Nat, NEW q \in Nat, q > 0, NEW y \in Nat
  PROVE  x \div q = y <=> q * y <= x /\ x < q * (y + 1)
<1>1. x \div q \in Nat /\ q * (x \div q) <= x /\ x < q * ((x \div q) + 1)
  OBVIOUS
<1> DEFINE k == x \div q
<1>2. k \in Nat /\ q * k <= x /\ x < q * (k + 1) BY <1>1
<1> HIDE DEF k
<1>3. ASSUME q * y <= x, x < q * (y + 1) PROVE k = y
  <2>1. ~(k < y)
    <3> SUFFICES ASSUME k + 1 <= y PROVE FALSE BY <1>2
    <3>1. q * (k + 1) <= q * y BY <1>2
    <3> QED BY <1>2, <1>3, <3>1
  <2>2. ~(y < k)
    <3> SUFFICES ASSUME y + 1 <= k PROVE FALSE BY <1>2
    <3>1. q * (y + 1) <= q * k BY <1>2
    <3> QED BY <1>2, <1>3, <3>1
  <2> QED BY <1>2, <2>1, <2>2
<1>4. ASSUME k = y PROVE q * y <= x /\ x < q * (y + 1)
  BY <1>2, <1>4
<1> QED BY <1>3, <1>4 DEF k

LEMMA PickIs ==
  ASSUME NEW q \in Nat, NEW n \in Nat, n > 0, Grain = q * n, NEW draw \in 0..(Grain - 1)
  PROVE  q > 0 /\ Pick(n, draw) = draw \div q
<1>1. Grain \in Nat /\ Grain > 0 BY SelectionAssumption
<1>2. q > 0
  <2> SUFFICES ASSUME q = 0 PROVE FALSE OBVIOUS
  <2>1. q * n = 0 OBVIOUS
  <2> QED BY <1>1, <2>1
<1> DEFINE k == draw \div q
           x == draw * n
<1>3. k \in Nat /\ q * k <= draw /\ draw < q * (k + 1)
  <2>1. draw \in Nat /\ k \in Nat BY <1>1, <1>2
  <2> HIDE DEF k
  <2>2. draw \div q = k <=> q * k <= draw /\ draw < q * (k + 1) BY <1>2, <2>1, QuotientIs
  <2> QED BY <2>1, <2>2 DEF k
<1> HIDE DEF k
<1>4. draw \in Nat /\ x \in Nat BY <1>1
<1>5. Grain * k <= x /\ x < Grain * (k + 1)
  <2>1. (q * k) * n <= draw * n BY <1>3, <1>4
  <2>2. draw * n < (q * (k + 1)) * n BY <1>3, <1>4
  <2>3. (q * k) * n = (q * n) * k /\ (q * (k + 1)) * n = (q * n) * (k + 1) BY <1>3
  <2> QED BY <2>1, <2>2, <2>3
<1>6. Pick(n, draw) = x \div Grain BY DEF Pick
<1> HIDE DEF x
<1>7. x \div Grain = k BY <1>1, <1>3, <1>4, <1>5, QuotientIs
<1> QED BY <1>2, <1>6, <1>7 DEF k

----------------------------------------------------------------------------
(* The draws that are cut alike. *)

\* The draws whose places in M are cut into parts of q and fall into the parts v.
Slice(M, q, v) == {d \in Draws : \A n \in M : d[n] \div q[n] = v[n]}

\* Places of a draw, sizes of parts and the numbers of parts that Grain has.
Parted(M, q, v) ==
  /\ M \subseteq 1..MaxDraws
  /\ \A n \in M : q[n] \in Nat /\ q[n] > 0 /\ v[n] \in Nat /\ q[n] * (v[n] + 1) <= Grain

Shifted(M, q, v, w, d) ==
  [n \in 1..MaxDraws |-> IF n \in M THEN d[n] - q[n] * v[n] + q[n] * w[n] ELSE d[n]]

LEMMA ShiftIs ==
  ASSUME NEW M, NEW q, NEW v, NEW w, Parted(M, q, v), Parted(M, q, w), NEW d \in Slice(M, q, v)
  PROVE  /\ Shifted(M, q, v, w, d) \in Slice(M, q, w)
         /\ Shifted(M, q, w, v, Shifted(M, q, v, w, d)) = d
<1> DEFINE e == Shifted(M, q, v, w, d)
           f == Shifted(M, q, w, v, e)
<1>1. Grain \in Nat /\ MaxDraws \in Nat /\ M \subseteq 1..MaxDraws
  BY SelectionAssumption DEF Parted
<1>2. d \in [1..MaxDraws -> 0..(Grain - 1)]
  BY DEF Slice, Draws
<1>3. ASSUME NEW n \in M
      PROVE  e[n] \in 0..(Grain - 1) /\ e[n] \div q[n] = w[n] /\ f[n] = d[n]
  <2> DEFINE k == q[n]
             a == k * v[n]
             b == k * w[n]
             x == d[n]
             y == e[n]
  <2>1. k \in Nat /\ k > 0 /\ v[n] \in Nat /\ w[n] \in Nat /\ k * (v[n] + 1) <= Grain /\ k * (w[n] + 1) <= Grain
    BY DEF Parted
  <2>2. x \in Nat /\ x \div k = v[n] /\ n \in 1..MaxDraws
    BY <1>1, <1>2 DEF Slice
  <2>3. y = x - a + b
    BY <2>2 DEF Shifted
  <2>4. f[n] = y - b + a
    BY <2>2 DEF Shifted
  <2> HIDE DEF x, y, e, f, k
  <2>5. k * v[n] <= x /\ x < k * (v[n] + 1)
    BY <2>1, <2>2, QuotientIs
  <2>6. k * (v[n] + 1) = a + k /\ k * (w[n] + 1) = b + k /\ a \in Nat /\ b \in Nat
    BY <2>1
  <2>7. a <= x /\ x < a + k /\ b + k <= Grain
    BY <2>1, <2>5, <2>6
  <2> HIDE DEF a, b
  <2>8. y \in Nat /\ b <= y /\ y < b + k /\ y < Grain /\ f[n] = x
    BY <1>1, <2>1, <2>2, <2>3, <2>4, <2>6, <2>7
  <2>9. k * w[n] <= y /\ y < k * (w[n] + 1)
    BY <2>6, <2>8 DEF b
  <2>10. y \div k = w[n]
    BY <2>1, <2>8, <2>9, QuotientIs
  <2>11. y \in 0..(Grain - 1)
    BY <1>1, <2>8
  <2> QED BY <2>8, <2>10, <2>11 DEF x, y, k
<1>4. ASSUME NEW n \in (1..MaxDraws) \ M PROVE e[n] = d[n] /\ f[n] = d[n]
  BY <1>4 DEF Shifted
<1>5. \A n \in 1..MaxDraws : e[n] \in 0..(Grain - 1)
  <2> HIDE DEF e
  <2> QED BY <1>2, <1>3, <1>4
<1>6. e \in [1..MaxDraws -> 0..(Grain - 1)]
  <2>1. e = [n \in 1..MaxDraws |-> e[n]] BY DEF Shifted
  <2> HIDE DEF e
  <2> QED BY <1>5, <2>1
<1>7. e \in Slice(M, q, w)
  <2> HIDE DEF e
  <2> QED BY <1>3, <1>6 DEF Slice, Draws
<1>8. f = d
  <2>1. f = [n \in 1..MaxDraws |-> f[n]] BY DEF Shifted
  <2>2. \A n \in 1..MaxDraws : f[n] = d[n]
    <3> HIDE DEF f, e
    <3> QED BY <1>3, <1>4
  <2> HIDE DEF f
  <2> QED BY <1>2, <2>1, <2>2
<1> QED BY <1>7, <1>8

\* As many draws fall into these parts as into those.
LEMMA SlicesAreEqual ==
  ASSUME NEW M, NEW q, NEW v, NEW w, Parted(M, q, v), Parted(M, q, w)
  PROVE  Cardinality(Slice(M, q, v)) = Cardinality(Slice(M, q, w))
<1> DEFINE A == Slice(M, q, v)
           B == Slice(M, q, w)
           h == [d \in A |-> Shifted(M, q, v, w, d)]
<1>1. IsFiniteSet(A) /\ IsFiniteSet(B)
  <2>1. A \in SUBSET Draws /\ B \in SUBSET Draws BY DEF Slice
  <2> QED BY <2>1, DrawsFinite, FS_Subset
<1>2. ASSUME NEW d \in A PROVE Shifted(M, q, v, w, d) \in B /\ Shifted(M, q, w, v, Shifted(M, q, v, w, d)) = d
  BY ShiftIs
<1>3. ASSUME NEW e \in B PROVE Shifted(M, q, w, v, e) \in A /\ Shifted(M, q, v, w, Shifted(M, q, w, v, e)) = e
  BY ShiftIs
<1> HIDE DEF A, B
<1>4. h \in [A -> B]
  BY <1>2
<1>5. ASSUME NEW d \in A, NEW e \in A, h[d] = h[e] PROVE d = e
  <2>1. Shifted(M, q, v, w, d) = Shifted(M, q, v, w, e) BY <1>5
  <2> QED BY <1>2, <2>1
<1>6. ASSUME NEW e \in B PROVE \E d \in A : h[d] = e
  BY <1>3
<1> HIDE DEF h
<1>7. ExistsBijection(A, B)
  BY <1>4, <1>5, <1>6 DEF ExistsBijection, Bijection, Injection, Surjection, IsInjective
<1>8. Cardinality(A) = Cardinality(B)
  BY <1>1, <1>7, FS_Bijection
<1> QED BY <1>8 DEF A, B

----------------------------------------------------------------------------
(* The split of a weighted policy. *)

\* A number below the total weight falls to one place only.
Falls(s, i, u) == Cumulative(s)[i - 1] <= u /\ u < Cumulative(s)[i]

LEMMA FallsOnce ==
  ASSUME NEW S, Ordinary(S), NEW s \in Seq(S), NEW u \in Nat,
         NEW i \in 1..Len(s), NEW j \in 1..Len(s), Falls(s, i, u), Falls(s, j, u)
  PROVE  i = j
<1> DEFINE sum == Cumulative(s)
           N == Len(s)
<1>1. N \in Nat /\ sum \in [0..N -> Nat]
  BY CumulativeIs
<1>2. \A n \in 0..N : \A k \in 0..n : sum[k] <= sum[n]
  BY CumulativeRises
<1>3. sum[i - 1] <= u /\ u < sum[i] /\ sum[j - 1] <= u /\ u < sum[j]
  BY DEF Falls
<1>4. i \in 1..N /\ j \in 1..N
  OBVIOUS
<1> HIDE DEF sum, N
<1>5. i \in 0..N /\ j \in 0..N /\ i - 1 \in 0..N /\ j - 1 \in 0..N
  BY <1>1, <1>4
<1>6. sum[i] \in Nat /\ sum[j] \in Nat /\ sum[i - 1] \in Nat /\ sum[j - 1] \in Nat
  BY <1>1, <1>5
<1>7. i <= j - 1 => sum[i] <= sum[j - 1]
  <2>1. i <= j - 1 => i \in 0..(j - 1) BY <1>1, <1>4
  <2> QED BY <1>2, <1>5, <2>1
<1>8. j <= i - 1 => sum[j] <= sum[i - 1]
  <2>1. j <= i - 1 => j \in 0..(i - 1) BY <1>1, <1>4
  <2> QED BY <1>2, <1>5, <2>1
<1>9. ~(i <= j - 1) /\ ~(j <= i - 1)
  BY <1>3, <1>6, <1>7, <1>8
<1> QED BY <1>1, <1>4, <1>9

LEMMA FallsSomewhere ==
  ASSUME NEW S, Ordinary(S), NEW s \in Seq(S), NEW u \in Nat, u < Cumulative(s)[Len(s)]
  PROVE  \E i \in 1..Len(s) : Falls(s, i, u)
<1> DEFINE sum == Cumulative(s)
           N == Len(s)
           above == {i \in 0..N : u < sum[i]}
<1>1. N \in Nat /\ sum \in [0..N -> Nat] /\ sum[0] = 0 /\ u < sum[N]
  BY CumulativeIs
<1> HIDE DEF sum, N
<1>2. above \in SUBSET Nat /\ above # {}
  BY <1>1
<1>3. \E i \in above : \A j \in above : i <= j
  <2> HIDE DEF above
  <2> QED BY <1>2, LeastOf
<1>4. PICK i \in above : \A j \in above : i <= j
  BY <1>3
<1>5. i \in 1..N
  BY <1>1, <1>4
<1>6. i - 1 \in 0..N /\ i - 1 \notin above
  BY <1>1, <1>4, <1>5
<1>7. sum[i - 1] <= u
  <2>1. sum[i - 1] \in Nat BY <1>1, <1>6
  <2> QED BY <1>6, <2>1
<1> QED BY <1>4, <1>5, <1>7 DEF Falls, sum, N

\* Where each part of the draws goes that Grain has for a unit of weight.
LEMMA DrawnFalls ==
  ASSUME NEW S, Ordinary(S), NEW s \in Seq(S), ~Weightless(s), NEW draw \in 0..(Grain - 1),
         NEW q \in Nat, Grain = q * Cumulative(s)[Len(s)]
  PROVE  Drawn(s, draw) \in 1..Len(s) /\ q > 0 /\ Falls(s, Drawn(s, draw), draw \div q)
<1> DEFINE sum == Cumulative(s)
           N == Len(s)
           total == sum[N]
           above == {i \in DOMAIN s : draw * total < sum[i] * Grain}
           u == draw \div q
<1>1. N \in Nat /\ DOMAIN s = 1..N /\ Grain \in Nat /\ Grain > 0 /\ draw \in Nat
  BY SelectionAssumption
<1>2. sum \in [0..N -> Nat] /\ sum[0] = 0
  BY CumulativeIs
<1>3. total \in Nat /\ Grain = q * total
  <2>1. N \in 0..N BY <1>1
  <2> HIDE DEF sum, N
  <2> QED BY <1>2, <2>1 DEF sum, N
<1>4. q > 0 /\ total > 0
  <2>1. q * total > 0 BY <1>1, <1>3
  <2> HIDE DEF total
  <2>2. q # 0 /\ total # 0
    <3>1. q = 0 => q * total = 0 BY <1>3
    <3>2. total = 0 => q * total = 0 BY <1>3
    <3> QED BY <2>1, <3>1, <3>2
  <2> QED BY <1>3, <2>2
<1>5. u \in Nat /\ q * u <= draw /\ draw < q * (u + 1)
  <2>1. u \in Nat BY <1>1, <1>4
  <2> HIDE DEF u
  <2>2. draw \div q = u <=> q * u <= draw /\ draw < q * (u + 1) BY <1>1, <1>4, <2>1, QuotientIs
  <2> QED BY <2>1, <2>2 DEF u
<1> HIDE DEF u, total
<1>6. ASSUME NEW x \in Nat PROVE draw * total < x * Grain <=> u < x
  <2>1. x * Grain = (x * q) * total
    BY <1>3
  <2>2. draw * total < (x * q) * total <=> draw < x * q
    <3> DEFINE y == x * q
    <3>1. y \in Nat OBVIOUS
    <3> HIDE DEF y
    <3>2. draw < y => draw * total < y * total BY <1>1, <1>3, <1>4, <3>1
    <3>3. ~(draw < y) => y * total <= draw * total BY <1>1, <1>3, <1>4, <3>1
    <3>4. draw * total \in Nat /\ y * total \in Nat BY <1>1, <1>3, <3>1
    <3>5. draw * total < y * total <=> draw < y BY <3>2, <3>3, <3>4
    <3> QED BY <3>5 DEF y
  <2>3. draw < x * q <=> u < x
    <3>1. u < x => q * (u + 1) <= x * q BY <1>5
    <3>2. ~(u < x) => x * q <= q * u BY <1>5
    <3>3. x * q \in Nat /\ q * u \in Nat /\ q * (u + 1) \in Nat BY <1>5
    <3> QED BY <1>1, <1>5, <3>1, <3>2, <3>3
  <2> QED BY <2>1, <2>2, <2>3
<1>7. Drawn(s, draw) = IF above = {} THEN N ELSE CHOOSE i \in above : \A j \in above : i <= j
  BY DEF Drawn, total
<1> HIDE DEF sum, N
<1>8. above = {i \in 1..N : u < sum[i]}
  <2>1. \A i \in 1..N : sum[i] \in Nat BY <1>1, <1>2
  <2> QED BY <1>1, <1>6, <2>1
<1> HIDE DEF above
<1>9. u < total
  <2>1. draw < q * total BY <1>1, <1>3
  <2>2. ~(u < total) => q * total <= q * u BY <1>3, <1>5
  <2>3. q * total \in Nat /\ q * u \in Nat BY <1>3, <1>5
  <2> QED BY <1>1, <1>5, <2>1, <2>2, <2>3
<1>10. PICK i \in 1..N : Falls(s, i, u)
  BY <1>5, <1>9, FallsSomewhere DEF total, sum, N
<1>11. i \in above /\ \A j \in above : i <= j
  <2>1. i \in above BY <1>8, <1>10 DEF Falls, sum
  <2>2. ASSUME NEW j \in above, j < i PROVE FALSE
    <3>1. j \in 1..N /\ u < sum[j] BY <1>8
    <3>2. j \in 0..(i - 1) /\ i - 1 \in 0..N BY <1>1, <1>10, <2>2, <3>1
    <3>3. sum[j] <= sum[i - 1] BY <3>2, CumulativeRises DEF sum, N
    <3>4. sum[i - 1] <= u BY <1>10 DEF Falls, sum
    <3>5. sum[j] \in Nat /\ sum[i - 1] \in Nat BY <1>1, <1>2, <3>1, <3>2
    <3> QED BY <1>5, <3>1, <3>3, <3>4, <3>5
  <2>3. \A j \in above : j \in Nat BY <1>1, <1>8
  <2> QED BY <1>1, <1>10, <2>1, <2>2, <2>3
<1>12. Drawn(s, draw) = i
  <2>1. \A k \in above : (\A j \in above : k <= j) => k = i
    <3>1. \A j \in above : j \in Nat BY <1>1, <1>8
    <3> QED BY <1>11, <3>1
  <2> QED BY <1>7, <1>11, <2>1
<1> QED BY <1>4, <1>10, <1>12 DEF N, u

\* The weights of a policy add up to the last cumulated one, in whatever order.
LEMMA TotalIs ==
  ASSUME NEW S, Ordinary(S), NEW s, Enumerates(s, S), \A i, j \in 1..Cardinality(S) : i < j => s[i].order < s[j].order
  PROVE  TotalWeight(S) = Cumulative(s)[Len(s)]
<1> DEFINE sum == Cumulative(s)
           N == Len(s)
           U == 0..(sum[N] - 1)
           G(A) == {u \in U : \E i \in 1..N : s[i] \in A /\ Falls(s, i, u)}
           g == [A \in SUBSET S |-> Cardinality(G(A))]
           Chosen(A) == CHOOSE x \in A : TRUE
           Folds(f) == f = [A \in SUBSET S |-> IF A = {} THEN 0 ELSE f[A \ {Chosen(A)}] + Chosen(A).weight]
           f == CHOOSE f : Folds(f)
           Differ == {A \in SUBSET S : f[A] # g[A]}
<1>1. IsFiniteSet(S) /\ s \in Seq(S) /\ N = Cardinality(S) /\ N \in Nat /\ DOMAIN s = 1..N
  <2>1. IsFiniteSet(S) BY DEF Ordinary
  <2> QED BY <2>1, ListsAll, FS_CardinalityType
<1>2. /\ sum \in [0..N -> Nat] /\ sum[0] = 0
      /\ \A i \in 1..N : s[i].weight \in Nat /\ sum[i] = sum[i - 1] + s[i].weight
  BY <1>1, CumulativeIs
<1>3. \A n \in 0..N : \A i \in 0..n : sum[i] <= sum[n]
  BY <1>1, CumulativeRises
<1>4. \A i, j \in 1..N : s[i] = s[j] => i = j
  <2> SUFFICES ASSUME NEW i \in 1..N, NEW j \in 1..N, s[i] = s[j], i # j PROVE FALSE
    OBVIOUS
  <2>1. s[i].order < s[j].order \/ s[j].order < s[i].order
    <3>1. i < j \/ j < i BY <1>1
    <3> QED BY <1>1, <3>1
  <2>2. s[i].order \in Nat BY <1>1 DEF Ordinary
  <2> QED BY <2>1, <2>2
<1>5. \A c \in S : \E i \in 1..N : s[i] = c
  BY <1>1 DEF Enumerates
<1>6. sum[N] \in Nat
  <2>1. N \in 0..N BY <1>1
  <2> HIDE DEF sum, N
  <2> QED BY <1>2, <2>1
<1> HIDE DEF sum, N
<1>7. IsFiniteSet(U)
  BY <1>6, FS_Interval
<1>8. \A A : IsFiniteSet(G(A))
  <2> SUFFICES ASSUME NEW A PROVE IsFiniteSet(G(A)) OBVIOUS
  <2>1. G(A) \in SUBSET U OBVIOUS
  <2> HIDE DEF G, U
  <2> QED BY <1>7, <2>1, FS_Subset
<1>9. ASSUME NEW c \in S PROVE Cardinality(G({c})) = c.weight
  <2>1. PICK i \in 1..N : s[i] = c BY <1>5
  <2>2. i \in 0..N /\ i - 1 \in 0..N /\ N \in 0..N BY <1>1
  <2>3. sum[i] \in Nat /\ sum[i - 1] \in Nat /\ sum[i] = sum[i - 1] + c.weight /\ c.weight \in Nat BY <1>2, <2>1, <2>2
  <2>4. sum[i] <= sum[N] BY <1>3, <2>2
  <2>5. G({c}) = sum[i - 1]..(sum[i] - 1)
    <3>1. \A u : u \in G({c}) <=> u \in U /\ Falls(s, i, u)
      BY <1>4, <2>1
    <3>2. \A u : Falls(s, i, u) <=> sum[i - 1] <= u /\ u < sum[i]
      BY DEF Falls, sum
    <3> HIDE DEF G
    <3>3. \A u \in Int : u \in U /\ sum[i - 1] <= u /\ u < sum[i] <=> u \in sum[i - 1]..(sum[i] - 1)
      <4> DEFINE a == sum[i - 1]
                 b == sum[i]
                 t == sum[N]
      <4>1. a \in Nat /\ b \in Nat /\ t \in Nat /\ b <= t BY <1>6, <2>3, <2>4
      <4>2. U = 0..(t - 1) OBVIOUS
      <4> HIDE DEF a, b, t, U
      <4>3. \A u \in Int : u \in U /\ a <= u /\ u < b <=> u \in a..(b - 1)
        BY <4>1, <4>2
      <4> QED BY <4>3 DEF a, b
    <3>4. U \subseteq Int BY <1>6
    <3>5. \A u \in sum[i - 1]..(sum[i] - 1) : u \in Int BY <2>3
    <3> HIDE DEF U
    <3> QED BY <3>1, <3>2, <3>3, <3>4, <3>5
  <2>6. Cardinality(sum[i - 1]..(sum[i] - 1)) = c.weight
    <3> DEFINE a == sum[i - 1]
               b == sum[i]
               w == c.weight
    <3>1. a \in Nat /\ b \in Nat /\ w \in Nat /\ b = a + w BY <2>3
    <3> HIDE DEF a, b, w
    <3> DEFINE e == b - 1
    <3>2. a \in Int /\ e \in Int /\ e = b - 1 BY <3>1
    <3> HIDE DEF e
    <3>3. Cardinality(a..e) = IF a > e THEN 0 ELSE e - a + 1
      BY <3>2, FS_Interval
    <3>4. Cardinality(a..e) = w
      BY <3>1, <3>2, <3>3
    <3> QED BY <3>4 DEF a, b, e, w
  <2> QED BY <2>5, <2>6
<1>10. ASSUME NEW A \in SUBSET S, A # {} PROVE g[A] = g[A \ {Chosen(A)}] + Chosen(A).weight
  <2> DEFINE c == Chosen(A)
             R == A \ {c}
  <2>1. c \in A /\ c \in S /\ R \in SUBSET S BY <1>10
  <2>2. A = R \cup {c} BY <2>1
  <2> HIDE DEF c
  <2>3. G(A) = G(R) \cup G({c}) BY <2>2
  <2>4. G(R) \cap G({c}) = {}
    <3> SUFFICES ASSUME NEW u \in G(R), u \in G({c}) PROVE FALSE OBVIOUS
    <3>1. PICK i \in 1..N : s[i] \in R /\ Falls(s, i, u) OBVIOUS
    <3>2. PICK j \in 1..N : s[j] = c /\ Falls(s, j, u) OBVIOUS
    <3>3. u \in Nat BY <1>6
    <3>4. i = j BY <1>1, <3>1, <3>2, <3>3, FallsOnce DEF N
    <3> QED BY <3>1, <3>2, <3>4
  <2>5. IsFiniteSet(G(R)) /\ IsFiniteSet(G({c})) BY <1>8
  <2>6. g[A] = Cardinality(G(A)) /\ g[R] = Cardinality(G(R)) BY <2>1
  <2>7. Cardinality(G({c})) = c.weight BY <1>9, <2>1
  <2>8. c.weight \in Nat BY <2>1 DEF Ordinary
  <2> HIDE DEF G, g, R
  <2>9. Cardinality(G(R) \cup G({c})) = Cardinality(G(R)) + Cardinality(G({c})) - Cardinality({})
    BY <2>4, <2>5, FS_Union
  <2>10. Cardinality({}) = 0 /\ Cardinality(G(R)) \in Nat BY <2>5, FS_EmptySet, FS_CardinalityType
  <2> QED BY <2>3, <2>6, <2>7, <2>8, <2>9, <2>10 DEF c, R
<1>11. g[{}] = 0
  <2>1. G({}) = {} OBVIOUS
  <2>2. g[{}] = Cardinality(G({})) OBVIOUS
  <2> HIDE DEF g, G
  <2> QED BY <2>1, <2>2, FS_EmptySet
<1>12. g[S] = sum[N]
  <2>1. G(S) = U
    <3> SUFFICES ASSUME NEW u \in U PROVE \E i \in 1..N : s[i] \in S /\ Falls(s, i, u)
      OBVIOUS
    <3>1. u \in Nat /\ u < Cumulative(s)[Len(s)] BY <1>6 DEF sum, N
    <3>2. PICK i \in 1..N : Falls(s, i, u) BY <1>1, <3>1, FallsSomewhere DEF N
    <3> QED BY <1>1, <3>2
  <2>2. Cardinality(U) = sum[N]
    <3> DEFINE t == sum[N]
    <3>1. t \in Nat BY <1>6
    <3> HIDE DEF t
    <3>2. Cardinality(0..(t - 1)) = IF 0 > t - 1 THEN 0 ELSE (t - 1) - 0 + 1 BY <3>1, FS_Interval
    <3>3. Cardinality(0..(t - 1)) = t BY <3>1, <3>2
    <3> QED BY <3>3 DEF t
  <2>3. g[S] = Cardinality(G(S)) OBVIOUS
  <2> HIDE DEF g, G, U
  <2> QED BY <2>1, <2>2, <2>3
<1>13. Folds(g)
  <2>1. g = [A \in SUBSET S |-> g[A]] OBVIOUS
  <2> HIDE DEF g, Chosen
  <2>2. \A A \in SUBSET S : g[A] = IF A = {} THEN 0 ELSE g[A \ {Chosen(A)}] + Chosen(A).weight BY <1>10, <1>11
  <2> QED BY <2>1, <2>2
<1>14. Folds(f)
  <2> HIDE DEF g, Folds
  <2> QED BY <1>13
<1>15. TotalWeight(S) = f[S]
  BY DEF TotalWeight, FoldSet, MapThenFoldSet
<1> HIDE DEF f, g, G
<1>16. f[S] = g[S]
  <2> SUFFICES ASSUME f[S] # g[S] PROVE FALSE OBVIOUS
  <2> DEFINE sizes == {Cardinality(A) : A \in Differ}
  <2>1. \A A \in SUBSET S : IsFiniteSet(A) /\ Cardinality(A) \in Nat BY <1>1, FS_Subset, FS_CardinalityType
  <2>2. sizes \in SUBSET Nat /\ sizes # {} BY <2>1
  <2>3. \E n \in sizes : \A m \in sizes : n <= m
    <3> HIDE DEF sizes
    <3> QED BY <2>2, LeastOf
  <2>4. PICK A \in Differ : \A B \in Differ : Cardinality(A) <= Cardinality(B) BY <2>3
  <2> HIDE DEF sizes, Chosen
  <2>5. CASE A = {} BY <1>11, <1>14, <2>4, <2>5
  <2>6. CASE A # {}
    <3> DEFINE c == Chosen(A)
               R == A \ {c}
    <3>1. c \in A BY <2>6 DEF Chosen
    <3>2. R \in SUBSET S /\ Cardinality(R) = Cardinality(A) - 1 BY <2>1, <2>4, <3>1, FS_RemoveElement
    <3>3. R \notin Differ BY <2>1, <2>4, <3>2
    <3>4. f[R] = g[R] BY <3>2, <3>3
    <3>5. f[A] = f[R] + c.weight BY <1>14, <2>4, <2>6
    <3>6. g[A] = g[R] + c.weight BY <1>10, <2>4, <2>6
    <3> QED BY <2>4, <3>4, <3>5, <3>6
  <2> QED BY <2>5, <2>6
<1> QED BY <1>12, <1>15, <1>16 DEF sum, N

\* Draws whose first place falls into a given part of q: as many for each part.
First == {1}

LEMMA FirstParted ==
  ASSUME NEW q \in Nat, q > 0, NEW T \in Nat, Grain = q * T, NEW u \in 0..(T - 1)
  PROVE  Parted(First, [n \in First |-> q], [n \in First |-> u])
<1>1. MaxDraws \in Nat /\ MaxDraws # 0 BY SelectionAssumption
<1>2. q * (u + 1) <= q * T
  <2>1. u \in Nat /\ u + 1 <= T OBVIOUS
  <2> QED BY <2>1
<1>3. u \in Nat OBVIOUS
<1> QED BY <1>1, <1>2, <1>3 DEF Parted, First

\* Of a weighted policy every candidate heads its share of the draws.
LEMMA WeightedSplits ==
  ASSUME NEW S, Ordinary(S), NEW s, Enumerates(s, S), \A i, j \in 1..Cardinality(S) : i < j => s[i].order < s[j].order,
         TotalWeight(S) > 0 => \E q \in 1..Grain : Grain = q * TotalWeight(S), NEW c \in S
  PROVE  Cardinality({d \in Draws : Head(Weighted(s, d)) = c}) * TotalWeight(S) = Cardinality(Draws) * c.weight
<1> DEFINE sum == Cumulative(s)
           N == Len(s)
           T == sum[N]
           D == {d \in Draws : Head(Weighted(s, d)) = c}
<1>1. IsFiniteSet(S) /\ s \in Seq(S) /\ N = Cardinality(S) /\ N \in Nat /\ DOMAIN s = 1..N
  <2>1. IsFiniteSet(S) BY DEF Ordinary
  <2> QED BY <2>1, ListsAll, FS_CardinalityType
<1>2. /\ sum \in [0..N -> Nat] /\ sum[0] = 0
      /\ \A i \in 1..N : s[i].weight \in Nat /\ sum[i] = sum[i - 1] + s[i].weight
  BY <1>1, CumulativeIs
<1>3. \A n \in 0..N : \A i \in 0..n : sum[i] <= sum[n]
  BY <1>1, CumulativeRises
<1>4. TotalWeight(S) = T
  BY TotalIs
<1>5. PICK i \in 1..N : s[i] = c
  BY <1>1 DEF Enumerates
<1> HIDE DEF sum, N
<1>6. /\ T \in Nat /\ sum[i] \in Nat /\ sum[i - 1] \in Nat /\ c.weight \in Nat
      /\ sum[i] = sum[i - 1] + c.weight /\ sum[i] <= T
  <2>1. i \in 0..N /\ i - 1 \in 0..N /\ N \in 0..N BY <1>1
  <2> QED BY <1>2, <1>3, <1>5, <2>1
<1>7. IsFiniteSet(Draws) /\ Cardinality(Draws) \in Nat /\ IsFiniteSet(D) /\ Cardinality(D) \in Nat
  <2>1. D \in SUBSET Draws OBVIOUS
  <2> HIDE DEF D
  <2> QED BY <2>1, DrawsFinite, FS_Subset, FS_CardinalityType
<1>8. CASE T = 0
  <2>1. c.weight = 0
    <3> HIDE DEF T
    <3> QED BY <1>6, <1>8
  <2> HIDE DEF D, T
  <2>2. Cardinality(D) * T = Cardinality(Draws) * c.weight
    <3>1. Cardinality(D) * T = 0 /\ Cardinality(Draws) * c.weight = 0 BY <1>7, <1>8, <2>1
    <3> QED BY <3>1
  <2> QED BY <1>4, <2>2 DEF D, T
<1>9. CASE T # 0
  <2>1. PICK q \in 1..Grain : Grain = q * T
    <3> HIDE DEF T
    <3> QED BY <1>4, <1>6, <1>9
  <2>2. q \in Nat /\ q > 0 /\ Grain \in Nat /\ Grain > 0 BY SelectionAssumption
  <2>3. ~Weightless(s)
    <3> SUFFICES ASSUME Weightless(s) PROVE FALSE OBVIOUS
    <3> DEFINE Q == {n \in 0..N : sum[n] = 0}
    <3>1. 0 \in Q BY <1>1, <1>2
    <3>2. ASSUME NEW n \in 1..N, n - 1 \in Q PROVE n \in Q
      <4>1. sum[n] = sum[n - 1] + s[n].weight /\ n \in 0..N BY <1>1, <1>2
      <4>2. s[n].weight = 0 BY <1>1 DEF Weightless
      <4> QED BY <3>2, <4>1, <4>2
    <3>3. 0..N \subseteq Q
      <4> HIDE DEF Q
      <4> QED BY <1>1, <3>1, <3>2, Persists
    <3>4. N \in 0..N BY <1>1
    <3> QED BY <1>9, <3>3, <3>4
  <2> DEFINE size == [n \in First |-> q]
             part(u) == [n \in First |-> u]
             K == Cardinality(Slice(First, size, part(0)))
             O == 0..(T - 1)
             P == sum[i - 1]..(sum[i] - 1)
             cut(d) == d[1] \div q
  <2>4. ASSUME NEW d \in Draws
        PROVE  /\ d[1] \in 0..(Grain - 1) /\ cut(d) \in O
               /\ d \in D <=> Falls(s, i, cut(d))
    <3>1. d[1] \in 0..(Grain - 1)
      <4>1. 1 \in 1..MaxDraws BY SelectionAssumption
      <4> QED BY <4>1, DrawIs
    <3> DEFINE k == Drawn(s, d[1])
               u == cut(d)
    <3>2. k \in 1..N /\ Falls(s, k, u)
      BY <1>1, <2>1, <2>2, <2>3, <3>1, DrawnFalls DEF N, sum
    <3>3. Head(Weighted(s, d)) = s[k]
      BY <2>3, WeightedIs
    <3> HIDE DEF k
    <3>4. u \in Nat
      <4>1. d[1] \in Nat BY <2>2, <3>1
      <4> QED BY <2>2, <4>1
    <3> HIDE DEF u
    <3>5. k \in 0..N /\ k - 1 \in 0..N /\ N \in 0..N BY <1>1, <3>2
    <3>6. sum[k] \in Nat /\ sum[k] <= T BY <1>2, <1>3, <3>5
    <3>7. u < sum[k] BY <3>2 DEF Falls, sum
    <3>8. u \in O
      <4> HIDE DEF T
      <4> QED BY <1>6, <3>4, <3>6, <3>7
    <3>9. d \in D <=> s[k] = c BY <3>3
    <3>10. s[k] = c => k = i
      <4> SUFFICES ASSUME s[k] = s[i], k # i PROVE FALSE BY <1>5
      <4>1. s[k].order < s[i].order \/ s[i].order < s[k].order
        <5>1. k < i \/ i < k BY <1>1, <3>2
        <5> QED BY <1>1, <3>2, <5>1
      <4>2. s[k].order \in Nat BY <1>1, <3>2 DEF Ordinary
      <4> QED BY <4>1, <4>2
    <3>11. Falls(s, i, u) => k = i
      BY <1>1, <3>2, <3>4, FallsOnce DEF N
    <3>12. d \in D <=> Falls(s, i, u)
      <4> HIDE DEF D
      <4> QED BY <1>5, <3>2, <3>9, <3>10, <3>11
    <3> QED BY <3>1, <3>8, <3>12 DEF u
  <2>5. ASSUME NEW u \in O PROVE Cardinality(Slice(First, size, part(u))) = K
    <3>1. 0 \in O /\ Grain = q * T
      <4> HIDE DEF T
      <4> QED BY <1>6, <1>9, <2>1
    <3>2. Parted(First, size, part(u)) /\ Parted(First, size, part(0))
      <4> HIDE DEF T
      <4> QED BY <1>6, <2>2, <3>1, FirstParted
    <3> HIDE DEF size, part
    <3> QED BY <3>2, SlicesAreEqual
  <2>6. \A u : Slice(First, size, part(u)) = {d \in Draws : cut(d) = u}
    BY DEF Slice, First
  <2>7. K \in Nat
    <3>1. Slice(First, size, part(0)) \in SUBSET Draws BY DEF Slice
    <3> HIDE DEF size, part
    <3> QED BY <1>7, <3>1, FS_Subset, FS_CardinalityType
  <2> HIDE DEF size, part, K, T, D
  <2>8. \A u \in P : u \in O
    BY <1>6
  <2>9. \A d \in D : d \in Draws
    BY DEF D
  <2>10. ASSUME NEW d \in Draws PROVE d \in D <=> cut(d) \in P
    <3> DEFINE u == cut(d)
    <3>1. d \in D <=> Falls(s, i, u) BY <2>4
    <3>2. u \in Nat
      <4>1. u \in O BY <2>4
      <4> HIDE DEF u
      <4> QED BY <1>6, <4>1
    <3> HIDE DEF u
    <3>3. Falls(s, i, u) <=> u \in P BY <1>6, <3>2 DEF Falls, sum
    <3> QED BY <3>1, <3>3 DEF u
  <2>11. Cardinality(O) = T /\ IsFiniteSet(O) /\ Cardinality(P) = c.weight /\ IsFiniteSet(P)
    <3>1. Cardinality(O) = T /\ IsFiniteSet(O)
      <4> DEFINE e == T - 1
      <4>1. 0 \in Int /\ e \in Int /\ e = T - 1 BY <1>6
      <4> HIDE DEF e
      <4>2. IsFiniteSet(0..e) /\ Cardinality(0..e) = IF 0 > e THEN 0 ELSE e - 0 + 1 BY <4>1, FS_Interval
      <4> QED BY <1>6, <4>1, <4>2 DEF e
    <3>2. Cardinality(P) = c.weight /\ IsFiniteSet(P)
      <4> DEFINE a == sum[i - 1]
                 e == sum[i] - 1
      <4>1. a \in Int /\ e \in Int /\ e + 1 = a + c.weight BY <1>6
      <4> HIDE DEF a, e
      <4>2. IsFiniteSet(a..e) /\ Cardinality(a..e) = IF a > e THEN 0 ELSE e - a + 1 BY <4>1, FS_Interval
      <4>3. Cardinality(a..e) = c.weight BY <1>6, <4>1, <4>2
      <4> QED BY <4>2, <4>3 DEF a, e
    <3> QED BY <3>1, <3>2
  <2>12. Cardinality(Draws) = Cardinality(O) * K
    <3> DEFINE f == [d \in Draws |-> cut(d)]
    <3>1. f \in [Draws -> O]
      <4> HIDE DEF O, cut
      <4> QED BY <2>4
    <3>2. ASSUME NEW u \in O PROVE Cardinality({d \in Draws : f[d] = u}) = K
      <4>1. {d \in Draws : f[d] = u} = Slice(First, size, part(u))
        <5> HIDE DEF O, cut
        <5> QED BY <2>6
      <4> QED BY <2>5, <4>1
    <3> HIDE DEF f, O
    <3> QED BY <1>7, <2>7, <2>11, <3>1, <3>2, EqualParts
  <2>13. Cardinality(D) = Cardinality(P) * K
    <3> DEFINE f == [d \in D |-> cut(d)]
    <3>1. f \in [D -> P]
      <4> HIDE DEF P, cut
      <4> QED BY <2>9, <2>10
    <3>2. ASSUME NEW u \in P PROVE Cardinality({d \in D : f[d] = u}) = K
      <4>1. {d \in D : f[d] = u} = Slice(First, size, part(u))
        <5> HIDE DEF P, cut
        <5> QED BY <2>6, <2>9, <2>10, <3>2
      <4> QED BY <2>5, <2>8, <4>1
    <3>3. IsFiniteSet(D) BY <1>7 DEF D
    <3> HIDE DEF f, P
    <3> QED BY <2>7, <2>11, <3>1, <3>2, <3>3, EqualParts
  <2>14. Cardinality(Draws) = T * K /\ Cardinality(D) = c.weight * K
    BY <2>11, <2>12, <2>13
  <2>15. (c.weight * K) * T = (T * K) * c.weight
    BY <1>6, <2>7
  <2>16. Cardinality(D) * T = Cardinality(Draws) * c.weight
    BY <2>14, <2>15
  <2> QED BY <1>4, <2>16 DEF D, T
<1> QED BY <1>8, <1>9

----------------------------------------------------------------------------
(* The split of a balanced policy. *)

\* The sequences that list a set once.
LEMMA ListsOnce ==
  ASSUME NEW S, IsFiniteSet(S), NEW t, Enumerates(t, S)
  PROVE  \A i, j \in 1..Cardinality(S) : t[i] = t[j] => i = j
<1> DEFINE L == Cardinality(S)
           D == 1..L
<1>1. L \in Nat /\ IsFiniteSet(D) /\ Cardinality(D) = L
  BY FS_CardinalityType, FS_Interval
<1> HIDE DEF D, L
<1>2. t \in Surjection(D, S)
  BY DEF Enumerates, Surjection, D, L
<1>3. t \in Injection(D, S)
  BY <1>1, <1>2, FS_Surjection DEF L
<1> QED BY <1>3 DEF Injection, IsInjective, D, L

LEMMA SequencesAre ==
  ASSUME NEW S, IsFiniteSet(S)
  PROVE  \A t : t \in SetToSeqs(S) <=> Enumerates(t, S)
<1> DEFINE L == Cardinality(S)
           D == 1..L
<1>1. L \in Nat /\ IsFiniteSet(D) /\ Cardinality(D) = L
  BY FS_CardinalityType, FS_Interval
<1>2. SetToSeqs(S) = {f \in [D -> S] : \A i, j \in D : i # j => f[i] # f[j]}
  BY DEF SetToSeqs
<1> HIDE DEF D, L
<1>3. ASSUME NEW t, t \in SetToSeqs(S) PROVE Enumerates(t, S)
  <2>1. t \in [D -> S] /\ \A i, j \in D : t[i] = t[j] => i = j BY <1>2, <1>3
  <2>2. t \in Injection(D, S) BY <2>1 DEF Injection, IsInjective
  <2>3. t \in Surjection(D, S) BY <1>1, <2>2, FS_Injection DEF L
  <2> QED BY <2>1, <2>3 DEF Enumerates, Surjection, D, L
<1>4. ASSUME NEW t, Enumerates(t, S) PROVE t \in SetToSeqs(S)
  <2>1. t \in [D -> S] BY <1>4 DEF Enumerates, D, L
  <2>2. \A i, j \in D : t[i] = t[j] => i = j BY <1>4, ListsOnce DEF D, L
  <2> QED BY <1>2, <2>1, <2>2
<1> QED BY <1>3, <1>4

LEMMA SwappedIs ==
  ASSUME NEW S, IsFiniteSet(S), NEW t, Enumerates(t, S), NEW i \in 1..Cardinality(S), NEW j \in 1..Cardinality(S)
  PROVE  /\ Enumerates(Swapped(t, i, j), S)
         /\ Swapped(t, i, j)[i] = t[j]
         /\ \A k \in 1..Cardinality(S) : k # i /\ k # j => Swapped(t, i, j)[k] = t[k]
<1>1. Enumerates(Swapped(t, i, j), S)
  BY SwappedLists DEF Swapped
<1>2. t \in [1..Cardinality(S) -> S]
  BY DEF Enumerates
<1> QED BY <1>1, <1>2 DEF Swapped

\* The same picks make the same orders.
LEMMA ShufflesAgree ==
  ASSUME NEW S, NEW s, Len(s) \in Nat, NEW v, NEW t, Shuffles(S, s, v, t), NEW w, NEW u, Shuffles(S, s, w, u),
         NEW k \in 0..(Len(s) - 1), \A n \in 1..k : v[n] = w[n]
  PROVE  t[k] = u[k]
<1> DEFINE Q == {n \in 0..k : t[n] = u[n]}
<1>1. k \in Nat OBVIOUS
<1>2. 0 \in Q BY <1>1 DEF Shuffles
<1>3. ASSUME NEW n \in 1..k, n - 1 \in Q PROVE n \in Q
  <2>1. n \in 1..(Len(s) - 1) /\ n \in 0..k OBVIOUS
  <2>2. t[n] = Swapped(t[n - 1], Len(s) - n + 1, 1 + v[n]) BY <2>1 DEF Shuffles
  <2>3. u[n] = Swapped(u[n - 1], Len(s) - n + 1, 1 + w[n]) BY <2>1 DEF Shuffles
  <2>4. t[n - 1] = u[n - 1] /\ v[n] = w[n] BY <1>3
  <2> QED BY <2>1, <2>2, <2>3, <2>4
<1>4. 0..k \subseteq Q
  <2> HIDE DEF Q
  <2> QED BY <1>1, <1>2, <1>3, Persists
<1> QED BY <1>1, <1>4

\* A place that was picked keeps what it was given.
Stays(s, v, t) == \A k \in 1..(Len(s) - 1) : t[Len(s) - 1][Len(s) - k + 1] = t[k - 1][1 + v[k]]

LEMMA PickedStays ==
  ASSUME NEW S, IsFiniteSet(S), NEW s, Enumerates(s, S), Len(s) = Cardinality(S), Len(s) \in Nat,
         NEW v, NEW t, Shuffles(S, s, v, t)
  PROVE  Stays(s, v, t)
<1> SUFFICES ASSUME NEW n \in 1..(Len(s) - 1)
             PROVE  t[Len(s) - 1][Len(s) - n + 1] = t[n - 1][1 + v[n]]
  BY DEF Stays
<1> DEFINE L == Len(s)
           N == L - 1
           i == L - n + 1
           x == t[n - 1][1 + v[n]]
           Q == {k \in 0..(N - n) : t[n + k][i] = x}
<1>1. L \in Nat /\ N - n \in Nat /\ i \in 1..L /\ n \in 1..N OBVIOUS
<1>2. ASSUME NEW m \in 1..N
      PROVE  /\ Enumerates(t[m - 1], S) /\ L - m + 1 \in 1..L /\ 1 + v[m] \in 1..(L - m + 1) /\ 1 + v[m] \in 1..L
             /\ t[m] = Swapped(t[m - 1], L - m + 1, 1 + v[m])
  <2>1. m - 1 \in 0..(Len(s) - 1) BY <1>1
  <2>2. v[m] \in 0..(Len(s) - m) /\ t[m] = Swapped(t[m - 1], Len(s) - m + 1, 1 + v[m]) BY DEF Shuffles
  <2>3. Enumerates(t[m - 1], S) BY <2>1 DEF Shuffles
  <2> DEFINE k == v[m]
  <2>4. k \in 0..(L - m) BY <2>2
  <2> HIDE DEF k, L
  <2>5. L - m + 1 \in 1..L /\ 1 + k \in 1..(L - m + 1) /\ 1 + k \in 1..L BY <1>1, <2>4
  <2> QED BY <2>2, <2>3, <2>5 DEF k, L
<1> HIDE DEF L
<1>3. 0 \in Q
  <2>1. t[n][i] = t[n - 1][1 + v[n]] BY <1>1, <1>2, SwappedIs DEF L
  <2>2. n + 0 = n /\ 0 \in 0..(N - n) BY <1>1
  <2> QED BY <2>1, <2>2
<1>4. ASSUME NEW k \in 1..(N - n), k - 1 \in Q PROVE k \in Q
  <2> DEFINE m == n + k
             a == L - m + 1
             b == 1 + v[m]
  <2>1. m \in 1..N /\ m - 1 = n + (k - 1) /\ k \in 0..(N - n) BY <1>1
  <2>2. t[m - 1][i] = x BY <1>4, <2>1
  <2>3. Enumerates(t[m - 1], S) /\ a \in 1..L /\ b \in 1..a /\ b \in 1..L /\ t[m] = Swapped(t[m - 1], a, b)
    BY <1>2, <2>1
  <2>4. a < i BY <1>1
  <2> HIDE DEF a, b, i, m
  <2>5. i # a /\ i # b
    <3>1. i \in Nat /\ a \in Nat /\ b \in Nat /\ b <= a BY <1>1, <2>3
    <3> QED BY <2>4, <3>1
  <2>6. t[m][i] = t[m - 1][i]
    <3>1. i \in 1..Cardinality(S) /\ a \in 1..Cardinality(S) /\ b \in 1..Cardinality(S) BY <1>1, <2>3 DEF L
    <3> DEFINE y == t[m - 1]
    <3>2. Enumerates(y, S) BY <2>3
    <3> HIDE DEF y
    <3>3. Swapped(y, a, b)[i] = y[i] BY <2>5, <3>1, <3>2, SwappedIs
    <3> QED BY <2>3, <3>3 DEF y
  <2>7. t[n + k][i] = x BY <2>2, <2>6 DEF m
  <2> QED BY <2>1, <2>7 DEF i
<1>5. 0..(N - n) \subseteq Q
  <2> HIDE DEF Q, N
  <2> QED BY <1>1, <1>3, <1>4, Persists
<1>6. N - n \in Q /\ n + (N - n) = N BY <1>1, <1>5
<1>7. t[N][i] = x
  <2> HIDE DEF i, x, N
  <2> QED BY <1>6
<1> QED BY <1>7 DEF L

\* Different picks end in different orders.
LEMMA PicksTold ==
  ASSUME NEW S, IsFiniteSet(S), NEW s, Enumerates(s, S), Len(s) = Cardinality(S), Len(s) \in Nat,
         NEW v, NEW t, Shuffles(S, s, v, t), NEW w, NEW u, Shuffles(S, s, w, u),
         t[Len(s) - 1] = u[Len(s) - 1]
  PROVE  \A n \in 1..(Len(s) - 1) : v[n] = w[n]
<1>0. Stays(s, v, t) /\ Stays(s, w, u)
  BY PickedStays
<1> DEFINE N == Len(s) - 1
           differ == {n \in 1..N : v[n] # w[n]}
<1>1. SUFFICES ASSUME differ # {} PROVE FALSE
  OBVIOUS
<1>2. \E n \in differ : \A m \in differ : n <= m
  <2>1. differ \in SUBSET Nat OBVIOUS
  <2> HIDE DEF differ
  <2> QED BY <1>1, <2>1, LeastOf
<1>3. PICK n \in differ : \A m \in differ : n <= m
  BY <1>2
<1>4. n \in 1..N /\ n - 1 \in 0..N OBVIOUS
<1>5. \A m \in 1..(n - 1) : v[m] = w[m]
  <2> SUFFICES ASSUME NEW m \in 1..(n - 1), v[m] # w[m] PROVE FALSE OBVIOUS
  <2>1. m \in 1..N /\ m < n BY <1>4
  <2>2. m \in differ BY <2>1
  <2>3. n <= m
    <3> HIDE DEF differ
    <3> QED BY <1>3, <2>2
  <2> QED BY <1>4, <2>1, <2>3
<1>6. t[n - 1] = u[n - 1]
  BY <1>4, <1>5, ShufflesAgree
<1>7. t[n - 1][1 + v[n]] = t[n - 1][1 + w[n]]
  <2>1. n \in 1..(Len(s) - 1) BY <1>4
  <2> HIDE DEF differ, N
  <2>2. t[Len(s) - 1][Len(s) - n + 1] = t[n - 1][1 + v[n]] BY <1>0, <2>1 DEF Stays
  <2>3. u[Len(s) - 1][Len(s) - n + 1] = u[n - 1][1 + w[n]] BY <1>0, <2>1 DEF Stays
  <2> QED BY <1>6, <2>2, <2>3
<1>8. 1 + v[n] \in 1..Cardinality(S) /\ 1 + w[n] \in 1..Cardinality(S) /\ v[n] \in Nat /\ w[n] \in Nat
  <2>1. v[n] \in 0..(Len(s) - n) /\ w[n] \in 0..(Len(s) - n) BY <1>4 DEF Shuffles
  <2> QED BY <1>4, <2>1
<1>9. Enumerates(t[n - 1], S)
  BY <1>4 DEF Shuffles
<1>10. 1 + v[n] = 1 + w[n]
  BY <1>7, <1>8, <1>9, ListsOnce
<1>11. v[n] # w[n] OBVIOUS
<1> HIDE DEF differ
<1> QED BY <1>8, <1>10, <1>11

\* Every order is made by some picks.
LEMMA EveryOrder ==
  ASSUME NEW S, IsFiniteSet(S), S # {}, NEW s, Enumerates(s, S), Len(s) = Cardinality(S), Len(s) \in Nat,
         NEW o, Enumerates(o, S)
  PROVE  \E v, t : Shuffles(S, s, v, t) /\ t[Len(s) - 1] = o
<1> DEFINE L == Len(s)
           N == L - 1
           I(n) == L - n + 1
           E == {t \in [1..L -> S] : Enumerates(t, S)}
           J(n, t) == CHOOSE j \in 1..I(n) : t[j] = o[I(n)] \/ \A k \in 1..I(n) : t[k] # o[I(n)]
           step == [x \in (1..N) \X E |-> Swapped(x[2], I(x[1]), J(x[1], x[2]))]
<1>1. L \in Nat /\ L > 0 /\ N \in Nat /\ L = Cardinality(S)
  <2>1. Cardinality(S) # 0 BY FS_EmptySet
  <2> QED BY <2>1
<1>2. \A t : t \in E <=> Enumerates(t, S)
  BY <1>1 DEF Enumerates
<1> HIDE DEF L
<1>3. ASSUME NEW n \in 1..N PROVE I(n) \in 1..L /\ I(n) \in Nat /\ I(n) > 1
  BY <1>1
<1>4. ASSUME NEW n \in 1..N, NEW t
      PROVE  J(n, t) \in 1..I(n) /\ (t[J(n, t)] = o[I(n)] \/ \A k \in 1..I(n) : t[k] # o[I(n)])
  <2>1. 1 \in 1..I(n) BY <1>3
  <2>2. \E j \in 1..I(n) : t[j] = o[I(n)] \/ \A k \in 1..I(n) : t[k] # o[I(n)] BY <2>1
  <2> HIDE DEF I
  <2> QED BY <2>2
<1> HIDE DEF J
<1>5. ASSUME NEW n \in 1..N, NEW t \in E PROVE J(n, t) \in 1..L /\ Swapped(t, I(n), J(n, t)) \in E
  <2>1. I(n) \in 1..L /\ J(n, t) \in 1..I(n) BY <1>3, <1>4
  <2> HIDE DEF I
  <2>2. J(n, t) \in 1..L BY <1>1, <2>1
  <2>3. Enumerates(Swapped(t, I(n), J(n, t)), S)
    <3>1. I(n) \in 1..Cardinality(S) /\ J(n, t) \in 1..Cardinality(S) /\ Enumerates(t, S) BY <1>1, <1>2, <2>1, <2>2
    <3> QED BY <3>1, SwappedIs
  <2> HIDE DEF E
  <2> QED BY <1>2, <2>2, <2>3
<1> HIDE DEF I
<1>6. step \in [(1..N) \X E -> E] /\ \A n \in 1..N, t \in E : step[<<n, t>>] = Swapped(t, I(n), J(n, t))
  <2> HIDE DEF E, N
  <2> QED BY <1>5
<1>7. s \in E
  BY <1>2
<1> HIDE DEF step, E
<1>8. \E g : Iterated(g, N, E, s, step)
  <2> HIDE DEF N
  <2> QED BY <1>1, <1>6, <1>7, Iterates
<1>9. PICK t : Iterated(t, N, E, s, step)
  BY <1>8
<1>10. /\ t[0] = s /\ \A n \in 0..N : t[n] \in E
       /\ \A n \in 1..N : t[n - 1] \in E /\ t[n] = Swapped(t[n - 1], I(n), J(n, t[n - 1]))
  <2> HIDE DEF N
  <2>1. t \in [0..N -> E] /\ t[0] = s /\ \A n \in 1..N : t[n] = step[<<n, t[n - 1]>>] BY <1>9 DEF Iterated
  <2>2. \A n \in 1..N : n - 1 \in 0..N BY <1>1
  <2> QED BY <1>6, <2>1, <2>2
<1> DEFINE v == [n \in 1..N |-> J(n, t[n - 1]) - 1]
           Settled(n) == \A k \in 1..L : k > L - n => t[n][k] = o[k]
           Q == {n \in 0..N : Settled(n)}
<1>11. Shuffles(S, s, v, t)
  <2>1. ASSUME NEW n \in 1..N PROVE v[n] \in 0..(L - n) /\ t[n] = Swapped(t[n - 1], L - n + 1, 1 + v[n])
    <3> DEFINE j == J(n, t[n - 1])
    <3>1. j \in 1..I(n) /\ t[n] = Swapped(t[n - 1], I(n), j) BY <1>4, <1>10
    <3>2. v[n] = j - 1 OBVIOUS
    <3>3. I(n) = L - n + 1 /\ n \in Nat BY <1>1 DEF I
    <3> HIDE DEF v, j
    <3>4. v[n] \in 0..(L - n) /\ 1 + v[n] = j BY <1>1, <3>1, <3>2, <3>3
    <3> QED BY <3>1, <3>3, <3>4
  <2>2. \A n \in 0..N : Enumerates(t[n], S) BY <1>2, <1>10
  <2> HIDE DEF v
  <2> QED BY <1>10, <2>1, <2>2 DEF Shuffles, L
<1>12. \A i, j \in 1..L : o[i] = o[j] => i = j
  BY <1>1, ListsOnce
<1>13. o \in [1..L -> S] /\ \A c \in S, x \in E : \E k \in 1..L : x[k] = c
  BY <1>1, <1>2 DEF Enumerates
<1>14. 0 \in Q
  BY <1>1
<1>15. ASSUME NEW n \in 1..N, n - 1 \in Q PROVE n \in Q
  <2> DEFINE x == t[n - 1]
             i == I(n)
             j == J(n, x)
  <2>1. i = L - n + 1 /\ i \in 1..L /\ n \in Nat /\ n \in 0..N
    <3>1. n \in 0..N /\ n \in Nat BY <1>1
    <3> QED BY <1>1, <1>3, <3>1 DEF I
  <2>2. x \in E /\ t[n] = Swapped(x, i, j) /\ Enumerates(x, S) BY <1>2, <1>10
  <2>3. \A k \in 1..L : k > i => x[k] = o[k]
    <3>1. Settled(n - 1) BY <1>15
    <3>2. L - (n - 1) = i BY <1>1, <2>1
    <3> HIDE DEF x, i
    <3> QED BY <3>1, <3>2 DEF x
  <2>4. j \in 1..i /\ (x[j] = o[i] \/ \A k \in 1..i : x[k] # o[i]) BY <1>4
  <2> HIDE DEF x, i, j
  <2>5. \E k \in 1..i : x[k] = o[i]
    <3>1. o[i] \in S BY <1>13, <2>1
    <3>2. PICK k \in 1..L : x[k] = o[i] BY <1>13, <2>2, <3>1
    <3>3. ~(k > i)
      <4> SUFFICES ASSUME k > i PROVE FALSE OBVIOUS
      <4>1. o[k] = o[i] BY <2>3, <3>2
      <4>2. k = i BY <1>12, <2>1, <4>1
      <4> QED BY <1>1, <2>1, <4>2
    <3>4. k \in 1..i BY <1>1, <2>1, <3>3
    <3> QED BY <3>2, <3>4
  <2>6. x[j] = o[i] BY <2>4, <2>5
  <2>7. j \in 1..L BY <1>1, <2>1, <2>4
  <2>8. i \in 1..Cardinality(S) /\ j \in 1..Cardinality(S) BY <1>1, <2>1, <2>7
  <2>9. t[n][i] = o[i] BY <2>2, <2>6, <2>8, SwappedIs
  <2>10. ASSUME NEW k \in 1..L, k > L - n PROVE t[n][k] = o[k]
    <3>1. CASE k = i BY <2>9, <3>1
    <3>2. CASE k # i
      <4>1. k > i BY <1>1, <2>1, <2>10, <3>2
      <4>2. k # j BY <1>1, <2>1, <2>4, <4>1
      <4>3. k \in 1..Cardinality(S) BY <1>1
      <4>4. Swapped(x, i, j)[k] = x[k] BY <2>2, <2>8, <3>2, <4>2, <4>3, SwappedIs
      <4> QED BY <2>2, <2>3, <4>1, <4>4
    <3> QED BY <3>1, <3>2
  <2> QED BY <2>1, <2>10
<1>16. 0..N \subseteq Q
  <2> HIDE DEF Q, N
  <2> QED BY <1>1, <1>14, <1>15, Persists
<1>17. N \in 0..N /\ L - N = 1
  BY <1>1
<1>18. \A k \in 1..L : k > 1 => t[N][k] = o[k]
  <2>1. Settled(N) BY <1>16, <1>17
  <2> HIDE DEF N
  <2> QED BY <1>17, <2>1
<1>19. t[N] \in E /\ t[N] \in [1..L -> S]
  <2>1. t[N] \in E BY <1>10, <1>17
  <2> HIDE DEF N
  <2> QED BY <1>1, <1>2, <2>1 DEF Enumerates
<1> HIDE DEF N
<1>20. t[N][1] = o[1]
  <2>1. 1 \in 1..L BY <1>1
  <2>2. o[1] \in S BY <1>13, <2>1
  <2>3. PICK k \in 1..L : t[N][k] = o[1] BY <1>13, <1>19, <2>2
  <2>4. ~(k > 1)
    <3> SUFFICES ASSUME k > 1 PROVE FALSE OBVIOUS
    <3>1. o[k] = o[1] BY <1>18, <2>3
    <3>2. k = 1 BY <1>12, <2>1, <3>1
    <3> QED BY <3>2
  <2>5. k = 1 BY <1>1, <2>4
  <2> QED BY <2>3, <2>5
<1>21. \A k \in 1..L : t[N][k] = o[k]
  <2>1. \A k \in 1..L : k > 1 \/ k = 1 BY <1>1
  <2> QED BY <1>18, <1>20, <2>1
<1>22. t[N] = o
  <2> DEFINE y == t[N]
  <2>1. y \in [1..L -> S] /\ o \in [1..L -> S] /\ \A k \in 1..L : y[k] = o[k] BY <1>13, <1>19, <1>21
  <2> HIDE DEF y
  <2>2. y = [k \in 1..L |-> y[k]] /\ o = [k \in 1..L |-> o[k]] BY <2>1
  <2>3. [k \in 1..L |-> y[k]] = [k \in 1..L |-> o[k]] BY <2>1
  <2>4. y = o BY <2>2, <2>3
  <2> QED BY <2>4 DEF y
<1> QED BY <1>11, <1>22 DEF N, L

\* Of a balanced policy every order has as many draws as any other.
LEMMA BalancedSplits ==
  ASSUME NEW S, Ordinary(S), S # {}, NEW s, Enumerates(s, S),
         \A n \in 1..Cardinality(S) : \E q \in 1..Grain : Grain = q * n, NEW order \in SetToSeqs(S)
  PROVE  Cardinality({d \in Draws : LoadBalance(s, d) = order}) * Cardinality(SetToSeqs(S)) = Cardinality(Draws)
<1> DEFINE L == Len(s)
           N == L - 1
           M == 1..N
           E == SetToSeqs(S)
           size == [n \in M |-> CHOOSE q \in 1..Grain : Grain = q * (L - n + 1)]
           F(o) == {d \in Draws : LoadBalance(s, d) = o}
           K == Cardinality(F(order))
<1>1. IsFiniteSet(S) /\ L = Cardinality(S) /\ L \in Nat /\ L > 0 /\ L <= MaxDraws /\ MaxDraws \in Nat
  <2>1. IsFiniteSet(S) /\ Cardinality(S) <= MaxDraws BY DEF Ordinary
  <2>2. Cardinality(S) \in Nat /\ Cardinality(S) # 0 BY <2>1, FS_CardinalityType, FS_EmptySet
  <2>3. Len(s) = Cardinality(S) BY <2>1, ListsAll
  <2> QED BY <2>1, <2>2, <2>3, SelectionAssumption
<1>2. \A t : t \in E <=> Enumerates(t, S)
  BY <1>1, SequencesAre
<1>3. Grain \in Nat /\ Grain > 0
  BY SelectionAssumption
<1> HIDE DEF L, E
<1>4. ASSUME NEW n \in M PROVE size[n] \in Nat /\ size[n] > 0 /\ Grain = size[n] * (L - n + 1) /\ n \in 1..MaxDraws
  <2>1. L - n + 1 \in 1..Cardinality(S) /\ n \in 1..MaxDraws BY <1>1
  <2>2. \E q \in 1..Grain : Grain = q * (L - n + 1) BY <2>1
  <2>3. size[n] \in 1..Grain /\ Grain = size[n] * (L - n + 1) BY <2>2
  <2> DEFINE q == size[n]
  <2>4. q \in 1..Grain BY <2>3
  <2> HIDE DEF q
  <2>5. q \in Nat /\ q > 0 BY <1>3, <2>4
  <2> HIDE DEF size
  <2> QED BY <2>1, <2>3, <2>5 DEF q
<1> HIDE DEF size
<1>5. ASSUME NEW v, \A n \in M : v[n] \in 0..(L - n) PROVE Parted(M, size, v)
  <2>1. ASSUME NEW n \in M PROVE v[n] \in Nat /\ size[n] * (v[n] + 1) <= Grain
    <3> DEFINE q == size[n]
               k == v[n]
               i == L - n + 1
    <3>1. q \in Nat /\ Grain = q * i BY <1>4
    <3>2. k \in Nat /\ i \in Nat /\ k + 1 <= i
      <4>1. v[n] \in 0..(L - n) BY <1>5
      <4> QED BY <1>1, <4>1
    <3> HIDE DEF q, k, i
    <3>3. q * (k + 1) <= q * i BY <3>1, <3>2
    <3> QED BY <3>1, <3>2, <3>3 DEF q, k
  <2> HIDE DEF M
  <2> QED BY <1>4, <2>1 DEF Parted
<1>6. ASSUME NEW d \in Draws, NEW n \in M PROVE PicksOf(s, d)[n] = d[n] \div size[n]
  <2>1. PicksOf(s, d)[n] = Pick(L - n + 1, d[n]) BY DEF PicksOf, L
  <2>2. d[n] \in 0..(Grain - 1) BY <1>4, DrawIs
  <2> DEFINE i == L - n + 1
             q == size[n]
  <2>3. i \in Nat /\ i > 0 /\ q \in Nat /\ Grain = q * i BY <1>1, <1>4
  <2> HIDE DEF i, q
  <2>4. Pick(i, d[n]) = d[n] \div q BY <2>2, <2>3, PickIs
  <2> QED BY <2>1, <2>4 DEF i, q
<1>7. ASSUME NEW o \in E
      PROVE  \E v : (\A n \in M : v[n] \in 0..(L - n)) /\ F(o) = Slice(M, size, v)
  <2>1. PICK v, u : Shuffles(S, s, v, u) /\ u[L - 1] = o
    BY <1>1, <1>2, EveryOrder DEF L
  <2>2. \A n \in M : v[n] \in 0..(L - n)
    BY <2>1 DEF Shuffles, L
  <2>3. ASSUME NEW d \in Draws PROVE LoadBalance(s, d) = o <=> \A n \in M : d[n] \div size[n] = v[n]
    <3>1. PICK t : Shuffles(S, s, PicksOf(s, d), t) /\ LoadBalance(s, d) = t[L - 1]
      BY LoadBalanceShuffles DEF L
    <3>2. ASSUME t[L - 1] = u[L - 1] PROVE \A n \in M : PicksOf(s, d)[n] = v[n]
      BY <1>1, <2>1, <3>1, <3>2, PicksTold DEF L
    <3>3. ASSUME \A n \in M : PicksOf(s, d)[n] = v[n] PROVE t[L - 1] = u[L - 1]
      <4>1. L - 1 \in 0..(L - 1) BY <1>1
      <4>2. \A n \in 1..(L - 1) : PicksOf(s, d)[n] = v[n] BY <3>3
      <4> DEFINE x == PicksOf(s, d)
      <4> HIDE DEF x
      <4>3. Shuffles(S, s, x, t) /\ \A n \in 1..(L - 1) : x[n] = v[n] BY <3>1, <4>2 DEF x
      <4> HIDE DEF M, N, E
      <4> QED BY <1>1, <2>1, <4>1, <4>3, ShufflesAgree DEF L
    <3>4. \A n \in M : PicksOf(s, d)[n] = d[n] \div size[n] BY <1>6
    <3> HIDE DEF M
    <3> QED BY <2>1, <3>1, <3>2, <3>3, <3>4
  <2>4. F(o) = Slice(M, size, v)
    <3> HIDE DEF M
    <3> QED BY <2>3 DEF Slice
  <2> HIDE DEF F, M
  <2> QED BY <2>2, <2>4
<1>8. \A o \in E : Cardinality(F(o)) = K
  <2> SUFFICES ASSUME NEW o \in E PROVE Cardinality(F(o)) = K OBVIOUS
  <2>1. order \in E BY DEF E
  <2> HIDE DEF F, M
  <2>2. PICK v : (\A n \in M : v[n] \in 0..(L - n)) /\ F(o) = Slice(M, size, v) BY <1>7
  <2>3. PICK w : (\A n \in M : w[n] \in 0..(L - n)) /\ F(order) = Slice(M, size, w) BY <1>7, <2>1
  <2>4. Parted(M, size, v) /\ Parted(M, size, w) BY <1>5, <2>2, <2>3
  <2> QED BY <2>2, <2>3, <2>4, SlicesAreEqual
<1>9. IsFiniteSet(Draws) /\ K \in Nat
  <2>1. F(order) \in SUBSET Draws OBVIOUS
  <2> HIDE DEF F
  <2> QED BY <2>1, DrawsFinite, FS_Subset, FS_CardinalityType
<1> DEFINE f == [d \in Draws |-> LoadBalance(s, d)]
<1>10. f \in [Draws -> E]
  <2>1. \A d \in Draws : LoadBalance(s, d) \in E BY <1>2, LoadBalanceIs
  <2> QED BY <2>1
<1>11. \A o \in E : \E d \in Draws : f[d] = o
  <2> SUFFICES ASSUME NEW o \in E PROVE \E d \in Draws : LoadBalance(s, d) = o OBVIOUS
  <2>1. PICK v : (\A n \in M : v[n] \in 0..(L - n)) /\ F(o) = Slice(M, size, v)
    <3> HIDE DEF F, M
    <3> QED BY <1>7
  <2> DEFINE d == [n \in 1..MaxDraws |-> IF n \in M THEN size[n] * v[n] ELSE 0]
  <2>2. ASSUME NEW n \in M PROVE size[n] * v[n] \in 0..(Grain - 1) /\ (size[n] * v[n]) \div size[n] = v[n]
    <3> DEFINE q == size[n]
               k == v[n]
               x == q * k
    <3>1. q \in Nat /\ q > 0 /\ k \in Nat /\ q * (k + 1) <= Grain
      <4>1. Parted(M, size, v) BY <1>5, <2>1
      <4> QED BY <4>1 DEF Parted
    <3> HIDE DEF q, k
    <3>2. x \in Nat /\ q * (k + 1) = x + q BY <3>1
    <3>3. q * k <= x /\ x < q * (k + 1) BY <3>1, <3>2
    <3> HIDE DEF x
    <3>4. x \div q = k BY <3>1, <3>2, <3>3, QuotientIs
    <3>5. x \in 0..(Grain - 1) BY <1>3, <3>1, <3>2
    <3> QED BY <3>4, <3>5 DEF x, q, k
  <2>3. d \in Draws
    <3>1. \A n \in 1..MaxDraws : d[n] \in 0..(Grain - 1)
      <4>1. 0 \in 0..(Grain - 1) BY <1>3
      <4> HIDE DEF M
      <4> QED BY <2>2, <4>1
    <3>2. d = [n \in 1..MaxDraws |-> d[n]] OBVIOUS
    <3> HIDE DEF d
    <3> QED BY <3>1, <3>2 DEF Draws
  <2>4. \A n \in M : d[n] \div size[n] = v[n]
    <3> SUFFICES ASSUME NEW n \in M PROVE d[n] \div size[n] = v[n] OBVIOUS
    <3>1. d[n] = size[n] * v[n] BY <1>4
    <3> HIDE DEF d
    <3> QED BY <2>2, <3>1
  <2>5. d \in Slice(M, size, v)
    <3> HIDE DEF d, M
    <3> QED BY <2>3, <2>4 DEF Slice
  <2> HIDE DEF d
  <2> QED BY <2>1, <2>5
<1>12. IsFiniteSet(E)
  <2> HIDE DEF f
  <2>1. f \in Surjection(Draws, E) BY <1>10, <1>11 DEF Surjection
  <2> QED BY <1>9, <2>1, FS_Surjection
<1>13. \A o \in E : Cardinality({d \in Draws : f[d] = o}) = K
  <2> SUFFICES ASSUME NEW o \in E PROVE Cardinality({d \in Draws : f[d] = o}) = K OBVIOUS
  <2>1. {d \in Draws : f[d] = o} = F(o) OBVIOUS
  <2> HIDE DEF f, F
  <2> QED BY <1>8, <2>1
<1>14. Cardinality(Draws) = Cardinality(E) * K
  <2> HIDE DEF f, K
  <2> QED BY <1>9, <1>10, <1>12, <1>13, EqualParts
<1>15. Cardinality(E) \in Nat
  BY <1>12, FS_CardinalityType
<1>16. K * Cardinality(E) = Cardinality(Draws)
  <2> HIDE DEF K
  <2> QED BY <1>9, <1>14, <1>15
<1> QED BY <1>16 DEF E

----------------------------------------------------------------------------
(* The split of a request that has its chain. *)

LEMMA SplitHolds ==
  ASSUME NEW p \in Policies, NEW r \in Requests, p.candidates # {}
  PROVE  Split(p, r)
<1> DEFINE S == p.candidates
           c == Configured(p)
           of(draws) == Ordered(p, [r EXCEPT !.draws = draws])
<1>1. Ordinary(S) /\ IsFiniteSet(S)
  BY PolicyIs DEF Ordinary
<1>2. Enumerates(c, S) /\ \A i, j \in 1..Cardinality(S) : i < j => c[i].order < c[j].order
  <2> HIDE DEF S
  <2>1. c = Sorted(S, ByOrder(S)) BY DEF Configured, S
  <2> QED BY <1>1, <2>1, InOrder
<1>3. \A d : [r EXCEPT !.draws = d].draws = d
  <2>1. "draws" \in DOMAIN r BY SelectionAssumption
  <2> QED BY <2>1
<1>4. \A d : /\ p.strategy = "weighted" => of(d) = Weighted(c, d)
             /\ p.strategy = "load_balance" => of(d) = LoadBalance(c, d)
  BY <1>3 DEF Ordered
<1> HIDE DEF of, c
<1>5. ASSUME p.strategy = "weighted", NEW x \in S
      PROVE  Cardinality({d \in Draws : Head(of(d)) = x}) * TotalWeight(S) = Cardinality(Draws) * x.weight
  <2>1. TotalWeight(S) > 0 => \E q \in 1..Grain : Grain = q * TotalWeight(S) BY <1>5, GrainAssumption
  <2>2. {d \in Draws : Head(of(d)) = x} = {d \in Draws : Head(Weighted(c, d)) = x} BY <1>4, <1>5
  <2> HIDE DEF S
  <2> QED BY <1>1, <1>2, <1>5, <2>1, <2>2, WeightedSplits
<1>6. ASSUME p.strategy = "load_balance", NEW order \in SetToSeqs(S)
      PROVE  Cardinality({d \in Draws : of(d) = order}) * Cardinality(SetToSeqs(S)) = Cardinality(Draws)
  <2>1. \A n \in 1..Cardinality(S) : \E q \in 1..Grain : Grain = q * n BY <1>6, GrainAssumption
  <2>2. {d \in Draws : of(d) = order} = {d \in Draws : LoadBalance(c, d) = order} BY <1>4, <1>6
  <2>3. S # {} OBVIOUS
  <2> HIDE DEF S
  <2> QED BY <1>1, <1>2, <1>6, <2>1, <2>2, <2>3, BalancedSplits
<1> QED BY <1>5, <1>6 DEF Split, of

LEMMA SelectInvSplits == SelectInv => \A p \in Routed : Split(p, asked)
<1> SUFFICES ASSUME SelectInv, NEW p \in Routed PROVE Split(p, asked)
  OBVIOUS
<1>1. chain # <<>> /\ p \in Policies /\ p.model = asked.model
  BY DEF Routed
<1>2. asked \in Requests
  BY <1>1 DEF SelectInv
<1>3. PICK q \in Policies : q.model = asked.model /\ chain = Ordered(q, asked)
  BY <1>1 DEF SelectInv, Accepted
<1>4. p = q
  BY <1>1, <1>3, SelectionAssumption
<1>5. p.candidates # {}
  BY <1>1, <1>3, <1>4 DEF Ordered
<1> QED BY <1>1, <1>2, <1>5, SplitHolds

----------------------------------------------------------------------------
(* The theorems. *)

\* The chain of a request holds only candidates of its policy.
THEOREM SelectTyped == SelectSpec => []SelectTypeOK
<1>1. SelectSpec => []SelectInv
  BY SelectInvInit, SelectInvNext, PTL DEF SelectSpec
<1> QED BY <1>1, SelectInvIsTyped, PTL

\* Whatever the draws, the latencies and the tag, the chain is the order that its
\* policy's strategy is named for, and holds every candidate once but for "tag".
THEOREM StrategyIsFollowed == SelectSpec => []ChainFollowsStrategy
<1>1. SelectSpec => []SelectInv
  BY SelectInvInit, SelectInvNext, PTL DEF SelectSpec
<1> QED BY <1>1, SelectInvFollows, PTL

\* A request that is accepted fits every candidate it may be sent to.
THEOREM AcceptedFitsAll == SelectSpec => []AcceptedFits
<1>1. SelectSpec => []SelectInv
  BY SelectInvInit, SelectInvNext, PTL DEF SelectSpec
<1> QED BY <1>1, SelectInvFits, PTL

\* Over all draws the split is exact, for any weights, number of candidates and Grain
\* they divide (orderWeightedCandidates and the shuffle of load_balance in domain/src/index.ts).
THEOREM SplitsAreExact == SelectSpec => [](\A p \in Routed : Split(p, asked))
<1>1. SelectSpec => []SelectInv
  BY SelectInvInit, SelectInvNext, PTL DEF SelectSpec
<1> QED BY <1>1, SelectInvSplits, PTL

\* The order of a chain is the one its strategy is named for, and the split of a
\* weighted or balanced policy is exact.
THEOREM StrategiesAreHeld == SelectSpec => []StrategiesHold
<1>1. SelectSpec => []SelectInv
  BY SelectInvInit, SelectInvNext, PTL DEF SelectSpec
<1>2. SelectInv => StrategiesHold
  BY SelectInvFollows, SelectInvSplits DEF StrategiesHold, SplitIsExact
<1> QED BY <1>1, <1>2, PTL
=============================================================================
