------------------------------ MODULE JobWake ------------------------------
(***************************************************************************)
(* When a worker process looks for a job: the timer of wake() and the      *)
(* reconnecting subscription to the channel job_created, both in           *)
(* worker-job-runner.ts.  What a claim does to the tables is JobQueue; here *)
(* a job is only due, not due or gone.                                     *)
(***************************************************************************)
EXTENDS Integers, FiniteSets

CONSTANTS
  WakeJobs,        \* jobs that may be enqueued
  Sessions,        \* bound: database sessions of the listener open at a time
  MaxTries,        \* jobs.max_attempts
  MaxLosses,       \* bound: sessions lost, connects and LISTENs that fail
  MaxWakeErrors,   \* bound: claims and settlements that throw
  NoSession

ASSUME WakeAssumption ==
  /\ NoSession \notin Sessions /\ IsFiniteSet(Sessions)
  /\ MaxTries \in Nat \ {0} /\ MaxLosses \in Nat /\ MaxWakeErrors \in Nat

VARIABLES
  wakeJobs,   \* the jobs: whether a claim would find them, and their attempts
  runner,     \* createJobRunner: its timer and its loop
  sub,        \* createResilientJobCreatedSubscription: client, reconnectTimer, stopped
  sessions,   \* the sessions connect() opened, with what they still have to deliver
  fresh,      \* jobs enqueued since the runner last began to look for one
  wakeFaults  \* faults so far

wakeVars == <<wakeJobs, runner, sub, sessions, fresh, wakeFaults>>

Delays == {"now", "backoff", "poll"}
FreeSession == [state |-> "free", inbox |-> FALSE, events |-> 0]

\* "leaked" is open, with its handlers, after its LISTEN failed; events counts
\* the 'error' and 'end' a lost session still emits.
WakeTypeOK ==
  /\ wakeJobs \in [WakeJobs -> [status : {"absent", "due", "running", "later", "done"}, tries : 0..MaxTries]]
  /\ runner \in [phase : {"new", "starting", "running", "stopped"}, timer : {"off"} \cup Delays,
                 at : {"idle", "claiming", "working"}, wakeRequested : BOOLEAN, threw : BOOLEAN]
  /\ sub \in [client : Sessions \cup {NoSession}, reconnect : BOOLEAN, stopped : BOOLEAN]
  /\ sessions \in [Sessions -> [state : {"free", "connecting", "opened", "listening", "leaked", "lost"},
                                inbox : BOOLEAN, events : 0..2]]
  /\ fresh \subseteq WakeJobs
  /\ wakeFaults \in [losses : 0..MaxLosses, errors : 0..MaxWakeErrors]

WakeInit ==
  /\ wakeJobs = [j \in WakeJobs |-> [status |-> "absent", tries |-> 0]]
  /\ runner = [phase |-> "new", timer |-> "off", at |-> "idle", wakeRequested |-> FALSE, threw |-> FALSE]
  /\ sub = [client |-> NoSession, reconnect |-> FALSE, stopped |-> FALSE]
  /\ sessions = [s \in Sessions |-> FreeSession]
  /\ fresh = {}
  /\ wakeFaults = [losses |-> 0, errors |-> 0]

RunnerStopped(r) == r.phase \in {"new", "stopped"}
Due == {j \in WakeJobs : wakeJobs[j].status = "due"}

Loses == wakeFaults.losses < MaxLosses /\ wakeFaults' = [wakeFaults EXCEPT !.losses = @ + 1]
Throws == wakeFaults.errors < MaxWakeErrors /\ wakeFaults' = [wakeFaults EXCEPT !.errors = @ + 1]

(***************************************************************************)
(* The loop.                                                               *)
(***************************************************************************)
\* A new timer replaces the one that is set; a stopped runner sets none.
schedule(r, delay) == IF RunnerStopped(r) THEN r ELSE [r EXCEPT !.timer = delay]

requestWake(r) ==
  IF r.at # "idle" THEN [r EXCEPT !.wakeRequested = TRUE] ELSE schedule(r, "now")

\* The end of wake() with a result: a request made meanwhile goes before the
\* delay the result asks for.
Rearmed(r, delay) ==
  LET idle == [r EXCEPT !.at = "idle", !.threw = FALSE]
  IN IF RunnerStopped(r) THEN idle
     ELSE IF r.wakeRequested THEN schedule([idle EXCEPT !.wakeRequested = FALSE], "now")
     ELSE schedule(idle, delay)

\* Mutation: an iteration that threw sets no timer.
CaughtQuietly(r) == [r EXCEPT !.at = "idle", !.threw = TRUE]

\* The end of wake() with an exception: wakeRequested stays as it is.
Caught(r) == schedule([r EXCEPT !.at = "idle", !.threw = TRUE], "poll")

\* A job is inserted; its transaction notifies every session that listens.
Enqueued(j) ==
  /\ wakeJobs[j].status = "absent"
  /\ wakeJobs' = [wakeJobs EXCEPT ![j].status = "due"]
  /\ fresh' = fresh \cup {j}
  /\ sessions' = [s \in Sessions |-> [sessions[s] EXCEPT !.inbox = @ \/ sessions[s].state = "listening"]]
  /\ UNCHANGED <<runner, sub, wakeFaults>>

\* run_after, or an expired lease, lets a job be claimed again: nothing notifies.
ComesDue(j) ==
  /\ wakeJobs[j].status = "later"
  /\ wakeJobs' = [wakeJobs EXCEPT ![j].status = "due"]
  /\ UNCHANGED <<runner, sub, sessions, fresh, wakeFaults>>

\* The timer fires and the claim is sent.
Wake ==
  /\ runner.timer # "off" /\ runner.at = "idle"
  /\ runner' = [runner EXCEPT !.timer = "off", !.at = "claiming"]
  /\ fresh' = {}
  /\ UNCHANGED <<wakeJobs, sub, sessions, wakeFaults>>

\* The claim is answered: with a job, or with none and the loop waits for the poll.
ClaimAnswered ==
  /\ runner.at = "claiming"
  /\ \/ \E j \in Due :
          /\ wakeJobs' = [wakeJobs EXCEPT ![j] = [status |-> "running", tries |-> @.tries + 1]]
          /\ fresh' = fresh \ {j}
          /\ runner' = [runner EXCEPT !.at = "working"]
     \/ /\ Due = {} /\ runner' = Rearmed(runner, "poll")
        /\ UNCHANGED <<wakeJobs, fresh>>
  /\ UNCHANGED <<sub, sessions, wakeFaults>>

\* The claim throws; had it committed, the job it took is free when the lease ends.
ClaimThrows ==
  /\ runner.at = "claiming" /\ Throws
  /\ runner' = Caught(runner)
  /\ \/ UNCHANGED <<wakeJobs, fresh>>
     \/ \E j \in Due : /\ wakeJobs[j].tries < MaxTries - 1
                       /\ wakeJobs' = [wakeJobs EXCEPT ![j] = [status |-> "later", tries |-> @.tries + 1]]
                       /\ fresh' = fresh \ {j}
  /\ UNCHANGED <<sub, sessions>>

\* The job ends and is settled.  The backoff of its retry is the loop's delay too.
JobEnds(j) ==
  /\ runner.at = "working" /\ wakeJobs[j].status = "running"
  /\ \/ /\ wakeJobs' = [wakeJobs EXCEPT ![j].status = "done"]
        /\ runner' = Rearmed(runner, "now")
     \/ /\ wakeJobs[j].tries < MaxTries
        /\ wakeJobs' = [wakeJobs EXCEPT ![j].status = "later"]
        /\ runner' = Rearmed(runner, "backoff")
  /\ UNCHANGED <<sub, sessions, fresh, wakeFaults>>

\* The settlement throws: the lease of the job runs out.
SettleThrows(j) ==
  /\ runner.at = "working" /\ wakeJobs[j].status = "running" /\ Throws
  /\ wakeJobs' = [wakeJobs EXCEPT ![j].status = IF @ = "running" /\ wakeJobs[j].tries < MaxTries THEN "later" ELSE "done"]
  /\ runner' = Caught(runner)
  /\ UNCHANGED <<sub, sessions, fresh>>

(***************************************************************************)
(* The subscription.                                                       *)
(***************************************************************************)
\* What connectOnce does once the LISTEN is answered.
GapCovered(r) == requestWake(r)

\* handleDisconnect, from whichever session it is called: the current client is
\* dropped, unless the subscription is stopped, and a reconnect is scheduled.
handleDisconnect(b) == IF b.stopped THEN b ELSE [b EXCEPT !.client = NoSession, !.reconnect = TRUE]

\* start() waits for the first connectOnce, however it ends, and schedules.
FirstSettled(r) == IF r.phase = "starting" THEN schedule([r EXCEPT !.phase = "running"], "now") ELSE r

StartRunner ==
  /\ runner.phase = "new"
  /\ runner' = [runner EXCEPT !.phase = "starting"]
  /\ \E s \in Sessions : sessions' = [sessions EXCEPT ![s].state = "connecting"]
  /\ UNCHANGED <<wakeJobs, sub, fresh, wakeFaults>>

\* reconnectTimer fires.
Reconnect(s) ==
  /\ sub.reconnect /\ sessions[s] = FreeSession
  /\ sub' = [sub EXCEPT !.reconnect = FALSE]
  /\ sessions' = [sessions EXCEPT ![s].state = "connecting"]
  /\ UNCHANGED <<wakeJobs, runner, fresh, wakeFaults>>

\* connect() returns: the session becomes the client, or is closed after stop().
Connected(s) ==
  /\ sessions[s].state = "connecting"
  /\ IF sub.stopped
     THEN sessions' = [sessions EXCEPT ![s] = FreeSession] /\ UNCHANGED sub
     ELSE /\ sessions' = [sessions EXCEPT ![s].state = "opened"]
          /\ sub' = [sub EXCEPT !.client = s]
  /\ UNCHANGED <<wakeJobs, runner, fresh, wakeFaults>>

SessionFails(s) ==
  /\ sessions[s].state = "connecting" /\ Loses
  /\ sessions' = [sessions EXCEPT ![s] = FreeSession]
  /\ sub' = handleDisconnect(sub)
  /\ runner' = FirstSettled(runner)
  /\ UNCHANGED <<wakeJobs, fresh>>

\* LISTEN is answered: what was enqueued before it is looked for now.
Listening(s) ==
  /\ sessions[s].state = "opened"
  /\ sessions' = [sessions EXCEPT ![s].state = "listening"]
  /\ runner' = FirstSettled(GapCovered(runner))
  /\ UNCHANGED <<wakeJobs, sub, fresh, wakeFaults>>

\* LISTEN fails; nothing closes the session, which may live on or be lost.
ListenFails(s) ==
  /\ sessions[s].state = "opened" /\ Loses
  /\ \/ sessions' = [sessions EXCEPT ![s].state = "leaked"]
     \/ sessions' = [sessions EXCEPT ![s] = [state |-> "lost", inbox |-> FALSE, events |-> 2]]
  /\ sub' = handleDisconnect(sub)
  /\ runner' = FirstSettled(runner)
  /\ UNCHANGED <<wakeJobs, fresh>>

\* A notification is delivered to the handler of the session.
JobHeard(s) ==
  /\ sessions[s].state = "listening" /\ sessions[s].inbox
  /\ sessions' = [sessions EXCEPT ![s].inbox = FALSE]
  /\ runner' = requestWake(runner)
  /\ UNCHANGED <<wakeJobs, sub, fresh, wakeFaults>>

\* A session breaks, with what it had not delivered, or ends quietly.
SessionLost(s) ==
  /\ sessions[s].state \in {"listening", "leaked"} /\ Loses
  /\ \E events \in {1, 2} :
       sessions' = [sessions EXCEPT ![s] = [state |-> "lost", inbox |-> FALSE, events |-> events]]
  /\ UNCHANGED <<wakeJobs, runner, sub, fresh>>

\* 'error' or 'end' of a lost session, which may come after its replacement.
LossHeard(s) ==
  /\ sessions[s].events > 0
  /\ sessions' = [sessions EXCEPT ![s] = IF @.events = 1 THEN FreeSession
                                         ELSE [@ EXCEPT !.events = sessions[s].events - 1]]
  /\ sub' = handleDisconnect(sub)
  /\ UNCHANGED <<wakeJobs, runner, fresh, wakeFaults>>

\* stop(), after start() returned: the timers are cleared and the current session
\* is closed without its handlers; a session that was dropped is not.
StopRunner ==
  /\ runner.phase = "running"
  /\ runner' = [runner EXCEPT !.phase = "stopped", !.timer = "off"]
  /\ sub' = [client |-> NoSession, reconnect |-> FALSE, stopped |-> TRUE]
  /\ sessions' = [s \in Sessions |-> IF s = sub.client THEN FreeSession ELSE sessions[s]]
  /\ UNCHANGED <<wakeJobs, fresh, wakeFaults>>

WakeNext ==
  \/ StartRunner \/ StopRunner \/ Wake \/ ClaimAnswered \/ ClaimThrows
  \/ \E j \in WakeJobs : Enqueued(j) \/ ComesDue(j) \/ JobEnds(j) \/ SettleThrows(j)
  \/ \E s \in Sessions :
       \/ Reconnect(s) \/ Connected(s) \/ SessionFails(s) \/ Listening(s) \/ ListenFails(s)
       \/ JobHeard(s) \/ SessionLost(s) \/ LossHeard(s)

\* A timer that is set fires, calls are answered and jobs end.  No session has
\* to come back: the poll alone must find the jobs.
WakeFairness ==
  /\ WF_wakeVars(Wake) /\ WF_wakeVars(ClaimAnswered)
  /\ \A j \in WakeJobs : WF_wakeVars(JobEnds(j))
  /\ \A s \in Sessions : WF_wakeVars(Connected(s)) /\ WF_wakeVars(Listening(s))

WakeSpec == WakeInit /\ [][WakeNext]_wakeVars /\ WakeFairness

(***************************************************************************)
(* Properties.                                                             *)
(***************************************************************************)
\* Some session listens and has delivered everything it was sent.
Hears == \E s \in Sessions : sessions[s].state = "listening" /\ ~sessions[s].inbox

\* The runner will look again without waiting; one whose last iteration threw
\* waits for the poll, by design of the catch block.
WakeOwed ==
  \/ runner.timer = "now"
  \/ runner.wakeRequested /\ (runner.at # "idle" \/ runner.threw)
  \/ runner.threw /\ runner.timer = "poll"

\* A running worker that hears the channel never sits on a job that was enqueued
\* after it last looked: not when the notification came during an iteration, in
\* the gap before a LISTEN, on a session that was dropped, or before a backoff.
NoWakeLost == runner.phase = "running" /\ Hears /\ fresh \cap Due # {} => WakeOwed

\* Whatever throws and whichever sessions are lost, a due job is claimed unless
\* the worker is stopped: no path leaves the loop without a timer.
DueIsClaimed ==
  \A j \in WakeJobs :
    []<>(runner.phase # "running" \/ wakeJobs[j].status # "due")

\* Due jobs are taken: at once when the worker hears of them, and in the end always.
JobsAreTaken == []NoWakeLost /\ DueIsClaimed
=============================================================================
